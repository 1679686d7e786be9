------------------------- MODULE RateLimiter_proofs -------------------------
(***************************************************************************)
(* Proofs about RateLimiter.  Full, Cost and the products with Rate are    *)
(* kept folded: the lemmas below say what the steps need of them.          *)
(***************************************************************************)
EXTENDS RateLimiter, TLAPS

USE NumbersAssumption

(* A full bucket holds a request's worth, and so does, with the Surplus,   *)
(* one that was refilled for longer than the TTL.                          *)
LEMMA Worths ==
    /\ Cost \in Nat /\ Full \in Nat /\ Cost <= Full
    /\ Rate \in Nat /\ Rate >= 1 /\ Surplus \in Nat
    /\ \A d \in Int : d >= Ttl + 1 => Rate * d + Surplus >= Full
<1>1. Cost \in Nat /\ Rate \in Nat /\ Rate >= 1
  BY DEF Cost, Rate
<1>2. Capacity * Cost >= Cost /\ Capacity * Cost \in Nat
  BY <1>1
<1> HIDE DEF Cost, Rate
<1>3. Rate * (Ttl + 1) \in Nat
  BY <1>1
<1>4. Full \in Nat /\ Surplus \in Nat /\ Rate * (Ttl + 1) + Surplus >= Full
  BY <1>1, <1>2, <1>3 DEF Full, Surplus, Most
<1>5. ASSUME NEW d \in Int, d >= Ttl + 1 PROVE Rate * d + Surplus >= Full
  <2>1. Rate * d >= Rate * (Ttl + 1) /\ Rate * d \in Int
    BY <1>1, <1>5
  <2> QED BY <1>3, <1>4, <2>1
<1> QED BY <1>1, <1>2, <1>4, <1>5 DEF Full

(* Refill is proportional to time.                                         *)
LEMMA Refills ==
    ASSUME NEW m \in Int, NEW n \in Int
    PROVE  /\ Rate * m \in Int
           /\ Rate * (m + n) = Rate * m + Rate * n
           /\ Rate * (m - n) = Rate * m - Rate * n
           /\ m <= n => Rate * m <= Rate * n
BY Worths

(* Rounding up.                                                            *)
LEMMA RoundedUp ==
    ASSUME NEW n \in Nat, NEW d \in Nat \ {0}
    PROVE  /\ (n + d - 1) \div d \in Nat
           /\ d * ((n + d - 1) \div d) >= n
OBVIOUS

(* What a client lacks is there after the Retry-After it is told, but for  *)
(* a unit.                                                                 *)
LEMMA RetryAfterSuffices ==
    ASSUME NEW tokens \in Nat, tokens < Cost, NEW seconds \in RetryAfter(tokens)
    PROVE  /\ seconds \in Nat
           /\ seconds * Second \in Nat
           /\ tokens + Rate * (seconds * Second) >= Cost - 1
<1>1. Rate * Second \in Nat \ {0} /\ Rate \in Nat /\ Cost \in Nat
  BY Worths
<1>2. PICK n \in (Cost - tokens - 1)..(Cost - tokens + 1) :
        seconds = Most(1, (n + Rate * Second - 1) \div (Rate * Second))
  BY DEF RetryAfter
<1>3. n \in Nat /\ n >= Cost - tokens - 1
  BY <1>1
<1> DEFINE d == Rate * Second
           q == (n + d - 1) \div d
<1>4. q \in Nat /\ d * q >= n
  BY <1>1, <1>3, RoundedUp
<1>5. seconds \in Nat /\ seconds >= q
  BY <1>2, <1>4 DEF Most
<1>6. d \in Nat
  BY <1>1
<1> HIDE DEF d, q
<1>7. d * seconds >= d * q /\ d * seconds \in Nat /\ d * q \in Nat
  BY <1>4, <1>5, <1>6
<1>8. d * seconds = Rate * (seconds * Second)
  BY <1>1, <1>5 DEF d
<1> QED BY <1>1, <1>3, <1>4, <1>5, <1>7, <1>8

-----------------------------------------------------------------------------
(* Types.                                                                  *)

(* A refilled bucket holds the refill, give or take a unit.                *)
LEMMA RefilledType ==
    ASSUME NEW b, b.tokens \in 0..Full, b.last_update \in Nat, NEW at \in Nat,
           NEW tokens \in Refilled(b, at)
    PROVE  /\ tokens \in 0..Full
           /\ tokens >= b.tokens
           /\ at <= b.last_update => tokens = b.tokens
           /\ at > b.last_update =>
                /\ tokens <= b.tokens + Rate * (at - b.last_update) + 1
                /\ tokens = Full \/ tokens >= b.tokens + Rate * (at - b.last_update) - 1
<1> DEFINE d == Since(at, b.last_update)
<1>1. d \in Nat /\ (d = 0 <=> at <= b.last_update) /\ (d # 0 => d = at - b.last_update)
  BY DEF Since
<1>2. PICK n \in Sums(b.tokens, d) : tokens = Least(Full, n)
  BY DEF Refilled
<1> HIDE DEF d
<1>3. Rate * d \in Nat /\ (d # 0 => Rate * d >= 1)
  BY <1>1, Worths
<1>4. n \in Nat /\ n >= b.tokens
  BY <1>1, <1>2, <1>3, Worths DEF Sums
<1>5. CASE d = 0
  <2>1. n = b.tokens
    BY <1>2, <1>5 DEF Sums
  <2> QED BY <1>1, <1>2, <1>5, <2>1, Worths DEF Least
<1>6. CASE d # 0
  <2>1. n \in (b.tokens + Rate * d - 1)..(b.tokens + Rate * d + 1)
    BY <1>1, <1>2, <1>3, <1>6, Worths DEF Sums
  <2> DEFINE r == Rate * d
  <2>2. r \in Nat /\ n \in (b.tokens + r - 1)..(b.tokens + r + 1)
    BY <1>3, <2>1
  <2>3. at > b.last_update /\ r = Rate * (at - b.last_update)
    BY <1>1, <1>6
  <2> HIDE DEF r
  <2>4. /\ tokens \in 0..Full /\ tokens >= b.tokens
        /\ tokens <= b.tokens + r + 1
        /\ tokens = Full \/ tokens >= b.tokens + r - 1
    BY <1>2, <1>4, <2>2, Worths DEF Least
  <2> QED BY <2>3, <2>4
<1> QED BY <1>5, <1>6

(* The entry a request finds is a bucket of its client's.                  *)
LEMMA EntryType ==
    ASSUME TypeOK, NEW w \in Workers, worker[w].pc = "consume"
    PROVE  /\ worker[w].client \in Clients \cup {NoClient}
           /\ worker[w].at \in 0..now
           /\ worker[w].client \in Clients =>
                /\ Entry(w).tokens \in 0..Full
                /\ Entry(w).last_update \in 0..now
                /\ Refilled(Entry(w), worker[w].at) \subseteq 0..Full
<1>1. worker[w].client \in Clients \cup {NoClient} /\ worker[w].at \in 0..now
  BY DEF TypeOK
<1>2. ASSUME worker[w].client \in Clients
      PROVE Entry(w).tokens \in 0..Full /\ Entry(w).last_update \in 0..now
  BY <1>2, Worths DEF TypeOK, Entry
<1> QED BY <1>1, <1>2, RefilledType DEF TypeOK

(* What a refusal does.                                                    *)
LEMMA Refusal ==
    ASSUME NEW w \in Workers, Refuse(w), Entry(w).tokens \in 0..Full,
           Entry(w).last_update \in Nat, worker[w].at \in Nat
    PROVE  \E tokens \in Refilled(Entry(w), worker[w].at), seconds \in Nat :
             /\ seconds \in RetryAfter(tokens) /\ tokens < Cost /\ Apply(w, tokens)
             /\ promised' = IF worker[w].client # watched THEN promised
                            ELSE IF promised = Never THEN worker[w].at + seconds * Second
                            ELSE Least(promised, worker[w].at + seconds * Second)
<1>1. PICK tokens \in Refilled(Entry(w), worker[w].at) :
        /\ tokens < Cost /\ Apply(w, tokens)
        /\ \E seconds \in RetryAfter(tokens) :
             promised' = IF worker[w].client # watched THEN promised
                         ELSE IF promised = Never THEN worker[w].at + seconds * Second
                         ELSE Least(promised, worker[w].at + seconds * Second)
  BY DEF Refuse
<1>2. tokens \in Nat
  BY RefilledType, Worths
<1> QED BY <1>1, <1>2, RetryAfterSuffices

(* A worker in the middle of a request knows whose it is.                  *)
ClientKnown == \A w \in Workers : worker[w].pc # "idle" => worker[w].client \in Clients

LEMMA ApplyType ==
    ASSUME TypeOK, ClientKnown, NEW w \in Workers, worker[w].pc = "consume",
           NEW tokens \in 0..Full, Apply(w, tokens)
    PROVE  /\ now' = now /\ since' = since /\ watched' = watched
           /\ present' \subseteq Clients
           /\ bucket' \in [Clients -> [tokens: 0..Full, last_update: 0..now]]
           /\ worker' \in [Workers -> [pc: {"idle", "sweep", "consume"},
                                       client: Clients \cup {NoClient}, at: 0..now,
                                       unswept: SUBSET Clients]]
           /\ \A v \in Workers : worker'[v].pc # "idle" => worker'[v] = worker[v]
           /\ applied' \in 0..now
           /\ rewound' \in Nat /\ rounded' \in Nat /\ forgotten' = forgotten
<1> DEFINE c == worker[w].client
           at == worker[w].at
<1>1. c \in Clients /\ at \in 0..now /\ now \in Nat
  BY DEF ClientKnown, TypeOK
<1>2. bucket' \in [Clients -> [tokens: 0..Full, last_update: 0..now]]
  BY <1>1 DEF Apply, TypeOK
<1>3. Idle \in [pc: {"idle", "sweep", "consume"}, client: Clients \cup {NoClient},
                at: 0..now, unswept: SUBSET Clients]
  BY <1>1 DEF Idle
<1>4. worker' = [worker EXCEPT ![w] = Idle]
  BY DEF Apply
<1>5. /\ worker' \in [Workers -> [pc: {"idle", "sweep", "consume"},
                                 client: Clients \cup {NoClient}, at: 0..now,
                                 unswept: SUBSET Clients]]
      /\ \A v \in Workers : worker'[v].pc # "idle" => worker'[v] = worker[v]
  BY <1>3, <1>4 DEF TypeOK, Idle
<1>6. applied' \in 0..now /\ rewound' \in Nat /\ rounded' \in Nat
  BY <1>1 DEF Apply, TypeOK, Since
<1> QED BY <1>1, <1>2, <1>5, <1>6 DEF Apply, TypeOK

LEMMA InitTypes == Init => TypeOK /\ ClientKnown
BY Worths DEF Init, TypeOK, ClientKnown, NoEntry, Idle, Never

LEMMA StepTypes == TypeOK /\ ClientKnown /\ [Next]_vars => TypeOK' /\ ClientKnown'
<1> SUFFICES ASSUME TypeOK, ClientKnown, [Next]_vars PROVE TypeOK' /\ ClientKnown'
  OBVIOUS
<1>1. ASSUME NEW w \in Workers, NEW caller \in Callers, Begin(w, caller)
      PROVE TypeOK' /\ ClientKnown'
  <2>1. ClientId(caller) \in Clients
    BY DEF Clients
  <2> QED BY <1>1, <2>1 DEF Begin, TypeOK, ClientKnown, history
<1>2. ASSUME NEW w \in Workers, NEW c \in Clients, Sweep(w, c)
      PROVE TypeOK' /\ ClientKnown'
  <2>1. worker[w] \in [pc: {"idle", "sweep", "consume"}, client: Clients \cup {NoClient},
                       at: 0..now, unswept: SUBSET Clients]
    BY DEF TypeOK
  <2>2. NoEntry \in [tokens: 0..Full, last_update: 0..now]
    BY Worths DEF NoEntry, TypeOK
  <2>3. bucket' \in [Clients -> [tokens: 0..Full, last_update: 0..now]]
    BY <1>2, <2>2 DEF Sweep, TypeOK
  <2>4. /\ worker' \in [Workers -> [pc: {"idle", "sweep", "consume"},
                                   client: Clients \cup {NoClient}, at: 0..now,
                                   unswept: SUBSET Clients]]
        /\ \A v \in Workers : /\ worker'[v].pc # "idle" <=> worker[v].pc # "idle"
                              /\ worker'[v].at = worker[v].at
                              /\ worker'[v].client = worker[v].client
    BY <1>2, <2>1 DEF Sweep, TypeOK
  <2>5. /\ present' \subseteq Clients /\ applied' \in 0..now /\ now' = now
        /\ forgotten' \in Nat
    BY <1>2, <2>1 DEF Sweep, TypeOK
  <2>6. UNCHANGED <<now, watched, since, admitted, rewound, rounded, promised>>
    BY <1>2 DEF Sweep
  <2>7. TypeOK'
    BY <2>3, <2>4, <2>5, <2>6 DEF TypeOK
  <2> QED BY <2>4, <2>7 DEF ClientKnown
<1>3. ASSUME NEW w \in Workers, Admit(w)
      PROVE TypeOK' /\ ClientKnown'
  <2>1. PICK tokens \in Refilled(Entry(w), worker[w].at) :
          tokens >= Cost /\ Apply(w, tokens - Cost)
    BY <1>3 DEF Admit
  <2>2. worker[w].pc = "consume" /\ tokens \in 0..Full
    BY <1>3, EntryType DEF Admit, ClientKnown
  <2>3. tokens - Cost \in 0..Full
    BY <2>1, <2>2, Worths
  <2>4. admitted' \in Nat /\ promised' \in Nat \cup {Never}
    BY <1>3 DEF Admit, TypeOK
  <2> QED BY <2>1, <2>2, <2>3, <2>4, ApplyType DEF TypeOK, ClientKnown
<1>4. ASSUME NEW w \in Workers, Refuse(w)
      PROVE TypeOK' /\ ClientKnown'
  <2>1. PICK tokens \in Refilled(Entry(w), worker[w].at), seconds \in Nat :
          /\ seconds \in RetryAfter(tokens) /\ tokens < Cost /\ Apply(w, tokens)
          /\ promised' = IF worker[w].client # watched THEN promised
                         ELSE IF promised = Never THEN worker[w].at + seconds * Second
                         ELSE Least(promised, worker[w].at + seconds * Second)
    BY <1>4, EntryType, Refusal DEF Refuse, ClientKnown, TypeOK
  <2>2. worker[w].pc = "consume" /\ tokens \in 0..Full /\ admitted' = admitted
    BY <1>4, EntryType DEF Refuse, ClientKnown
  <2>3. seconds * Second \in Nat
    BY <2>1, <2>2, RetryAfterSuffices, Worths
  <2>4. promised' \in Nat \cup {Never}
    <3> DEFINE wait == seconds * Second
               until == worker[w].at + wait
    <3>1. until \in Nat
      <4>1. wait \in Nat /\ worker[w].at \in Nat
        BY <2>3 DEF TypeOK
      <4> HIDE DEF wait
      <4> QED BY <4>1
    <3>2. promised' \in {promised, until}
      BY <2>1 DEF Least
    <3> QED BY <3>1, <3>2 DEF TypeOK
  <2> QED BY <2>1, <2>2, <2>4, ApplyType DEF TypeOK, ClientKnown
<1>5. CASE Tick
  BY <1>5 DEF Tick, TypeOK, ClientKnown, history
<1>6. CASE Watch
  BY <1>6 DEF Watch, TypeOK, ClientKnown
<1>7. CASE UNCHANGED vars
  BY <1>7 DEF vars, history, TypeOK, ClientKnown
<1> QED BY <1>1, <1>2, <1>3, <1>4, <1>5, <1>6, <1>7 DEF Next

(* Every variable keeps its type: no bucket overflows or is overdrawn, and *)
(* no request is applied with an instant older than MaxDelay.              *)
THEOREM RateLimiterTypes == Spec => []TypeOK
<1> QED BY InitTypes, StepTypes, PTL DEF Spec

-----------------------------------------------------------------------------
(* The window.                                                             *)

(* What the window has let through, and what is left in the bucket, is at  *)
(* most a full bucket, the refill up to the instant last applied, and what *)
(* rounding and being forgotten have given.                                *)
Gone == watched \notin present
Held == IF Gone THEN Full ELSE bucket[watched].tokens
Span == applied - since + MaxDelay + rewound
Allowed == Full + Rate * Span + rounded + forgotten * Surplus

Timely == applied >= since - MaxDelay
Budget == admitted = 0 \/ (Timely /\ admitted * Cost + Held <= Allowed)

(* Between two sweeps that forgot the client more than a TTL has passed.   *)
Seldom == forgotten = 0 \/ (Timely /\ (forgotten - 1) * (Ttl + 1) <= Span)

(* What a refused client was told is what its bucket says.                 *)
Owed == promised # Never /\ ~Gone =>
    bucket[watched].tokens + Rate * (promised - bucket[watched].last_update)
      >= Cost - rounded - 1

Stamped == ~Gone => applied = bucket[watched].last_update

WInv == TypeOK /\ ClientKnown /\ Stamped /\ Budget /\ Seldom /\ Owed

(* Consuming for another client leaves the watched one's entry alone.      *)
LEMMA OthersApply ==
    ASSUME TypeOK, ClientKnown, NEW w \in Workers, NEW tokens,
           worker[w].pc = "consume", worker[w].client # watched, Apply(w, tokens)
    PROVE  /\ Gone' = Gone /\ bucket'[watched'] = bucket[watched]
           /\ UNCHANGED <<applied, rewound, rounded, forgotten, since, watched>>
BY DEF Apply, Gone, TypeOK, ClientKnown

LEMMA OthersWInv ==
    ASSUME WInv, NEW w \in Workers, NEW tokens, worker[w].pc = "consume",
           worker[w].client # watched, Apply(w, tokens), UNCHANGED <<admitted, promised>>
    PROVE  Stamped' /\ Budget' /\ Seldom' /\ Owed'
<1>1. /\ Gone' = Gone /\ bucket'[watched'] = bucket[watched]
      /\ UNCHANGED <<applied, rewound, rounded, forgotten, since, watched>>
  BY OthersApply DEF WInv
<1>2. Held' = Held /\ Span' = Span /\ Timely' = Timely
  BY <1>1 DEF Held, Span, Timely
<1>3. Allowed' = Allowed
  BY <1>1, <1>2 DEF Allowed
<1> QED BY <1>1, <1>2, <1>3 DEF WInv, Stamped, Budget, Seldom, Owed

(* The watched client's entry after a request for it.                      *)
LEMMA OwnApply ==
    ASSUME TypeOK, ClientKnown, NEW w \in Workers, NEW tokens,
           worker[w].pc = "consume", worker[w].client = watched, Apply(w, tokens)
    PROVE  /\ ~Gone' /\ watched' = watched /\ since' = since /\ forgotten' = forgotten
           /\ bucket'[watched'] = [tokens |-> tokens, last_update |-> worker[w].at]
           /\ applied' = worker[w].at
           /\ rewound' = rewound + Since(applied, worker[w].at)
           /\ rounded' = IF worker[w].at <= Entry(w).last_update THEN rounded ELSE rounded + 1
<1>1. worker[w].at \in Nat /\ Entry(w).last_update \in Nat
  BY EntryType DEF TypeOK, ClientKnown
<1>2. Since(worker[w].at, Entry(w).last_update) = 0 <=> worker[w].at <= Entry(w).last_update
  BY <1>1 DEF Since
<1> QED BY <1>2 DEF Apply, Gone, TypeOK, ClientKnown

(* An instant that is applied makes the span no shorter.                   *)
LEMMA OwnSpan ==
    ASSUME WInv, NEW w \in Workers, NEW tokens, worker[w].pc = "consume",
           worker[w].client = watched, Apply(w, tokens)
    PROVE  /\ Span \in Int /\ Span' \in Nat /\ Span' >= Span /\ Timely'
           /\ worker[w].at > applied => Span' = Span + (worker[w].at - applied)
           /\ Rate * Span \in Int /\ Rate * Span' \in Nat /\ Rate * Span <= Rate * Span'
<1> DEFINE at == worker[w].at
<1>1. /\ at \in 0..now /\ now \in Nat /\ since \in 0..now /\ now <= at + MaxDelay
      /\ applied \in 0..now /\ rewound \in Nat
  BY DEF WInv, TypeOK
<1>2. /\ applied' = at /\ rewound' = rewound + Since(applied, at) /\ since' = since
  BY OwnApply DEF WInv
<1>3. /\ Span \in Int /\ Span' \in Nat /\ Span' >= Span /\ Timely'
      /\ at > applied => Span' = Span + (at - applied)
  BY <1>1, <1>2 DEF Span, Since, Timely
<1> HIDE DEF at
<1> DEFINE m == Span
           n == Span'
<1>4. m \in Int /\ n \in Nat /\ n >= m
  BY <1>3
<1> HIDE DEF m, n
<1>5. Rate * m \in Int /\ Rate * n \in Nat /\ Rate * m <= Rate * n
  BY <1>4, Refills, Worths
<1> QED BY <1>3, <1>5 DEF at, m, n

(* What forgetting has given so far.                                       *)
LEMMA Spills ==
    ASSUME TypeOK
    PROVE  /\ forgotten * Surplus \in Nat
           /\ (forgotten + 1) * Surplus = forgotten * Surplus + Surplus
           /\ rounded \in Nat /\ admitted * Cost \in Nat
           /\ (admitted + 1) * Cost = admitted * Cost + Cost
           /\ admitted = 0 => admitted * Cost = 0
BY Worths DEF TypeOK

(* What a request finds: no more than the budget leaves it.                *)
LEMMA FoundInBudget ==
    ASSUME WInv, NEW w \in Workers, worker[w].pc = "consume", worker[w].client = watched,
           NEW tokens \in Refilled(Entry(w), worker[w].at),
           NEW left, Apply(w, left)
    PROVE  admitted * Cost + tokens <= Allowed' /\ Allowed' \in Int /\ tokens \in 0..Full
<1> DEFINE at == worker[w].at
           e == Entry(w)
<1>1. /\ at \in Nat /\ tokens \in 0..Full
      /\ e.tokens \in 0..Full /\ e.last_update \in Nat /\ applied \in Nat
      /\ admitted * Cost \in Nat /\ forgotten * Surplus \in Nat /\ rounded \in Nat
  BY EntryType, Spills DEF WInv, ClientKnown, TypeOK
<1>2. /\ Span \in Int /\ Span' \in Nat
      /\ at > applied => Span' = Span + (at - applied)
      /\ Rate * Span \in Int /\ Rate * Span' \in Nat /\ Rate * Span <= Rate * Span'
  BY OwnSpan
<1>3. /\ forgotten' * Surplus = forgotten * Surplus
      /\ rounded' = IF at <= e.last_update THEN rounded ELSE rounded + 1
  BY OwnApply DEF WInv
<1>4. Allowed' = Full + Rate * Span' + rounded' + forgotten * Surplus
  BY <1>3 DEF Allowed
<1> DEFINE before == Rate * Span
           after == Rate * Span'
           spilt == forgotten * Surplus
           spent == admitted * Cost
           gained == Rate * (at - applied)
           errors == rounded'
           limit == Allowed'
<1>5. /\ before \in Int /\ after \in Nat /\ before <= after /\ spilt \in Nat /\ spent \in Nat
      /\ limit = Full + after + errors + spilt
      /\ admitted = 0 => spent = 0
      /\ admitted # 0 => spent + Held <= Full + before + rounded + spilt
  BY <1>1, <1>2, <1>4, Spills DEF WInv, Budget, Allowed
<1>6. at > applied => gained \in Int /\ after = before + gained
  <2> DEFINE m == Span
             n == at - applied
  <2>1. m \in Int /\ n \in Int /\ (at > applied => Span' = m + n)
    BY <1>1, <1>2
  <2> HIDE DEF m, n
  <2>2. Rate * n \in Int /\ Rate * (m + n) = Rate * m + Rate * n
    BY <2>1, Refills
  <2> QED BY <2>1, <2>2 DEF m, n
<1>7. /\ Gone => Held = Full
      /\ ~Gone => Held = e.tokens /\ e.last_update = applied
  BY DEF WInv, Stamped, Held, Entry, Gone
<1>8. /\ at <= e.last_update => tokens = e.tokens
      /\ at > e.last_update => tokens <= e.tokens + Rate * (at - e.last_update) + 1
  BY <1>1, RefilledType
<1>9. /\ ~Gone /\ at <= applied => tokens = e.tokens
      /\ ~Gone /\ at > applied => tokens <= e.tokens + gained + 1 /\ errors = rounded + 1
  BY <1>1, <1>3, <1>7, <1>8
<1>10. /\ rounded \in Nat /\ errors \in Nat /\ rounded <= errors /\ Full \in Nat
       /\ tokens \in 0..Full /\ e.tokens \in 0..Full /\ at \in Nat /\ applied \in Nat
  BY <1>1, <1>3, Worths
<1> HIDE DEF before, after, spilt, spent, gained, errors, limit, at, e
<1>11. limit \in Int /\ limit >= Full
  BY <1>5, <1>10
<1>12. admitted = 0 \/ Gone => spent + tokens <= limit
  BY <1>5, <1>7, <1>10
<1>13. admitted # 0 /\ ~Gone /\ at <= applied => spent + tokens <= limit
  BY <1>5, <1>7, <1>9, <1>10
<1>14. admitted # 0 /\ ~Gone /\ at > applied => spent + tokens <= limit
  BY <1>5, <1>6, <1>7, <1>9, <1>10
<1>15. spent + tokens <= limit
  BY <1>10, <1>12, <1>13, <1>14
<1> QED BY <1>10, <1>11, <1>15 DEF spent, limit

LEMMA InitWInv == Init => WInv
<1> SUFFICES ASSUME Init PROVE WInv
  OBVIOUS
<1>1. TypeOK /\ ClientKnown
  BY InitTypes
<1> QED BY <1>1 DEF Init, WInv, Stamped, Budget, Seldom, Owed, Gone

LEMMA SweepWInv ==
    ASSUME WInv, NEW w \in Workers, NEW c \in Clients, Sweep(w, c)
    PROVE  Stamped' /\ Budget' /\ Seldom' /\ Owed'
<1> DEFINE at == worker[w].at
           b == bucket[watched]
<1>1. /\ at \in 0..now /\ now \in Nat /\ since \in 0..now /\ now <= at + MaxDelay
      /\ applied \in 0..now /\ rewound \in Nat /\ admitted \in Nat /\ forgotten \in Nat
      /\ watched \in Clients /\ b.tokens \in 0..Full /\ b.last_update \in 0..now
  BY DEF WInv, TypeOK, Sweep
<1>2. UNCHANGED <<now, watched, since, admitted, rewound, rounded, promised>>
  BY DEF Sweep
<1>3. CASE c = watched /\ ~Gone /\ IsStale(b, at)
  <2>1. Gone' /\ applied' = at /\ forgotten' = forgotten + 1
    BY <1>1, <1>2, <1>3 DEF Sweep, Gone
  <2>2. applied = b.last_update /\ at > applied + Ttl
    BY <1>1, <1>3 DEF WInv, Stamped, IsStale
  <2>3. Timely'
    BY <1>1, <1>2, <2>1 DEF Timely
  <2>4. /\ Span \in Int /\ Span' \in Nat /\ at - applied \in Nat
        /\ Span' = Span + (at - applied) /\ at - applied >= Ttl + 1
    BY <1>1, <1>2, <2>1, <2>2 DEF Span
  <2>5. ASSUME admitted # 0 PROVE admitted * Cost + Full <= Allowed'
    <3>1. admitted * Cost + b.tokens <= Full + Rate * Span + rounded + forgotten * Surplus
      BY <1>3, <2>5 DEF WInv, Budget, Held, Allowed
    <3>2. Allowed' = Full + Rate * Span' + rounded + (forgotten + 1) * Surplus
      BY <1>2, <2>1 DEF Allowed
    <3>3. /\ Rate * Span' = Rate * Span + Rate * (at - applied)
          /\ Rate * (at - applied) \in Int /\ Rate * Span \in Int
      BY <2>4, Refills
    <3>4. Rate * (at - applied) + Surplus >= Full
      BY <2>4, Worths
    <3> QED BY <1>1, <3>1, <3>2, <3>3, <3>4, Spills, Worths DEF WInv
  <2>6. (forgotten' - 1) * (Ttl + 1) <= Span'
    <3>1. CASE forgotten = 0
      <4>1. forgotten' - 1 = 0 /\ 0 * (Ttl + 1) = 0
        BY <2>1, <3>1
      <4> QED BY <2>4, <4>1
    <3>2. CASE forgotten # 0
      <4>1. (forgotten - 1) * (Ttl + 1) <= Span
        BY <3>2 DEF WInv, Seldom
      <4>2. /\ forgotten' - 1 = (forgotten - 1) + 1
            /\ ((forgotten - 1) + 1) * (Ttl + 1) = (forgotten - 1) * (Ttl + 1) + (Ttl + 1)
            /\ (forgotten - 1) * (Ttl + 1) \in Int
        BY <1>1, <2>1
      <4> QED BY <2>4, <4>1, <4>2
    <3> QED BY <3>1, <3>2
  <2>7. Held' = Full
    BY <2>1 DEF Held
  <2> QED BY <1>2, <2>1, <2>3, <2>5, <2>6, <2>7 DEF Stamped, Budget, Seldom, Owed
<1>4. CASE ~(c = watched /\ ~Gone /\ IsStale(b, at))
  <2>1. /\ Gone' = Gone /\ applied' = applied /\ forgotten' = forgotten
        /\ ~Gone => bucket'[watched'] = b
    BY <1>1, <1>2, <1>4 DEF Sweep, Gone, WInv, TypeOK
  <2>2. Span' = Span /\ Held' = Held /\ Timely' = Timely
    BY <1>2, <2>1 DEF Span, Held, Timely
  <2>3. Allowed' = Allowed
    BY <1>2, <2>1, <2>2 DEF Allowed
  <2> QED BY <1>2, <2>1, <2>2, <2>3 DEF WInv, Stamped, Budget, Seldom, Owed
<1> QED BY <1>3, <1>4

(* A request of the watched client's keeps what the window says of times.  *)
LEMMA OwnSeldom ==
    ASSUME WInv, NEW w \in Workers, NEW tokens, worker[w].pc = "consume",
           worker[w].client = watched, Apply(w, tokens)
    PROVE  Stamped' /\ Seldom'
<1>1. /\ forgotten' = forgotten /\ applied' = worker[w].at
      /\ bucket'[watched'] = [tokens |-> tokens, last_update |-> worker[w].at]
  BY OwnApply DEF WInv
<1>2. Span \in Int /\ Span' \in Nat /\ Span' >= Span /\ Timely'
  BY OwnSpan
<1>3. (forgotten - 1) * (Ttl + 1) \in Int
  BY DEF WInv, TypeOK
<1> QED BY <1>1, <1>2, <1>3 DEF WInv, Stamped, Seldom

LEMMA AdmitWInv ==
    ASSUME WInv, NEW w \in Workers, Admit(w)
    PROVE  Stamped' /\ Budget' /\ Seldom' /\ Owed'
<1>1. PICK tokens \in Refilled(Entry(w), worker[w].at) :
        tokens >= Cost /\ Apply(w, tokens - Cost)
  BY DEF Admit
<1>2. worker[w].pc = "consume"
  BY DEF Admit
<1>3. CASE worker[w].client # watched
  BY <1>1, <1>2, <1>3, OthersWInv DEF Admit
<1>4. CASE worker[w].client = watched
  <2>1. /\ ~Gone' /\ bucket'[watched'] = [tokens |-> tokens - Cost, last_update |-> worker[w].at]
    BY <1>1, <1>2, <1>4, OwnApply DEF WInv
  <2>2. admitted' = admitted + 1 /\ promised' = Never
    BY <1>4 DEF Admit
  <2>3. admitted * Cost + tokens <= Allowed' /\ Allowed' \in Int /\ tokens \in Nat
    BY <1>1, <1>2, <1>4, FoundInBudget, Worths
  <2>4. admitted' * Cost + (tokens - Cost) <= Allowed'
    <3>1. admitted' * Cost = admitted * Cost + Cost /\ admitted * Cost \in Nat
      BY <2>2, Spills DEF WInv
    <3> QED BY <2>3, <3>1, Worths
  <2>5. Held' = tokens - Cost
    BY <2>1 DEF Held
  <2>6. Stamped' /\ Seldom' /\ Timely'
    BY <1>1, <1>2, <1>4, OwnSeldom, OwnSpan
  <2> QED BY <2>2, <2>4, <2>5, <2>6 DEF Budget, Owed
<1> QED BY <1>3, <1>4

(* A refused request leaves in the bucket what its client was told, and    *)
(* what it was told before, but for what is rounded.                       *)
LEMMA RefuseOwed ==
    ASSUME WInv, NEW w \in Workers, worker[w].pc = "consume", worker[w].client = watched,
           NEW tokens \in Refilled(Entry(w), worker[w].at), tokens < Cost, Apply(w, tokens),
           promised # Never
    PROVE  tokens + Rate * (promised - worker[w].at) >= Cost - rounded' - 1
<1> DEFINE at == worker[w].at
           e == Entry(w)
<1>1. /\ at \in 0..now /\ now \in Nat /\ tokens \in Nat /\ rounded \in Nat
      /\ e.tokens \in 0..Full /\ e.last_update \in 0..now /\ promised \in Nat
  BY EntryType, RefilledType, Worths DEF WInv, ClientKnown, TypeOK
<1>2. ~Gone
  <2>1. CASE Gone
    <3>1. e = [tokens |-> Full, last_update |-> now]
      BY <2>1 DEF Gone, Entry
    <3>2. tokens >= Full
      BY <1>1, <3>1, RefilledType
    <3> QED BY <1>1, <3>2, Worths
  <2> QED BY <2>1
<1>3. e = bucket[watched]
  BY <1>2 DEF Entry, Gone
<1>4. e.tokens + Rate * (promised - e.last_update) >= Cost - rounded - 1
  BY <1>2, <1>3 DEF WInv, Owed
<1>5. rounded' = IF at <= e.last_update THEN rounded ELSE rounded + 1
  BY OwnApply DEF WInv
<1>6. /\ Rate * (promised - e.last_update) \in Int /\ Rate * (promised - at) \in Int
      /\ Rate * (at - e.last_update) \in Int
      /\ at <= e.last_update => Rate * (promised - e.last_update) <= Rate * (promised - at)
      /\ Rate * (promised - e.last_update)
           = Rate * (at - e.last_update) + Rate * (promised - at)
  <2> DEFINE m == at - e.last_update
             n == promised - at
             k == promised - e.last_update
  <2>1. m \in Int /\ n \in Int /\ k \in Int /\ k = m + n /\ (at <= e.last_update => k <= n)
    BY <1>1
  <2> HIDE DEF m, n, k
  <2>2. /\ Rate * k \in Int /\ Rate * n \in Int /\ Rate * m \in Int
        /\ k <= n => Rate * k <= Rate * n
        /\ Rate * k = Rate * m + Rate * n
    BY <2>1, Refills
  <2> QED BY <2>1, <2>2 DEF m, n, k
<1>7. CASE at <= e.last_update
  <2>1. tokens = e.tokens
    BY <1>1, <1>7, RefilledType
  <2> QED BY <1>1, <1>4, <1>5, <1>6, <1>7, <2>1, Worths
<1>8. CASE at > e.last_update
  <2>1. tokens >= e.tokens + Rate * (at - e.last_update) - 1
    <3>1. tokens = Full \/ tokens >= e.tokens + Rate * (at - e.last_update) - 1
      BY <1>1, <1>8, RefilledType
    <3> QED BY <1>1, <3>1, Worths
  <2> QED BY <1>1, <1>4, <1>5, <1>6, <1>8, <2>1, Worths
<1> QED BY <1>1, <1>7, <1>8

LEMMA RefuseWInv ==
    ASSUME WInv, NEW w \in Workers, Refuse(w)
    PROVE  Stamped' /\ Budget' /\ Seldom' /\ Owed'
<1>1. PICK tokens \in Refilled(Entry(w), worker[w].at), seconds \in Nat :
        /\ seconds \in RetryAfter(tokens) /\ tokens < Cost /\ Apply(w, tokens)
        /\ promised' = IF worker[w].client # watched THEN promised
                       ELSE IF promised = Never THEN worker[w].at + seconds * Second
                       ELSE Least(promised, worker[w].at + seconds * Second)
  BY EntryType, Refusal DEF Refuse, WInv, ClientKnown, TypeOK
<1>2. worker[w].pc = "consume" /\ admitted' = admitted
  BY DEF Refuse
<1>3. CASE worker[w].client # watched
  BY <1>1, <1>2, <1>3, OthersWInv
<1>4. CASE worker[w].client = watched
  <2> DEFINE at == worker[w].at
             until == at + seconds * Second
  <2>1. /\ ~Gone' /\ bucket'[watched'] = [tokens |-> tokens, last_update |-> at]
        /\ rounded' \in Nat
    BY <1>1, <1>2, <1>4, OwnApply DEF WInv, TypeOK
  <2>2. admitted * Cost + tokens <= Allowed' /\ tokens \in Nat /\ at \in Nat
    BY <1>1, <1>2, <1>4, FoundInBudget, Worths DEF WInv, TypeOK
  <2>3. Held' = tokens
    BY <2>1 DEF Held
  <2>4. Stamped' /\ Seldom' /\ Timely'
    BY <1>1, <1>2, <1>4, OwnSeldom, OwnSpan
  <2>5. tokens + Rate * (until - at) >= Cost - rounded' - 1
    <3>1. /\ seconds * Second \in Nat
          /\ tokens + Rate * (seconds * Second) >= Cost - 1
      BY <1>1, <2>2, RetryAfterSuffices
    <3>2. until - at = seconds * Second
      BY <2>2, <3>1
    <3>3. Rate * (seconds * Second) \in Int
      BY <3>1, Refills
    <3> QED BY <2>1, <2>2, <3>1, <3>2, <3>3, Worths
  <2>6. promised # Never => tokens + Rate * (promised - at) >= Cost - rounded' - 1
    BY <1>1, <1>2, <1>4, RefuseOwed
  <2>7. promised' = until \/ (promised # Never /\ promised' = promised)
    BY <1>1, <1>4 DEF Least
  <2>8. Owed'
    BY <2>1, <2>5, <2>6, <2>7 DEF Owed
  <2> QED BY <1>2, <2>2, <2>3, <2>4, <2>8 DEF Budget
<1> QED BY <1>3, <1>4

LEMMA StepWInv == WInv /\ [Next]_vars => WInv'
<1> SUFFICES ASSUME WInv, [Next]_vars PROVE WInv'
  OBVIOUS
<1>1. TypeOK' /\ ClientKnown'
  BY StepTypes DEF WInv
<1> DEFINE Goal == Stamped' /\ Budget' /\ Seldom' /\ Owed'
<1>2. ASSUME UNCHANGED <<present, bucket, history>> PROVE Goal
  <2>1. Gone' = Gone /\ Held' = Held /\ Span' = Span /\ Timely' = Timely
    BY <1>2 DEF history, Gone, Held, Span, Timely
  <2>2. Allowed' = Allowed
    BY <1>2, <2>1 DEF history, Allowed
  <2> QED BY <1>2, <2>1, <2>2 DEF history, WInv, Stamped, Budget, Seldom, Owed
<1>3. ASSUME Watch PROVE Goal
  BY <1>3 DEF Watch, WInv, Stamped, Budget, Seldom, Owed, Gone
<1>4. ASSUME Tick \/ (\E w \in Workers, caller \in Callers : Begin(w, caller)) \/ UNCHANGED vars
      PROVE UNCHANGED <<present, bucket, history>>
  BY <1>4 DEF Tick, Begin, vars
<1>5. Goal
  BY <1>2, <1>3, <1>4, SweepWInv, AdmitWInv, RefuseWInv DEF Next
<1> QED BY <1>1, <1>5 DEF WInv

(* In every window a client is admitted at most Capacity times plus the    *)
(* refill of the window and of the time its requests were late by, the     *)
(* surplus of each time it was forgotten, and what f64 has rounded up.     *)
THEOREM AdmissionIsBounded == Spec => []AdmittedBounded
<1>1. WInv => AdmittedBounded
  <2> SUFFICES ASSUME WInv PROVE AdmittedBounded
    OBVIOUS
  <2> DEFINE m == now - since + MaxDelay + rewound
  <2>1. /\ now \in Nat /\ since \in 0..now /\ applied \in 0..now
        /\ rewound \in Nat /\ admitted \in Nat
        /\ watched \in Clients /\ Held \in 0..Full
    BY Worths DEF WInv, TypeOK, Held
  <2>2. /\ 0 \in Int /\ m \in Int /\ 0 <= m /\ Span \in Int /\ Span <= m
    BY <2>1 DEF Span
  <2> HIDE DEF m
  <2>3. /\ Rate * 0 <= Rate * m /\ Rate * 0 = 0
        /\ Rate * Span <= Rate * m
        /\ Rate * m \in Int /\ Rate * Span \in Int
    BY <2>2, Refills, Worths
  <2>4. /\ forgotten * Surplus \in Nat /\ rounded \in Nat /\ admitted * Cost \in Nat
        /\ admitted = 0 => admitted * Cost = 0
    BY Spills DEF WInv
  <2>5. admitted # 0 => admitted * Cost + Held <= Full + Rate * Span + rounded + forgotten * Surplus
    BY DEF WInv, Budget, Allowed
  <2>6. admitted * Cost <= Full + Rate * m + rounded + forgotten * Surplus
    BY <2>1, <2>3, <2>4, <2>5, Worths
  <2> QED BY <2>6 DEF AdmittedBounded, m
<1> QED BY InitWInv, StepWInv, <1>1, PTL DEF Spec

(* However short the TTL, in every window a client is forgotten at most    *)
(* once per TTL, and once more.                                            *)
THEOREM ForgettingIsSeldom == Spec => []ForgottenSeldom
<1>1. WInv => ForgottenSeldom
  <2> SUFFICES ASSUME WInv, forgotten # 0
               PROVE (forgotten - 1) * (Ttl + 1) <= now - since + MaxDelay + rewound
    BY DEF ForgottenSeldom
  <2>1. /\ now \in Nat /\ since \in 0..now /\ applied \in 0..now /\ rewound \in Nat
        /\ (forgotten - 1) * (Ttl + 1) \in Int
    BY DEF WInv, TypeOK
  <2>2. (forgotten - 1) * (Ttl + 1) <= Span
    BY DEF WInv, Seldom
  <2> QED BY <2>1, <2>2 DEF Span
<1> QED BY InitWInv, StepWInv, <1>1, PTL DEF Spec

(* A client that comes when Retry-After told it to is not refused again,   *)
(* unless all it lacks is what f64 has rounded away.                       *)
THEOREM RetryAfterIsKept == Spec => RetryAfterKept
<1>1. WInv => RefusedStep
  <2> SUFFICES ASSUME WInv, NEW w \in Workers, Refuse(w), worker[w].client = watched,
                      promised # Never, worker[w].at >= promised
               PROVE Cost - bucket'[watched].tokens + Rate * (worker[w].at - promised)
                       <= rounded' + 1
    BY DEF RefusedStep
  <2> DEFINE at == worker[w].at
  <2>1. PICK tokens \in Refilled(Entry(w), at) : tokens < Cost /\ Apply(w, tokens)
    BY DEF Refuse
  <2>2. worker[w].pc = "consume"
    BY DEF Refuse
  <2>3. tokens + Rate * (promised - at) >= Cost - rounded' - 1
    BY <2>1, <2>2, RefuseOwed
  <2>4. /\ watched' = watched /\ rounded' \in Nat
        /\ bucket'[watched'] = [tokens |-> tokens, last_update |-> at]
    BY <2>1, <2>2, OwnApply DEF WInv, TypeOK
  <2>7. tokens \in Nat
    BY <2>1, <2>2, FoundInBudget, Worths
  <2>5. at \in Int /\ promised \in Int
    BY DEF WInv, TypeOK
  <2>6. /\ Rate * (promised - at) = Rate * promised - Rate * at
        /\ Rate * (at - promised) = Rate * at - Rate * promised
        /\ Rate * at \in Int /\ Rate * promised \in Int
    BY <2>5, Refills
  <2> QED BY <2>3, <2>4, <2>6, <2>7, Worths
<1>2. WInv /\ [Next]_vars => [RefusedStep]_vars
  BY <1>1
<1> QED BY InitWInv, StepWInv, <1>2, PTL DEF Spec, RetryAfterKept

-----------------------------------------------------------------------------
(* The sweep.                                                              *)

(* An entry that a sweep made with instant at need not remove: it is fresh *)
(* or some worker wrote it, no longer ago than a worker can be held up.    *)
Fresh(b, at) == b.last_update >= at - Ttl \/ b.last_update >= at - MaxDelay

(* Behind a sweep there are only such entries, also those that were        *)
(* written there since it passed.                                          *)
SweptInv ==
    \A w \in Workers : worker[w].pc # "idle" =>
      /\ \A c \in present \ worker[w].unswept : Fresh(bucket[c], worker[w].at)
      /\ worker[w].pc = "consume" => worker[w].unswept = {}

(* A request that is applied leaves a fresh entry, whoever else is         *)
(* sweeping: its instant is at most MaxDelay old.                          *)
LEMMA ApplySwept ==
    ASSUME TypeOK, ClientKnown, SweptInv, NEW v \in Workers, worker[v].pc = "consume",
           NEW tokens, Apply(v, tokens)
    PROVE  SweptInv'
<1>1. /\ worker[v].at \in 0..now /\ now \in Nat /\ now <= worker[v].at + MaxDelay
      /\ worker[v].client \in Clients
  BY DEF TypeOK, ClientKnown
<1> DEFINE d == worker[v].client
<1>2. /\ present' = present \cup {d}
      /\ bucket' = [bucket EXCEPT ![d] = [tokens |-> tokens, last_update |-> worker[v].at]]
      /\ worker' = [worker EXCEPT ![v] = Idle]
  BY DEF Apply
<1> SUFFICES ASSUME NEW w \in Workers, worker'[w].pc # "idle"
             PROVE  /\ \A c \in present' \ worker'[w].unswept : Fresh(bucket'[c], worker'[w].at)
                    /\ worker'[w].pc = "consume" => worker'[w].unswept = {}
  BY DEF SweptInv, Fresh
<1>3. w # v /\ worker'[w] = worker[w]
  BY <1>2 DEF TypeOK, Idle
<1>4. worker[w].at \in 0..now
  BY DEF TypeOK
<1>5. ASSUME NEW c \in present' \ worker'[w].unswept
      PROVE  Fresh(bucket'[c], worker'[w].at)
  <2>1. CASE c = d
    <3>1. bucket'[c].last_update = worker[v].at
      BY <1>1, <1>2, <2>1 DEF TypeOK
    <3> QED BY <1>1, <1>3, <1>4, <3>1 DEF Fresh
  <2>2. CASE c # d
    <3>1. c \in present \ worker[w].unswept /\ bucket'[c] = bucket[c]
      BY <1>2, <1>3, <1>5, <2>2 DEF TypeOK
    <3> QED BY <1>3, <3>1 DEF SweptInv
  <2> QED BY <2>1, <2>2
<1> QED BY <1>3, <1>5 DEF SweptInv

(* A shard that is swept keeps only fresh entries; sweeps only take away.  *)
LEMMA SweepSwept ==
    ASSUME TypeOK, SweptInv, NEW v \in Workers, NEW d \in Clients, Sweep(v, d)
    PROVE  SweptInv'
<1> DEFINE at == worker[v].at
<1>1. /\ worker[v] \in [pc: {"idle", "sweep", "consume"}, client: Clients \cup {NoClient},
                       at: 0..now, unswept: SUBSET Clients]
      /\ at \in 0..now /\ now \in Nat
      /\ \A c \in Clients : bucket[c].last_update \in 0..now
  BY DEF TypeOK
<1>2. /\ worker[v].pc = "sweep" /\ d \in worker[v].unswept
      /\ present' \subseteq present /\ \A c \in present' : bucket'[c] = bucket[c]
      /\ d \in present' => ~IsStale(bucket[d], at)
  BY DEF Sweep, TypeOK
<1>3. /\ worker'[v].unswept = worker[v].unswept \ {d} /\ worker'[v].at = at
      /\ worker'[v].pc = IF worker[v].unswept = {d} THEN "consume" ELSE "sweep"
      /\ \A w \in Workers : w # v => worker'[w] = worker[w]
  BY <1>1, <1>2 DEF Sweep, TypeOK
<1>4. ASSUME NEW w \in Workers, worker'[w].pc # "idle",
             NEW c \in present' \ worker'[w].unswept
      PROVE  Fresh(bucket'[c], worker'[w].at)
  <2>1. CASE w = v /\ c = d
    BY <1>1, <1>2, <1>3, <1>4, <2>1 DEF Fresh, IsStale
  <2>2. CASE ~(w = v /\ c = d)
    <3>1. worker[w].pc # "idle" /\ c \in present \ worker[w].unswept /\ worker'[w].at = worker[w].at
      BY <1>2, <1>3, <1>4, <2>2
    <3>2. Fresh(bucket[c], worker[w].at)
      BY <3>1 DEF SweptInv
    <3> QED BY <1>2, <1>4, <3>1, <3>2
  <2> QED BY <2>1, <2>2
<1>5. ASSUME NEW w \in Workers, worker'[w].pc = "consume" PROVE worker'[w].unswept = {}
  BY <1>3, <1>5 DEF SweptInv
<1> QED BY <1>4, <1>5 DEF SweptInv, Fresh

LEMMA StepSwept == TypeOK /\ ClientKnown /\ SweptInv /\ [Next]_vars => SweptInv'
<1> SUFFICES ASSUME TypeOK, ClientKnown, SweptInv, [Next]_vars PROVE SweptInv'
  OBVIOUS
<1>1. ASSUME NEW v \in Workers, NEW caller \in Callers, Begin(v, caller) PROVE SweptInv'
  <2>1. /\ worker' = [worker EXCEPT ![v] = [pc |-> "sweep", client |-> ClientId(caller),
                                            at |-> now, unswept |-> Clients]]
        /\ present' = present /\ bucket' = bucket /\ present \subseteq Clients
    BY <1>1 DEF Begin, TypeOK
  <2> SUFFICES ASSUME NEW w \in Workers, worker'[w].pc # "idle"
               PROVE  /\ \A c \in present' \ worker'[w].unswept :
                           Fresh(bucket'[c], worker'[w].at)
                      /\ worker'[w].pc = "consume" => worker'[w].unswept = {}
    BY DEF SweptInv, Fresh
  <2>2. CASE w = v
    <3>1. worker'[w].pc = "sweep" /\ worker'[w].unswept = Clients
      BY <2>1, <2>2 DEF TypeOK
    <3> QED BY <2>1, <3>1
  <2>3. CASE w # v
    <3>1. worker'[w] = worker[w]
      BY <2>1, <2>3 DEF TypeOK
    <3> QED BY <2>1, <3>1 DEF SweptInv
  <2> QED BY <2>2, <2>3
<1>2. ASSUME NEW v \in Workers, Admit(v) \/ Refuse(v) PROVE SweptInv'
  BY <1>2, ApplySwept DEF Admit, Refuse
<1>3. CASE Tick \/ Watch \/ UNCHANGED vars
  BY <1>3 DEF Tick, Watch, vars, history, SweptInv, Fresh
<1> QED BY <1>1, <1>2, <1>3, SweepSwept DEF Next

(* Whoever has swept the map leaves no entry behind that was idle for      *)
(* longer than the TTL, or than a worker can be held up.                   *)
THEOREM MapIsSwept == Spec => []SweptBeforeUse
<1>1. Init => SweptInv
  BY DEF Init, SweptInv, Idle
<1>2. SweptInv => SweptBeforeUse
  BY DEF SweptInv, SweptBeforeUse, Fresh
<1> QED BY InitTypes, StepTypes, StepSwept, <1>1, <1>2, PTL DEF Spec
=============================================================================
