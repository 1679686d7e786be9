----------------------------- MODULE RateLimiter -----------------------------
(***************************************************************************)
(* The token-bucket rate limiter: rate_limit_middleware over a             *)
(* RateLimitStorage that the worker threads share.                         *)
(*                                                                         *)
(* check_limit reads Instant::now() before it takes any lock of the map,   *)
(* so a request is applied with an instant that may be in the past by      *)
(* then, and requests may be applied in another order than they came.      *)
(* A worker takes the map's locks several times: one per shard while it    *)
(* sweeps stale entries, then that of the client's entry.  One action is   *)
(* what happens under one of them.                                         *)
(*                                                                         *)
(* Time is in ticks, Second of them per second.  Tokens are counted in a   *)
(* unit that makes them whole: one request costs Cost units, and a tick    *)
(* refills Rate units.  They are f64 in the code, whose results are        *)
(* rounded: a unit is the most that one refill, or one Retry-After, may be *)
(* off by, either way.                                                     *)
(***************************************************************************)
EXTENDS Integers

CONSTANTS
    Callers,           \* what requests carry: [api_key, forwarded, peer]
    Absent,            \* a header that is not there, a peer that is unknown
    Workers,           \* the threads that run the middleware
    Capacity, Period,  \* RateLimitConfig::capacity, period_secs
    Second,            \* ticks per second
    Precision,         \* how fine f64 is: units that a tick refills, per Capacity
    Ttl,               \* RateLimitStorage::ttl, in ticks
    MaxDelay,          \* the longest a worker can be held up, in ticks
    MaxTime            \* bound: the clock stops here

ASSUME NumbersAssumption ==
    /\ Capacity \in Nat \ {0} /\ Period \in Nat \ {0} /\ Second \in Nat \ {0}
    /\ Precision \in Nat \ {0}
    /\ Ttl \in Nat /\ MaxDelay \in Nat /\ MaxTime \in Nat

Cost == Period * Second * Precision
Rate == Capacity * Precision
Full == Capacity * Cost

(* get_client_id: the API key, else the first proxy, else the peer.        *)
ClientId(caller) ==
    IF caller.api_key # Absent THEN <<"api-key", caller.api_key>>
    ELSE IF caller.forwarded # Absent THEN <<"ip", caller.forwarded>>
    ELSE IF caller.peer # Absent THEN <<"ip", caller.peer>>
    ELSE <<"unknown", Absent>>

Clients == {ClientId(caller) : caller \in Callers}

Never == -1
NoClient == <<"none", Absent>>

VARIABLES
    now,      \* Instant::now()
    present,  \* the clients that have an entry in the map
    bucket,   \* Clients -> [tokens, last_update], meaningful where present
    worker,   \* Workers -> [pc, client, at, unswept]
    watched,   \* history: the client that is watched
    since,     \* history: the beginning of the window that is watched
    admitted,  \* history: its requests admitted in the window
    applied,   \* history: the instant last applied to its entry
    rewound,   \* history: by how much these instants went back in the window
    rounded,   \* history: how often its tokens were rounded in the window
    forgotten, \* history: how often a sweep forgot it in the window
    promised   \* history: the instant from which it was told, in the window, to come back

history == <<watched, since, admitted, applied, rewound, rounded, forgotten, promised>>
vars == <<now, present, bucket, worker, history>>

Least(m, n) == IF m <= n THEN m ELSE n
Most(m, n) == IF m <= n THEN n ELSE m
(* Instant::duration_since is zero, not negative.                          *)
Since(at, earlier) == IF at <= earlier THEN 0 ELSE at - earlier

-----------------------------------------------------------------------------
(* RateLimitState.  A result is one of a set: what the rounding may give.  *)

(* What is refilled: nothing, exactly, when no time has passed.            *)
Sums(tokens, elapsed) ==
    LET sum == tokens + Rate * elapsed
    IN IF elapsed = 0 THEN {tokens} ELSE (sum - 1)..(sum + 1)

(* Mutant: a signed difference of instants.                                *)
RefilledSigned(b, at) == {Least(Full, n) : n \in Sums(b.tokens, at - b.last_update)}

Refilled(b, at) == {Least(Full, n) : n \in Sums(b.tokens, Since(at, b.last_update))}

(* Mutant: whole seconds that are not yet enough.                          *)
RetryAfterShort(tokens) == {(Cost - tokens - 1) \div (Rate * Second)}

(* The seconds until one token is there, rounded up, and never zero.       *)
RetryAfter(tokens) ==
    {Most(1, (n + Rate * Second - 1) \div (Rate * Second)) :
       n \in (Cost - tokens - 1)..(Cost - tokens + 1)}

NoEntry == [tokens |-> Full, last_update |-> 0]
Idle == [pc |-> "idle", client |-> NoClient, at |-> 0, unswept |-> {}]

Init == /\ now = 0
        /\ present = {}
        /\ bucket = [c \in Clients |-> NoEntry]
        /\ worker = [w \in Workers |-> Idle]
        /\ watched \in Clients
        /\ since = 0
        /\ admitted = 0
        /\ applied = 0
        /\ rewound = 0 /\ rounded = 0 /\ forgotten = 0
        /\ promised = Never

(* rate_limit_middleware and check_limit up to check_and_consume.          *)
Begin(w, caller) ==
    /\ worker[w].pc = "idle"
    /\ worker' = [worker EXCEPT ![w] = [pc |-> "sweep", client |-> ClientId(caller), at |-> now,
                                        unswept |-> Clients]]
    /\ UNCHANGED <<now, present, bucket, history>>

(* Mutants: an entry as old as the TTL goes too; the TTL counts from when   *)
(* the period has passed.                                                  *)
IsStaleSoon(b, at) == b.last_update <= at - Ttl
IsStaleLate(b, at) == b.last_update < at - Ttl - Period * Second

IsStale(b, at) == b.last_update < at - Ttl

(* cleanup_stale at the shard of one client.                               *)
Sweep(w, c) ==
    LET at == worker[w].at
        stale == c \in present /\ IsStale(bucket[c], at)
    IN /\ worker[w].pc = "sweep"
       /\ c \in worker[w].unswept
       /\ worker' = [worker EXCEPT ![w].unswept = @ \ {c},
                                   ![w].pc = IF worker[w].unswept = {c} THEN "consume" ELSE @]
       /\ IF stale THEN /\ present' = present \ {c}
                        /\ bucket' = [bucket EXCEPT ![c] = NoEntry]
                   ELSE UNCHANGED <<present, bucket>>
       /\ IF stale /\ c = watched THEN applied' = at /\ forgotten' = forgotten + 1
                                  ELSE UNCHANGED <<applied, forgotten>>
       /\ UNCHANGED <<now, watched, since, admitted, rewound, rounded, promised>>

(* The entry as try_consume finds it.  A new one is full, and stamped no   *)
(* earlier than the request.                                               *)
Entry(w) == LET c == worker[w].client
            IN IF c \in present THEN bucket[c] ELSE [tokens |-> Full, last_update |-> now]

(* The entry with an instant applied to it, and the history of that.       *)
Apply(w, tokens) ==
    LET c == worker[w].client
        at == worker[w].at
    IN /\ present' = present \cup {c}
       /\ bucket' = [bucket EXCEPT ![c] = [tokens |-> tokens, last_update |-> at]]
       /\ worker' = [worker EXCEPT ![w] = Idle]
       /\ IF c = watched THEN /\ applied' = at
                              /\ rewound' = rewound + Since(applied, at)
                              /\ rounded' = IF Since(at, Entry(w).last_update) = 0
                                            THEN rounded ELSE rounded + 1
          ELSE UNCHANGED <<applied, rewound, rounded>>
       /\ UNCHANGED <<now, watched, since, forgotten>>

(* try_consume: a token is taken and the request goes on ...               *)
Admit(w) ==
    /\ worker[w].pc = "consume"
    /\ \E tokens \in Refilled(Entry(w), worker[w].at) :
         /\ tokens >= Cost
         /\ Apply(w, tokens - Cost)
    /\ IF worker[w].client = watched
       THEN admitted' = admitted + 1 /\ promised' = Never
       ELSE UNCHANGED <<admitted, promised>>

(* ... or it is answered 429 with Retry-After, and the entry stored: that  *)
(* is never zero.                                                          *)
Refuse(w) ==
    /\ worker[w].pc = "consume"
    /\ \E tokens \in Refilled(Entry(w), worker[w].at) :
         /\ tokens < Cost
         /\ Apply(w, tokens)
         /\ \E seconds \in RetryAfter(tokens) :
              LET until == worker[w].at + seconds * Second
              IN promised' = IF worker[w].client # watched THEN promised
                             ELSE IF promised = Never THEN until ELSE Least(promised, until)
    /\ UNCHANGED admitted

(* Time passes; no worker is held up for longer than MaxDelay.             *)
Tick ==
    /\ now < MaxTime
    /\ \A w \in Workers : worker[w].pc # "idle" => now < worker[w].at + MaxDelay
    /\ now' = now + 1
    /\ UNCHANGED <<present, bucket, worker, history>>

(* History: somebody begins to count, at any time.                         *)
Watch ==
    /\ since' = now
    /\ admitted' = 0 /\ rewound' = 0 /\ rounded' = 0 /\ forgotten' = 0
    /\ promised' = Never
    /\ UNCHANGED <<now, present, bucket, worker, watched, applied>>

Next == \/ \E w \in Workers : \/ \E caller \in Callers : Begin(w, caller)
                              \/ \E c \in Clients : Sweep(w, c)
                              \/ Admit(w) \/ Refuse(w)
        \/ Tick \/ Watch

Spec == Init /\ [][Next]_vars

-----------------------------------------------------------------------------
(* Every variable keeps its type; no bucket overflows or is overdrawn, and *)
(* no instant that is applied lies in the future or more than MaxDelay ago.*)
TypeOK ==
    /\ now \in Nat /\ since \in 0..now
    /\ present \subseteq Clients
    /\ bucket \in [Clients -> [tokens: 0..Full, last_update: 0..now]]
    /\ worker \in [Workers -> [pc: {"idle", "sweep", "consume"}, client: Clients \cup {NoClient},
                               at: 0..now, unswept: SUBSET Clients]]
    /\ \A w \in Workers : worker[w].pc # "idle" => now <= worker[w].at + MaxDelay
    /\ watched \in Clients
    /\ admitted \in Nat
    /\ applied \in 0..now
    /\ rewound \in Nat /\ rounded \in Nat /\ forgotten \in Nat
    /\ promised \in Nat \cup {Never}

(* What being forgotten may give a client: a full bucket, less what the    *)
(* time refilled that it takes to be stale.  Nothing, when the TTL is at   *)
(* least the period; the two are configured apart.                         *)
Surplus == Most(0, Full - Rate * (Ttl + 1))

(* In any window of time a client is admitted at most Capacity times plus  *)
(* what is refilled meanwhile, whatever the order in which its requests    *)
(* are applied and although sweeps forget it.  A request held up before    *)
(* the window, and each one applied after a later one, lets through no     *)
(* more than the refill of the time it was late by; a sweep, no more than  *)
(* the Surplus; f64, no more than a unit for each refill.                  *)
AdmittedBounded ==
    admitted * Cost <= Full + Rate * (now - since + MaxDelay + rewound)
                       + rounded + forgotten * Surplus

(* However short the TTL, a client that keeps coming is not forgotten more *)
(* than once per TTL, although other workers' sweeps and its own late      *)
(* requests cross.                                                         *)
ForgottenSeldom ==
    forgotten # 0 => (forgotten - 1) * (Ttl + 1) <= now - since + MaxDelay + rewound

(* Retry-After: a client that was told to come back in so many seconds,    *)
(* comes then and has not been admitted in between, is not refused again,  *)
(* unless all that its bucket lacks is what f64 has rounded away.          *)
RefusedStep ==
    \A w \in Workers :
      /\ worker[w].pc = "consume" /\ worker[w].client = watched
      /\ promised # Never /\ worker[w].at >= promised
      /\ Refuse(w)
      => Cost - bucket'[watched].tokens + Rate * (worker[w].at - promised) <= rounded' + 1
RetryAfterKept == [][RefusedStep]_vars

(* The map does not grow with clients that are gone: whoever has swept it  *)
(* leaves no entry behind that was idle for longer than the TTL, or than a *)
(* worker can be held up.                                                  *)
SweptBeforeUse ==
    \A w \in Workers : worker[w].pc = "consume" =>
      \A c \in present : \/ bucket[c].last_update >= worker[w].at - Ttl
                         \/ bucket[c].last_update >= worker[w].at - MaxDelay
=============================================================================
