------------------------- MODULE InMemoryRepo_proofs -------------------------
(***************************************************************************)
(* Proofs about InMemoryRepo, for any number of codes and threads and any  *)
(* size of the window: its two counters agree, it implements               *)
(* LinkRepository, and what it says of the last window is what was hit.    *)
(***************************************************************************)
EXTENDS InMemoryRepo, SumLemmas

Calls == [pc: {"find", "count"}, code: Codes]

MapTypes ==
    /\ now \in Nat /\ high \in Nat /\ now <= high
    /\ table \in [Codes -> Link \cup {NoLink}]
    /\ thread \in [Threads -> Calls \cup {Idle}]
    /\ cleaner \in [pc: {"waiting", "wanting", "purging"}, cutoff: 0..high,
                    doomed: SUBSET Codes]
    /\ inherited \in [Codes -> Nat]

(* A window, as far as the counters go.                                    *)
StatsTypes ==
    /\ stats = [c \in Codes |-> stats[c]]
    /\ \A c \in Codes : stats[c] = {} \/ \E s : stats[c] = {s} /\ s.total_hits \in Nat

(* A purge excludes record_hit, and record_hit keeps the entry it counts   *)
(* in, and once it has found it the window, where they are.                *)
LockInv ==
    /\ cleaner.pc # "purging" => cleaner.doomed = {}
    /\ \A t \in Threads : Holds(t) =>
         /\ ReadFree
         /\ table[thread[t].code] # NoLink
         /\ thread[t].pc = "count" => stats[thread[t].code] # {}

(* The threads that have counted a hit in the entry, not in the window.    *)
Counting(c) == {t \in Threads : thread[t].code = c}

(* No hit is lost, and none is counted in one place only for long.         *)
CountInv ==
    \A c \in Codes : table[c] # NoLink =>
      TotalHits(c) + Cardinality(Counting(c)) = table[c].hits + inherited[c]

MInv == MapTypes /\ StatsTypes /\ LockInv /\ CountInv

-----------------------------------------------------------------------------
(* The total of a window.                                                  *)
LEMMA Totals ==
    ASSUME NEW c
    PROVE  /\ stats[c] = {} => TotalHits(c) = 0
           /\ \A s : stats[c] = {s} => TotalHits(c) = s.total_hits
           /\ stats'[c] = {} => TotalHits(c)' = 0
           /\ \A s : stats'[c] = {s} => TotalHits(c)' = s.total_hits
BY DEF TotalHits, WindowOf

LEMMA SameTotal ==
    ASSUME MInv, NEW c \in Codes, stats'[c] = stats[c]
    PROVE  TotalHits(c)' = TotalHits(c)
<1>1. CASE stats[c] = {}
  BY <1>1, Totals
<1>2. CASE stats[c] # {}
  <2>1. PICK s : stats[c] = {s}
    BY <1>2 DEF MInv, StatsTypes
  <2> QED BY <2>1, Totals
<1> QED BY <1>1, <1>2

LEMMA TotalsType == MInv => \A c \in Codes : TotalHits(c) \in Nat
BY Totals DEF MInv, StatsTypes

(* A thread that has nothing to count has no code.                         *)
LEMMA IdleThreads ==
    ASSUME MInv, NEW t \in Threads
    PROVE  /\ thread[t].pc = "idle" <=> thread[t] = Idle
           /\ thread[t].pc = "idle" <=> thread[t].code = NoLink
           /\ thread[t].pc # "idle" => thread[t].code \in Codes
BY NothingAssumption DEF MInv, MapTypes, Calls, Idle

LEMMA CountingFinite ==
    ASSUME NEW c
    PROVE  IsFiniteSet(Counting(c)) /\ Cardinality(Counting(c)) \in Nat
BY ThreadsAssumption, FS_Subset, FS_CardinalityType DEF Counting

(* Whoever has the write lock finds nobody counting, and no purge.         *)
LEMMA Alone ==
    ASSUME MInv, WriteFree
    PROVE  /\ cleaner.doomed = {} /\ cleaner.pc # "purging"
           /\ \A c \in Codes : Counting(c) = {}
<1>1. cleaner.doomed = {} /\ cleaner.pc # "purging"
  BY DEF MInv, LockInv, WriteFree, ReadFree
<1>2. \A t \in Threads : thread[t].code = NoLink
  BY IdleThreads DEF WriteFree, Holds
<1> QED BY <1>1, <1>2, NothingAssumption DEF Counting

-----------------------------------------------------------------------------
LEMMA InitMInv == Init => MInv
<1> SUFFICES ASSUME Init PROVE MInv
  OBVIOUS
<1>1. MapTypes
  BY ClockAssumption DEF Init, MapTypes, Calls
<1>2. StatsTypes
  BY DEF Init, StatsTypes
<1>3. LockInv
  BY DEF Init, LockInv, Holds, Idle
<1>4. CountInv
  BY DEF Init, CountInv
<1> QED BY <1>1, <1>2, <1>3, <1>4 DEF MInv

(* What a call under the write lock leaves as it is.                       *)
LEMMA InsertMInv ==
    ASSUME MInv, NEW c \in Codes, NEW target \in Targets, NEW ttl \in Ttls,
           Insert(c, target, ttl)
    PROVE  MInv'
<1> DEFINE link == [target |-> target, version |-> 1, hits |-> 0,
                    expires_at |-> IF ttl = 0 THEN 0 ELSE now + ttl]
<1>1. link \in Link
  BY ClockAssumption DEF Link, MInv, MapTypes
<1>2. /\ table' = [table EXCEPT ![c] = link]
      /\ inherited' = [inherited EXCEPT ![c] = TotalHits(c)]
      /\ UNCHANGED <<now, stats, thread, cleaner, high>>
  BY DEF Insert
<1>3. MapTypes'
  BY <1>1, <1>2, TotalsType DEF MInv, MapTypes
<1>4. StatsTypes' /\ LockInv'
  BY <1>1, <1>2, NothingAssumption DEF MInv, MapTypes, StatsTypes, LockInv, Holds, ReadFree
<1>5. CountInv'
  <2> SUFFICES ASSUME NEW d \in Codes, table'[d] # NoLink
               PROVE  TotalHits(d)' + Cardinality(Counting(d)')
                        = table'[d].hits + inherited'[d]
    BY DEF CountInv
  <2>1. TotalHits(d)' = TotalHits(d) /\ Counting(d)' = Counting(d)
    BY <1>2 DEF TotalHits, WindowOf, Counting
  <2>2. CASE d = c
    <3>1. Cardinality(Counting(d)) = 0
      BY Alone, FS_EmptySet DEF Insert
    <3>2. table'[d].hits = 0 /\ inherited'[d] = TotalHits(d)
      BY <1>2, <2>2 DEF MInv, MapTypes
    <3> QED BY <2>1, <3>1, <3>2, TotalsType
  <2>3. CASE d # c
    BY <1>2, <2>1, <2>3 DEF MInv, MapTypes, CountInv
  <2> QED BY <2>2, <2>3
<1> QED BY <1>3, <1>4, <1>5 DEF MInv

LEMMA UpdateMInv ==
    ASSUME MInv, NEW c \in Codes, NEW target \in Targets, NEW v \in Versions,
           Update(c, target, v)
    PROVE  MInv'
<1> DEFINE link == [table[c] EXCEPT !.target = target, !.version = @ + 1]
<1>0. table[c] \in Link
  BY DEF MInv, MapTypes, Update
<1> DEFINE moved == [table[c] EXCEPT !.target = target]
<1>1. link \in Link /\ link.hits = table[c].hits /\ table[c] \in Link
  <2>1. moved \in Link /\ moved.hits = table[c].hits /\ moved.version = table[c].version
    BY <1>0 DEF Link
  <2>2. link = [moved EXCEPT !.version = table[c].version + 1]
    OBVIOUS
  <2> HIDE DEF link, moved
  <2>3. link \in Link /\ link.hits = moved.hits
    BY <1>0, <2>1, <2>2 DEF Link
  <2> QED BY <1>0, <2>1, <2>3
<1>2. /\ table' = [table EXCEPT ![c] = link]
      /\ UNCHANGED <<now, stats, thread, cleaner, high, inherited>>
  BY DEF Update, Updated
<1> HIDE DEF link
<1>3. MapTypes'
  BY <1>1, <1>2 DEF MInv, MapTypes
<1>4. StatsTypes' /\ LockInv'
  BY <1>1, <1>2, NothingAssumption DEF MInv, MapTypes, StatsTypes, LockInv, Holds, ReadFree
<1>5. CountInv'
  <2>1. \A d \in Codes : TotalHits(d)' = TotalHits(d) /\ Counting(d)' = Counting(d)
    BY <1>2 DEF TotalHits, WindowOf, Counting
  <2>2. \A d \in Codes : table'[d] # NoLink => table[d] # NoLink /\ table'[d].hits = table[d].hits
    BY <1>1, <1>2, NothingAssumption DEF MInv, MapTypes
  <2> QED BY <1>2, <2>1, <2>2 DEF MInv, CountInv
<1> QED BY <1>3, <1>4, <1>5 DEF MInv

LEMMA RemoveMInv ==
    ASSUME MInv, NEW c \in Codes, Remove(c)
    PROVE  MInv'
<1>1. /\ table' = [table EXCEPT ![c] = NoLink]
      /\ UNCHANGED <<now, stats, thread, cleaner, high, inherited>>
  BY DEF Remove
<1>2. MapTypes' /\ StatsTypes'
  BY <1>1 DEF MInv, MapTypes, StatsTypes
<1>3. LockInv'
  BY <1>1 DEF MInv, LockInv, Remove, WriteFree, Holds, ReadFree
<1>4. CountInv'
  BY <1>1 DEF MInv, MapTypes, CountInv, TotalHits, WindowOf, Counting
<1> QED BY <1>2, <1>3, <1>4 DEF MInv

LEMMA CountInEntryMInv ==
    ASSUME MInv, NEW t \in Threads, NEW c \in Codes, CountInEntry(t, c)
    PROVE  MInv'
<1> DEFINE call == [pc |-> "find", code |-> c]
           link == [table[c] EXCEPT !.hits = @ + 1]
<1>1. /\ table[c] \in Link /\ link \in Link /\ link.hits = table[c].hits + 1
      /\ table[c].hits \in Nat /\ table[c] # NoLink
  BY DEF Link, MInv, MapTypes, CountInEntry
<1>2. /\ table' = [table EXCEPT ![c] = link]
      /\ thread' = [thread EXCEPT ![t] = call]
      /\ UNCHANGED <<now, stats, cleaner, high, inherited>>
  BY DEF CountInEntry
<1> HIDE DEF link
<1>3. MapTypes' /\ StatsTypes'
  BY <1>1, <1>2 DEF MInv, MapTypes, StatsTypes, Calls
<1>4. LockInv'
  BY <1>1, <1>2, NothingAssumption
     DEF MInv, MapTypes, LockInv, CountInEntry, Holds, ReadFree
<1>5. CountInv'
  <2> SUFFICES ASSUME NEW d \in Codes, table'[d] # NoLink
               PROVE  TotalHits(d)' + Cardinality(Counting(d)')
                        = table'[d].hits + inherited'[d]
    BY DEF CountInv
  <2>1. TotalHits(d)' = TotalHits(d) /\ inherited'[d] = inherited[d]
    BY <1>2 DEF TotalHits, WindowOf
  <2>2. thread[t].code = NoLink /\ TotalHits(d) \in Nat /\ inherited[d] \in Nat
    BY IdleThreads, TotalsType DEF CountInEntry, MInv, MapTypes
  <2>3. CASE d = c
    <3>1. Counting(d)' = Counting(d) \cup {t} /\ t \notin Counting(d)
      BY <1>2, <2>2, <2>3, NothingAssumption DEF Counting, MInv, MapTypes
    <3>2. Cardinality(Counting(d)') = Cardinality(Counting(d)) + 1
      BY <3>1, CountingFinite, FS_AddElement
    <3>3. TotalHits(d) + Cardinality(Counting(d)) = table[d].hits + inherited[d]
      BY <1>1, <2>3 DEF MInv, CountInv
    <3>4. table'[d].hits = table[d].hits + 1
      BY <1>1, <1>2, <2>3 DEF MInv, MapTypes
    <3> QED BY <1>1, <2>1, <2>2, <2>3, <3>2, <3>3, <3>4, CountingFinite
  <2>4. CASE d # c
    <3>1. Counting(d)' = Counting(d)
      BY <1>2, <2>2, <2>4, NothingAssumption DEF Counting, MInv, MapTypes
    <3>2. table'[d] = table[d]
      BY <1>2, <2>4 DEF MInv, MapTypes
    <3> QED BY <2>1, <3>1, <3>2 DEF MInv, CountInv
  <2> QED BY <2>3, <2>4
<1> QED BY <1>3, <1>4, <1>5 DEF MInv

LEMMA FindWindowMInv ==
    ASSUME MInv, NEW t \in Threads, FindWindow(t)
    PROVE  MInv'
<1> DEFINE c == thread[t].code
<1>1. c \in Codes /\ thread[t] = [pc |-> "find", code |-> c]
  BY IdleThreads DEF FindWindow, MInv, MapTypes, Calls, Idle
<1>2. /\ thread' = [thread EXCEPT ![t].pc = "count"]
      /\ stats' = [stats EXCEPT ![c] = IF @ = {} THEN {NewWindow} ELSE @]
      /\ UNCHANGED <<now, table, cleaner, high, inherited>>
  BY <1>1 DEF FindWindow, MInv, StatsTypes
<1>3. thread'[t] = [pc |-> "count", code |-> c]
  BY <1>1, <1>2 DEF MInv, MapTypes
<1>4. MapTypes'
  BY <1>1, <1>2, <1>3 DEF MInv, MapTypes, Calls
<1>5. NewWindow.total_hits = 0
  BY DEF NewWindow
<1>6. /\ stats' = [d \in Codes |-> stats'[d]] /\ stats'[c] # {}
      /\ \A d \in Codes : \/ stats'[d] = stats[d]
                          \/ stats[d] = {} /\ stats'[d] = {NewWindow}
  <2>1. stats = [d \in Codes |-> stats[d]]
    BY DEF MInv, StatsTypes
  <2>2. stats' = [d \in Codes |-> stats'[d]]
    BY <1>2, <2>1
  <2>3. stats'[c] = IF stats[c] = {} THEN {NewWindow} ELSE stats[c]
    BY <1>1, <1>2, <2>1
  <2>4. \A d \in Codes : d # c => stats'[d] = stats[d]
    BY <1>2, <2>1
  <2>5. stats'[c] # {}
    BY <2>3
  <2>6. ASSUME NEW d \in Codes
        PROVE \/ stats'[d] = stats[d]
              \/ stats[d] = {} /\ stats'[d] = {NewWindow}
    <3>1. CASE d = c
      BY <2>3, <3>1
    <3>2. CASE d # c
      BY <2>4, <3>2
    <3> QED BY <3>1, <3>2
  <2> QED BY <2>2, <2>5, <2>6
<1>7. StatsTypes'
  <2>1. ASSUME NEW d \in Codes
        PROVE stats'[d] = {} \/ \E s : stats'[d] = {s} /\ s.total_hits \in Nat
    <3>1. CASE stats'[d] = stats[d]
      BY <3>1 DEF MInv, StatsTypes
    <3>2. CASE stats'[d] = {NewWindow}
      BY <1>5, <3>2
    <3> QED BY <1>6, <3>1, <3>2
  <2> QED BY <1>6, <2>1 DEF StatsTypes
<1>8. LockInv'
  <2>1. ReadFree /\ table[c] # NoLink
    BY <1>1 DEF MInv, LockInv, Holds
  <2>2. ASSUME NEW u \in Threads, Holds(u)'
        PROVE /\ ReadFree' /\ table'[thread'[u].code] # NoLink
              /\ thread'[u].pc = "count" => stats'[thread'[u].code] # {}
    <3>1. CASE u = t
      <4>1. thread'[u].code = c
        BY <1>3, <3>1
      <4>2. stats'[c] # {} /\ table' = table /\ cleaner' = cleaner
        BY <1>2, <1>6
      <4> QED BY <2>1, <4>1, <4>2 DEF ReadFree
    <3>2. CASE u # t
      <4>1. thread'[u] = thread[u]
        BY <1>2, <3>2 DEF MInv, MapTypes
      <4>2. Holds(u)
        BY <2>2, <4>1 DEF Holds
      <4>3. /\ table[thread[u].code] # NoLink
            /\ thread[u].pc = "count" => stats[thread[u].code] # {}
        BY <4>2 DEF MInv, LockInv
      <4>4. thread[u].code \in Codes
        <5>1. thread[u] \in Calls \cup {Idle} /\ thread[u].pc # "idle"
          BY <4>2 DEF MInv, MapTypes, Holds
        <5>2. thread[u] # Idle
          BY <5>1 DEF Idle
        <5> QED BY <5>1, <5>2 DEF Calls
      <4>5. stats[thread[u].code] # {} => stats'[thread[u].code] # {}
        <5> DEFINE d == thread[u].code
        <5>1. \/ stats'[d] = stats[d]
              \/ stats[d] = {} /\ stats'[d] = {NewWindow}
          BY <1>6, <4>4
        <5> QED BY <5>1
      <4>6. table' = table /\ cleaner' = cleaner
        BY <1>2
      <4> QED BY <2>1, <4>1, <4>3, <4>5, <4>6 DEF ReadFree
    <3> QED BY <3>1, <3>2
  <2> QED BY <1>2, <2>1, <2>2 DEF MInv, LockInv, ReadFree
<1>9. CountInv'
  <2>1. \A d \in Codes : Counting(d)' = Counting(d)
    BY <1>1, <1>2, <1>3 DEF Counting, MInv, MapTypes
  <2>2. \A d \in Codes : TotalHits(d)' = TotalHits(d)
    <3> SUFFICES ASSUME NEW d \in Codes PROVE TotalHits(d)' = TotalHits(d)
      OBVIOUS
    <3>1. CASE stats'[d] = stats[d]
      BY <3>1, SameTotal
    <3>2. CASE stats[d] = {} /\ stats'[d] = {NewWindow}
      BY <1>5, <3>2, Totals
    <3> QED BY <1>6, <3>1, <3>2
  <2> QED BY <1>2, <2>1, <2>2 DEF MInv, CountInv
<1> QED BY <1>4, <1>7, <1>8, <1>9 DEF MInv

LEMMA CountInWindowMInv ==
    ASSUME MInv, NEW t \in Threads, CountInWindow(t)
    PROVE  MInv'
<1> DEFINE c == thread[t].code
<1>1. c \in Codes /\ thread[t].pc = "count" /\ stats[c] # {} /\ table[c] # NoLink
  BY IdleThreads DEF CountInWindow, MInv, LockInv, Holds
<1>2. PICK s : stats[c] = {s} /\ s.total_hits \in Nat
  BY <1>1 DEF MInv, StatsTypes
<1> DEFINE hit == RecordedHit(s, now)
<1>3. hit.total_hits = s.total_hits + 1
  BY DEF RecordedHit
<1>4. /\ thread' = [thread EXCEPT ![t] = Idle]
      /\ stats' = [stats EXCEPT ![c] = {hit}]
      /\ UNCHANGED <<now, table, cleaner, high, inherited>>
  <2>1. stats' = [stats EXCEPT ![c] = {RecordedHit(r, now) : r \in stats[c]}]
    BY DEF CountInWindow
  <2>2. {RecordedHit(r, now) : r \in {s}} = {hit}
    OBVIOUS
  <2> QED BY <1>2, <2>1, <2>2 DEF CountInWindow
<1> HIDE DEF hit
<1>5. MapTypes'
  BY <1>1, <1>4 DEF MInv, MapTypes
<1>6. /\ stats' = [d \in Codes |-> stats'[d]] /\ stats'[c] = {hit}
      /\ \A d \in Codes \ {c} : stats'[d] = stats[d]
  BY <1>1, <1>4 DEF MInv, StatsTypes
<1>7. StatsTypes'
  BY <1>1, <1>2, <1>3, <1>4, <1>6 DEF MInv, StatsTypes
<1>8. LockInv'
  BY <1>1, <1>4, <1>6 DEF MInv, MapTypes, LockInv, Holds, ReadFree, Idle
<1>9. CountInv'
  <2> SUFFICES ASSUME NEW d \in Codes, table'[d] # NoLink
               PROVE  TotalHits(d)' + Cardinality(Counting(d)')
                        = table'[d].hits + inherited'[d]
    BY DEF CountInv
  <2>1. table'[d] = table[d] /\ inherited'[d] = inherited[d]
    BY <1>4
  <2>2. TotalHits(d) + Cardinality(Counting(d)) = table[d].hits + inherited[d]
    BY <2>1 DEF MInv, CountInv
  <2>3. CASE d = c
    <3>1. Counting(d)' = Counting(d) \ {t} /\ t \in Counting(d)
      BY <1>4, <2>3, NothingAssumption DEF Counting, Idle, MInv, MapTypes
    <3>2. Cardinality(Counting(d)') = Cardinality(Counting(d)) - 1
      BY <3>1, CountingFinite, FS_RemoveElement
    <3>3. TotalHits(d)' = TotalHits(d) + 1 /\ TotalHits(d) \in Nat
      BY <1>2, <1>3, <1>6, <2>3, Totals
    <3> QED BY <2>1, <2>2, <3>2, <3>3, CountingFinite
  <2>4. CASE d # c
    <3>1. Counting(d)' = Counting(d)
      BY <1>4, <2>4, NothingAssumption DEF Counting, Idle, MInv, MapTypes
    <3>2. TotalHits(d)' = TotalHits(d)
      BY <1>6, <2>4, SameTotal
    <3> QED BY <2>1, <2>2, <3>1, <3>2
  <2> QED BY <2>3, <2>4
<1> QED BY <1>5, <1>7, <1>8, <1>9 DEF MInv

LEMMA PurgeOneMInv ==
    ASSUME MInv, NEW c \in Codes, PurgeOne(c)
    PROVE  MInv'
<1>1. /\ table' = [table EXCEPT ![c] = NoLink]
      /\ stats' = [stats EXCEPT ![c] = {}]
      /\ cleaner' = [cleaner EXCEPT !.doomed = @ \ {c}]
      /\ UNCHANGED <<now, thread, high, inherited>>
      /\ cleaner.pc = "purging"
  BY DEF PurgeOne
<1>2. MapTypes'
  BY <1>1 DEF MInv, MapTypes
<1>3. /\ stats' = [d \in Codes |-> stats'[d]] /\ stats'[c] = {}
      /\ \A d \in Codes \ {c} : stats'[d] = stats[d]
  BY <1>1 DEF MInv, StatsTypes
<1>4. StatsTypes'
  BY <1>3 DEF MInv, StatsTypes
<1>5. \A t \in Threads : ~Holds(t)
  BY <1>1 DEF MInv, LockInv, ReadFree
<1>6. LockInv'
  BY <1>1, <1>5 DEF MInv, MapTypes, LockInv, Holds
<1>7. CountInv'
  <2>1. \A d \in Codes : table'[d] # NoLink => d # c /\ table'[d] = table[d]
    BY <1>1 DEF MInv, MapTypes
  <2>2. \A d \in Codes : Counting(d)' = Counting(d) /\ inherited'[d] = inherited[d]
    BY <1>1 DEF Counting
  <2>3. \A d \in Codes : d # c => TotalHits(d)' = TotalHits(d)
    BY <1>3, SameTotal
  <2> QED BY <2>1, <2>2, <2>3 DEF MInv, CountInv
<1> QED BY <1>2, <1>4, <1>6, <1>7 DEF MInv

(* What changes neither the table nor a window nor who counts.             *)
LEMMA QuietMInv ==
    ASSUME MInv, UNCHANGED <<table, stats, thread, inherited>>, MapTypes',
           cleaner'.pc # "purging" => cleaner'.doomed = {},
           cleaner'.pc = "purging" => ~ReadFree \/ WriteFree
    PROVE  MInv'
<1>1. StatsTypes'
  BY DEF MInv, StatsTypes
<1>2. LockInv'
  BY DEF MInv, LockInv, Holds, ReadFree, WriteFree
<1>3. CountInv'
  BY DEF MInv, CountInv, TotalHits, WindowOf, Counting
<1> QED BY <1>1, <1>2, <1>3 DEF MInv

LEMMA StepMInv == MInv /\ [Next]_vars => MInv'
<1> SUFFICES ASSUME MInv, [Next]_vars PROVE MInv'
  OBVIOUS
<1>0. /\ cleaner \in [pc: {"waiting", "wanting", "purging"}, cutoff: 0..high,
                        doomed: SUBSET Codes]
      /\ cleaner.pc # "purging" => cleaner.doomed = {}
  BY DEF MInv, MapTypes, LockInv
<1>1. ASSUME CleanerTick PROVE MInv'
  <2>1. cleaner'.pc = "wanting" /\ cleaner'.doomed = {}
    BY <1>0, <1>1 DEF CleanerTick
  <2>2. now \in 0..high
    BY DEF MInv, MapTypes
  <2>3. cleaner' \in [pc: {"waiting", "wanting", "purging"}, cutoff: 0..high,
                     doomed: SUBSET Codes]
    BY <1>0, <1>1, <2>2 DEF CleanerTick
  <2>4. MapTypes'
    BY <1>1, <2>3 DEF CleanerTick, MInv, MapTypes
  <2> QED BY <1>1, <2>1, <2>4, QuietMInv DEF CleanerTick
<1>2. ASSUME PurgeBegin PROVE MInv'
  <2>1. MapTypes'
    BY <1>2 DEF PurgeBegin, MInv, MapTypes
  <2>2. cleaner'.pc = "purging" /\ WriteFree
    BY <1>0, <1>2 DEF PurgeBegin
  <2> QED BY <1>2, <2>1, <2>2, QuietMInv DEF PurgeBegin
<1>3. ASSUME PurgeEnd PROVE MInv'
  <2>1. cleaner'.pc = "waiting" /\ cleaner'.doomed = {}
    BY <1>0, <1>3 DEF PurgeEnd
  <2>2. 0 \in 0..high
    BY DEF MInv, MapTypes
  <2>3. cleaner' \in [pc: {"waiting", "wanting", "purging"}, cutoff: 0..high,
                     doomed: SUBSET Codes]
    BY <1>0, <1>3, <2>2 DEF PurgeEnd
  <2>4. MapTypes'
    BY <1>3, <2>3 DEF PurgeEnd, MInv, MapTypes
  <2> QED BY <1>3, <2>1, <2>4, QuietMInv DEF PurgeEnd
<1>4. ASSUME Tick PROVE MInv'
  BY <1>4, QuietMInv DEF Tick, MInv, MapTypes, LockInv, ReadFree
<1>5. ASSUME SetBack PROVE MInv'
  BY <1>5, ClockAssumption, QuietMInv DEF SetBack, MInv, MapTypes, LockInv, ReadFree
<1>6. ASSUME List \/ UNCHANGED vars PROVE MInv'
  BY <1>6, QuietMInv DEF List, vars, history, MInv, MapTypes, LockInv, ReadFree
<1> QED BY <1>1, <1>2, <1>3, <1>4, <1>5, <1>6, InsertMInv, UpdateMInv, RemoveMInv,
           CountInEntryMInv, FindWindowMInv, CountInWindowMInv, PurgeOneMInv DEF Next

(* The entry's counter and the window's total agree whenever no hit of the *)
(* code is being counted, for any number of threads.                       *)
THEOREM CountersAgree == Spec => []HitsMatchWindow
<1>1. MInv => HitsMatchWindow
  <2> SUFFICES ASSUME MInv, NEW c \in Codes, table[c] # NoLink,
                      \A t \in Threads : thread[t].code # c
               PROVE  TotalHits(c) = table[c].hits + inherited[c]
    BY DEF HitsMatchWindow
  <2>1. Cardinality(Counting(c)) = 0
    BY FS_EmptySet DEF Counting
  <2> QED BY <2>1, TotalsType DEF MInv, CountInv
<1> QED BY InitMInv, StepMInv, <1>1, PTL DEF Spec

-----------------------------------------------------------------------------
(* Refinement.                                                             *)

LEMMA InitRefines == Init => Repo!Init
BY ClockAssumption DEF Init, Repo!Init, Visible

LEMMA StepRefines == MInv /\ MInv' /\ [Next]_vars => [Repo!Next]_(Repo!vars)
<1> SUFFICES ASSUME MInv, MInv', [Next]_vars PROVE [Repo!Next]_(Repo!vars)
  OBVIOUS
<1> DEFINE abs == Visible
<1>0. /\ table \in [Codes -> Link \cup {NoLink}] /\ cleaner.doomed \subseteq Codes
      /\ table' \in [Codes -> Link \cup {NoLink}] /\ high \in Nat
  BY DEF MInv, MapTypes
<1>1. ASSUME NEW c \in Codes, NEW target \in Targets, NEW ttl \in Ttls, Insert(c, target, ttl)
      PROVE Repo!Insert(c)
  <2>1. cleaner.doomed = {} /\ cleaner'.doomed = {} /\ high' = high
    BY <1>1, Alone DEF Insert
  <2>2. abs = table /\ abs' = table'
    BY <1>0, <2>1 DEF Visible
  <2>3. table'[c] \in [target: Targets, version: {1}, hits: {0}, expires_at: Nat]
    BY <1>0, <1>1, ClockAssumption DEF Insert, MInv, MapTypes
  <2>4. table[c] = NoLink /\ table' = [table EXCEPT ![c] = table'[c]]
    BY <1>0, <1>1 DEF Insert
  <2> QED BY <2>1, <2>2, <2>3, <2>4 DEF Repo!Insert, Visible
<1>2. ASSUME NEW c \in Codes, NEW target \in Targets, NEW v \in Versions, Update(c, target, v)
      PROVE Repo!Update(c)
  <2>1. cleaner.doomed = {} /\ cleaner'.doomed = {} /\ high' = high
    BY <1>2, Alone DEF Update
  <2>2. abs = table /\ abs' = table'
    BY <1>0, <2>1 DEF Visible
  <2>3. table[c] # NoLink /\ table' = [table EXCEPT ![c] = [table[c] EXCEPT
                               !.target = target, !.version = table[c].version + 1]]
    BY <1>0, <1>2 DEF Update, Updated
  <2> QED BY <2>1, <2>2, <2>3 DEF Repo!Update, Visible
<1>3. ASSUME NEW c \in Codes, Remove(c) PROVE Repo!Remove(c)
  <2>1. cleaner.doomed = {} /\ cleaner'.doomed = {} /\ high' = high
    BY <1>3, Alone DEF Remove
  <2>2. abs = table /\ abs' = table'
    BY <1>0, <2>1 DEF Visible
  <2> QED BY <1>3, <2>1, <2>2 DEF Repo!Remove, Remove, Visible
<1>4. ASSUME NEW t \in Threads, NEW c \in Codes, CountInEntry(t, c) PROVE Repo!RecordHit(c)
  <2>1. cleaner.doomed = {} /\ cleaner'.doomed = {} /\ high' = high
    BY <1>4 DEF CountInEntry, ReadFree, MInv, LockInv
  <2>2. abs = table /\ abs' = table'
    BY <1>0, <2>1 DEF Visible
  <2>3. table[c] # NoLink
        /\ table' = [table EXCEPT ![c] = [table[c] EXCEPT !.hits = table[c].hits + 1]]
    BY <1>0, <1>4 DEF CountInEntry
  <2> QED BY <2>1, <2>2, <2>3 DEF Repo!RecordHit, Visible
<1>5. ASSUME PurgeBegin PROVE \E cutoff \in 0..high : Repo!Purge(cutoff)
  <2>0. PICK cutoff \in 0..high : cutoff = cleaner.cutoff
    BY DEF MInv, MapTypes
  <2>1. cleaner.doomed = {} /\ high' = high /\ table' = table
    BY <1>5, Alone DEF PurgeBegin
  <2>2. cleaner'.doomed = {c \in Codes : table[c] # NoLink /\ IsExpired(table[c], cutoff)}
    BY <1>5, <2>0 DEF PurgeBegin, MInv, MapTypes
  <2>3. abs = table
    BY <1>0, <2>1 DEF Visible
  <2>4. abs' = [c \in Codes |-> IF table[c] # NoLink /\ IsExpired(table[c], cutoff)
                                THEN NoLink ELSE table[c]]
    BY <1>0, <2>1, <2>2 DEF Visible
  <2>5. Repo!Purge(cutoff)
    BY <2>1, <2>3, <2>4 DEF Repo!Purge, Repo!Expired, IsExpired, Visible
  <2> QED BY <2>5
<1>6. ASSUME NEW c \in Codes, PurgeOne(c) PROVE UNCHANGED Repo!vars
  <2>1. /\ cleaner'.doomed = cleaner.doomed \ {c} /\ c \in cleaner.doomed
        /\ table' = [table EXCEPT ![c] = NoLink] /\ high' = high
    BY <1>6 DEF PurgeOne, MInv, MapTypes
  <2>2. abs' = abs
    BY <1>0, <2>1 DEF Visible
  <2> QED BY <2>1, <2>2 DEF Repo!vars, Visible
<1>7. ASSUME Tick PROVE Repo!Tick \/ UNCHANGED Repo!vars
  <2>1. UNCHANGED <<table, cleaner>> /\ (high' = high + 1 \/ high' = high)
    BY <1>7 DEF Tick, MInv, MapTypes
  <2> QED BY <2>1 DEF Repo!Tick, Repo!vars, Visible
<1>8. ASSUME List \/ CleanerTick \/ PurgeEnd \/ SetBack \/ UNCHANGED vars
             \/ \E t \in Threads : FindWindow(t) \/ CountInWindow(t)
      PROVE  UNCHANGED Repo!vars
  <2>1. /\ table' = table /\ high' = high
        /\ cleaner'.doomed = cleaner.doomed
    BY <1>8 DEF List, CleanerTick, PurgeEnd, SetBack, FindWindow, CountInWindow, vars, history,
                MInv, MapTypes
  <2> QED BY <2>1 DEF Repo!vars, Visible
<1>9. ASSUME NEW t \in Threads, FindWindow(t) \/ CountInWindow(t)
      PROVE  UNCHANGED Repo!vars
  BY <1>8, <1>9
<1>10. ASSUME PurgeBegin PROVE Repo!Next
  BY <1>5, <1>10 DEF Repo!Next
<1>11. ASSUME NEW c \in Codes,
              Repo!Insert(c) \/ Repo!Update(c) \/ Repo!RecordHit(c) \/ Repo!Remove(c)
       PROVE  Repo!Next
  BY <1>11 DEF Repo!Next
<1>12. Repo!Tick => Repo!Next
  BY DEF Repo!Next
<1>13. CASE Next
  <2>1. ASSUME NEW c \in Codes, NEW target \in Targets, NEW ttl \in Ttls,
               Insert(c, target, ttl)
        PROVE  Repo!Next
    BY <1>1, <1>11, <2>1
  <2>2. ASSUME NEW c \in Codes, NEW target \in Targets, NEW v \in Versions,
               Update(c, target, v)
        PROVE  Repo!Next
    BY <1>2, <1>11, <2>2
  <2>3. ASSUME NEW c \in Codes, Remove(c) PROVE Repo!Next
    BY <1>3, <1>11, <2>3
  <2>4. ASSUME NEW t \in Threads, NEW c \in Codes, CountInEntry(t, c) PROVE Repo!Next
    BY <1>4, <1>11, <2>4
  <2> QED BY <1>6, <1>7, <1>8, <1>9, <1>10, <1>12, <1>13, <2>1, <2>2, <2>3, <2>4 DEF Next
<1> QED BY <1>8, <1>13

(* The in-memory repository implements the trait's contract: every call,   *)
(* a purge of many links included, takes place at one moment.              *)
THEOREM InMemoryImplements == Spec => RepositoryContract
<1> QED BY InitMInv, StepMInv, InitRefines, StepRefines, PTL
        DEF Spec, RepositoryContract, Repo!Spec

LEMMA OnlyListSees == [Next]_vars => List \/ seen' = seen
BY DEF Next, vars, history, Insert, Update, Remove, CountInEntry, FindWindow, CountInWindow,
       CleanerTick, PurgeBegin, PurgeOne, PurgeEnd, Tick, SetBack

(* A list sees all of a purge or nothing of it, and from the moment a      *)
(* purge has collected its codes nobody else changes their entries.        *)
THEOREM PurgeIsUnseen == Spec => PurgeIsAtomic
<1>1. ASSUME MInv, [Next]_vars PROVE [PurgeStep]_vars
  <2>1. cleaner.doomed # {} => ~ReadFree /\ ~WriteFree
    BY <1>1 DEF MInv, LockInv, ReadFree, WriteFree
  <2>2. seen' # seen => List
    BY <1>1, OnlyListSees
  <2>3. List => seen' = {c \in Codes : Visible[c] # NoLink}
    BY <2>1 DEF List, Visible
  <2>4. cleaner.doomed # {} =>
          table' = table \/ \E c \in Codes : table' = [table EXCEPT ![c] = NoLink]
    BY <1>1, <2>1 DEF Next, vars, Insert, Update, Remove, CountInEntry, FindWindow,
                      CountInWindow, CleanerTick, PurgeBegin, PurgeOne, PurgeEnd, Tick,
                      SetBack, List
  <2>5. table \in [Codes -> Link \cup {NoLink}] /\ cleaner.doomed \subseteq Codes
    BY <1>1 DEF MInv, MapTypes
  <2> QED BY <2>2, <2>3, <2>4, <2>5 DEF PurgeStep
<1> QED BY InitMInv, StepMInv, <1>1, PTL DEF Spec, PurgeIsAtomic

-----------------------------------------------------------------------------
(* The ring.                                                               *)

(* A second has one cell, and no other second within a window of it has    *)
(* the same.                                                               *)
LEMMA CellsAreApart ==
    /\ \A sec \in Nat : CellOf(sec) \in Cells
    /\ \A a, b \in Nat : CellOf(a) = CellOf(b) /\ a < b => b - a >= WindowSize
<1>1. ASSUME NEW sec \in Nat PROVE CellOf(sec) \in Cells
  BY WindowSizeAssumption DEF CellOf, Cells
<1>2. ASSUME NEW a \in Nat, NEW b \in Nat, CellOf(a) = CellOf(b), a < b
      PROVE  b - a >= WindowSize
  <2> DEFINE r == a % WindowSize
             p == a \div WindowSize
             q == b \div WindowSize
  <2>1. WindowSize \in Nat /\ WindowSize > 0
    BY WindowSizeAssumption
  <2>2. a = WindowSize * p + r /\ p \in Nat /\ r \in Nat
    BY <2>1
  <2>3. b = WindowSize * q + (b % WindowSize) /\ q \in Nat
    BY <2>1
  <2>4. b % WindowSize = r
    BY <1>2 DEF CellOf
  <2>5. WindowSize * p < WindowSize * q
    <3> HIDE DEF p, q, r
    <3>1. WindowSize * p \in Nat /\ WindowSize * q \in Nat
      BY <2>1, <2>2, <2>3
    <3> QED
      BY <1>2, <2>2, <2>3, <2>4, <3>1
  <2>6. q >= p + 1
    <3> HIDE DEF p, q
    <3> QED
      BY <2>1, <2>2, <2>3, <2>5
  <2>7. WindowSize * q >= WindowSize * (p + 1) /\ WindowSize * (p + 1) = WindowSize * p + WindowSize
    <3> HIDE DEF p, q
    <3> QED
      BY <2>1, <2>2, <2>3, <2>6
  <2> QED
    <3> HIDE DEF p, q, r
    <3>1. WindowSize * p \in Nat /\ WindowSize * q \in Nat
      BY <2>1, <2>2, <2>3
    <3> QED
      BY <2>1, <2>2, <2>3, <2>4, <2>7, <3>1
<1> QED
  BY <1>1, <1>2

(* A window of seconds has every cell.                                     *)
LEMMA WindowHasCells ==
    ASSUME NEW last \in Nat, last >= WindowSize
    PROVE  {CellOf(sec) : sec \in last - WindowSize + 1 .. last} = Cells
<1>1. WindowSize \in Nat /\ WindowSize > 0
  BY WindowSizeAssumption
<1>2. \A sec \in last - WindowSize + 1 .. last : CellOf(sec) \in Cells
  BY <1>1, CellsAreApart
<1>3. ASSUME NEW i \in Cells
      PROVE  \E sec \in last - WindowSize + 1 .. last : CellOf(sec) = i
  <2> DEFINE r == (last - i) % WindowSize
             q == (last - i) \div WindowSize
  <2>1. i \in Nat /\ i < WindowSize /\ last - i \in Nat
    BY <1>1 DEF Cells
  <2>2. r \in 0 .. WindowSize - 1 /\ q \in Nat /\ last - i = WindowSize * q + r
    BY <1>1, <2>1
  <2>3. last - r \in last - WindowSize + 1 .. last /\ last - r \in Nat
        /\ last - r = WindowSize * q + i
    <3> HIDE DEF r, q
    <3>1. WindowSize * q \in Nat
      BY <1>1, <2>2
    <3> QED
      BY <1>1, <2>1, <2>2, <3>1
  <2>4. CellOf(last - r) = i
    <3> HIDE DEF r, q
    <3> QED
      BY <1>1, <2>1, <2>2, <2>3 DEF CellOf
  <2> QED
    BY <2>3, <2>4
<1> QED
  BY <1>2, <1>3

LEMMA PassedCells == \A s \in Window, at \in Nat : Passed(s, at) \subseteq Cells
<1> SUFFICES ASSUME NEW s \in Window, NEW at \in Nat PROVE Passed(s, at) \subseteq Cells
  OBVIOUS
<1>1. s.last_update_sec \in Nat
  BY DEF Window
<1>2. \A sec \in s.last_update_sec + 1 .. at : CellOf(sec) \in Cells
  BY <1>1, CellsAreApart
<1> QED
  BY <1>2 DEF Passed

LEMMA CellsFinite == IsFiniteSet(Cells)
BY WindowSizeAssumption, FS_Interval DEF Cells

(* The sum that record_hit leaves is that of the buffer it leaves: what it *)
(* subtracts is what it clears, so the sum never goes below zero.          *)
LEMMA RecordedSum ==
    ASSUME NEW s \in Window, s.cached_sum = SumOn(s.buffer, Cells), NEW at \in Nat
    PROVE  /\ RecordedHit(s, at) \in Window
           /\ RecordedHit(s, at).cached_sum = SumOn(RecordedHit(s, at).buffer, Cells)
<1> DEFINE hit == RecordedHit(s, at)
           gone == Passed(s, at)
           kept == [i \in Cells |-> IF i \in gone THEN 0 ELSE s.buffer[i]]
<1>1. /\ s.buffer \in [Cells -> Nat] /\ s.last_update_sec \in Nat /\ s.total_hits \in Nat
      /\ gone \in SUBSET Cells /\ CellOf(at) \in Cells
  BY PassedCells, CellsAreApart DEF Window
<1>2. \A i \in Cells : kept[i] \in Nat /\ s.buffer[i] \in Nat
  BY <1>1
<1>3. /\ hit.buffer = [kept EXCEPT ![CellOf(at)] = @ + 1]
      /\ hit.last_update_sec = at
      /\ hit.cached_sum = Remaining(s, at) + 1
      /\ hit.total_hits = s.total_hits + 1
      /\ hit = [buffer |-> hit.buffer, last_update_sec |-> hit.last_update_sec,
                cached_sum |-> hit.cached_sum, total_hits |-> hit.total_hits]
  BY DEF RecordedHit
<1>4. /\ hit.buffer \in [Cells -> Nat]
      /\ hit.buffer[CellOf(at)] = kept[CellOf(at)] + 1
      /\ \A i \in Cells \ {CellOf(at)} : hit.buffer[i] = kept[i]
  <2> HIDE DEF kept, hit
  <2>1. kept = [i \in Cells |-> kept[i]]
    BY DEF kept
  <2> QED
    BY <1>1, <1>2, <1>3, <2>1
<1>5. SumOn(hit.buffer, Cells) = SumOn(kept, Cells) + 1
  <2> HIDE DEF kept, hit
  <2> QED
    BY <1>1, <1>2, <1>4, CellsFinite, SumOneMore
<1>6. SumOn(kept, Cells) = SumOn(s.buffer, Cells \ gone)
  <2>1. IsFiniteSet(gone) /\ IsFiniteSet(Cells \ gone)
    BY <1>1, CellsFinite, FS_Subset
  <2>2. SumOn(kept, Cells) = SumOn(kept, gone) + SumOn(kept, Cells \ gone)
    <3> HIDE DEF kept, gone
    <3> QED
      BY <1>1, <1>2, CellsFinite, SumSplit
  <2>3. SumOn(kept, gone) = 0
    <3>1. \A i \in gone : kept[i] = 0
      BY <1>1
    <3> HIDE DEF kept, gone
    <3> QED
      BY <2>1, <3>1, SumZero
  <2>4. SumOn(kept, Cells \ gone) = SumOn(s.buffer, Cells \ gone)
    <3>1. \A i \in Cells \ gone : kept[i] = s.buffer[i]
      OBVIOUS
    <3> HIDE DEF kept, gone
    <3> QED
      BY <2>1, <3>1, SumSame
  <2>5. SumOn(s.buffer, Cells \ gone) \in Nat
    <3> HIDE DEF gone
    <3> QED
      BY <1>2, CellsFinite, SumNat
  <2> QED
    BY <2>2, <2>3, <2>4, <2>5
<1>7. Remaining(s, at) = SumOn(s.buffer, Cells \ gone)
  <2>1. CASE at > s.last_update_sec + WindowSize
    <3>1. gone = Cells /\ Remaining(s, at) = 0
      BY <2>1 DEF Passed, Remaining
    <3> QED
      BY <3>1, SumEmpty
  <2>2. CASE ~(at > s.last_update_sec + WindowSize)
    <3>1. Remaining(s, at) = s.cached_sum - SumOn(s.buffer, gone)
      BY <2>2 DEF Remaining, SumOn
    <3> HIDE DEF gone
    <3>2. s.cached_sum = SumOn(s.buffer, gone) + SumOn(s.buffer, Cells \ gone)
      BY <1>1, <1>2, CellsFinite, SumSplit
    <3>3. SumOn(s.buffer, gone) \in Nat /\ SumOn(s.buffer, Cells \ gone) \in Nat
      BY <1>1, <1>2, CellsFinite, SumNat
    <3> QED
      BY <3>1, <3>2, <3>3
  <2> QED
    BY <2>1, <2>2
<1>8. hit.cached_sum = SumOn(hit.buffer, Cells)
  BY <1>3, <1>5, <1>6, <1>7
<1>9. hit.cached_sum \in Nat
  <2> HIDE DEF hit
  <2> QED
    BY <1>4, <1>8, CellsFinite, SumNat
<1>10. hit \in Window
  <2>1. hit.last_update_sec \in Nat /\ hit.total_hits \in Nat
    BY <1>1, <1>3
  <2> HIDE DEF hit
  <2> QED
    BY <1>3, <1>4, <1>9, <2>1 DEF Window
<1> QED
  BY <1>8, <1>10

(* While the clock goes forward, the buffer is the hits of the seconds of  *)
(* a window that ends with the last hit, and there are none later; or the  *)
(* window is new.                                                          *)
Mirrors(s, hits, at) ==
    /\ s.last_update_sec <= at
    /\ \A sec \in Seconds : sec > s.last_update_sec => hits[sec] = 0
    /\ \/ s = NewWindow
       \/ /\ s.last_update_sec >= Start
          /\ \A sec \in s.last_update_sec - WindowSize + 1 .. s.last_update_sec :
               s.buffer[CellOf(sec)] = hits[sec]

LEMMA RecordedMirrors ==
    ASSUME NEW s \in Window, NEW at \in Start..MaxTime, NEW hits \in [Seconds -> Nat],
           Mirrors(s, hits, at)
    PROVE  Mirrors(RecordedHit(s, at), [hits EXCEPT ![at] = @ + 1], at)
<1> DEFINE hit == RecordedHit(s, at)
           more == [hits EXCEPT ![at] = @ + 1]
           last == s.last_update_sec
           kept == [i \in Cells |-> IF i \in Passed(s, at) THEN 0 ELSE s.buffer[i]]
<1>1. /\ WindowSize \in Nat /\ WindowSize > 0 /\ Start \in Nat /\ Start > WindowSize
      /\ MaxTime \in Nat /\ at \in Nat /\ at \in Seconds /\ at >= Start /\ at <= MaxTime
      /\ last \in Nat /\ last <= at
  BY WindowSizeAssumption, ClockAssumption DEF Seconds, Window, Mirrors
<1>2. /\ \A sec \in Seconds \ {at} : more[sec] = hits[sec]
      /\ more[at] = hits[at] + 1
  BY <1>1
<1>3. /\ hit.buffer = [kept EXCEPT ![CellOf(at)] = @ + 1]
      /\ hit.last_update_sec = at
  BY DEF RecordedHit
<1>4. \A sec \in Seconds : sec > at => more[sec] = 0
  BY <1>1, <1>2 DEF Mirrors, Seconds
<1>5. ASSUME NEW sec \in at - WindowSize + 1 .. at
      PROVE  hit.buffer[CellOf(sec)] = more[sec]
  <2>1. sec \in Nat /\ sec \in Seconds /\ CellOf(sec) \in Cells /\ CellOf(at) \in Cells
    BY <1>1, CellsAreApart DEF Seconds
  <2>2. kept[CellOf(sec)] = hits[sec]
    <3>1. CASE sec > last
      <4>1. hits[sec] = 0
        BY <2>1, <3>1 DEF Mirrors
      <4>2. CellOf(sec) \in Passed(s, at)
        BY <1>1, <2>1, <3>1 DEF Passed
      <4> QED
        BY <2>1, <4>1, <4>2
    <3>2. CASE sec <= last
      <4>1. at <= last + WindowSize /\ last > 0
        BY <1>1, <2>1, <3>2
      <4>2. /\ s # NewWindow
            /\ sec \in last - WindowSize + 1 .. last
        BY <1>1, <2>1, <3>2, <4>1 DEF NewWindow
      <4>3. s.buffer[CellOf(sec)] = hits[sec]
        BY <4>2 DEF Mirrors
      <4>4. CellOf(sec) \notin Passed(s, at)
        <5>1. SUFFICES ASSUME NEW later \in last + 1 .. at, CellOf(later) = CellOf(sec)
                       PROVE  FALSE
          BY <1>1, <4>1 DEF Passed
        <5>2. later \in Nat /\ sec < later /\ later - sec < WindowSize
          BY <1>1, <2>1, <3>2
        <5> QED
          BY <1>1, <2>1, <5>1, <5>2, CellsAreApart
      <4> QED
        BY <2>1, <4>3, <4>4
    <3> QED
      BY <1>1, <2>1, <3>1, <3>2
  <2>3. CASE sec = at
    BY <1>2, <1>3, <2>1, <2>2, <2>3
  <2>4. CASE sec # at
    <3>1. CellOf(sec) # CellOf(at)
      <4>1. sec < at /\ at - sec < WindowSize
        BY <1>1, <2>1, <2>4
      <4> QED
        BY <1>1, <2>1, <4>1, CellsAreApart
    <3> QED
      BY <1>2, <1>3, <2>1, <2>2, <2>4, <3>1
  <2> QED
    BY <2>3, <2>4
<1> HIDE DEF hit, more
<1> QED
  BY <1>1, <1>3, <1>4, <1>5 DEF Mirrors, hit, more

(* The cached sum is then the number of hits in that window.               *)
LEMMA SumOfWindow ==
    ASSUME NEW s \in Window, s.cached_sum = SumOn(s.buffer, Cells),
           NEW hits \in [Seconds -> Nat], NEW at \in Start..MaxTime, Mirrors(s, hits, at),
           s # NewWindow
    PROVE  s.cached_sum
             = SumOn(hits, s.last_update_sec - WindowSize + 1 .. s.last_update_sec)
<1> DEFINE last == s.last_update_sec
           secs == last - WindowSize + 1 .. last
           cell == [sec \in secs |-> CellOf(sec)]
<1>1. /\ WindowSize \in Nat /\ WindowSize > 0 /\ Start \in Nat /\ Start > WindowSize
      /\ last \in Nat /\ last >= Start
      /\ s.buffer \in [Cells -> Nat]
  BY WindowSizeAssumption, ClockAssumption DEF Window, Mirrors
<1>2. secs \subseteq Nat /\ IsFiniteSet(secs)
  <2>1. last - WindowSize + 1 \in Nat
    BY <1>1
  <2> HIDE DEF last
  <2>2. IsFiniteSet(secs)
    BY <1>1, <2>1, FS_Interval
  <2>3. secs \subseteq Nat
    BY <1>1, <2>1
  <2> QED
    BY <2>2, <2>3
<1>3. cell \in [secs -> Cells]
  BY <1>2, CellsAreApart
<1>4. \A a, b \in secs : cell[a] = cell[b] => a = b
  <2>1. ASSUME NEW a \in secs, NEW b \in secs, a < b PROVE cell[a] # cell[b]
    <3>1. a \in Nat /\ b \in Nat
      BY <1>2
    <3>2. b - a < WindowSize
      <4>1. a >= last - WindowSize + 1 /\ b <= last
        BY <1>1
      <4> HIDE DEF last
      <4> QED
        BY <1>1, <3>1, <4>1
    <3>3. CellOf(a) # CellOf(b)
      BY <1>1, <2>1, <3>1, <3>2, CellsAreApart
    <3> QED
      BY <3>3
  <2>2. \A a, b \in secs : a < b \/ b < a \/ a = b
    <3> HIDE DEF secs
    <3> QED
      BY <1>2
  <2> HIDE DEF secs, cell
  <2> QED
    BY <2>1, <2>2
<1>5. \A sec \in secs : hits[sec] = s.buffer[cell[sec]]
  BY DEF Mirrors
<1>6. {cell[sec] : sec \in secs} = Cells
  <2>1. {cell[sec] : sec \in secs} = {CellOf(sec) : sec \in secs}
    OBVIOUS
  <2>2. last >= WindowSize
    BY <1>1
  <2> QED
    BY <1>1, <2>1, <2>2, WindowHasCells
<1>7. SumOn(s.buffer, {cell[sec] : sec \in secs}) = SumOn(hits, secs)
  <2> HIDE DEF cell, secs
  <2> QED
    BY <1>1, <1>2, <1>3, <1>4, <1>5, CellsFinite, SumRenamed
<1> QED
  BY <1>6, <1>7

-----------------------------------------------------------------------------
(* A window's sum is that of its buffer, and the buffer mirrors the hits   *)
(* while the clock has not been set back.                                  *)
Ring(s, hits, at, back) ==
    /\ s \in Window
    /\ s.cached_sum = SumOn(s.buffer, Cells)
    /\ ~back => Mirrors(s, hits, at)

RingInv ==
    /\ now \in Start..MaxTime /\ jumped \in BOOLEAN
    /\ hit_at \in [Codes -> [Seconds -> Nat]]
    /\ presented \in [Codes -> [Versions -> Nat]]
    /\ \A c \in Codes : \A s \in stats[c] : Ring(s, hit_at[c], now, jumped)

LEMMA NewRing ==
    /\ NoHits \in [Seconds -> Nat]
    /\ \A at \in Nat, back \in BOOLEAN : Ring(NewWindow, NoHits, at, back)
<1>1. NoHits \in [Seconds -> Nat] /\ NewWindow \in Window
  BY DEF NoHits, NewWindow, Window
<1>2. SumOn(NewWindow.buffer, Cells) = 0
  <2>1. \A i \in Cells : NewWindow.buffer[i] = 0
    BY DEF NewWindow
  <2> QED
    BY <2>1, CellsFinite, SumZero
<1>3. \A at \in Nat : Mirrors(NewWindow, NoHits, at)
  BY DEF Mirrors, NewWindow, NoHits
<1>4. NewWindow.cached_sum = SumOn(NewWindow.buffer, Cells)
  BY <1>2 DEF NewWindow
<1> QED
  BY <1>1, <1>3, <1>4 DEF Ring

LEMMA InitRingInv == Init => RingInv
<1> SUFFICES ASSUME Init PROVE RingInv
  OBVIOUS
<1>1. now \in Start..MaxTime
  BY ClockAssumption DEF Init
<1> QED
  BY <1>1, NewRing DEF Init, RingInv, NoUpdates

(* What leaves the clock and the windows as they are.                      *)
LEMMA QuietRingInv ==
    ASSUME RingInv, UNCHANGED <<now, jumped, hit_at, stats>>,
           presented' \in [Codes -> [Versions -> Nat]]
    PROVE  RingInv'
BY DEF RingInv

(* What changes the window of one code.                                    *)
LEMMA OneRingInv ==
    ASSUME RingInv, UNCHANGED <<now, jumped, presented>>, NEW c \in Codes,
           hit_at' \in [Codes -> [Seconds -> Nat]],
           \A d \in Codes \ {c} : stats'[d] = stats[d] /\ hit_at'[d] = hit_at[d],
           \A s \in stats'[c] : Ring(s, hit_at'[c], now, jumped)
    PROVE  RingInv'
<1>1. ASSUME NEW d \in Codes, NEW s \in stats'[d]
      PROVE  Ring(s, hit_at'[d], now', jumped')
  <2>1. CASE d = c
    BY <1>1, <2>1
  <2>2. CASE d # c
    BY <1>1, <2>2 DEF RingInv
  <2> QED
    BY <2>1, <2>2
<1> QED
  BY <1>1 DEF RingInv

LEMMA FindWindowRingInv ==
    ASSUME MInv, RingInv, NEW t \in Threads, FindWindow(t)
    PROVE  RingInv'
<1>1. PICK c \in Codes : c = thread[t].code
  BY IdleThreads DEF FindWindow
<1>2. CASE stats[c] = {}
  <2>1. /\ stats' = [stats EXCEPT ![c] = {NewWindow}]
        /\ hit_at' = [hit_at EXCEPT ![c] = NoHits]
        /\ UNCHANGED <<now, jumped, presented>>
    BY <1>1, <1>2 DEF FindWindow
  <2>2. stats = [d \in Codes |-> stats[d]] /\ Ring(NewWindow, NoHits, now, jumped)
    BY NewRing DEF MInv, MapTypes, StatsTypes, RingInv
  <2>3. /\ stats'[c] = {NewWindow} /\ hit_at'[c] = NoHits
        /\ \A d \in Codes \ {c} : stats'[d] = stats[d] /\ hit_at'[d] = hit_at[d]
        /\ hit_at' \in [Codes -> [Seconds -> Nat]]
    BY <2>1, <2>2, NewRing DEF RingInv
  <2> QED
    BY <2>1, <2>2, <2>3, OneRingInv
<1>3. CASE stats[c] # {}
  <2>1. UNCHANGED <<now, jumped, hit_at, stats, presented>>
    BY <1>1, <1>3 DEF FindWindow
  <2> QED
    BY <2>1, QuietRingInv DEF RingInv
<1> QED
  BY <1>2, <1>3

LEMMA CountInWindowRingInv ==
    ASSUME MInv, RingInv, NEW t \in Threads, CountInWindow(t)
    PROVE  RingInv'
<1>1. PICK c \in Codes : c = thread[t].code
  BY IdleThreads DEF CountInWindow
<1> DEFINE ring == {RecordedHit(s, now) : s \in stats[c]}
           hits == [hit_at[c] EXCEPT ![now] = @ + 1]
<1>2. /\ now \in Nat /\ now \in Start..MaxTime /\ now \in Seconds
      /\ stats = [d \in Codes |-> stats[d]] /\ hit_at[c] \in [Seconds -> Nat]
  <2>1. now \in Nat /\ now \in Start..MaxTime /\ now \in Seconds
    BY ClockAssumption DEF RingInv, Seconds
  <2> QED
    BY <2>1 DEF MInv, StatsTypes, RingInv
<1>3. /\ stats' = [stats EXCEPT ![c] = ring]
      /\ hit_at' = [hit_at EXCEPT ![c] = hits]
      /\ UNCHANGED <<now, jumped, presented>>
  BY <1>1 DEF CountInWindow
<1>4. ASSUME NEW s \in stats[c]
      PROVE  Ring(RecordedHit(s, now), hits, now, jumped)
  <2>1. Ring(s, hit_at[c], now, jumped)
    BY DEF RingInv
  <2> QED
    BY <1>2, <2>1, RecordedSum, RecordedMirrors DEF Ring
<1>5. /\ stats'[c] = ring
      /\ hit_at'[c] = hits
      /\ \A d \in Codes \ {c} : stats'[d] = stats[d] /\ hit_at'[d] = hit_at[d]
      /\ hit_at' \in [Codes -> [Seconds -> Nat]]
  <2>1. hits \in [Seconds -> Nat]
    BY <1>2
  <2> HIDE DEF ring, hits
  <2> QED
    BY <1>2, <1>3, <2>1 DEF RingInv
<1>6. \A s \in stats'[c] : Ring(s, hit_at'[c], now, jumped)
  BY <1>4, <1>5
<1> HIDE DEF ring, hits
<1> QED
  BY <1>3, <1>5, <1>6, OneRingInv

LEMMA PurgeOneRingInv ==
    ASSUME MInv, RingInv, NEW c \in Codes, PurgeOne(c)
    PROVE  RingInv'
<1>1. stats = [d \in Codes |-> stats[d]]
  BY DEF MInv, StatsTypes
<1>2. /\ stats'[c] = {} /\ UNCHANGED <<now, jumped, presented>>
      /\ \A d \in Codes \ {c} : stats'[d] = stats[d] /\ hit_at'[d] = hit_at[d]
      /\ hit_at' \in [Codes -> [Seconds -> Nat]]
  BY <1>1, NewRing DEF PurgeOne, RingInv
<1> QED
  BY <1>2, OneRingInv

LEMMA TickRingInv == RingInv /\ Tick => RingInv'
<1> SUFFICES ASSUME RingInv, Tick PROVE RingInv'
  OBVIOUS
<1>1. /\ now' \in Start..MaxTime /\ now <= now'
      /\ UNCHANGED <<stats, jumped, hit_at, presented>>
  BY ClockAssumption DEF Tick, RingInv
<1>2. ASSUME NEW s, NEW hits, Ring(s, hits, now, jumped)
      PROVE  Ring(s, hits, now', jumped)
  <2>1. ~jumped => s.last_update_sec <= now'
    BY <1>1, <1>2, ClockAssumption DEF Ring, Mirrors, Window, RingInv
  <2> QED
    BY <1>2, <2>1 DEF Ring, Mirrors
<1> QED
  BY <1>1, <1>2 DEF RingInv

LEMMA SeenCodes == Spec => [](seen \subseteq Codes)
<1>1. Init => seen \subseteq Codes
  BY DEF Init
<1>2. seen \subseteq Codes /\ [Next]_vars => (seen \subseteq Codes)'
  BY OnlyListSees DEF List
<1> QED BY <1>1, <1>2, PTL DEF Spec

LEMMA StepRingInv == MInv /\ RingInv /\ [Next]_vars => RingInv'
<1> SUFFICES ASSUME MInv, RingInv, [Next]_vars PROVE RingInv'
  OBVIOUS
<1>1. ASSUME NEW c \in Codes, NEW target \in Targets, NEW ttl \in Ttls, Insert(c, target, ttl)
      PROVE  RingInv'
  <2>1. presented' \in [Codes -> [Versions -> Nat]]
    BY <1>1 DEF Insert, RingInv, NoUpdates
  <2> QED
    BY <1>1, <2>1, QuietRingInv DEF Insert
<1>2. ASSUME NEW c \in Codes, NEW target \in Targets, NEW v \in Versions, Update(c, target, v)
      PROVE  RingInv'
  <2>1. presented' \in [Codes -> [Versions -> Nat]]
    BY <1>2 DEF Update, RingInv
  <2> QED
    BY <1>2, <2>1, QuietRingInv DEF Update
<1>3. ASSUME UNCHANGED <<now, jumped, hit_at, stats, presented>> PROVE RingInv'
  BY <1>3, QuietRingInv DEF RingInv
<1>4. ASSUME NEW c \in Codes, Remove(c) \/ \E t \in Threads : CountInEntry(t, c)
      PROVE  RingInv'
  BY <1>3, <1>4 DEF Remove, CountInEntry
<1>5. ASSUME List \/ CleanerTick \/ PurgeBegin \/ PurgeEnd \/ UNCHANGED vars PROVE RingInv'
  BY <1>3, <1>5 DEF List, CleanerTick, PurgeBegin, PurgeEnd, vars, history
<1>6. ASSUME SetBack PROVE RingInv'
  <2>1. /\ now' \in Start..MaxTime /\ jumped' = TRUE
        /\ UNCHANGED <<stats, hit_at, presented>>
    BY <1>6, ClockAssumption DEF SetBack, RingInv
  <2> QED
    BY <2>1 DEF RingInv, Ring
<1> QED
  BY <1>1, <1>2, <1>4, <1>5, <1>6, FindWindowRingInv, CountInWindowRingInv,
     PurgeOneRingInv, TickRingInv DEF Next

(* Whatever the clock does and however hits, removals and purges           *)
(* interleave, the cached sum is the sum of the buffer: the u64            *)
(* subtraction in record_hit never wraps.                                  *)
THEOREM CachedSumIsExact == Spec => []SumIsBuffer
<1>1. RingInv => SumIsBuffer
  <2> SUFFICES ASSUME RingInv, NEW c \in Codes, NEW s \in stats[c]
               PROVE  s.cached_sum = FoldFunction(+, 0, s.buffer)
    BY DEF SumIsBuffer
  <2>1. DOMAIN s.buffer = Cells
    BY DEF RingInv, Ring, Window
  <2>2. FoldFunction(+, 0, s.buffer) = SumOn(s.buffer, Cells)
    BY <2>1 DEF FoldFunction, SumOn
  <2> QED
    BY <2>2 DEF RingInv, Ring
<1> QED
  BY InitMInv, StepMInv, InitRingInv, StepRingInv, <1>1, PTL DEF Spec

(* Every variable keeps its type: no sum falls below zero, and a thread on *)
(* its way to a window finds it in the map.                                *)
THEOREM InMemoryTypes == Spec => []TypeOK
<1>1. MInv /\ RingInv /\ seen \subseteq Codes => TypeOK
  <2> SUFFICES ASSUME MInv, RingInv, seen \subseteq Codes PROVE TypeOK
    OBVIOUS
  <2>1. stats \in [Codes -> SUBSET Window]
    BY DEF MInv, StatsTypes, RingInv, Ring
  <2>2. \A t \in Threads : thread[t].pc = "count" => stats[thread[t].code] # {}
    BY DEF MInv, LockInv, Holds
  <2>3. thread \in [Threads -> [pc: {"find", "count"}, code: Codes] \cup {Idle}]
    BY DEF MInv, MapTypes, Calls
  <2>4. /\ cleaner.pc \in {"waiting", "wanting", "purging"}
        /\ cleaner.cutoff \in 0..high /\ cleaner.doomed \subseteq Codes
    BY DEF MInv, MapTypes
  <2> QED
    BY <2>1, <2>2, <2>3, <2>4 DEF MInv, MapTypes, RingInv, TypeOK
<1> QED
  BY InitMInv, StepMInv, InitRingInv, StepRingInv, SeenCodes, <1>1, PTL DEF Spec

(* While the clock goes forward, get_last_60s counts every hit of the last *)
(* window, and none that is two windows old, for any size of the window.   *)
THEOREM WindowIsCounted == Spec => []CountsTheWindow
<1>1. MInv /\ RingInv => CountsTheWindow
  <2> SUFFICES ASSUME MInv, RingInv, ~jumped, NEW c \in Codes, NEW s \in stats[c]
               PROVE  /\ LastHits(s, now) >= HitsIn(c, now - WindowSize + 1, now)
                      /\ LastHits(s, now) <= HitsIn(c, now - 2 * WindowSize + 2, now)
    BY DEF CountsTheWindow
  <2> DEFINE hits == hit_at[c]
             last == s.last_update_sec
             counted == last - WindowSize + 1 .. last
             all == (now - 2 * WindowSize + 2 .. now) \cap Seconds
             recent == (now - WindowSize + 1 .. now) \cap Seconds
  <2>1. /\ WindowSize \in Nat /\ WindowSize > 0 /\ Start \in Nat /\ Start > WindowSize
        /\ MaxTime \in Nat /\ now \in Nat /\ now >= Start /\ now <= MaxTime
        /\ now \in Start..MaxTime
    BY WindowSizeAssumption, ClockAssumption DEF RingInv
  <2>2. /\ s \in Window /\ s.cached_sum = SumOn(s.buffer, Cells) /\ Mirrors(s, hits, now)
        /\ hits \in [Seconds -> Nat] /\ \A sec \in Seconds : hits[sec] \in Nat
        /\ last \in Nat /\ last <= now
    BY DEF RingInv, Ring, Window, Mirrors
  <2>3. HitsIn(c, now - WindowSize + 1, now) = SumOn(hits, recent)
        /\ HitsIn(c, now - 2 * WindowSize + 2, now) = SumOn(hits, all)
    BY DEF HitsIn, FoldFunctionOnSet, SumOn
  <2>4. IsFiniteSet(Seconds) /\ all \subseteq Seconds /\ recent \subseteq Seconds
    BY <2>1, FS_Interval DEF Seconds
  <2>5. IsFiniteSet(all) /\ IsFiniteSet(recent)
    BY <2>4, FS_Subset
  <2>6. \A sec \in Seconds : sec > last => hits[sec] = 0
    BY <2>2 DEF Mirrors
  <2> HIDE DEF hits, all, recent, counted
  <2>7. SumOn(hits, all) \in Nat
    BY <2>2, <2>4, <2>5, SumNat
  <2>8. CASE now - last >= WindowSize
    <3>1. LastHits(s, now) = 0
      BY <2>8 DEF LastHits
    <3>2. \A sec \in recent : hits[sec] = 0
      BY <2>1, <2>2, <2>6, <2>8 DEF recent
    <3>3. SumOn(hits, recent) = 0
      BY <2>5, <3>2, SumZero
    <3> QED
      BY <2>3, <2>7, <3>1, <3>3
  <2>9. CASE now - last < WindowSize
    <3>1. s # NewWindow
      BY <2>1, <2>9 DEF NewWindow
    <3>2. LastHits(s, now) = SumOn(hits, counted)
      BY <2>1, <2>2, <2>9, <3>1, SumOfWindow DEF LastHits, counted
    <3>3. last >= Start
      BY <2>2, <3>1 DEF Mirrors
    <3>4. counted \subseteq Seconds /\ counted \subseteq all
      <4>0. last - now >= 1 - WindowSize
        BY <2>1, <2>2, <2>9
      <4> HIDE DEF last
      <4>1. last - WindowSize + 1 >= 0 /\ last - WindowSize + 1 >= now - 2 * WindowSize + 2
        BY <2>1, <2>2, <3>3, <4>0
      <4>2. counted \subseteq Seconds
        BY <2>1, <2>2, <4>1 DEF counted, Seconds
      <4> QED
        BY <2>1, <2>2, <4>1, <4>2 DEF counted, all
    <3>5. SumOn(hits, counted) <= SumOn(hits, all)
      BY <2>2, <2>4, <2>5, <3>4, SumPart
    <3>6. SumOn(hits, recent) <= SumOn(hits, counted)
      <4> DEFINE late == recent \ counted
                 both == recent \cap counted
      <4>1. \A sec \in late : hits[sec] = 0
        BY <2>1, <2>2, <2>6, <2>9 DEF recent, counted, Seconds
      <4>2. SumOn(hits, late) = 0
        <5>1. IsFiniteSet(late)
          BY <2>5, FS_Subset
        <5> HIDE DEF late
        <5> QED
          BY <4>1, <5>1, SumZero
      <4>3. SumOn(hits, recent) = SumOn(hits, both) + SumOn(hits, late)
        <5>1. both \in SUBSET recent /\ late = recent \ both
          OBVIOUS
        <5> HIDE DEF both, late
        <5> QED
          BY <2>2, <2>4, <2>5, <5>1, SumSplit
      <4>4. IsFiniteSet(counted)
        BY <2>4, <3>4, FS_Subset
      <4>5. SumOn(hits, both) <= SumOn(hits, counted) /\ SumOn(hits, both) \in Nat
        <5>1. both \in SUBSET counted
          OBVIOUS
        <5> HIDE DEF both
        <5> QED
          BY <2>2, <3>4, <4>4, <5>1, SumPart, SumNat
      <4> QED
        BY <4>2, <4>3, <4>5
    <3> QED
      BY <2>3, <3>2, <3>5, <3>6
  <2> QED
    BY <2>1, <2>2, <2>8, <2>9
<1> QED
  BY InitMInv, StepMInv, InitRingInv, StepRingInv, <1>1, PTL DEF Spec
=============================================================================
