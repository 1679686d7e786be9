---------------------------- MODULE InMemoryRepo ----------------------------
(***************************************************************************)
(* InMemoryRepo, the repository the server uses unless it is configured    *)
(* for Postgres: a map from codes to entries under one RwLock, and in it a *)
(* StatsStorage, a second map of sliding windows under locks of its own.   *)
(*                                                                         *)
(* insert, update and remove do all they do under the write lock, and are  *)
(* one action each.  record_hit holds the read lock only: it counts in the *)
(* entry, then finds or makes the window, then counts in the window, and   *)
(* others run in between.  purge_expired holds the write lock throughout.  *)
(* get, stats and list read under the read lock: list, which reads every   *)
(* entry, stands for them.  Calls that find no entry change nothing.       *)
(***************************************************************************)
EXTENDS SlidingWindow, FiniteSets

CONSTANTS
    Codes, Targets,
    NoLink,            \* there is no entry
    Threads,           \* worker threads in record_hit
    Ttls,              \* what links are created with; 0 is None
    Versions,          \* what callers of update present
    Start,             \* the clock when the server starts
    MaxTime,           \* bound: the clock stops here
    MaxHits,           \* bound: hits counted in one window
    MaxVersion         \* bound: versions of one link

Link == [target: Targets, version: Nat, hits: Nat, expires_at: Nat]

ASSUME NothingAssumption == NoLink \notin Link /\ NoLink \notin Codes
ASSUME ThreadsAssumption == IsFiniteSet(Threads)
(* The clock is well past the epoch, where a new window claims to be.      *)
ASSUME ClockAssumption ==
    /\ Start \in Nat /\ Start > WindowSize /\ MaxTime \in Nat /\ Start <= MaxTime
    /\ MaxHits \in Nat /\ MaxVersion \in Nat /\ Ttls \subseteq Nat /\ Versions \subseteq Nat

VARIABLES
    now,        \* SystemTime::now(), in seconds
    table,      \* Codes -> the entry under the code
    stats,      \* Codes -> the set of its window: empty when there is none
    thread,     \* Threads -> [pc, code]: record_hit
    cleaner,    \* [pc, cutoff, doomed]: purge_expired
    high,       \* history: the latest time the clock has shown
    jumped,     \* history: the clock was set back
    inherited,  \* history: Codes -> the window's total when the link was inserted
    hit_at,     \* history: Codes -> the hits counted in the window, by second
    presented,  \* history: Codes -> how many updates of the link presented a version
    seen        \* history: the codes that the latest list has found

history == <<high, jumped, inherited, hit_at, presented, seen>>
vars == <<now, table, stats, thread, cleaner, history>>

Seconds == 0..MaxTime
NoHits == [sec \in Seconds |-> 0]
NoUpdates == [v \in Versions |-> 0]
Idle == [pc |-> "idle", code |-> NoLink]

IsExpired(link, at) == link.expires_at # 0 /\ link.expires_at <= at

(* Mutant: the read guard is dropped once the entry is found.              *)
HoldsBriefly(t) == FALSE

(* record_hit_sync holds the read guard of inner to its end.               *)
Holds(t) == thread[t].pc # "idle"

(* Mutant: purge_expired works under a read lock.                          *)
ReadAnytime == TRUE

(* The RwLock inner.                                                       *)
ReadFree == cleaner.pc # "purging"
WriteFree == ReadFree /\ \A t \in Threads : ~Holds(t)

WindowOf(c) == CHOOSE s \in stats[c] : TRUE
TotalHits(c) == IF stats[c] = {} THEN 0 ELSE WindowOf(c).total_hits

Init == /\ now = Start /\ high = Start /\ jumped = FALSE
        /\ table = [c \in Codes |-> NoLink]
        /\ stats = [c \in Codes |-> {}]
        /\ thread = [t \in Threads |-> Idle]
        /\ cleaner = [pc |-> "waiting", cutoff |-> 0, doomed |-> {}]
        /\ inherited = [c \in Codes |-> 0]
        /\ hit_at = [c \in Codes |-> NoHits]
        /\ presented = [c \in Codes |-> NoUpdates]
        /\ seen = {}

-----------------------------------------------------------------------------
(* insert_sync of a link whose handler read the clock just before.         *)
Insert(c, target, ttl) ==
    /\ WriteFree
    /\ table[c] = NoLink
    /\ table' = [table EXCEPT ![c] =
                   [target |-> target, version |-> 1, hits |-> 0,
                    expires_at |-> IF ttl = 0 THEN 0 ELSE now + ttl]]
    /\ inherited' = [inherited EXCEPT ![c] = TotalHits(c)]
    /\ presented' = [presented EXCEPT ![c] = NoUpdates]
    /\ UNCHANGED <<now, stats, thread, cleaner, high, jumped, hit_at, seen>>

(* Mutant: a new entry.                                                    *)
UpdatedAfresh(link, target) == [link EXCEPT !.target = target, !.version = @ + 1, !.hits = 0]

Updated(link, target) == [link EXCEPT !.target = target, !.version = @ + 1]

(* update, which drops the version that the caller presents, and           *)
(* update_sync.                                                            *)
Update(c, target, version) ==
    /\ WriteFree
    /\ table[c] # NoLink /\ table[c].version < MaxVersion
    /\ table' = [table EXCEPT ![c] = Updated(@, target)]
    /\ presented' = [presented EXCEPT ![c][version] = @ + 1]
    /\ UNCHANGED <<now, stats, thread, cleaner, high, jumped, inherited, hit_at, seen>>

(* remove_sync: the window stays.                                          *)
Remove(c) ==
    /\ WriteFree
    /\ table[c] # NoLink
    /\ table' = [table EXCEPT ![c] = NoLink]
    /\ UNCHANGED <<now, stats, thread, cleaner, high, jumped, inherited, hit_at, presented, seen>>

-----------------------------------------------------------------------------
(* record_hit_sync: under the read lock, the entry's atomic counter ...    *)
CountInEntry(t, c) ==
    /\ thread[t].pc = "idle"
    /\ ReadFree
    /\ table[c] # NoLink
    /\ TotalHits(c) < MaxHits
    /\ table' = [table EXCEPT ![c].hits = @ + 1]
    /\ thread' = [thread EXCEPT ![t] = [pc |-> "find", code |-> c]]
    /\ UNCHANGED <<now, stats, cleaner, high, jumped, inherited, hit_at, presented, seen>>

(* ... StatsStorage::get_or_create under the lock of its map ...           *)
FindWindow(t) ==
    LET c == thread[t].code
    IN /\ thread[t].pc = "find"
       /\ IF stats[c] = {}
          THEN stats' = [stats EXCEPT ![c] = {NewWindow}] /\ hit_at' = [hit_at EXCEPT ![c] = NoHits]
          ELSE UNCHANGED <<stats, hit_at>>
       /\ thread' = [thread EXCEPT ![t].pc = "count"]
       /\ UNCHANGED <<now, table, cleaner, high, jumped, inherited, presented, seen>>

(* ... and the window under its own, with the clock read when it is taken. *)
CountInWindow(t) ==
    LET c == thread[t].code
    IN /\ thread[t].pc = "count"
       /\ stats' = [stats EXCEPT ![c] = {RecordedHit(s, now) : s \in @}]
       /\ hit_at' = [hit_at EXCEPT ![c][now] = @ + 1]
       /\ thread' = [thread EXCEPT ![t] = Idle]
       /\ UNCHANGED <<now, table, cleaner, high, jumped, inherited, presented, seen>>

-----------------------------------------------------------------------------
(* list_sync: the entries are cloned under the read lock.                  *)
List ==
    /\ ReadFree
    /\ seen' = {c \in Codes : table[c] # NoLink}
    /\ UNCHANGED <<now, table, stats, thread, cleaner, high, jumped, inherited, hit_at, presented>>

-----------------------------------------------------------------------------
(* run_cleaner: the clock is read, then purge_expired is called.           *)
CleanerTick ==
    /\ cleaner.pc = "waiting"
    /\ cleaner' = [cleaner EXCEPT !.pc = "wanting", !.cutoff = now]
    /\ UNCHANGED <<now, table, stats, thread, high, jumped, inherited, hit_at, presented, seen>>

(* purge_expired_sync: the expired codes are collected under the write     *)
(* lock ...                                                                *)
PurgeBegin ==
    /\ cleaner.pc = "wanting"
    /\ WriteFree
    /\ cleaner' = [cleaner EXCEPT !.pc = "purging",
                     !.doomed = {c \in Codes : /\ table[c] # NoLink
                                               /\ IsExpired(table[c], cleaner.cutoff)}]
    /\ UNCHANGED <<now, table, stats, thread, high, jumped, inherited, hit_at, presented, seen>>

(* ... and removed one by one, with their windows.                         *)
PurgeOne(c) ==
    /\ cleaner.pc = "purging"
    /\ c \in cleaner.doomed
    /\ cleaner' = [cleaner EXCEPT !.doomed = @ \ {c}]
    /\ table' = [table EXCEPT ![c] = NoLink]
    /\ stats' = [stats EXCEPT ![c] = {}]
    /\ hit_at' = [hit_at EXCEPT ![c] = NoHits]
    /\ UNCHANGED <<now, thread, high, jumped, inherited, presented, seen>>

PurgeEnd ==
    /\ cleaner.pc = "purging"
    /\ cleaner.doomed = {}
    /\ cleaner' = [cleaner EXCEPT !.pc = "waiting", !.cutoff = 0]
    /\ UNCHANGED <<now, table, stats, thread, high, jumped, inherited, hit_at, presented, seen>>

-----------------------------------------------------------------------------
(* The wall clock goes on, and may be set back, once in a behaviour.       *)
Tick ==
    /\ now < MaxTime
    /\ now' = now + 1
    /\ high' = IF now' > high THEN now' ELSE high
    /\ UNCHANGED <<table, stats, thread, cleaner, jumped, inherited, hit_at, presented, seen>>

SetBack ==
    /\ ~jumped /\ jumped' = TRUE
    /\ now' \in Start..now - 1
    /\ UNCHANGED <<table, stats, thread, cleaner, high, inherited, hit_at, presented, seen>>

Next == \/ \E c \in Codes : \/ \E target \in Targets : \/ \E ttl \in Ttls : Insert(c, target, ttl)
                                                       \/ \E v \in Versions : Update(c, target, v)
                            \/ Remove(c) \/ PurgeOne(c)
                            \/ \E t \in Threads : CountInEntry(t, c)
        \/ \E t \in Threads : FindWindow(t) \/ CountInWindow(t)
        \/ List
        \/ CleanerTick \/ PurgeBegin \/ PurgeEnd
        \/ Tick \/ SetBack

Spec == Init /\ [][Next]_vars

-----------------------------------------------------------------------------
(* Every variable keeps its type, no sum of a window falls below zero, and *)
(* a thread on its way to a window finds it in the map.                    *)
TypeOK ==
    /\ now \in Nat /\ high \in Nat /\ now <= high /\ jumped \in BOOLEAN
    /\ table \in [Codes -> Link \cup {NoLink}]
    /\ stats \in [Codes -> SUBSET Window]
    /\ thread \in [Threads -> [pc: {"find", "count"}, code: Codes] \cup {Idle}]
    /\ cleaner.pc \in {"waiting", "wanting", "purging"}
    /\ cleaner.cutoff \in 0..high /\ cleaner.doomed \subseteq Codes
    /\ inherited \in [Codes -> Nat] /\ presented \in [Codes -> [Versions -> Nat]]
    /\ seen \subseteq Codes
    /\ \A t \in Threads : thread[t].pc = "count" => stats[thread[t].code] # {}

(* The cached sum is the sum of the buffer, whatever the clock does: the   *)
(* u64 subtraction in record_hit never wraps.                              *)
SumIsBuffer ==
    \A c \in Codes : \A s \in stats[c] : s.cached_sum = FoldFunction(+, 0, s.buffer)

HitsIn(c, first, last) ==
    FoldFunctionOnSet(+, 0, hit_at[c], (first..last) \cap Seconds)

(* While the clock goes forward, get_last_60s counts every hit of the      *)
(* last 60 seconds, though not only those: none is two windows old.        *)
CountsTheWindow ==
    ~jumped => \A c \in Codes : \A s \in stats[c] :
      /\ LastHits(s, now) >= HitsIn(c, now - WindowSize + 1, now)
      /\ LastHits(s, now) <= HitsIn(c, now - 2 * WindowSize + 2, now)

(* The two counters of a link agree when no hit is being counted, however  *)
(* hits, removals and purges interleave: the window has what the entry     *)
(* has, and what a removed link of the same code has left in it.           *)
HitsMatchWindow ==
    \A c \in Codes :
      /\ table[c] # NoLink
      /\ \A t \in Threads : thread[t].code # c
      => TotalHits(c) = table[c].hits + inherited[c]

(* The handler's doc, 'update a link with optimistic locking': of the      *)
(* updates that present one version of a link, at most one succeeds.       *)
NoLostUpdate == \A c \in Codes, v \in Versions : presented[c][v] <= 1

(* A purge takes place all at once, when it has collected what it removes. *)
Visible == [c \in Codes |-> IF c \in cleaner.doomed THEN NoLink ELSE table[c]]

(* Nobody sees half of a purge, and nobody else touches what it is still   *)
(* to remove: no hit, no update and no new link is lost in it.             *)
PurgeStep ==
    /\ seen' # seen => seen' = {c \in Codes : Visible[c] # NoLink}
    /\ \A c \in cleaner.doomed : table'[c] \in {table[c], NoLink}
PurgeIsAtomic == [][PurgeStep]_vars

Repo == INSTANCE LinkRepository WITH table <- Visible, now <- high

(* Every call changes the map as one operation of the repository does,     *)
(* also when the clock is set back between the cleaner's reading of it and *)
(* the purge.                                                              *)
RepositoryContract == Repo!Spec
=============================================================================
