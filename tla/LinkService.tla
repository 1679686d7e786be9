----------------------------- MODULE LinkService -----------------------------
(***************************************************************************)
(* The request handlers of shorty-server over their shared state: the      *)
(* links table in Postgres, the Redis cache read through by GET            *)
(* /api/v1/links/{code}, and the cleaner of expired links.                 *)
(*                                                                         *)
(* A handler is an async function: it can be overtaken, or dropped, at     *)
(* each .await.  One action is what happens between two of them: the       *)
(* statement or command the handler awaits takes effect and the code up to *)
(* the next .await runs.  req[r].pc names the .await request r is at.      *)
(*                                                                         *)
(* A handler that gives up waiting (TimeoutLayer drops it, its client      *)
(* leaves, the connection breaks, the cache's own timeout fires) does not  *)
(* recall what it has sent: the request is answered and its statement may  *)
(* still take effect.  Such a request keeps its pc until that is decided.  *)
(***************************************************************************)
EXTENDS Integers, FiniteSets

CONSTANTS
    Codes, Targets,      \* short codes and target URLs
    Requests,            \* the requests of a behaviour, HTTP and gRPC
    Calls,               \* what a request may ask for, a set of call records
    NoCode,              \* custom_code is absent: generate one
    NoLink,              \* a free code, in the abstract repository
    InitialTables,       \* the sets of rows the database may hold at start
    FirstId,             \* the first id that no row has at the start
    Faults,              \* what may fail: "redis", "db", "client"
    CacheEnabled,        \* Redis was reachable at start
    CacheTtl, CacheJitter,  \* CacheConfig::ttl_secs, jitter_secs
    RequestTimeout,      \* AppConfig::request_timeout
    CleanupPeriod,       \* AppConfig::cleanup period
    MaxAttempts,         \* AppConfig::max_generate_attempts
    WireDelay,           \* how long an abandoned Redis command can be on its way
    MaxTime              \* bound: the clock stops here

Ops == {"create", "grpc_create", "update", "get", "grpc_get", "redirect", "delete"}

(* A request as its client sent it.  ttl = 0 is None; valid says whether   *)
(* parse_target_url, validate_custom_code and expires_at_from_ttl accept.  *)
Call == [op: Ops, code: Codes \cup {NoCode}, target: Targets,
         version: Nat, ttl: Nat, valid: BOOLEAN]

(* A row of the table links.  id is a random UUID: all that matters is     *)
(* that no two rows ever share one, so ids are numbers in the order of the *)
(* inserts.  expires_at = 0 is NULL; hits counts from the start of the     *)
(* behaviour.                                                              *)
Row == [id: Nat, code: Codes, target: Targets, version: Nat, hits: Nat, expires_at: Nat]

ASSUME CallsAssumption ==
    /\ Calls \subseteq Call
    /\ \A c \in Calls : c.code = NoCode => c.op \in {"create", "grpc_create"}
ASSUME NoCodeAssumption == NoCode \notin Codes
ASSUME NoLinkAssumption ==
    NoLink \notin [target: Targets, version: Nat, hits: Nat, expires_at: Nat]
ASSUME TimesAssumption ==
    /\ CacheTtl \in Nat /\ CacheJitter \in Nat /\ RequestTimeout \in Nat \ {0}
    /\ CleanupPeriod \in Nat \ {0} /\ WireDelay \in Nat /\ MaxTime \in Nat
ASSUME ConfigAssumption == CacheEnabled \in BOOLEAN /\ MaxAttempts \in Nat
ASSUME FaultsAssumption == Faults \subseteq {"redis", "db", "client"}
(* UNIQUE (code) and PRIMARY KEY (id) hold in every table of Postgres.      *)
ASSUME InitialTablesAssumption ==
    /\ FirstId \in Nat
    /\ \A rows \in InitialTables :
         /\ rows \subseteq Row
         /\ \A row \in rows : row.id < FirstId /\ row.hits = 0
         /\ \A row1, row2 \in rows :
              row1.code = row2.code \/ row1.id = row2.id => row1 = row2

VARIABLES
    now,       \* SystemTime::now(), in seconds
    links,     \* the table links: a set of rows
    next_id,   \* the next id that gen_random_uuid() will give
    redis,     \* cache entries: [code, link, expiry]
    req,       \* Requests -> the state of the handler
    cleaner,   \* [pc, cutoff, next]: the cleaner task and its interval
    commits,   \* history: how many statements have ended a version of a link
    retired    \* history: the versions of links that are no longer current

vars == <<now, links, next_id, redis, req, cleaner, commits, retired>>

-----------------------------------------------------------------------------
(* Requests.                                                               *)

Grpc == {"grpc_create", "grpc_get"}
IsHttp(r) == req[r].call.op \notin Grpc
Answered(r) == req[r].reply # "none"
Waiting(r) == req[r].pc # "idle" /\ ~Answered(r)
At(r, pc) == req[r].pc = pc

(* Mutant: redirect asks the cache.                                        *)
FirstAwaitRedirectCached ==
    [create |-> "insert", grpc_create |-> "insert", update |-> "update", get |-> "cache_get",
     grpc_get |-> "stats", redirect |-> "cache_get", delete |-> "remove"]

(* The first .await of a handler whose input is accepted.                  *)
FirstAwait == [create |-> "insert", grpc_create |-> "insert", update |-> "update",
               get |-> "cache_get", grpc_get |-> "stats", redirect |-> "get",
               delete |-> "remove"]

(* The status of the answer when the handler reaches its end.              *)
Success == [create |-> "created", grpc_create |-> "created", update |-> "ok", get |-> "ok",
            grpc_get |-> "ok", redirect |-> "redirect", delete |-> "no_content"]

(* The handler returns; of one already answered only the statement ends.   *)
Return(q, status) == IF q.reply = "none"
                     THEN [q EXCEPT !.pc = "done", !.reply = status, !.ended = now]
                     ELSE [q EXCEPT !.pc = "done"]

(* The handler goes on to its next .await, unless it was dropped.          *)
Await(q, pc) == [q EXCEPT !.pc = IF q.reply = "none" THEN pc ELSE "done"]

(* create_link tries a generated code at most max_generate_attempts times. *)
TryInsert(q) == IF q.call.op = "create" /\ q.call.code = NoCode /\ q.attempts = MaxAttempts
                THEN Return(q, "failed")
                ELSE Await(q, "insert")

(* The handler is no longer waited for.  What it has sent to be written    *)
(* may be on its way.                                                      *)
Writes == {"insert", "update", "record_hit", "remove", "cache_set", "invalidate"}

Abandon(q, status) == [q EXCEPT !.pc = IF @ \in Writes THEN @ ELSE "done",
                                !.reply = status, !.ended = now,
                                !.until = IF q.pc = "cache_set" THEN now + WireDelay ELSE 0]

Set(r, q) == req' = [req EXCEPT ![r] = q]

-----------------------------------------------------------------------------
(* Statements.                                                             *)

Select(code) == {row \in links : row.code = code}

(* A committed statement that ends the current versions of these rows.     *)
Retire(rows) ==
    /\ commits' = commits + 1
    /\ retired' = retired \cup {[id |-> row.id, version |-> row.version,
                                 at |-> now, seq |-> commits + 1] : row \in rows}

KeepTable == UNCHANGED <<links, next_id, commits, retired>>
KeepOthers == UNCHANGED <<now, cleaner>>

Max2(m, n) == IF m >= n THEN m ELSE n

(* Mutant: the instant of expiry counts as alive.                          *)
IsExpiredLate(row, at) == row.expires_at # 0 /\ row.expires_at < at

(* ShortLink::is_expired, and the WHERE clause of purge_expired.           *)
IsExpired(row, at) == row.expires_at # 0 /\ row.expires_at <= at

-----------------------------------------------------------------------------
Fresh(c) == [pc |-> "idle", call |-> c, code |-> c.code, expires |-> 0, attempts |-> 0,
             seen |-> {}, wrote |-> {}, reply |-> "none",
             began |-> 0, since |-> 0, ids |-> 0, ended |-> 0, until |-> 0]

Init == /\ now = 0
        /\ links \in InitialTables
        /\ next_id = FirstId
        /\ redis = {}
        /\ \E calls \in [Requests -> Calls] : req = [r \in Requests |-> Fresh(calls[r])]
        /\ cleaner = [pc |-> "waiting", cutoff |-> 0, next |-> 0]
        /\ commits = 0
        /\ retired = {}

-----------------------------------------------------------------------------
(* The handlers up to their first .await: the input is validated, and the  *)
(* instant of expiry is fixed by the server's clock.  gRPC's create_link   *)
(* parses ttl_seconds and then drops it.                                   *)
Begin(r) ==
    /\ At(r, "idle")
    /\ now + RequestTimeout <= MaxTime
    /\ LET c == req[r].call
           q == [req[r] EXCEPT
                   !.began = now, !.since = commits, !.ids = next_id,
                   !.expires = IF c.op = "create" /\ c.ttl # 0 THEN now + c.ttl ELSE 0]
       IN Set(r, IF ~c.valid THEN Return(q, "invalid")
                 ELSE IF FirstAwait[c.op] = "insert" THEN TryInsert(q)
                 ELSE Await(q, FirstAwait[c.op]))
    /\ UNCHANGED redis /\ KeepTable /\ KeepOthers

(* Mutant: ON CONFLICT (code) DO UPDATE.                                   *)
Upsert(r, code) ==
    /\ At(r, "insert")
    /\ code \in (IF req[r].call.code = NoCode THEN Codes ELSE {req[r].call.code})
    /\ LET row == [id |-> next_id, code |-> code, target |-> req[r].call.target,
                   version |-> 1, hits |-> 0, expires_at |-> req[r].expires]
       IN /\ links' = (links \ Select(code)) \cup {row}
          /\ Set(r, Await([req[r] EXCEPT !.code = code, !.wrote = {row}], "stats"))
    /\ next_id' = next_id + 1
    /\ UNCHANGED <<redis, commits, retired>> /\ KeepOthers

(* create_link: INSERT of the custom code, or of a code drawn for this     *)
(* attempt.                                                                *)
Drawn(r) == IF req[r].call.code = NoCode THEN Codes ELSE {req[r].call.code}

Insert(r, code) ==
    /\ At(r, "insert")
    /\ code \in Drawn(r)
    /\ Select(code) = {}
    /\ LET row == [id |-> next_id, code |-> code, target |-> req[r].call.target,
                   version |-> 1, hits |-> 0, expires_at |-> req[r].expires]
       IN /\ links' = links \cup {row}
          /\ Set(r, Await([req[r] EXCEPT !.code = code, !.wrote = {row}], "stats"))
    /\ next_id' = next_id + 1
    /\ UNCHANGED <<redis, commits, retired>> /\ KeepOthers

(* 23505, the code is taken: an error to whoever chose it, another attempt *)
(* for HTTP's generated codes, and an error for gRPC's.                    *)
InsertTaken(r, code) ==
    /\ At(r, "insert")
    /\ code \in Drawn(r)
    /\ Select(code) # {}
    /\ Set(r, IF req[r].call.op = "create" /\ req[r].call.code = NoCode
              THEN TryInsert([req[r] EXCEPT !.attempts = @ + 1])
              ELSE Return(req[r], "taken"))
    /\ UNCHANGED redis /\ KeepTable /\ KeepOthers

(* repo.stats: the end of both creates and of gRPC's get_link, the middle  *)
(* of HTTP's.                                                              *)
ReadStats(r) ==
    /\ At(r, "stats")
    /\ LET row == Select(req[r].code)
           q == [req[r] EXCEPT !.seen = row]
       IN Set(r, IF row = {} THEN Return(q, "not_found")
                 ELSE IF q.call.op = "get" THEN Await(q, "cache_set")
                 ELSE Return(q, Success[q.call.op]))
    /\ UNCHANGED redis /\ KeepTable /\ KeepOthers

(* Mutants: WHERE code = $2 alone; SET without version = version + 1; SET  *)
(* hits = 0.                                                               *)
MatchingAny(r) == Select(req[r].code)
UpdatedInPlace(row, target) == [row EXCEPT !.target = target]
UpdatedAfresh(row, target) == [row EXCEPT !.target = target, !.version = @ + 1, !.hits = 0]

(* update_link: UPDATE ... WHERE code = $2 AND version = $3 RETURNING ...  *)
Matching(r) == {row \in Select(req[r].code) : row.version = req[r].call.version}

Updated(row, target) == [row EXCEPT !.target = target, !.version = @ + 1]

Update(r) ==
    /\ At(r, "update")
    /\ LET old == Matching(r)
           new == {Updated(row, req[r].call.target) : row \in old}
       IN /\ links' = (links \ old) \cup new
          /\ IF old = {} THEN /\ Set(r, Await(req[r], "exists"))
                             /\ UNCHANGED <<commits, retired>>
             ELSE /\ Retire(old)
                  /\ Set(r, Await([req[r] EXCEPT !.seen = new, !.wrote = new], "invalidate"))
    /\ UNCHANGED <<next_id, redis>> /\ KeepOthers

(* ... which when it matched nothing asks why, with a second statement.    *)
UpdateExists(r) ==
    /\ At(r, "exists")
    /\ Set(r, Return(req[r], IF Select(req[r].code) = {} THEN "not_found" ELSE "conflict"))
    /\ UNCHANGED redis /\ KeepTable /\ KeepOthers

(* redirect: the row is read ...                                           *)
ReadLink(r) ==
    /\ At(r, "get")
    /\ LET row == Select(req[r].code)
       IN Set(r, IF row = {} THEN Return(req[r], "not_found")
                 ELSE Await([req[r] EXCEPT !.seen = row], "check"))
    /\ UNCHANGED redis /\ KeepTable /\ KeepOthers

(* ... its expiry compared with the clock when the answer is here ...      *)
CheckExpiry(r) ==
    /\ At(r, "check")
    /\ Set(r, IF \E row \in req[r].seen : IsExpired(row, now) THEN Return(req[r], "not_found")
              ELSE Await(req[r], "record_hit"))
    /\ UNCHANGED redis /\ KeepTable /\ KeepOthers

(* Mutant: only in the version that was read.                              *)
VisitedSeen(r) == {row \in Select(req[r].code) :
                     \E seen \in req[r].seen : seen.id = row.id /\ seen.version = row.version}

(* ... and the hit counted, in whichever row has the code by then.         *)
Visited(r) == Select(req[r].code)

RecordHit(r) ==
    /\ At(r, "record_hit")
    /\ LET old == Visited(r)
           new == {[row EXCEPT !.hits = @ + 1] : row \in old}
       IN /\ links' = (links \ old) \cup new
          /\ Set(r, IF old = {} THEN Return(req[r], "not_found")
                    ELSE Await([req[r] EXCEPT !.wrote = new], "invalidate"))
    /\ UNCHANGED <<next_id, redis, commits, retired>> /\ KeepOthers

(* Mutant: the link is marked as expired and left to the cleaner.          *)
RemoveSoft(r) ==
    /\ At(r, "remove")
    /\ LET old == Select(req[r].code)
       IN /\ links' = (links \ old) \cup {[row EXCEPT !.expires_at = Max2(now, 1)] : row \in old}
          /\ IF old = {} THEN /\ Set(r, Return(req[r], "not_found"))
                             /\ UNCHANGED <<commits, retired>>
             ELSE /\ Retire(old)
                  /\ Set(r, Await([req[r] EXCEPT !.wrote = old], "invalidate"))
    /\ UNCHANGED <<next_id, redis>> /\ KeepOthers

(* delete_link: DELETE FROM links WHERE code = $1.                         *)
Remove(r) ==
    /\ At(r, "remove")
    /\ LET old == Select(req[r].code)
       IN /\ links' = links \ old
          /\ IF old = {} THEN /\ Set(r, Return(req[r], "not_found"))
                             /\ UNCHANGED <<commits, retired>>
             ELSE /\ Retire(old)
                  /\ Set(r, Await([req[r] EXCEPT !.wrote = old], "invalidate"))
    /\ UNCHANGED <<next_id, redis>> /\ KeepOthers

-----------------------------------------------------------------------------
(* The cache.  Every failure of a GET, a timeout included, is a miss.      *)
CacheHit(r) ==
    /\ At(r, "cache_get")
    /\ CacheEnabled
    /\ \E entry \in redis :
         /\ entry.code = req[r].code
         /\ Set(r, Return([req[r] EXCEPT !.seen = {entry.link}], "ok"))
    /\ UNCHANGED redis /\ KeepTable /\ KeepOthers

CacheMiss(r) ==
    /\ At(r, "cache_get")
    /\ \/ ~CacheEnabled
       \/ "redis" \in Faults
       \/ \A entry \in redis : entry.code # req[r].code
    /\ Set(r, Await(req[r], "stats"))
    /\ UNCHANGED redis /\ KeepTable /\ KeepOthers

(* A write to a cache that is off, or that fails.                          *)
NoEffect == (~CacheEnabled \/ "redis" \in Faults) /\ UNCHANGED redis

(* Mutant: the jitter is added to the upper end too.                       *)
JitteredTtlTwice == {Max2(CacheTtl + CacheJitter + offset, 1) : offset \in -CacheJitter..CacheJitter}

(* jittered_ttl                                                            *)
JitteredTtl == {Max2(CacheTtl + offset, 1) : offset \in -CacheJitter..CacheJitter}

(* The keys other than link_key(code).                                     *)
OtherEntries(code) == {entry \in redis : entry.code # code}

(* SETEX replaces the entry, whatever has happened to the row since it was *)
(* read; an error leaves it alone, and the handler does not tell.          *)
CacheSet(r) ==
    /\ At(r, "cache_set")
    /\ \/ NoEffect
       \/ /\ CacheEnabled
          /\ \E ttl \in JitteredTtl, row \in req[r].seen :
               redis' = OtherEntries(req[r].code) \cup
                        {[code |-> req[r].code, link |-> row, expiry |-> now + ttl]}
    /\ Set(r, Return(req[r], "ok"))
    /\ KeepTable /\ KeepOthers

(* DEL, after an update, a hit or a removal; an error leaves the entry.    *)
Invalidate(r) ==
    /\ At(r, "invalidate")
    /\ \/ NoEffect
       \/ CacheEnabled /\ redis' = OtherEntries(req[r].code)
    /\ Set(r, Return(req[r], Success[req[r].call.op]))
    /\ KeepTable /\ KeepOthers

(* op_timeout: the handler answers, and its command may still be applied.  *)
CommandTimedOut(r) ==
    /\ Waiting(r) /\ CacheEnabled /\ "redis" \in Faults
    /\ req[r].pc \in {"cache_set", "invalidate"}
    /\ Set(r, Abandon(req[r], Success[req[r].call.op]))
    /\ UNCHANGED redis /\ KeepTable /\ KeepOthers

-----------------------------------------------------------------------------
(* Failures.                                                               *)

(* Mutant: only after the deadline.                                        *)
TimedOutLate(r) ==
    /\ Waiting(r) /\ IsHttp(r)
    /\ now > req[r].began + RequestTimeout
    /\ Set(r, Abandon(req[r], "failed"))
    /\ UNCHANGED redis /\ KeepTable /\ KeepOthers

(* TimeoutLayer drops an HTTP handler that is still at work at its         *)
(* deadline and answers 503.  gRPC has no such layer.                      *)
TimedOut(r) ==
    /\ Waiting(r) /\ IsHttp(r)
    /\ now >= req[r].began + RequestTimeout
    /\ Set(r, Abandon(req[r], "failed"))
    /\ UNCHANGED redis /\ KeepTable /\ KeepOthers

(* The client has left; its handler is dropped.                            *)
Disconnected(r) ==
    /\ Waiting(r) /\ "client" \in Faults
    /\ Set(r, Abandon(req[r], "failed"))
    /\ UNCHANGED redis /\ KeepTable /\ KeepOthers

(* map_sql_error: Unavailable when the pool had no connection to give,     *)
(* Internal when the connection broke under the statement, which may have  *)
(* been executed.                                                          *)
DbError(r) ==
    /\ Waiting(r) /\ "db" \in Faults
    /\ req[r].pc \in {"insert", "stats", "update", "exists", "get", "record_hit", "remove"}
    /\ Set(r, Abandon(req[r], "failed"))
    /\ UNCHANGED redis /\ KeepTable /\ KeepOthers

(* What a request left on its way never arrives.                           *)
Lost(r) ==
    /\ Answered(r) /\ req[r].pc \in Writes
    /\ Set(r, [req[r] EXCEPT !.pc = "done"])
    /\ UNCHANGED redis /\ KeepTable /\ KeepOthers

-----------------------------------------------------------------------------
(* The cleaner: at each tick of its interval one purge, with the clock     *)
(* read before the statement is sent.                                      *)
CleanerTick ==
    /\ cleaner.pc = "waiting"
    /\ now >= cleaner.next
    /\ cleaner' = [pc |-> "purging", cutoff |-> now, next |-> now + CleanupPeriod]
    /\ UNCHANGED <<now, redis, req>> /\ KeepTable

CleanerPurge ==
    /\ cleaner.pc = "purging"
    /\ cleaner' = [cleaner EXCEPT !.pc = "waiting", !.cutoff = 0]
    /\ LET old == {row \in links : IsExpired(row, cleaner.cutoff)}
       IN /\ links' = links \ old
          /\ IF old = {} THEN UNCHANGED <<commits, retired>> ELSE Retire(old)
    /\ UNCHANGED <<now, next_id, redis, req>>

CleanerError ==
    /\ cleaner.pc = "purging" /\ "db" \in Faults
    /\ cleaner' = [cleaner EXCEPT !.pc = "waiting", !.cutoff = 0]
    /\ UNCHANGED <<now, redis, req>> /\ KeepTable

(* A second passes: no HTTP request outlives its deadline, no abandoned    *)
(* Redis command its time on the wire, and Redis drops what has expired.   *)
Tick ==
    /\ now < MaxTime
    /\ \A r \in Requests :
         /\ Waiting(r) /\ IsHttp(r) => now < req[r].began + RequestTimeout
         /\ Answered(r) /\ At(r, "cache_set") => now < req[r].until
    /\ now' = now + 1
    /\ redis' = {entry \in redis : entry.expiry > now + 1}
    /\ UNCHANGED <<req, cleaner>> /\ KeepTable

-----------------------------------------------------------------------------
Statement(r) == \/ ReadStats(r) \/ Update(r) \/ UpdateExists(r) \/ ReadLink(r)
                \/ CheckExpiry(r) \/ RecordHit(r) \/ Remove(r)
                \/ \E code \in Codes : Insert(r, code) \/ InsertTaken(r, code)

Command(r) == CacheHit(r) \/ CacheMiss(r) \/ CacheSet(r) \/ Invalidate(r) \/ CommandTimedOut(r)

Failure(r) == TimedOut(r) \/ Disconnected(r) \/ DbError(r) \/ Lost(r)

Next == \/ \E r \in Requests : Begin(r) \/ Statement(r) \/ Command(r) \/ Failure(r)
        \/ CleanerTick \/ CleanerPurge \/ CleanerError
        \/ Tick

Spec == Init /\ [][Next]_vars

(* The clock, the timers of TimeoutLayer and the end of what is on the     *)
(* wire: all that liveness may rely on.  Neither Postgres nor Redis, nor   *)
(* the client, ever has to answer.                                         *)
Fairness == /\ WF_vars(Tick)
            /\ \A r \in Requests : WF_vars(TimedOut(r)) /\ WF_vars(Lost(r))

FairSpec == Spec /\ Fairness

-----------------------------------------------------------------------------
(* Types.                                                                  *)

Pcs == {"idle", "insert", "stats", "update", "exists", "get", "check", "record_hit",
        "remove", "cache_get", "cache_set", "invalidate", "done"}

(* failed: 500, 503, or no answer at all.                                  *)
Statuses == {"none", "created", "ok", "redirect", "no_content", "not_found", "conflict",
             "taken", "invalid", "failed"}

Request == [pc: Pcs, call: Call, code: Codes \cup {NoCode}, expires: Nat, attempts: Nat,
            seen: SUBSET Row, wrote: SUBSET Row, reply: Statuses,
            began: Nat, since: Nat, ids: Nat, ended: Nat, until: Nat]

(* The .awaits of each handler.                                            *)
Awaits == [create |-> {"insert", "stats"}, grpc_create |-> {"insert", "stats"},
           update |-> {"update", "exists", "invalidate"},
           get |-> {"cache_get", "stats", "cache_set"}, grpc_get |-> {"stats"},
           redirect |-> {"get", "check", "record_hit", "invalidate"},
           delete |-> {"remove", "invalidate"}]

WellFormed(q) == /\ q.pc \in Awaits[q.call.op] \cup {"idle", "done"}
                 /\ q.code = NoCode => q.call.op \in {"create", "grpc_create"}

(* Every variable keeps its type, and every handler to its own .awaits.    *)
TypeOK ==
    /\ now \in Nat
    /\ links \subseteq Row
    /\ next_id \in Nat
    /\ redis \subseteq [code: Codes, link: Row, expiry: Nat]
    /\ req \in [Requests -> Request]
    /\ \A r \in Requests : WellFormed(req[r])
    /\ cleaner \in [pc: {"waiting", "purging"}, cutoff: Nat, next: Nat]
    /\ commits \in Nat
    /\ retired \subseteq [id: Nat, version: Nat, at: Nat, seq: Nat]

-----------------------------------------------------------------------------
(* Safety.                                                                 *)

(* An old version of a row, in the history.                                *)
IsVersion(old, row) == old.id = row.id /\ old.version = row.version

(* The longest a read-through fill can outlive what it read: the handler   *)
(* reads, is dropped at its deadline, its SETEX arrives last, and the      *)
(* entry lives for the longest TTL.                                        *)
StalenessBound == RequestTimeout + WireDelay + Max2(CacheTtl + CacheJitter, 1)

(* GET /api/v1/links/{code} races its SETEX with the DEL of writers and    *)
(* may answer with a version that is gone, but never with one that was     *)
(* replaced or removed longer ago than StalenessBound.                     *)
BoundedStaleness ==
    \A r \in Requests : req[r].call.op = "get" /\ req[r].reply = "ok" =>
      \A row \in req[r].seen, old \in retired :
        IsVersion(old, row) => req[r].ended < old.at + StalenessBound

(* What is answered from the database was current at some moment of the    *)
(* request: redirect, the gRPC reads, the 201 of a create, and GET when    *)
(* there is no cache.                                                      *)
ReadsAreCurrent ==
    \A r \in Requests :
      /\ req[r].call.op = "get" => ~CacheEnabled
      /\ req[r].reply \in {"ok", "created", "redirect"}
      => \A row \in req[r].seen, old \in retired :
           IsVersion(old, row) => old.seq > req[r].since

(* Once an update or a removal has been acknowledged, a GET that begins    *)
(* later does not show what it replaced.                                   *)
AcknowledgedWritesAreSeen ==
    \A r, w \in Requests :
      /\ req[r].call.op = "get" /\ req[r].reply = "ok"
      /\ req[w].call.op \in {"update", "delete"} /\ req[w].reply \in {"ok", "no_content"}
      /\ req[w].ended < req[r].began
      => \A row \in req[r].seen, new \in req[w].wrote :
           row.id = new.id => req[w].call.op = "update" /\ row.version >= new.version

(* redirect never sends a client to a link that had expired by the time    *)
(* the request came in, and answers 307 only after counting the hit.       *)
RedirectsLiveLinks ==
    \A r \in Requests : req[r].reply = "redirect" =>
      /\ req[r].wrote # {}
      /\ \A row \in req[r].seen : row.expires_at = 0 \/ row.expires_at > req[r].began

(* Optimistic locking: of the updates that present one version of a link,  *)
(* at most one takes effect, the ones answered with an error included.     *)
NoLostUpdate ==
    \A r1, r2 \in Requests :
      /\ r1 # r2
      /\ req[r1].call.op = "update" /\ req[r2].call.op = "update"
      /\ req[r1].call.version = req[r2].call.version
      => \A row1 \in req[r1].wrote, row2 \in req[r2].wrote : row1.id # row2.id

(* A link's counter is the number of redirects that were counted on it:    *)
(* none is lost to a concurrent redirect or update.                        *)
HitsExact ==
    \A row \in links :
      row.hits = Cardinality({r \in Requests : /\ req[r].call.op = "redirect"
                                               /\ \E hit \in req[r].wrote : hit.id = row.id})

(* An acknowledged link stays, under its code and with its expiry, until   *)
(* some request removes it or it expires: no insert, update or purge of    *)
(* anybody else takes it away.                                             *)
CreatedLinksStay ==
    \A r \in Requests : req[r].reply = "created" =>
      \A row \in req[r].wrote :
        \/ \E live \in links : /\ live.id = row.id /\ live.code = row.code
                               /\ live.expires_at = row.expires_at
        \/ \E d \in Requests : /\ req[d].call.op = "delete"
                               /\ \E gone \in req[d].wrote : gone.id = row.id
        \/ row.expires_at # 0 /\ row.expires_at <= now

(* Nobody is told 404 about a link that was there, and alive, from before  *)
(* the request until its answer, whatever is written to it meanwhile.      *)
NotFoundStep ==
    \A r \in Requests : req[r].reply = "none" /\ req'[r].reply = "not_found" =>
      \A row \in links : /\ row.code = req[r].code
                         /\ row.id < req[r].ids
                         => row.expires_at # 0 /\ row.expires_at <= now
NotFoundIsTrue == [][NotFoundStep]_vars

-----------------------------------------------------------------------------
(* Refinement.                                                             *)

(* The table as the trait's callers know it: without ids, by code.         *)
LinkAt(code) == IF Select(code) = {} THEN NoLink
                ELSE LET row == CHOOSE row \in links : row.code = code
                     IN [target |-> row.target, version |-> row.version,
                         hits |-> row.hits, expires_at |-> row.expires_at]

Repo == INSTANCE LinkRepository WITH table <- [code \in Codes |-> LinkAt(code)]

(* Every handler and the cleaner, through every failure, changes the table *)
(* only as one operation of the repository at a time.                      *)
RepositoryContract == Repo!Spec

-----------------------------------------------------------------------------
(* Liveness.                                                               *)

(* TimeoutLayer: every HTTP request is answered, even when Postgres and    *)
(* Redis never do.                                                         *)
EveryHttpRequestAnswered == \A r \in Requests : Waiting(r) /\ IsHttp(r) ~> Answered(r)
=============================================================================
