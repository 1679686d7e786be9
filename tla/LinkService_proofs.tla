------------------------- MODULE LinkService_proofs -------------------------
(***************************************************************************)
(* Proofs about LinkService, for every set of requests, calls and codes    *)
(* and for every configuration.                                            *)
(***************************************************************************)
EXTENDS LinkService, TLAPS

-----------------------------------------------------------------------------
(* Types.                                                                  *)

(* The awaits that each .await belongs to.                                 *)
LEMMA Names ==
    /\ {"insert", "stats", "update", "exists", "get", "check", "record_hit", "remove",
        "cache_get", "cache_set", "invalidate", "done"} \subseteq Pcs
    /\ {"created", "ok", "redirect", "no_content", "not_found", "conflict", "taken",
        "invalid", "failed"} \subseteq Statuses
    /\ \A op \in Ops : /\ FirstAwait[op] \in Pcs /\ Success[op] \in Statuses
                        /\ FirstAwait[op] \in Awaits[op]
                        /\ Awaits[op] \subseteq Pcs
BY DEF Pcs, Statuses, Ops, FirstAwait, Success, Awaits

(* q is a state that request r may be given.                               *)
Base(r, q) == q \in Request /\ q.call = req[r].call /\ q.code \in Codes \cup {req[r].code}
Fits(r, q) == Base(r, q) /\ q.pc \in Awaits[req[r].call.op] \cup {"done"}

(* What the first part of every step of a request has in common.           *)
LEMMA RequestTypes ==
    ASSUME TypeOK, NEW r \in Requests
    PROVE  /\ now \in Nat /\ req[r] \in Request /\ Base(r, req[r])
           /\ req[r].call \in Call /\ req[r].call.op \in Ops
           /\ req[r].call.target \in Targets /\ req[r].call.ttl \in Nat
           /\ req[r].call.version \in Nat
           /\ req[r].code \in Codes \cup {NoCode}
           /\ req[r].seen \subseteq Row /\ req[r].wrote \subseteq Row
           /\ req[r].expires \in Nat /\ req[r].attempts \in Nat
           /\ req[r].pc \in Awaits[req[r].call.op] \cup {"idle", "done"}
           /\ req[r].code = NoCode => req[r].call.op \in {"create", "grpc_create"}
<1>1. now \in Nat /\ req[r] \in Request /\ WellFormed(req[r])
  BY DEF TypeOK
<1> QED BY <1>1 DEF Request, Call, WellFormed, Base

(* Which handlers are at which .await.                                     *)
LEMMA OpAt ==
    ASSUME TypeOK, NEW r \in Requests
    PROVE  LET pc == req[r].pc  op == req[r].call.op
           IN /\ pc = "insert" => op \in {"create", "grpc_create"}
              /\ pc = "stats" => op \in {"create", "grpc_create", "get", "grpc_get"}
              /\ pc \in {"update", "exists"} => op = "update"
              /\ pc \in {"cache_get", "cache_set"} => op = "get"
              /\ pc \in {"get", "check", "record_hit"} => op = "redirect"
              /\ pc = "remove" => op = "delete"
              /\ pc = "invalidate" => op \in {"update", "redirect", "delete"}
BY RequestTypes DEF Awaits, Ops

(* What becomes of a handler that returns, goes on, or is abandoned.       *)
LEMMA FitsReturn ==
    ASSUME TypeOK, NEW r \in Requests, NEW q, Base(r, q), NEW status \in Statuses
    PROVE  Fits(r, Return(q, status))
<1>1. now \in Nat /\ q \in Request
  BY DEF TypeOK, Base
<1>2. /\ Return(q, status) \in Request
      /\ Return(q, status).call = q.call
      /\ Return(q, status).code = q.code
  BY <1>1 DEF Return, Request, Pcs
<1>3. Return(q, status).pc = "done"
  BY <1>1 DEF Return, Request
<1> QED BY <1>2, <1>3 DEF Base, Fits

(* A handler that goes on to one of its own .awaits keeps its types.       *)
LEMMA FitsAwait ==
    ASSUME TypeOK, NEW r \in Requests, NEW q, Base(r, q), NEW pc \in Awaits[req[r].call.op]
    PROVE  Fits(r, Await(q, pc))
<1>1. q \in Request /\ pc \in Pcs
  BY RequestTypes, Names DEF Base
<1>2. /\ Await(q, pc) \in Request
      /\ Await(q, pc).call = q.call
      /\ Await(q, pc).code = q.code
  BY <1>1 DEF Await, Request, Pcs
<1>3. Await(q, pc).pc \in {pc, "done"}
  BY <1>1 DEF Await, Request
<1> QED BY <1>2, <1>3 DEF Base, Fits

(* So does one dropped while its statement may be on its way.              *)
LEMMA FitsAbandon ==
    ASSUME TypeOK, NEW r \in Requests, NEW status \in Statuses
    PROVE  Fits(r, Abandon(req[r], status))
<1> DEFINE pc == IF req[r].pc \in Writes THEN req[r].pc ELSE "done"
           until == IF req[r].pc = "cache_set" THEN now + WireDelay ELSE 0
           q == [req[r] EXCEPT !.pc = pc, !.reply = status, !.ended = now, !.until = until]
<1>1. pc \in Awaits[req[r].call.op] \cup {"done"} /\ pc \in Pcs
  BY RequestTypes, Names DEF Writes
<1>2. until \in Nat /\ now \in Nat
  BY TimesAssumption, RequestTypes
<1>3. Abandon(req[r], status) = q
  BY DEF Abandon
<1> HIDE DEF pc, until
<1>4. q \in Request /\ q.call = req[r].call /\ q.code = req[r].code /\ q.pc = pc
  BY <1>1, <1>2, RequestTypes DEF Request, Base
<1> HIDE DEF q
<1> QED BY <1>1, <1>3, <1>4 DEF Base, Fits

(* So does a create that tries a code, or has tried too often.             *)
LEMMA FitsTryInsert ==
    ASSUME TypeOK, NEW r \in Requests, NEW q, Base(r, q),
           req[r].call.op \in {"create", "grpc_create"}
    PROVE  Fits(r, TryInsert(q))
<1>1. "failed" \in Statuses /\ "insert" \in Awaits[req[r].call.op]
  BY Names DEF Awaits
<1> QED BY <1>1, FitsReturn, FitsAwait DEF TryInsert

(* A step of request r keeps the types if its new state fits.              *)
LEMMA SetType ==
    ASSUME TypeOK, NEW r \in Requests, NEW q, Fits(r, q), Set(r, q)
    PROVE  /\ req' \in [Requests -> Request]
           /\ \A s \in Requests : WellFormed(req'[s])
<1>1. WellFormed(q)
  BY RequestTypes, NoCodeAssumption DEF Fits, Base, WellFormed
<1> QED BY <1>1 DEF TypeOK, Set, Fits, Base

(* Rows read are rows, and rows rewritten as update and record_hit do are. *)
LEMMA RowTypes ==
    ASSUME TypeOK
    PROVE  /\ \A code : Select(code) \subseteq Row /\ Select(code) \subseteq links
           /\ \A row \in Row : row.id \in Nat /\ row.version \in Nat /\ row.hits \in Nat
                               /\ row.expires_at \in Nat /\ row.code \in Codes
           /\ \A row \in Row : [row EXCEPT !.hits = @ + 1] \in Row
           /\ \A row \in Row, t \in Targets :
                [row EXCEPT !.target = t, !.version = @ + 1] \in Row
<1>1. \A code : Select(code) \subseteq Row /\ Select(code) \subseteq links
  BY DEF TypeOK, Select
<1>2. \A row \in Row : [row EXCEPT !.hits = @ + 1] \in Row
  BY DEF Row
<1>3. \A row \in Row, t \in Targets : [row EXCEPT !.target = t, !.version = @ + 1] \in Row
  <2> TAKE row \in Row, t \in Targets
  <2>1. row.version + 1 \in Nat
    BY DEF Row
  <2> QED BY <2>1 DEF Row
<1>4. \A row \in Row : row.id \in Nat /\ row.version \in Nat /\ row.hits \in Nat
                        /\ row.expires_at \in Nat /\ row.code \in Codes
  BY DEF Row
<1> QED BY <1>1, <1>2, <1>3, <1>4

(* The history keeps its type when versions of rows end.                   *)
LEMMA RetireType ==
    ASSUME TypeOK, NEW rows \in SUBSET Row, Retire(rows)
    PROVE  commits' \in Nat /\ retired' \subseteq [id: Nat, version: Nat, at: Nat, seq: Nat]
BY DEF TypeOK, Retire, Row

(* The types hold at the start.                                            *)
LEMMA InitType == Init => TypeOK
<1> SUFFICES ASSUME Init PROVE TypeOK
  OBVIOUS
<1>1. PICK calls \in [Requests -> Calls] : req = [r \in Requests |-> Fresh(calls[r])]
  BY DEF Init
<1>2. \A c \in Calls : Fresh(c) \in Request /\ Fresh(c).call = c /\ Fresh(c).code = c.code
  BY CallsAssumption DEF Fresh, Request, Call, Pcs, Statuses
<1>3. req \in [Requests -> Request]
  BY <1>1, <1>2
<1>4. \A r \in Requests : WellFormed(req[r])
  <2>1. \A c \in Calls : Fresh(c).pc = "idle"
    BY DEF Fresh
  <2> QED BY <1>1, <1>2, <2>1, CallsAssumption DEF WellFormed
<1>5. links \subseteq Row /\ next_id \in Nat
  BY InitialTablesAssumption DEF Init
<1> QED BY <1>3, <1>4, <1>5 DEF Init, TypeOK

(* A handler may have seen, and written, any rows, and drawn any code.     *)
LEMMA SeenType ==
    ASSUME TypeOK, NEW r \in Requests, NEW rows \in SUBSET Row
    PROVE  /\ Base(r, [req[r] EXCEPT !.seen = rows])
           /\ Base(r, [req[r] EXCEPT !.wrote = rows])
           /\ Base(r, [req[r] EXCEPT !.seen = rows, !.wrote = rows])
           /\ \A code \in Codes : Base(r, [req[r] EXCEPT !.code = code, !.wrote = rows])
<1>1. req[r] \in Request /\ req[r].code \in Codes \cup {req[r].code}
  BY RequestTypes
<1>2. Base(r, [req[r] EXCEPT !.seen = rows])
  BY <1>1 DEF Request, Base
<1>3. Base(r, [req[r] EXCEPT !.wrote = rows])
  BY <1>1 DEF Request, Base
<1>4. Base(r, [req[r] EXCEPT !.seen = rows, !.wrote = rows])
  BY <1>1 DEF Request, Base
<1>5. ASSUME NEW code \in Codes PROVE Base(r, [req[r] EXCEPT !.code = code, !.wrote = rows])
  BY <1>1 DEF Request, Base
<1> QED BY <1>2, <1>3, <1>4, <1>5

(* Every action keeps the types.                                           *)
LEMMA TypeStep == TypeOK /\ [Next]_vars => TypeOK'
<1> SUFFICES ASSUME TypeOK, [Next]_vars PROVE TypeOK'
  OBVIOUS
<1> USE DEF KeepOthers
<1>1. ASSUME NEW r \in Requests, Begin(r) PROVE TypeOK'
  <2> DEFINE c == req[r].call
             q == [req[r] EXCEPT
                     !.began = now, !.since = commits, !.ids = next_id,
                     !.expires = IF c.op = "create" /\ c.ttl # 0 THEN now + c.ttl ELSE 0]
             q2 == IF ~c.valid THEN Return(q, "invalid")
                   ELSE IF FirstAwait[c.op] = "insert" THEN TryInsert(q)
                   ELSE Await(q, FirstAwait[c.op])
  <2>1. Base(r, q)
    <3> DEFINE e == IF c.op = "create" /\ c.ttl # 0 THEN now + c.ttl ELSE 0
    <3>1. e \in Nat /\ now \in Nat /\ commits \in Nat /\ next_id \in Nat
      BY RequestTypes DEF TypeOK
    <3>2. q = [req[r] EXCEPT !.began = now, !.since = commits, !.ids = next_id, !.expires = e]
      OBVIOUS
    <3> HIDE DEF e, q
    <3> QED BY <3>1, <3>2, RequestTypes DEF Request, Base
  <2>2. Set(r, q2)
    BY <1>1 DEF Begin
  <2> HIDE DEF q
  <2>3. Fits(r, q2)
    <3>1. c.op \in Ops /\ (FirstAwait[c.op] = "insert" => c.op \in {"create", "grpc_create"})
      BY RequestTypes DEF FirstAwait, Ops
    <3> QED BY <2>1, <3>1, Names, FitsReturn, FitsAwait, FitsTryInsert
  <2> HIDE DEF q2
  <2> QED BY <1>1, <2>2, <2>3, SetType, RequestTypes DEF Begin, TypeOK, KeepTable
<1>2. ASSUME NEW r \in Requests, NEW code \in Codes, Insert(r, code) PROVE TypeOK'
  <2> DEFINE row == [id |-> next_id, code |-> code, target |-> req[r].call.target,
                     version |-> 1, hits |-> 0, expires_at |-> req[r].expires]
             q == [req[r] EXCEPT !.code = code, !.wrote = {row}]
  <2>1. row \in Row
    BY RequestTypes DEF Row, TypeOK
  <2> HIDE DEF row
  <2>2. Base(r, q)
    <3>1. {row} \in SUBSET Row
      BY <2>1
    <3> QED BY <3>1, SeenType
  <2>3. Set(r, Await(q, "stats")) /\ links' = links \cup {row} /\ next_id' = next_id + 1
    BY <1>2 DEF Insert, row
  <2> HIDE DEF q
  <2>4. Fits(r, Await(q, "stats"))
    BY <1>2, <2>2, FitsAwait, OpAt DEF Awaits, Insert, At
  <2> QED BY <1>2, <2>1, <2>3, <2>4, SetType DEF Insert, TypeOK
<1>3. ASSUME NEW r \in Requests, NEW code \in Codes, InsertTaken(r, code) PROVE TypeOK'
  <2> DEFINE q == [req[r] EXCEPT !.attempts = @ + 1]
             q2 == IF req[r].call.op = "create" /\ req[r].call.code = NoCode
                   THEN TryInsert(q) ELSE Return(req[r], "taken")
  <2>1. Base(r, q)
    BY RequestTypes DEF Request, Base
  <2>2. Set(r, q2)
    BY <1>3 DEF InsertTaken
  <2> HIDE DEF q
  <2>3. Fits(r, q2)
    BY <2>1, Names, FitsReturn, FitsTryInsert, RequestTypes
  <2> HIDE DEF q2
  <2> QED BY <1>3, <2>2, <2>3, SetType, RequestTypes DEF InsertTaken, TypeOK, KeepTable
<1>4. ASSUME NEW r \in Requests, ReadStats(r) PROVE TypeOK'
  <2> DEFINE row == Select(req[r].code)
             q == [req[r] EXCEPT !.seen = row]
             q2 == IF row = {} THEN Return(q, "not_found")
                   ELSE IF q.call.op = "get" THEN Await(q, "cache_set")
                   ELSE Return(q, Success[q.call.op])
  <2>1. Base(r, q)
    <3>1. row \in SUBSET Row
      BY RowTypes
    <3> HIDE DEF row
    <3> QED BY <3>1, SeenType
  <2>2. Set(r, q2)
    BY <1>4 DEF ReadStats
  <2> HIDE DEF q, row
  <2>3. Fits(r, q2)
    <3>1. q.call.op \in Ops /\ (q.call.op = "get" => "cache_set" \in Awaits[req[r].call.op])
      BY <2>1, RequestTypes DEF Awaits, Base
    <3> QED BY <2>1, <3>1, Names, FitsReturn, FitsAwait
  <2> HIDE DEF q2
  <2> QED BY <1>4, <2>2, <2>3, SetType, RequestTypes DEF ReadStats, TypeOK, KeepTable
<1>5. ASSUME NEW r \in Requests, Update(r) PROVE TypeOK'
  <2> DEFINE old == {row \in Select(req[r].code) : row.version = req[r].call.version}
             new == {[row EXCEPT !.target = req[r].call.target, !.version = @ + 1] : row \in old}
             q == [req[r] EXCEPT !.seen = new, !.wrote = new]
             q2 == IF old = {} THEN Await(req[r], "exists") ELSE Await(q, "invalidate")
  <2>1. old \in SUBSET Row /\ new \in SUBSET Row
    BY RowTypes, RequestTypes
  <2>2. links' = (links \ old) \cup new /\ Set(r, q2)
    BY <1>5 DEF Update, Updated, Matching
  <2>3. commits' \in Nat /\ retired' \subseteq [id: Nat, version: Nat, at: Nat, seq: Nat]
    <3>1. (commits' = commits /\ retired' = retired) \/ Retire(old)
      BY <1>5 DEF Update, Updated, Matching
    <3> HIDE DEF old
    <3> QED BY <3>1, <2>1, RetireType DEF TypeOK
  <2> HIDE DEF old, new
  <2>4. Base(r, q)
    BY <2>1, SeenType
  <2> HIDE DEF q
  <2>5. Fits(r, q2)
    <3>1. {"exists", "invalidate"} \subseteq Awaits[req[r].call.op]
      <4>1. req[r].pc = "update"
        BY <1>5 DEF Update, Updated, Matching, At
      <4> QED BY <4>1, OpAt DEF Awaits
    <3> QED BY <2>4, <3>1, FitsAwait, RequestTypes
  <2> HIDE DEF q2
  <2> QED BY <1>5, <2>1, <2>2, <2>3, <2>5, SetType, RequestTypes DEF Update, Updated, Matching, TypeOK
<1>6. ASSUME NEW r \in Requests, UpdateExists(r) PROVE TypeOK'
  <2> DEFINE status == IF Select(req[r].code) = {} THEN "not_found" ELSE "conflict"
  <2>1. Set(r, Return(req[r], status)) /\ status \in Statuses
    BY <1>6, Names DEF UpdateExists
  <2> HIDE DEF status
  <2> QED BY <1>6, <2>1, FitsReturn, SetType, RequestTypes DEF UpdateExists, TypeOK, KeepTable
<1>7. ASSUME NEW r \in Requests, ReadLink(r) PROVE TypeOK'
  <2> DEFINE row == Select(req[r].code)
             q == [req[r] EXCEPT !.seen = row]
             q2 == IF row = {} THEN Return(req[r], "not_found") ELSE Await(q, "check")
  <2>1. Base(r, q)
    <3>1. row \in SUBSET Row
      BY RowTypes
    <3> HIDE DEF row
    <3> QED BY <3>1, SeenType
  <2>2. Set(r, q2)
    BY <1>7 DEF ReadLink
  <2> HIDE DEF q, row
  <2>3. Fits(r, q2)
    BY <1>7, <2>1, Names, FitsReturn, FitsAwait, RequestTypes, OpAt DEF Awaits, ReadLink, At
  <2> HIDE DEF q2
  <2> QED BY <1>7, <2>2, <2>3, SetType, RequestTypes DEF ReadLink, TypeOK, KeepTable
<1>8. ASSUME NEW r \in Requests, CheckExpiry(r) PROVE TypeOK'
  <2>1. \/ Set(r, Return(req[r], "not_found"))
        \/ Set(r, Await(req[r], "record_hit"))
    BY <1>8 DEF CheckExpiry
  <2>2. Fits(r, Return(req[r], "not_found"))
    BY Names, FitsReturn, RequestTypes
  <2>3. Fits(r, Await(req[r], "record_hit"))
    BY <1>8, FitsAwait, RequestTypes, OpAt DEF Awaits, CheckExpiry, At
  <2> QED BY <1>8, <2>1, <2>2, <2>3, SetType, RequestTypes DEF CheckExpiry, TypeOK, KeepTable
<1>9. ASSUME NEW r \in Requests, RecordHit(r) PROVE TypeOK'
  <2> DEFINE old == Select(req[r].code)
             new == {[row EXCEPT !.hits = @ + 1] : row \in old}
             q == [req[r] EXCEPT !.wrote = new]
             q2 == IF old = {} THEN Return(req[r], "not_found") ELSE Await(q, "invalidate")
  <2>1. old \in SUBSET Row /\ new \in SUBSET Row
    BY RowTypes
  <2>2. links' = (links \ old) \cup new /\ Set(r, q2)
    BY <1>9 DEF RecordHit, Visited
  <2> HIDE DEF old, new
  <2>3. Base(r, q)
    BY <2>1, SeenType
  <2> HIDE DEF q
  <2>4. Fits(r, q2)
    BY <1>9, <2>3, Names, FitsReturn, FitsAwait, RequestTypes, OpAt DEF Awaits, RecordHit, Visited, At
  <2> HIDE DEF q2
  <2> QED BY <1>9, <2>1, <2>2, <2>4, SetType, RequestTypes DEF RecordHit, Visited, TypeOK
<1>10. ASSUME NEW r \in Requests, Remove(r) PROVE TypeOK'
  <2> DEFINE old == Select(req[r].code)
             q == [req[r] EXCEPT !.wrote = old]
             q2 == IF old = {} THEN Return(req[r], "not_found") ELSE Await(q, "invalidate")
  <2>1. old \in SUBSET Row
    BY RowTypes
  <2>2. links' = links \ old /\ Set(r, q2)
    BY <1>10 DEF Remove
  <2>3. commits' \in Nat /\ retired' \subseteq [id: Nat, version: Nat, at: Nat, seq: Nat]
    <3>1. (commits' = commits /\ retired' = retired) \/ Retire(old)
      BY <1>10 DEF Remove
    <3> HIDE DEF old
    <3> QED BY <3>1, <2>1, RetireType DEF TypeOK
  <2> HIDE DEF old
  <2>4. Base(r, q)
    BY <2>1, SeenType
  <2> HIDE DEF q
  <2>5. Fits(r, q2)
    BY <1>10, <2>4, Names, FitsReturn, FitsAwait, RequestTypes, OpAt DEF Awaits, Remove, At
  <2> HIDE DEF q2
  <2> QED BY <1>10, <2>1, <2>2, <2>3, <2>5, SetType, RequestTypes DEF Remove, TypeOK
<1>11. ASSUME NEW r \in Requests, CacheHit(r) PROVE TypeOK'
  <2>1. PICK entry \in redis : Set(r, Return([req[r] EXCEPT !.seen = {entry.link}], "ok"))
    BY <1>11 DEF CacheHit
  <2> DEFINE q == [req[r] EXCEPT !.seen = {entry.link}]
  <2>2. Base(r, q)
    <3>1. {entry.link} \in SUBSET Row
      BY DEF TypeOK
    <3> QED BY <3>1, SeenType
  <2> HIDE DEF q
  <2>3. Fits(r, Return(q, "ok"))
    BY <2>2, Names, FitsReturn, RequestTypes
  <2>4. Set(r, Return(q, "ok"))
    BY <2>1 DEF q
  <2> QED BY <1>11, <2>3, <2>4, SetType, RequestTypes DEF CacheHit, TypeOK, KeepTable
<1>12. ASSUME NEW r \in Requests, CacheMiss(r) PROVE TypeOK'
  <2>1. Fits(r, Await(req[r], "stats"))
    BY <1>12, FitsAwait, RequestTypes, OpAt DEF Awaits, CacheMiss, At
  <2> QED BY <1>12, <2>1, SetType DEF CacheMiss, TypeOK, KeepTable
<1>13. ASSUME NEW r \in Requests, CacheSet(r) PROVE TypeOK'
  <2>1. redis' \subseteq [code: Codes, link: Row, expiry: Nat]
    <3>1. CASE redis' = redis
      BY <3>1 DEF TypeOK
    <3>2. ASSUME NEW ttl \in JitteredTtl, NEW row \in req[r].seen,
                 redis' = OtherEntries(req[r].code) \cup
                          {[code |-> req[r].code, link |-> row, expiry |-> now + ttl]}
          PROVE  redis' \subseteq [code: Codes, link: Row, expiry: Nat]
      <4>1. ttl \in Nat
        BY TimesAssumption DEF JitteredTtl, Max2
      <4>2. req[r].code \in Codes /\ row \in Row /\ now \in Nat
        BY <1>13, RequestTypes, OpAt DEF CacheSet, At
      <4> QED BY <3>2, <4>1, <4>2 DEF OtherEntries, TypeOK
    <3> QED BY <1>13, <3>1, <3>2 DEF CacheSet, NoEffect
  <2>2. Fits(r, Return(req[r], "ok"))
    BY Names, FitsReturn, RequestTypes
  <2> QED BY <1>13, <2>1, <2>2, SetType DEF CacheSet, TypeOK, KeepTable
<1>14. ASSUME NEW r \in Requests, Invalidate(r) PROVE TypeOK'
  <2>1. Fits(r, Return(req[r], Success[req[r].call.op]))
    BY Names, FitsReturn, RequestTypes
  <2>2. redis' \subseteq redis
    BY <1>14 DEF Invalidate, NoEffect, OtherEntries
  <2> QED BY <1>14, <2>1, <2>2, SetType DEF Invalidate, TypeOK, KeepTable
<1>15. ASSUME NEW r \in Requests,
              CommandTimedOut(r) \/ TimedOut(r) \/ Disconnected(r) \/ DbError(r)
       PROVE  TypeOK'
  <2>1. PICK status \in Statuses : Set(r, Abandon(req[r], status))
    BY <1>15, Names, RequestTypes DEF CommandTimedOut, TimedOut, Disconnected, DbError
  <2> QED BY <1>15, <2>1, SetType, FitsAbandon
          DEF CommandTimedOut, TimedOut, Disconnected, DbError, TypeOK, KeepTable
<1>16. ASSUME NEW r \in Requests, Lost(r) PROVE TypeOK'
  <2>1. Fits(r, [req[r] EXCEPT !.pc = "done"])
    BY RequestTypes, Names DEF Request, Fits, Base
  <2> QED BY <1>16, <2>1, SetType DEF Lost, TypeOK, KeepTable
<1>17. CASE CleanerTick
  BY <1>17, TimesAssumption DEF CleanerTick, KeepTable, TypeOK
<1>18. CASE CleanerPurge
  <2> DEFINE old == {row \in links : IsExpired(row, cleaner.cutoff)}
  <2>1. old \in SUBSET Row
    BY DEF TypeOK
  <2>2. commits' \in Nat /\ retired' \subseteq [id: Nat, version: Nat, at: Nat, seq: Nat]
    <3>1. (commits' = commits /\ retired' = retired) \/ Retire(old)
      BY <1>18 DEF CleanerPurge
    <3> HIDE DEF old
    <3> QED BY <3>1, <2>1, RetireType DEF TypeOK
  <2> QED BY <1>18, <2>2 DEF CleanerPurge, TypeOK
<1>19. CASE CleanerError
  BY <1>19 DEF CleanerError, KeepTable, TypeOK
<1>20. CASE Tick
  BY <1>20 DEF Tick, KeepTable, TypeOK
<1>21. CASE UNCHANGED vars
  BY <1>21 DEF vars, TypeOK
<1> QED
  BY <1>1, <1>2, <1>3, <1>4, <1>5, <1>6, <1>7, <1>8, <1>9, <1>10, <1>11, <1>12, <1>13, <1>14,
     <1>15, <1>16, <1>17, <1>18, <1>19, <1>20, <1>21
     DEF Next, Statement, Command, Failure

(* TypeOK, for every set of calls and every configuration: no handler      *)
(* reaches an .await of another, and what it writes to the table, to the   *)
(* cache and to its answer is always of the type its readers expect.       *)
THEOREM TypeCorrect == Spec => []TypeOK
<1> QED BY InitType, TypeStep, PTL DEF Spec

-----------------------------------------------------------------------------
(* The inductive invariant.                                                *)

(* Rows: ids and codes are unique, the history is the past, and a row is   *)
(* ahead of every version of it that has ended.                            *)
VersionsInv ==
    /\ \A row \in links : row.id < next_id
    /\ \A row1, row2 \in links : row1.code = row2.code \/ row1.id = row2.id => row1 = row2
    /\ \A old \in retired : old.id < next_id /\ old.seq <= commits /\ old.at <= now
    /\ \A row \in links, old \in retired : old.id = row.id => old.version < row.version

(* Updates: the row is never behind what an update has made of it.         *)
UpdatesInv ==
    \A r \in Requests : req[r].call.op = "update" =>
      \A new \in req[r].wrote :
        /\ new.id < next_id
        /\ new.version = req[r].call.version + 1
        /\ \A row \in links : row.id = new.id => new.version <= row.version

(* Reads: what a request holds from the database ended, if it did, after   *)
(* the request began.  What it holds from the cache is known only to be    *)
(* bounded, so a GET is in this state only while it is about to fill it.   *)
FromDatabase(q) == q.call.op # "get" \/ ~CacheEnabled \/ q.pc = "cache_set"

EndedSince(q, row) ==
    \A old \in retired : IsVersion(old, row) => q.since < old.seq /\ q.began <= old.at

ReadsInv ==
    \A r \in Requests :
      /\ req[r].since <= commits /\ req[r].began <= now /\ req[r].ended <= now
      /\ req[r].pc = "idle" => req[r].seen = {} /\ req[r].reply = "none"
      /\ FromDatabase(req[r]) => \A row \in req[r].seen : EndedSince(req[r], row)

(* Timers: a handler lives no longer than RequestTimeout, and a SETEX it   *)
(* leaves behind arrives within WireDelay.                                 *)
TimersInv ==
    \A r \in Requests :
      /\ Waiting(r) /\ IsHttp(r) => now <= req[r].began + RequestTimeout
      /\ Answered(r) /\ req[r].pc = "cache_set" =>
           /\ now <= req[r].until
           /\ req[r].until <= req[r].began + RequestTimeout + WireDelay

(* The cache: an entry expires within StalenessBound of the end of the     *)
(* version it holds.                                                       *)
MaxTtl == Max2(CacheTtl + CacheJitter, 1)

CacheInv ==
    \A entry \in redis :
      /\ now < entry.expiry /\ entry.expiry <= now + MaxTtl
      /\ \A old \in retired : IsVersion(old, entry.link) => entry.expiry <= old.at + StalenessBound

(* The cleaner: the cutoff of a purge has been read from the clock.        *)
CutoffInv == cleaner.cutoff <= now

IInv == TypeOK /\ VersionsInv /\ CutoffInv /\ UpdatesInv /\ NoLostUpdate /\ ReadsInv
        /\ TimersInv /\ CacheInv /\ BoundedStaleness

-----------------------------------------------------------------------------
(* The table.                                                              *)

(* The ways a step can change it.                                          *)
Inserted == \E row \in Row :
    /\ row.id = next_id /\ row.version = 1 /\ row.hits = 0 /\ Select(row.code) = {}
    /\ links' = links \cup {row} /\ next_id' = next_id + 1
    /\ UNCHANGED <<commits, retired, now>>

Rewritten == \E row \in links, t \in Targets :
    /\ links' = (links \ {row}) \cup {[row EXCEPT !.target = t, !.version = @ + 1]}
    /\ Retire({row}) /\ UNCHANGED <<next_id, now>>

Counted == \E row \in links :
    /\ links' = (links \ {row}) \cup {[row EXCEPT !.hits = @ + 1]}
    /\ UNCHANGED <<next_id, commits, retired, now>>

Removed == \E row \in links :
    /\ links' = links \ {row} /\ Retire({row}) /\ UNCHANGED <<next_id, now>>

Purged == \E cutoff \in Nat : LET old == {row \in links : IsExpired(row, cutoff)}
                              IN /\ cutoff <= now /\ links' = links \ old /\ Retire(old)
                                 /\ UNCHANGED <<next_id, now>>

Untouched == UNCHANGED <<links, next_id, commits, retired>> /\ now' \in {now, now + 1}

(* UNIQUE (code): a statement selects one row or none.                     *)
LEMMA SelectOne ==
    ASSUME VersionsInv, NEW code, NEW row \in Select(code)
    PROVE  Select(code) = {row} /\ row \in links
BY DEF Select, VersionsInv

(* The cutoff of the cleaner's purge is never in the future.               *)
LEMMA CutoffStep == TypeOK /\ CutoffInv /\ [Next]_vars => CutoffInv'
<1> SUFFICES ASSUME TypeOK, CutoffInv, [Next]_vars PROVE CutoffInv'
  OBVIOUS
<1>1. now \in Nat /\ cleaner \in [pc: {"waiting", "purging"}, cutoff: Nat, next: Nat]
  BY DEF TypeOK
<1> USE DEF KeepOthers, CutoffInv
<1>2. ASSUME NEW r \in Requests, Begin(r) \/ Statement(r) \/ Command(r) \/ Failure(r)
      PROVE  CutoffInv'
  BY <1>1, <1>2 DEF Begin, Statement, ReadStats, Update, UpdateExists, ReadLink, CheckExpiry,
      RecordHit, Remove, Insert, InsertTaken, Command, CacheHit, CacheMiss, CacheSet, Invalidate,
      CommandTimedOut, Failure, TimedOut, Disconnected, DbError, Lost
<1>3. CASE CleanerTick
  BY <1>1, <1>3 DEF CleanerTick
<1>4. CASE CleanerPurge
  BY <1>1, <1>4 DEF CleanerPurge
<1>5. CASE CleanerError
  BY <1>1, <1>5 DEF CleanerError
<1>6. CASE Tick \/ UNCHANGED vars
  BY <1>1, <1>6 DEF Tick, vars
<1> QED BY <1>2, <1>3, <1>4, <1>5, <1>6 DEF Next

(* Every step of the handlers, the cleaner and the clock is one of these.  *)
LEMMA TableStep ==
    ASSUME TypeOK, VersionsInv, CutoffInv, [Next]_vars
    PROVE  Inserted \/ Rewritten \/ Counted \/ Removed \/ Purged \/ Untouched
<1> USE DEF KeepOthers, KeepTable
<1>1. ASSUME NEW r \in Requests, NEW code \in Codes, Insert(r, code) PROVE Inserted
  <2> DEFINE row == [id |-> next_id, code |-> code, target |-> req[r].call.target,
                     version |-> 1, hits |-> 0, expires_at |-> req[r].expires]
  <2>1. row \in Row
    BY RequestTypes DEF Row, TypeOK
  <2>2. Select(row.code) = {} /\ links' = links \cup {row}
    BY <1>1 DEF Insert
  <2> HIDE DEF row
  <2>3. row.id = next_id /\ row.version = 1 /\ row.hits = 0
    BY DEF row
  <2> QED BY <1>1, <2>1, <2>2, <2>3 DEF Insert, Inserted
<1>2. ASSUME NEW r \in Requests, Update(r) PROVE Rewritten \/ Untouched
  <2> DEFINE old == {row \in Select(req[r].code) : row.version = req[r].call.version}
             t == req[r].call.target
             new == {[row EXCEPT !.target = t, !.version = @ + 1] : row \in old}
  <2>1. /\ links' = (links \ old) \cup new
        /\ IF old = {} THEN UNCHANGED <<commits, retired>> ELSE Retire(old)
        /\ UNCHANGED <<next_id, now>>
    BY <1>2 DEF Update, Updated, Matching
  <2>2. t \in Targets
    BY RequestTypes
  <2>3. CASE old = {}
    BY <2>1, <2>3 DEF Untouched
  <2>4. CASE old # {}
    <3>1. PICK row \in Select(req[r].code) : old = {row} /\ row \in links
      BY <2>4, SelectOne
    <3>2. new = {[row EXCEPT !.target = t, !.version = @ + 1]}
      BY <3>1
    <3> QED BY <2>1, <2>2, <2>4, <3>1, <3>2 DEF Rewritten
  <2> QED BY <2>3, <2>4
<1>3. ASSUME NEW r \in Requests, RecordHit(r) PROVE Counted \/ Untouched
  <2> DEFINE old == Select(req[r].code)
             new == {[row EXCEPT !.hits = @ + 1] : row \in old}
  <2>1. /\ links' = (links \ old) \cup new
        /\ UNCHANGED <<next_id, commits, retired, now>>
    BY <1>3 DEF RecordHit, Visited
  <2>2. CASE old = {}
    BY <2>1, <2>2 DEF Untouched
  <2>3. CASE old # {}
    <3>1. PICK row \in links : old = {row}
      BY <2>3, SelectOne
    <3>2. new = {[row EXCEPT !.hits = @ + 1]}
      BY <3>1
    <3> QED BY <2>1, <3>1, <3>2 DEF Counted
  <2> QED BY <2>2, <2>3
<1>4. ASSUME NEW r \in Requests, Remove(r) PROVE Removed \/ Untouched
  <2> DEFINE old == Select(req[r].code)
  <2>1. /\ links' = links \ old
        /\ IF old = {} THEN UNCHANGED <<commits, retired>> ELSE Retire(old)
        /\ UNCHANGED <<next_id, now>>
    BY <1>4 DEF Remove
  <2>2. CASE old = {}
    BY <2>1, <2>2 DEF Untouched
  <2>3. CASE old # {}
    <3>1. PICK row \in links : old = {row}
      BY <2>3, SelectOne
    <3> QED BY <2>1, <2>3, <3>1 DEF Removed
  <2> QED BY <2>2, <2>3
<1>5. CASE CleanerPurge
  <2> DEFINE old == {row \in links : IsExpired(row, cleaner.cutoff)}
  <2>1. cleaner.cutoff \in Nat /\ cleaner.cutoff <= now
    BY DEF TypeOK, CutoffInv
  <2>2. /\ links' = links \ old
        /\ IF old = {} THEN UNCHANGED <<commits, retired>> ELSE Retire(old)
        /\ UNCHANGED <<next_id, now>>
    BY <1>5 DEF CleanerPurge
  <2>3. CASE old = {}
    BY <2>2, <2>3 DEF Untouched
  <2>4. CASE old # {}
    BY <2>1, <2>2, <2>4 DEF Purged
  <2> QED BY <2>3, <2>4
<1>6. ASSUME NEW r \in Requests,
             \/ Begin(r) \/ ReadStats(r) \/ UpdateExists(r) \/ ReadLink(r) \/ CheckExpiry(r)
             \/ Command(r) \/ Failure(r) \/ \E code \in Codes : InsertTaken(r, code)
      PROVE  Untouched
  BY <1>6 DEF Untouched, Begin, ReadStats, UpdateExists, ReadLink, CheckExpiry, InsertTaken,
      Command, CacheHit, CacheMiss, CacheSet, Invalidate, CommandTimedOut, Failure, TimedOut,
      Disconnected, DbError, Lost
<1>7. CASE CleanerTick \/ CleanerError \/ Tick \/ UNCHANGED vars
  BY <1>7 DEF Untouched, CleanerTick, CleanerError, Tick, vars
<1> QED BY <1>1, <1>2, <1>3, <1>4, <1>5, <1>6, <1>7 DEF Next, Statement

(* The history is only ever added to, by versions that were current.       *)
LEMMA HistoryStep ==
    ASSUME TypeOK, VersionsInv, CutoffInv, [Next]_vars
    PROVE  \/ UNCHANGED <<commits, retired>> /\ now' \in {now, now + 1}
           \/ \E rows \in SUBSET links : Retire(rows) /\ now' = now
BY TableStep DEF Inserted, Rewritten, Counted, Removed, Purged, Untouched

(* Rows stay unique by code and by id; what is retired stays past.         *)
LEMMA VersionsStep == TypeOK /\ VersionsInv /\ CutoffInv /\ [Next]_vars => VersionsInv'
<1> SUFFICES ASSUME TypeOK, VersionsInv, CutoffInv, [Next]_vars PROVE VersionsInv'
  OBVIOUS
<1>1. /\ now \in Nat /\ next_id \in Nat /\ commits \in Nat
      /\ \A row \in links : row \in Row /\ row.id \in Nat /\ row.version \in Nat
      /\ \A old \in retired : /\ old.id \in Nat /\ old.version \in Nat
                              /\ old.at \in Nat /\ old.seq \in Nat
  BY RowTypes DEF TypeOK
<1>2. CASE Inserted
  <2>1. PICK row \in Row :
          /\ row.id = next_id /\ row.version = 1 /\ Select(row.code) = {}
          /\ links' = links \cup {row} /\ next_id' = next_id + 1
          /\ UNCHANGED <<commits, retired, now>>
    BY <1>2 DEF Inserted
  <2> QED BY <1>1, <2>1 DEF VersionsInv, Select
<1>3. CASE Rewritten
  <2>1. PICK row \in links, t \in Targets :
          /\ links' = (links \ {row}) \cup {[row EXCEPT !.target = t, !.version = @ + 1]}
          /\ Retire({row}) /\ UNCHANGED <<next_id, now>>
    BY <1>3 DEF Rewritten
  <2> DEFINE new == [row EXCEPT !.target = t, !.version = @ + 1]
             ended == [id |-> row.id, version |-> row.version, at |-> now, seq |-> commits + 1]
  <2>2. new.id = row.id /\ new.code = row.code /\ new.version = row.version + 1
    BY <1>1, <2>1 DEF Row
  <2>3. retired' = retired \cup {ended} /\ commits' = commits + 1
    BY <2>1 DEF Retire
  <2>4. links' = (links \ {row}) \cup {new}
    BY <2>1
  <2>5. ended.id = row.id /\ ended.version = row.version /\ ended.at = now /\ ended.seq = commits + 1
    OBVIOUS
  <2> HIDE DEF new, ended
  <2> QED BY <1>1, <2>1, <2>2, <2>3, <2>4, <2>5 DEF VersionsInv
<1>4. CASE Counted
  <2>1. PICK row \in links :
          /\ links' = (links \ {row}) \cup {[row EXCEPT !.hits = @ + 1]}
          /\ UNCHANGED <<next_id, commits, retired, now>>
    BY <1>4 DEF Counted
  <2> DEFINE new == [row EXCEPT !.hits = @ + 1]
  <2>2. new.id = row.id /\ new.code = row.code /\ new.version = row.version
    BY <1>1, <2>1 DEF Row
  <2>3. links' = (links \ {row}) \cup {new}
    BY <2>1
  <2> HIDE DEF new
  <2> QED BY <1>1, <2>1, <2>2, <2>3 DEF VersionsInv
<1>5. ASSUME NEW rows \in SUBSET links, links' = links \ rows, Retire(rows),
             UNCHANGED <<next_id, now>>
      PROVE  VersionsInv'
  BY <1>1, <1>5 DEF VersionsInv, Retire
<1>6. CASE Removed
  BY <1>5, <1>6 DEF Removed
<1>7. CASE Purged
  BY <1>5, <1>7 DEF Purged
<1>8. CASE Untouched
  BY <1>1, <1>8 DEF Untouched, VersionsInv
<1> QED BY TableStep, <1>2, <1>3, <1>4, <1>6, <1>7, <1>8

-----------------------------------------------------------------------------
(* The requests: q is the state that a step gives to request r.            *)

Same(r, q) == q.began = req[r].began /\ q.since = req[r].since
Kept(r, q) == Same(r, q) /\ q.seen = req[r].seen /\ q.wrote = req[r].wrote

(* The answer is given once.                                               *)
Answer(r, q) == \/ q.reply = req[r].reply /\ q.ended = req[r].ended
                \/ req[r].reply = "none" /\ q.reply # "none" /\ q.ended = now

(* The handler starts.                                                     *)
Begins(r, q) == /\ req[r].pc = "idle" /\ q.pc \notin {"idle", "cache_set"}
                /\ q.began = now /\ q.since = commits
                /\ q.seen = req[r].seen /\ q.wrote = req[r].wrote
                /\ q.reply \in {req[r].reply, "invalid", "failed"}

(* It reads a row, and if it is a GET goes on to fill the cache.           *)
Reads(r, q) == /\ req[r].pc \in {"stats", "get"} /\ q.pc # "idle"
               /\ Same(r, q) /\ q.wrote = req[r].wrote /\ q.seen \subseteq links
               /\ UNCHANGED <<links, retired, commits>>
               /\ q.pc = "cache_set" => q.reply = "none" /\ req[r].reply = "none"
               /\ req[r].call.op = "get" => q.reply \in {req[r].reply, "not_found"}

(* It changes a row.                                                       *)
WritesRow(r, q) == /\ req[r].call.op # "get" /\ req[r].pc # "idle"
                   /\ q.pc \notin {"idle", "cache_set"}
                   /\ Same(r, q) /\ q.seen \subseteq req[r].seen \cup links'
                   /\ req[r].call.op = "update" => Update(r)

(* It finds the link in the cache.                                         *)
FromCache(r, q) == /\ CacheEnabled /\ req[r].call.op = "get" /\ req[r].pc = "cache_get"
                   /\ q.pc = "done" /\ Same(r, q) /\ q.wrote = req[r].wrote
                   /\ \E entry \in redis : q.seen = {entry.link}
                   /\ UNCHANGED retired

(* Anything else: it goes on, returns, or is abandoned.                    *)
Moves(r, q) == /\ req[r].pc # "idle" /\ q.pc # "idle" /\ Kept(r, q)
               /\ q.pc = "cache_set" => /\ req[r].pc = "cache_set" /\ Waiting(r)
                                        /\ q.reply # "none" /\ q.until = now + WireDelay
               /\ req[r].call.op = "get" /\ q.reply = "ok" /\ req[r].reply = "none"
                    => req[r].pc = "cache_set"

Changes(r, q) == /\ Set(r, q) /\ q.call = req[r].call /\ Answer(r, q) /\ now' = now
                 /\ \/ Begins(r, q) \/ Reads(r, q) \/ WritesRow(r, q)
                    \/ FromCache(r, q) \/ Moves(r, q)

(* What a handler has read and written does not change as it returns,      *)
LEMMA ReturnFields ==
    ASSUME NEW q \in Request, NEW status
    PROVE  LET p == Return(q, status)
           IN /\ p.began = q.began /\ p.since = q.since /\ p.seen = q.seen /\ p.wrote = q.wrote
              /\ p.pc = "done" /\ p.call = q.call
              /\ \/ q.reply = "none" /\ p.reply = status /\ p.ended = now
                 \/ q.reply # "none" /\ p.reply = q.reply /\ p.ended = q.ended
BY DEF Return, Request

(* nor as it goes on,                                                      *)
LEMMA AwaitFields ==
    ASSUME NEW q \in Request, NEW pc
    PROVE  LET p == Await(q, pc)
           IN /\ p.began = q.began /\ p.since = q.since /\ p.seen = q.seen /\ p.wrote = q.wrote
              /\ p.pc = IF q.reply = "none" THEN pc ELSE "done"
              /\ p.reply = q.reply /\ p.ended = q.ended /\ p.call = q.call
BY DEF Await, Request

(* nor as it is dropped,                                                   *)
LEMMA AbandonFields ==
    ASSUME NEW q \in Request, NEW status
    PROVE  LET p == Abandon(q, status)
           IN /\ p.began = q.began /\ p.since = q.since /\ p.seen = q.seen /\ p.wrote = q.wrote
              /\ p.pc \in {q.pc, "done"} /\ p.call = q.call
              /\ p.reply = status /\ p.ended = now
              /\ q.pc = "cache_set" => p.until = now + WireDelay
BY DEF Abandon, Request

(* nor as it tries to insert.                                              *)
LEMMA TryInsertFields ==
    ASSUME NEW q \in Request
    PROVE  LET p == TryInsert(q)
           IN /\ p.began = q.began /\ p.since = q.since /\ p.seen = q.seen /\ p.wrote = q.wrote
              /\ p.pc \in {"insert", "done"} /\ p.call = q.call
              /\ \/ p.reply = q.reply /\ p.ended = q.ended
                 \/ q.reply = "none" /\ p.reply = "failed" /\ p.ended = now
BY ReturnFields, AwaitFields DEF TryInsert

(* Each action of a request changes its state in one of a few ways.        *)
LEMMA ChangesStep ==
    ASSUME TypeOK, NEW r \in Requests, Begin(r) \/ Statement(r) \/ Command(r) \/ Failure(r)
    PROVE  \E q : Changes(r, q)
<1> USE DEF KeepOthers, KeepTable, At, Waiting, Answered, Same, Kept
<1>1. req[r] \in Request /\ req[r].call.op \in Ops
  BY RequestTypes
<1>2. CASE Begin(r)
  <2> DEFINE c == req[r].call
             e == IF c.op = "create" /\ c.ttl # 0 THEN now + c.ttl ELSE 0
             q == [req[r] EXCEPT !.began = now, !.since = commits, !.ids = next_id, !.expires = e]
             q2 == IF ~c.valid THEN Return(q, "invalid")
                   ELSE IF FirstAwait[c.op] = "insert" THEN TryInsert(q)
                   ELSE Await(q, FirstAwait[c.op])
  <2>1. /\ q \in Request /\ q.began = now /\ q.since = commits /\ q.call = c
        /\ q.seen = req[r].seen /\ q.wrote = req[r].wrote
        /\ q.reply = req[r].reply /\ q.ended = req[r].ended
    <3>1. e \in Nat /\ now \in Nat /\ commits \in Nat /\ next_id \in Nat
      BY RequestTypes DEF TypeOK
    <3> HIDE DEF e
    <3> QED BY <1>1, <3>1 DEF Request
  <2>2. Set(r, q2) /\ req[r].pc = "idle" /\ now' = now
    BY <1>2 DEF Begin
  <2>3. FirstAwait[c.op] \notin {"idle", "cache_set"}
    BY <1>1 DEF FirstAwait, Ops
  <2> HIDE DEF q
  <2>4. /\ q2.began = now /\ q2.since = commits /\ q2.seen = q.seen /\ q2.wrote = q.wrote
        /\ q2.pc \in {FirstAwait[c.op], "insert", "done"} /\ q2.call = c
        /\ \/ q2.reply = q.reply /\ q2.ended = q.ended
           \/ q.reply = "none" /\ q2.reply \in {"invalid", "failed"} /\ q2.ended = now
    BY <2>1, ReturnFields, AwaitFields, TryInsertFields
  <2> HIDE DEF q2, c
  <2>5. Begins(r, q2) /\ Answer(r, q2)
    BY <2>1, <2>2, <2>3, <2>4 DEF Begins, Answer
  <2> QED BY <2>2, <2>4, <2>5 DEF Changes, c
<1>3. ASSUME NEW code \in Codes, Insert(r, code) PROVE \E q : Changes(r, q)
  <2> DEFINE row == [id |-> next_id, code |-> code, target |-> req[r].call.target,
                     version |-> 1, hits |-> 0, expires_at |-> req[r].expires]
             q == [req[r] EXCEPT !.code = code, !.wrote = {row}]
             p == Await(q, "stats")
  <2>1. Set(r, p) /\ now' = now /\ req[r].pc = "insert"
    BY <1>3 DEF Insert
  <2>2. {row} \in SUBSET Row
    BY RequestTypes DEF Row, TypeOK
  <2> HIDE DEF row
  <2>3. /\ q \in Request /\ q.began = req[r].began /\ q.since = req[r].since
        /\ q.call = req[r].call /\ q.seen = req[r].seen
        /\ q.reply = req[r].reply /\ q.ended = req[r].ended
    BY <1>1, <2>2 DEF Request
  <2> HIDE DEF q
  <2>4. /\ p.began = q.began /\ p.since = q.since /\ p.seen = q.seen /\ p.call = q.call
        /\ p.pc \in {"stats", "done"} /\ p.reply = q.reply /\ p.ended = q.ended
    BY <2>3, AwaitFields
  <2> HIDE DEF p
  <2>5. req[r].call.op \notin {"get", "update"}
    BY <2>1, OpAt
  <2> QED BY <2>1, <2>3, <2>4, <2>5 DEF Changes, WritesRow, Answer
<1>4. ASSUME NEW code \in Codes, InsertTaken(r, code) PROVE \E q : Changes(r, q)
  <2> DEFINE q == [req[r] EXCEPT !.attempts = @ + 1]
             p == IF req[r].call.op = "create" /\ req[r].call.code = NoCode
                  THEN TryInsert(q) ELSE Return(req[r], "taken")
  <2>1. Set(r, p) /\ now' = now /\ req[r].pc = "insert"
    BY <1>4 DEF InsertTaken
  <2>2. /\ q \in Request /\ q.began = req[r].began /\ q.since = req[r].since
        /\ q.call = req[r].call /\ q.seen = req[r].seen /\ q.wrote = req[r].wrote
        /\ q.reply = req[r].reply /\ q.ended = req[r].ended
    BY <1>1 DEF Request
  <2> HIDE DEF q
  <2>3. /\ p.began = q.began /\ p.since = q.since /\ p.seen = q.seen /\ p.wrote = q.wrote
        /\ p.pc \in {"insert", "done"} /\ p.call = q.call
        /\ \/ p.reply = q.reply /\ p.ended = q.ended
           \/ q.reply = "none" /\ p.reply \in {"failed", "taken"} /\ p.ended = now
    BY <1>1, <2>2, ReturnFields, TryInsertFields
  <2> HIDE DEF p
  <2> QED BY <2>1, <2>2, <2>3 DEF Changes, Moves, Answer
<1>5. CASE ReadStats(r)
  <2> DEFINE row == Select(req[r].code)
             q == [req[r] EXCEPT !.seen = row]
             p == IF row = {} THEN Return(q, "not_found")
                  ELSE IF q.call.op = "get" THEN Await(q, "cache_set")
                  ELSE Return(q, Success[q.call.op])
  <2>1. /\ Set(r, p) /\ now' = now /\ req[r].pc = "stats"
        /\ UNCHANGED <<links, retired, commits>>
    BY <1>5 DEF ReadStats
  <2>2. row \in SUBSET Row /\ row \subseteq links
    BY RowTypes
  <2> HIDE DEF row
  <2>3. /\ q \in Request /\ q.began = req[r].began /\ q.since = req[r].since
        /\ q.call = req[r].call /\ q.seen = row /\ q.wrote = req[r].wrote
        /\ q.reply = req[r].reply /\ q.ended = req[r].ended
    BY <1>1, <2>2 DEF Request
  <2> HIDE DEF q
  <2>4. Success[q.call.op] # "none"
    BY <1>1, <2>3 DEF Success, Ops
  <2>5. /\ p.began = q.began /\ p.since = q.since /\ p.seen = q.seen /\ p.wrote = q.wrote
        /\ p.pc \in {"cache_set", "done"} /\ p.call = q.call
        /\ p.pc = "cache_set" => p.reply = "none" /\ q.reply = "none"
        /\ q.call.op = "get" => p.reply \in {q.reply, "not_found"}
        /\ \/ p.reply = q.reply /\ p.ended = q.ended
           \/ q.reply = "none" /\ p.reply # "none" /\ p.ended = now
    BY <2>3, <2>4, ReturnFields, AwaitFields
  <2> HIDE DEF p
  <2> QED BY <2>1, <2>2, <2>3, <2>5 DEF Changes, Reads, Answer
<1>6. CASE ReadLink(r)
  <2> DEFINE row == Select(req[r].code)
             q == [req[r] EXCEPT !.seen = row]
             p == IF row = {} THEN Return(req[r], "not_found") ELSE Await(q, "check")
  <2>1. /\ Set(r, p) /\ now' = now /\ req[r].pc = "get"
        /\ UNCHANGED <<links, retired, commits>>
    BY <1>6 DEF ReadLink
  <2>2. row \in SUBSET Row /\ row \subseteq links
    BY RowTypes
  <2> HIDE DEF row
  <2>3. /\ q \in Request /\ q.began = req[r].began /\ q.since = req[r].since
        /\ q.call = req[r].call /\ q.seen = row /\ q.wrote = req[r].wrote
        /\ q.reply = req[r].reply /\ q.ended = req[r].ended
    BY <1>1, <2>2 DEF Request
  <2> HIDE DEF q
  <2>4. CASE row = {}
    <3>1. /\ p.began = req[r].began /\ p.since = req[r].since /\ p.seen = req[r].seen
          /\ p.wrote = req[r].wrote /\ p.pc = "done" /\ p.call = req[r].call
          /\ \/ p.reply = req[r].reply /\ p.ended = req[r].ended
             \/ req[r].reply = "none" /\ p.reply = "not_found" /\ p.ended = now
      BY <1>1, <2>4, ReturnFields
    <3> HIDE DEF p
    <3> QED BY <2>1, <3>1 DEF Changes, Moves, Answer
  <2>5. CASE row # {}
    <3>1. /\ p.began = q.began /\ p.since = q.since /\ p.seen = q.seen /\ p.wrote = q.wrote
          /\ p.pc \in {"check", "done"} /\ p.call = q.call
          /\ p.reply = q.reply /\ p.ended = q.ended
      BY <2>3, <2>5, AwaitFields
    <3> HIDE DEF p
    <3> QED BY <2>1, <2>2, <2>3, <3>1 DEF Changes, Reads, Answer
  <2> QED BY <2>4, <2>5
<1>7. CASE Update(r)
  <2> DEFINE old == {row \in Select(req[r].code) : row.version = req[r].call.version}
             new == {[row EXCEPT !.target = req[r].call.target, !.version = @ + 1] : row \in old}
             q == [req[r] EXCEPT !.seen = new, !.wrote = new]
             p == IF old = {} THEN Await(req[r], "exists") ELSE Await(q, "invalidate")
  <2>1. /\ Set(r, p) /\ now' = now /\ req[r].pc = "update" /\ new \subseteq links'
    BY <1>7 DEF Update, Updated, Matching
  <2>2. new \in SUBSET Row
    BY RowTypes, RequestTypes
  <2> HIDE DEF old, new
  <2>3. /\ q \in Request /\ q.began = req[r].began /\ q.since = req[r].since
        /\ q.call = req[r].call /\ q.seen = new
        /\ q.reply = req[r].reply /\ q.ended = req[r].ended
    BY <1>1, <2>2 DEF Request
  <2> HIDE DEF q
  <2>4. /\ p.began = req[r].began /\ p.since = req[r].since /\ p.call = req[r].call
        /\ p.seen \in {req[r].seen, new} /\ p.pc \in {"exists", "invalidate", "done"}
        /\ p.reply = req[r].reply /\ p.ended = req[r].ended
    BY <1>1, <2>3, AwaitFields
  <2> HIDE DEF p
  <2>5. req[r].call.op # "get"
    BY <2>1, OpAt
  <2> QED BY <1>7, <2>1, <2>4, <2>5 DEF Changes, WritesRow, Answer
<1>8. CASE RecordHit(r)
  <2> DEFINE old == Select(req[r].code)
             new == {[row EXCEPT !.hits = @ + 1] : row \in old}
             q == [req[r] EXCEPT !.wrote = new]
             p == IF old = {} THEN Return(req[r], "not_found") ELSE Await(q, "invalidate")
  <2>1. /\ Set(r, p) /\ now' = now /\ req[r].pc = "record_hit"
    BY <1>8 DEF RecordHit, Visited
  <2>2. new \in SUBSET Row
    BY RowTypes
  <2> HIDE DEF old, new
  <2>3. /\ q \in Request /\ q.began = req[r].began /\ q.since = req[r].since
        /\ q.call = req[r].call /\ q.seen = req[r].seen
        /\ q.reply = req[r].reply /\ q.ended = req[r].ended
    BY <1>1, <2>2 DEF Request
  <2> HIDE DEF q
  <2>4. /\ p.began = req[r].began /\ p.since = req[r].since /\ p.call = req[r].call
        /\ p.seen = req[r].seen /\ p.pc \in {"invalidate", "done"}
        /\ \/ p.reply = req[r].reply /\ p.ended = req[r].ended
           \/ req[r].reply = "none" /\ p.reply = "not_found" /\ p.ended = now
    BY <1>1, <2>3, AwaitFields, ReturnFields
  <2> HIDE DEF p
  <2>5. req[r].call.op \notin {"get", "update"}
    BY <2>1, OpAt
  <2> QED BY <2>1, <2>4, <2>5 DEF Changes, WritesRow, Answer
<1>9. CASE Remove(r)
  <2> DEFINE old == Select(req[r].code)
             q == [req[r] EXCEPT !.wrote = old]
             p == IF old = {} THEN Return(req[r], "not_found") ELSE Await(q, "invalidate")
  <2>1. /\ Set(r, p) /\ now' = now /\ req[r].pc = "remove"
    BY <1>9 DEF Remove
  <2>2. old \in SUBSET Row
    BY RowTypes
  <2> HIDE DEF old
  <2>3. /\ q \in Request /\ q.began = req[r].began /\ q.since = req[r].since
        /\ q.call = req[r].call /\ q.seen = req[r].seen
        /\ q.reply = req[r].reply /\ q.ended = req[r].ended
    BY <1>1, <2>2 DEF Request
  <2> HIDE DEF q
  <2>4. /\ p.began = req[r].began /\ p.since = req[r].since /\ p.call = req[r].call
        /\ p.seen = req[r].seen /\ p.pc \in {"invalidate", "done"}
        /\ \/ p.reply = req[r].reply /\ p.ended = req[r].ended
           \/ req[r].reply = "none" /\ p.reply = "not_found" /\ p.ended = now
    BY <1>1, <2>3, AwaitFields, ReturnFields
  <2> HIDE DEF p
  <2>5. req[r].call.op \notin {"get", "update"}
    BY <2>1, OpAt
  <2> QED BY <2>1, <2>4, <2>5 DEF Changes, WritesRow, Answer
<1>10. CASE CacheHit(r)
  <2>1. PICK entry \in redis : Set(r, Return([req[r] EXCEPT !.seen = {entry.link}], "ok"))
    BY <1>10 DEF CacheHit
  <2> DEFINE q == [req[r] EXCEPT !.seen = {entry.link}]
             p == Return(q, "ok")
  <2>2. entry.link \in Row
    BY DEF TypeOK
  <2>3. /\ q \in Request /\ q.began = req[r].began /\ q.since = req[r].since
        /\ q.call = req[r].call /\ q.seen = {entry.link} /\ q.wrote = req[r].wrote
        /\ q.reply = req[r].reply /\ q.ended = req[r].ended
    BY <1>1, <2>2 DEF Request
  <2>4. Set(r, p)
    BY <2>1
  <2> HIDE DEF q
  <2>5. /\ p.began = q.began /\ p.since = q.since /\ p.seen = q.seen /\ p.wrote = q.wrote
        /\ p.pc = "done" /\ p.call = q.call
        /\ \/ p.reply = q.reply /\ p.ended = q.ended
           \/ q.reply = "none" /\ p.reply = "ok" /\ p.ended = now
    BY <2>3, ReturnFields
  <2> HIDE DEF p
  <2>6. /\ CacheEnabled /\ req[r].call.op = "get" /\ req[r].pc = "cache_get"
        /\ now' = now /\ UNCHANGED retired
    BY <1>10, OpAt DEF CacheHit
  <2> QED BY <2>3, <2>4, <2>5, <2>6 DEF Changes, FromCache, Answer
<1>11. CASE CheckExpiry(r) \/ UpdateExists(r) \/ CacheMiss(r) \/ CacheSet(r) \/ Invalidate(r)
  <2>1. /\ now' = now
        /\ req[r].pc \in {"check", "exists", "cache_get", "cache_set", "invalidate"}
        /\ \/ \E pc \in {"record_hit", "stats"} : Set(r, Await(req[r], pc))
           \/ \E status \in {"not_found", "conflict"} : Set(r, Return(req[r], status))
           \/ req[r].pc = "cache_set" /\ Set(r, Return(req[r], "ok"))
           \/ req[r].pc = "invalidate" /\ Set(r, Return(req[r], Success[req[r].call.op]))
    BY <1>11 DEF CheckExpiry, UpdateExists, CacheMiss, CacheSet, Invalidate
  <2>2. /\ Success[req[r].call.op] # "none"
        /\ req[r].pc = "invalidate" => req[r].call.op # "get"
    BY <1>1, OpAt DEF Success, Ops
  <2>3. ASSUME NEW pc \in {"record_hit", "stats"}, Set(r, Await(req[r], pc))
        PROVE  Changes(r, Await(req[r], pc))
    <3> DEFINE p == Await(req[r], pc)
    <3>1. /\ p.began = req[r].began /\ p.since = req[r].since /\ p.seen = req[r].seen
          /\ p.wrote = req[r].wrote /\ p.call = req[r].call
          /\ p.pc \in {pc, "done"} /\ p.reply = req[r].reply /\ p.ended = req[r].ended
      BY <1>1, AwaitFields
    <3>2. Set(r, p)
      BY <2>3
    <3> HIDE DEF p
    <3> QED BY <2>1, <3>1, <3>2 DEF Changes, Moves, Answer, p
  <2>4. ASSUME NEW status, status # "none", Set(r, Return(req[r], status)),
               status = "ok" /\ req[r].call.op = "get" => req[r].pc = "cache_set"
        PROVE  Changes(r, Return(req[r], status))
    <3> DEFINE p == Return(req[r], status)
    <3>1. /\ p.began = req[r].began /\ p.since = req[r].since /\ p.seen = req[r].seen
          /\ p.wrote = req[r].wrote /\ p.call = req[r].call /\ p.pc = "done"
          /\ \/ p.reply = req[r].reply /\ p.ended = req[r].ended
             \/ req[r].reply = "none" /\ p.reply = status /\ p.ended = now
      BY <1>1, ReturnFields
    <3>2. Set(r, p)
      BY <2>4
    <3> HIDE DEF p
    <3> QED BY <2>1, <2>4, <3>1, <3>2 DEF Changes, Moves, Answer, p
  <2> QED BY <2>1, <2>2, <2>3, <2>4
<1>12. CASE CommandTimedOut(r) \/ TimedOut(r) \/ Disconnected(r) \/ DbError(r)
  <2>1. /\ now' = now /\ Waiting(r)
        /\ \/ Set(r, Abandon(req[r], "failed"))
           \/ /\ Set(r, Abandon(req[r], Success[req[r].call.op]))
              /\ req[r].pc \in {"cache_set", "invalidate"}
    BY <1>12 DEF CommandTimedOut, TimedOut, Disconnected, DbError
  <2>2. /\ Success[req[r].call.op] # "none"
        /\ req[r].pc = "invalidate" => req[r].call.op # "get"
    BY <1>1, OpAt DEF Success, Ops
  <2>3. ASSUME NEW status, status # "none", Set(r, Abandon(req[r], status)),
               status = "ok" /\ req[r].call.op = "get" => req[r].pc = "cache_set"
        PROVE  Changes(r, Abandon(req[r], status))
    <3> DEFINE p == Abandon(req[r], status)
    <3>1. /\ p.began = req[r].began /\ p.since = req[r].since /\ p.seen = req[r].seen
          /\ p.wrote = req[r].wrote /\ p.call = req[r].call /\ p.pc \in {req[r].pc, "done"}
          /\ p.reply = status /\ p.ended = now
          /\ req[r].pc = "cache_set" => p.until = now + WireDelay
      BY <1>1, AbandonFields
    <3>2. Set(r, p)
      BY <2>3
    <3> HIDE DEF p
    <3> QED BY <2>1, <2>3, <3>1, <3>2 DEF Changes, Moves, Answer, p
  <2> QED BY <2>1, <2>2, <2>3
<1>13. CASE Lost(r)
  <2> DEFINE p == [req[r] EXCEPT !.pc = "done"]
  <2>1. /\ p.began = req[r].began /\ p.since = req[r].since /\ p.seen = req[r].seen
        /\ p.wrote = req[r].wrote /\ p.call = req[r].call /\ p.pc = "done"
        /\ p.reply = req[r].reply /\ p.ended = req[r].ended
    BY <1>1 DEF Request
  <2>2. Set(r, p) /\ now' = now /\ req[r].pc # "idle"
    BY <1>13 DEF Lost, Writes
  <2> HIDE DEF p
  <2> QED BY <2>1, <2>2 DEF Changes, Moves, Answer
<1> QED
  BY <1>2, <1>3, <1>4, <1>5, <1>6, <1>7, <1>8, <1>9, <1>10, <1>11, <1>12, <1>13
     DEF Statement, Command, Failure

(* A step is a change of one request, or leaves the requests alone.        *)
LEMMA StepChanges ==
    ASSUME TypeOK, [Next]_vars
    PROVE  req' = req \/ \E r \in Requests : \E q : Changes(r, q)
<1>1. ASSUME CleanerTick \/ CleanerPurge \/ CleanerError \/ Tick \/ UNCHANGED vars
      PROVE  req' = req
  BY <1>1 DEF CleanerTick, CleanerPurge, CleanerError, Tick, vars
<1> QED BY <1>1, ChangesStep DEF Next

-----------------------------------------------------------------------------
(* Updates.                                                                *)

(* A row keeps its id, its versions only grow, and new ids are new.        *)
LEMMA RowsGrow ==
    ASSUME TypeOK, VersionsInv, CutoffInv, [Next]_vars
    PROVE  /\ next_id \in Nat /\ next_id' \in {next_id, next_id + 1}
           /\ \A new \in links' :
                \/ new.id = next_id
                \/ \E row \in links : row.id = new.id /\ row.version <= new.version
<1>1. next_id \in Nat /\ \A row \in links : row \in Row /\ row.version \in Nat
  BY RowTypes DEF TypeOK
<1>2. ASSUME NEW row \in links, NEW t \in Targets
      PROVE  LET new == [row EXCEPT !.target = t, !.version = @ + 1]
             IN new.id = row.id /\ row.version <= new.version
  BY <1>1 DEF Row
<1>3. ASSUME NEW row \in links
      PROVE  LET new == [row EXCEPT !.hits = @ + 1]
             IN new.id = row.id /\ row.version <= new.version
  BY <1>1 DEF Row
<1> DEFINE Grown == \A new \in links' :
                      \/ new.id = next_id
                      \/ \E row \in links : row.id = new.id /\ row.version <= new.version
<1>4. ASSUME links' \subseteq links PROVE Grown
  BY <1>1, <1>4
<1>5. ASSUME NEW row \in links, NEW new, new.id = row.id, row.version <= new.version,
             links' = (links \ {row}) \cup {new}
      PROVE  Grown
  BY <1>1, <1>5
<1>6. ASSUME Inserted PROVE Grown
  BY <1>1, <1>6 DEF Inserted
<1> HIDE DEF Grown
<1>7. ASSUME Rewritten PROVE Grown
  <2>1. PICK row \in links, t \in Targets :
          links' = (links \ {row}) \cup {[row EXCEPT !.target = t, !.version = @ + 1]}
    BY <1>7 DEF Rewritten
  <2> QED BY <1>2, <1>5, <2>1
<1>8. ASSUME Counted PROVE Grown
  <2>1. PICK row \in links : links' = (links \ {row}) \cup {[row EXCEPT !.hits = @ + 1]}
    BY <1>8 DEF Counted
  <2> QED BY <1>3, <1>5, <2>1
<1>9. ASSUME Removed PROVE Grown
  BY <1>4, <1>9 DEF Removed
<1>10. ASSUME Purged PROVE Grown
  BY <1>4, <1>10 DEF Purged
<1>11. ASSUME Untouched PROVE Grown
  BY <1>4, <1>11 DEF Untouched
<1>12. next_id' \in {next_id, next_id + 1}
  BY TableStep DEF Inserted, Rewritten, Counted, Removed, Purged, Untouched
<1>13. Grown
  BY TableStep, <1>6, <1>7, <1>8, <1>9, <1>10, <1>11
<1> QED BY <1>1, <1>12, <1>13 DEF Grown

(* What an update does to the table and to what its request has written.   *)
LEMMA UpdateEffect ==
    ASSUME TypeOK, VersionsInv, NEW r \in Requests, Update(r)
    PROVE  \/ req'[r].wrote = req[r].wrote
           \/ \E row \in links, new \in Row :
                /\ row.version = req[r].call.version
                /\ new.id = row.id /\ new.version = row.version + 1
                /\ req'[r].wrote = {new} /\ links' = (links \ {row}) \cup {new}
<1> DEFINE old == {row \in Select(req[r].code) : row.version = req[r].call.version}
           t == req[r].call.target
           new == {[row EXCEPT !.target = t, !.version = @ + 1] : row \in old}
           q == [req[r] EXCEPT !.seen = new, !.wrote = new]
<1>1. links' = (links \ old) \cup new
  BY DEF Update, Updated, Matching
<1>2. IF old = {} THEN Set(r, Await(req[r], "exists")) ELSE Set(r, Await(q, "invalidate"))
  BY DEF Update, Updated, Matching
<1>3. req[r] \in Request /\ t \in Targets /\ new \in SUBSET Row
  BY RequestTypes, RowTypes
<1>4. q \in Request /\ q.wrote = new
  <2> HIDE DEF new
  <2> QED BY <1>3 DEF Request
<1>5. r \in DOMAIN req
  BY DEF TypeOK
<1>6. CASE old = {}
  <2>1. req'[r] = Await(req[r], "exists")
    BY <1>2, <1>5, <1>6 DEF Set
  <2>2. Await(req[r], "exists").wrote = req[r].wrote
    BY <1>3, AwaitFields
  <2> QED BY <2>1, <2>2
<1>7. CASE old # {}
  <2>1. PICK row \in links : old = {row} /\ row.version = req[r].call.version
    BY <1>7, SelectOne
  <2> DEFINE n == [row EXCEPT !.target = t, !.version = @ + 1]
  <2>2. new = {n} /\ n \in Row
    <3>1. new = {n}
      <4> HIDE DEF old
      <4> QED BY <2>1
    <3>2. row \in Row
      BY DEF TypeOK
    <3> HIDE DEF new
    <3> QED BY <1>3, <3>1
  <2>3. n.id = row.id /\ n.version = row.version + 1
    BY <1>3, <2>1 DEF TypeOK, Row
  <2>4. req'[r] = Await(q, "invalidate")
    <3> HIDE DEF old, q
    <3> QED BY <1>2, <1>5, <1>7 DEF Set
  <2>5. req'[r].wrote = {n}
    <3> HIDE DEF q, n, new
    <3> QED BY <1>4, <2>2, <2>4, AwaitFields
  <2> HIDE DEF n
  <2> QED BY <1>1, <2>1, <2>2, <2>3, <2>5
<1> QED BY <1>6, <1>7

(* Two updates that present one version never write the same row.          *)
LEMMA UpdatesStep ==
    ASSUME TypeOK, VersionsInv, CutoffInv, UpdatesInv, NoLostUpdate, [Next]_vars
    PROVE  UpdatesInv' /\ NoLostUpdate'
<1>1. /\ next_id \in Nat
      /\ \A row \in links : row.id \in Nat /\ row.version \in Nat
      /\ \A r \in Requests : /\ req[r].call.version \in Nat
                            /\ \A new \in req[r].wrote : new.id \in Nat /\ new.version \in Nat
  BY RowTypes, RequestTypes DEF TypeOK
<1>2. \A r \in Requests : req'[r].call = req[r].call
  BY StepChanges DEF Changes, Set, TypeOK
<1>3. \/ \A r \in Requests : req[r].call.op = "update" => req'[r].wrote = req[r].wrote
      \/ \E r \in Requests : /\ Update(r) /\ req[r].call.op = "update"
                            /\ \A s \in Requests \ {r} : req'[s] = req[s]
  <2>1. CASE req' = req
    BY <2>1
  <2>2. ASSUME NEW r \in Requests, NEW q, Changes(r, q)
        PROVE  \/ \A s \in Requests : req[s].call.op = "update" => req'[s].wrote = req[s].wrote
               \/ /\ Update(r) /\ req[r].call.op = "update"
                  /\ \A s \in Requests \ {r} : req'[s] = req[s]
    <3>1. /\ req'[r] = q /\ \A s \in Requests \ {r} : req'[s] = req[s]
      BY <2>2 DEF Changes, Set, TypeOK
    <3>2. q.wrote = req[r].wrote \/ (req[r].call.op = "update" => Update(r))
      BY <2>2 DEF Changes, Begins, Reads, WritesRow, FromCache, Moves, Kept
    <3> QED BY <3>1, <3>2
  <2> QED BY <2>1, <2>2, StepChanges
<1>4. CASE \A r \in Requests : req[r].call.op = "update" => req'[r].wrote = req[r].wrote
  <2>1. NoLostUpdate'
    BY <1>2, <1>4 DEF NoLostUpdate
  <2>2. UpdatesInv'
    <3> SUFFICES ASSUME NEW r \in Requests, req[r].call.op = "update", NEW new \in req[r].wrote
                 PROVE  /\ new.id < next_id' /\ new.version = req[r].call.version + 1
                        /\ \A row \in links' : row.id = new.id => new.version <= row.version
      BY <1>2, <1>4 DEF UpdatesInv
    <3>1. /\ new.id < next_id /\ new.version = req[r].call.version + 1
          /\ \A row \in links : row.id = new.id => new.version <= row.version
      BY DEF UpdatesInv
    <3>2. ASSUME NEW row \in links', row.id = new.id PROVE new.version <= row.version
      <4>1. row.version \in Nat
        BY TypeStep DEF TypeOK, Row
      <4>2. PICK before \in links : before.id = row.id /\ before.version <= row.version
        BY <1>1, <3>1, <3>2, RowsGrow
      <4> QED BY <1>1, <3>1, <3>2, <4>1, <4>2
    <3> QED BY <1>1, <3>1, <3>2, RowsGrow
  <2> QED BY <2>1, <2>2
<1>5. ASSUME NEW r \in Requests, Update(r), req[r].call.op = "update",
             \A s \in Requests \ {r} : req'[s] = req[s]
      PROVE  UpdatesInv' /\ NoLostUpdate'
  <2>1. CASE req'[r].wrote = req[r].wrote
    BY <1>4, <1>5, <2>1
  <2>2. ASSUME NEW row \in links, NEW new \in Row,
               /\ row.version = req[r].call.version
               /\ new.id = row.id /\ new.version = row.version + 1
               /\ req'[r].wrote = {new} /\ links' = (links \ {row}) \cup {new}
        PROVE  UpdatesInv' /\ NoLostUpdate'
    <3>1. next_id' = next_id
      BY <1>5 DEF Update
    <3>2. UpdatesInv'
      BY <1>1, <1>2, <1>5, <2>2, <3>1 DEF UpdatesInv, VersionsInv
    <3>3. \A s \in Requests \ {r} : req[s].call.op = "update" =>
            \A other \in req[s].wrote : other.id = new.id => other.version < new.version
      BY <1>1, <2>2 DEF UpdatesInv
    <3>4. NoLostUpdate'
      <4> SUFFICES ASSUME NEW r1 \in Requests, NEW r2 \in Requests, r1 # r2,
                          req[r1].call.op = "update", req[r2].call.op = "update",
                          req[r1].call.version = req[r2].call.version,
                          NEW row1 \in req'[r1].wrote, NEW row2 \in req'[r2].wrote,
                          row1.id = row2.id
                   PROVE  FALSE
        BY <1>2 DEF NoLostUpdate
      <4>1. row1.version = row2.version
        BY <1>2, <3>2 DEF UpdatesInv
      <4>2. CASE r1 # r /\ r2 # r
        BY <1>5, <4>2 DEF NoLostUpdate
      <4>3. CASE r1 = r
        BY <1>1, <1>5, <2>2, <3>3, <4>1, <4>3
      <4>4. CASE r2 = r
        BY <1>1, <1>5, <2>2, <3>3, <4>1, <4>4
      <4> QED BY <4>2, <4>3, <4>4
    <3> QED BY <3>2, <3>4
  <2> QED BY <1>5, <2>1, <2>2, UpdateEffect
<1> QED BY <1>3, <1>4, <1>5

-----------------------------------------------------------------------------
(* Reads.                                                                  *)

LEMMA NumberTypes ==
    ASSUME TypeOK
    PROVE  /\ now \in Nat /\ commits \in Nat
           /\ \A row \in links : row.id \in Nat /\ row.version \in Nat
           /\ \A old \in retired : /\ old.id \in Nat /\ old.version \in Nat
                                   /\ old.at \in Nat /\ old.seq \in Nat
           /\ \A r \in Requests : /\ req[r].began \in Nat /\ req[r].since \in Nat
                                 /\ req[r].ended \in Nat /\ req[r].until \in Nat
           /\ \A entry \in redis : entry.expiry \in Nat
BY RowTypes DEF TypeOK, Request

(* Time does not go back, and neither does the count of commits; what is   *)
(* added to the history is dated now, and is the latest.                   *)
LEMMA HistoryGrows ==
    ASSUME TypeOK, VersionsInv, CutoffInv, [Next]_vars
    PROVE  /\ now <= now' /\ commits <= commits'
           /\ \A old \in retired' : \/ old \in retired
                                    \/ old.at = now /\ old.seq = commits + 1 /\ now' = now
<1>1. now \in Nat /\ commits \in Nat
  BY NumberTypes
<1>2. ASSUME NEW rows \in SUBSET links, Retire(rows), now' = now
      PROVE  /\ now <= now' /\ commits <= commits'
             /\ \A old \in retired' : \/ old \in retired
                                      \/ old.at = now /\ old.seq = commits + 1 /\ now' = now
  BY <1>1, <1>2 DEF Retire
<1> QED BY <1>1, <1>2, HistoryStep

(* What has ended since the request began stays so.                        *)
LEMMA EndedFrame ==
    ASSUME TypeOK, VersionsInv, CutoffInv, [Next]_vars,
           NEW since \in Nat, since <= commits, NEW began \in Nat, began <= now, NEW row,
           \A old \in retired : IsVersion(old, row) => since < old.seq /\ began <= old.at
    PROVE  \A old \in retired' : IsVersion(old, row) => since < old.seq /\ began <= old.at
BY HistoryGrows, NumberTypes

(* No version of the history is current.                                   *)
LEMMA CurrentNotEnded ==
    ASSUME TypeOK, VersionsInv, NEW row \in links, NEW old \in retired
    PROVE  ~IsVersion(old, row)
BY NumberTypes DEF VersionsInv, IsVersion

(* What was read from the table was current after the request began.       *)
LEMMA ReadsStep ==
    ASSUME TypeOK, VersionsInv, CutoffInv, ReadsInv, [Next]_vars
    PROVE  ReadsInv'
<1> DEFINE P(q) == /\ q.since <= commits' /\ q.began <= now' /\ q.ended <= now'
                   /\ q.pc = "idle" => q.seen = {} /\ q.reply = "none"
                   /\ FromDatabase(q) => \A row \in q.seen : \A old \in retired' :
                        IsVersion(old, row) => q.since < old.seq /\ q.began <= old.at
<1>1. TypeOK' /\ VersionsInv'
  BY TypeStep, VersionsStep
<1>2. now <= now' /\ commits <= commits' /\ now \in Nat /\ commits \in Nat
      /\ now' \in Nat /\ commits' \in Nat
  BY <1>1, HistoryGrows, NumberTypes DEF TypeOK
<1>3. ASSUME NEW s \in Requests
      PROVE  /\ req[s].since \in Nat /\ req[s].began \in Nat /\ req[s].ended \in Nat
             /\ req[s].since <= commits /\ req[s].began <= now /\ req[s].ended <= now
             /\ req[s].pc = "idle" => req[s].seen = {} /\ req[s].reply = "none"
             /\ FromDatabase(req[s]) => \A row \in req[s].seen : \A old \in retired :
                  IsVersion(old, row) => req[s].since < old.seq /\ req[s].began <= old.at
  BY NumberTypes DEF ReadsInv, EndedSince
<1>4. ASSUME NEW s \in Requests, NEW row,
             \A old \in retired :
               IsVersion(old, row) => req[s].since < old.seq /\ req[s].began <= old.at
      PROVE  \A old \in retired' :
               IsVersion(old, row) => req[s].since < old.seq /\ req[s].began <= old.at
  BY <1>3, <1>4, EndedFrame
<1>5. ASSUME NEW s \in Requests PROVE P(req[s])
  BY <1>2, <1>3, <1>4
<1>6. ASSUME NEW r \in Requests, NEW q, Changes(r, q) PROVE P(q)
  <2>1. q.call = req[r].call /\ now' = now /\ q.ended \in {req[r].ended, now}
    BY <1>6 DEF Changes, Answer
  <2>2. CASE Begins(r, q)
    BY <1>2, <1>3, <2>1, <2>2 DEF Begins
  <2>3. CASE Reads(r, q)
    <3>1. \A row \in q.seen : \A old \in retired' : ~IsVersion(old, row)
      BY <2>3, CurrentNotEnded DEF Reads
    <3> QED BY <1>2, <1>3, <2>1, <2>3, <3>1 DEF Reads, Same
  <2>4. CASE WritesRow(r, q)
    <3>1. \A row \in links' : \A old \in retired' : ~IsVersion(old, row)
      <4>1. \A row \in links' : row.id \in Nat /\ row.version \in Nat
        BY <1>1 DEF TypeOK, Row
      <4>2. \A old \in retired' : old.id \in Nat /\ old.version \in Nat
        BY <1>1 DEF TypeOK
      <4> QED BY <1>1, <4>1, <4>2 DEF VersionsInv, IsVersion
    <3>2. FromDatabase(req[r])
      BY <2>4 DEF WritesRow, FromDatabase
    <3>3. q.since = req[r].since /\ q.began = req[r].began /\ q.seen \subseteq req[r].seen \cup links'
      BY <2>4 DEF WritesRow, Same
    <3>4. q.pc # "idle"
      BY <2>4 DEF WritesRow
    <3> QED BY <1>2, <1>3, <1>4, <2>1, <3>1, <3>2, <3>3, <3>4
  <2>5. CASE FromCache(r, q)
    BY <1>2, <1>3, <2>1, <2>5 DEF FromCache, FromDatabase, Same
  <2>6. CASE Moves(r, q)
    <3>1. FromDatabase(q) => FromDatabase(req[r])
      BY <2>1, <2>6 DEF Moves, FromDatabase
    <3> QED BY <1>2, <1>3, <1>4, <2>1, <2>6, <3>1 DEF Moves, Kept, Same
  <2> QED BY <1>6, <2>2, <2>3, <2>4, <2>5, <2>6 DEF Changes
<1>7. \A s \in Requests : P(req'[s])
  <2>1. CASE req' = req
    BY <1>5, <2>1
  <2>2. ASSUME NEW r \in Requests, NEW q, Changes(r, q)
        PROVE  \A s \in Requests : P(req'[s])
    <3>1. req'[r] = q /\ \A s \in Requests \ {r} : req'[s] = req[s]
      BY <2>2 DEF Changes, Set, TypeOK
    <3> HIDE DEF P
    <3> QED BY <1>5, <1>6, <2>2, <3>1
  <2> QED BY <2>1, <2>2, StepChanges
<1> QED BY <1>7 DEF ReadsInv, EndedSince, FromDatabase

-----------------------------------------------------------------------------
(* Staleness.                                                              *)

LEMMA Bounds ==
    /\ RequestTimeout \in Nat \ {0} /\ WireDelay \in Nat
    /\ MaxTtl \in Nat \ {0} /\ StalenessBound = RequestTimeout + WireDelay + MaxTtl
    /\ \A ttl \in JitteredTtl : ttl \in Nat \ {0} /\ ttl <= MaxTtl
BY TimesAssumption DEF MaxTtl, StalenessBound, JitteredTtl, Max2

(* TimeoutLayer and the delay on the wire bound every wait.                *)
LEMMA TimersStep ==
    ASSUME TypeOK, TimersInv, [Next]_vars
    PROVE  TimersInv'
<1> DEFINE T(q, t) == /\ q.pc # "idle" /\ q.reply = "none" /\ q.call.op \notin Grpc
                           => t <= q.began + RequestTimeout
                      /\ q.reply # "none" /\ q.pc = "cache_set"
                           => t <= q.until /\ q.until <= q.began + RequestTimeout + WireDelay
<1>1. \A s \in Requests : T(req[s], now)
  BY DEF TimersInv, Waiting, Answered, IsHttp
<1>2. CASE UNCHANGED <<req, now>>
  BY <1>2 DEF TimersInv, Waiting, Answered, IsHttp
<1>3. CASE Tick
  <2>1. /\ req' = req /\ now' = now + 1
        /\ \A s \in Requests : Waiting(s) /\ IsHttp(s) => now < req[s].began + RequestTimeout
        /\ \A s \in Requests : Answered(s) /\ req[s].pc = "cache_set" => now < req[s].until
    BY <1>3 DEF Tick, At
  <2>2. ASSUME NEW s \in Requests PROVE T(req[s], now + 1)
    <3>1. /\ now \in Nat /\ req[s].began \in Nat /\ req[s].until \in Nat
          /\ RequestTimeout \in Nat /\ WireDelay \in Nat
      BY NumberTypes, Bounds
    <3>2. ASSUME req[s].pc # "idle", req[s].reply = "none", req[s].call.op \notin Grpc
          PROVE  now + 1 <= req[s].began + RequestTimeout
      BY <2>1, <3>1, <3>2 DEF Waiting, Answered, IsHttp
    <3>3. ASSUME req[s].reply # "none", req[s].pc = "cache_set"
          PROVE  /\ now + 1 <= req[s].until
                 /\ req[s].until <= req[s].began + RequestTimeout + WireDelay
      BY <1>1, <2>1, <3>1, <3>3 DEF Answered
    <3> QED BY <3>2, <3>3
  <2> QED BY <2>1, <2>2 DEF TimersInv, Waiting, Answered, IsHttp
<1>4. ASSUME NEW r \in Requests, NEW q, Changes(r, q)
      PROVE  TimersInv'
  <2>1. /\ q.call = req[r].call /\ now' = now /\ Answer(r, q)
        /\ req'[r] = q /\ \A s \in Requests \ {r} : req'[s] = req[s]
    BY <1>4 DEF Changes, Set, TypeOK
  <2>2. /\ now \in Nat /\ req[r].began \in Nat /\ req[r].until \in Nat
        /\ RequestTimeout \in Nat /\ WireDelay \in Nat
    BY NumberTypes, Bounds
  <2>3. q.reply = "none" => req[r].reply = "none"
    BY <2>1 DEF Answer
  <2>4. T(q, now)
    <3>1. CASE Begins(r, q)
      BY <2>2, <3>1 DEF Begins
    <3>2. CASE Reads(r, q)
      BY <1>1, <2>1, <2>2, <2>3, <3>2 DEF Reads, Same
    <3>3. CASE WritesRow(r, q)
      BY <1>1, <2>1, <2>2, <2>3, <3>3 DEF WritesRow, Same
    <3>4. CASE FromCache(r, q)
      BY <1>1, <2>1, <2>2, <2>3, <3>4 DEF FromCache, Same
    <3>5. CASE Moves(r, q)
      <4>1. req[r].pc = "cache_set" => req[r].call.op \notin Grpc
        BY OpAt DEF Grpc
      <4> QED BY <1>1, <2>1, <2>2, <2>3, <3>5, <4>1 DEF Moves, Kept, Same, Waiting, Answered
    <3> QED BY <1>4, <3>1, <3>2, <3>3, <3>4, <3>5 DEF Changes
  <2>5. \A s \in Requests : T(req'[s], now')
    <3> HIDE DEF T
    <3> QED BY <1>1, <2>1, <2>4
  <2> QED BY <2>5 DEF TimersInv, Waiting, Answered, IsHttp
<1>5. CASE CleanerTick \/ CleanerPurge \/ CleanerError \/ UNCHANGED vars
  BY <1>2, <1>5 DEF CleanerTick, CleanerPurge, CleanerError, vars
<1> QED BY <1>3, <1>4, <1>5, ChangesStep DEF Next

(* A step adds to the cache only by the SETEX of a GET.                    *)
LEMMA CacheChanges ==
    ASSUME [Next]_vars
    PROVE  \/ redis' \subseteq redis /\ now' = now
           \/ Tick
           \/ \E r \in Requests : CacheSet(r)
<1>1. ASSUME NEW r \in Requests, Begin(r) \/ Statement(r) \/ Failure(r)
      PROVE  redis' \subseteq redis /\ now' = now
  BY <1>1 DEF Begin, Statement, ReadStats, Update, UpdateExists, ReadLink, CheckExpiry, RecordHit,
      Remove, Insert, InsertTaken, Failure, TimedOut, Disconnected, DbError, Lost, KeepOthers
<1>2. ASSUME NEW r \in Requests, Command(r), ~CacheSet(r)
      PROVE  redis' \subseteq redis /\ now' = now
  BY <1>2 DEF Command, CacheHit, CacheMiss, Invalidate, NoEffect, OtherEntries, CommandTimedOut,
      KeepOthers
<1>3. ASSUME CleanerTick \/ CleanerPurge \/ CleanerError \/ UNCHANGED vars
      PROVE  redis' \subseteq redis /\ now' = now
  BY <1>3 DEF CleanerTick, CleanerPurge, CleanerError, vars
<1> QED BY <1>1, <1>2, <1>3 DEF Next

(* A handler that is about to fill the cache, still waited for or not, has *)
(* begun no longer ago than this.                                          *)
LEMMA FillInTime ==
    ASSUME TypeOK, TimersInv, NEW r \in Requests, req[r].pc = "cache_set"
    PROVE  now <= req[r].began + RequestTimeout + WireDelay
<1>1. /\ now \in Nat /\ req[r].began \in Nat /\ req[r].until \in Nat
      /\ RequestTimeout \in Nat /\ WireDelay \in Nat
  BY NumberTypes, Bounds
<1>2. IsHttp(r)
  BY OpAt DEF IsHttp, Grpc
<1> QED BY <1>1, <1>2 DEF TimersInv, Waiting, Answered

(* An entry dies before what it shows is StalenessBound old.               *)
LEMMA CacheStep ==
    ASSUME TypeOK, VersionsInv, CutoffInv, ReadsInv, TimersInv, CacheInv, [Next]_vars
    PROVE  CacheInv'
<1> DEFINE E(entry) == /\ now' < entry.expiry /\ entry.expiry <= now' + MaxTtl
                       /\ \A old \in retired' : IsVersion(old, entry.link) =>
                            entry.expiry <= old.at + StalenessBound
<1>1. /\ now \in Nat /\ \A entry \in redis : entry.expiry \in Nat
      /\ \A old \in retired : old.at \in Nat
  BY NumberTypes
<1>2. ASSUME NEW entry \in redis, now' < entry.expiry, now' \in {now, now + 1} PROVE E(entry)
  <2>1. now < entry.expiry /\ entry.expiry <= now + MaxTtl
    BY DEF CacheInv
  <2>2. ASSUME NEW old \in retired', IsVersion(old, entry.link)
        PROVE  entry.expiry <= old.at + StalenessBound
    <3>1. CASE old \in retired
      BY <2>2, <3>1 DEF CacheInv
    <3>2. CASE old.at = now
      BY <1>1, <2>1, <3>2, Bounds
    <3> QED BY <2>2, <3>1, <3>2, HistoryGrows
  <2> QED BY <1>1, <1>2, <2>1, <2>2, Bounds
<1>3. CASE redis' \subseteq redis /\ now' = now
  BY <1>2, <1>3 DEF CacheInv
<1>4. CASE Tick
  BY <1>2, <1>4 DEF CacheInv, Tick
<1>5. ASSUME NEW r \in Requests, CacheSet(r) PROVE CacheInv'
  <2>1. now' = now /\ retired' = retired /\ req[r].pc = "cache_set"
    BY <1>5 DEF CacheSet, KeepTable, KeepOthers, At
  <2>2. ASSUME NEW ttl \in JitteredTtl, NEW row \in req[r].seen
        PROVE  E([code |-> req[r].code, link |-> row, expiry |-> now + ttl])
    <3>1. ttl \in Nat \ {0} /\ ttl <= MaxTtl
      BY Bounds
    <3>2. ASSUME NEW old \in retired, IsVersion(old, row)
          PROVE  now + ttl <= old.at + StalenessBound
      <4>1. req[r].began <= old.at /\ req[r].began \in Nat
        BY <2>1, <3>2, NumberTypes DEF ReadsInv, FromDatabase, EndedSince
      <4>2. now <= req[r].began + RequestTimeout + WireDelay
        BY <2>1, FillInTime
      <4> QED BY <1>1, <3>1, <4>1, <4>2, Bounds
    <3> QED BY <1>1, <2>1, <3>1, <3>2, Bounds
  <2>3. ASSUME NEW entry \in redis PROVE E(entry)
    BY <1>2, <2>1 DEF CacheInv
  <2>4. \A entry \in redis' : E(entry)
    <3>1. \A entry \in redis' :
            \/ entry \in redis
            \/ \E ttl \in JitteredTtl, row \in req[r].seen :
                 entry = [code |-> req[r].code, link |-> row, expiry |-> now + ttl]
      BY <1>5 DEF CacheSet, NoEffect, OtherEntries
    <3> HIDE DEF E
    <3> QED BY <2>2, <2>3, <3>1
  <2> QED BY <2>4 DEF CacheInv
<1> QED BY <1>3, <1>4, <1>5, CacheChanges

(* A GET answers from such an entry, or with what it read itself.          *)
LEMMA StalenessStep ==
    ASSUME TypeOK, VersionsInv, CutoffInv, ReadsInv, TimersInv, CacheInv, BoundedStaleness,
           [Next]_vars
    PROVE  BoundedStaleness'
<1> DEFINE B(q) == q.call.op = "get" /\ q.reply = "ok" =>
                     \A row \in q.seen : \A old \in retired' :
                       IsVersion(old, row) => q.ended < old.at + StalenessBound
<1>1. /\ now \in Nat /\ \A s \in Requests : req[s].ended \in Nat /\ req[s].ended <= now
      /\ \A old \in retired : old.at \in Nat
  BY NumberTypes DEF ReadsInv
<1>2. ASSUME NEW s \in Requests PROVE B(req[s])
  <2> SUFFICES ASSUME req[s].call.op = "get", req[s].reply = "ok", NEW row \in req[s].seen,
                      NEW old \in retired', IsVersion(old, row)
               PROVE  req[s].ended < old.at + StalenessBound
    OBVIOUS
  <2>1. CASE old \in retired
    BY <2>1 DEF BoundedStaleness
  <2>2. CASE old.at = now
    BY <1>1, <2>2, Bounds
  <2> QED BY <2>1, <2>2, HistoryGrows
<1>3. ASSUME NEW r \in Requests, NEW q, Changes(r, q) PROVE B(q)
  <2>1. q.call = req[r].call /\ Answer(r, q) /\ q.ended \in Nat /\ q.ended <= now
    BY <1>1, <1>3 DEF Changes, Answer
  <2>2. CASE Begins(r, q)
    BY <2>2 DEF Begins, ReadsInv
  <2>3. CASE Reads(r, q)
    BY <2>3, CurrentNotEnded DEF Reads
  <2>4. CASE WritesRow(r, q)
    BY <2>1, <2>4 DEF WritesRow
  <2>5. CASE FromCache(r, q)
    <3>1. PICK entry \in redis : q.seen = {entry.link}
      BY <2>5 DEF FromCache
    <3>2. /\ now < entry.expiry /\ entry.expiry \in Nat
          /\ \A old \in retired : IsVersion(old, entry.link) =>
               entry.expiry <= old.at + StalenessBound
      BY NumberTypes DEF CacheInv
    <3>3. retired' = retired
      BY <2>5 DEF FromCache
    <3> QED BY <1>1, <2>1, <3>1, <3>2, <3>3, Bounds
  <2>6. CASE Moves(r, q)
    <3>1. CASE q.reply = req[r].reply /\ q.ended = req[r].ended
      BY <1>2, <2>1, <2>6, <3>1 DEF Moves, Kept
    <3>2. ASSUME req[r].reply = "none", q.ended = now, q.call.op = "get", q.reply = "ok",
                 NEW row \in q.seen, NEW old \in retired', IsVersion(old, row)
          PROVE  q.ended < old.at + StalenessBound
      <4>1. row \in req[r].seen /\ req[r].pc = "cache_set"
        BY <2>1, <2>6, <3>2 DEF Moves, Kept
      <4>2. CASE old \in retired
        <5>1. req[r].began <= old.at /\ req[r].began \in Nat
          BY <3>2, <4>1, <4>2, NumberTypes DEF ReadsInv, FromDatabase, EndedSince
        <5>2. now <= req[r].began + RequestTimeout + WireDelay
          BY <4>1, FillInTime
        <5> QED BY <1>1, <3>2, <4>2, <5>1, <5>2, Bounds
      <4>3. CASE old.at = now
        BY <1>1, <3>2, <4>3, Bounds
      <4> QED BY <4>2, <4>3, HistoryGrows
    <3> QED BY <2>1, <3>1, <3>2 DEF Answer
  <2> QED BY <1>3, <2>2, <2>3, <2>4, <2>5, <2>6 DEF Changes
<1>4. \A s \in Requests : B(req'[s])
  <2>1. CASE req' = req
    BY <1>2, <2>1
  <2>2. ASSUME NEW r \in Requests, NEW q, Changes(r, q)
        PROVE  \A s \in Requests : B(req'[s])
    <3>1. req'[r] = q /\ \A s \in Requests \ {r} : req'[s] = req[s]
      BY <2>2 DEF Changes, Set, TypeOK
    <3> HIDE DEF B
    <3> QED BY <1>2, <1>3, <2>2, <3>1
  <2> QED BY <2>1, <2>2, StepChanges
<1> QED BY <1>4 DEF BoundedStaleness

-----------------------------------------------------------------------------
(* The theorems.                                                           *)

LEMMA InitIInv == Init => IInv
<1> SUFFICES ASSUME Init PROVE IInv
  OBVIOUS
<1>1. TypeOK
  BY InitType
<1>2. PICK calls \in [Requests -> Calls] : req = [r \in Requests |-> Fresh(calls[r])]
  BY DEF Init
<1>3. \A r \in Requests : /\ req[r].pc = "idle" /\ req[r].reply = "none"
                          /\ req[r].seen = {} /\ req[r].wrote = {}
                          /\ req[r].since = 0 /\ req[r].began = 0 /\ req[r].ended = 0
  BY <1>2 DEF Fresh
<1>4. now = 0 /\ commits = 0 /\ redis = {} /\ retired = {} /\ next_id = FirstId
      /\ cleaner.cutoff = 0 /\ links \in InitialTables
  BY DEF Init
<1>5. VersionsInv /\ CutoffInv
  BY <1>4, InitialTablesAssumption DEF VersionsInv, CutoffInv
<1>6. UpdatesInv /\ NoLostUpdate /\ ReadsInv
  BY <1>3, <1>4 DEF UpdatesInv, NoLostUpdate, ReadsInv
<1>7. TimersInv /\ CacheInv /\ BoundedStaleness
  BY <1>3, <1>4 DEF TimersInv, CacheInv, BoundedStaleness, Waiting, Answered
<1> QED BY <1>1, <1>5, <1>6, <1>7 DEF IInv

(* The parts of the invariant, each from the ones it needs.                *)
LEMMA IInvStep == IInv /\ [Next]_vars => IInv'
<1> SUFFICES ASSUME IInv, [Next]_vars PROVE IInv'
  OBVIOUS
<1> USE DEF IInv
<1>1. TypeOK' /\ VersionsInv' /\ CutoffInv'
  BY TypeStep, VersionsStep, CutoffStep
<1>2. UpdatesInv' /\ NoLostUpdate' /\ ReadsInv'
  BY UpdatesStep, ReadsStep
<1>3. TimersInv' /\ CacheInv' /\ BoundedStaleness'
  BY TimersStep, CacheStep, StalenessStep
<1> QED BY <1>1, <1>2, <1>3

(* The inductive invariant holds of every behaviour.                       *)
THEOREM Inductive == Spec => []IInv
<1> QED BY InitIInv, IInvStep, PTL DEF Spec

(* Optimistic locking: of the updates that present one version of a link,  *)
(* the UPDATE ... WHERE version = $3 of at most one takes effect, dropped, *)
(* failed and timed-out requests included.                                 *)
THEOREM UpdatesAreNotLost == Spec => []NoLostUpdate
<1>1. IInv => NoLostUpdate
  BY DEF IInv
<1> QED BY <1>1, Inductive, PTL

(* A GET answered through the cache is never staler than the request       *)
(* timeout, the delay of an abandoned SETEX and the longest jittered TTL   *)
(* together, whatever fails.                                               *)
THEOREM StalenessIsBounded == Spec => []BoundedStaleness
<1>1. IInv => BoundedStaleness
  BY DEF IInv
<1> QED BY <1>1, Inductive, PTL

(* What the handlers answer from the database was current at some moment   *)
(* of the request.                                                         *)
THEOREM DatabaseReadsAreCurrent == Spec => []ReadsAreCurrent
<1>1. ASSUME IInv PROVE ReadsAreCurrent
  <2> SUFFICES ASSUME NEW r \in Requests, req[r].call.op = "get" => ~CacheEnabled,
                      NEW row \in req[r].seen, NEW old \in retired, IsVersion(old, row)
               PROVE  old.seq > req[r].since
    BY DEF ReadsAreCurrent
  <2>1. old.seq \in Nat /\ req[r].since \in Nat
    BY <1>1, NumberTypes DEF IInv
  <2>2. req[r].since < old.seq
    BY <1>1 DEF IInv, ReadsInv, FromDatabase, EndedSince
  <2> QED BY <2>1, <2>2
<1> QED BY <1>1, Inductive, PTL
=============================================================================
