------------------------- MODULE LinkHandlers_proofs -------------------------
(***************************************************************************)
(* What the answers of the handlers promise: a redirect, a created link, a *)
(* 404, an acknowledged write and the counter of hits, for every set of    *)
(* requests, calls and codes and for every configuration.                  *)
(***************************************************************************)
EXTENDS LinkService_proofs, FiniteSetTheorems

-----------------------------------------------------------------------------
(* One step of a handler that was at p and is now at q.                    *)

(* It goes on to an .await, unless it was already answered.                *)
GoesOn(p, q, pc) == /\ q.reply = p.reply /\ q.ended = p.ended
                    /\ q.pc = IF p.reply = "none" THEN pc ELSE "done"

(* It returns.                                                             *)
Ends(p, q, status) ==
    /\ q.pc = "done"
    /\ \/ p.reply = "none" /\ q.reply = status /\ q.ended = now
       \/ p.reply # "none" /\ q.reply = p.reply /\ q.ended = p.ended

(* It is dropped, with what it has sent on its way.                        *)
Drops(p, q, status) ==
    /\ p.pc # "idle" /\ p.reply = "none" /\ q.reply = status /\ q.ended = now
    /\ q.pc = IF p.pc \in Writes THEN p.pc ELSE "done"

(* What it was asked, has read and has written is as before.               *)
SameRequest(p, q) == q.call = p.call /\ q.began = p.began /\ q.ids = p.ids
SameWork(p, q) == /\ SameRequest(p, q) /\ q.code = p.code
                  /\ q.seen = p.seen /\ q.wrote = p.wrote

Quiet == UNCHANGED <<links, next_id>>

Starts(p, q) ==
    /\ p.pc = "idle" /\ q.began = now /\ q.ids = next_id
    /\ q.call = p.call /\ q.code = p.code /\ q.seen = p.seen /\ q.wrote = p.wrote
    /\ \/ GoesOn(p, q, FirstAwait[p.call.op])
       \/ \E status \in {"invalid", "failed"} : Ends(p, q, status)
    /\ Quiet

Inserts(p, q) ==
    /\ p.pc = "insert" /\ GoesOn(p, q, "stats") /\ SameRequest(p, q) /\ q.seen = p.seen
    /\ \E row \in Row : /\ row.id = next_id /\ row.hits = 0 /\ Select(row.code) = {}
                        /\ links' = links \cup {row} /\ q.wrote = {row}
    /\ next_id' = next_id + 1

Replaces(p, old, new) ==
    /\ old \in Select(p.code) /\ new \in Row
    /\ new.id = old.id /\ new.code = old.code /\ new.expires_at = old.expires_at
    /\ links' = (links \ {old}) \cup {new} /\ next_id' = next_id

Updates(p, q) ==
    /\ p.pc = "update" /\ GoesOn(p, q, "invalidate") /\ SameRequest(p, q) /\ q.code = p.code
    /\ \E old, new : /\ Replaces(p, old, new) /\ new.hits = old.hits
                     /\ new.version = old.version + 1
                     /\ q.seen = {new} /\ q.wrote = {new}

Hits(p, q) ==
    /\ p.pc = "record_hit" /\ GoesOn(p, q, "invalidate") /\ SameRequest(p, q)
    /\ q.code = p.code /\ q.seen = p.seen
    /\ \E old, new : /\ Replaces(p, old, new) /\ new.hits = old.hits + 1
                     /\ new.version = old.version /\ q.wrote = {new}

Removes(p, q) ==
    /\ p.pc = "remove" /\ GoesOn(p, q, "invalidate") /\ SameRequest(p, q)
    /\ q.code = p.code /\ q.seen = p.seen
    /\ \E old \in Select(p.code) : links' = links \ {old} /\ q.wrote = {old}
    /\ next_id' = next_id

Looks(p, q) ==
    /\ SameRequest(p, q) /\ q.code = p.code /\ q.wrote = p.wrote
    /\ q.seen = Select(p.code)
    /\ \/ p.pc = "stats" /\ q.seen = {} /\ Ends(p, q, "not_found")
       \/ p.pc = "stats" /\ q.seen # {} /\ p.call.op = "get" /\ GoesOn(p, q, "cache_set")
       \/ p.pc = "stats" /\ q.seen # {} /\ p.call.op # "get" /\ Ends(p, q, Success[p.call.op])
       \/ p.pc = "get" /\ q.seen # {} /\ GoesOn(p, q, "check")
    /\ Quiet

(* It answers with an entry of the cache.                                  *)
Finds(p, q) ==
    /\ CacheEnabled /\ p.pc = "cache_get" /\ SameRequest(p, q) /\ q.wrote = p.wrote
    /\ Ends(p, q, "ok") /\ Quiet

(* Anything else reads and writes nothing.                                 *)
Passes(p, q) ==
    /\ SameWork(p, q) /\ Quiet
    /\ \/ p.pc = "insert" /\ GoesOn(p, q, "insert")
       \/ p.pc = "update" /\ GoesOn(p, q, "exists")
       \/ p.pc = "cache_get" /\ GoesOn(p, q, "stats")
       \/ /\ p.pc = "check" /\ GoesOn(p, q, "record_hit")
          /\ \A row \in p.seen : ~IsExpired(row, now)
       \/ /\ p.pc = "check" /\ Ends(p, q, "not_found")
          /\ \E row \in p.seen : IsExpired(row, now)
       \/ /\ p.pc \in {"exists", "get", "record_hit", "remove"} /\ Select(p.code) = {}
          /\ Ends(p, q, "not_found")
       \/ p.pc = "insert" /\ \E status \in {"failed", "taken"} : Ends(p, q, status)
       \/ p.pc = "exists" /\ Ends(p, q, "conflict")
       \/ /\ p.pc \in {"cache_set", "invalidate"}
          /\ Ends(p, q, Success[p.call.op]) \/ Drops(p, q, Success[p.call.op])
       \/ Drops(p, q, "failed")
       \/ /\ p.pc \in Writes /\ p.reply # "none"
          /\ q.pc = "done" /\ q.reply = p.reply /\ q.ended = p.ended

Turn(r, q) == /\ Set(r, q) /\ now' = now
              /\ \/ Starts(req[r], q) \/ Inserts(req[r], q) \/ Updates(req[r], q)
                 \/ Hits(req[r], q) \/ Removes(req[r], q) \/ Looks(req[r], q)
                 \/ Finds(req[r], q) \/ Passes(req[r], q)

(* What Return, Await, Abandon and TryInsert make of a handler.            *)
LEMMA ReturnEnds ==
    ASSUME NEW p \in Request, NEW status
    PROVE  SameWork(p, Return(p, status)) /\ Ends(p, Return(p, status), status)
BY DEF Return, Request, SameWork, SameRequest, Ends

LEMMA AwaitGoesOn ==
    ASSUME NEW p \in Request, NEW pc
    PROVE  SameWork(p, Await(p, pc)) /\ GoesOn(p, Await(p, pc), pc)
BY DEF Await, Request, SameWork, SameRequest, GoesOn

LEMMA AbandonDrops ==
    ASSUME NEW p \in Request, NEW status, p.pc # "idle", p.reply = "none"
    PROVE  SameWork(p, Abandon(p, status)) /\ Drops(p, Abandon(p, status), status)
<1> DEFINE pc == IF p.pc \in Writes THEN p.pc ELSE "done"
           until == IF p.pc = "cache_set" THEN now + WireDelay ELSE 0
           q == [p EXCEPT !.pc = pc, !.reply = status, !.ended = now, !.until = until]
<1>1. Abandon(p, status) = q
  BY DEF Abandon, Request
<1> HIDE DEF pc, until
<1>2. SameWork(p, q) /\ q.pc = pc /\ q.reply = status /\ q.ended = now
  BY DEF Request, SameWork, SameRequest
<1> HIDE DEF q
<1> QED BY <1>1, <1>2 DEF Drops, pc

LEMMA TryInsertTries ==
    ASSUME NEW p \in Request
    PROVE  LET q == TryInsert(p)
           IN SameWork(p, q) /\ (GoesOn(p, q, "insert") \/ Ends(p, q, "failed"))
BY ReturnEnds, AwaitGoesOn DEF TryInsert

(* Each action of a request is one of these.                               *)
LEMMA TurnStep ==
    ASSUME TypeOK, VersionsInv, NEW r \in Requests,
           Begin(r) \/ Statement(r) \/ Command(r) \/ Failure(r)
    PROVE  \E q : Turn(r, q)
<1> USE DEF KeepOthers, KeepTable, At, Waiting, Answered, Quiet
<1>1. req[r] \in Request /\ req[r].call.op \in Ops
  BY RequestTypes
<1>2. CASE Begin(r)
  <2> DEFINE c == req[r].call
             e == IF c.op = "create" /\ c.ttl # 0 THEN now + c.ttl ELSE 0
             q == [req[r] EXCEPT !.began = now, !.since = commits, !.ids = next_id, !.expires = e]
             q2 == IF ~c.valid THEN Return(q, "invalid")
                   ELSE IF FirstAwait[c.op] = "insert" THEN TryInsert(q)
                   ELSE Await(q, FirstAwait[c.op])
  <2>1. /\ q \in Request /\ q.began = now /\ q.ids = next_id /\ q.call = c
        /\ q.code = req[r].code /\ q.seen = req[r].seen /\ q.wrote = req[r].wrote
        /\ q.reply = req[r].reply /\ q.ended = req[r].ended
    <3>1. e \in Nat /\ now \in Nat /\ commits \in Nat /\ next_id \in Nat
      BY RequestTypes DEF TypeOK
    <3> HIDE DEF e
    <3> QED BY <1>1, <3>1 DEF Request
  <2>2. Set(r, q2) /\ req[r].pc = "idle" /\ now' = now /\ Quiet
    BY <1>2 DEF Begin
  <2> HIDE DEF q
  <2>3. /\ SameWork(q, q2)
        /\ \/ GoesOn(q, q2, FirstAwait[c.op])
           \/ \E status \in {"invalid", "failed"} : Ends(q, q2, status)
    BY <2>1, ReturnEnds, AwaitGoesOn, TryInsertTries
  <2> HIDE DEF q2, c
  <2>4. Starts(req[r], q2)
    BY <2>1, <2>2, <2>3 DEF Starts, SameWork, SameRequest, GoesOn, Ends, c
  <2> QED BY <2>2, <2>4 DEF Turn
<1>3. ASSUME NEW code \in Codes, Insert(r, code) PROVE \E q : Turn(r, q)
  <2> DEFINE row == [id |-> next_id, code |-> code, target |-> req[r].call.target,
                     version |-> 1, hits |-> 0, expires_at |-> req[r].expires]
             q == [req[r] EXCEPT !.code = code, !.wrote = {row}]
             p == Await(q, "stats")
  <2>1. /\ Set(r, p) /\ now' = now /\ req[r].pc = "insert" /\ Select(code) = {}
        /\ links' = links \cup {row} /\ next_id' = next_id + 1
    BY <1>3 DEF Insert
  <2>2. row \in Row /\ row.id = next_id /\ row.hits = 0 /\ row.code = code
    BY RequestTypes DEF Row, TypeOK
  <2> HIDE DEF row
  <2>3. {row} \in SUBSET Row
    BY <2>2
  <2>4. /\ q \in Request /\ SameRequest(req[r], q) /\ q.seen = req[r].seen /\ q.wrote = {row}
        /\ q.reply = req[r].reply /\ q.ended = req[r].ended
    BY <1>1, <2>3 DEF Request, SameRequest
  <2> HIDE DEF q
  <2>5. SameWork(q, p) /\ GoesOn(q, p, "stats")
    BY <2>4, AwaitGoesOn
  <2> HIDE DEF p
  <2>6. Inserts(req[r], p)
    BY <2>1, <2>2, <2>4, <2>5 DEF Inserts, SameWork, SameRequest, GoesOn
  <2> QED BY <2>1, <2>6 DEF Turn
<1>4. ASSUME NEW code \in Codes, InsertTaken(r, code) PROVE \E q : Turn(r, q)
  <2> DEFINE q == [req[r] EXCEPT !.attempts = @ + 1]
             p == IF req[r].call.op = "create" /\ req[r].call.code = NoCode
                  THEN TryInsert(q) ELSE Return(req[r], "taken")
  <2>1. Set(r, p) /\ now' = now /\ req[r].pc = "insert" /\ Quiet
    BY <1>4 DEF InsertTaken
  <2>2. /\ q \in Request /\ SameWork(req[r], q)
        /\ q.reply = req[r].reply /\ q.ended = req[r].ended
    BY <1>1 DEF Request, SameWork, SameRequest
  <2> HIDE DEF q
  <2>3. /\ SameWork(req[r], p)
        /\ \/ GoesOn(req[r], p, "insert")
           \/ \E status \in {"failed", "taken"} : Ends(req[r], p, status)
    BY <1>1, <2>2, ReturnEnds, TryInsertTries DEF SameWork, SameRequest, GoesOn, Ends
  <2> HIDE DEF p
  <2> QED BY <2>1, <2>3 DEF Turn, Passes
<1>5. CASE ReadStats(r)
  <2> DEFINE row == Select(req[r].code)
             q == [req[r] EXCEPT !.seen = row]
             p == IF row = {} THEN Return(q, "not_found")
                  ELSE IF q.call.op = "get" THEN Await(q, "cache_set")
                  ELSE Return(q, Success[q.call.op])
  <2>1. Set(r, p) /\ now' = now /\ req[r].pc = "stats" /\ Quiet
    BY <1>5 DEF ReadStats
  <2>2. row \in SUBSET Row
    BY RowTypes
  <2>3. q.seen = Select(req[r].code)
    BY <1>1, <2>2 DEF Request
  <2> HIDE DEF row
  <2>4. /\ q \in Request /\ SameRequest(req[r], q) /\ q.code = req[r].code /\ q.seen = row
        /\ q.wrote = req[r].wrote /\ q.reply = req[r].reply /\ q.ended = req[r].ended
    BY <1>1, <2>2 DEF Request, SameRequest
  <2> HIDE DEF q
  <2>5. /\ SameWork(q, p)
        /\ \/ row = {} /\ Ends(q, p, "not_found")
           \/ row # {} /\ q.call.op = "get" /\ GoesOn(q, p, "cache_set")
           \/ row # {} /\ q.call.op # "get" /\ Ends(q, p, Success[q.call.op])
    BY <2>4, ReturnEnds, AwaitGoesOn
  <2> HIDE DEF p
  <2>6. Looks(req[r], p)
    BY <2>1, <2>3, <2>4, <2>5 DEF Looks, SameWork, SameRequest, GoesOn, Ends
  <2> QED BY <2>1, <2>6 DEF Turn
<1>6. CASE ReadLink(r)
  <2> DEFINE row == Select(req[r].code)
             q == [req[r] EXCEPT !.seen = row]
             p == IF row = {} THEN Return(req[r], "not_found") ELSE Await(q, "check")
  <2>1. Set(r, p) /\ now' = now /\ req[r].pc = "get" /\ Quiet
    BY <1>6 DEF ReadLink
  <2>2. row \in SUBSET Row
    BY RowTypes
  <2>3. row = Select(req[r].code)
    OBVIOUS
  <2> HIDE DEF row
  <2>4. /\ q \in Request /\ SameRequest(req[r], q) /\ q.code = req[r].code /\ q.seen = row
        /\ q.wrote = req[r].wrote /\ q.reply = req[r].reply /\ q.ended = req[r].ended
    BY <1>1, <2>2 DEF Request, SameRequest
  <2> HIDE DEF q
  <2>5. \/ row = {} /\ SameWork(req[r], p) /\ Ends(req[r], p, "not_found")
        \/ row # {} /\ SameWork(q, p) /\ GoesOn(q, p, "check")
    BY <1>1, <2>4, ReturnEnds, AwaitGoesOn
  <2> HIDE DEF p
  <2>6. Passes(req[r], p) \/ Looks(req[r], p)
    BY <2>1, <2>3, <2>4, <2>5 DEF Passes, Looks, SameWork, SameRequest, GoesOn
  <2> QED BY <2>1, <2>6 DEF Turn
<1>7. CASE Update(r)
  <2> DEFINE old == {row \in Select(req[r].code) : row.version = req[r].call.version}
             t == req[r].call.target
             new == {[row EXCEPT !.target = t, !.version = @ + 1] : row \in old}
             q == [req[r] EXCEPT !.seen = new, !.wrote = new]
             p == IF old = {} THEN Await(req[r], "exists") ELSE Await(q, "invalidate")
  <2>1. /\ Set(r, p) /\ now' = now /\ req[r].pc = "update"
        /\ links' = (links \ old) \cup new /\ next_id' = next_id
    BY <1>7 DEF Update, Updated, Matching
  <2>2. new \in SUBSET Row
    BY RowTypes, RequestTypes
  <2>3. CASE old = {}
    <3>1. SameWork(req[r], p) /\ GoesOn(req[r], p, "exists") /\ Set(r, p)
      BY <1>1, <2>1, <2>3, AwaitGoesOn
    <3>2. Quiet
      BY <2>1, <2>3
    <3> HIDE DEF p
    <3> QED BY <2>1, <3>1, <3>2 DEF Turn, Passes
  <2>4. CASE old # {}
    <3>1. PICK row \in Select(req[r].code) : old = {row} /\ row \in links
      BY <2>4, SelectOne
    <3> DEFINE row2 == [row EXCEPT !.target = t, !.version = @ + 1]
    <3>2. new = {row2} /\ row \in Row
      BY <3>1, RowTypes
    <3>3. /\ row2 \in Row /\ row2.id = row.id /\ row2.code = row.code /\ row2.hits = row.hits
          /\ row2.expires_at = row.expires_at /\ row2.version = row.version + 1
      <4>1. row2 \in Row
        BY <2>2, <3>2
      <4> QED BY <3>2, <4>1 DEF Row
    <3>4. links' = (links \ {row}) \cup {row2}
      BY <2>1, <3>1, <3>2
    <3> HIDE DEF row2
    <3>5. Replaces(req[r], row, row2)
      BY <2>1, <3>1, <3>3, <3>4 DEF Replaces
    <3>6. p = Await(q, "invalidate")
      BY <2>4
    <3> HIDE DEF p, old, new
    <3>7. /\ q \in Request /\ SameRequest(req[r], q) /\ q.code = req[r].code
          /\ q.seen = new /\ q.wrote = new
          /\ q.reply = req[r].reply /\ q.ended = req[r].ended
      BY <1>1, <2>2 DEF Request, SameRequest
    <3> HIDE DEF q
    <3>8. SameWork(q, p) /\ GoesOn(q, p, "invalidate")
      BY <3>6, <3>7, AwaitGoesOn
    <3>9. Updates(req[r], p)
      BY <2>1, <3>2, <3>3, <3>5, <3>7, <3>8 DEF Updates, SameWork, SameRequest, GoesOn
    <3> QED BY <2>1, <3>9 DEF Turn
  <2> QED BY <2>3, <2>4
<1>8. CASE RecordHit(r)
  <2> DEFINE old == Select(req[r].code)
             new == {[row EXCEPT !.hits = @ + 1] : row \in old}
             q == [req[r] EXCEPT !.wrote = new]
             p == IF old = {} THEN Return(req[r], "not_found") ELSE Await(q, "invalidate")
  <2>1. /\ Set(r, p) /\ now' = now /\ req[r].pc = "record_hit"
        /\ links' = (links \ old) \cup new /\ next_id' = next_id
    BY <1>8 DEF RecordHit, Visited
  <2>2. new \in SUBSET Row
    BY RowTypes
  <2>3. CASE old = {}
    <3>1. SameWork(req[r], p) /\ Ends(req[r], p, "not_found") /\ Set(r, p)
      BY <1>1, <2>1, <2>3, ReturnEnds
    <3>2. Quiet /\ Select(req[r].code) = {}
      BY <2>1, <2>3
    <3> HIDE DEF p
    <3> QED BY <2>1, <3>1, <3>2 DEF Turn, Passes
  <2>4. CASE old # {}
    <3>1. PICK row \in Select(req[r].code) : old = {row} /\ row \in links
      BY <2>4, SelectOne
    <3> DEFINE row2 == [row EXCEPT !.hits = @ + 1]
    <3>2. new = {row2} /\ row \in Row
      BY <3>1, RowTypes
    <3>3. /\ row2 \in Row /\ row2.id = row.id /\ row2.code = row.code
          /\ row2.expires_at = row.expires_at /\ row2.version = row.version
          /\ row2.hits = row.hits + 1
      <4>1. row2 \in Row
        BY <2>2, <3>2
      <4> QED BY <3>2, <4>1 DEF Row
    <3>4. links' = (links \ {row}) \cup {row2}
      BY <2>1, <3>1, <3>2
    <3> HIDE DEF row2
    <3>5. Replaces(req[r], row, row2)
      BY <2>1, <3>1, <3>3, <3>4 DEF Replaces
    <3>6. p = Await(q, "invalidate")
      BY <2>4
    <3> HIDE DEF p, old, new
    <3>7. /\ q \in Request /\ SameRequest(req[r], q) /\ q.code = req[r].code
          /\ q.seen = req[r].seen /\ q.wrote = new
          /\ q.reply = req[r].reply /\ q.ended = req[r].ended
      BY <1>1, <2>2 DEF Request, SameRequest
    <3> HIDE DEF q
    <3>8. SameWork(q, p) /\ GoesOn(q, p, "invalidate")
      BY <3>6, <3>7, AwaitGoesOn
    <3>9. Hits(req[r], p)
      BY <2>1, <3>2, <3>3, <3>5, <3>7, <3>8 DEF Hits, SameWork, SameRequest, GoesOn
    <3> QED BY <2>1, <3>9 DEF Turn
  <2> QED BY <2>3, <2>4
<1>9. CASE Remove(r)
  <2> DEFINE old == Select(req[r].code)
             q == [req[r] EXCEPT !.wrote = old]
             p == IF old = {} THEN Return(req[r], "not_found") ELSE Await(q, "invalidate")
  <2>1. /\ Set(r, p) /\ now' = now /\ req[r].pc = "remove"
        /\ links' = links \ old /\ next_id' = next_id
    BY <1>9 DEF Remove
  <2>2. old \in SUBSET Row
    BY RowTypes
  <2>3. CASE old = {}
    <3>1. SameWork(req[r], p) /\ Ends(req[r], p, "not_found") /\ Set(r, p)
      BY <1>1, <2>1, <2>3, ReturnEnds
    <3>2. Quiet /\ Select(req[r].code) = {}
      BY <2>1, <2>3
    <3> HIDE DEF p
    <3> QED BY <2>1, <3>1, <3>2 DEF Turn, Passes
  <2>4. CASE old # {}
    <3>1. PICK row \in Select(req[r].code) : old = {row} /\ row \in links
      BY <2>4, SelectOne
    <3>2. p = Await(q, "invalidate") /\ links' = links \ {row}
      BY <2>1, <2>4, <3>1
    <3> HIDE DEF p, old
    <3>3. /\ q \in Request /\ SameRequest(req[r], q) /\ q.code = req[r].code
          /\ q.seen = req[r].seen /\ q.wrote = old
          /\ q.reply = req[r].reply /\ q.ended = req[r].ended
      BY <1>1, <2>2 DEF Request, SameRequest
    <3> HIDE DEF q
    <3>4. SameWork(q, p) /\ GoesOn(q, p, "invalidate")
      BY <3>2, <3>3, AwaitGoesOn
    <3>5. Removes(req[r], p)
      BY <2>1, <3>1, <3>2, <3>3, <3>4 DEF Removes, SameWork, SameRequest, GoesOn
    <3> QED BY <2>1, <3>5 DEF Turn
  <2> QED BY <2>3, <2>4
<1>10. CASE CacheHit(r)
  <2>1. PICK entry \in redis : Set(r, Return([req[r] EXCEPT !.seen = {entry.link}], "ok"))
    BY <1>10 DEF CacheHit
  <2> DEFINE q == [req[r] EXCEPT !.seen = {entry.link}]
             p == Return(q, "ok")
  <2>2. entry.link \in Row
    BY DEF TypeOK
  <2>3. /\ q \in Request /\ SameRequest(req[r], q) /\ q.wrote = req[r].wrote
        /\ q.reply = req[r].reply /\ q.ended = req[r].ended
    BY <1>1, <2>2 DEF Request, SameRequest
  <2>4. Set(r, p)
    BY <2>1
  <2> HIDE DEF q
  <2>5. SameWork(q, p) /\ Ends(q, p, "ok")
    BY <2>3, ReturnEnds
  <2> HIDE DEF p
  <2>6. CacheEnabled /\ req[r].pc = "cache_get" /\ now' = now /\ Quiet
    BY <1>10 DEF CacheHit
  <2>7. Finds(req[r], p)
    BY <2>3, <2>5, <2>6 DEF Finds, SameWork, SameRequest, Ends
  <2> QED BY <2>4, <2>6, <2>7 DEF Turn
<1>11. CASE CheckExpiry(r)
  <2>1. /\ now' = now /\ Quiet /\ req[r].pc = "check"
        /\ \/ /\ \E row \in req[r].seen : IsExpired(row, now)
              /\ Set(r, Return(req[r], "not_found"))
           \/ /\ \A row \in req[r].seen : ~IsExpired(row, now)
              /\ Set(r, Await(req[r], "record_hit"))
    BY <1>11 DEF CheckExpiry
  <2>2. CASE \E row \in req[r].seen : IsExpired(row, now)
    BY <1>1, <2>1, <2>2, ReturnEnds DEF Turn, Passes
  <2>3. CASE \A row \in req[r].seen : ~IsExpired(row, now)
    BY <1>1, <2>1, <2>3, AwaitGoesOn DEF Turn, Passes
  <2> QED BY <2>1, <2>2, <2>3
<1>12. CASE UpdateExists(r)
  <2>1. /\ now' = now /\ Quiet /\ req[r].pc = "exists"
        /\ \/ Select(req[r].code) = {} /\ Set(r, Return(req[r], "not_found"))
           \/ Set(r, Return(req[r], "conflict"))
    BY <1>12 DEF UpdateExists
  <2> QED BY <1>1, <2>1, ReturnEnds DEF Turn, Passes
<1>13. CASE CacheMiss(r)
  BY <1>1, <1>13, AwaitGoesOn DEF CacheMiss, Turn, Passes
<1>14. CASE CacheSet(r) \/ Invalidate(r)
  <2>1. /\ now' = now /\ Quiet /\ req[r].pc \in {"cache_set", "invalidate"}
        /\ Set(r, Return(req[r], Success[req[r].call.op]))
    <3>1. req[r].pc = "cache_set" => Success[req[r].call.op] = "ok"
      BY OpAt DEF Success, Ops
    <3> QED BY <1>14, <3>1 DEF CacheSet, Invalidate
  <2> QED BY <1>1, <2>1, ReturnEnds DEF Turn, Passes
<1>15. CASE CommandTimedOut(r) \/ TimedOut(r) \/ Disconnected(r) \/ DbError(r)
  <2>1. /\ now' = now /\ Quiet /\ req[r].pc # "idle" /\ req[r].reply = "none"
        /\ \/ Set(r, Abandon(req[r], "failed"))
           \/ /\ Set(r, Abandon(req[r], Success[req[r].call.op]))
              /\ req[r].pc \in {"cache_set", "invalidate"}
    BY <1>15 DEF CommandTimedOut, TimedOut, Disconnected, DbError
  <2> QED BY <1>1, <2>1, AbandonDrops DEF Turn, Passes
<1>16. CASE Lost(r)
  <2> DEFINE p == [req[r] EXCEPT !.pc = "done"]
  <2>1. SameWork(req[r], p) /\ p.pc = "done" /\ p.reply = req[r].reply /\ p.ended = req[r].ended
    BY <1>1 DEF Request, SameWork, SameRequest
  <2>2. Set(r, p) /\ now' = now /\ Quiet /\ req[r].pc \in Writes /\ req[r].reply # "none"
    BY <1>16 DEF Lost
  <2> HIDE DEF p
  <2> QED BY <2>1, <2>2 DEF Turn, Passes
<1> QED
  BY <1>2, <1>3, <1>4, <1>5, <1>6, <1>7, <1>8, <1>9, <1>10, <1>11, <1>12, <1>13, <1>14, <1>15,
     <1>16 DEF Statement, Command, Failure

(* A step is one of a request, or a purge, or leaves requests and table    *)
(* alone.                                                                  *)
LEMMA StepTurns ==
    ASSUME TypeOK, VersionsInv, CutoffInv, [Next]_vars
    PROVE  \/ \E r \in Requests : \E q : Turn(r, q)
           \/ /\ req' = req /\ next_id' = next_id /\ now' \in {now, now + 1}
              /\ \/ links' = links
                 \/ \E cutoff \in Nat : /\ cutoff <= now
                                        /\ links' = {row \in links : ~IsExpired(row, cutoff)}
<1> USE DEF KeepTable
<1>1. now \in Nat /\ cleaner.cutoff \in Nat /\ cleaner.cutoff <= now
  BY DEF TypeOK, CutoffInv
<1>2. CASE CleanerPurge
  BY <1>1, <1>2 DEF CleanerPurge
<1>3. CASE CleanerTick \/ CleanerError \/ Tick \/ UNCHANGED vars
  BY <1>1, <1>3 DEF CleanerTick, CleanerError, Tick, vars
<1> QED BY <1>2, <1>3, TurnStep DEF Next

(* Every request but the one whose turn it is stays as it was.             *)
LEMMA TurnOf ==
    ASSUME TypeOK, NEW r \in Requests, NEW q, Set(r, q)
    PROVE  req'[r] = q /\ \A s \in Requests : s # r => req'[s] = req[s]
BY DEF Set, TypeOK

-----------------------------------------------------------------------------
(* The handlers.                                                           *)

Creates == {"create", "grpc_create"}
Succeeded(q) == q.reply \in {"created", "ok", "redirect", "no_content"}
AliveAt(row, at) == row.expires_at = 0 \/ row.expires_at > at

(* A handler reads, then writes, then says so: it has written nothing up   *)
(* to its statement, only writes outlive the answer, success is answered   *)
(* after the write, and a redirect that got as far as the counter has      *)
(* found the link alive.                                                   *)
HandlerInv(q) ==
    /\ q.pc = "idle" => q.seen = {} /\ q.reply = "none"
    /\ q.reply # "none" => q.pc \in Writes \cup {"done"}
    /\ q.pc \in {"idle", "insert", "update", "exists", "get", "check", "record_hit", "remove"}
         => q.wrote = {}
    /\ q.pc = "invalidate" \/ (q.pc = "stats" /\ q.call.op \in Creates) => q.wrote # {}
    /\ Succeeded(q) => /\ q.reply = Success[q.call.op]
                       /\ q.pc \in {"cache_set", "invalidate", "done"}
                       /\ q.call.op \notin {"get", "grpc_get"} => q.wrote # {}
    /\ q.call.op = "redirect" /\ (q.pc \in {"record_hit", "invalidate"} \/ Succeeded(q))
         => \A row \in q.seen : AliveAt(row, q.began)

HandlersInv == \A r \in Requests : HandlerInv(req[r])

(* Each kind of turn keeps it.                                             *)
LEMMA HandlerTurn ==
    ASSUME TypeOK, ReadsInv, NEW r \in Requests, HandlerInv(req[r]), NEW q, Turn(r, q)
    PROVE  HandlerInv(q)
<1> DEFINE p == req[r]
<1>1. /\ p.call.op \in Ops /\ p.began \in Nat /\ now \in Nat /\ p.began <= now
      /\ \A row \in p.seen : row.expires_at \in Nat
  BY RequestTypes, NumberTypes, RowTypes DEF ReadsInv
<1>2. /\ FirstAwait[p.call.op] \in {"insert", "update", "get", "remove", "cache_get", "stats"}
      /\ FirstAwait[p.call.op] = "stats" => p.call.op = "grpc_get"
      /\ Success[p.call.op] \in {"created", "ok", "redirect", "no_content"}
  BY <1>1 DEF FirstAwait, Success, Ops
<1>3. /\ p.pc = "insert" => p.call.op \in Creates
      /\ p.pc = "stats" => p.call.op \in Creates \cup {"get", "grpc_get"}
      /\ p.pc \in {"update", "exists"} => p.call.op = "update"
      /\ p.pc \in {"cache_get", "cache_set"} => p.call.op = "get"
      /\ p.pc \in {"get", "check", "record_hit"} => p.call.op = "redirect"
      /\ p.pc = "remove" => p.call.op = "delete"
      /\ p.pc = "invalidate" => p.call.op \in {"update", "redirect", "delete"}
  BY OpAt DEF Creates
<1>4. HandlerInv(p)
  OBVIOUS
<1> HIDE DEF p
<1> USE DEF HandlerInv, Succeeded, SameWork, SameRequest, GoesOn, Ends, Drops, Writes
<1>5. CASE Starts(p, q)
  BY <1>1, <1>2, <1>4, <1>5 DEF Starts, Creates
<1>6. CASE Inserts(p, q)
  BY <1>3, <1>4, <1>6 DEF Inserts, Creates
<1>7. CASE Updates(p, q)
  BY <1>3, <1>4, <1>7 DEF Updates
<1>8. CASE Hits(p, q)
  BY <1>3, <1>4, <1>8 DEF Hits
<1>9. CASE Removes(p, q)
  BY <1>3, <1>4, <1>9 DEF Removes
<1>10. CASE Looks(p, q)
  BY <1>2, <1>3, <1>4, <1>10 DEF Looks, Creates
<1>11. CASE Finds(p, q)
  <2>1. Success[p.call.op] = "ok"
    BY <1>3, <1>11 DEF Finds, Success
  <2> QED BY <1>3, <1>4, <1>11, <2>1 DEF Finds, Creates
<1>12. CASE Passes(p, q)
  <2>1. ASSUME p.pc = "check", \A row \in p.seen : ~IsExpired(row, now)
        PROVE  \A row \in p.seen : AliveAt(row, p.began)
    BY <1>1, <2>1 DEF IsExpired, AliveAt
  <2> QED BY <1>2, <1>3, <1>4, <1>12, <2>1 DEF Passes, Creates
<1> QED BY <1>5, <1>6, <1>7, <1>8, <1>9, <1>10, <1>11, <1>12 DEF Turn, p

LEMMA HandlersStep ==
    ASSUME TypeOK, VersionsInv, CutoffInv, ReadsInv, HandlersInv, [Next]_vars
    PROVE  HandlersInv'
<1>1. ASSUME NEW r \in Requests, NEW q, Turn(r, q)
      PROVE  HandlersInv'
  <2>1. HandlerInv(q)
    BY <1>1, HandlerTurn DEF HandlersInv
  <2>2. req'[r] = q /\ \A s \in Requests : s # r => req'[s] = req[s]
    BY <1>1, TurnOf DEF Turn
  <2> SUFFICES ASSUME NEW s \in Requests PROVE HandlerInv(req'[s])
    BY DEF HandlersInv, HandlerInv, Succeeded
  <2> QED BY <2>1, <2>2 DEF HandlersInv
<1>2. ASSUME req' = req PROVE HandlersInv'
  BY <1>2 DEF HandlersInv, HandlerInv, Succeeded
<1> QED BY <1>1, <1>2, StepTurns

-----------------------------------------------------------------------------
(* What requests have written, against the table.                          *)

(* Ids are given once: a request knows no id that is still to come.        *)
WrittenInv ==
    \A r \in Requests : /\ req[r].ids <= next_id
                        /\ \A row \in req[r].wrote : row.id < next_id

(* A link that was created is there, or was removed, or has expired,       *)
(* whatever its request was answered.                                      *)
Remains(row) ==
    \/ \E live \in links : /\ live.id = row.id /\ live.code = row.code
                           /\ live.expires_at = row.expires_at
    \/ \E d \in Requests : /\ req[d].call.op = "delete"
                           /\ \E gone \in req[d].wrote : gone.id = row.id
    \/ row.expires_at # 0 /\ row.expires_at <= now

CreatesInv ==
    \A r \in Requests : req[r].call.op \in Creates => \A row \in req[r].wrote : Remains(row)

(* A row that was deleted does not come back.                              *)
DeletesInv ==
    \A d \in Requests : req[d].call.op = "delete" =>
      \A gone \in req[d].wrote, row \in links : row.id # gone.id

(* A redirect that has read a row knows the expiry of the link it was      *)
(* asked for: as long as that link is there, it expires when the row said. *)
CheckInv ==
    \A r \in Requests : req[r].pc = "check" =>
      \A row \in links, seen \in req[r].seen :
        row.code = req[r].code /\ row.id < req[r].ids => row.expires_at = seen.expires_at

(* The types that these speak of.                                          *)
LEMMA WorkTypes ==
    ASSUME TypeOK
    PROVE  /\ now \in Nat /\ next_id \in Nat
           /\ \A row \in links : row.id \in Nat /\ row.expires_at \in Nat /\ row.hits \in Nat
           /\ \A r \in Requests :
                /\ req[r].ids \in Nat
                /\ \A row \in req[r].wrote : row.id \in Nat /\ row.expires_at \in Nat
                /\ \A row \in req[r].seen : row.id \in Nat /\ row.expires_at \in Nat
BY RequestTypes, RowTypes DEF TypeOK, Request

(* Rows change, one at a time, under the same id, code and expiry; or one  *)
(* is added under a new id; or a request of delete_link takes one away.    *)
LEMMA WrittenStep ==
    ASSUME TypeOK, VersionsInv, CutoffInv, WrittenInv, [Next]_vars
    PROVE  WrittenInv'
<1>1. /\ next_id \in Nat /\ \A row \in links : row.id \in Nat /\ row.id < next_id
      /\ \A r \in Requests : /\ req[r].ids \in Nat
                            /\ \A row \in req[r].wrote : row.id \in Nat
  BY WorkTypes DEF VersionsInv
<1>2. ASSUME NEW r \in Requests, NEW q, Turn(r, q) PROVE WrittenInv'
  <2>1. req'[r] = q /\ \A s \in Requests : s # r => req'[s] = req[s]
    BY <1>2, TurnOf DEF Turn
  <2>2. /\ next_id' \in {next_id, next_id + 1}
        /\ q.ids <= next_id' /\ \A row \in q.wrote : row.id < next_id'
    <3>1. /\ req[r].ids <= next_id /\ req[r].ids \in Nat
          /\ \A row \in req[r].wrote : row.id < next_id /\ row.id \in Nat
      BY <1>1 DEF WrittenInv
    <3> USE DEF SameRequest, SameWork, Quiet
    <3>2. CASE Starts(req[r], q) \/ Looks(req[r], q) \/ Finds(req[r], q) \/ Passes(req[r], q)
      BY <1>1, <3>1, <3>2 DEF Starts, Looks, Finds, Passes
    <3>3. CASE Inserts(req[r], q)
      BY <1>1, <3>1, <3>3 DEF Inserts
    <3>4. CASE Updates(req[r], q) \/ Hits(req[r], q)
      BY <1>1, <3>1, <3>4 DEF Updates, Hits, Replaces, Select
    <3>5. CASE Removes(req[r], q)
      BY <1>1, <3>1, <3>5 DEF Removes, Select
    <3> QED BY <1>2, <3>2, <3>3, <3>4, <3>5 DEF Turn
  <2> SUFFICES ASSUME NEW s \in Requests
               PROVE  req'[s].ids <= next_id' /\ \A row \in req'[s].wrote : row.id < next_id'
    BY DEF WrittenInv
  <2> QED BY <1>1, <2>1, <2>2 DEF WrittenInv
<1>3. ASSUME req' = req, next_id' = next_id PROVE WrittenInv'
  BY <1>3 DEF WrittenInv
<1> QED BY <1>2, <1>3, StepTurns

(* Whatever a request does, a link that it did not remove itself remains.  *)
LEMMA RemainsTurn ==
    ASSUME TypeOK, VersionsInv, HandlersInv, NEW r \in Requests, NEW q, Turn(r, q),
           NEW row, Remains(row)
    PROVE  Remains(row)'
<1>1. req'[r] = q /\ now' = now /\ \A s \in Requests : s # r => req'[s] = req[s]
  BY TurnOf DEF Turn
<1>2. q.call = req[r].call /\ (q.wrote = req[r].wrote \/ req[r].wrote = {})
  BY DEF Turn, Starts, Inserts, Updates, Hits, Removes, Looks, Finds, Passes, SameRequest,
      SameWork, HandlersInv, HandlerInv
<1>3. CASE row.expires_at # 0 /\ row.expires_at <= now
  BY <1>1, <1>3 DEF Remains
<1>4. ASSUME NEW d \in Requests, req[d].call.op = "delete",
             NEW gone \in req[d].wrote, gone.id = row.id
      PROVE  Remains(row)'
  <2>1. req'[d].call.op = "delete" /\ gone \in req'[d].wrote
    BY <1>1, <1>2, <1>4
  <2> QED BY <1>4, <2>1 DEF Remains
<1>5. ASSUME NEW live \in links, live.id = row.id, live.code = row.code,
             live.expires_at = row.expires_at
      PROVE  Remains(row)'
  <2>1. CASE links \subseteq links'
    BY <1>5, <2>1 DEF Remains
  <2>2. ASSUME NEW old, NEW new, Replaces(req[r], old, new)
        PROVE  Remains(row)'
    BY <1>5, <2>2 DEF Remains, Replaces
  <2>3. CASE Removes(req[r], q)
    <3>1. PICK old \in Select(req[r].code) : links' = links \ {old} /\ q.wrote = {old}
      BY <2>3 DEF Removes
    <3>2. req'[r].call.op = "delete"
      BY <1>1, <1>2, <2>3, OpAt DEF Removes
    <3>3. CASE live = old
      BY <1>1, <1>5, <3>1, <3>2, <3>3 DEF Remains
    <3>4. CASE live # old
      BY <1>5, <3>1, <3>4 DEF Remains
    <3> QED BY <3>3, <3>4
  <2> QED BY <2>1, <2>2, <2>3 DEF Turn, Starts, Inserts, Updates, Hits, Looks, Finds, Passes, Quiet
<1> QED BY <1>3, <1>4, <1>5 DEF Remains

(* The cleaner takes away only what has expired.                           *)
LEMMA RemainsPurge ==
    ASSUME TypeOK, req' = req, now' \in {now, now + 1}, NEW cutoff \in Nat, cutoff <= now,
           links' = {live \in links : ~IsExpired(live, cutoff)} \/ links' = links,
           NEW row \in Row, Remains(row)
    PROVE  Remains(row)'
<1>1. row.expires_at \in Nat /\ now \in Nat
  BY RowTypes, WorkTypes
<1>2. CASE row.expires_at # 0 /\ row.expires_at <= now
  BY <1>1, <1>2 DEF Remains
<1>3. CASE \E d \in Requests : /\ req[d].call.op = "delete"
                               /\ \E gone \in req[d].wrote : gone.id = row.id
  BY <1>3 DEF Remains
<1>4. ASSUME NEW live \in links, live.id = row.id, live.code = row.code,
             live.expires_at = row.expires_at
      PROVE  Remains(row)'
  <2>1. CASE live \in links'
    BY <1>4, <2>1 DEF Remains
  <2>2. CASE IsExpired(live, cutoff)
    BY <1>1, <1>4, <2>2 DEF Remains, IsExpired
  <2> QED BY <1>4, <2>1, <2>2
<1> QED BY <1>2, <1>3, <1>4 DEF Remains

LEMMA CreatesStep ==
    ASSUME TypeOK, VersionsInv, CutoffInv, HandlersInv, CreatesInv, [Next]_vars
    PROVE  CreatesInv'
<1>1. ASSUME NEW r \in Requests, NEW q, Turn(r, q) PROVE CreatesInv'
  <2>1. req'[r] = q /\ \A s \in Requests : s # r => req'[s] = req[s]
    BY <1>1, TurnOf DEF Turn
  <2>2. q.call = req[r].call
    BY <1>1 DEF Turn, Starts, Inserts, Updates, Hits, Removes, Looks, Finds, Passes,
        SameRequest, SameWork
  <2> SUFFICES ASSUME NEW s \in Requests, req'[s].call.op \in Creates,
                      NEW row \in req'[s].wrote
               PROVE  Remains(row)'
    BY DEF CreatesInv, Remains, Creates
  <2>3. CASE row \in req[s].wrote
    <3>1. req[s].call.op \in Creates
      BY <2>1, <2>2
    <3> QED BY <1>1, <2>3, <3>1, RemainsTurn DEF CreatesInv
  <2>4. CASE row \notin req[s].wrote
    <3>1. s = r /\ row \in q.wrote /\ q.wrote # req[r].wrote
      BY <2>1, <2>4
    <3>2. req[r].pc \notin {"update", "record_hit", "remove"}
      BY <2>1, <2>2, <3>1, OpAt DEF Creates
    <3>3. Inserts(req[r], q)
      BY <1>1, <3>1, <3>2 DEF Turn, Starts, Updates, Hits, Removes, Looks, Finds, Passes, SameWork
    <3>4. row \in links'
      BY <3>1, <3>3 DEF Inserts
    <3> QED BY <3>4 DEF Remains
  <2> QED BY <2>3, <2>4
<1>2. ASSUME req' = req, now' \in {now, now + 1}, NEW cutoff \in Nat, cutoff <= now,
             links' = {live \in links : ~IsExpired(live, cutoff)} \/ links' = links
      PROVE  CreatesInv'
  <2> SUFFICES ASSUME NEW s \in Requests, req[s].call.op \in Creates, NEW row \in req[s].wrote
               PROVE  Remains(row)'
    BY <1>2 DEF CreatesInv, Remains, Creates
  <2>1. row \in Row /\ Remains(row)
    BY RequestTypes DEF CreatesInv
  <2> QED BY <1>2, <2>1, RemainsPurge
<1>3. 0 \in Nat /\ 0 <= now
  BY WorkTypes
<1> QED BY <1>1, <1>2, <1>3, StepTurns

(* A row that is there was there, by its id, code and expiry, unless it is *)
(* new.                                                                    *)
LEMMA RowsFrom ==
    ASSUME TypeOK, VersionsInv, CutoffInv, [Next]_vars
    PROVE  \A new \in links' :
             \/ new.id = next_id
             \/ \E row \in links : /\ row.id = new.id /\ row.code = new.code
                                   /\ row.expires_at = new.expires_at
<1> SUFFICES ASSUME NEW new \in links', new \notin links
             PROVE  \/ new.id = next_id
                    \/ \E row \in links : /\ row.id = new.id /\ row.code = new.code
                                          /\ row.expires_at = new.expires_at
  OBVIOUS
<1>1. PICK r \in Requests : \E q : Turn(r, q)
  BY StepTurns
<1>2. PICK q : Turn(r, q)
  BY <1>1
<1>3. CASE Inserts(req[r], q)
  BY <1>3 DEF Inserts
<1>4. CASE Updates(req[r], q) \/ Hits(req[r], q)
  <2>1. PICK old, row : Replaces(req[r], old, row)
    BY <1>4 DEF Updates, Hits
  <2> QED BY <2>1 DEF Replaces, Select
<1> QED
  BY <1>2, <1>3, <1>4 DEF Turn, Starts, Removes, Looks, Finds, Passes, Quiet

LEMMA DeletesStep ==
    ASSUME TypeOK, VersionsInv, CutoffInv, WrittenInv, DeletesInv, [Next]_vars
    PROVE  DeletesInv'
<1>1. \A d \in Requests : req[d].call.op = "delete" =>
        \A gone \in req[d].wrote, row \in links' : row.id # gone.id
  BY RowsFrom, WorkTypes DEF DeletesInv, WrittenInv
<1>2. ASSUME NEW r \in Requests, NEW q, Turn(r, q) PROVE DeletesInv'
  <2>1. req'[r] = q /\ \A s \in Requests : s # r => req'[s] = req[s]
    BY <1>2, TurnOf DEF Turn
  <2>2. q.call = req[r].call
    BY <1>2 DEF Turn, Starts, Inserts, Updates, Hits, Removes, Looks, Finds, Passes,
        SameRequest, SameWork
  <2> SUFFICES ASSUME NEW d \in Requests, req'[d].call.op = "delete",
                      NEW gone \in req'[d].wrote, NEW row \in links'
               PROVE  row.id # gone.id
    BY DEF DeletesInv
  <2>3. CASE gone \in req[d].wrote
    BY <1>1, <2>1, <2>2, <2>3
  <2>4. CASE gone \notin req[d].wrote
    <3>1. d = r /\ gone \in q.wrote /\ q.wrote # req[r].wrote
      BY <2>1, <2>4
    <3>2. req[r].pc \notin {"insert", "update", "record_hit"}
      BY <2>1, <2>2, <3>1, OpAt
    <3>3. Removes(req[r], q)
      BY <1>2, <3>1, <3>2 DEF Turn, Starts, Inserts, Updates, Hits, Looks, Finds, Passes, SameWork
    <3>4. gone \in links /\ row \in links /\ row # gone
      BY <3>1, <3>3 DEF Removes, Select
    <3> QED BY <3>4 DEF VersionsInv
  <2> QED BY <2>3, <2>4
<1>3. ASSUME req' = req PROVE DeletesInv'
  BY <1>1, <1>3 DEF DeletesInv
<1> QED BY <1>2, <1>3, StepTurns

LEMMA CheckStep ==
    ASSUME TypeOK, VersionsInv, CutoffInv, WrittenInv, CheckInv, [Next]_vars
    PROVE  CheckInv'
<1>1. ASSUME NEW s \in Requests, req[s].pc = "check",
             NEW row \in links', NEW seen \in req[s].seen,
             row.code = req[s].code, row.id < req[s].ids
      PROVE  row.expires_at = seen.expires_at
  <2>1. req[s].ids <= next_id /\ req[s].ids \in Nat /\ next_id \in Nat
    BY WorkTypes DEF WrittenInv
  <2>2. row.id # next_id
    BY <1>1, <2>1
  <2>3. PICK old \in links : /\ old.id = row.id /\ old.code = row.code
                             /\ old.expires_at = row.expires_at
    BY <2>2, RowsFrom
  <2> QED BY <1>1, <2>3 DEF CheckInv
<1>2. ASSUME NEW r \in Requests, NEW q, Turn(r, q) PROVE CheckInv'
  <2>1. req'[r] = q /\ \A s \in Requests : s # r => req'[s] = req[s]
    BY <1>2, TurnOf DEF Turn
  <2> SUFFICES ASSUME NEW s \in Requests, req'[s].pc = "check",
                      NEW row \in links', NEW seen \in req'[s].seen,
                      row.code = req'[s].code, row.id < req'[s].ids
               PROVE  row.expires_at = seen.expires_at
    BY DEF CheckInv
  <2>2. CASE s # r
    BY <1>1, <2>1, <2>2
  <2>3. CASE s = r
    <3>1. q.pc = "check"
      BY <2>1, <2>3
    <3>2. FirstAwait[req[r].call.op] # "check"
      BY RequestTypes DEF FirstAwait, Ops
    <3>3. Looks(req[r], q)
      BY <1>2, <3>1, <3>2 DEF Turn, Starts, Inserts, Updates, Hits, Removes, Finds, Passes,
          GoesOn, Ends, Drops, Writes
    <3>4. row \in Select(req[r].code) /\ seen \in Select(req[r].code)
      BY <2>1, <2>3, <3>3 DEF Looks, Quiet, Select
    <3> QED BY <3>4, SelectOne
  <2> QED BY <2>2, <2>3
<1>3. ASSUME req' = req PROVE CheckInv'
  BY <1>1, <1>3 DEF CheckInv
<1> QED BY <1>2, <1>3, StepTurns

-----------------------------------------------------------------------------
(* What a GET without a cache sees of acknowledged writes.                 *)

Acknowledged(w) == /\ req[w].call.op \in {"update", "delete"}
                   /\ req[w].reply \in {"ok", "no_content"}

Shows(row, w) == \A new \in req[w].wrote :
    row.id = new.id => req[w].call.op = "update" /\ row.version >= new.version

SeenInv ==
    ~CacheEnabled =>
      \A r, w \in Requests :
        req[r].call.op = "get" /\ Acknowledged(w) /\ req[w].ended < req[r].began
          => \A row \in req[r].seen : Shows(row, w)

(* The table shows every write that has taken effect.                      *)
LEMMA TableShows ==
    ASSUME UpdatesInv, DeletesInv, NEW w \in Requests, req[w].call.op \in {"update", "delete"},
           NEW row \in links
    PROVE  Shows(row, w)
BY DEF UpdatesInv, DeletesInv, Shows

(* An acknowledged request writes no more, and an answer is dated when it  *)
(* is given.                                                               *)
LEMMA AnswerTurn ==
    ASSUME TypeOK, HandlersInv, NEW w \in Requests, NEW q, Turn(w, q),
           q.reply \in {"ok", "no_content"}, q.call.op \in {"update", "delete"}
    PROVE  /\ q.call = req[w].call /\ q.wrote = req[w].wrote /\ q.began = req[w].began
           /\ \/ q.reply = req[w].reply /\ q.ended = req[w].ended
              \/ q.ended = now
<1>1. HandlerInv(req[w])
  BY DEF HandlersInv
<1> USE DEF GoesOn, Ends, Drops, SameWork, SameRequest, HandlerInv, Succeeded
<1>2. CASE Starts(req[w], q)
  BY <1>1, <1>2 DEF Starts
<1>3. CASE Inserts(req[w], q) \/ Updates(req[w], q) \/ Hits(req[w], q) \/ Removes(req[w], q)
  BY <1>1, <1>3 DEF Inserts, Updates, Hits, Removes
<1>4. CASE Looks(req[w], q) \/ Finds(req[w], q) \/ Passes(req[w], q)
  BY <1>1, <1>4 DEF Looks, Finds, Passes
<1> QED BY <1>2, <1>3, <1>4 DEF Turn

(* What a GET shows is what it had, or a row of the table.                 *)
LEMMA ReaderTurn ==
    ASSUME TypeOK, HandlersInv, ~CacheEnabled, NEW r \in Requests, NEW q, Turn(r, q),
           q.call.op = "get"
    PROVE  /\ q.call = req[r].call
           /\ \/ q.seen = req[r].seen /\ q.began = req[r].began
              \/ q.seen \subseteq links
<1>1. HandlerInv(req[r])
  BY DEF HandlersInv
<1> USE DEF SameWork, SameRequest
<1>2. CASE Starts(req[r], q)
  BY <1>1, <1>2 DEF Starts, HandlerInv
<1>3. CASE Inserts(req[r], q) \/ Updates(req[r], q) \/ Hits(req[r], q) \/ Removes(req[r], q)
  BY <1>3, OpAt DEF Inserts, Updates, Hits, Removes
<1>4. CASE Looks(req[r], q) \/ Finds(req[r], q) \/ Passes(req[r], q)
  BY <1>4 DEF Looks, Finds, Passes, Select
<1> QED BY <1>2, <1>3, <1>4 DEF Turn

LEMMA SeenStep ==
    ASSUME TypeOK, VersionsInv, CutoffInv, UpdatesInv, ReadsInv, HandlersInv, DeletesInv, SeenInv,
           [Next]_vars
    PROVE  SeenInv'
<1> SUFFICES ASSUME ~CacheEnabled PROVE SeenInv'
  BY DEF SeenInv
<1>1. ASSUME NEW r \in Requests, NEW q, Turn(r, q) PROVE SeenInv'
  <2>1. req'[r] = q /\ \A s \in Requests : s # r => req'[s] = req[s]
    BY <1>1, TurnOf DEF Turn
  <2> SUFFICES ASSUME NEW s \in Requests, NEW w \in Requests, req'[s].call.op = "get",
                      req'[w].call.op \in {"update", "delete"},
                      req'[w].reply \in {"ok", "no_content"}, req'[w].ended < req'[s].began,
                      NEW row \in req'[s].seen, NEW new \in req'[w].wrote, row.id = new.id
               PROVE  req'[w].call.op = "update" /\ row.version >= new.version
    BY DEF SeenInv, Acknowledged, Shows
  <2>2. s # w
    OBVIOUS
  <2>3. CASE r \notin {s, w}
    BY <2>1, <2>3 DEF SeenInv, Acknowledged, Shows
  <2>4. CASE r = w
    <3>1. /\ q.call = req[w].call /\ q.wrote = req[w].wrote
          /\ \/ q.reply = req[w].reply /\ q.ended = req[w].ended
             \/ q.ended = now
      BY <1>1, <2>1, <2>4, AnswerTurn
    <3>2. req'[s] = req[s] /\ req[s].began <= now /\ now \in Nat /\ req[s].began \in Nat
      BY <2>1, <2>2, <2>4, NumberTypes DEF ReadsInv
    <3>3. q.reply = req[w].reply /\ q.ended = req[w].ended
      BY <2>1, <2>4, <3>1, <3>2
    <3> QED BY <2>1, <2>4, <3>1, <3>2, <3>3 DEF SeenInv, Acknowledged, Shows
  <2>5. CASE r = s
    <3>1. req'[w] = req[w]
      BY <2>1, <2>2, <2>5
    <3>2. /\ q.call = req[s].call
          /\ \/ q.seen = req[s].seen /\ q.began = req[s].began
             \/ q.seen \subseteq links
      BY <1>1, <2>1, <2>5, ReaderTurn
    <3>3. CASE q.seen \subseteq links
      <4>1. Shows(row, w)
        BY <2>1, <2>5, <3>1, <3>3, TableShows
      <4> QED BY <3>1, <4>1 DEF Shows
    <3>4. CASE q.seen = req[s].seen /\ q.began = req[s].began
      BY <2>1, <2>5, <3>1, <3>2, <3>4 DEF SeenInv, Acknowledged, Shows
    <3> QED BY <3>2, <3>3, <3>4
  <2> QED BY <2>3, <2>4, <2>5
<1>2. ASSUME req' = req PROVE SeenInv'
  BY <1>2 DEF SeenInv, Acknowledged, Shows
<1> QED BY <1>1, <1>2, StepTurns

-----------------------------------------------------------------------------
(* The counter of hits.                                                    *)

(* The redirects that were counted on a link.  There may be any number of  *)
(* requests, but only so many have been counted.                           *)
HitsOn(id) == {r \in Requests : /\ req[r].call.op = "redirect"
                                /\ \E hit \in req[r].wrote : hit.id = id}

HitsInv == \A row \in links : /\ IsFiniteSet(HitsOn(row.id))
                              /\ row.hits = Cardinality(HitsOn(row.id))

(* Only record_hit adds to them, and each request once.                    *)
LEMMA HitsOnTurn ==
    ASSUME TypeOK, HandlersInv, NEW r \in Requests, NEW q, Turn(r, q), ~Hits(req[r], q), NEW id
    PROVE  HitsOn(id)' = HitsOn(id)
<1>1. req'[r] = q /\ \A s \in Requests : s # r => req'[s] = req[s]
  BY TurnOf DEF Turn
<1>2. q.call = req[r].call
  BY DEF Turn, Starts, Inserts, Updates, Hits, Removes, Looks, Finds, Passes, SameRequest, SameWork
<1>3. req[r].call.op = "redirect" => q.wrote = req[r].wrote
  <2>1. req[r].call.op = "redirect" => req[r].pc \notin {"insert", "update", "remove"}
    BY OpAt
  <2> QED BY <2>1 DEF Turn, Starts, Inserts, Updates, Removes, Looks, Finds, Passes, SameWork
<1>4. \A s \in Requests : s \in HitsOn(id)' <=> s \in HitsOn(id)
  BY <1>1, <1>2, <1>3 DEF HitsOn
<1> QED BY <1>4 DEF HitsOn

LEMMA HitsOnHit ==
    ASSUME TypeOK, HandlersInv, NEW r \in Requests, NEW q, Set(r, q), Hits(req[r], q),
           NEW new, q.wrote = {new}
    PROVE  /\ r \notin HitsOn(new.id) /\ HitsOn(new.id)' = HitsOn(new.id) \cup {r}
           /\ \A id : id # new.id => HitsOn(id)' = HitsOn(id)
<1>1. req'[r] = q /\ \A s \in Requests : s # r => req'[s] = req[s]
  BY TurnOf
<1>2. q.call = req[r].call /\ req[r].call.op = "redirect" /\ req[r].wrote = {}
  BY OpAt DEF Hits, SameRequest, HandlersInv, HandlerInv
<1>3. \A s \in Requests : s \in HitsOn(new.id)' <=> s \in HitsOn(new.id) \/ s = r
  BY <1>1, <1>2 DEF HitsOn
<1>4. HitsOn(new.id)' \subseteq Requests /\ HitsOn(new.id) \subseteq Requests
  BY DEF HitsOn
<1>5. ASSUME NEW id, id # new.id PROVE HitsOn(id)' = HitsOn(id)
  <2>1. \A s \in Requests : s \in HitsOn(id)' <=> s \in HitsOn(id)
    BY <1>1, <1>2, <1>5 DEF HitsOn
  <2> QED BY <2>1 DEF HitsOn
<1>6. r \notin HitsOn(new.id)
  BY <1>2 DEF HitsOn
<1>7. HitsOn(new.id)' = HitsOn(new.id) \cup {r}
  BY <1>3, <1>4
<1> QED BY <1>5, <1>6, <1>7

(* No request has been counted on a link that is still to come.            *)
LEMMA NoHitsYet ==
    ASSUME TypeOK, WrittenInv
    PROVE  HitsOn(next_id) = {}
BY WorkTypes DEF HitsOn, WrittenInv

LEMMA HitsStep ==
    ASSUME TypeOK, VersionsInv, CutoffInv, HandlersInv, WrittenInv, HitsInv, [Next]_vars
    PROVE  HitsInv'
<1> DEFINE Right(row) == IsFiniteSet(HitsOn(row.id)) /\ row.hits = Cardinality(HitsOn(row.id))
<1> SUFFICES ASSUME NEW row \in links'
             PROVE  /\ IsFiniteSet(HitsOn(row.id)') /\ row.hits = Cardinality(HitsOn(row.id)')
  BY DEF HitsInv
<1>1. ASSUME NEW r \in Requests, NEW q, Turn(r, q)
      PROVE  Right(row)'
  <2>1. CASE ~Hits(req[r], q)
    <3>1. HitsOn(row.id)' = HitsOn(row.id)
      BY <1>1, <2>1, HitsOnTurn
    <3>2. CASE row \in links
      BY <3>1, <3>2 DEF HitsInv
    <3>3. CASE Inserts(req[r], q) /\ row \notin links
      <4>1. row.id = next_id /\ row.hits = 0
        BY <3>3 DEF Inserts
      <4> QED BY <3>1, <4>1, NoHitsYet, FS_EmptySet
    <3>4. CASE Updates(req[r], q) /\ row \notin links
      <4>1. PICK old \in links : row.id = old.id /\ row.hits = old.hits
        BY <3>4 DEF Updates, Replaces, Select
      <4> QED BY <3>1, <4>1 DEF HitsInv
    <3> QED BY <1>1, <2>1, <3>2, <3>3, <3>4 DEF Turn, Starts, Removes, Looks, Finds, Passes, Quiet
  <2>2. CASE Hits(req[r], q)
    <3>1. PICK old, new : /\ Replaces(req[r], old, new) /\ new.hits = old.hits + 1
                          /\ q.wrote = {new}
      BY <2>2 DEF Hits
    <3>2. /\ r \notin HitsOn(new.id) /\ HitsOn(new.id)' = HitsOn(new.id) \cup {r}
          /\ \A id : id # new.id => HitsOn(id)' = HitsOn(id)
      BY <1>1, <2>2, <3>1, HitsOnHit DEF Turn
    <3>3. old \in links /\ old.id = new.id /\ (row = new \/ (row \in links /\ row # old))
      BY <3>1 DEF Replaces, Select
    <3>4. CASE row = new
      <4>1. IsFiniteSet(HitsOn(new.id)) /\ old.hits = Cardinality(HitsOn(new.id))
        BY <3>3 DEF HitsInv
      <4>2. /\ IsFiniteSet(HitsOn(new.id) \cup {r})
            /\ Cardinality(HitsOn(new.id) \cup {r}) = Cardinality(HitsOn(new.id)) + 1
        BY <3>2, <4>1, FS_AddElement
      <4> QED BY <3>1, <3>2, <3>4, <4>1, <4>2
    <3>5. CASE row \in links /\ row # old
      <4>1. row.id # new.id
        BY <3>3, <3>5 DEF VersionsInv
      <4> QED BY <3>2, <3>5, <4>1 DEF HitsInv
    <3> QED BY <3>3, <3>4, <3>5
  <2> QED BY <2>1, <2>2
<1>2. ASSUME req' = req, row \in links PROVE Right(row)'
  BY <1>2 DEF HitsInv, HitsOn
<1> QED BY <1>1, <1>2, StepTurns

-----------------------------------------------------------------------------
(* A 404.                                                                  *)

(* Whoever is answered not_found has just looked in vain, or has read a    *)
(* row that has expired since.                                             *)
LEMMA NotFoundTurn ==
    ASSUME TypeOK, NEW r \in Requests, NEW q, Turn(r, q),
           req[r].reply = "none", q.reply = "not_found"
    PROVE  \/ Select(req[r].code) = {}
           \/ req[r].pc = "check" /\ \E row \in req[r].seen : IsExpired(row, now)
<1>1. Success[req[r].call.op] # "not_found"
  BY RequestTypes DEF Success, Ops
<1> QED BY <1>1 DEF Turn, Starts, Inserts, Updates, Hits, Removes, Looks, Finds, Passes,
            GoesOn, Ends, Drops

LEMMA NotFoundIsTrueStep ==
    ASSUME TypeOK, VersionsInv, CutoffInv, CheckInv, [Next]_vars
    PROVE  NotFoundStep
<1> SUFFICES ASSUME NEW s \in Requests, req[s].reply = "none", req'[s].reply = "not_found",
                    NEW row \in links, row.code = req[s].code, row.id < req[s].ids
             PROVE  row.expires_at # 0 /\ row.expires_at <= now
  BY DEF NotFoundStep
<1>1. PICK r \in Requests : \E q : Turn(r, q)
  BY StepTurns
<1>2. PICK q : Turn(r, q)
  BY <1>1
<1>3. s = r /\ q = req'[s]
  BY <1>2, TurnOf DEF Turn
<1>4. row \in Select(req[s].code)
  BY DEF Select
<1>5. req[s].pc = "check" /\ \E seen \in req[s].seen : IsExpired(seen, now)
  BY <1>2, <1>3, <1>4, NotFoundTurn
<1> QED BY <1>5 DEF CheckInv, IsExpired

-----------------------------------------------------------------------------
(* All of it together.                                                     *)

AnswersInv == IInv /\ HandlersInv /\ WrittenInv /\ CreatesInv /\ DeletesInv /\ CheckInv
              /\ SeenInv /\ HitsInv

LEMMA InitAnswersInv == Init => AnswersInv
<1> SUFFICES ASSUME Init PROVE AnswersInv
  OBVIOUS
<1>1. IInv
  BY InitIInv
<1>2. \A r \in Requests : /\ req[r].pc = "idle" /\ req[r].reply = "none" /\ req[r].ids = 0
                          /\ req[r].seen = {} /\ req[r].wrote = {}
  BY DEF Init, Fresh
<1>3. next_id \in Nat /\ \A row \in links : row.hits = 0
  BY InitialTablesAssumption DEF Init
<1>4. HandlersInv
  BY <1>2 DEF HandlersInv, HandlerInv, Succeeded
<1>5. WrittenInv /\ CreatesInv /\ DeletesInv /\ CheckInv /\ SeenInv
  BY <1>2, <1>3 DEF WrittenInv, CreatesInv, DeletesInv, CheckInv, SeenInv
<1>6. \A id : HitsOn(id) = {}
  BY <1>2 DEF HitsOn
<1>7. HitsInv
  BY <1>3, <1>6, FS_EmptySet DEF HitsInv
<1> QED BY <1>1, <1>4, <1>5, <1>7 DEF AnswersInv

LEMMA AnswersInvStep == AnswersInv /\ [Next]_vars => AnswersInv'
<1> SUFFICES ASSUME AnswersInv, [Next]_vars PROVE AnswersInv'
  OBVIOUS
<1>1. /\ TypeOK /\ VersionsInv /\ CutoffInv /\ UpdatesInv /\ ReadsInv
      /\ HandlersInv /\ WrittenInv /\ CreatesInv /\ DeletesInv /\ CheckInv /\ SeenInv /\ HitsInv
  BY DEF AnswersInv, IInv
<1>2. IInv'
  BY IInvStep DEF AnswersInv
<1>3. HandlersInv' /\ WrittenInv' /\ CreatesInv' /\ DeletesInv'
  BY <1>1, HandlersStep, WrittenStep, CreatesStep, DeletesStep
<1>4. CheckInv' /\ SeenInv' /\ HitsInv'
  BY <1>1, CheckStep, SeenStep, HitsStep
<1> QED BY <1>2, <1>3, <1>4 DEF AnswersInv

(* The inductive invariant behind the answers holds of every behaviour.    *)
THEOREM AnswersInductive == Spec => []AnswersInv
BY InitAnswersInv, AnswersInvStep, PTL DEF Spec

(* A status of success tells the handler.                                  *)
LEMMA SuccessOf ==
    ASSUME TypeOK, HandlersInv, NEW r \in Requests
    PROVE  /\ req[r].reply = "redirect" => req[r].call.op = "redirect"
           /\ req[r].reply = "created" => req[r].call.op \in Creates
BY RequestTypes DEF HandlersInv, HandlerInv, Succeeded, Success, Ops, Creates

(* A client is redirected only to a link that was alive when its request   *)
(* came in, and only after its hit was counted.                            *)
THEOREM RedirectsAreToLiveLinks == Spec => []RedirectsLiveLinks
<1>1. TypeOK /\ HandlersInv => RedirectsLiveLinks
  <2> SUFFICES ASSUME TypeOK, HandlersInv, NEW r \in Requests, req[r].reply = "redirect"
               PROVE  /\ req[r].wrote # {}
                      /\ \A row \in req[r].seen : AliveAt(row, req[r].began)
    BY DEF RedirectsLiveLinks, AliveAt
  <2>1. HandlerInv(req[r]) /\ req[r].call.op = "redirect"
    BY SuccessOf DEF HandlersInv
  <2> QED BY <2>1 DEF HandlerInv, Succeeded
<1> QED BY <1>1, AnswersInductive, PTL DEF AnswersInv, IInv

(* A link that was answered 201 is there, under its code and with its      *)
(* expiry, until somebody deletes it or it expires.                        *)
THEOREM CreatedLinksAreKept == Spec => []CreatedLinksStay
<1>1. TypeOK /\ HandlersInv /\ CreatesInv => CreatedLinksStay
  BY SuccessOf DEF CreatesInv, CreatedLinksStay, Remains
<1> QED BY <1>1, AnswersInductive, PTL DEF AnswersInv, IInv

(* Without a cache, a GET that begins after an update or a removal was     *)
(* acknowledged shows what became of the link.                             *)
THEOREM WritesAreSeenWithoutCache ==
    ASSUME ~CacheEnabled
    PROVE  Spec => []AcknowledgedWritesAreSeen
<1>1. SeenInv => AcknowledgedWritesAreSeen
  BY DEF SeenInv, AcknowledgedWritesAreSeen, Acknowledged, Shows
<1> QED BY <1>1, AnswersInductive, PTL DEF AnswersInv

(* The counter of a link is the number of redirects counted on it: none is *)
(* lost to another redirect, to an update, or to a handler dropped after   *)
(* its statement was sent.                                                 *)
THEOREM HitsAreExact == Spec => []HitsExact
<1>1. HitsInv => HitsExact
  BY DEF HitsInv, HitsExact, HitsOn
<1> QED BY <1>1, AnswersInductive, PTL DEF AnswersInv

(* A 404 is never given about a link that was there, and alive, from       *)
(* before the request until its answer.                                    *)
THEOREM NotFoundIsNeverFalse == Spec => NotFoundIsTrue
<1>1. AnswersInv /\ [Next]_vars => NotFoundStep
  BY NotFoundIsTrueStep DEF AnswersInv, IInv
<1>2. AnswersInv /\ [Next]_vars => [NotFoundStep]_vars
  BY <1>1
<1> QED BY <1>2, AnswersInductive, PTL DEF Spec, NotFoundIsTrue
=============================================================================
