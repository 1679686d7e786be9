------------------------------ MODULE Pagination ------------------------------
(***************************************************************************)
(* A client that walks through the listing of links, page by page, while   *)
(* links come and go.  A page is one statement (Postgres) or one critical  *)
(* section (memory), so what matters is what happens between two pages,    *)
(* and what the cursor that the client brings back still means.            *)
(***************************************************************************)
EXTENDS Integers, FiniteSets

CONSTANTS
    Codes,          \* short codes, numbers in the order of their texts
    Backends,       \* which repositories a behaviour may have
    Protocol,       \* "http" or "grpc"
    PageSize,       \* limit, page_size
    Second,         \* instants in a second
    CommitDelay,    \* how long before a row is there its created_at may have been read
    MaxTime         \* bound: the clock stops here

ASSUME CodesAssumption == Codes \subseteq Nat
ASSUME DeploymentAssumption ==
    Backends \subseteq {"postgres", "memory"} /\ Protocol \in {"http", "grpc"}
ASSUME SizesAssumption == /\ PageSize \in Nat \ {0} /\ Second \in Nat \ {0}
                          /\ CommitDelay \in Nat /\ MaxTime \in Nat

VARIABLES
    now,
    backend,   \* STORAGE_TYPE
    links,     \* what is listed: a set of rows
    walk,      \* the client: [pc, cursor, seen]
    stable,    \* history: the links that have been there since the walk began
    reused     \* history: the code of a link that was shown has been taken again

vars == <<now, backend, links, walk, stable, reused>>

Row == [code: Codes, created_at: Nat]

(* A cursor names a row: its created_at, as rfc3339 or in whole seconds,   *)
(* and its code.  NoCursor asks for the first page.                        *)
NoCursor == [code |-> -1, created_at |-> 0]

(* ORDER BY created_at DESC, code DESC                                     *)
Before(row1, row2) == \/ row1.created_at > row2.created_at
                      \/ row1.created_at = row2.created_at /\ row1.code > row2.code

Init == /\ now \in 0..MaxTime
        /\ backend \in Backends
        /\ links \in {rows \in SUBSET [code: Codes, created_at: 0..now] :
                        \A row1, row2 \in rows : row1.code = row2.code => row1 = row2}
        /\ walk = [pc |-> "idle", cursor |-> NoCursor, seen |-> {}]
        /\ stable = {}
        /\ reused = FALSE

-----------------------------------------------------------------------------
(* The table.  An update touches neither created_at nor code.              *)

(* Mutant: the code is not UNIQUE.                                         *)
InsertAnyway(row) ==
    /\ row.created_at \in now - CommitDelay .. now
    /\ links' = links \cup {row}
    /\ reused' = (reused \/ \E shown \in walk.seen : shown.code = row.code)
    /\ UNCHANGED <<now, backend, walk, stable>>

(* created_at is now() of the transaction, or read by ShortLink::new: by   *)
(* the time the row is there it may be in the past.                        *)
Insert(row) ==
    /\ row.created_at \in now - CommitDelay .. now
    /\ \A other \in links : other.code # row.code
    /\ links' = links \cup {row}
    /\ reused' = (reused \/ \E shown \in walk.seen : shown.code = row.code)
    /\ UNCHANGED <<now, backend, walk, stable>>

Remove(row) ==
    /\ links' = links \ {row}
    /\ stable' = stable \ {row}
    /\ UNCHANGED <<now, backend, walk, reused>>

-----------------------------------------------------------------------------
(* The listing.                                                            *)

(* Mutants: WHERE created_at < $1; WHERE ... AND code <= $2.               *)
AfterByTime(cursor) == {row \in links : row.created_at < cursor.created_at}
AfterInclusive(cursor) == {row \in links : Before(cursor, row) \/ row = cursor}

(* WHERE created_at < $1 OR (created_at = $1 AND code < $2)                *)
After(cursor) == {row \in links : Before(cursor, row)}

(* In memory the row itself is looked for, by code and whole second of its *)
(* creation; when it is gone the listing starts over.                      *)
Named(cursor) == {row \in links : /\ row.code = cursor.code
                                  /\ row.created_at \div Second = cursor.created_at \div Second}

Rest(cursor) == IF cursor = NoCursor THEN links
                ELSE IF backend = "postgres" THEN After(cursor)
                ELSE {row \in links : \A named \in Named(cursor) : Before(named, row)}

(* The cursor as the server reads it.  gRPC's list_links splits the token  *)
(* at ':' and wants two parts; an rfc3339 timestamp has colons of its own, *)
(* so the token is dropped.                                                *)
Parsed(cursor) == IF Protocol = "grpc" /\ backend = "postgres" THEN NoCursor ELSE cursor

(* ORDER BY ... LIMIT: the first PageSize rows of what is left.            *)
IsPage(page, rows) ==
    /\ page \subseteq rows
    /\ Cardinality(page) <= PageSize
    /\ Cardinality(page) < PageSize => page = rows
    /\ \A row \in page, later \in rows \ page : Before(row, later)

IsLast(row, page) == \A other \in page \ {row} : Before(other, row)

-----------------------------------------------------------------------------
(* The client: it asks with the cursor of the page before, until there is  *)
(* none, which is when a page is empty.                                    *)
Begin == /\ walk.pc = "idle"
         /\ walk' = [walk EXCEPT !.pc = "walking"]
         /\ stable' = links
         /\ UNCHANGED <<now, backend, links, reused>>

Fetch(page) ==
    /\ walk.pc = "walking"
    /\ IsPage(page, Rest(Parsed(walk.cursor)))
    /\ \/ page = {} /\ walk' = [walk EXCEPT !.pc = "done"]
       \/ \E last \in page :
            /\ IsLast(last, page)
            /\ walk' = [walk EXCEPT !.cursor = last, !.seen = walk.seen \cup page]
    /\ UNCHANGED <<now, backend, links, stable, reused>>

Tick == /\ now < MaxTime
        /\ now' = now + 1
        /\ UNCHANGED <<backend, links, walk, stable, reused>>

Next == \/ \E row \in [code: Codes, created_at: 0..MaxTime] : Insert(row)
        \/ \E row \in links : Remove(row)
        \/ Begin
        \/ \E page \in SUBSET links : Fetch(page)
        \/ Tick

Spec == Init /\ [][Next]_vars

(* The client goes on asking, and is answered.                             *)
Fairness == WF_vars(\E page \in SUBSET links : Fetch(page))

FairSpec == Spec /\ Fairness

-----------------------------------------------------------------------------
(* Codes are unique, and the client has seen only rows.                    *)
TypeOK ==
    /\ now \in Nat
    /\ backend \in Backends
    /\ links \subseteq Row
    /\ \A row1, row2 \in links : row1.code = row2.code => row1 = row2
    /\ walk \in [pc: {"idle", "walking", "done"}, cursor: Row \cup {NoCursor}, seen: SUBSET Row]
    /\ stable \subseteq links
    /\ reused \in BOOLEAN

(* A walk that has ended has shown every link that was there from its      *)
(* first page to its last, whatever was created and removed meanwhile.  In *)
(* memory a cursor may mean another link when its code is taken again.     *)
WalkIsComplete ==
    walk.pc = "done" /\ (backend = "postgres" \/ ~reused) => stable \subseteq walk.seen

(* With Postgres every page comes after all the pages before it: no link   *)
(* is shown twice.                                                         *)
WalkDescends ==
    [][\A page \in SUBSET links : backend = "postgres" /\ Fetch(page) =>
         \A old \in walk.seen, new \in page : Before(old, new)]_vars

(* With Postgres a walk comes to its end, however fast links are created.  *)
WalkEnds == backend = "postgres" /\ walk.pc = "walking" ~> walk.pc = "done"
=============================================================================
