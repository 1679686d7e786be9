--------------------------- MODULE Pagination_proofs ---------------------------
(***************************************************************************)
(* Proofs about Pagination, for any codes, any size of a page and any      *)
(* number of links that come and go between two pages.                     *)
(***************************************************************************)
EXTENDS Pagination, FiniteSetTheorems, TLAPS

(* The walk stands at the last row that it has seen.                       *)
CursorInv ==
    /\ walk.pc = "idle" => walk.seen = {}
    /\ walk.seen = {} <=> walk.cursor = NoCursor
    /\ walk.cursor = NoCursor \/ walk.cursor \in walk.seen

(* As long as no code that was shown has been taken again, a row under     *)
(* such a code is the row that was shown.                                  *)
ShownInv ==
    ~reused => \A shown \in walk.seen, row \in links : row.code = shown.code => row = shown

(* A cursor means what it meant when it was handed out.                    *)
CursorHolds == backend = "postgres" \/ ~reused

(* What has stayed is seen already, or comes after the cursor.             *)
AheadInv ==
    CursorHolds /\ walk.pc # "idle" =>
      \A row \in stable : \/ row \in walk.seen
                          \/ /\ walk.pc = "walking"
                             /\ walk.cursor = NoCursor \/ Before(walk.cursor, row)

(* Nothing that was seen comes after the cursor.                           *)
BehindInv ==
    backend = "postgres" /\ Protocol = "http" =>
      \A old \in walk.seen : old = walk.cursor \/ Before(old, walk.cursor)

PInv == TypeOK /\ CursorInv /\ ShownInv /\ AheadInv /\ BehindInv

-----------------------------------------------------------------------------
(* The order of the listing is transitive.                                 *)
LEMMA BeforeTransitive ==
    ASSUME NEW row1 \in Row, NEW row2 \in Row, NEW row3 \in Row,
           Before(row1, row2), Before(row2, row3)
    PROVE  Before(row1, row3)
<1>1. \A row \in Row : row.code \in Nat /\ row.created_at \in Nat
  BY CodesAssumption DEF Row
<1>2. /\ row1.code \in Nat /\ row2.code \in Nat /\ row3.code \in Nat
      /\ row1.created_at \in Nat /\ row2.created_at \in Nat /\ row3.created_at \in Nat
  BY <1>1
<1> QED BY <1>2 DEF Before

(* No row is the missing cursor.                                           *)
LEMMA NoCursorIsNoRow == NoCursor \notin Row
BY CodesAssumption DEF NoCursor, Row

(* A page is empty only when nothing is left.                              *)
LEMMA EmptyPageIsTheEnd ==
    ASSUME NEW rows, IsPage({}, rows)
    PROVE  rows = {}
<1>1. Cardinality({}) = 0
  BY FS_EmptySet
<1> QED BY <1>1, SizesAssumption DEF IsPage

(* What has stayed and was not seen is among the rows a page is cut from.  *)
LEMMA StableIsLeft ==
    ASSUME PInv, walk.pc = "walking", CursorHolds,
           NEW row \in stable, row \notin walk.seen
    PROVE  row \in Rest(Parsed(walk.cursor))
<1> DEFINE cursor == Parsed(walk.cursor)
<1>1. row \in links
  BY DEF PInv, TypeOK
<1>2. CASE cursor = NoCursor
  BY <1>1, <1>2 DEF Rest
<1>3. CASE cursor # NoCursor
  <2>1. cursor = walk.cursor
    BY <1>3 DEF Parsed
  <2>2. Before(walk.cursor, row)
    BY <1>3, <2>1 DEF PInv, AheadInv
  <2>3. CASE backend = "postgres"
    BY <1>1, <1>3, <2>1, <2>2, <2>3 DEF Rest, After
  <2>4. CASE backend # "postgres"
    <3>1. walk.cursor \in walk.seen
      BY <1>3, <2>1 DEF PInv, CursorInv
    <3>2. \A named \in Named(walk.cursor) : named = walk.cursor
      BY <2>4, <3>1 DEF Named, PInv, ShownInv, CursorHolds
    <3> QED BY <1>1, <1>3, <2>1, <2>2, <2>4, <3>2 DEF Rest
  <2> QED BY <2>3, <2>4
<1> QED BY <1>2, <1>3

(* With Postgres over HTTP a page comes after all that was seen.           *)
LEMMA PageIsAhead ==
    ASSUME PInv, backend = "postgres", Protocol = "http",
           NEW page \in SUBSET links, IsPage(page, Rest(Parsed(walk.cursor))),
           NEW old \in walk.seen, NEW new \in page
    PROVE  Before(old, new)
<1>1. walk.cursor \in walk.seen
  BY DEF PInv, CursorInv
<1>2. walk.cursor \in Row /\ old \in Row /\ new \in Row
  BY <1>1 DEF PInv, TypeOK
<1>3. walk.cursor # NoCursor /\ Parsed(walk.cursor) = walk.cursor
  BY <1>2, NoCursorIsNoRow DEF Parsed
<1>4. Before(walk.cursor, new)
  BY <1>3 DEF Rest, After, IsPage
<1>5. old = walk.cursor \/ Before(old, walk.cursor)
  BY DEF PInv, BehindInv
<1> QED BY <1>2, <1>4, <1>5, BeforeTransitive

-----------------------------------------------------------------------------
(* The invariant holds before the walk.                                    *)
LEMMA InitPInv == Init => PInv
<1> SUFFICES ASSUME Init PROVE PInv
  OBVIOUS
<1>1. walk.pc = "idle" /\ walk.cursor = NoCursor /\ walk.seen = {}
  BY DEF Init
<1>2. now \in Nat /\ links \subseteq Row
  BY SizesAssumption DEF Init, Row
<1>3. TypeOK
  BY <1>2 DEF Init, TypeOK
<1> QED BY <1>1, <1>3 DEF PInv, CursorInv, ShownInv, AheadInv, BehindInv

(* A page keeps the invariant.                                             *)
LEMMA FetchPInv ==
    ASSUME PInv, NEW page \in SUBSET links, Fetch(page)
    PROVE  PInv'
<1> DEFINE rows == Rest(Parsed(walk.cursor))
<1>1. /\ walk.pc = "walking" /\ IsPage(page, rows) /\ page \subseteq Row
      /\ UNCHANGED <<now, backend, links, stable, reused>>
  BY DEF Fetch, PInv, TypeOK
<1>2. CASE page = {} /\ walk' = [walk EXCEPT !.pc = "done"]
  <2>1. rows = {}
    BY <1>1, <1>2, EmptyPageIsTheEnd
  <2>2. CursorHolds => stable \subseteq walk.seen
    BY <1>1, <2>1, StableIsLeft
  <2>3. walk'.pc = "done" /\ walk'.cursor = walk.cursor /\ walk'.seen = walk.seen
    BY <1>2 DEF PInv, TypeOK
  <2>4. TypeOK'
    BY <1>1, <1>2 DEF PInv, TypeOK, Row
  <2> QED BY <1>1, <2>2, <2>3, <2>4
          DEF PInv, CursorInv, ShownInv, CursorHolds, AheadInv, BehindInv
<1>3. ASSUME NEW last \in page, IsLast(last, page),
             walk' = [walk EXCEPT !.cursor = last, !.seen = walk.seen \cup page]
      PROVE  PInv'
  <2>1. /\ walk'.pc = "walking" /\ walk'.cursor = last /\ walk'.seen = walk.seen \cup page
        /\ last # NoCursor /\ last \in Row
    BY <1>1, <1>3, NoCursorIsNoRow DEF PInv, TypeOK
  <2>2. TypeOK'
    BY <1>1, <1>3 DEF PInv, TypeOK, Row
  <2>3. CursorInv'
    BY <2>1 DEF CursorInv
  <2>4. ShownInv'
    BY <1>1, <2>1 DEF PInv, TypeOK, ShownInv
  <2>5. AheadInv'
    <3> SUFFICES ASSUME CursorHolds, NEW row \in stable, row \notin walk.seen, row \notin page
                 PROVE  Before(last, row)
      BY <1>1, <2>1 DEF AheadInv, CursorHolds
    <3>1. row \in rows
      BY <1>1, StableIsLeft
    <3> QED BY <1>1, <3>1 DEF IsPage
  <2>6. BehindInv'
    BY <1>1, <1>3, <2>1, PageIsAhead DEF BehindInv, IsLast
  <2> QED BY <2>2, <2>3, <2>4, <2>5, <2>6 DEF PInv
<1> QED BY <1>2, <1>3 DEF Fetch

(* Every step keeps the invariant.                                         *)
LEMMA StepPInv == PInv /\ [Next]_vars => PInv'
<1> SUFFICES ASSUME PInv, [Next]_vars PROVE PInv'
  OBVIOUS
<1> USE DEF PInv, CursorInv, ShownInv, CursorHolds, AheadInv, BehindInv
<1>1. ASSUME NEW row \in [code: Codes, created_at: 0..MaxTime], Insert(row) PROVE PInv'
  <2>1. row \in Row
    BY SizesAssumption DEF Row
  <2>2. TypeOK'
    BY <1>1, <2>1 DEF Insert, TypeOK
  <2> QED BY <1>1, <2>2 DEF Insert
<1>2. ASSUME NEW row \in links, Remove(row) PROVE PInv'
  <2>1. TypeOK'
    BY <1>2 DEF Remove, TypeOK
  <2> QED BY <1>2, <2>1 DEF Remove
<1>3. CASE Begin
  <2>1. TypeOK'
    BY <1>3 DEF Begin, TypeOK
  <2>2. walk'.pc = "walking" /\ walk'.cursor = NoCursor /\ walk'.seen = {}
    BY <1>3 DEF Begin, TypeOK
  <2> QED BY <1>3, <2>1, <2>2 DEF Begin
<1>4. ASSUME NEW page \in SUBSET links, Fetch(page) PROVE PInv'
  BY <1>4, FetchPInv
<1>5. CASE Tick
  BY <1>5 DEF Tick, TypeOK
<1>6. CASE UNCHANGED vars
  BY <1>6 DEF vars, TypeOK, Before
<1> QED BY <1>1, <1>2, <1>3, <1>4, <1>5, <1>6 DEF Next

(* The invariant of a walk, whatever is inserted and removed under it.     *)
THEOREM PaginationInductive == Spec => []PInv
BY InitPInv, StepPInv, PTL DEF Spec

(* The listing, the client and the history keep their types.               *)
THEOREM PaginationTypes == Spec => []TypeOK
<1>1. PInv => TypeOK
  BY DEF PInv
<1> QED BY <1>1, PaginationInductive, PTL

(* A walk that ended has shown every link that stayed: the cursor of       *)
(* Postgres needs no row, the one of memory needs its code left alone.     *)
THEOREM WalksAreComplete == Spec => []WalkIsComplete
<1>1. PInv => WalkIsComplete
  BY DEF PInv, AheadInv, CursorHolds, WalkIsComplete
<1> QED BY <1>1, PaginationInductive, PTL

(* Over HTTP the pages of Postgres follow one another: list never answers  *)
(* with a row that it has shown, or with one that belongs before it.       *)
THEOREM PagesDescend == ASSUME Protocol = "http" PROVE Spec => WalkDescends
<1>1. ASSUME PInv, [Next]_vars,
             NEW page \in SUBSET links, backend = "postgres", Fetch(page),
             NEW old \in walk.seen, NEW new \in page
      PROVE  Before(old, new)
  BY <1>1, PageIsAhead DEF Fetch
<1>2. PInv /\ [Next]_vars =>
        [\A page \in SUBSET links : backend = "postgres" /\ Fetch(page) =>
           \A old \in walk.seen, new \in page : Before(old, new)]_vars
  BY <1>1
<1> QED BY <1>2, PaginationInductive, PTL DEF Spec, WalkDescends
================================================================================
