------------------------ MODULE LinkRefinement_proofs ------------------------
(***************************************************************************)
(* LinkService implements LinkRepository: seen without ids, by code, every *)
(* step of a handler or of the cleaner is one operation of the trait or    *)
(* leaves the table alone.                                                 *)
(***************************************************************************)
EXTENDS LinkService_proofs

-----------------------------------------------------------------------------
(* Looking a code up in a set of rows.                                     *)

Abs(row) == [target |-> row.target, version |-> row.version, hits |-> row.hits,
             expires_at |-> row.expires_at]

Under(rows, code) == {row \in rows : row.code = code}

Lookup(rows, code) == IF Under(rows, code) = {} THEN NoLink
                      ELSE Abs(CHOOSE row \in rows : row.code = code)

(* UNIQUE (code).                                                          *)
Keyed(rows) == rows \subseteq Row /\ \A row1, row2 \in rows : row1.code = row2.code => row1 = row2

AbsTable(rows) == [code \in Codes |-> Lookup(rows, code)]

(* The refinement mapping, of this state and of the next.                  *)
LEMMA MapsTo ==
    /\ [code \in Codes |-> LinkAt(code)] = AbsTable(links)
    /\ [code \in Codes |-> LinkAt(code)]' = AbsTable(links')
BY DEF AbsTable, LinkAt, Lookup, Under, Select, Abs

(* A code is free, or maps to its one row.                                 *)
LEMMA LookupRow ==
    ASSUME NEW rows, Keyed(rows), NEW row \in rows
    PROVE  Lookup(rows, row.code) = Abs(row) /\ row.code \in Codes /\ row \in Row
<1>1. row \in Under(rows, row.code)
  BY DEF Under
<1>2. row = CHOOSE r \in rows : r.code = row.code
  BY DEF Keyed
<1>3. row.code \in Codes /\ row \in Row
  BY DEF Keyed, Row
<1> QED BY <1>1, <1>2, <1>3 DEF Lookup

(* A code that no row has is free in the abstract table.                   *)
LEMMA LookupFree ==
    ASSUME NEW rows, NEW code, \A row \in rows : row.code # code
    PROVE  Lookup(rows, code) = NoLink
BY DEF Lookup, Under

(* What a row says is not NoLink, and says when the row expires.           *)
LEMMA AbsTypes ==
    ASSUME NEW row \in Row
    PROVE  /\ Abs(row) \in [target: Targets, version: Nat, hits: Nat, expires_at: Nat]
           /\ Abs(row) # NoLink
           /\ \A at : Repo!Expired(Abs(row), at) <=> IsExpired(row, at)
<1>1. Abs(row) \in [target: Targets, version: Nat, hits: Nat, expires_at: Nat]
  BY DEF Abs, Row
<1>2. \A at : Repo!Expired(Abs(row), at) <=> IsExpired(row, at)
  BY DEF Abs, Repo!Expired, IsExpired
<1> QED BY <1>1, <1>2, NoLinkAssumption

(* A code none of whose rows is touched looks the same.                    *)
LEMMA LookupFrame ==
    ASSUME NEW rows1, Keyed(rows1), NEW rows2, Keyed(rows2), NEW code,
           \A row : row.code = code => (row \in rows1 <=> row \in rows2)
    PROVE  Lookup(rows1, code) = Lookup(rows2, code)
<1>1. ASSUME NEW row \in rows1, row.code = code PROVE Lookup(rows1, code) = Lookup(rows2, code)
  BY <1>1, LookupRow
<1>2. CASE \A row \in rows1 : row.code # code
  BY <1>2, LookupFree
<1> QED BY <1>1, <1>2

(* A change of the rows of one code changes the table there.               *)
LEMMA TableAt ==
    ASSUME NEW rows1, Keyed(rows1), NEW rows2, Keyed(rows2), NEW c \in Codes,
           \A row : row.code # c => (row \in rows1 <=> row \in rows2)
    PROVE  AbsTable(rows2) = [AbsTable(rows1) EXCEPT ![c] = Lookup(rows2, c)]
<1>1. ASSUME NEW d \in Codes, d # c PROVE Lookup(rows2, d) = Lookup(rows1, d)
  <2>1. \A row : row.code = d => (row \in rows1 <=> row \in rows2)
    BY <1>1
  <2> QED BY <2>1, LookupFrame
<1> QED BY <1>1 DEF AbsTable

-----------------------------------------------------------------------------
(* The steps.                                                              *)

LEMMA RefinementStep ==
    ASSUME TypeOK, VersionsInv, CutoffInv, [Next]_vars
    PROVE  [Repo!Next]_(Repo!vars)
<1> DEFINE T == AbsTable(links)
           U == AbsTable(links')
           map == [code \in Codes |-> LinkAt(code)]
<1>1. Keyed(links) /\ Keyed(links') /\ now \in Nat
  <2>1. TypeOK' /\ VersionsInv'
    BY TypeStep, VersionsStep
  <2> QED BY <2>1 DEF TypeOK, VersionsInv, Keyed
<1>2. map = T /\ map' = U
  BY MapsTo
<1>3. CASE Untouched
  <2>1. map' = map
    BY <1>2, <1>3 DEF Untouched
  <2>2. now' = now \/ now' = now + 1
    BY <1>3 DEF Untouched
  <2> QED BY <2>1, <2>2 DEF Repo!Next, Repo!Tick, Repo!vars
<1>4. CASE Inserted
  <2>1. PICK row \in Row : /\ row.version = 1 /\ row.hits = 0 /\ Select(row.code) = {}
                           /\ links' = links \cup {row} /\ now' = now
    BY <1>4 DEF Inserted
  <2> DEFINE c == row.code
  <2>2. c \in Codes /\ T[c] = NoLink
    BY <2>1, LookupFree DEF Row, Select, AbsTable
  <2>3. Lookup(links', c) = Abs(row) /\ U[c] = Abs(row)
    BY <1>1, <2>1, <2>2, LookupRow DEF AbsTable
  <2>4. Abs(row) \in [target: Targets, version: {1}, hits: {0}, expires_at: Nat]
    BY <2>1 DEF Abs, Row
  <2>5. U = [T EXCEPT ![c] = U[c]]
    <3>1. \A other : other.code # c => (other \in links <=> other \in links')
      BY <2>1
    <3>2. U = [T EXCEPT ![c] = Lookup(links', c)]
      BY <1>1, <2>2, <3>1, TableAt
    <3> QED BY <2>3, <3>2
  <2>6. Repo!Insert(c)
    <3> HIDE DEF T, U, c
    <3> QED BY <1>2, <2>1, <2>2, <2>3, <2>4, <2>5 DEF Repo!Insert
  <2> QED BY <2>2, <2>6 DEF Repo!Next
<1>5. CASE Rewritten
  <2>1. PICK row \in links, t \in Targets :
          /\ links' = (links \ {row}) \cup {[row EXCEPT !.target = t, !.version = @ + 1]}
          /\ now' = now
    BY <1>5 DEF Rewritten
  <2> DEFINE new == [row EXCEPT !.target = t, !.version = @ + 1]
             c == row.code
  <2>2. row \in Row /\ c \in Codes /\ T[c] = Abs(row) /\ T[c] # NoLink
    BY <1>1, LookupRow, AbsTypes DEF AbsTable
  <2>3. new.code = c /\ Abs(new) = [Abs(row) EXCEPT !.target = t, !.version = @ + 1]
    <3>1. /\ new.code = row.code /\ new.target = t /\ new.version = row.version + 1
          /\ new.hits = row.hits /\ new.expires_at = row.expires_at
      BY <2>2 DEF Row
    <3>2. Abs(new) = [target |-> t, version |-> row.version + 1, hits |-> row.hits,
                      expires_at |-> row.expires_at]
      <4> HIDE DEF new
      <4> QED BY <3>1 DEF Abs
    <3>3. [Abs(row) EXCEPT !.target = t, !.version = @ + 1] =
            [target |-> t, version |-> row.version + 1, hits |-> row.hits,
             expires_at |-> row.expires_at]
      <4> DEFINE b == [Abs(row) EXCEPT !.target = t]
      <4>1. b = [target |-> t, version |-> row.version, hits |-> row.hits,
                 expires_at |-> row.expires_at]
        BY DEF Abs
      <4>2. [b EXCEPT !.version = b.version + 1] =
              [target |-> t, version |-> row.version + 1, hits |-> row.hits,
               expires_at |-> row.expires_at]
        <5> HIDE DEF b
        <5> QED BY <4>1
      <4>3. [Abs(row) EXCEPT !.target = t, !.version = @ + 1] =
              [b EXCEPT !.version = b.version + 1]
        OBVIOUS
      <4> QED BY <4>2, <4>3
    <3> HIDE DEF new
    <3> QED BY <3>1, <3>2, <3>3
  <2>4. Lookup(links', c) = Abs(new)
    <3>1. new \in links'
      BY <2>1
    <3> HIDE DEF new
    <3> QED BY <1>1, <2>3, <3>1, LookupRow
  <2>5. \A other : other.code # c => (other \in links <=> other \in links')
    BY <2>1, <2>3
  <2>6. U = [T EXCEPT ![c] = Abs(new)]
    BY <1>1, <2>2, <2>4, <2>5, TableAt
  <2>7. U = [T EXCEPT ![c] = [T[c] EXCEPT !.target = t, !.version = T[c].version + 1]]
    <3>1. Abs(new) = [T[c] EXCEPT !.target = t, !.version = @ + 1]
      BY <2>2, <2>3
    <3> HIDE DEF T, U, c, new
    <3> QED BY <2>6, <3>1
  <2>8. Repo!Update(c)
    <3> HIDE DEF T, U, c
    <3> QED BY <1>2, <2>1, <2>2, <2>7 DEF Repo!Update
  <2> QED BY <2>2, <2>8 DEF Repo!Next
<1>6. CASE Counted
  <2>1. PICK row \in links : /\ links' = (links \ {row}) \cup {[row EXCEPT !.hits = @ + 1]}
                             /\ now' = now
    BY <1>6 DEF Counted
  <2> DEFINE new == [row EXCEPT !.hits = @ + 1]
             c == row.code
  <2>2. row \in Row /\ c \in Codes /\ T[c] = Abs(row) /\ T[c] # NoLink
    BY <1>1, LookupRow, AbsTypes DEF AbsTable
  <2>3. new.code = c /\ Abs(new) = [Abs(row) EXCEPT !.hits = @ + 1]
    BY <2>2 DEF Row, Abs
  <2>4. Lookup(links', c) = Abs(new)
    <3>1. new \in links'
      BY <2>1
    <3> HIDE DEF new
    <3> QED BY <1>1, <2>3, <3>1, LookupRow
  <2>5. \A other : other.code # c => (other \in links <=> other \in links')
    BY <2>1, <2>3
  <2>6. U = [T EXCEPT ![c] = Abs(new)]
    BY <1>1, <2>2, <2>4, <2>5, TableAt
  <2>7. U = [T EXCEPT ![c] = [T[c] EXCEPT !.hits = T[c].hits + 1]]
    <3>1. Abs(new) = [T[c] EXCEPT !.hits = @ + 1]
      BY <2>2, <2>3
    <3> HIDE DEF T, U, c, new
    <3> QED BY <2>6, <3>1
  <2>8. Repo!RecordHit(c)
    <3> HIDE DEF T, U, c
    <3> QED BY <1>2, <2>1, <2>2, <2>7 DEF Repo!RecordHit
  <2> QED BY <2>2, <2>8 DEF Repo!Next
<1>7. CASE Removed
  <2>1. PICK row \in links : links' = links \ {row} /\ now' = now
    BY <1>7 DEF Removed
  <2> DEFINE c == row.code
  <2>2. row \in Row /\ c \in Codes /\ T[c] = Abs(row) /\ T[c] # NoLink
    BY <1>1, LookupRow, AbsTypes DEF AbsTable
  <2>3. Lookup(links', c) = NoLink
    BY <1>1, <2>1, LookupFree DEF Keyed
  <2>4. \A other : other.code # c => (other \in links <=> other \in links')
    BY <2>1
  <2>5. U = [T EXCEPT ![c] = NoLink]
    BY <1>1, <2>2, <2>3, <2>4, TableAt
  <2>6. Repo!Remove(c)
    <3> HIDE DEF T, U, c
    <3> QED BY <1>2, <2>1, <2>2, <2>5 DEF Repo!Remove
  <2> QED BY <2>2, <2>6 DEF Repo!Next
<1>8. CASE Purged
  <2>1. PICK cutoff \in Nat : /\ cutoff <= now /\ now' = now
                              /\ links' = links \ {row \in links : IsExpired(row, cutoff)}
    BY <1>8 DEF Purged
  <2>2. ASSUME NEW c \in Codes
        PROVE  Lookup(links', c) = IF T[c] # NoLink /\ Repo!Expired(T[c], cutoff)
                                   THEN NoLink ELSE T[c]
    <3>1. ASSUME NEW row \in links, row.code = c
          PROVE  Lookup(links', c) = IF T[c] # NoLink /\ Repo!Expired(T[c], cutoff)
                                     THEN NoLink ELSE T[c]
      <4>1. T[c] = Abs(row) /\ T[c] # NoLink /\ (Repo!Expired(T[c], cutoff) <=> IsExpired(row, cutoff))
        BY <1>1, <3>1, LookupRow, AbsTypes DEF AbsTable
      <4>2. CASE IsExpired(row, cutoff)
        <5>1. \A other \in links' : other.code # c
          BY <1>1, <2>1, <3>1, <4>2 DEF Keyed
        <5> QED BY <4>1, <4>2, <5>1, LookupFree
      <4>3. CASE ~IsExpired(row, cutoff)
        <5>1. row \in links'
          BY <2>1, <4>3
        <5> HIDE DEF T
        <5> QED BY <1>1, <3>1, <4>1, <4>3, <5>1, LookupRow
      <4> QED BY <4>2, <4>3
    <3>2. ASSUME \A row \in links : row.code # c
          PROVE  Lookup(links', c) = NoLink /\ T[c] = NoLink
      <4>1. \A row \in links' : row.code # c
        BY <2>1, <3>2
      <4> QED BY <3>2, <4>1, LookupFree DEF AbsTable
    <3> QED BY <3>1, <3>2
  <2>3. U = [c \in Codes |-> IF T[c] # NoLink /\ Repo!Expired(T[c], cutoff)
                             THEN NoLink ELSE T[c]]
    <3> HIDE DEF T
    <3> QED BY <2>2 DEF AbsTable
  <2>4. Repo!Purge(cutoff)
    <3> HIDE DEF T, U
    <3> QED BY <1>2, <2>1, <2>3 DEF Repo!Purge
  <2>5. cutoff \in 0..now
    BY <1>1, <2>1
  <2> QED BY <2>4, <2>5 DEF Repo!Next
<1> QED BY <1>3, <1>4, <1>5, <1>6, <1>7, <1>8, TableStep

(* LinkService implements the repository's contract: no interleaving of    *)
(* handlers, no failure and no purge changes the table otherwise than by   *)
(* one of the trait's operations at a time.                                *)
THEOREM ImplementsRepository == Spec => RepositoryContract
<1>1. ASSUME Init PROVE Repo!Init
  <2>1. Keyed(links) /\ now \in Nat
    BY <1>1, InitIInv DEF IInv, TypeOK, VersionsInv, Keyed
  <2>2. ASSUME NEW c \in Codes
        PROVE  Lookup(links, c) \in [target: Targets, version: Nat, hits: Nat, expires_at: Nat]
                                    \cup {NoLink}
    <3>1. CASE \A row \in links : row.code # c
      BY <3>1, LookupFree
    <3>2. ASSUME NEW row \in links, row.code = c
          PROVE  Lookup(links, c) \in [target: Targets, version: Nat, hits: Nat, expires_at: Nat]
      BY <2>1, <3>2, LookupRow, AbsTypes
    <3> QED BY <3>1, <3>2
  <2>3. AbsTable(links) \in [Codes -> [target: Targets, version: Nat, hits: Nat, expires_at: Nat]
                                      \cup {NoLink}]
    BY <2>2 DEF AbsTable
  <2> QED BY <2>1, <2>3, MapsTo DEF Repo!Init, Repo!Link
<1>2. IInv /\ [Next]_vars => [Repo!Next]_(Repo!vars)
  BY RefinementStep DEF IInv
<1> QED BY <1>1, <1>2, Inductive, PTL DEF Spec, RepositoryContract, Repo!Spec
=============================================================================
