--------------------------- MODULE LinkRepository ---------------------------
(***************************************************************************)
(* What the trait LinkRepository (crates/domain/src/lib.rs) promises its   *)
(* callers: a table from codes to links, changed by one atomic operation   *)
(* at a time, and a clock.  LinkService is shown to implement it.          *)
(***************************************************************************)
EXTENDS Integers

CONSTANTS Codes,         \* short codes
          Targets,       \* target URLs
          NoLink         \* the code is free

VARIABLES table,         \* [Codes -> Link \cup {NoLink}]
          now            \* the clock, SystemTime::now()

vars == <<table, now>>

(* A link.  expires_at = 0 is None: the link never expires.                *)
Link == [target: Targets, version: Nat, hits: Nat, expires_at: Nat]

(* ShortLink::is_expired: the instant of expiry itself counts as expired.  *)
Expired(link, at) == link.expires_at # 0 /\ link.expires_at <= at

TypeOK == /\ table \in [Codes -> Link \cup {NoLink}]
          /\ now \in Nat

(* A table holds any links whose versions have been counted from 1.        *)
Init == /\ table \in [Codes -> Link \cup {NoLink}]
        /\ now \in Nat

(* insert: only into a free code, with version 1 and no hits.              *)
Insert(c) == /\ table[c] = NoLink
             /\ table'[c] \in [target: Targets, version: {1}, hits: {0}, expires_at: Nat]
             /\ table' = [table EXCEPT ![c] = table'[c]]
             /\ UNCHANGED now

(* update: under optimistic locking, whoever presents the current version  *)
(* replaces the target; nothing else about the link changes.               *)
Update(c) == /\ table[c] # NoLink
             /\ \E t \in Targets :
                  table' = [table EXCEPT ![c] = [table[c] EXCEPT
                                !.target = t, !.version = table[c].version + 1]]
             /\ UNCHANGED now

(* record_hit: exactly one more, and the version stays.                    *)
RecordHit(c) == /\ table[c] # NoLink
                /\ table' = [table EXCEPT ![c] = [table[c] EXCEPT !.hits = table[c].hits + 1]]
                /\ UNCHANGED now

(* remove: the code is free again.                                         *)
Remove(c) == /\ table[c] # NoLink
             /\ table' = [table EXCEPT ![c] = NoLink]
             /\ UNCHANGED now

(* purge_expired: frees every code whose link had expired at the cutoff,   *)
(* which is never in the future, and no other code.                        *)
Purge(cutoff) ==
    /\ table' = [c \in Codes |-> IF table[c] # NoLink /\ Expired(table[c], cutoff)
                                 THEN NoLink ELSE table[c]]
    /\ UNCHANGED now

Tick == now' = now + 1 /\ UNCHANGED table

Next == \/ \E c \in Codes : Insert(c) \/ Update(c) \/ RecordHit(c) \/ Remove(c)
        \/ \E cutoff \in 0..now : Purge(cutoff)
        \/ Tick

Spec == Init /\ [][Next]_vars
=============================================================================
