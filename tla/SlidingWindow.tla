---------------------------- MODULE SlidingWindow ----------------------------
(***************************************************************************)
(* SlidingWindowStats: the hits of one link, a ring buffer of counts per   *)
(* second and their cached sum.                                            *)
(***************************************************************************)
EXTENDS Integers, Functions

CONSTANT WindowSize      \* the length of the buffer, 60 in the code

ASSUME WindowSizeAssumption == WindowSize \in Nat \ {0}

Cells == 0..WindowSize - 1
Window == [buffer: [Cells -> Nat], last_update_sec: Nat, cached_sum: Nat, total_hits: Nat]

CellOf(sec) == sec % WindowSize

(* SlidingWindowStats::new.                                                *)
NewWindow == [buffer |-> [i \in Cells |-> 0], last_update_sec |-> 0, cached_sum |-> 0,
              total_hits |-> 0]

(* Mutant: the cells of the seconds that passed without a hit are kept.    *)
PassedCurrent(s, now) == IF now > s.last_update_sec + WindowSize THEN Cells ELSE {CellOf(now)}

(* The cells that are cleared before a hit is counted: all of them when    *)
(* more than a window has passed, else those of the seconds since.  None   *)
(* when the clock was set back.                                            *)
Passed(s, now) == IF now > s.last_update_sec + WindowSize THEN Cells
                  ELSE {CellOf(sec) : sec \in s.last_update_sec + 1 .. now}

(* Mutant: only the cell of the current second is subtracted.              *)
RemainingCurrent(s, now) ==
    IF now > s.last_update_sec + WindowSize THEN 0
    ELSE s.cached_sum - (IF now > s.last_update_sec THEN s.buffer[CellOf(now)] ELSE 0)

(* What is left of the sum: the cleared cells are subtracted from it.      *)
Remaining(s, now) ==
    IF now > s.last_update_sec + WindowSize THEN 0
    ELSE s.cached_sum - FoldFunctionOnSet(+, 0, s.buffer, Passed(s, now))

(* record_hit.                                                             *)
RecordedHit(s, now) ==
    LET kept == [i \in Cells |-> IF i \in Passed(s, now) THEN 0 ELSE s.buffer[i]]
    IN [buffer |-> [kept EXCEPT ![CellOf(now)] = @ + 1],
        last_update_sec |-> now,
        cached_sum |-> Remaining(s, now) + 1,
        total_hits |-> s.total_hits + 1]

(* get_last_60s: the sum of the last hit's time, until it is a window old. *)
LastHits(s, now) == IF now - s.last_update_sec >= WindowSize THEN 0 ELSE s.cached_sum
=============================================================================
