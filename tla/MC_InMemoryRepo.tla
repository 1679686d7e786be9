--------------------------- MODULE MC_InMemoryRepo ---------------------------
(***************************************************************************)
(* An instance of InMemoryRepo for TLC.                                    *)
(***************************************************************************)
EXTENDS InMemoryRepo, TLC

CONSTANTS c1, t1, h1, h2

Symmetry == Permutations(Threads)
=============================================================================
