----------------------------- MODULE MC_Lifecycle -----------------------------
(***************************************************************************)
(* Instances of Lifecycle for TLC.                                         *)
(***************************************************************************)
EXTENDS Lifecycle, TLC

CONSTANTS h1, h2, g1, g2

Symmetry == Permutations(HttpRequests) \cup Permutations(GrpcRequests)
=============================================================================
