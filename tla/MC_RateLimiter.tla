--------------------------- MODULE MC_RateLimiter ---------------------------
(***************************************************************************)
(* An instance of RateLimiter for TLC: a caller behind a proxy and one     *)
(* with an API key.  The first is the client that is watched; by symmetry  *)
(* the other one need not be.                                              *)
(***************************************************************************)
EXTENDS RateLimiter, TLC

CONSTANTS key, addr, w1, w2

Symmetry == Permutations(Workers)

Proxied == [api_key |-> Absent, forwarded |-> addr, peer |-> addr]
Keyed == [api_key |-> key, forwarded |-> addr, peer |-> addr]
MCCallers == {Proxied, Keyed}

MCInit == Init /\ watched = ClientId(Proxied)
MCSpec == MCInit /\ [][Next]_vars
=============================================================================
