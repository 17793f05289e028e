------------------------- MODULE MCServerLifecycle -------------------------
(***************************************************************************)
(* ServerLifecycle for TLC: requests in progress are interchangeable.  Only *)
(* runs without liveness properties use the symmetry.                      *)
(***************************************************************************)
EXTENDS ServerLifecycle, TLC

RequestSymmetry == Permutations(Requests)
=============================================================================
