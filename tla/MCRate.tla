------------------------------- MODULE MCRate -------------------------------
(* Instances of RRCRate for TLC. *)
EXTENDS RRCRate, TLC
CallSymmetry == Permutations(Calls)
=============================================================================
