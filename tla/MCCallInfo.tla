----------------------------- MODULE MCCallInfo -----------------------------
(* Instances of CallInfo for TLC. *)
EXTENDS CallInfo, TLC

Symmetry == Permutations(Info)
=============================================================================
