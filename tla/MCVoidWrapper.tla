---------------------------- MODULE MCVoidWrapper ----------------------------
(* Instances of VoidWrapper for TLC. *)
EXTENDS VoidWrapper, TLC

Symmetry == Permutations(Wrapper) \cup Permutations(Udata) \cup Permutations(Ref)
=============================================================================
