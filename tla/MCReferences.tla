---------------------------- MODULE MCReferences ----------------------------
(* Instances of References for TLC. *)
EXTENDS References, TLC

CONSTANTS foreach, tree_new, cell_func   \* g_hash_table_foreach: automatic;
                                         \* listed, but kept; a field
CONSTANTS GHFunc, GCompareFunc           \* two function types

MCType == foreach :> GHFunc @@ tree_new :> GCompareFunc @@ cell_func :> GHFunc

Symmetry == Permutations(Box) \cup Permutations(Closure)
            \cup Permutations(Code) \cup Permutations(Cif)

=============================================================================
