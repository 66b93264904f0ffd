--------------------------- MODULE MCProjectStore --------------------------
(* Instances of ProjectStore for TLC. *)
EXTENDS ProjectStoreProperties, TLC

Symmetry == Permutations(Requests)

=============================================================================
