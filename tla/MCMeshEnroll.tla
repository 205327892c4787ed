---------------------------- MODULE MCMeshEnroll ----------------------------
(* Agents and workers are interchangeable.                                  *)
EXTENDS MeshEnroll, TLC

Symmetry == Permutations(Agents) \union Permutations(Workers)

=============================================================================
