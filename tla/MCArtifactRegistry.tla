-------------------------- MODULE MCArtifactRegistry --------------------------
(***************************************************************************)
(* A small instance of ArtifactRegistry.  Calls are told apart by what     *)
(* they do alone.                                                          *)
(***************************************************************************)
EXTENDS ArtifactRegistry, TLC

Symmetry == Permutations(Calls) \cup Permutations(Containers)
=============================================================================
