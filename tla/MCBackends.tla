------------------------------ MODULE MCBackends ------------------------------
(***************************************************************************)
(* Two starts over two ports.  Workers, ports and secrets are alike.       *)
(***************************************************************************)
EXTENDS Backends, TLC

Symmetry == Permutations(Workers) \cup Permutations(Ports) \cup Permutations(Secrets)
=============================================================================
