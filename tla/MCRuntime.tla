------------------------------ MODULE MCRuntime ------------------------------
(***************************************************************************)
(* Small instances of Runtime.  Three models, two of one size and one that *)
(* is larger; limits chosen so that both refusals happen, and so that what *)
(* fits depends on which loads came first.  The largest u64 is scaled down *)
(* with the weights, so a sum beyond it is reached too.                    *)
(***************************************************************************)
EXTENDS Runtime, TLC, FiniteSetsExt

CONSTANTS a, b, c

ThreeModels == {a, b, c}

ThreeFootprints == a :> 3 @@ b :> 2 @@ c :> 2

(* The cardinality form of a weight is the sum the ledger folds. *)
ASSUME WeightIsTheSum ==
  \A S \in SUBSET Models :
    Cardinality(Bytes(S)) = MapThenSumSet(LAMBDA m : Footprint[m], S)
=============================================================================
