--------------------------- MODULE ResidentLimits ---------------------------
(***************************************************************************)
(* The admission policy of a runtime: how many models and how many bytes   *)
(* of weights it may hold (mehoy-runtime, resources.rs), and what a set of *)
(* models amounts to against those limits (Ledger::committed, runtime.rs). *)
(*                                                                         *)
(* The code folds the weights of its two maps with a saturating addition.  *)
(* Here the weight of a set of models is the number of its bytes, byte i   *)
(* of model m being the pair <<m, i>>, capped at the largest u64: the same *)
(* number, in a form that cardinality theorems apply to.                   *)
(***************************************************************************)
EXTENDS Integers, FiniteSets

CONSTANTS
  Models,        \* every model some caller may ask to load
  Footprint,     \* the container size each was registered with
  MaxInstances,  \* ResidentLimits::max_instances
  MaxBytes,      \* ResidentLimits::max_weight_bytes, or NoBudget for None
  NoBudget,
  U64Max         \* the largest representable weight

ASSUME ModelsAssumption == IsFiniteSet(Models)

ASSUME LimitsAssumption ==
  /\ U64Max \in Nat
  /\ Footprint \in [Models -> 0..U64Max]
  /\ MaxInstances \in Nat
  /\ MaxBytes \in (0..U64Max) \cup {NoBudget}
  /\ NoBudget \notin Nat

(* The bytes of the models in S. *)
Bytes(S) == {b \in S \X (1..U64Max) : b[2] <= Footprint[b[1]]}

(* ResidentUsage of a ledger that holds S, loads in flight included. *)
Instances(S) == Cardinality(S)

WeightBytes(S) ==
  IF Cardinality(Bytes(S)) > U64Max THEN U64Max ELSE Cardinality(Bytes(S))

(* u64::checked_add yields a total, and the total is within the limit. *)
FitsBudget(committed, requested) ==
  /\ committed + requested <= U64Max
  /\ committed + requested <= MaxBytes

(* ResidentLimits::admits: the count is judged before the bytes. *)
Verdict(S, m) ==
  CASE Instances(S) >= MaxInstances -> "Instances"
    [] /\ Instances(S) < MaxInstances
       /\ MaxBytes # NoBudget
       /\ ~FitsBudget(WeightBytes(S), Footprint[m]) -> "WeightBytes"
    [] OTHER -> "Admitted"

(* What the limits promise of any set of models held together. *)
WithinLimits(S) ==
  /\ Cardinality(S) <= MaxInstances
  /\ MaxBytes # NoBudget => Cardinality(Bytes(S)) <= MaxBytes
=============================================================================
