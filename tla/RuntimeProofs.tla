---------------------------- MODULE RuntimeProofs ----------------------------
(***************************************************************************)
(* What the ledger of Runtime guarantees for every set of models, every    *)
(* footprint and every limit: LedgerInv is inductive, and with it the      *)
(* ledger implements ResidentCapacity.                                     *)
(***************************************************************************)
EXTENDS Runtime, FiniteSetTheorems, TLAPS

(* The admission policy is exact: with what is held within the limits, a   *)
(* model is admitted if and only if holding it too stays within them.      *)

(* Any set of models has finitely many bytes. *)
LEMMA BytesFinite ==
  ASSUME NEW S \in SUBSET Models
  PROVE  IsFiniteSet(S) /\ IsFiniteSet(Bytes(S))
<1>1. IsFiniteSet(S)
  BY ModelsAssumption, FS_Subset
<1>2. IsFiniteSet(1..U64Max)
  BY LimitsAssumption, FS_Interval
<1>3. IsFiniteSet(S \X (1..U64Max))
  BY <1>1, <1>2, FS_Product
<1>4. Bytes(S) \subseteq S \X (1..U64Max)
  BY DEF Bytes
<1> QED
  BY <1>1, <1>3, <1>4, FS_Subset

LEMMA UpTo ==
  ASSUME NEW k \in Nat
  PROVE  IsFiniteSet(1..k) /\ Cardinality(1..k) = k
<1>1. 1 \in Int /\ k \in Int
  OBVIOUS
<1>2. IsFiniteSet(1..k) /\ Cardinality(1..k) = IF 1 > k THEN 0 ELSE k - 1 + 1
  BY <1>1, FS_Interval, Zenon
<1> QED
  BY <1>2

LEMMA DisjointUnion ==
  ASSUME NEW A, NEW B, IsFiniteSet(A), IsFiniteSet(B), A \cap B = {}
  PROVE  Cardinality(A \cup B) = Cardinality(A) + Cardinality(B)
<1>1. Cardinality(A \cup B) = Cardinality(A) + Cardinality(B) - Cardinality(A \cap B)
  BY FS_Union, Zenon
<1>2. Cardinality(A \cap B) = 0
  BY FS_EmptySet
<1>3. Cardinality(A) \in Nat /\ Cardinality(B) \in Nat
  BY FS_CardinalityType
<1> QED
  BY <1>1, <1>2, <1>3

(* One model has as many bytes as its footprint says. *)
LEMMA BytesOfOne ==
  ASSUME NEW m \in Models
  PROVE  Cardinality(Bytes({m})) = Footprint[m]
<1>1. Footprint[m] \in 0..U64Max /\ U64Max \in Nat
  BY LimitsAssumption
<1>2. Bytes({m}) = {m} \X (1..Footprint[m])
  <2>1. ASSUME NEW e \in Bytes({m})
        PROVE  e \in {m} \X (1..Footprint[m])
    BY <1>1, <2>1 DEF Bytes
  <2>2. ASSUME NEW e \in {m} \X (1..Footprint[m])
        PROVE  e \in Bytes({m})
    BY <1>1, <2>2 DEF Bytes
  <2> QED
    BY <2>1, <2>2
<1>3. IsFiniteSet({m}) /\ Cardinality({m}) = 1
  BY FS_Singleton
<1>4. IsFiniteSet(1..Footprint[m]) /\ Cardinality(1..Footprint[m]) = Footprint[m]
  <2>1. Footprint[m] \in Nat
    BY <1>1
  <2> QED
    BY <2>1, UpTo
<1>5. Cardinality({m} \X (1..Footprint[m])) = 1 * Footprint[m]
  <2>1. Cardinality({m} \X (1..Footprint[m]))
          = Cardinality({m}) * Cardinality(1..Footprint[m])
    BY <1>3, <1>4, FS_Product, Zenon
  <2> QED
    BY <1>3, <1>4, <2>1
<1>6. 1 * Footprint[m] = Footprint[m]
  BY <1>1
<1> QED
  BY <1>2, <1>5, <1>6

(* Holding one more model adds its footprint, and takes one more place. *)
LEMMA BytesAdd ==
  ASSUME NEW S \in SUBSET Models, NEW m \in Models, m \notin S
  PROVE  /\ Cardinality(Bytes(S \cup {m})) = Cardinality(Bytes(S)) + Footprint[m]
         /\ Cardinality(S \cup {m}) = Cardinality(S) + 1
<1>1. Bytes(S \cup {m}) = Bytes(S) \cup Bytes({m})
  <2>1. ASSUME NEW e \in Bytes(S \cup {m})
        PROVE  e \in Bytes(S) \cup Bytes({m})
    BY <2>1 DEF Bytes
  <2>2. ASSUME NEW e \in Bytes(S) \cup Bytes({m})
        PROVE  e \in Bytes(S \cup {m})
    BY <2>2 DEF Bytes
  <2> QED
    BY <2>1, <2>2
<1>2. Bytes(S) \cap Bytes({m}) = {}
  BY DEF Bytes
<1>3. IsFiniteSet(Bytes(S)) /\ IsFiniteSet(Bytes({m})) /\ IsFiniteSet(S)
  BY BytesFinite
<1>4. Cardinality(Bytes(S) \cup Bytes({m}))
        = Cardinality(Bytes(S)) + Cardinality(Bytes({m}))
  BY <1>2, <1>3, DisjointUnion
<1>5. Cardinality(S \cup {m}) = Cardinality(S) + 1
  BY <1>3, FS_AddElement
<1> QED
  BY <1>1, <1>4, <1>5, BytesOfOne

(* Letting go of models cannot break a limit, and holding none respects both. *)
LEMMA WithinLimitsShrinks ==
  ASSUME NEW S \in SUBSET Models, NEW T \in SUBSET S, WithinLimits(S)
  PROVE  WithinLimits(T)
<1>1. IsFiniteSet(S) /\ IsFiniteSet(Bytes(S))
  BY BytesFinite
<1>2. Bytes(T) \subseteq Bytes(S)
  BY DEF Bytes
<1>3. /\ Cardinality(T) \in Nat /\ Cardinality(S) \in Nat
      /\ Cardinality(Bytes(T)) \in Nat /\ Cardinality(Bytes(S)) \in Nat
  BY BytesFinite, FS_CardinalityType
<1>4. Cardinality(T) <= Cardinality(S) /\ Cardinality(Bytes(T)) <= Cardinality(Bytes(S))
  BY <1>1, <1>2, FS_Subset
<1> QED
  BY <1>3, <1>4, LimitsAssumption DEF WithinLimits

LEMMA WithinLimitsEmpty == WithinLimits({})
<1>1. Bytes({}) = {}
  BY DEF Bytes
<1> QED
  BY <1>1, FS_EmptySet, LimitsAssumption DEF WithinLimits

(* ResidentLimits::admits is exact, checked addition included: a total     *)
(* that u64 cannot hold never fits, and nothing that fits is turned away.  *)
THEOREM VerdictIsExact ==
  ASSUME NEW S \in SUBSET Models, NEW m \in Models, m \notin S, WithinLimits(S)
  PROVE  Verdict(S, m) = "Admitted" <=> WithinLimits(S \cup {m})
<1> DEFINE n == Cardinality(S)
           w == Cardinality(Bytes(S))
<1>1. n \in Nat /\ w \in Nat
  BY BytesFinite, FS_CardinalityType
<1>2. Footprint[m] \in Nat /\ U64Max \in Nat /\ MaxInstances \in Nat
  BY LimitsAssumption
<1>3. /\ Cardinality(S \cup {m}) = n + 1
      /\ Cardinality(Bytes(S \cup {m})) = w + Footprint[m]
  BY BytesAdd
<1>4. WithinLimits(S \cup {m})
        <=> /\ n + 1 <= MaxInstances
            /\ MaxBytes # NoBudget => w + Footprint[m] <= MaxBytes
  BY <1>3 DEF WithinLimits
<1>5. Verdict(S, m) = "Admitted"
        <=> /\ ~(n >= MaxInstances)
            /\ ~(/\ n < MaxInstances
                 /\ MaxBytes # NoBudget
                 /\ ~FitsBudget(WeightBytes(S), Footprint[m]))
  BY <1>1, <1>2 DEF Verdict, Instances
<1>6. CASE MaxBytes = NoBudget
  BY <1>1, <1>2, <1>4, <1>5, <1>6
<1>7. CASE MaxBytes # NoBudget
  <2>1. MaxBytes \in 0..U64Max
    BY <1>7, LimitsAssumption
  <2>2. w <= MaxBytes
    BY <1>7 DEF WithinLimits
  <2>3. WeightBytes(S) = w
    BY <1>1, <1>2, <2>1, <2>2 DEF WeightBytes
  <2>4. FitsBudget(WeightBytes(S), Footprint[m]) <=> w + Footprint[m] <= MaxBytes
    BY <1>1, <1>2, <2>1, <2>3 DEF FitsBudget
  <2> HIDE DEF n, w
  <2> QED
    BY <1>1, <1>2, <1>4, <1>5, <1>7, <2>4
<1> QED
  BY <1>6, <1>7

-----------------------------------------------------------------------------
LEMMA InitLedger == Init => LedgerInv
<1> SUFFICES ASSUME Init
             PROVE  LedgerInv
  OBVIOUS
<1>1. TypeOK
  BY DEF Init, TypeOK, LoadStages, Phases, UnloadStages, Outcomes
<1>2. LimitsHeld
  <2>1. Committed = {}
    BY DEF Init, Committed
  <2> QED
    BY <2>1, WithinLimitsEmpty DEF LimitsHeld
<1>3. /\ ReservationsAreLoadsInFlight /\ UnfinishedKeepsEntry /\ SoleTeardown
      /\ PhaseFollowsLoad /\ ResidentIsLoaded /\ UnloadedIsGone
      /\ CallsHaveTargets /\ TeardownIsUnloading
  BY DEF Init, ReservationsAreLoadsInFlight, InFlight, UnfinishedKeepsEntry, SoleTeardown,
         PhaseFollowsLoad, ResidentIsLoaded, UnloadedIsGone, CallsHaveTargets,
         TeardownIsUnloading
<1> QED
  BY <1>1, <1>2, <1>3 DEF LedgerInv

(* Only a reservation adds to what is committed, and only with a verdict. *)
LEMMA LimitsHeldStep ==
  ASSUME LedgerInv, [Next]_vars
  PROVE  LimitsHeld'
<1>1. pending \in SUBSET Models /\ resident \in SUBSET Models /\ Committed \in SUBSET Models
  BY DEF LedgerInv, TypeOK, Committed
<1>2. ASSUME NEW m \in Models, Reserve(m)
      PROVE  LimitsHeld'
  <2>1. Committed' = Committed \cup {m}
    BY <1>2 DEF Reserve, Committed
  <2>2. m \notin Committed
    BY <1>2 DEF Reserve, Committed, LedgerInv, ReservationsAreLoadsInFlight, InFlight,
                ResidentIsLoaded
  <2>3. WithinLimits(Committed \cup {m})
    BY <1>1, <1>2, <2>2, VerdictIsExact DEF Reserve, LedgerInv, LimitsHeld
  <2> QED
    BY <2>1, <2>3 DEF LimitsHeld
<1>3. ASSUME Committed' \subseteq Committed
      PROVE  LimitsHeld'
  BY <1>1, <1>3, WithinLimitsShrinks DEF LedgerInv, LimitsHeld
<1>4. ASSUME NEW m \in Models, \/ LoadStep(m) /\ ~Reserve(m)
                            \/ Identified(m) \/ DropLoad(m) \/ WorkerExits(m)
      PROVE  Committed' \subseteq Committed
  BY <1>4
  DEF LoadStep, Refuse, UnknownArtifact, FailPreparation, Identify, Identified, StartBackend,
      FailStart, FailCommit, RollBack, Fulfil, DropLoad, WorkerExits, Committed, ledger,
      loading, LedgerInv, ReservationsAreLoadsInFlight, InFlight
<1>5. ASSUME NEW u \in Unloads, UnloadStep(u) \/ DropUnload(u)
      PROVE  Committed' \subseteq Committed
  BY <1>5 DEF UnloadStep, Close, FindClosed, StopBackend, FailStop, Conclude, DropUnload,
              Committed, loading
<1>6. ASSUME NEW u \in Unloads, NEW m \in Models, Resolve(u, m) \/ ResolveUnknown(u, m)
      PROVE  Committed' \subseteq Committed
  BY <1>6 DEF Resolve, ResolveUnknown, Committed, loading
<1>7. CASE UNCHANGED vars
  BY <1>3, <1>7 DEF vars, Committed
<1> QED
  BY <1>2, <1>3, <1>4, <1>5, <1>6, <1>7 DEF Next

(* The parts of the invariant that do not speak of limits. *)
LedgerShape ==
  /\ TypeOK
  /\ ReservationsAreLoadsInFlight
  /\ UnfinishedKeepsEntry
  /\ SoleTeardown
  /\ PhaseFollowsLoad
  /\ ResidentIsLoaded
  /\ UnloadedIsGone
  /\ CallsHaveTargets
  /\ TeardownIsUnloading

LEMMA LoadShape ==
  ASSUME LedgerShape, NEW m \in Models,
         LoadStep(m) \/ Identified(m) \/ DropLoad(m) \/ WorkerExits(m)
  PROVE  LedgerShape'
<1> USE DEF LedgerShape, TypeOK, ReservationsAreLoadsInFlight, UnfinishedKeepsEntry,
            SoleTeardown, PhaseFollowsLoad, ResidentIsLoaded, UnloadedIsGone,
            CallsHaveTargets, TeardownIsUnloading, LoadStages, InFlight, Phases, ledger,
            loading, unloading, KillTried
<1>1. CASE Reserve(m)
  <2>1. TypeOK'
    BY <1>1 DEF Reserve
  <2>2. ReservationsAreLoadsInFlight'
    BY <1>1 DEF Reserve
  <2>3. PhaseFollowsLoad' /\ ResidentIsLoaded'
    BY <1>1 DEF Reserve
  <2>4. UnfinishedKeepsEntry' /\ UnloadedIsGone'
    BY <1>1 DEF Reserve
  <2>5. CallsHaveTargets' /\ TeardownIsUnloading'
    BY <1>1 DEF Reserve
  <2>6. SoleTeardown'
    BY <1>1 DEF Reserve
  <2> QED
    BY <2>1, <2>2, <2>3, <2>4, <2>5, <2>6
<1>2. CASE Refuse(m)
  <2>1. TypeOK'
    BY <1>2 DEF Refuse
  <2>2. ReservationsAreLoadsInFlight'
    BY <1>2 DEF Refuse
  <2>3. PhaseFollowsLoad' /\ ResidentIsLoaded'
    BY <1>2 DEF Refuse
  <2>4. UnfinishedKeepsEntry' /\ UnloadedIsGone'
    BY <1>2 DEF Refuse
  <2>5. CallsHaveTargets' /\ TeardownIsUnloading'
    BY <1>2 DEF Refuse
  <2>6. SoleTeardown'
    BY <1>2 DEF Refuse
  <2> QED
    BY <2>1, <2>2, <2>3, <2>4, <2>5, <2>6
<1>3. CASE UnknownArtifact(m)
  <2>1. TypeOK'
    BY <1>3 DEF UnknownArtifact
  <2>2. ReservationsAreLoadsInFlight'
    BY <1>3 DEF UnknownArtifact
  <2>3. PhaseFollowsLoad' /\ ResidentIsLoaded'
    BY <1>3 DEF UnknownArtifact
  <2>4. UnfinishedKeepsEntry' /\ UnloadedIsGone'
    BY <1>3 DEF UnknownArtifact
  <2>5. CallsHaveTargets' /\ TeardownIsUnloading'
    BY <1>3 DEF UnknownArtifact
  <2>6. SoleTeardown'
    BY <1>3 DEF UnknownArtifact
  <2> QED
    BY <2>1, <2>2, <2>3, <2>4, <2>5, <2>6
<1>4. CASE FailPreparation(m)
  <2>1. TypeOK'
    BY <1>4 DEF FailPreparation
  <2>2. ReservationsAreLoadsInFlight'
    BY <1>4 DEF FailPreparation
  <2>3. PhaseFollowsLoad' /\ ResidentIsLoaded'
    BY <1>4 DEF FailPreparation
  <2>4. UnfinishedKeepsEntry' /\ UnloadedIsGone'
    BY <1>4 DEF FailPreparation
  <2>5. CallsHaveTargets' /\ TeardownIsUnloading'
    BY <1>4 DEF FailPreparation
  <2>6. SoleTeardown'
    BY <1>4 DEF FailPreparation
  <2> QED
    BY <2>1, <2>2, <2>3, <2>4, <2>5, <2>6
<1>5. CASE StartBackend(m)
  <2>1. TypeOK'
    BY <1>5 DEF StartBackend
  <2>6. ReservationsAreLoadsInFlight'
    BY <1>5 DEF StartBackend
  <2>2. PhaseFollowsLoad' /\ ResidentIsLoaded'
    BY <1>5 DEF StartBackend
  <2>3. UnfinishedKeepsEntry' /\ UnloadedIsGone'
    BY <1>5 DEF StartBackend
  <2>4. CallsHaveTargets' /\ TeardownIsUnloading'
    BY <1>5 DEF StartBackend
  <2>5. SoleTeardown'
    BY <1>5 DEF StartBackend
  <2> QED
    BY <2>1, <2>2, <2>3, <2>4, <2>5, <2>6
<1>6. CASE FailStart(m)
  <2>1. TypeOK'
    BY <1>6 DEF FailStart
  <2>2. ReservationsAreLoadsInFlight'
    BY <1>6 DEF FailStart
  <2>3. PhaseFollowsLoad' /\ ResidentIsLoaded'
    BY <1>6 DEF FailStart
  <2>4. UnfinishedKeepsEntry' /\ UnloadedIsGone'
    BY <1>6 DEF FailStart
  <2>5. CallsHaveTargets' /\ TeardownIsUnloading'
    BY <1>6 DEF FailStart
  <2>6. SoleTeardown'
    BY <1>6 DEF FailStart
  <2> QED
    BY <2>1, <2>2, <2>3, <2>4, <2>5, <2>6
<1>7. CASE FailCommit(m)
  <2>1. TypeOK'
    BY <1>7 DEF FailCommit
  <2>6. ReservationsAreLoadsInFlight'
    BY <1>7 DEF FailCommit
  <2>2. PhaseFollowsLoad' /\ ResidentIsLoaded'
    BY <1>7 DEF FailCommit
  <2>3. UnfinishedKeepsEntry' /\ UnloadedIsGone'
    BY <1>7 DEF FailCommit
  <2>4. CallsHaveTargets' /\ TeardownIsUnloading'
    BY <1>7 DEF FailCommit
  <2>5. SoleTeardown'
    BY <1>7 DEF FailCommit
  <2> QED
    BY <2>1, <2>2, <2>3, <2>4, <2>5, <2>6
<1>8. CASE RollBack(m)
  <2>1. TypeOK'
    BY <1>8 DEF RollBack
  <2>2. ReservationsAreLoadsInFlight'
    BY <1>8 DEF RollBack
  <2>3. PhaseFollowsLoad' /\ ResidentIsLoaded'
    BY <1>8 DEF RollBack
  <2>4. UnfinishedKeepsEntry' /\ UnloadedIsGone'
    BY <1>8 DEF RollBack
  <2>5. CallsHaveTargets' /\ TeardownIsUnloading'
    BY <1>8 DEF RollBack
  <2>6. SoleTeardown'
    BY <1>8 DEF RollBack
  <2> QED
    BY <2>1, <2>2, <2>3, <2>4, <2>5, <2>6
<1>9. CASE Fulfil(m)
  <2>1. TypeOK'
    BY <1>9 DEF Fulfil
  <2>2. ReservationsAreLoadsInFlight'
    BY <1>9 DEF Fulfil
  <2>3. PhaseFollowsLoad' /\ ResidentIsLoaded'
    BY <1>9 DEF Fulfil
  <2>4. UnfinishedKeepsEntry' /\ UnloadedIsGone'
    BY <1>9 DEF Fulfil
  <2>5. CallsHaveTargets' /\ TeardownIsUnloading'
    BY <1>9 DEF Fulfil
  <2>6. SoleTeardown'
    BY <1>9 DEF Fulfil
  <2> QED
    BY <2>1, <2>2, <2>3, <2>4, <2>5, <2>6
<1>10. CASE DropLoad(m)
  <2>1. TypeOK'
    BY <1>10 DEF DropLoad
  <2>2. ReservationsAreLoadsInFlight'
    BY <1>10 DEF DropLoad
  <2>3. PhaseFollowsLoad' /\ ResidentIsLoaded'
    BY <1>10 DEF DropLoad
  <2>4. UnfinishedKeepsEntry' /\ UnloadedIsGone'
    BY <1>10 DEF DropLoad
  <2>5. CallsHaveTargets' /\ TeardownIsUnloading'
    BY <1>10 DEF DropLoad
  <2>6. SoleTeardown'
    BY <1>10 DEF DropLoad
  <2> QED
    BY <2>1, <2>2, <2>3, <2>4, <2>5, <2>6
<1>11. CASE WorkerExits(m)
  <2>1. TypeOK'
    BY <1>11 DEF WorkerExits
  <2>2. ReservationsAreLoadsInFlight'
    BY <1>11 DEF WorkerExits
  <2>3. PhaseFollowsLoad' /\ ResidentIsLoaded'
    BY <1>11 DEF WorkerExits
  <2>4. UnfinishedKeepsEntry' /\ UnloadedIsGone'
    BY <1>11 DEF WorkerExits
  <2>5. CallsHaveTargets' /\ TeardownIsUnloading'
    BY <1>11 DEF WorkerExits
  <2>6. SoleTeardown'
    BY <1>11 DEF WorkerExits
  <2> QED
    BY <2>1, <2>2, <2>3, <2>4, <2>5, <2>6
<1>12. CASE Identify(m)
  <2>1. TypeOK'
    BY <1>12 DEF Identify
  <2>6. ReservationsAreLoadsInFlight'
    BY <1>12 DEF Identify
  <2>2. PhaseFollowsLoad' /\ ResidentIsLoaded'
    BY <1>12 DEF Identify
  <2>3. UnfinishedKeepsEntry' /\ UnloadedIsGone'
    BY <1>12 DEF Identify
  <2>4. CallsHaveTargets' /\ TeardownIsUnloading'
    BY <1>12 DEF Identify
  <2>5. SoleTeardown'
    BY <1>12 DEF Identify
  <2> QED
    BY <2>1, <2>2, <2>3, <2>4, <2>5, <2>6
<1>13. CASE Identified(m)
  <2>1. TypeOK'
    BY <1>13 DEF Identified
  <2>6. ReservationsAreLoadsInFlight'
    BY <1>13 DEF Identified
  <2>2. PhaseFollowsLoad' /\ ResidentIsLoaded'
    BY <1>13 DEF Identified
  <2>3. UnfinishedKeepsEntry' /\ UnloadedIsGone'
    BY <1>13 DEF Identified
  <2>4. CallsHaveTargets' /\ TeardownIsUnloading'
    BY <1>13 DEF Identified
  <2>5. SoleTeardown'
    BY <1>13 DEF Identified
  <2> QED
    BY <2>1, <2>2, <2>3, <2>4, <2>5, <2>6
<1> QED
  BY <1>1, <1>2, <1>3, <1>4, <1>5, <1>6, <1>7, <1>8, <1>9, <1>10, <1>11,
     <1>12, <1>13 DEF LoadStep

(* A step after which no call is tearing down that was not before, and none *)
(* has another target, leaves teardowns exclusive.                         *)
LEMMA SoleStays ==
  ASSUME SoleTeardown,
         \A v \in Unloads :
           unload'[v] = "tearing down" => unload[v] = "tearing down" /\ target'[v] = target[v]
  PROVE  SoleTeardown'
BY DEF SoleTeardown

(* The call that closes an instance finds no other tearing it down. *)
LEMMA SoleBegins ==
  ASSUME TypeOK, SoleTeardown, TeardownIsUnloading, NEW u \in Unloads, Close(u)
  PROVE  SoleTeardown'
<1>1. \A v \in Unloads : unload[v] = "tearing down" => target[v] # target[u]
  BY DEF Close, TeardownIsUnloading
<1>2. target' = target /\ unload' = [unload EXCEPT ![u] = "tearing down"]
  BY DEF Close, loading
<1>3. \A v \in Unloads : v # u => unload'[v] = unload[v]
  BY <1>2 DEF TypeOK
<1> QED
  BY <1>1, <1>2, <1>3 DEF SoleTeardown

LEMMA UnloadShape ==
  ASSUME LedgerShape, NEW u \in Unloads,
         \/ UnloadStep(u) \/ DropUnload(u)
         \/ \E m \in Models : Resolve(u, m) \/ ResolveUnknown(u, m)
  PROVE  LedgerShape'
<1> USE DEF LedgerShape, TypeOK, ReservationsAreLoadsInFlight, UnfinishedKeepsEntry,
            SoleTeardown, PhaseFollowsLoad, ResidentIsLoaded, UnloadedIsGone,
            CallsHaveTargets, TeardownIsUnloading, UnloadStages, Outcomes, Phases,
            ledger, loading, unloading, KillTried
<1>1. ASSUME NEW m \in Models, Resolve(u, m)
      PROVE  LedgerShape'
  <2>1. TypeOK'
    BY <1>1 DEF Resolve
  <2>6. ReservationsAreLoadsInFlight'
    BY <1>1 DEF Resolve
  <2>2. PhaseFollowsLoad' /\ ResidentIsLoaded'
    BY <1>1 DEF Resolve
  <2>3. UnfinishedKeepsEntry' /\ UnloadedIsGone'
    BY <1>1 DEF Resolve
  <2>4. CallsHaveTargets' /\ TeardownIsUnloading'
    BY <1>1 DEF Resolve
  <2>5. SoleTeardown'
    <3>1. \A v \in Unloads :
            unload'[v] = "tearing down" => unload[v] = "tearing down" /\ target'[v] = target[v]
      BY <1>1 DEF Resolve
    <3> QED
      BY <3>1, SoleStays
  <2> QED
    BY <2>1, <2>2, <2>3, <2>4, <2>5, <2>6
<1>2. ASSUME NEW m \in Models, ResolveUnknown(u, m)
      PROVE  LedgerShape'
  <2>1. TypeOK'
    BY <1>2 DEF ResolveUnknown
  <2>6. ReservationsAreLoadsInFlight'
    BY <1>2 DEF ResolveUnknown
  <2>2. PhaseFollowsLoad' /\ ResidentIsLoaded'
    BY <1>2 DEF ResolveUnknown
  <2>3. UnfinishedKeepsEntry' /\ UnloadedIsGone'
    BY <1>2 DEF ResolveUnknown
  <2>4. CallsHaveTargets' /\ TeardownIsUnloading'
    BY <1>2 DEF ResolveUnknown
  <2>5. SoleTeardown'
    <3>1. \A v \in Unloads :
            unload'[v] = "tearing down" => unload[v] = "tearing down" /\ target'[v] = target[v]
      BY <1>2 DEF ResolveUnknown
    <3> QED
      BY <3>1, SoleStays
  <2> QED
    BY <2>1, <2>2, <2>3, <2>4, <2>5, <2>6
<1>3. CASE Close(u)
  <2>1. TypeOK'
    BY <1>3 DEF Close
  <2>6. ReservationsAreLoadsInFlight'
    BY <1>3 DEF Close
  <2>2. PhaseFollowsLoad' /\ ResidentIsLoaded'
    BY <1>3 DEF Close
  <2>3. UnfinishedKeepsEntry' /\ UnloadedIsGone'
    BY <1>3 DEF Close
  <2>4. CallsHaveTargets' /\ TeardownIsUnloading'
    BY <1>3 DEF Close
  <2>5. SoleTeardown'
    BY <1>3, SoleBegins
  <2> QED
    BY <2>1, <2>2, <2>3, <2>4, <2>5, <2>6
<1>4. CASE FindClosed(u)
  <2>1. TypeOK'
    BY <1>4 DEF FindClosed, AnswerTo
  <2>2. ReservationsAreLoadsInFlight'
    BY <1>4 DEF FindClosed, AnswerTo
  <2>3. PhaseFollowsLoad' /\ ResidentIsLoaded'
    BY <1>4 DEF FindClosed, AnswerTo
  <2>4. UnfinishedKeepsEntry' /\ UnloadedIsGone'
    BY <1>4 DEF FindClosed, AnswerTo
  <2>5. CallsHaveTargets' /\ TeardownIsUnloading'
    BY <1>4 DEF FindClosed, AnswerTo
  <2>6. SoleTeardown'
    <3>1. \A v \in Unloads :
            unload'[v] = "tearing down" => unload[v] = "tearing down" /\ target'[v] = target[v]
      BY <1>4 DEF FindClosed
    <3> QED
      BY <3>1, SoleStays
  <2> QED
    BY <2>1, <2>2, <2>3, <2>4, <2>5, <2>6
<1>5. CASE StopBackend(u)
  <2>1. TypeOK'
    BY <1>5 DEF StopBackend
  <2>2. ReservationsAreLoadsInFlight'
    BY <1>5 DEF StopBackend
  <2>3. PhaseFollowsLoad' /\ ResidentIsLoaded'
    BY <1>5 DEF StopBackend
  <2>4. UnfinishedKeepsEntry' /\ UnloadedIsGone'
    BY <1>5 DEF StopBackend
  <2>5. CallsHaveTargets' /\ TeardownIsUnloading'
    BY <1>5 DEF StopBackend
  <2>6. SoleTeardown'
    <3>1. \A v \in Unloads :
            unload'[v] = "tearing down" => unload[v] = "tearing down" /\ target'[v] = target[v]
      BY <1>5 DEF StopBackend
    <3> QED
      BY <3>1, SoleStays
  <2> QED
    BY <2>1, <2>2, <2>3, <2>4, <2>5, <2>6
<1>6. CASE FailStop(u)
  <2>1. TypeOK'
    BY <1>6 DEF FailStop
  <2>2. ReservationsAreLoadsInFlight'
    BY <1>6 DEF FailStop
  <2>3. PhaseFollowsLoad' /\ ResidentIsLoaded'
    BY <1>6 DEF FailStop
  <2>4. UnfinishedKeepsEntry' /\ UnloadedIsGone'
    BY <1>6 DEF FailStop
  <2>5. CallsHaveTargets' /\ TeardownIsUnloading'
    BY <1>6 DEF FailStop
  <2>6. SoleTeardown'
    <3>1. \A v \in Unloads :
            unload'[v] = "tearing down" => unload[v] = "tearing down" /\ target'[v] = target[v]
      BY <1>6 DEF FailStop
    <3> QED
      BY <3>1, SoleStays
  <2> QED
    BY <2>1, <2>2, <2>3, <2>4, <2>5, <2>6
<1>7. CASE DropUnload(u)
  <2>1. TypeOK'
    BY <1>7 DEF DropUnload
  <2>2. ReservationsAreLoadsInFlight'
    BY <1>7 DEF DropUnload
  <2>3. PhaseFollowsLoad' /\ ResidentIsLoaded'
    BY <1>7 DEF DropUnload
  <2>4. UnfinishedKeepsEntry' /\ UnloadedIsGone'
    BY <1>7 DEF DropUnload
  <2>5. CallsHaveTargets' /\ TeardownIsUnloading'
    BY <1>7 DEF DropUnload
  <2>6. SoleTeardown'
    <3>1. \A v \in Unloads :
            unload'[v] = "tearing down" => unload[v] = "tearing down" /\ target'[v] = target[v]
      BY <1>7 DEF DropUnload
    <3> QED
      BY <3>1, SoleStays
  <2> QED
    BY <2>1, <2>2, <2>3, <2>4, <2>5, <2>6
<1>8. CASE Conclude(u)
  <2>1. TypeOK'
    BY <1>8 DEF Conclude, Releases
  <2>2. ReservationsAreLoadsInFlight'
    BY <1>8 DEF Conclude, Releases
  <2>3. PhaseFollowsLoad' /\ ResidentIsLoaded'
    BY <1>8 DEF Conclude, Releases
  <2>4. UnfinishedKeepsEntry' /\ UnloadedIsGone'
    BY <1>8 DEF Conclude, Releases
  <2>5. CallsHaveTargets' /\ TeardownIsUnloading'
    BY <1>8 DEF Conclude, Releases
  <2>6. SoleTeardown'
    <3>1. \A v \in Unloads :
            unload'[v] = "tearing down" => unload[v] = "tearing down" /\ target'[v] = target[v]
      BY <1>8 DEF Conclude
    <3> QED
      BY <3>1, SoleStays
  <2> QED
    BY <2>1, <2>2, <2>3, <2>4, <2>5, <2>6
<1> QED
  BY <1>1, <1>2, <1>3, <1>4, <1>5, <1>6, <1>7, <1>8 DEF UnloadStep

LEMMA LedgerStep == LedgerInv /\ [Next]_vars => LedgerInv'
<1> SUFFICES ASSUME LedgerInv, [Next]_vars
             PROVE  LedgerInv'
  OBVIOUS
<1>1. LedgerShape
  BY DEF LedgerInv, LedgerShape
<1>2. ASSUME NEW m \in Models, LoadStep(m) \/ Identified(m) \/ DropLoad(m) \/ WorkerExits(m)
      PROVE  LedgerShape'
  BY <1>1, <1>2, LoadShape
<1>3. ASSUME NEW u \in Unloads,
             \/ UnloadStep(u) \/ DropUnload(u)
             \/ \E m \in Models : Resolve(u, m) \/ ResolveUnknown(u, m)
      PROVE  LedgerShape'
  BY <1>1, <1>3, UnloadShape
<1>4. ASSUME UNCHANGED vars
      PROVE  LedgerShape'
  <2> USE <1>1, <1>4 DEF vars, LedgerShape
  <2>1. TypeOK' /\ ReservationsAreLoadsInFlight'
    BY DEF TypeOK, ReservationsAreLoadsInFlight
  <2>2. PhaseFollowsLoad' /\ ResidentIsLoaded' /\ UnfinishedKeepsEntry' /\ UnloadedIsGone'
    BY DEF PhaseFollowsLoad, ResidentIsLoaded, UnfinishedKeepsEntry, UnloadedIsGone
  <2>3. CallsHaveTargets' /\ TeardownIsUnloading' /\ SoleTeardown'
    BY DEF CallsHaveTargets, TeardownIsUnloading, SoleTeardown
  <2> QED
    BY <2>1, <2>2, <2>3
<1>5. LedgerShape'
  BY <1>2, <1>3, <1>4 DEF Next
<1>6. LimitsHeld'
  BY LimitsHeldStep
<1> QED
  BY <1>5, <1>6 DEF LedgerInv, LedgerShape

(* Every reachable ledger satisfies the inductive invariant. *)
THEOREM LedgerInvariant == Spec => []LedgerInv
BY InitLedger, LedgerStep, PTL DEF Spec

(* No interleaving of loads exceeds the instance limit or the byte budget. *)
THEOREM LimitsAlwaysHold == Spec => []LimitsHeld
<1>1. LedgerInv => LimitsHeld
  BY DEF LedgerInv
<1> QED
  BY <1>1, LedgerInvariant, PTL

(* A live worker that was loaded never loses its place in the ledger. *)
THEOREM RunningAlwaysAccounted == Spec => []RunningIsAccounted
<1>1. LedgerInv => RunningIsAccounted
  BY DEF LedgerInv, TypeOK, Phases, PhaseFollowsLoad, UnloadedIsGone, UnfinishedKeepsEntry,
         RunningIsAccounted
<1> QED
  BY <1>1, LedgerInvariant, PTL

(* Two calls never tear the same instance down, and an instance whose      *)
(* teardown is unfinished or failed keeps its entry.                       *)
THEOREM TeardownIsExclusive == Spec => [](SoleTeardown /\ UnfinishedKeepsEntry)
<1>1. LedgerInv => SoleTeardown /\ UnfinishedKeepsEntry
  BY DEF LedgerInv
<1> QED
  BY <1>1, LedgerInvariant, PTL

-----------------------------------------------------------------------------
(* The refinement.                                                         *)

(* What the ledger has committed is what the abstract accounts hold. *)
LEMMA AccountedIsCommitted ==
  ASSUME LedgerInv
  PROVE  /\ Capacity!Accounted = Committed
         /\ Committed \in SUBSET Models
<1>1. Committed \in SUBSET Models
  BY DEF LedgerInv, TypeOK, Committed
<1>2. ASSUME NEW m \in Models
      PROVE  Account[m] \in {"claimed", "resident"} <=> m \in Committed
  BY DEF Account, Committed
<1> QED
  BY <1>1, <1>2 DEF Capacity!Accounted

Alive == {m \in Models : worker[m] = "up"}

LEMMA LoadImplements ==
  ASSUME LedgerInv, LedgerInv', NEW m \in Models,
         LoadStep(m) \/ Identified(m) \/ DropLoad(m) \/ WorkerExits(m)
  PROVE  [Capacity!Next]_(Capacity!vars)
<1> USE DEF LedgerInv, TypeOK, ReservationsAreLoadsInFlight, InFlight, ResidentIsLoaded
<1>1. CASE Reserve(m)
  <2>1. Account[m] = "none"
    BY <1>1 DEF Reserve, Account, Committed
  <2>2. Account' = [Account EXCEPT ![m] = "claimed"]
    BY <1>1 DEF Reserve, Account, Committed
  <2>3. WithinLimits(Capacity!Accounted \cup {m})
    <3>1. Committed' = Committed \cup {m}
      BY <1>1 DEF Reserve, Committed
    <3> QED
      BY <3>1, AccountedIsCommitted DEF LimitsHeld
  <2>4. Alive' = Alive
    BY <1>1 DEF Reserve, Alive
  <2> QED
    BY <2>1, <2>2, <2>3, <2>4 DEF Capacity!Next, Capacity!Claim, Alive
<1>2. CASE \/ Refuse(m) \/ UnknownArtifact(m) \/ FailCommit(m)
           \/ Identify(m) \/ Identified(m)
  <2>1. Account' = Account
    BY <1>2 DEF Refuse, UnknownArtifact, FailCommit, Identify, Identified, Account, Committed,
                ledger
  <2>2. Alive' = Alive
    BY <1>2 DEF Refuse, UnknownArtifact, FailCommit, Identify, Identified, Alive
  <2> QED
    BY <2>1, <2>2 DEF Capacity!vars, Alive
<1>3. CASE StartBackend(m)
  <2>1. Account' = Account /\ Account[m] = "claimed"
    BY <1>3 DEF StartBackend, Account, Committed, ledger
  <2>2. Alive' = Alive \cup {m}
    <3>1. \A n \in Models : worker'[n] = "up" <=> worker[n] = "up" \/ n = m
      BY <1>3 DEF StartBackend
    <3> QED
      BY <3>1 DEF Alive
  <2> QED
    BY <2>1, <2>2 DEF Capacity!Next, Capacity!Start, Alive
<1>4. CASE FailPreparation(m) \/ FailStart(m) \/ RollBack(m) \/ DropLoad(m)
  <2>1. Account[m] = "claimed" /\ Account' = [Account EXCEPT ![m] = "given back"]
    BY <1>4 DEF FailPreparation, FailStart, RollBack, DropLoad, Account, Committed
  <2>2. Alive' = Alive \/ Alive' = Alive \ {m}
    BY <1>4 DEF FailPreparation, FailStart, RollBack, DropLoad, KillTried, Alive
  <2> QED
    BY <2>1, <2>2 DEF Capacity!Next, Capacity!Abandon, Alive
<1>5. CASE Fulfil(m)
  <2>1. Account[m] = "claimed" /\ Account' = [Account EXCEPT ![m] = "resident"]
    BY <1>5 DEF Fulfil, Account, Committed
  <2>2. Alive' = Alive
    BY <1>5 DEF Fulfil, Alive
  <2> QED
    BY <2>1, <2>2 DEF Capacity!Next, Capacity!Settle, Alive
<1>6. CASE WorkerExits(m)
  <2>1. Account' = Account
    BY <1>6 DEF WorkerExits, loading, Account, Committed
  <2>2. Alive' = Alive \ {m}
    BY <1>6 DEF WorkerExits, Alive
  <2> QED
    BY <2>1, <2>2 DEF Capacity!Next, Capacity!Exit, Alive
<1> QED
  BY <1>1, <1>2, <1>3, <1>4, <1>5, <1>6 DEF LoadStep

LEMMA UnloadImplements ==
  ASSUME LedgerInv, NEW u \in Unloads,
         \/ UnloadStep(u) \/ DropUnload(u)
         \/ \E m \in Models : Resolve(u, m) \/ ResolveUnknown(u, m)
  PROVE  [Capacity!Next]_(Capacity!vars)
<1> USE DEF LedgerInv, TypeOK
<1>1. CASE \/ Close(u) \/ FindClosed(u) \/ FailStop(u)
           \/ \E m \in Models : Resolve(u, m) \/ ResolveUnknown(u, m)
  <2>1. Account' = Account
    BY <1>1 DEF Close, FindClosed, FailStop, Resolve, ResolveUnknown, loading, Account, Committed
  <2>2. Alive' = Alive
    BY <1>1 DEF Close, FindClosed, FailStop, Resolve, ResolveUnknown, Alive
  <2> QED
    BY <2>1, <2>2 DEF Capacity!vars, Alive
<1>2. CASE StopBackend(u) \/ DropUnload(u)
  <2>1. target[u] \in Models
    BY <1>2 DEF StopBackend, DropUnload, CallsHaveTargets
  <2>2. Account' = Account
    BY <1>2 DEF StopBackend, DropUnload, loading, Account, Committed
  <2>3. Alive' = Alive \/ Alive' = Alive \ {target[u]}
    BY <1>2, <2>1 DEF StopBackend, DropUnload, KillTried, Alive
  <2> QED
    BY <2>1, <2>2, <2>3 DEF Capacity!Next, Capacity!Exit, Capacity!vars, Alive
<1>3. CASE Conclude(u)
  <2>1. target[u] \in Models
    BY <1>3 DEF Conclude, CallsHaveTargets
  <2>2. Alive' = Alive
    BY <1>3 DEF Conclude, Alive
  <2>3. CASE Releases(u) /\ target[u] \in resident
    <3>1. load[target[u]] = "loaded" /\ target[u] \notin pending
      BY <2>3 DEF ResidentIsLoaded, ReservationsAreLoadsInFlight, InFlight
    <3>2. target[u] \notin Alive
      BY <2>1, <2>3 DEF Releases, UnloadedIsGone, Alive
    <3>3. Account[target[u]] = "resident"
      BY <2>1, <2>3 DEF Account, Committed
    <3>4. Account' = [Account EXCEPT ![target[u]] = "given back"]
      BY <1>3, <2>1, <2>3, <3>1 DEF Conclude, Account, Committed
    <3> QED
      BY <2>1, <2>2, <3>2, <3>3, <3>4 DEF Capacity!Next, Capacity!Release, Alive
  <2>4. CASE ~(Releases(u) /\ target[u] \in resident)
    <3>1. resident' = resident
      BY <1>3, <2>4 DEF Conclude
    <3>2. Account' = Account
      BY <1>3, <3>1 DEF Conclude, Account, Committed
    <3> QED
      BY <2>2, <3>2 DEF Capacity!vars, Alive
  <2> QED
    BY <2>3, <2>4
<1> QED
  BY <1>1, <1>2, <1>3 DEF UnloadStep

(* The ledger keeps the capacity it was configured with. *)
THEOREM LedgerImplementsCapacity == Spec => CapacityKept
<1>1. Init => Capacity!Init
  BY DEF Init, Capacity!Init, Account, Committed
<1>2. LedgerInv /\ LedgerInv' /\ [Next]_vars => [Capacity!Next]_(Capacity!vars)
  <2> SUFFICES ASSUME LedgerInv, LedgerInv', [Next]_vars
               PROVE  [Capacity!Next]_(Capacity!vars)
    OBVIOUS
  <2>1. ASSUME NEW m \in Models, LoadStep(m) \/ Identified(m) \/ DropLoad(m) \/ WorkerExits(m)
        PROVE  [Capacity!Next]_(Capacity!vars)
    BY <2>1, LoadImplements
  <2>2. ASSUME NEW u \in Unloads,
               \/ UnloadStep(u) \/ DropUnload(u)
               \/ \E m \in Models : Resolve(u, m) \/ ResolveUnknown(u, m)
        PROVE  [Capacity!Next]_(Capacity!vars)
    BY <2>2, UnloadImplements
  <2>3. CASE UNCHANGED vars
    BY <2>3 DEF vars, Capacity!vars, Account, Committed
  <2> QED
    BY <2>1, <2>2, <2>3 DEF Next
<1> QED
  BY <1>1, <1>2, LedgerInvariant, PTL DEF Spec, CapacityKept, Capacity!Spec
-----------------------------------------------------------------------------
(* Every teardown is an InstanceTeardown.                                  *)

(* A model that is starting has a worker, a call that has not resolved its *)
(* model has no target, and one that is not answered has no outcome yet.   *)
NothingAhead ==
  /\ \A m \in Models : load[m] \in {"starting", "loaded"} => worker[m] # "none"
  /\ \A u \in Unloads :
       /\ unload[u] \in {"idle", "unknown"} => target[u] = NoModel
       /\ unload[u] \notin {"concluding", "returned"} => outcome[u] = "none"

LEMMA NothingAheadStep ==
  ASSUME LedgerInv, NothingAhead, [Next]_vars
  PROVE  NothingAhead'
<1> USE DEF LedgerInv, TypeOK, NothingAhead
<1>1. ASSUME NEW m \in Models, LoadStep(m) \/ Identified(m) \/ DropLoad(m) \/ WorkerExits(m)
      PROVE  NothingAhead'
  <2>1. UNCHANGED <<unload, target, outcome>>
    BY <1>1 DEF LoadStep, Reserve, Refuse, UnknownArtifact, FailPreparation, Identify,
                Identified, StartBackend, FailStart, FailCommit, RollBack, Fulfil, DropLoad,
                WorkerExits, unloading
  <2>2. CASE \/ Reserve(m) \/ Refuse(m) \/ UnknownArtifact(m) \/ FailPreparation(m)
             \/ Identify(m) \/ Identified(m) \/ FailCommit(m)
    BY <2>1, <2>2 DEF Reserve, Refuse, UnknownArtifact, FailPreparation, Identify, Identified,
                      FailCommit
  <2>3. CASE StartBackend(m) \/ Fulfil(m)
    BY <2>1, <2>3 DEF StartBackend, Fulfil
  <2>4. CASE FailStart(m) \/ RollBack(m) \/ DropLoad(m)
    BY <2>1, <2>4 DEF FailStart, RollBack, DropLoad, KillTried
  <2>5. CASE WorkerExits(m)
    BY <2>1, <2>5 DEF WorkerExits, loading
  <2> QED
    BY <1>1, <2>2, <2>3, <2>4, <2>5 DEF LoadStep
<1>2. ASSUME NEW u \in Unloads,
             \/ UnloadStep(u) \/ DropUnload(u)
             \/ \E m \in Models : Resolve(u, m) \/ ResolveUnknown(u, m)
      PROVE  NothingAhead'
  <2>1. CASE Close(u) \/ FindClosed(u) \/ FailStop(u) \/ Conclude(u)
    BY <2>1 DEF Close, FindClosed, FailStop, Conclude, loading
  <2>2. CASE StopBackend(u) \/ DropUnload(u)
    <3>1. \A m \in Models : worker'[m] \in {worker[m], "gone"}
      <4>1. CASE StopBackend(u)
        BY <4>1 DEF StopBackend
      <4>2. CASE DropUnload(u)
        BY <4>2 DEF DropUnload, KillTried
      <4> QED
        BY <2>2, <4>1, <4>2
    <3>2. load' = load /\ target' = target
      BY <2>2 DEF StopBackend, DropUnload, loading
    <3>3. \A v \in Unloads : /\ unload'[v] \in {unload[v], "concluding", "dropped"}
                             /\ unload'[v] # "concluding" => outcome'[v] = outcome[v]
                             /\ unload'[v] = "dropped" => outcome[v] = "none"
      BY <2>2 DEF StopBackend, DropUnload
    <3> QED
      BY <3>1, <3>2, <3>3
  <2>3. ASSUME NEW m \in Models, Resolve(u, m) \/ ResolveUnknown(u, m)
        PROVE  NothingAhead'
    BY <2>3 DEF Resolve, ResolveUnknown, loading
  <2> QED
    BY <1>2, <2>1, <2>2, <2>3 DEF UnloadStep
<1>3. CASE UNCHANGED vars
  BY <1>3 DEF vars
<1> QED
  BY <1>1, <1>2, <1>3 DEF Next

(* The teardown of one model, written out.                                 *)
PhaseOf(m) == IF phase[m] = "none" THEN "Serving" ELSE phase[m]

WorkerOf(m) == IF phase[m] = "none" THEN "up" ELSE worker[m]

StageOf(m, u) ==
  IF ~Reached(m, u) THEN "idle"
  ELSE IF unload[u] \in {"concluding", "returned"} THEN "answered"
  ELSE unload[u]

OutcomeOf(m, u) == IF Reached(m, u) THEN outcome[u] ELSE "none"

Stages(m) == [u \in Unloads |-> StageOf(m, u)]

Answers(m) == [u \in Unloads |-> OutcomeOf(m, u)]

LEMMA LoadTeardown ==
  ASSUME LedgerInv, LedgerInv', NothingAhead, NEW m \in Models, NEW n \in Models,
         LoadStep(n) \/ Identified(n) \/ DropLoad(n) \/ WorkerExits(n)
  PROVE  [Teardown(m)!Next]_(Teardown(m)!vars)
<1> USE DEF LedgerInv, TypeOK, NothingAhead
<1>1. UNCHANGED unloading
  BY DEF LoadStep, Reserve, Refuse, UnknownArtifact, FailPreparation, Identify, Identified,
         StartBackend, FailStart, FailCommit, RollBack, Fulfil, DropLoad, WorkerExits, unloading
<1>2. \A u \in Unloads : StageOf(m, u)' = StageOf(m, u) /\ OutcomeOf(m, u)' = OutcomeOf(m, u)
  BY <1>1 DEF StageOf, OutcomeOf, Reached, unloading
<1>3. Stages(m)' = Stages(m) /\ Answers(m)' = Answers(m)
  BY <1>2 DEF Stages, Answers
<1>4. PhaseOf(m)' = PhaseOf(m)
  BY DEF LoadStep, Reserve, Refuse, UnknownArtifact, FailPreparation, Identify, Identified,
         StartBackend, FailStart, FailCommit, RollBack, Fulfil, DropLoad, WorkerExits, PhaseOf,
         PhaseFollowsLoad
<1>5. WorkerOf(m)' = WorkerOf(m) \/ WorkerOf(m)' = "gone"
  <2>1. CASE \/ Reserve(n) \/ Refuse(n) \/ UnknownArtifact(n) \/ FailPreparation(n)
             \/ Identify(n) \/ Identified(n) \/ FailCommit(n)
    BY <2>1 DEF Reserve, Refuse, UnknownArtifact, FailPreparation, Identify, Identified,
                FailCommit, WorkerOf
  <2>2. CASE StartBackend(n) \/ FailStart(n) \/ RollBack(n) \/ DropLoad(n)
    BY <2>2 DEF StartBackend, FailStart, RollBack, DropLoad, KillTried, WorkerOf,
                PhaseFollowsLoad
  <2>3. CASE Fulfil(n)
    BY <2>3 DEF Fulfil, WorkerOf, PhaseFollowsLoad
  <2>4. CASE WorkerExits(n)
    BY <2>4 DEF WorkerExits, WorkerOf, loading
  <2> QED
    BY <2>1, <2>2, <2>3, <2>4 DEF LoadStep
<1> QED
  BY <1>3, <1>4, <1>5
  DEF Teardown!Next, Teardown!Exit, Teardown!vars, PhaseOf, WorkerOf, Stages, StageOf, Answers,
      OutcomeOf

(* A call moves the teardown of the model it has reached, and no other.    *)
LEMMA OthersUnmoved ==
  ASSUME LedgerInv, NEW m \in Models, NEW u \in Unloads, ~Reached(m, u), ~Reached(m, u)',
         \/ UnloadStep(u) \/ DropUnload(u)
         \/ \E n \in Models : Resolve(u, n) \/ ResolveUnknown(u, n)
  PROVE  Stages(m)' = Stages(m) /\ Answers(m)' = Answers(m)
<1> USE DEF LedgerInv, TypeOK
<1>1. ASSUME NEW v \in Unloads, v # u
      PROVE  unload'[v] = unload[v] /\ target'[v] = target[v] /\ outcome'[v] = outcome[v]
  BY <1>1 DEF UnloadStep, Close, FindClosed, StopBackend, FailStop, Conclude, DropUnload,
              Resolve, ResolveUnknown
<1>2. ASSUME NEW v \in Unloads
      PROVE  StageOf(m, v)' = StageOf(m, v) /\ OutcomeOf(m, v)' = OutcomeOf(m, v)
  BY <1>1 DEF StageOf, OutcomeOf, Reached
<1> QED
  BY <1>2 DEF Stages, Answers

(* A call that has reached its model takes its stage and its outcome along. *)
LEMMA OwnMoved ==
  ASSUME LedgerInv, NEW m \in Models, NEW u \in Unloads, target[u] = m,
         unload[u] # "resolved" \/ outcome[u] = "none",
         UnloadStep(u) \/ DropUnload(u)
  PROVE  /\ Stages(m)' = [Stages(m) EXCEPT ![u] = StageOf(m, u)']
         /\ Answers(m)' = [Answers(m) EXCEPT ![u] = outcome'[u]]
         /\ Answers(m)[u] = outcome[u]
<1> USE DEF LedgerInv, TypeOK
<1>1. /\ target' = target /\ unload'[u] # "resolved"
      /\ \A v \in Unloads : v # u => unload'[v] = unload[v] /\ outcome'[v] = outcome[v]
  BY DEF UnloadStep, Close, FindClosed, StopBackend, FailStop, Conclude, DropUnload, loading
<1>2. OutcomeOf(m, u)' = outcome'[u] /\ OutcomeOf(m, u) = outcome[u]
  BY <1>1 DEF OutcomeOf, Reached
<1>3. ASSUME NEW v \in Unloads, v # u
      PROVE  StageOf(m, v)' = StageOf(m, v) /\ OutcomeOf(m, v)' = OutcomeOf(m, v)
  BY <1>1, <1>3 DEF StageOf, OutcomeOf, Reached
<1> QED
  BY <1>2, <1>3 DEF Stages, Answers

LEMMA UnloadTeardown ==
  ASSUME LedgerInv, NothingAhead, NEW m \in Models, NEW u \in Unloads,
         \/ UnloadStep(u) \/ DropUnload(u)
         \/ \E n \in Models : Resolve(u, n) \/ ResolveUnknown(u, n)
  PROVE  [Teardown(m)!Next]_(Teardown(m)!vars)
<1> USE DEF LedgerInv, TypeOK, NothingAhead
<1> DEFINE step == [Teardown(m)!Next]_(Teardown(m)!vars)
<1>1. CASE \E n \in Models : Resolve(u, n) \/ ResolveUnknown(u, n)
  <2>1. ~Reached(m, u) /\ ~Reached(m, u)'
    BY <1>1, UnloadsAssumption DEF Resolve, ResolveUnknown, Reached, CallsHaveTargets
  <2>2. Stages(m)' = Stages(m) /\ Answers(m)' = Answers(m)
    BY <1>1, <2>1, OthersUnmoved
  <2>3. PhaseOf(m)' = PhaseOf(m) /\ WorkerOf(m)' = WorkerOf(m)
    BY <1>1 DEF Resolve, ResolveUnknown, PhaseOf, WorkerOf
  <2> QED
    BY <2>2, <2>3 DEF Teardown!vars, PhaseOf, WorkerOf, Stages, StageOf, Answers, OutcomeOf
<1>2. CASE (UnloadStep(u) \/ DropUnload(u)) /\ target[u] # m
  <2>1. target[u] \in Models /\ target' = target
    BY <1>2 DEF UnloadStep, Close, FindClosed, StopBackend, FailStop, Conclude, DropUnload,
                CallsHaveTargets, loading
  <2>2. Stages(m)' = Stages(m) /\ Answers(m)' = Answers(m)
    BY <1>2, <2>1, OthersUnmoved DEF Reached
  <2>3. phase'[m] = phase[m] /\ worker'[m] = worker[m]
    BY <1>2, <2>1
    DEF UnloadStep, Close, FindClosed, StopBackend, FailStop, Conclude, DropUnload, KillTried
  <2> QED
    BY <2>2, <2>3 DEF Teardown!vars, PhaseOf, WorkerOf, Stages, StageOf, Answers, OutcomeOf
<1>3. CASE (UnloadStep(u) \/ DropUnload(u)) /\ target[u] = m
  <2>1. /\ Stages(m)' = [Stages(m) EXCEPT ![u] = StageOf(m, u)']
        /\ Answers(m)' = [Answers(m) EXCEPT ![u] = outcome'[u]]
        /\ Answers(m)[u] = outcome[u]
        /\ Stages(m)[u] = StageOf(m, u)
    BY <1>3, OwnMoved DEF Stages
  <2>2. phase[m] # "none"
    BY <1>3 DEF UnloadStep, Close, FindClosed, StopBackend, FailStop, Conclude, DropUnload,
                CallsHaveTargets, PhaseFollowsLoad
  <2> USE DEF StageOf, Reached
  <2>3. CASE Close(u)
    <3>1. StageOf(m, u) = "idle" /\ StageOf(m, u)' = "tearing down"
      BY <1>3, <2>3 DEF Close
    <3>2. PhaseOf(m) = "Serving" /\ PhaseOf(m)' = "Unloading" /\ WorkerOf(m)' = WorkerOf(m)
      BY <1>3, <2>3 DEF Close, PhaseOf, WorkerOf
    <3>3. Answers(m)' = Answers(m)
      BY <2>1, <2>3 DEF Close, Answers
    <3> QED
      BY <2>1, <3>1, <3>2, <3>3
      DEF Teardown!Next, Teardown!Close, PhaseOf, WorkerOf, Stages, Answers, OutcomeOf
  <2>4. CASE FindClosed(u)
    <3>1. StageOf(m, u) = "idle" /\ StageOf(m, u)' = "answered"
      BY <1>3, <2>4 DEF FindClosed, loading
    <3>2. PhaseOf(m)' = PhaseOf(m) /\ WorkerOf(m)' = WorkerOf(m) /\ PhaseOf(m) = phase[m]
      BY <2>2, <2>4 DEF FindClosed, PhaseOf, WorkerOf
    <3>3. /\ phase[m] \in {"Unloading", "Unloaded", "UnloadFailed"}
          /\ outcome'[u] = AnswerTo(phase[m])
      BY <1>3, <2>4 DEF FindClosed
    <3>4. CASE phase[m] = "Unloading"
      <4>1. outcome'[u] = "AlreadyUnloading"
        BY <3>3, <3>4 DEF AnswerTo
      <4> QED
        BY <2>1, <3>1, <3>2, <3>4, <4>1
        DEF Teardown!Next, Teardown!TurnAway, Teardown!Answer, PhaseOf, WorkerOf, Stages,
            Answers, OutcomeOf
    <3>5. CASE phase[m] = "Unloaded"
      <4>1. outcome'[u] = "AlreadyUnloaded"
        BY <3>3, <3>5 DEF AnswerTo
      <4> QED
        BY <2>1, <3>1, <3>2, <3>5, <4>1
        DEF Teardown!Next, Teardown!TurnAway, Teardown!Answer, PhaseOf, WorkerOf, Stages,
            Answers, OutcomeOf
    <3>6. CASE phase[m] = "UnloadFailed"
      <4>1. outcome'[u] = "AlreadyFailed"
        BY <3>3, <3>6 DEF AnswerTo
      <4> QED
        BY <2>1, <3>1, <3>2, <3>6, <4>1
        DEF Teardown!Next, Teardown!TurnAway, Teardown!Answer, PhaseOf, WorkerOf, Stages,
            Answers, OutcomeOf
    <3> QED
      BY <3>3, <3>4, <3>5, <3>6
  <2>5. CASE StopBackend(u) \/ FailStop(u)
    <3>1. StageOf(m, u) = "tearing down" /\ StageOf(m, u)' = "answered"
      BY <1>3, <2>5 DEF StopBackend, FailStop, loading
    <3>2. CASE StopBackend(u)
      <4>1. PhaseOf(m)' = "Unloaded" /\ WorkerOf(m)' = "gone" /\ outcome'[u] = "Stopped"
        BY <1>3, <3>2 DEF StopBackend, PhaseOf, WorkerOf
      <4> QED
        BY <2>1, <3>1, <4>1
        DEF Teardown!Next, Teardown!Succeed, Teardown!Answer, PhaseOf, WorkerOf, Stages,
            Answers, OutcomeOf
    <3>3. CASE FailStop(u)
      <4>1. PhaseOf(m)' = "UnloadFailed" /\ WorkerOf(m)' = WorkerOf(m) /\ outcome'[u] = "Error"
        BY <1>3, <2>2, <3>3 DEF FailStop, PhaseOf, WorkerOf
      <4> QED
        BY <2>1, <3>1, <4>1
        DEF Teardown!Next, Teardown!Fail, Teardown!Answer, PhaseOf, WorkerOf, Stages,
            Answers, OutcomeOf
    <3> QED
      BY <2>5, <3>2, <3>3
  <2>6. CASE Conclude(u)
    <3>1. StageOf(m, u) = "answered" /\ StageOf(m, u)' = "answered" /\ outcome' = outcome
      BY <1>3, <2>6 DEF Conclude
    <3>2. Stages(m)' = Stages(m) /\ Answers(m)' = Answers(m)
      <4>1. Stages(m) = [Stages(m) EXCEPT ![u] = "answered"]
        BY <3>1 DEF Stages
      <4>2. Answers(m) = [Answers(m) EXCEPT ![u] = outcome[u]]
        BY <2>1 DEF Answers
      <4> HIDE DEF StageOf, Reached
      <4> QED
        BY <2>1, <3>1, <4>1, <4>2
    <3>3. PhaseOf(m)' = PhaseOf(m) /\ WorkerOf(m)' = WorkerOf(m)
      BY <2>6 DEF Conclude, PhaseOf, WorkerOf
    <3> QED
      BY <3>2, <3>3 DEF Teardown!vars, PhaseOf, WorkerOf, Stages, Answers, OutcomeOf
  <2>7. CASE DropUnload(u)
    <3>1. StageOf(m, u) = "tearing down" /\ StageOf(m, u)' = "dropped"
      BY <1>3, <2>7 DEF DropUnload, loading
    <3>2. PhaseOf(m)' = PhaseOf(m) /\ WorkerOf(m)' \in {WorkerOf(m), "gone"}
      BY <1>3, <2>2, <2>7 DEF DropUnload, KillTried, PhaseOf, WorkerOf
    <3>3. Answers(m)' = Answers(m)
      BY <2>1, <2>7 DEF DropUnload, Answers
    <3> QED
      BY <2>1, <3>1, <3>2, <3>3
      DEF Teardown!Next, Teardown!Drop, PhaseOf, WorkerOf, Stages, Answers, OutcomeOf
  <2> QED
    BY <1>3, <2>3, <2>4, <2>5, <2>6, <2>7 DEF UnloadStep
<1> QED
  BY <1>1, <1>2, <1>3

(* The ledger tears every instance down as the instance itself has it.     *)
THEOREM LedgerKeepsTeardowns == Spec => TeardownsKept
<1>1. Init => NothingAhead /\ \A m \in Models : Teardown(m)!Init
  BY UnloadsAssumption DEF Init, NothingAhead, Teardown!Init, Reached
<1>2. LedgerInv /\ LedgerInv' /\ NothingAhead /\ [Next]_vars
        => [\A m \in Models : [Teardown(m)!Next]_(Teardown(m)!vars)]_vars
  <2> SUFFICES ASSUME LedgerInv, LedgerInv', NothingAhead, Next, NEW m \in Models
               PROVE  [Teardown(m)!Next]_(Teardown(m)!vars)
    OBVIOUS
  <2> QED
    BY LoadTeardown, UnloadTeardown DEF Next
<1> QED
  BY <1>1, <1>2, LedgerInvariant, NothingAheadStep, PTL DEF Spec, TeardownsKept

-----------------------------------------------------------------------------
(* What the ledger asks of the backends.  A load that has not started one  *)
(* has none.                                                               *)
Unstarted == {"idle", "refused", "unknown", "reserved", "identifying", "identified"}

NoneBefore == \A m \in Models : load[m] \in Unstarted => worker[m] = "none"

BackendStep(m) == [Backend(m)!Next]_(Backend(m)!vars)

LEMMA NoneBeforeStep == LedgerInv /\ NoneBefore /\ [Next]_vars => NoneBefore'
<1> SUFFICES ASSUME LedgerInv, NoneBefore, [Next]_vars
             PROVE  NoneBefore'
  OBVIOUS
<1> USE DEF NoneBefore, Unstarted, LedgerInv, TypeOK, ledger, loading, unloading
<1>1. CASE UNCHANGED vars
  BY <1>1 DEF vars
<1>2. ASSUME NEW m \in Models, LoadStep(m) \/ Identified(m) \/ DropLoad(m) \/ WorkerExits(m)
      PROVE  NoneBefore'
  <2>1. CASE \/ Reserve(m) \/ Refuse(m) \/ UnknownArtifact(m) \/ FailPreparation(m)
             \/ Identify(m) \/ Identified(m)
    BY <2>1 DEF Reserve, Refuse, UnknownArtifact, FailPreparation, Identify, Identified
  <2>2. CASE StartBackend(m) \/ FailCommit(m) \/ Fulfil(m) \/ WorkerExits(m)
    BY <2>2 DEF StartBackend, FailCommit, Fulfil, WorkerExits
  <2>3. CASE FailStart(m) \/ RollBack(m) \/ DropLoad(m)
    BY <2>3 DEF FailStart, RollBack, DropLoad, KillTried
  <2> QED
    BY <1>2, <2>1, <2>2, <2>3 DEF LoadStep
<1>3. ASSUME NEW u \in Unloads, UnloadStep(u) \/ DropUnload(u)
      PROVE  NoneBefore'
  <2>1. CASE Close(u) \/ FindClosed(u) \/ FailStop(u) \/ Conclude(u)
    BY <2>1 DEF Close, FindClosed, FailStop, Conclude
  <2>2. CASE StopBackend(u) \/ DropUnload(u)
    BY <2>2 DEF StopBackend, DropUnload, KillTried, CallsHaveTargets
  <2> QED
    BY <1>3, <2>1, <2>2 DEF UnloadStep
<1>4. ASSUME NEW u \in Unloads, NEW m \in Models, Resolve(u, m) \/ ResolveUnknown(u, m)
      PROVE  NoneBefore'
  BY <1>4 DEF Resolve, ResolveUnknown
<1> QED
  BY <1>1, <1>2, <1>3, <1>4 DEF Next

(* What is not seen of a backend. *)
LEMMA BackendUnmoved ==
  ASSUME NEW m \in Models, load'[m] = load[m], phase'[m] = phase[m], worker'[m] = worker[m]
  PROVE  BackendStep(m)
<1>1. BackendStage(m)' = BackendStage(m)
  BY DEF BackendStage
<1> QED
  BY <1>1 DEF BackendStep, Backend!vars

LEMMA LoadBackend ==
  ASSUME LedgerInv, NoneBefore, NEW m \in Models,
         LoadStep(m) \/ Identified(m) \/ DropLoad(m) \/ WorkerExits(m)
  PROVE  BackendStep(m)
<1> USE DEF LedgerInv, TypeOK, ledger, loading, unloading
<1>1. CASE Reserve(m) \/ Refuse(m) \/ UnknownArtifact(m) \/ Identify(m) \/ Identified(m)
  <2>1. BackendStage(m)' = BackendStage(m)
    BY <1>1 DEF Reserve, Refuse, UnknownArtifact, Identify, Identified, BackendStage
  <2> QED
    BY <1>1, <2>1 DEF Reserve, Refuse, UnknownArtifact, Identify, Identified, BackendStep,
                      Backend!vars
<1>2. CASE \/ FailPreparation(m)
           \/ DropLoad(m) /\ load[m] = "identifying"
  <2>1. BackendStage(m) = "unstarted" /\ BackendStage(m)' = "over"
    BY <1>2 DEF FailPreparation, DropLoad, BackendStage
  <2>2. worker[m] = "none" /\ worker'[m] = "none"
    BY <1>2 DEF FailPreparation, DropLoad, KillTried, NoneBefore, Unstarted
  <2> QED
    BY <2>1, <2>2 DEF BackendStep, Backend!Next, Backend!FailToLaunch
<1>3. CASE StartBackend(m)
  <2>1. BackendStage(m) = "unstarted" /\ BackendStage(m)' = "starting"
    BY <1>3 DEF StartBackend, BackendStage
  <2>2. worker[m] = "none" /\ worker'[m] = "up"
    BY <1>3 DEF StartBackend, NoneBefore, Unstarted
  <2> QED
    BY <2>1, <2>2 DEF BackendStep, Backend!Next, Backend!Launch
<1>4. CASE \/ FailStart(m)
           \/ DropLoad(m) /\ load[m] = "starting"
  <2>1. BackendStage(m) = "starting" /\ BackendStage(m)' = "over"
    BY <1>4 DEF FailStart, DropLoad, BackendStage
  <2>2. worker'[m] = worker[m] \/ (worker[m] = "up" /\ worker'[m] = "gone")
    BY <1>4 DEF FailStart, DropLoad, KillTried
  <2> QED
    BY <2>1, <2>2 DEF BackendStep, Backend!Next, Backend!FailToStart, Backend!EndTried
<1>5. CASE FailCommit(m) \/ Fulfil(m)
  <2>1. BackendStage(m) = "starting" /\ BackendStage(m)' = "serving" /\ worker' = worker
    BY <1>5 DEF FailCommit, Fulfil, BackendStage
  <2> QED
    BY <2>1 DEF BackendStep, Backend!Next, Backend!HandOut
<1>6. CASE \/ RollBack(m)
           \/ DropLoad(m) /\ load[m] = "rolling back"
  <2>1. BackendStage(m) = "serving" /\ BackendStage(m)' = "over"
    BY <1>6 DEF RollBack, DropLoad, BackendStage
  <2>2. worker'[m] = worker[m] \/ (worker[m] = "up" /\ worker'[m] = "gone")
    BY <1>6 DEF RollBack, DropLoad, KillTried
  <2> QED
    BY <2>1, <2>2 DEF BackendStep, Backend!Next, Backend!Drop, Backend!EndTried
<1>7. CASE WorkerExits(m)
  <2>1. BackendStage(m)' = BackendStage(m)
    BY <1>7 DEF WorkerExits, BackendStage
  <2>2. worker[m] = "up" /\ worker'[m] = "gone"
    BY <1>7 DEF WorkerExits
  <2> QED
    BY <2>1, <2>2 DEF BackendStep, Backend!Next, Backend!Exit
<1>8. CASE DropLoad(m)
  BY <1>2, <1>4, <1>6, <1>8 DEF DropLoad
<1> QED
  BY <1>1, <1>2, <1>3, <1>4, <1>5, <1>6, <1>7, <1>8 DEF LoadStep

LEMMA UnloadBackend ==
  ASSUME LedgerInv, NEW u \in Unloads, UnloadStep(u) \/ DropUnload(u),
         NEW m \in Models, target[u] = m
  PROVE  BackendStep(m)
<1> USE DEF LedgerInv, TypeOK, ledger, loading, unloading
<1>1. /\ load[m] = "loaded" /\ load' = load
      /\ unload[u] \in {"resolved", "tearing down", "concluding"}
  BY DEF CallsHaveTargets, UnloadStep, DropUnload, Close, FindClosed, StopBackend, FailStop,
         Conclude
<1>2. CASE FindClosed(u) \/ Conclude(u)
  <2>1. load'[m] = load[m] /\ phase'[m] = phase[m] /\ worker'[m] = worker[m]
    BY <1>2 DEF FindClosed, Conclude
  <2> QED
    BY <2>1, BackendUnmoved
<1>3. CASE Close(u) \/ FailStop(u)
  <2>1. phase[m] # "Unloaded" /\ phase'[m] # "Unloaded" /\ worker' = worker
    BY <1>3 DEF Close, FailStop, TeardownIsUnloading
  <2>2. BackendStage(m)' = BackendStage(m)
    BY <1>1, <2>1 DEF BackendStage
  <2> QED
    BY <2>1, <2>2 DEF BackendStep, Backend!vars
<1>4. CASE StopBackend(u)
  <2>1. phase[m] # "Unloaded" /\ phase'[m] = "Unloaded" /\ worker'[m] = "gone"
    BY <1>4 DEF StopBackend, TeardownIsUnloading
  <2>2. BackendStage(m) = "serving" /\ BackendStage(m)' = "stopped"
    BY <1>1, <2>1 DEF BackendStage
  <2> QED
    BY <2>1, <2>2 DEF BackendStep, Backend!Next, Backend!Stop
<1>5. CASE DropUnload(u)
  <2>1. /\ phase' = phase
        /\ worker'[m] = worker[m] \/ (worker[m] = "up" /\ worker'[m] = "gone")
    BY <1>5 DEF DropUnload, KillTried
  <2>2. BackendStage(m)' = BackendStage(m)
    BY <1>1, <2>1 DEF BackendStage
  <2> QED
    BY <2>1, <2>2 DEF BackendStep, Backend!Next, Backend!Exit, Backend!vars
<1> QED
  BY <1>2, <1>3, <1>4, <1>5 DEF UnloadStep

(* A step is seen of one backend only. *)
LEMMA OtherBackends ==
  ASSUME LedgerInv, NEW m \in Models, NEW n \in Models, m # n,
         \/ LoadStep(m) \/ Identified(m) \/ DropLoad(m) \/ WorkerExits(m)
         \/ \E u \in Unloads : target[u] = m /\ (UnloadStep(u) \/ DropUnload(u))
  PROVE  BackendStep(n)
<1> USE DEF LedgerInv, TypeOK, ledger, loading, unloading
<1>1. load'[n] = load[n] /\ phase'[n] = phase[n] /\ worker'[n] = worker[n]
  <2>1. CASE LoadStep(m) \/ Identified(m) \/ DropLoad(m) \/ WorkerExits(m)
    BY <2>1 DEF LoadStep, Reserve, Refuse, UnknownArtifact, FailPreparation, Identify,
                Identified, StartBackend, FailStart, FailCommit, RollBack, DropLoad, Fulfil,
                WorkerExits, KillTried
  <2>2. CASE \E u \in Unloads : target[u] = m /\ (UnloadStep(u) \/ DropUnload(u))
    BY <2>2 DEF UnloadStep, DropUnload, Close, FindClosed, StopBackend, FailStop, Conclude,
                KillTried
  <2> QED
    BY <2>1, <2>2
<1> QED
  BY <1>1, BackendUnmoved

(* The ledger relies on no more of its backends than BackendProcess grants, *)
(* which Backends implements (LlamaCppBackend::start,                      *)
(* RunningBackend::stop).                                                  *)
THEOREM LedgerReliesOnBackends == Spec => BackendsKept
<1>1. Init => NoneBefore /\ \A m \in Models : Backend(m)!Init
  BY DEF Init, NoneBefore, Backend!Init, BackendStage
<1>2. LedgerInv /\ NoneBefore /\ [Next]_vars
        => [\A m \in Models : [Backend(m)!Next]_(Backend(m)!vars)]_vars
  <2> SUFFICES ASSUME LedgerInv, NoneBefore, Next, NEW m \in Models
               PROVE  BackendStep(m)
    BY DEF BackendStep
  <2>1. ASSUME NEW n \in Models, LoadStep(n) \/ Identified(n) \/ DropLoad(n) \/ WorkerExits(n)
        PROVE  BackendStep(m)
    BY <2>1, LoadBackend, OtherBackends
  <2>2. ASSUME NEW u \in Unloads, UnloadStep(u) \/ DropUnload(u)
        PROVE  BackendStep(m)
    <3>1. target[u] \in Models
      BY <2>2 DEF LedgerInv, CallsHaveTargets, UnloadStep, DropUnload, Close, FindClosed,
                  StopBackend, FailStop, Conclude
    <3> QED
      BY <2>2, <3>1, UnloadBackend, OtherBackends
  <2>3. ASSUME NEW u \in Unloads, NEW n \in Models, Resolve(u, n) \/ ResolveUnknown(u, n)
        PROVE  BackendStep(m)
    BY <2>3, BackendUnmoved DEF Resolve, ResolveUnknown, loading
  <2> QED
    BY <2>1, <2>2, <2>3 DEF Next
<1> QED
  BY <1>1, <1>2, LedgerInvariant, NoneBeforeStep, PTL DEF Spec, BackendsKept
=============================================================================
