------------------------------- MODULE Runtime -------------------------------
(***************************************************************************)
(* The runtime's ledger (mehoy-runtime, runtime.rs) with the loads and the *)
(* unloads that go through it, and the part of a load that decides what a  *)
(* worker is accounted for (ModelLoader, loader.rs).                       *)
(*                                                                         *)
(* A model is named by the load that brings it up: InstanceId is 96 random *)
(* bits, so no two loads produce the same instance, and the arm of         *)
(* Reserved::fulfil for an identifier that is already resident is left     *)
(* out.  Reservations are likewise named by their load.  What happens on   *)
(* one instance between the start and the end of its teardown is module    *)
(* InstanceLifecycle; here a teardown is its phase changes only, and both   *)
(* implement InstanceTeardown.                                             *)
(***************************************************************************)
EXTENDS ResidentLimits

CONSTANTS
  Unloads,   \* the calls of Runtime::unload
  NoModel    \* the target of a call that has not been made

ASSUME UnloadsAssumption == NoModel \notin Models

Phases == {"none", "Serving", "Unloading", "Unloaded", "UnloadFailed"}

VARIABLES
  load,      \* how far each call of Runtime::load has got
  pending,   \* Ledger::pending
  resident,  \* Ledger::resident
  worker,    \* the backend process of each model: "none", "up" or "gone"
  phase,     \* LifecyclePhase of each model, "none" before there is one
  unload,    \* how far each call of Runtime::unload has got
  target,    \* the model each call of Runtime::unload resolved
  outcome    \* what LoadedModel::unload_within answered it

ledger == <<pending, resident>>
loading == <<load, pending, resident>>
unloading == <<unload, target, outcome>>
vars == <<load, pending, resident, worker, phase, unload, target, outcome>>

Committed == pending \cup resident

(* A load holds its claim at these. *)
InFlight == {"reserved", "identifying", "identified", "starting", "rolling back"}

LoadStages ==
  InFlight \cup {"idle", "refused", "unknown", "failed", "dropped", "loaded"}

UnloadStages == {"idle", "unknown", "resolved", "tearing down", "concluding",
                 "returned", "dropped"}

Outcomes == {"none", "Stopped", "AlreadyUnloading", "AlreadyUnloaded",
             "AlreadyFailed", "Error"}

TypeOK ==
  /\ load \in [Models -> LoadStages]
  /\ pending \in SUBSET Models
  /\ resident \in SUBSET Models
  /\ worker \in [Models -> {"none", "up", "gone"}]
  /\ phase \in [Models -> Phases]
  /\ unload \in [Unloads -> UnloadStages]
  /\ target \in [Unloads -> Models \cup {NoModel}]
  /\ outcome \in [Unloads -> Outcomes]

Init ==
  /\ load = [m \in Models |-> "idle"]
  /\ pending = {}
  /\ resident = {}
  /\ worker = [m \in Models |-> "none"]
  /\ phase = [m \in Models |-> "none"]
  /\ unload = [u \in Unloads |-> "idle"]
  /\ target = [u \in Unloads |-> NoModel]
  /\ outcome = [u \in Unloads |-> "none"]

-----------------------------------------------------------------------------
(* Loading.                                                                *)

(* A bug Reserve does not have: judging what is resident, not the loads in *)
(* flight as well.                                                         *)
ReserveOnResidentOnly(m) ==
  /\ load[m] = "idle"
  /\ Verdict(resident, m) = "Admitted"
  /\ pending' = pending \cup {m}
  /\ load' = [load EXCEPT ![m] = "reserved"]
  /\ UNCHANGED <<resident, worker, phase, unloading>>

(* Runtime::reserve decides and records under one lock. *)
Reserve(m) ==
  /\ load[m] = "idle"
  /\ Verdict(Committed, m) = "Admitted"
  /\ pending' = pending \cup {m}
  /\ load' = [load EXCEPT ![m] = "reserved"]
  /\ UNCHANGED <<resident, worker, phase, unloading>>

(* A limit is reached: nothing has been claimed and nothing is. *)
Refuse(m) ==
  /\ load[m] = "idle"
  /\ Verdict(Committed, m) # "Admitted"
  /\ load' = [load EXCEPT ![m] = "refused"]
  /\ UNCHANGED <<ledger, worker, phase, unloading>>

(* declared_footprint finds no such artifact, before any limit is looked at. *)
UnknownArtifact(m) ==
  /\ load[m] = "idle"
  /\ load' = [load EXCEPT ![m] = "unknown"]
  /\ UNCHANGED <<ledger, worker, phase, unloading>>

(* ModelLoader::load gives up before the worker is started: the artifact   *)
(* is forgotten, missing, drifted or incompatible, or later there is no    *)
(* port, no secret file or no process to be had.                           *)
FailPreparation(m) ==
  /\ load[m] \in {"reserved", "identified"}
  /\ load' = [load EXCEPT ![m] = "failed"]
  /\ pending' = pending \ {m}
  /\ UNCHANGED <<resident, worker, phase, unloading>>

(* LlamaCppBackend::start first has the executable tell its build, and     *)
(* waits until it has ended, however long that takes.                      *)
Identify(m) ==
  /\ load[m] = "reserved"
  /\ load' = [load EXCEPT ![m] = "identifying"]
  /\ UNCHANGED <<ledger, worker, phase, unloading>>

(* It has ended, or could not be run.  What it said makes no difference.   *)
Identified(m) ==
  /\ load[m] = "identifying"
  /\ load' = [load EXCEPT ![m] = "identified"]
  /\ UNCHANGED <<ledger, worker, phase, unloading>>

(* start has spawned the worker and waits for it, under a deadline. *)
StartBackend(m) ==
  /\ load[m] = "identified"
  /\ load' = [load EXCEPT ![m] = "starting"]
  /\ worker' = [worker EXCEPT ![m] = "up"]
  /\ UNCHANGED <<ledger, phase, unloading>>

(* Something tried to end the worker of m, and it may have been refused. *)
KillTried(m) ==
  \/ worker[m] = "up" /\ worker' = [worker EXCEPT ![m] = "gone"]
  \/ UNCHANGED worker

(* Starting fails after the spawn.  The backend has tried to stop what it  *)
(* started, and that may have been refused.                                *)
FailStart(m) ==
  /\ load[m] = "starting"
  /\ load' = [load EXCEPT ![m] = "failed"]
  /\ pending' = pending \ {m}
  /\ KillTried(m)
  /\ UNCHANGED <<resident, phase, unloading>>

(* ModelLoader::commit could not build the instance. *)
FailCommit(m) ==
  /\ load[m] = "starting"
  /\ load' = [load EXCEPT ![m] = "rolling back"]
  /\ UNCHANGED <<ledger, worker, phase, unloading>>

(* A bug: giving the claim back only if the stop succeeded. *)
RollBackOnSuccessOnly(m) ==
  /\ load[m] = "rolling back"
  /\ worker[m] = "gone"
  /\ load' = [load EXCEPT ![m] = "failed"]
  /\ pending' = pending \ {m}
  /\ UNCHANGED <<resident, worker, phase, unloading>>

(* The rollback's stop has answered, one way or the other.  Either way the *)
(* error is returned and Reserved is dropped.                              *)
RollBack(m) ==
  /\ load[m] = "rolling back"
  /\ load' = [load EXCEPT ![m] = "failed"]
  /\ pending' = pending \ {m}
  /\ KillTried(m)
  /\ UNCHANGED <<resident, phase, unloading>>

(* The caller drops the future of Runtime::load at an await.  Dropping the *)
(* process handle asks for a kill, which nothing confirms.                 *)
DropLoad(m) ==
  /\ load[m] \in {"identifying", "starting", "rolling back"}
  /\ load' = [load EXCEPT ![m] = "dropped"]
  /\ pending' = pending \ {m}
  /\ KillTried(m)
  /\ UNCHANGED <<resident, phase, unloading>>

(* commit builds the LoadedModel and Reserved::fulfil makes it resident.   *)
(* Nobody can name the instance before the ledger holds it.                *)
Fulfil(m) ==
  /\ load[m] = "starting"
  /\ load' = [load EXCEPT ![m] = "loaded"]
  /\ pending' = pending \ {m}
  /\ resident' = resident \cup {m}
  /\ phase' = [phase EXCEPT ![m] = "Serving"]
  /\ UNCHANGED <<worker, unloading>>

(* The backend process dies of itself. *)
WorkerExits(m) ==
  /\ worker[m] = "up"
  /\ worker' = [worker EXCEPT ![m] = "gone"]
  /\ UNCHANGED <<loading, phase, unloading>>

-----------------------------------------------------------------------------
(* Unloading.                                                              *)

(* Runtime::require: the ledger lock is held only to resolve. *)
Resolve(u, m) ==
  /\ unload[u] = "idle"
  /\ m \in resident
  /\ unload' = [unload EXCEPT ![u] = "resolved"]
  /\ target' = [target EXCEPT ![u] = m]
  /\ UNCHANGED <<loading, worker, phase, outcome>>

ResolveUnknown(u, m) ==
  /\ unload[u] = "idle"
  /\ m \notin resident
  /\ unload' = [unload EXCEPT ![u] = "unknown"]
  /\ UNCHANGED <<loading, worker, phase, target, outcome>>

(* A bug: turning away only the calls that find the teardown finished. *)
CloseTwice(u) ==
  /\ unload[u] = "resolved"
  /\ phase[target[u]] \in {"Serving", "Unloading"}
  /\ unload' = [unload EXCEPT ![u] = "tearing down"]
  /\ phase' = [phase EXCEPT ![target[u]] = "Unloading"]
  /\ UNCHANGED <<loading, worker, target, outcome>>

(* Phase one of LoadedModel::unload_within, for the call that gets to tear *)
(* the instance down ...                                                   *)
Close(u) ==
  /\ unload[u] = "resolved"
  /\ phase[target[u]] = "Serving"
  /\ unload' = [unload EXCEPT ![u] = "tearing down"]
  /\ phase' = [phase EXCEPT ![target[u]] = "Unloading"]
  /\ UNCHANGED <<loading, worker, target, outcome>>

(* ... and for the calls that find it closed already. *)
AnswerTo(p) == CASE p = "Unloading" -> "AlreadyUnloading"
                 [] p = "Unloaded" -> "AlreadyUnloaded"
                 [] OTHER -> "AlreadyFailed"

FindClosed(u) ==
  /\ unload[u] = "resolved"
  /\ phase[target[u]] \in {"Unloading", "Unloaded", "UnloadFailed"}
  /\ unload' = [unload EXCEPT ![u] = "concluding"]
  /\ outcome' = [outcome EXCEPT ![u] = AnswerTo(phase[target[u]])]
  /\ UNCHANGED <<loading, worker, phase, target>>

(* RunningBackend::stop succeeded: the process is known to be gone. *)
StopBackend(u) ==
  /\ unload[u] = "tearing down"
  /\ unload' = [unload EXCEPT ![u] = "concluding"]
  /\ worker' = [worker EXCEPT ![target[u]] = "gone"]
  /\ phase' = [phase EXCEPT ![target[u]] = "Unloaded"]
  /\ outcome' = [outcome EXCEPT ![u] = "Stopped"]
  /\ UNCHANGED <<loading, target>>

(* RunningBackend::stop failed: the kill was refused and the process was   *)
(* still there when the wait for it ran out.  It may have gone since.      *)
FailStop(u) ==
  /\ unload[u] = "tearing down"
  /\ unload' = [unload EXCEPT ![u] = "concluding"]
  /\ phase' = [phase EXCEPT ![target[u]] = "UnloadFailed"]
  /\ outcome' = [outcome EXCEPT ![u] = "Error"]
  /\ UNCHANGED <<loading, worker, target>>

(* The caller drops the future while it drains or stops the worker.        *)
DropUnload(u) ==
  /\ unload[u] = "tearing down"
  /\ unload' = [unload EXCEPT ![u] = "dropped"]
  /\ KillTried(target[u])
  /\ UNCHANGED <<loading, phase, target, outcome>>

(* Bugs: releasing for every call that was answered Ok, and releasing for  *)
(* the call that tore down only.                                           *)
ReleasesForAnyAnswer(u) == outcome[u] # "Error"

ReleasesNothingStopped(u) == outcome[u] = "AlreadyUnloaded"

(* Whether the entry, and with it the footprint, is released.  Every caller *)
(* that was answered Ok looks at the phase again.                          *)
Releases(u) == outcome[u] # "Error" /\ phase[target[u]] = "Unloaded"

Conclude(u) ==
  /\ unload[u] = "concluding"
  /\ unload' = [unload EXCEPT ![u] = "returned"]
  /\ resident' = IF Releases(u) THEN resident \ {target[u]} ELSE resident
  /\ UNCHANGED <<load, pending, worker, phase, target, outcome>>

-----------------------------------------------------------------------------
LoadStep(m) ==
  \/ Reserve(m) \/ Refuse(m) \/ UnknownArtifact(m) \/ FailPreparation(m) \/ Identify(m)
  \/ StartBackend(m) \/ FailStart(m) \/ FailCommit(m) \/ RollBack(m) \/ Fulfil(m)

UnloadStep(u) == Close(u) \/ FindClosed(u) \/ StopBackend(u) \/ FailStop(u) \/ Conclude(u)

Next ==
  \/ \E m \in Models : LoadStep(m) \/ Identified(m) \/ DropLoad(m) \/ WorkerExits(m)
  \/ \E u \in Unloads : UnloadStep(u) \/ DropUnload(u)
  \/ \E u \in Unloads, m \in Models : Resolve(u, m) \/ ResolveUnknown(u, m)

(* A load waits for its worker under a startup deadline, and an unload     *)
(* under a drain budget and a stop deadline, so both run to an answer      *)
(* unless dropped.  No deadline ends the wait for the executable to tell   *)
(* its build: Identified need never happen.  Nor has anybody to make a     *)
(* call, drop one, or lose a worker.                                       *)
Fairness ==
  /\ \A m \in Models : WF_vars(load[m] # "idle" /\ LoadStep(m))
  /\ \A u \in Unloads : WF_vars(UnloadStep(u))

Spec == Init /\ [][Next]_vars

FairSpec == Spec /\ Fairness

-----------------------------------------------------------------------------
(* Properties.                                                             *)

(* However many loads run at once, what the ledger has committed, loads in *)
(* flight included, never exceeds either limit.                            *)
LimitsHeld == WithinLimits(Committed)

(* A reservation is held exactly while its load is in flight: none is      *)
(* dropped early by a load that goes on, none is left behind by one that   *)
(* failed, was dropped or succeeded.                                       *)
ReservationsAreLoadsInFlight ==
  pending = {m \in Models : load[m] \in InFlight}

(* The worker of a model that was loaded is accounted for as long as it is *)
(* alive, whatever became of the calls to unload it (ADR-0010 decision 6). *)
RunningIsAccounted ==
  \A m \in Models : load[m] = "loaded" /\ worker[m] = "up" => m \in resident

(* A teardown that has not finished keeps its entry, so that later calls   *)
(* can still name the instance and be told what happened to it.            *)
UnfinishedKeepsEntry ==
  \A m \in Models :
    phase[m] \in {"Serving", "Unloading", "UnloadFailed"} => m \in resident

(* Only one call is ever tearing an instance down. *)
SoleTeardown ==
  \A u, v \in Unloads :
    /\ unload[u] = "tearing down"
    /\ unload[v] = "tearing down"
    /\ target[u] = target[v]
    => u = v

(* The inductive invariant: the properties above, and what they rest on -  *)
(* a model has a phase exactly when its load succeeded, only such a model  *)
(* is resident, "Unloaded" is said of a dead worker only, and a call that  *)
(* is tearing down found the phase at Serving and left it at Unloading.    *)
PhaseFollowsLoad == \A m \in Models : load[m] = "loaded" <=> phase[m] # "none"

ResidentIsLoaded == \A m \in resident : load[m] = "loaded"

UnloadedIsGone == \A m \in Models : phase[m] = "Unloaded" => worker[m] = "gone"

CallsHaveTargets ==
  \A u \in Unloads :
    unload[u] \notin {"idle", "unknown"}
      => target[u] \in Models /\ load[target[u]] = "loaded"

TeardownIsUnloading ==
  \A u \in Unloads : unload[u] = "tearing down" => phase[target[u]] = "Unloading"

LedgerInv ==
  /\ TypeOK
  /\ LimitsHeld
  /\ ReservationsAreLoadsInFlight
  /\ UnfinishedKeepsEntry
  /\ SoleTeardown
  /\ PhaseFollowsLoad
  /\ ResidentIsLoaded
  /\ UnloadedIsGone
  /\ CallsHaveTargets
  /\ TeardownIsUnloading

(* The ledger implements the capacity it was configured with. *)
Account ==
  [m \in Models |->
     CASE m \in resident -> "resident"
       [] m \in pending \ resident -> "claimed"
       [] m \notin Committed /\ load[m] \in {"failed", "dropped", "loaded"} -> "given back"
       [] OTHER -> "none"]

Capacity == INSTANCE ResidentCapacity
              WITH account <- Account, running <- {m \in Models : worker[m] = "up"}

CapacityKept == Capacity!Spec

(* Every instance is torn down as its own lifecycle has it: what the       *)
(* ledger does around a teardown adds nothing to it.  A call that has      *)
(* resolved an instance has not reached it yet.                            *)
Reached(m, u) == target[u] = m /\ unload[u] # "resolved"

Teardown(m) ==
  INSTANCE InstanceTeardown
    WITH phase <- IF phase[m] = "none" THEN "Serving" ELSE phase[m],
         worker <- IF phase[m] = "none" THEN "up" ELSE worker[m],
         unload <- [u \in Unloads |->
                      IF ~Reached(m, u) THEN "idle"
                      ELSE IF unload[u] \in {"concluding", "returned"} THEN "answered"
                      ELSE unload[u]],
         outcome <- [u \in Unloads |-> IF Reached(m, u) THEN outcome[u] ELSE "none"]

TeardownsKept ==
  /\ \A m \in Models : Teardown(m)!Init
  /\ [][\A m \in Models : [Teardown(m)!Next]_(Teardown(m)!vars)]_vars

(* The ledger asks of the backend of a model what BackendProcess grants,   *)
(* and takes nothing else to have happened to it.                          *)
BackendStage(m) ==
  CASE load[m] \in {"idle", "refused", "unknown", "reserved", "identifying", "identified"}
         -> "unstarted"
    [] load[m] = "starting" -> "starting"
    [] load[m] = "rolling back" -> "serving"
    [] load[m] = "loaded" -> IF phase[m] = "Unloaded" THEN "stopped" ELSE "serving"
    [] OTHER -> "over"

Backend(m) ==
  INSTANCE BackendProcess WITH stage <- BackendStage(m), process <- worker[m]

BackendsKept ==
  /\ \A m \in Models : Backend(m)!Init
  /\ [][\A m \in Models : [Backend(m)!Next]_(Backend(m)!vars)]_vars

(* Every claim on the limits is settled, the model resident or its room    *)
(* given back, whatever fails on the way and however a rollback's stop     *)
(* goes; only a load that waits for ever for the executable to tell its    *)
(* build may hold a claim for ever.                                        *)
ClaimsSettle ==
  \A m \in Models : <>[](m \in pending) => <>[](load[m] = "identifying")

(* Every claim is settled, without the exception.  The code does not grant *)
(* that: LlamaCppBackend::identify waits without a deadline.               *)
EveryClaimSettles == \A m \in Models : m \in pending ~> m \notin pending

(* What a finished teardown occupied is given back. *)
UnloadedIsReleased ==
  \A m \in Models : phase[m] = "Unloaded" ~> m \notin resident
=============================================================================
