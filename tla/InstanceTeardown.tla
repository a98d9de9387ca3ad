-------------------------- MODULE InstanceTeardown --------------------------
(***************************************************************************)
(* What the runtime may rely on when it unloads an instance (UnloadOutcome *)
(* and LifecyclePhase, loader.rs): one call tears the instance down, the   *)
(* others are told how far that has got, and the instance is said to be    *)
(* unloaded only when its worker is gone.  Nothing here says what becomes  *)
(* of the requests.                                                        *)
(***************************************************************************)
CONSTANT Unloads  \* the calls of unload_within

VARIABLES
  phase,    \* LifecyclePhase
  worker,   \* the backend process: "up" or "gone"
  unload,   \* "idle", "tearing down", "answered" or "dropped"
  outcome   \* what each call was answered

vars == <<phase, worker, unload, outcome>>

Init ==
  /\ phase = "Serving"
  /\ worker = "up"
  /\ unload = [u \in Unloads |-> "idle"]
  /\ outcome = [u \in Unloads |-> "none"]

Answer(u, o) ==
  /\ unload' = [unload EXCEPT ![u] = "answered"]
  /\ outcome' = [outcome EXCEPT ![u] = o]

Close(u) ==
  /\ unload[u] = "idle" /\ phase = "Serving"
  /\ phase' = "Unloading"
  /\ unload' = [unload EXCEPT ![u] = "tearing down"]
  /\ UNCHANGED <<worker, outcome>>

TurnAway(u) ==
  /\ unload[u] = "idle"
  /\ \/ phase = "Unloading" /\ Answer(u, "AlreadyUnloading")
     \/ phase = "Unloaded" /\ Answer(u, "AlreadyUnloaded")
     \/ phase = "UnloadFailed" /\ Answer(u, "AlreadyFailed")
  /\ UNCHANGED <<phase, worker>>

Succeed(u) ==
  /\ unload[u] = "tearing down"
  /\ worker' = "gone"
  /\ phase' = "Unloaded"
  /\ Answer(u, "Stopped")

(* The worker would not go, though it may have gone since. *)
Fail(u) ==
  /\ unload[u] = "tearing down"
  /\ phase' = "UnloadFailed"
  /\ Answer(u, "Error")
  /\ UNCHANGED worker

(* The caller stops waiting: nobody goes on with the teardown. *)
Drop(u) ==
  /\ unload[u] = "tearing down"
  /\ worker' \in {worker, "gone"}
  /\ unload' = [unload EXCEPT ![u] = "dropped"]
  /\ UNCHANGED <<phase, outcome>>

Exit ==
  /\ worker' = "gone"
  /\ UNCHANGED <<phase, unload, outcome>>

Next ==
  \/ Exit
  \/ \E u \in Unloads : Close(u) \/ TurnAway(u) \/ Succeed(u) \/ Fail(u) \/ Drop(u)

Spec == Init /\ [][Next]_vars
=============================================================================
