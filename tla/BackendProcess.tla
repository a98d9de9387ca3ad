--------------------------- MODULE BackendProcess ----------------------------
(***************************************************************************)
(* What the loader and the ledger of a runtime rely on of one backend      *)
(* (LlamaCppBackend::start, RunningBackend::stop): it has a process from   *)
(* its start on and only one, which may end at any time and is not brought *)
(* back; a stop that succeeds has ended it; whatever else ends the backend *)
(* tries to, and may be refused.                                           *)
(***************************************************************************)
VARIABLES
  stage,   \* how far the backend has got
  process  \* its process: "none", "up" or "gone"

vars == <<stage, process>>

Init == stage = "unstarted" /\ process = "none"

Exit ==
  /\ process = "up"
  /\ process' = "gone"
  /\ UNCHANGED stage

(* A process that somebody tries to end has ended, or goes on. *)
EndTried == (process = "up" /\ process' = "gone") \/ UNCHANGED process

-----------------------------------------------------------------------------
(* start.                                                                  *)

Launch ==
  /\ stage = "unstarted" /\ process = "none"
  /\ stage' = "starting"
  /\ process' = "up"

(* It fails before it has a process, or with one that it could not keep. *)
FailToLaunch ==
  /\ stage = "unstarted" /\ process = "none"
  /\ stage' = "over"
  /\ process' \in {"none", "up"}

(* It fails or is dropped later. *)
FailToStart ==
  /\ stage = "starting"
  /\ stage' = "over"
  /\ EndTried

HandOut ==
  /\ stage = "starting"
  /\ stage' = "serving"
  /\ UNCHANGED process

-----------------------------------------------------------------------------
(* What was handed out is stopped, or dropped.                             *)

Stop ==
  /\ stage = "serving"
  /\ stage' = "stopped"
  /\ process' = "gone"

Drop ==
  /\ stage \in {"serving", "stopped"}
  /\ stage' = "over"
  /\ EndTried

Next ==
  Exit \/ Launch \/ FailToLaunch \/ FailToStart \/ HandOut \/ Stop \/ Drop

Spec == Init /\ [][Next]_vars
=============================================================================
