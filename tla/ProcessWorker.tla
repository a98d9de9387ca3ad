---------------------------- MODULE ProcessWorker ----------------------------
(***************************************************************************)
(* The supervision of child processes (ProcessWorker and WorkerHandle,     *)
(* worker/process.rs), against processes that exit at any moment, ignore a *)
(* polite request or cannot be killed.  Each worker has one handle, which  *)
(* one future at a time may use; its owner calls the operations in any     *)
(* order and may drop the future of one at any await.                      *)
(*                                                                         *)
(* What the supervisor knows of a process is the child it holds; what the  *)
(* process really does is another variable.  A step of an operation goes   *)
(* from one await to the next, except that a process may exit between the  *)
(* look that finds it alive and the kill.                                  *)
(***************************************************************************)
EXTENDS Naturals

CONSTANT Workers

VARIABLES
  process,   \* the process: "none", "running", "dying" (a kill was accepted), "gone"
  defied,    \* whether the system has refused to kill it
  held,      \* whether its handle exists
  state,     \* WorkerHandle::state
  child,     \* whether WorkerHandle::child is Some
  protocol,  \* WorkerHandle::stop
  input,     \* the process's standard input: "open" or "closed"
  doing,     \* the operation under way
  at,        \* where it waits
  refused,   \* terminate's local of that name
  told       \* what the last operation answered

os == <<process, defied>>
own == <<held, protocol>>
vars == <<process, defied, held, state, child, protocol, input, doing, at, refused, told>>

States == {"Absent", "Starting", "Ready", "Draining", "Stopping", "Failed"}

Awaits == {"probing", "sleeping", "asked", "watching", "reaping", "resisting", "flushing",
           "parting"}

Answers == {"none", "Ready", "ExitedDuringStartup", "StartupTimeout", "InvalidState", "Io",
            "Requested", "Unexpected", "ShutdownTimeout", "Refused"}

TypeOK ==
  /\ process \in [Workers -> {"none", "running", "dying", "gone"}]
  /\ defied \in [Workers -> BOOLEAN]
  /\ held \in [Workers -> BOOLEAN]
  /\ state \in [Workers -> States]
  /\ child \in [Workers -> BOOLEAN]
  /\ protocol \in [Workers -> {"ShutdownLine", "Terminate"}]
  /\ input \in [Workers -> {"open", "closed"}]
  /\ doing \in [Workers -> {"nothing", "readying", "stopping", "waiting"}]
  /\ at \in [Workers -> Awaits \cup {"nowhere", "killing"}]
  /\ refused \in [Workers -> BOOLEAN]
  /\ told \in [Workers -> Answers]

Init ==
  /\ process = [w \in Workers |-> "none"]
  /\ defied = [w \in Workers |-> FALSE]
  /\ held = [w \in Workers |-> FALSE]
  /\ state = [w \in Workers |-> "Absent"]
  /\ child = [w \in Workers |-> FALSE]
  /\ protocol = [w \in Workers |-> "ShutdownLine"]
  /\ input = [w \in Workers |-> "open"]
  /\ doing = [w \in Workers |-> "nothing"]
  /\ at = [w \in Workers |-> "nowhere"]
  /\ refused = [w \in Workers |-> FALSE]
  /\ told = [w \in Workers |-> "none"]

(* WorkerState::can_transition_to. *)
CanBecome(s, t) ==
  <<s, t>> \in {<<"Absent", "Starting">>, <<"Starting", "Ready">>, <<"Starting", "Failed">>,
                <<"Ready", "Draining">>, <<"Ready", "Failed">>, <<"Draining", "Stopping">>,
                <<"Draining", "Failed">>, <<"Stopping", "Absent">>, <<"Stopping", "Failed">>}

(* transition_to: a state is left alone by what it does not permit. *)
Become(s, t) == IF CanBecome(s, t) THEN t ELSE s

Alive(w) == process[w] \in {"running", "dying"}

Idle(w) == held[w] /\ doing[w] = "nothing"

(* The operation under way answers. *)
Tell(w, answer) ==
  /\ doing' = [doing EXCEPT ![w] = "nothing"]
  /\ at' = [at EXCEPT ![w] = "nowhere"]
  /\ told' = [told EXCEPT ![w] = answer]

Wait(w, place) ==
  /\ at' = [at EXCEPT ![w] = place]
  /\ UNCHANGED told

-----------------------------------------------------------------------------
(* The processes.                                                          *)

(* A process that was not killed ends, of itself or because it was asked. *)
Exit(w) ==
  /\ process[w] = "running"
  /\ process' = [process EXCEPT ![w] = "gone"]
  /\ UNCHANGED <<defied, own, state, child, input, doing, at, refused, told>>

(* One that was killed ends. *)
Die(w) ==
  /\ process[w] = "dying"
  /\ process' = [process EXCEPT ![w] = "gone"]
  /\ UNCHANGED <<defied, own, state, child, input, doing, at, refused, told>>

KillAccepted(w) ==
  /\ process' = [process EXCEPT ![w] = "dying"]
  /\ UNCHANGED defied

KillRefused(w) ==
  /\ defied' = [defied EXCEPT ![w] = TRUE]
  /\ UNCHANGED process

-----------------------------------------------------------------------------
(* ProcessWorker::spawn.                                                   *)

Spawn(w, p) ==
  /\ process[w] = "none"
  /\ CanBecome(state[w], "Starting")
  /\ process' = [process EXCEPT ![w] = "running"]
  /\ held' = [held EXCEPT ![w] = TRUE]
  /\ state' = [state EXCEPT ![w] = "Starting"]
  /\ child' = [child EXCEPT ![w] = TRUE]
  /\ protocol' = [protocol EXCEPT ![w] = p]
  /\ UNCHANGED <<defied, input, doing, at, refused, told>>

(* The process cannot be put into its job (Windows): it is killed twice, by *)
(* start_kill and by kill_on_drop, and the outcome of neither is looked at. *)
SpawnUncontrolled(w) ==
  /\ process[w] = "none"
  /\ \/ process' = [process EXCEPT ![w] = "dying"] /\ UNCHANGED defied
     \/ process' = [process EXCEPT ![w] = "running"] /\ defied' = [defied EXCEPT ![w] = TRUE]
  /\ told' = [told EXCEPT ![w] = "Io"]
  /\ UNCHANGED <<own, state, child, input, doing, at, refused>>

-----------------------------------------------------------------------------
(* ProcessWorker::wait_ready_with.                                         *)

(* It answers, unless the state does not permit what it has seen. *)
Conclude(w, s, answer) ==
  /\ state' = [state EXCEPT ![w] = Become(@, s)]
  /\ Tell(w, IF CanBecome(state[w], s) THEN answer ELSE "InvalidState")

(* A round: a process that has exited ends the wait, and one that has not  *)
(* is probed.                                                              *)
LookAlive(w) ==
  IF process[w] = "gone"
    THEN Conclude(w, "Failed", "ExitedDuringStartup")
    ELSE /\ doing' = [doing EXCEPT ![w] = "readying"]
         /\ Wait(w, "probing")
         /\ UNCHANGED state

WaitReady(w) ==
  /\ Idle(w)
  /\ IF child[w] THEN LookAlive(w) ELSE Tell(w, "Io") /\ UNCHANGED state
  /\ UNCHANGED <<os, own, child, input, refused>>

Wake(w) ==
  /\ doing[w] = "readying" /\ at[w] = "sleeping"
  /\ LookAlive(w)
  /\ UNCHANGED <<os, own, child, input, refused>>

ProbeNotYet(w) ==
  /\ at[w] = "probing"
  /\ Wait(w, "sleeping")
  /\ UNCHANGED <<os, own, state, child, input, doing, refused>>

ProbeReady(w) ==
  /\ at[w] = "probing"
  /\ Conclude(w, "Ready", "Ready")
  /\ UNCHANGED <<os, own, child, input, refused>>

(* The probe finds that the worker will never be ready.  The process is    *)
(* left to its owner.                                                      *)
ProbeFails(w) ==
  /\ at[w] = "probing"
  /\ Conclude(w, "Failed", "Io")
  /\ UNCHANGED <<os, own, child, input, refused>>

-----------------------------------------------------------------------------
(* terminate, within wait_ready_with and shutdown.                         *)

(* A process that has already gone needs no killing. *)
Terminate(w) ==
  /\ Wait(w, IF child[w] /\ process[w] # "gone" THEN "killing" ELSE "flushing")
  /\ child' = [child EXCEPT ![w] = @ /\ process[w] # "gone"]
  /\ refused' = [refused EXCEPT ![w] = FALSE]

(* The startup budget runs out. *)
ExpireReady(w) ==
  /\ at[w] \in {"probing", "sleeping"}
  /\ IF CanBecome(state[w], "Failed")
       THEN /\ state' = [state EXCEPT ![w] = "Failed"]
            /\ Terminate(w)
            /\ UNCHANGED doing
       ELSE /\ Tell(w, "InvalidState")
            /\ UNCHANGED <<state, child, refused>>
  /\ UNCHANGED <<os, own, input>>

(* Waiting for the child closes its input. *)
Kill(w) ==
  /\ at[w] = "killing" /\ Alive(w)
  /\ KillAccepted(w)
  /\ input' = [input EXCEPT ![w] = "closed"]
  /\ Wait(w, "reaping")
  /\ UNCHANGED <<own, state, child, doing, refused>>

RefuseKill(w) ==
  /\ at[w] = "killing" /\ Alive(w)
  /\ KillRefused(w)
  /\ input' = [input EXCEPT ![w] = "closed"]
  /\ refused' = [refused EXCEPT ![w] = TRUE]
  /\ Wait(w, "resisting")
  /\ UNCHANGED <<own, state, child, doing>>

(* A bug: believing the error of a kill that came too late. *)
BelieveTheError(w) ==
  /\ at[w] = "killing" /\ process[w] = "gone"
  /\ refused' = [refused EXCEPT ![w] = TRUE]
  /\ Wait(w, "flushing")
  /\ UNCHANGED <<os, own, state, child, input, doing>>

(* It exited in the interval, whatever the kill came to. *)
KillTooLate(w) ==
  /\ at[w] = "killing" /\ process[w] = "gone"
  /\ child' = [child EXCEPT ![w] = FALSE]
  /\ Wait(w, "flushing")
  /\ UNCHANGED <<os, own, state, input, doing, refused>>

(* A killed process is waited for without a limit ... *)
Reap(w) ==
  /\ at[w] = "reaping" /\ process[w] = "gone"
  /\ child' = [child EXCEPT ![w] = FALSE]
  /\ Wait(w, "flushing")
  /\ UNCHANGED <<os, own, state, input, doing, refused>>

(* ... and one that could not be killed for the shutdown budget: it may end *)
(* anyway, ...                                                             *)
EndAnyway(w) ==
  /\ at[w] = "resisting" /\ process[w] = "gone"
  /\ child' = [child EXCEPT ![w] = FALSE]
  /\ refused' = [refused EXCEPT ![w] = FALSE]
  /\ Wait(w, "flushing")
  /\ UNCHANGED <<os, own, state, input, doing>>

(* A bug: waiting for the process however long it takes.                   *)
NeverGiveUp(w) == FALSE /\ UNCHANGED vars

(* ... or the wait is given up. *)
GiveUp(w) ==
  /\ at[w] = "resisting" /\ process[w] # "gone"
  /\ Wait(w, "flushing")
  /\ UNCHANGED <<os, own, state, child, input, doing, refused>>

-----------------------------------------------------------------------------
(* ProcessWorker::shutdown.                                                *)

(* Draining is passed through without an await. *)
ShuttingDown(s) == IF s \in {"Ready", "Draining"} THEN "Stopping" ELSE s

ShutdownByKill(w) ==
  /\ Idle(w) /\ protocol[w] = "Terminate"
  /\ state' = [state EXCEPT ![w] = ShuttingDown(@)]
  /\ doing' = [doing EXCEPT ![w] = "stopping"]
  /\ Terminate(w)
  /\ UNCHANGED <<os, own, input>>

ShutdownNothing(w) ==
  /\ Idle(w) /\ protocol[w] = "ShutdownLine" /\ ~child[w]
  /\ state' = [state EXCEPT ![w] = ShuttingDown(@)]
  /\ Tell(w, "Requested")
  /\ UNCHANGED <<os, own, child, input, refused>>

ShutdownByAsking(w) ==
  /\ Idle(w) /\ protocol[w] = "ShutdownLine" /\ child[w]
  /\ state' = [state EXCEPT ![w] = ShuttingDown(@)]
  /\ input' = [input EXCEPT ![w] = "closed"]
  /\ doing' = [doing EXCEPT ![w] = "stopping"]
  /\ Wait(w, "asked")
  /\ UNCHANGED <<os, own, child, refused>>

(* It ignored the request. *)
ExpireAsked(w) ==
  /\ at[w] = "asked" /\ process[w] # "gone"
  /\ Terminate(w)
  /\ UNCHANGED <<os, own, state, input, doing>>

(* A bug: taking the end of terminate for the end of the process. *)
ShutdownEndsRegardless(w) ==
  /\ at[w] = "flushing" /\ doing[w] = "stopping"
  /\ state' = [state EXCEPT ![w] = Become(@, "Absent")]
  /\ Tell(w, "Requested")
  /\ UNCHANGED <<os, own, child, input, refused>>

(* terminate is over: a refusal is passed on. *)
ShutdownEnds(w) ==
  /\ at[w] = "flushing" /\ doing[w] = "stopping"
  /\ LET done == ~refused[w] /\ protocol[w] = "Terminate"
     IN state' = [state EXCEPT ![w] = IF done THEN Become(@, "Absent") ELSE @]
  /\ Tell(w, IF refused[w] THEN "Refused"
             ELSE IF protocol[w] = "Terminate" THEN "Requested" ELSE "ShutdownTimeout")
  /\ UNCHANGED <<os, own, child, input, refused>>

(* A worker that never became ready was killed; how that went is not told. *)
ReadyEnds(w) ==
  /\ at[w] = "flushing" /\ doing[w] = "readying"
  /\ Tell(w, "StartupTimeout")
  /\ UNCHANGED <<os, own, state, child, input, refused>>

-----------------------------------------------------------------------------
(* ProcessWorker::wait, and the end of a polite stop.                      *)

WaitNothing(w) ==
  /\ Idle(w) /\ ~child[w]
  /\ Tell(w, "Requested")
  /\ UNCHANGED <<os, own, state, child, input, refused>>

WaitExit(w) ==
  /\ Idle(w) /\ child[w]
  /\ input' = [input EXCEPT ![w] = "closed"]
  /\ doing' = [doing EXCEPT ![w] = "waiting"]
  /\ Wait(w, "watching")
  /\ UNCHANGED <<os, own, state, child, refused>>

SeeExit(w) ==
  /\ at[w] \in {"asked", "watching"} /\ process[w] = "gone"
  /\ child' = [child EXCEPT ![w] = FALSE]
  /\ Wait(w, "parting")
  /\ UNCHANGED <<os, own, state, input, doing, refused>>

(* The exit status cannot be collected.  Elsewhere it is taken to be: there *)
(* the code asks no more than whether the process has gone.                *)
MissExit(w) ==
  /\ at[w] \in {"asked", "watching"} /\ process[w] = "gone"
  /\ Tell(w, "Io")
  /\ UNCHANGED <<os, own, state, child, input, refused>>

PartRequested(w) ==
  /\ at[w] = "parting" /\ doing[w] = "stopping"
  /\ state' = [state EXCEPT ![w] = Become(@, "Absent")]
  /\ Tell(w, "Requested")
  /\ UNCHANGED <<os, own, child, input, refused>>

PartUnexpected(w) ==
  /\ at[w] = "parting" /\ doing[w] = "waiting"
  /\ state' = [state EXCEPT ![w] = Become(@, "Failed")]
  /\ Tell(w, "Unexpected")
  /\ UNCHANGED <<os, own, child, input, refused>>

-----------------------------------------------------------------------------
(* The owner.                                                              *)

(* The future of an operation is dropped at an await. *)
DropCall(w) ==
  /\ at[w] \in Awaits
  /\ doing' = [doing EXCEPT ![w] = "nothing"]
  /\ Wait(w, "nowhere")
  /\ UNCHANGED <<os, own, state, child, input, refused>>

(* A bug: a handle whose child is not killed when it is dropped. *)
DropHandleOnly(w) ==
  /\ Idle(w)
  /\ held' = [held EXCEPT ![w] = FALSE]
  /\ UNCHANGED <<os, state, child, protocol, input, doing, at, refused, told>>

(* The handle is dropped: kill_on_drop makes one more attempt. *)
DropHandle(w) ==
  /\ Idle(w)
  /\ held' = [held EXCEPT ![w] = FALSE]
  /\ \/ child[w] /\ Alive(w) /\ (KillAccepted(w) \/ KillRefused(w))
     \/ ~(child[w] /\ Alive(w)) /\ UNCHANGED os
  /\ UNCHANGED <<state, child, protocol, input, doing, at, refused, told>>

-----------------------------------------------------------------------------
(* What the supervisor does once it is under way. *)
Proceed(w) ==
  \/ Wake(w) \/ ProbeNotYet(w) \/ ProbeReady(w) \/ ProbeFails(w)
  \/ Kill(w) \/ RefuseKill(w) \/ KillTooLate(w) \/ Reap(w) \/ EndAnyway(w) \/ GiveUp(w)
  \/ ExpireAsked(w) \/ ShutdownEnds(w) \/ ReadyEnds(w)
  \/ SeeExit(w) \/ MissExit(w) \/ PartRequested(w) \/ PartUnexpected(w)

Request(w) ==
  \/ \E p \in {"ShutdownLine", "Terminate"} : Spawn(w, p)
  \/ SpawnUncontrolled(w)
  \/ WaitReady(w)
  \/ ShutdownByKill(w) \/ ShutdownNothing(w) \/ ShutdownByAsking(w)
  \/ WaitNothing(w) \/ WaitExit(w)
  \/ DropCall(w) \/ DropHandle(w)

Next ==
  \E w \in Workers : Exit(w) \/ Die(w) \/ ExpireReady(w) \/ Proceed(w) \/ Request(w)

Spec == Init /\ [][Next]_vars

(* A future that can go on is polled, budgets run out, and a process whose *)
(* kill was accepted ends ("a signalled process exits promptly").          *)
Fairness ==
  \A w \in Workers :
    WF_vars(Die(w)) /\ WF_vars(ExpireReady(w)) /\ WF_vars(Proceed(w))

FairSpec == Spec /\ Fairness

-----------------------------------------------------------------------------
(* Properties.                                                             *)

(* A worker that is said to have stopped has: whenever shutdown or wait    *)
(* answers with an exit, shutdown with ShutdownTimeout ("The worker is     *)
(* stopped either way") or wait_ready_with with ExitedDuringStartup, and   *)
(* whenever the state of a worker that was started is Absent, the process  *)
(* is gone.                                                                *)
StoppedIsGone ==
  \A w \in Workers :
    \/ told[w] \in {"Requested", "Unexpected", "ShutdownTimeout", "ExitedDuringStartup"}
    \/ held[w] /\ state[w] = "Absent"
    => process[w] = "gone"

(* A process that lives keeps its place in the handle, whatever was tried  *)
(* and dropped before: a later attempt to stop it has something to kill.   *)
KeptForAnotherAttempt ==
  \A w \in Workers : held[w] /\ Alive(w) => child[w]

(* A process without a handle ends, unless the system refused to kill it.  *)
NoSilentOrphan ==
  \A w \in Workers : process[w] = "running" /\ ~held[w] => defied[w]

(* terminate goes on to report a refusal only of a process that lives: not *)
(* of one that ended between the look and the kill, nor of one that ended  *)
(* within the budget ("the refusal described a moment that has passed").   *)
OnlyTheLivingRefuse ==
  [][\A w \in Workers :
       at[w] # "flushing" /\ at'[w] = "flushing" /\ refused'[w] => process[w] # "gone"]_vars

(* Waiting for readiness and stopping end, whatever the process does, as   *)
(* long as one whose kill is accepted dies.                                *)
CallsReturn ==
  \A w \in Workers : doing[w] \in {"readying", "stopping"} ~> doing[w] = "nothing"

-----------------------------------------------------------------------------
(* The strengthening under which StoppedIsGone, KeptForAnotherAttempt and  *)
(* NoSilentOrphan are inductive, worker by worker.                         *)

(* A worker that was not spawned has nothing. *)
FreshHasNothing(w) ==
  process[w] = "none" => ~held[w] /\ state[w] = "Absent" /\ told[w] = "none"

(* Operations are carried out on a handle, each at awaits of its own. *)
OperationsWait(w) ==
  /\ ~held[w] => doing[w] = "nothing"
  /\ doing[w] = "nothing" <=> at[w] = "nowhere"
  /\ at[w] \in {"probing", "sleeping"} => doing[w] = "readying"
  /\ at[w] \in {"asked", "watching", "parting"} => doing[w] \in {"stopping", "waiting"}

(* What terminate and a polite stop know of the process where they wait. *)
WaitsKnow(w) ==
  /\ at[w] \in {"killing", "reaping"} => ~refused[w]
  /\ at[w] = "resisting" => refused[w]
  /\ at[w] = "reaping" => process[w] \in {"dying", "gone"}
  /\ at[w] = "flushing" /\ ~refused[w] => process[w] = "gone"
  /\ at[w] = "parting" => process[w] = "gone"

SupervisionInv ==
  /\ TypeOK
  /\ \A w \in Workers : FreshHasNothing(w) /\ OperationsWait(w) /\ WaitsKnow(w)
  /\ StoppedIsGone
  /\ KeptForAnotherAttempt
  /\ NoSilentOrphan

=============================================================================
