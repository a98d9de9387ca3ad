-------------------------- MODULE InstanceLifecycle --------------------------
(***************************************************************************)
(* One loaded model from the moment it serves (LoadedModel, loader.rs): the *)
(* requests it admits, the calls that cancel them and the calls that       *)
(* unload it, all of which may be made from different threads.  A step is  *)
(* what happens under one hold of one lock.                                *)
(*                                                                         *)
(* Two kinds of request are told apart.  A call (embed, generate_text) is  *)
(* carried out by the caller's own future, which the caller may drop.  A   *)
(* stream is carried out by a task of its own; what that task and its      *)
(* consumer do is module GenerationStream, and here a stream may be held   *)
(* up for ever.  A loaded instance is always BackendReady, so the phase is *)
(* all that decides on admission.                                          *)
(***************************************************************************)
EXTENDS RequestHandle

CONSTANTS
  Calls,       \* the requests that are calls
  Streams,     \* the requests that are streams
  Cancellers,  \* the calls of LoadedModel::cancel
  Unloads,     \* the calls of LoadedModel::unload_within
  NoRequest    \* the subject of a cancellation that has not been asked for

ASSUME RequestsAssumption ==
  /\ Calls \cap Streams = {}
  /\ NoRequest \notin Calls \cup Streams

Requests == Calls \cup Streams

VARIABLES
  phase,     \* Lifecycle::phase
  active,    \* the keys of Lifecycle::active
  worker,    \* the backend process: "up" or "gone"
  handle,    \* the handle of each request
  call,      \* how far each request has got
  verdict,   \* the outcome its executor has decided on
  asking,    \* how far each cancellation has got
  subject,   \* the request it is about
  reply,     \* what it answered
  unload,    \* how far each unload has got
  mine,      \* the requests outstanding when it began
  told,      \* those of them it has asked to stop
  outcome    \* what it answers

requests == <<handle, call, verdict>>
cancelling == <<asking, subject, reply>>
unloading == <<unload, mine, told, outcome>>
vars == <<phase, active, worker, handle, call, verdict, asking, subject, reply,
          unload, mine, told, outcome>>

CallStages == {"idle", "refused", "admitted", "awaiting", "ending", "ended", "abandoned"}

AskingStages == {"idle", "looked up", "lost", "returned"}

(* CancelOutcome and CancelError, with the cause or the state they carry. *)
Reply(kind, carries) == [kind |-> kind, carries |-> carries]

Replies ==
  [kind : {"none", "Unknown", "Requested"}, carries : {"none"}]
    \cup [kind : {"AlreadyStopping"}, carries : Causes]
    \cup [kind : {"AlreadyFinished"}, carries : TerminalStates]

UnloadStages == {"idle", "telling", "draining", "stopping", "stopped", "unstopped",
                 "returned", "dropped"}

(* The stages of the call that owns the teardown. *)
Owning == {"telling", "draining", "stopping", "stopped", "unstopped"}

Outcomes == {"none", "Drained", "Escalated", "AlreadyUnloading", "AlreadyUnloaded",
             "AlreadyFailed", "Error"}

TypeOK ==
  /\ phase \in {"Serving", "Unloading", "Unloaded", "UnloadFailed"}
  /\ active \in SUBSET Requests
  /\ worker \in {"up", "gone"}
  /\ handle \in [Requests -> Handles]
  /\ call \in [Requests -> CallStages]
  /\ verdict \in [Requests -> TerminalStates \cup {"none"}]
  /\ asking \in [Cancellers -> AskingStages]
  /\ subject \in [Cancellers -> Requests \cup {NoRequest}]
  /\ reply \in [Cancellers -> Replies]
  /\ unload \in [Unloads -> UnloadStages]
  /\ mine \in [Unloads -> SUBSET Requests]
  /\ told \in [Unloads -> SUBSET Requests]
  /\ outcome \in [Unloads -> Outcomes]

Init ==
  /\ phase = "Serving"
  /\ active = {}
  /\ worker = "up"
  /\ handle = [r \in Requests |-> NewHandle]
  /\ call = [r \in Requests |-> "idle"]
  /\ verdict = [r \in Requests |-> "none"]
  /\ asking = [c \in Cancellers |-> "idle"]
  /\ subject = [c \in Cancellers |-> NoRequest]
  /\ reply = [c \in Cancellers |-> Reply("none", "none")]
  /\ unload = [u \in Unloads |-> "idle"]
  /\ mine = [u \in Unloads |-> {}]
  /\ told = [u \in Unloads |-> {}]
  /\ outcome = [u \in Unloads |-> "none"]

Admitted == {r \in Requests : call[r] \notin {"idle", "refused"}}

(* The requests that were accepted and have not been recorded as ended. *)
Live == {r \in Admitted : ~IsTerminal(handle[r])}

(* What retain leaves of the in-flight map. *)
Retained == {r \in active : ~IsTerminal(handle[r])}

-----------------------------------------------------------------------------
(* Requests.                                                               *)

(* A bug: looking at the phase in one hold of the lock, and registering in *)
(* another.                                                                *)
AdmitUnchecked(r) ==
  /\ call[r] = "idle"
  /\ active' = Retained \cup {r}
  /\ call' = [call EXCEPT ![r] = "admitted"]
  /\ UNCHANGED <<phase, worker, handle, verdict, cancelling, unloading>>

(* LoadedModel::admit checks the phase and registers the request at once. *)
Admit(r) ==
  /\ call[r] = "idle"
  /\ phase = "Serving"
  /\ active' = Retained \cup {r}
  /\ call' = [call EXCEPT ![r] = "admitted"]
  /\ UNCHANGED <<phase, worker, handle, verdict, cancelling, unloading>>

Refuse(r) ==
  /\ call[r] = "idle"
  /\ phase # "Serving"
  /\ call' = [call EXCEPT ![r] = "refused"]
  /\ UNCHANGED <<phase, active, worker, handle, verdict, cancelling, unloading>>

(* A call says so at once, a stream once the backend has begun to answer. *)
Dispatch(r) ==
  /\ call[r] = "admitted"
  /\ call' = [call EXCEPT ![r] = "awaiting"]
  /\ handle' = [handle EXCEPT ![r] = MarkRunning(@)]
  /\ UNCHANGED <<phase, active, worker, verdict, cancelling, unloading>>

(* The executor of r has decided how r ends, and has yet to record it. *)
Decide(r, o) ==
  /\ \/ call[r] = "awaiting"
     \/ call[r] = "admitted" /\ r \in Streams
  /\ call' = [call EXCEPT ![r] = "ending"]
  /\ verdict' = [verdict EXCEPT ![r] = o]
  /\ UNCHANGED <<phase, active, worker, cancelling, unloading>>

(* The signal is looked at before the backend's answer is. *)
ObserveCancel(r) ==
  /\ handle[r].cause # "none"
  /\ Decide(r, "Cancelled")
  /\ UNCHANGED handle

(* A bug: waiting for the backend without a limit. *)
AnswerIfAlive(r, o) ==
  /\ worker = "up"
  /\ handle[r].cause = "none" \/ r \in Streams
  /\ Decide(r, o)
  /\ UNCHANGED handle

(* The backend answered, usably or not, or is given up on.  A stream may   *)
(* be told to stop while it hands over text and reach the end regardless.  *)
Answer(r, o) ==
  /\ handle[r].cause = "none" \/ r \in Streams
  /\ Decide(r, o)
  /\ UNCHANGED handle

(* A stream is stopped because nobody reads it, or because the backend was *)
(* silent for too long; the latter goes to the token itself.               *)
LoseConsumer(r) ==
  /\ r \in Streams
  /\ handle' = [handle EXCEPT ![r] = RequestCancellation(@, "ConsumerGone")]
  /\ Decide(r, "Cancelled")

ExpireIdle(r) ==
  /\ r \in Streams
  /\ handle' = [handle EXCEPT ![r] = CancelToken(@, "StreamIdleTimeout")]
  /\ Decide(r, "Cancelled")

Record(r) ==
  /\ call[r] = "ending"
  /\ call' = [call EXCEPT ![r] = "ended"]
  /\ handle' = [handle EXCEPT ![r] = Finish(@, verdict[r])]
  /\ UNCHANGED <<phase, active, worker, verdict, cancelling, unloading>>

(* The caller drops the future of a call while it waits for the backend:   *)
(* nothing runs, and nothing is recorded.                                  *)
Abandon(r) ==
  /\ r \in Calls
  /\ call[r] = "awaiting"
  /\ call' = [call EXCEPT ![r] = "abandoned"]
  /\ UNCHANGED <<phase, active, worker, handle, verdict, cancelling, unloading>>

(* active_requests counts the requests in flight, forgetting the others. *)
CountActive ==
  /\ active' = Retained
  /\ UNCHANGED <<phase, worker, requests, cancelling, unloading>>

-----------------------------------------------------------------------------
(* Cancelling.                                                             *)

(* A request is looked up, and the lifecycle lock released. *)
LookUp(c, r) ==
  /\ asking[c] = "idle"
  /\ active' = Retained
  /\ r \in Retained
  /\ asking' = [asking EXCEPT ![c] = "looked up"]
  /\ subject' = [subject EXCEPT ![c] = r]
  /\ UNCHANGED <<phase, worker, requests, reply, unloading>>

FindNone(c, r) ==
  /\ asking[c] = "idle"
  /\ active' = Retained
  /\ r \notin Retained
  /\ asking' = [asking EXCEPT ![c] = "returned"]
  /\ subject' = [subject EXCEPT ![c] = r]
  /\ reply' = [reply EXCEPT ![c] = Reply("Unknown", "none")]
  /\ UNCHANGED <<phase, worker, requests, unloading>>

Return(c, kind, carries) ==
  /\ asking' = [asking EXCEPT ![c] = "returned"]
  /\ reply' = [reply EXCEPT ![c] = Reply(kind, carries)]
  /\ UNCHANGED <<phase, active, worker, call, verdict, subject, unloading>>

(* This call is the one that stops the request ... *)
Claim(c) ==
  /\ asking[c] = "looked up"
  /\ Claims(handle[subject[c]])
  /\ handle' = [handle EXCEPT ![subject[c]] = RequestCancellation(@, "User")]
  /\ Return(c, "Requested", "none")

(* ... or the request has ended since it was looked up ... *)
FindEnded(c) ==
  /\ asking[c] \in {"looked up", "lost"}
  /\ IsTerminal(handle[subject[c]])
  /\ Return(c, "AlreadyFinished", handle[subject[c]].state)
  /\ UNCHANGED handle

(* ... or it is already stopping, unless it has ended when that is looked at. *)
Lose(c) ==
  /\ asking[c] = "looked up"
  /\ ~IsTerminal(handle[subject[c]])
  /\ ~Claims(handle[subject[c]])
  /\ asking' = [asking EXCEPT ![c] = "lost"]
  /\ UNCHANGED <<phase, active, worker, requests, subject, reply, unloading>>

(* unwrap_or(User) stands for the cause a handle does not have. *)
CauseTold(h) == IF h.cause = "none" THEN "User" ELSE h.cause

FindStopping(c) ==
  /\ asking[c] = "lost"
  /\ ~IsTerminal(handle[subject[c]])
  /\ Return(c, "AlreadyStopping", CauseTold(handle[subject[c]]))
  /\ UNCHANGED handle

-----------------------------------------------------------------------------
(* Unloading.                                                              *)

(* Phase one: admission is closed, and what is in flight taken stock of. *)
Begin(u) ==
  /\ unload[u] = "idle"
  /\ phase = "Serving"
  /\ phase' = "Unloading"
  /\ unload' = [unload EXCEPT ![u] = "telling"]
  /\ mine' = [mine EXCEPT ![u] = Retained]
  /\ UNCHANGED <<active, worker, requests, cancelling, told, outcome>>

(* A bug: a call that finds the worker taken says that it is gone, also if *)
(* the call that took it could not stop it.                                *)
FindTaken(u) ==
  /\ unload[u] = "idle"
  /\ phase # "Serving"
  /\ phase' = IF phase = "Unloading" THEN phase ELSE "Unloaded"
  /\ unload' = [unload EXCEPT ![u] = "returned"]
  /\ outcome' = [outcome EXCEPT ![u] = IF phase = "Unloading" THEN "AlreadyUnloading"
                                                             ELSE "AlreadyUnloaded"]
  /\ UNCHANGED <<active, worker, requests, cancelling, mine, told>>

FindClosed(u) ==
  /\ unload[u] = "idle"
  /\ phase # "Serving"
  /\ unload' = [unload EXCEPT ![u] = "returned"]
  /\ outcome' = [outcome EXCEPT ![u] = CASE phase = "Unloading" -> "AlreadyUnloading"
                                         [] phase = "Unloaded" -> "AlreadyUnloaded"
                                         [] OTHER -> "AlreadyFailed"]
  /\ UNCHANGED <<phase, active, worker, requests, cancelling, mine, told>>

(* Phase two: every outstanding request is asked to stop ... *)
Tell(u, r) ==
  /\ unload[u] = "telling"
  /\ r \in mine[u] \ told[u]
  /\ told' = [told EXCEPT ![u] = @ \cup {r}]
  /\ handle' = [handle EXCEPT ![r] = RequestCancellation(@, "InstanceUnloading")]
  /\ UNCHANGED <<phase, active, worker, call, verdict, cancelling, unload, mine, outcome>>

AllTold(u) ==
  /\ unload[u] = "telling"
  /\ told[u] = mine[u]
  /\ unload' = [unload EXCEPT ![u] = "draining"]
  /\ UNCHANGED <<phase, active, worker, requests, cancelling, mine, told, outcome>>

(* Bugs: taking a request that was told to stop for one that has, and      *)
(* waiting until all have.                                                 *)
SettledOnceTold(r) == handle[r].cause # "none"

(* ... and all of them are waited for, until the budget runs out. *)
Settled(r) == IsTerminal(handle[r])

DrainSettles(u) ==
  /\ unload[u] = "draining"
  /\ \A r \in mine[u] : Settled(r)
  /\ unload' = [unload EXCEPT ![u] = "stopping"]
  /\ outcome' = [outcome EXCEPT ![u] = "Drained"]
  /\ UNCHANGED <<phase, active, worker, requests, cancelling, mine, told>>

DrainRunsOn(u) == FALSE /\ UNCHANGED vars

DrainExpires(u) ==
  /\ unload[u] = "draining"
  /\ \E r \in mine[u] : ~Settled(r)
  /\ unload' = [unload EXCEPT ![u] = "stopping"]
  /\ outcome' = [outcome EXCEPT ![u] = "Escalated"]
  /\ UNCHANGED <<phase, active, worker, requests, cancelling, mine, told>>

(* RunningBackend::stop, which either knows the process gone or says that  *)
(* it would not go.                                                        *)
Stop(u) ==
  /\ unload[u] = "stopping"
  /\ worker' = "gone"
  /\ unload' = [unload EXCEPT ![u] = "stopped"]
  /\ UNCHANGED <<phase, active, requests, cancelling, mine, told, outcome>>

FailStop(u) ==
  /\ unload[u] = "stopping"
  /\ worker = "up"
  /\ unload' = [unload EXCEPT ![u] = "unstopped"]
  /\ outcome' = [outcome EXCEPT ![u] = "Error"]
  /\ UNCHANGED <<phase, active, worker, requests, cancelling, mine, told>>

(* Phase three: LoadedModel::finish. *)
FinishUnload(u) ==
  /\ unload[u] \in {"stopped", "unstopped"}
  /\ phase' = IF unload[u] = "stopped" THEN "Unloaded" ELSE "UnloadFailed"
  /\ active' = {}
  /\ unload' = [unload EXCEPT ![u] = "returned"]
  /\ UNCHANGED <<worker, requests, cancelling, mine, told, outcome>>

(* The caller drops the future while it drains or stops, and the worker's  *)
(* handle with it, which asks for a kill that nothing confirms.            *)
DropUnload(u) ==
  /\ unload[u] \in {"draining", "stopping"}
  /\ unload' = [unload EXCEPT ![u] = "dropped"]
  /\ worker' \in {worker, "gone"}
  /\ UNCHANGED <<phase, active, requests, cancelling, mine, told, outcome>>

(* The backend process dies of itself, or ends late. *)
WorkerExits ==
  /\ worker = "up"
  /\ worker' = "gone"
  /\ UNCHANGED <<phase, active, requests, cancelling, unloading>>

-----------------------------------------------------------------------------
RequestStep(r) ==
  \/ Dispatch(r) \/ ObserveCancel(r) \/ Record(r)
  \/ \E o \in {"Completed", "Failed"} : Answer(r, o)

UnloadStep(u) ==
  \/ Begin(u) \/ FindClosed(u) \/ AllTold(u) \/ DrainSettles(u) \/ DrainExpires(u)
  \/ Stop(u) \/ FailStop(u) \/ FinishUnload(u)
  \/ \E r \in Requests : Tell(u, r)

CancelStep(c) ==
  \/ Claim(c) \/ FindEnded(c) \/ Lose(c) \/ FindStopping(c)
  \/ \E r \in Requests : LookUp(c, r) \/ FindNone(c, r)

Next ==
  \/ \E r \in Requests : \/ Admit(r) \/ Refuse(r) \/ RequestStep(r)
                         \/ LoseConsumer(r) \/ ExpireIdle(r) \/ Abandon(r)
  \/ \E c \in Cancellers : CancelStep(c)
  \/ \E u \in Unloads : UnloadStep(u) \/ DropUnload(u)
  \/ CountActive \/ WorkerExits

(* A call waits for the backend under REQUEST_BUDGET, an unload drains and *)
(* stops under budgets of its own.  Nothing is assumed of streams, whose   *)
(* consumers may hold them up, nor that anybody calls anything.            *)
Fairness ==
  /\ \A r \in Calls : WF_vars(RequestStep(r))
  /\ \A u \in Unloads : WF_vars(unload[u] # "idle" /\ UnloadStep(u))

Spec == Init /\ [][Next]_vars

FairSpec == Spec /\ Fairness

-----------------------------------------------------------------------------
(* Properties.                                                             *)

(* Once admission is closed no request is in flight that the unload does   *)
(* not know of, and once it has told them all, none that was not asked to  *)
(* stop: nothing is admitted moments after the instance stopped admitting. *)
NoneEscapesUnload ==
  phase # "Serving" =>
    \E u \in Unloads : \A r \in Live :
      r \in mine[u] /\ (unload[u] # "telling" => handle[r].cause # "none")

(* An unload that reports the requests drained is right about all of them, *)
(* then and for good: no request of the instance is in flight.             *)
DrainedMeansQuiet == \A u \in Unloads : outcome[u] = "Drained" => Live = {}

(* Until a teardown clears the map, every request in flight is in it, so   *)
(* that it can be named, cancelled and waited for.                         *)
LiveAreNameable == phase \in {"Serving", "Unloading"} => Live \subseteq active

(* What a cancellation was told stays true whatever happens afterwards:    *)
(* "Requested" to the one caller that stopped the request, otherwise the   *)
(* cause that did, or the state in which it had ended.                     *)
Told(c) ==
  LET h == handle[subject[c]] IN
  CASE reply[c].kind = "Requested" -> h.cause = "User"
    [] reply[c].kind = "AlreadyStopping" -> h.cause = reply[c].carries
    [] reply[c].kind = "AlreadyFinished" -> h.state = reply[c].carries
    [] OTHER -> TRUE

RepliesStayTrue ==
  /\ \A c \in Cancellers : Told(c)
  /\ \A c, d \in Cancellers :
       /\ reply[c].kind = "Requested"
       /\ reply[d].kind = "Requested"
       /\ subject[c] = subject[d]
       => c = d

(* A request that has ended does not change any more, and one that was     *)
(* stopped keeps the reason, however many parties try to stop it.          *)
RequestsEndOnce ==
  [][\A r \in Requests :
       /\ IsTerminal(handle[r]) => handle'[r] = handle[r]
       /\ handle[r].cause # "none" => handle'[r].cause = handle[r].cause]_vars

(* The inductive invariant: the properties above, and what they rest on -  *)
(* a handle is terminal only when its request has been recorded as ended,  *)
(* the unload that owns the teardown knows every request in flight, told   *)
(* requests are stopping, outcomes come after the closing of admission,    *)
(* and a cancellation has the subject and the reply its stage calls for.   *)
EndedIsRecorded ==
  \A r \in Requests :
    /\ IsTerminal(handle[r]) => call[r] = "ended"
    /\ call[r] = "ending" => verdict[r] # "none"

OwnerKnowsAll ==
  \A u \in Unloads : unload[u] \in Owning => phase # "Serving" /\ Live \subseteq mine[u]

Stopping(h) == IsTerminal(h) \/ h.cause # "none"

ToldAreStopping == \A u \in Unloads : \A r \in told[u] : Stopping(handle[r])

OutcomesFollowClosing == \A u \in Unloads : outcome[u] # "none" => phase # "Serving"

AskingHasSubject ==
  \A c \in Cancellers :
    /\ asking[c] # "idle" => subject[c] \in Requests
    /\ asking[c] # "returned" => reply[c].kind = "none"
    /\ asking[c] = "lost" => Stopping(handle[subject[c]])

LifecycleInv ==
  /\ TypeOK
  /\ NoneEscapesUnload
  /\ DrainedMeansQuiet
  /\ LiveAreNameable
  /\ RepliesStayTrue
  /\ EndedIsRecorded
  /\ OwnerKnowsAll
  /\ ToldAreStopping
  /\ OutcomesFollowClosing
  /\ AskingHasSubject

(* The instance is torn down as the runtime relies on: once, "Unloaded"    *)
(* only when the worker is gone, and whoever comes in between is told how  *)
(* far it has got, for all the steps that telling, draining, stopping and  *)
(* finishing are.                                                          *)
Stage(u) ==
  CASE unload[u] \in Owning -> "tearing down"
    [] unload[u] = "returned" -> "answered"
    [] OTHER -> unload[u]

Answered(u) ==
  IF unload[u] # "returned" THEN "none"
  ELSE IF outcome[u] \in {"Drained", "Escalated"} THEN "Stopped"
  ELSE outcome[u]

Teardown == INSTANCE InstanceTeardown
              WITH unload <- [u \in Unloads |-> Stage(u)],
                   outcome <- [u \in Unloads |-> Answered(u)]

TeardownImplemented == Teardown!Spec

(* The worker is used as a serving backend may be: it is stopped at most   *)
(* once, by the unload that took it, and is let go of only after that stop *)
(* or with the caller that drops the unload; nobody uses it afterwards.    *)
WorkerStage ==
  IF \E u \in Unloads : unload[u] = "stopped" THEN "stopped"
  ELSE IF phase \in {"Unloaded", "UnloadFailed"} \/ \E u \in Unloads : unload[u] = "dropped"
  THEN "over"
  ELSE "serving"

Worker == INSTANCE BackendProcess WITH stage <- WorkerStage, process <- worker

WorkerKept ==
  /\ WorkerStage = "serving" /\ worker = "up"
  /\ [][Worker!Next]_(Worker!vars)

(* An unload that has begun returns, or is dropped, even if no request     *)
(* ever ends.                                                              *)
UnloadReturns ==
  \A u \in Unloads : unload[u] = "telling" ~> unload[u] \in {"returned", "dropped"}

(* A call returns or is dropped, even if the backend never answers it.     *)
CallsReturn ==
  \A r \in Calls : call[r] = "admitted" ~> call[r] \in {"ended", "abandoned"}
=============================================================================
