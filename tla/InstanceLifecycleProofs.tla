----------------------- MODULE InstanceLifecycleProofs -----------------------
(***************************************************************************)
(* What InstanceLifecycle guarantees for any number of requests, of calls  *)
(* that cancel and of calls that unload.                                   *)
(***************************************************************************)
EXTENDS InstanceLifecycle, TLAPS

(* What every method of a handle does to it: it keeps a terminal state and *)
(* a cause.                                                                *)
Grows(h, g) ==
  /\ g \in Handles
  /\ IsTerminal(h) => g = h
  /\ h.cause # "none" => g.cause = h.cause

LEMMA MarkRunningGrows ==
  ASSUME NEW h \in Handles
  PROVE  Grows(h, MarkRunning(h)) /\ (IsTerminal(MarkRunning(h)) => IsTerminal(h))
BY DEF Grows, MarkRunning, Handles, IsTerminal, TerminalStates, RequestStates

LEMMA CancelTokenGrows ==
  ASSUME NEW h \in Handles, NEW c \in Causes, ~IsTerminal(h)
  PROVE  Grows(h, CancelToken(h, c)) /\ ~IsTerminal(CancelToken(h, c))
BY DEF Grows, CancelToken, Handles, IsTerminal, TerminalStates, RequestStates

LEMMA RequestCancellationGrows ==
  ASSUME NEW h \in Handles, NEW c \in Causes
  PROVE  /\ Grows(h, RequestCancellation(h, c))
         /\ IsTerminal(RequestCancellation(h, c)) => IsTerminal(h)
         /\ Stopping(RequestCancellation(h, c))
         /\ Claims(h) => RequestCancellation(h, c).cause = c
         /\ RequestCancellation(h, c).cause # h.cause => RequestCancellation(h, c).cause = c
<1> USE DEF Handles, IsTerminal, TerminalStates, RequestStates, Causes
<1>1. CASE Claims(h)
  BY <1>1 DEF Grows, RequestCancellation, CancelToken, Claims, Stopping
<1>2. CASE ~Claims(h)
  BY <1>2 DEF Grows, RequestCancellation, Claims, Stopping
<1> QED
  BY <1>1, <1>2

LEMMA FinishGrows ==
  ASSUME NEW h \in Handles, NEW o \in TerminalStates
  PROVE  Grows(h, Finish(h, o)) /\ Finish(h, o).cause = h.cause
BY DEF Grows, Finish, Handles, IsTerminal, TerminalStates, RequestStates

LEMMA SameGrows ==
  ASSUME NEW h \in Handles
  PROVE  Grows(h, h)
BY DEF Grows

(* A handle that grows goes on stopping. *)
LEMMA StoppingLasts ==
  ASSUME NEW h, NEW g, Grows(h, g), Stopping(h)
  PROVE  Stopping(g)
BY DEF Grows, Stopping

(* The requests of an instance: their types, and that a handle is terminal *)
(* only once its executor has recorded the end.                            *)
RequestsInv ==
  /\ handle \in [Requests -> Handles]
  /\ call \in [Requests -> CallStages]
  /\ verdict \in [Requests -> TerminalStates \cup {"none"}]
  /\ EndedIsRecorded

RequestsGrow == \A r \in Requests : Grows(handle[r], handle'[r])

LEMMA RequestStepGrows ==
  ASSUME RequestsInv, NEW r \in Requests,
         \/ Admit(r) \/ Refuse(r) \/ RequestStep(r)
         \/ LoseConsumer(r) \/ ExpireIdle(r) \/ Abandon(r)
  PROVE  RequestsInv' /\ RequestsGrow
<1> USE DEF RequestsInv, RequestsGrow, EndedIsRecorded, CallStages
<1>0. handle[r] \in Handles /\ \A x \in Requests : Grows(handle[x], handle[x])
  BY SameGrows
<1>1. CASE Admit(r)
  BY <1>0, <1>1 DEF Admit
<1>2. CASE Refuse(r)
  BY <1>0, <1>2 DEF Refuse
<1>3. CASE Dispatch(r)
  BY <1>0, <1>3, MarkRunningGrows DEF Dispatch, Grows
<1>4. CASE ObserveCancel(r)
  BY <1>0, <1>4 DEF ObserveCancel, Decide, TerminalStates
<1>5. ASSUME NEW o \in {"Completed", "Failed"}, Answer(r, o)
      PROVE  RequestsInv' /\ RequestsGrow
  BY <1>0, <1>5 DEF Answer, Decide, TerminalStates
<1>6. CASE Record(r)
  BY <1>0, <1>6, FinishGrows DEF Record, Grows, TerminalStates
<1>7. CASE LoseConsumer(r)
  <2>1. "ConsumerGone" \in Causes
    BY DEF Causes
  <2> QED
    BY <1>0, <1>7, <2>1, RequestCancellationGrows
    DEF LoseConsumer, Decide, Grows, TerminalStates
<1>8. CASE ExpireIdle(r)
  <2>1. "StreamIdleTimeout" \in Causes /\ ~IsTerminal(handle[r])
    BY <1>8 DEF ExpireIdle, Decide, Causes
  <2> QED
    BY <1>0, <1>8, <2>1, CancelTokenGrows DEF ExpireIdle, Decide, Grows, TerminalStates
<1>9. CASE Abandon(r)
  BY <1>0, <1>9 DEF Abandon
<1> QED
  BY <1>1, <1>2, <1>3, <1>4, <1>5, <1>6, <1>7, <1>8, <1>9 DEF RequestStep

LEMMA CancelStepGrows ==
  ASSUME RequestsInv, AskingHasSubject, NEW c \in Cancellers, CancelStep(c)
  PROVE  RequestsInv' /\ RequestsGrow
<1> USE DEF RequestsInv, RequestsGrow, EndedIsRecorded
<1>0. \A x \in Requests : Grows(handle[x], handle[x])
  BY SameGrows
<1>1. CASE Claim(c)
  <2>1. "User" \in Causes /\ subject[c] \in Requests
    BY <1>1 DEF Claim, Causes, AskingHasSubject
  <2> DEFINE r == subject[c]
             g == RequestCancellation(handle[r], "User")
  <2>2. g \in Handles /\ Grows(handle[r], g) /\ (IsTerminal(g) => IsTerminal(handle[r]))
    BY <2>1, RequestCancellationGrows DEF Grows
  <2>3. handle' = [handle EXCEPT ![r] = g] /\ UNCHANGED <<call, verdict>>
    BY <1>1 DEF Claim, Return
  <2> HIDE DEF r, g
  <2> QED
    BY <1>0, <2>1, <2>2, <2>3 DEF r
<1>2. CASE FindEnded(c) \/ Lose(c) \/ FindStopping(c)
  BY <1>0, <1>2 DEF FindEnded, Lose, FindStopping, Return, requests
<1>3. ASSUME NEW r \in Requests, LookUp(c, r) \/ FindNone(c, r)
      PROVE  RequestsInv' /\ RequestsGrow
  BY <1>0, <1>3 DEF LookUp, FindNone, requests
<1> QED
  BY <1>1, <1>2, <1>3 DEF CancelStep

LEMMA UnloadStepGrows ==
  ASSUME RequestsInv, mine \in [Unloads -> SUBSET Requests],
         NEW u \in Unloads, UnloadStep(u) \/ DropUnload(u)
  PROVE  RequestsInv' /\ RequestsGrow
<1> USE DEF RequestsInv, RequestsGrow, EndedIsRecorded
<1>0. \A x \in Requests : Grows(handle[x], handle[x])
  BY SameGrows
<1>1. ASSUME NEW r \in Requests, Tell(u, r)
      PROVE  RequestsInv' /\ RequestsGrow
  <2>1. "InstanceUnloading" \in Causes
    BY DEF Causes
  <2> QED
    BY <1>0, <1>1, <2>1, RequestCancellationGrows DEF Tell, Grows
<1>2. CASE UNCHANGED requests
  BY <1>0, <1>2 DEF requests
<1> QED
  BY <1>1, <1>2
  DEF UnloadStep, Begin, FindClosed, AllTold, DrainSettles, DrainExpires, Stop, FailStop,
      FinishUnload, DropUnload

LEMMA NextGrows ==
  ASSUME LifecycleInv, [Next]_vars
  PROVE  RequestsInv' /\ RequestsGrow
<1>1. RequestsInv /\ AskingHasSubject /\ mine \in [Unloads -> SUBSET Requests]
  BY DEF LifecycleInv, RequestsInv, TypeOK
<1>2. CASE UNCHANGED requests
  BY <1>1, <1>2, SameGrows DEF requests, RequestsInv, RequestsGrow, EndedIsRecorded
<1> QED
  BY <1>1, <1>2, RequestStepGrows, CancelStepGrows, UnloadStepGrows
  DEF Next, vars, requests, CountActive, WorkerExits

(* Nothing is admitted once admission is closed, so what is in flight only *)
(* becomes less.                                                           *)
LEMMA LiveShrinks ==
  ASSUME LifecycleInv, [Next]_vars
  PROVE  phase # "Serving" => Live' \subseteq Live
<1>1. SUFFICES ASSUME phase # "Serving"
               PROVE  Admitted' \subseteq Admitted
  <2>1. RequestsGrow
    BY NextGrows
  <2> QED
    BY <1>1, <2>1 DEF Live, Admitted, RequestsGrow, Grows
<1>2. ASSUME NEW r \in Requests,
             \/ Admit(r) \/ Refuse(r) \/ RequestStep(r)
             \/ LoseConsumer(r) \/ ExpireIdle(r) \/ Abandon(r)
      PROVE  Admitted' \subseteq Admitted
  <2>1. call \in [Requests -> CallStages]
    BY DEF LifecycleInv, TypeOK
  <2> QED
    BY <1>1, <1>2, <2>1
    DEF Admitted, Admit, Refuse, RequestStep, Dispatch, ObserveCancel, Answer, Decide,
        Record, LoseConsumer, ExpireIdle, Abandon
<1>3. CASE UNCHANGED call
  BY <1>3 DEF Admitted
<1>4. ASSUME NEW c \in Cancellers, CancelStep(c)
      PROVE  UNCHANGED call
  BY <1>4 DEF CancelStep, Claim, FindEnded, Lose, FindStopping, LookUp, FindNone, Return,
              requests
<1>5. ASSUME NEW u \in Unloads, UnloadStep(u) \/ DropUnload(u)
      PROVE  UNCHANGED call
  BY <1>5
  DEF UnloadStep, Begin, FindClosed, Tell, AllTold, DrainSettles, DrainExpires, Stop,
      FailStop, FinishUnload, DropUnload, requests
<1> QED
  BY <1>2, <1>3, <1>4, <1>5 DEF Next, vars, CountActive, WorkerExits, requests

-----------------------------------------------------------------------------
(* Types.                                                                  *)

LEMMA RequestStepTypes ==
  ASSUME TypeOK, RequestsInv', NEW r \in Requests,
         \/ Admit(r) \/ Refuse(r) \/ RequestStep(r)
         \/ LoseConsumer(r) \/ ExpireIdle(r) \/ Abandon(r)
  PROVE  TypeOK'
<1> USE DEF TypeOK, RequestsInv
<1>1. CASE Admit(r)
  BY <1>1 DEF Admit, Retained, cancelling, unloading
<1>2. CASE UNCHANGED <<phase, active, worker, cancelling, unloading>>
  BY <1>2 DEF cancelling, unloading
<1> QED
  BY <1>1, <1>2
  DEF Refuse, RequestStep, Dispatch, ObserveCancel, Answer, Decide, Record, LoseConsumer,
      ExpireIdle, Abandon

LEMMA CancelStepTypes ==
  ASSUME TypeOK, AskingHasSubject, RequestsInv', NEW c \in Cancellers, CancelStep(c)
  PROVE  TypeOK'
<1>1. /\ phase' = phase /\ worker' = worker /\ UNCHANGED unloading
      /\ active' \in SUBSET Requests
  BY DEF TypeOK, CancelStep, Claim, FindEnded, Lose, FindStopping, LookUp, FindNone, Return,
         Retained
<1>2. /\ asking' \in [Cancellers -> AskingStages]
      /\ subject' \in [Cancellers -> Requests \cup {NoRequest}]
  <2> USE DEF TypeOK, Return, AskingStages
  <2>1. CASE \E r \in Requests : LookUp(c, r) \/ FindNone(c, r)
    <3>1. CASE \E r \in Requests : LookUp(c, r)
      <4>1. PICK r \in Requests : LookUp(c, r)
        BY <3>1
      <4> QED
        BY <4>1 DEF LookUp
    <3>2. CASE \E r \in Requests : FindNone(c, r)
      <4>1. PICK r \in Requests : FindNone(c, r)
        BY <3>2
      <4> QED
        BY <4>1 DEF FindNone
    <3> QED
      BY <2>1, <3>1, <3>2
  <2>2. CASE Claim(c) \/ FindEnded(c)
    BY <2>2 DEF Claim, FindEnded
  <2>3. CASE Lose(c) \/ FindStopping(c)
    BY <2>3 DEF Lose, FindStopping
  <2> QED
    BY <2>1, <2>2, <2>3 DEF CancelStep
<1>3. reply' \in [Cancellers -> Replies]
  <2>1. CASE \E r \in Requests : LookUp(c, r)
    BY <2>1 DEF LookUp, TypeOK
  <2>2. CASE \E r \in Requests : FindNone(c, r)
    BY <2>2 DEF FindNone, TypeOK, Reply, Replies
  <2>3. CASE Claim(c)
    BY <2>3 DEF Claim, Return, TypeOK, Reply, Replies
  <2>4. CASE FindEnded(c)
    BY <2>4 DEF FindEnded, Return, TypeOK, Reply, Replies, IsTerminal
  <2>5. CASE Lose(c)
    BY <2>5 DEF Lose, TypeOK
  <2>6. CASE FindStopping(c)
    <3>1. CauseTold(handle[subject[c]]) \in Causes
      BY <2>6 DEF FindStopping, TypeOK, AskingHasSubject, CauseTold, Handles, Causes
    <3> QED
      BY <2>6, <3>1 DEF FindStopping, Return, TypeOK, Reply, Replies
  <2> QED
    BY <2>1, <2>2, <2>3, <2>4, <2>5, <2>6 DEF CancelStep
<1> QED
  BY <1>1, <1>2, <1>3 DEF TypeOK, RequestsInv, unloading

LEMMA UnloadStepTypes ==
  ASSUME TypeOK, RequestsInv', NEW u \in Unloads, UnloadStep(u) \/ DropUnload(u)
  PROVE  TypeOK'
<1> USE DEF TypeOK, RequestsInv, UnloadStages, Outcomes, cancelling
<1>1. CASE Begin(u)
  BY <1>1 DEF Begin, Retained
<1>2. CASE FindClosed(u)
  BY <1>2 DEF FindClosed
<1>3. ASSUME NEW r \in Requests, Tell(u, r)
      PROVE  TypeOK'
  BY <1>3 DEF Tell
<1>4. CASE AllTold(u) \/ DrainSettles(u) \/ DrainExpires(u)
  BY <1>4 DEF AllTold, DrainSettles, DrainExpires
<1>5. CASE Stop(u) \/ FailStop(u) \/ FinishUnload(u)
  BY <1>5 DEF Stop, FailStop, FinishUnload
<1>6. CASE DropUnload(u)
  BY <1>6 DEF DropUnload
<1> QED
  BY <1>1, <1>2, <1>3, <1>4, <1>5, <1>6 DEF UnloadStep

LEMMA NextTypes ==
  ASSUME LifecycleInv, [Next]_vars
  PROVE  TypeOK'
<1>1. TypeOK /\ AskingHasSubject /\ RequestsInv'
  BY NextGrows DEF LifecycleInv
<1>2. CASE UNCHANGED vars
  BY <1>1, <1>2 DEF vars, TypeOK
<1>3. CASE CountActive \/ WorkerExits
  BY <1>1, <1>3
  DEF CountActive, WorkerExits, TypeOK, Retained, requests, cancelling, unloading
<1> QED
  BY <1>1, <1>2, <1>3, RequestStepTypes, CancelStepTypes, UnloadStepTypes DEF Next

-----------------------------------------------------------------------------
(* The unload, and the requests it has to answer for.                      *)

ClosingInv ==
  /\ NoneEscapesUnload
  /\ DrainedMeansQuiet
  /\ OwnerKnowsAll
  /\ ToldAreStopping
  /\ OutcomesFollowClosing

(* Whatever leaves the unloads alone: admission may only shrink what they  *)
(* answer for once it is closed, and handles keep stopping.                *)
LEMMA ClosingUndisturbed ==
  ASSUME TypeOK, ClosingInv, RequestsGrow, UNCHANGED <<phase, unloading>>,
         phase # "Serving" => Live' \subseteq Live
  PROVE  ClosingInv'
<1> USE DEF ClosingInv, unloading
<1>1. OwnerKnowsAll' /\ OutcomesFollowClosing' /\ DrainedMeansQuiet'
  BY DEF OwnerKnowsAll, OutcomesFollowClosing, DrainedMeansQuiet
<1>2. \A u \in Unloads : \A r \in told[u] : r \in Requests
  BY DEF TypeOK
<1>3. ToldAreStopping'
  BY <1>2, StoppingLasts DEF ToldAreStopping, RequestsGrow
<1>4. NoneEscapesUnload'
  BY DEF NoneEscapesUnload, RequestsGrow, Grows, Live, Admitted, Causes
<1> QED
  BY <1>1, <1>3, <1>4

(* What is in flight when admission closes is what the map holds.          *)
LEMMA BeginCloses ==
  ASSUME TypeOK, ClosingInv, LiveAreNameable, NEW u \in Unloads, Begin(u)
  PROVE  ClosingInv'
<1>1. Live' = Live /\ Live \subseteq Retained /\ phase = "Serving" /\ phase' = "Unloading"
  BY DEF Begin, Live, Admitted, Retained, LiveAreNameable, requests
<1>2. /\ mine' = [mine EXCEPT ![u] = Retained] /\ unload' = [unload EXCEPT ![u] = "telling"]
      /\ UNCHANGED <<told, outcome, handle>>
  BY DEF Begin, requests
<1>3. OwnerKnowsAll'
  BY <1>1, <1>2 DEF ClosingInv, OwnerKnowsAll, TypeOK
<1>4. NoneEscapesUnload'
  BY <1>1, <1>2 DEF NoneEscapesUnload, TypeOK
<1>5. DrainedMeansQuiet' /\ OutcomesFollowClosing' /\ ToldAreStopping'
  BY <1>1, <1>2 DEF ClosingInv, DrainedMeansQuiet, OutcomesFollowClosing, ToldAreStopping
<1> QED
  BY <1>3, <1>4, <1>5 DEF ClosingInv

LEMMA TellCloses ==
  ASSUME TypeOK, ClosingInv, RequestsGrow, Live' \subseteq Live,
         NEW u \in Unloads, NEW r \in Requests, Tell(u, r)
  PROVE  ClosingInv'
<1>1. /\ told' = [told EXCEPT ![u] = @ \cup {r}] /\ UNCHANGED <<phase, unload, mine, outcome>>
      /\ handle'[r] = RequestCancellation(handle[r], "InstanceUnloading")
  BY DEF Tell, TypeOK
<1>2. Stopping(handle'[r])
  <2>1. handle[r] \in Handles /\ "InstanceUnloading" \in Causes
    BY DEF TypeOK, Causes
  <2> QED
    BY <1>1, <2>1, RequestCancellationGrows
<1>3. \A v \in Unloads : \A x \in told[v] : x \in Requests
  BY DEF TypeOK
<1>4. ToldAreStopping'
  BY <1>1, <1>2, <1>3, StoppingLasts DEF ToldAreStopping, RequestsGrow, ClosingInv, TypeOK
<1>5. OwnerKnowsAll' /\ DrainedMeansQuiet' /\ OutcomesFollowClosing'
  BY <1>1 DEF ClosingInv, OwnerKnowsAll, DrainedMeansQuiet, OutcomesFollowClosing
<1>6. NoneEscapesUnload'
  BY <1>1 DEF ClosingInv, NoneEscapesUnload, RequestsGrow, Grows, Live, Admitted
<1> QED
  BY <1>4, <1>5, <1>6 DEF ClosingInv

(* The rest of an unload, which leaves the requests alone.                 *)
LEMMA UnloadStepCloses ==
  ASSUME TypeOK, ClosingInv, UNCHANGED requests, NEW u \in Unloads,
         \/ FindClosed(u) \/ AllTold(u) \/ DrainSettles(u) \/ DrainExpires(u)
         \/ Stop(u) \/ FailStop(u) \/ FinishUnload(u) \/ DropUnload(u)
  PROVE  ClosingInv'
<1>1. Live' = Live /\ UNCHANGED <<handle, mine, told>>
  BY DEF requests, Live, Admitted, FindClosed, AllTold, DrainSettles, DrainExpires, Stop,
         FailStop, FinishUnload, DropUnload
<1>2. phase # "Serving" /\ phase' # "Serving"
  BY DEF ClosingInv, OwnerKnowsAll, Owning, FindClosed, AllTold, DrainSettles, DrainExpires,
         Stop, FailStop, FinishUnload, DropUnload
<1>3. OutcomesFollowClosing'
  BY <1>2 DEF OutcomesFollowClosing
<1>4. ToldAreStopping'
  BY <1>1 DEF ToldAreStopping, ClosingInv
<1>5. \A v \in Unloads : unload'[v] \in Owning => unload[v] \in Owning
  BY DEF TypeOK, Owning, FindClosed, AllTold, DrainSettles, DrainExpires, Stop, FailStop,
         FinishUnload, DropUnload
<1>6. OwnerKnowsAll'
  BY <1>1, <1>2, <1>5 DEF ClosingInv, OwnerKnowsAll
<1>7. \A v \in Unloads : unload'[v] # "telling" /\ unload[v] = "telling" => AllTold(u) /\ v = u
  BY DEF TypeOK, FindClosed, AllTold, DrainSettles, DrainExpires, Stop, FailStop,
         FinishUnload, DropUnload
<1>8. NoneEscapesUnload'
  <2>1. PICK v \in Unloads : \A r \in Live :
          r \in mine[v] /\ (unload[v] # "telling" => handle[r].cause # "none")
    BY <1>2 DEF ClosingInv, NoneEscapesUnload
  <2>2. CASE unload'[v] = "telling" \/ unload[v] # "telling"
    BY <1>1, <2>1, <2>2 DEF NoneEscapesUnload
  <2>3. CASE unload'[v] # "telling" /\ unload[v] = "telling"
    <3>1. told[v] = mine[v]
      BY <1>7, <2>3 DEF AllTold
    <3>2. \A r \in Live : handle[r].cause # "none"
      BY <2>1, <3>1 DEF ClosingInv, ToldAreStopping, Stopping, Live
    <3> QED
      BY <1>1, <2>1, <3>2 DEF NoneEscapesUnload
  <2> QED
    BY <2>2, <2>3
<1>9. DrainedMeansQuiet'
  <2>1. \A v \in Unloads : outcome'[v] = "Drained" /\ outcome[v] # "Drained"
          => DrainSettles(u) /\ v = u
    BY DEF TypeOK, FindClosed, AllTold, DrainSettles, DrainExpires, Stop, FailStop,
           FinishUnload, DropUnload
  <2>2. DrainSettles(u) => Live = {}
    BY DEF DrainSettles, Settled, Live, ClosingInv, OwnerKnowsAll, Owning
  <2> QED
    BY <1>1, <2>1, <2>2 DEF ClosingInv, DrainedMeansQuiet
<1> QED
  BY <1>3, <1>4, <1>6, <1>8, <1>9 DEF ClosingInv

LEMMA NextCloses ==
  ASSUME LifecycleInv, [Next]_vars
  PROVE  ClosingInv'
<1>1. /\ TypeOK /\ ClosingInv /\ LiveAreNameable /\ RequestsGrow
      /\ phase # "Serving" => Live' \subseteq Live
  BY NextGrows, LiveShrinks DEF LifecycleInv, ClosingInv
<1>2. CASE UNCHANGED <<phase, unloading>>
  BY <1>1, <1>2, ClosingUndisturbed
<1>3. ASSUME NEW u \in Unloads, UnloadStep(u) \/ DropUnload(u)
      PROVE  ClosingInv'
  <2>1. CASE Begin(u)
    BY <1>1, <2>1, BeginCloses
  <2>2. ASSUME NEW r \in Requests, Tell(u, r)
        PROVE  ClosingInv'
    <3>1. phase # "Serving"
      BY <1>1, <2>2 DEF Tell, ClosingInv, OwnerKnowsAll, Owning
    <3> QED
      BY <1>1, <2>2, <3>1, TellCloses
  <2>3. CASE \/ FindClosed(u) \/ AllTold(u) \/ DrainSettles(u) \/ DrainExpires(u)
             \/ Stop(u) \/ FailStop(u) \/ FinishUnload(u) \/ DropUnload(u)
    <3>1. UNCHANGED requests
      BY <2>3 DEF FindClosed, AllTold, DrainSettles, DrainExpires, Stop, FailStop,
                  FinishUnload, DropUnload
    <3> QED
      BY <1>1, <2>3, <3>1, UnloadStepCloses
  <2> QED
    BY <1>3, <2>1, <2>2, <2>3 DEF UnloadStep
<1>4. ASSUME NEW r \in Requests,
             \/ Admit(r) \/ Refuse(r) \/ RequestStep(r)
             \/ LoseConsumer(r) \/ ExpireIdle(r) \/ Abandon(r)
      PROVE  UNCHANGED <<phase, unloading>>
  BY <1>4 DEF Admit, Refuse, RequestStep, Dispatch, ObserveCancel, Answer, Decide, Record,
              LoseConsumer, ExpireIdle, Abandon
<1>5. ASSUME NEW c \in Cancellers, CancelStep(c)
      PROVE  UNCHANGED <<phase, unloading>>
  BY <1>5 DEF CancelStep, Claim, FindEnded, Lose, FindStopping, LookUp, FindNone, Return
<1> QED
  BY <1>2, <1>3, <1>4, <1>5 DEF Next, vars, unloading, CountActive, WorkerExits

-----------------------------------------------------------------------------
(* The in-flight map.                                                      *)

LEMMA NextNames ==
  ASSUME LifecycleInv, [Next]_vars
  PROVE  LiveAreNameable'
<1> USE DEF LiveAreNameable
<1>1. TypeOK /\ LiveAreNameable /\ RequestsGrow
  BY NextGrows DEF LifecycleInv
<1>2. ASSUME Admitted' \subseteq Admitted, Retained \subseteq active', UNCHANGED phase
      PROVE  LiveAreNameable'
  BY <1>1, <1>2 DEF Live, Retained, RequestsGrow, Grows, Admitted
<1>3. ASSUME NEW r \in Requests, Admit(r)
      PROVE  LiveAreNameable'
  BY <1>1, <1>3 DEF Admit, Live, Admitted, Retained, TypeOK
<1>4. ASSUME NEW r \in Requests,
             \/ Refuse(r) \/ RequestStep(r) \/ LoseConsumer(r) \/ ExpireIdle(r) \/ Abandon(r)
      PROVE  LiveAreNameable'
  <2>1. Admitted' \subseteq Admitted /\ UNCHANGED <<active, phase>>
    BY <1>1, <1>4
    DEF TypeOK, Admitted, Refuse, RequestStep, Dispatch, ObserveCancel, Answer, Decide,
        Record, LoseConsumer, ExpireIdle, Abandon
  <2> QED
    BY <1>2, <2>1 DEF Retained
<1>5. ASSUME NEW c \in Cancellers, CancelStep(c)
      PROVE  LiveAreNameable'
  <2>1. UNCHANGED <<call, phase>> /\ Retained \subseteq active'
    BY <1>5 DEF CancelStep, Claim, FindEnded, Lose, FindStopping, LookUp, FindNone, Return,
                requests, Retained
  <2> QED
    BY <1>2, <2>1 DEF Admitted
<1>6. ASSUME NEW u \in Unloads, UnloadStep(u) \/ DropUnload(u)
      PROVE  LiveAreNameable'
  <2>1. CASE FinishUnload(u)
    BY <2>1 DEF FinishUnload
  <2>2. CASE UNCHANGED <<call, active>> /\ phase # "Serving" /\ UNCHANGED phase
    BY <1>2, <2>2 DEF Admitted, Retained
  <2>3. CASE Begin(u)
    BY <1>1, <2>3 DEF Begin, Live, Admitted, requests
  <2>4. CASE UNCHANGED <<call, active, phase>>
    BY <1>2, <2>4 DEF Admitted, Retained
  <2> QED
    BY <1>6, <2>1, <2>2, <2>3, <2>4
    DEF UnloadStep, FindClosed, Tell, AllTold, DrainSettles, DrainExpires, Stop, FailStop,
        DropUnload, requests
<1>7. CASE UNCHANGED <<call, active, phase>>
  BY <1>2, <1>7 DEF Admitted, Retained
<1>8. CASE CountActive
  BY <1>2, <1>8 DEF CountActive, Admitted, requests
<1> QED
  BY <1>3, <1>4, <1>5, <1>6, <1>7, <1>8 DEF Next, vars, WorkerExits, requests

-----------------------------------------------------------------------------
(* Cancellations and what they were told.                                  *)

AskingInv == AskingHasSubject /\ RepliesStayTrue

(* Whatever leaves the cancellations alone leaves their replies true.      *)
LEMMA AskingUndisturbed ==
  ASSUME TypeOK, AskingInv, RequestsGrow, UNCHANGED cancelling
  PROVE  AskingInv'
<1> USE DEF AskingInv, cancelling
<1>1. AskingHasSubject'
  BY StoppingLasts DEF AskingHasSubject, TypeOK, RequestsGrow
<1>2. ASSUME NEW c \in Cancellers
      PROVE  Told(c)'
  <2>1. CASE asking[c] # "returned"
    BY <2>1 DEF AskingHasSubject, Told
  <2>2. CASE asking[c] = "returned"
    <3>1. subject[c] \in Requests /\ Told(c)
      BY <2>2 DEF AskingHasSubject, RepliesStayTrue
    <3>2. Grows(handle[subject[c]], handle'[subject[c]])
      BY <3>1 DEF RequestsGrow
    <3>3. /\ reply[c].kind = "AlreadyFinished" => IsTerminal(handle[subject[c]])
          /\ reply[c].kind = "AlreadyStopping" => reply[c].carries # "none"
      BY <3>1 DEF TypeOK, Replies, Told, IsTerminal, Causes
    <3> QED
      BY <3>1, <3>2, <3>3 DEF Told, Grows
  <2> QED
    BY <2>1, <2>2
<1> QED
  BY <1>1, <1>2 DEF RepliesStayTrue

(* The step that answers c leaves what the others were told alone, and     *)
(* only a claim, of a request nobody had claimed, answers "Requested".     *)
LEMMA CancelStepAnswers ==
  ASSUME TypeOK, AskingInv, RequestsGrow, NEW c \in Cancellers, CancelStep(c)
  PROVE  AskingInv'
<1> USE DEF AskingInv
<1>1. ASSUME NEW d \in Cancellers, d # c
      PROVE  asking'[d] = asking[d] /\ subject'[d] = subject[d] /\ reply'[d] = reply[d]
  BY <1>1 DEF TypeOK, CancelStep, Claim, FindEnded, Lose, FindStopping, LookUp, FindNone, Return
<1>2. /\ asking[c] # "idle" => subject'[c] = subject[c] /\ subject[c] \in Requests
      /\ asking[c] # "returned" /\ reply[c].kind = "none"
      /\ asking'[c] # "idle" => subject'[c] \in Requests
  BY DEF TypeOK, AskingHasSubject, CancelStep, Claim, FindEnded, Lose, FindStopping, LookUp,
         FindNone, Return
<1>3. asking'[c] # "returned" => reply'[c].kind = "none"
  BY <1>2 DEF TypeOK, CancelStep, Claim, FindEnded, Lose, FindStopping, LookUp, FindNone,
              Return, AskingStages
<1>4. asking'[c] = "lost" => Stopping(handle'[subject'[c]])
  BY <1>2 DEF TypeOK, CancelStep, Claim, FindEnded, Lose, FindStopping, LookUp,
              FindNone, Return, Stopping, Claims, requests
<1>5. AskingHasSubject'
  <2>1. ASSUME NEW d \in Cancellers, d # c, asking[d] = "lost"
        PROVE  Stopping(handle'[subject[d]])
    BY <2>1, StoppingLasts DEF AskingHasSubject, RequestsGrow
  <2> QED
    BY <1>1, <1>2, <1>3, <1>4, <2>1 DEF AskingHasSubject
<1>6. ASSUME NEW d \in Cancellers, d # c
      PROVE  Told(d)'
  <2>1. CASE asking[d] # "returned"
    BY <1>1, <1>6, <2>1 DEF AskingHasSubject, Told
  <2>2. CASE asking[d] = "returned"
    <3>1. subject[d] \in Requests /\ Told(d)
      BY <2>2 DEF AskingHasSubject, RepliesStayTrue
    <3>2. Grows(handle[subject[d]], handle'[subject[d]])
      BY <3>1 DEF RequestsGrow
    <3>3. /\ reply[d].kind = "AlreadyFinished" => IsTerminal(handle[subject[d]])
          /\ reply[d].kind = "AlreadyStopping" => reply[d].carries # "none"
      BY <3>1 DEF TypeOK, Replies, Told, IsTerminal, Causes
    <3> QED
      BY <1>1, <1>6, <3>1, <3>2, <3>3 DEF Told, Grows
  <2> QED
    BY <2>1, <2>2
<1>7. Told(c)' /\ (reply'[c].kind = "Requested" => Claim(c))
  <2>1. CASE \E r \in Requests : LookUp(c, r) \/ FindNone(c, r)
    <3>1. \/ UNCHANGED reply
          \/ reply' = [reply EXCEPT ![c] = Reply("Unknown", "none")]
      BY <2>1 DEF LookUp, FindNone
    <3>2. reply'[c].kind \in {"none", "Unknown"}
      BY <1>2, <3>1 DEF TypeOK, Reply
    <3> QED
      BY <3>2 DEF Told
  <2>2. CASE Claim(c)
    <3>1. handle[subject[c]] \in Handles /\ "User" \in Causes
      BY <1>2, <2>2 DEF Claim, TypeOK, Causes
    <3>2. handle'[subject[c]].cause = "User"
      BY <1>2, <2>2, <3>1, RequestCancellationGrows DEF Claim, TypeOK
    <3> QED
      BY <1>2, <2>2, <3>2 DEF TypeOK, Claim, Return, Reply, Told
  <2>3. CASE FindEnded(c)
    BY <1>2, <2>3 DEF TypeOK, FindEnded, Return, Reply, Told
  <2>4. CASE Lose(c)
    BY <1>2, <2>4 DEF TypeOK, Lose, Told
  <2>5. CASE FindStopping(c)
    <3>1. CauseTold(handle[subject[c]]) = handle[subject[c]].cause
      BY <2>5 DEF FindStopping, AskingHasSubject, Stopping, CauseTold
    <3> QED
      BY <1>2, <2>5, <3>1 DEF TypeOK, FindStopping, Return, Reply, Told
  <2> QED
    BY <2>1, <2>2, <2>3, <2>4, <2>5 DEF CancelStep
<1>8. ASSUME NEW d \in Cancellers, d # c, reply'[c].kind = "Requested",
             reply'[d].kind = "Requested"
      PROVE  subject'[c] # subject'[d]
  <2>1. handle[subject[d]].cause = "User"
    BY <1>1, <1>8 DEF RepliesStayTrue, Told
  <2>2. handle[subject[c]].cause = "none" /\ subject'[c] = subject[c]
    BY <1>2, <1>7, <1>8 DEF Claim, Claims
  <2> QED
    BY <1>1, <1>8, <2>1, <2>2
<1>9. RepliesStayTrue'
  <2>1. \A d, e \in Cancellers :
          /\ reply[d].kind = "Requested"
          /\ reply[e].kind = "Requested"
          /\ subject[d] = subject[e]
          => d = e
    BY DEF RepliesStayTrue
  <2> QED
    BY <1>1, <1>6, <1>7, <1>8, <2>1 DEF RepliesStayTrue
<1> QED
  BY <1>5, <1>9

LEMMA NextAnswers ==
  ASSUME LifecycleInv, [Next]_vars
  PROVE  AskingInv'
<1>1. TypeOK /\ AskingInv /\ RequestsGrow
  BY NextGrows DEF LifecycleInv, AskingInv
<1>2. CASE UNCHANGED cancelling
  BY <1>1, <1>2, AskingUndisturbed
<1>3. ASSUME NEW c \in Cancellers, CancelStep(c)
      PROVE  AskingInv'
  BY <1>1, <1>3, CancelStepAnswers
<1>4. ASSUME NEW r \in Requests,
             \/ Admit(r) \/ Refuse(r) \/ RequestStep(r)
             \/ LoseConsumer(r) \/ ExpireIdle(r) \/ Abandon(r)
      PROVE  UNCHANGED cancelling
  BY <1>4 DEF Admit, Refuse, RequestStep, Dispatch, ObserveCancel, Answer, Decide, Record,
              LoseConsumer, ExpireIdle, Abandon
<1>5. ASSUME NEW u \in Unloads, UnloadStep(u) \/ DropUnload(u)
      PROVE  UNCHANGED cancelling
  BY <1>5
  DEF UnloadStep, Begin, FindClosed, Tell, AllTold, DrainSettles, DrainExpires, Stop,
      FailStop, FinishUnload, DropUnload
<1> QED
  BY <1>2, <1>3, <1>4, <1>5 DEF Next, vars, cancelling, CountActive, WorkerExits

-----------------------------------------------------------------------------
(* Theorems.                                                               *)

LEMMA InitLifecycle == Init => LifecycleInv
<1> SUFFICES ASSUME Init
             PROVE  LifecycleInv
  OBVIOUS
<1>1. TypeOK
  BY DEF Init, TypeOK, NewHandle, Handles, RequestStates, CallStages, AskingStages, Replies,
         Reply, UnloadStages, Outcomes
<1>2. Live = {}
  BY DEF Init, Live, Admitted
<1>3. NoneEscapesUnload /\ DrainedMeansQuiet /\ LiveAreNameable
  BY <1>2 DEF Init, NoneEscapesUnload, DrainedMeansQuiet, LiveAreNameable
<1>4. RepliesStayTrue /\ AskingHasSubject
  BY DEF Init, RepliesStayTrue, Told, AskingHasSubject, Reply
<1>5. EndedIsRecorded /\ OwnerKnowsAll /\ ToldAreStopping /\ OutcomesFollowClosing
  BY DEF Init, EndedIsRecorded, IsTerminal, TerminalStates, NewHandle, OwnerKnowsAll, Owning,
         ToldAreStopping, OutcomesFollowClosing
<1> QED
  BY <1>1, <1>3, <1>4, <1>5 DEF LifecycleInv

(* Every state an instance reaches satisfies the inductive invariant.      *)
THEOREM LifecycleInvariant == Spec => []LifecycleInv
<1>1. LifecycleInv /\ [Next]_vars => LifecycleInv'
  BY NextTypes, NextGrows, NextCloses, NextNames, NextAnswers
  DEF LifecycleInv, ClosingInv, AskingInv, RequestsInv
<1> QED
  BY <1>1, InitLifecycle, PTL DEF Spec

(* No request is admitted behind the back of an unload.                    *)
THEOREM NothingEscapesAnUnload == Spec => []NoneEscapesUnload
BY LifecycleInvariant, PTL DEF LifecycleInv

(* An unload that says that the requests drained is right about all.       *)
THEOREM DrainedIsQuiet == Spec => []DrainedMeansQuiet
BY LifecycleInvariant, PTL DEF LifecycleInv

(* What a cancellation was told remains true.                              *)
THEOREM RepliesRemainTrue == Spec => []RepliesStayTrue
BY LifecycleInvariant, PTL DEF LifecycleInv

(* A request ends once and for one reason.                                 *)
THEOREM EveryRequestEndsOnce == Spec => RequestsEndOnce
<1>1. LifecycleInv /\ [Next]_vars
        => [\A r \in Requests :
              /\ IsTerminal(handle[r]) => handle'[r] = handle[r]
              /\ handle[r].cause # "none" => handle'[r].cause = handle[r].cause]_vars
  BY NextGrows DEF RequestsGrow, Grows
<1> QED
  BY <1>1, LifecycleInvariant, PTL DEF Spec, RequestsEndOnce
-----------------------------------------------------------------------------
(* The refinement.                                                         *)

(* What a teardown has come to agrees with what it is about to answer. *)
OutcomesFit ==
  \A u \in Unloads :
    /\ unload[u] \in {"stopping", "stopped"} => outcome[u] \in {"Drained", "Escalated"}
    /\ unload[u] = "stopped" => worker = "gone"
    /\ unload[u] = "unstopped" => outcome[u] = "Error"

(* A step of a request or of a cancellation is none of the teardown's. *)
LEMMA TeardownUndisturbed ==
  ASSUME \/ \E r \in Requests : \/ Admit(r) \/ Refuse(r) \/ RequestStep(r)
                               \/ LoseConsumer(r) \/ ExpireIdle(r) \/ Abandon(r)
         \/ \E c \in Cancellers : CancelStep(c)
         \/ CountActive
  PROVE  UNCHANGED <<phase, worker, unload, outcome>>
<1>1. ASSUME NEW r \in Requests,
             \/ Admit(r) \/ Refuse(r) \/ RequestStep(r)
             \/ LoseConsumer(r) \/ ExpireIdle(r) \/ Abandon(r)
      PROVE  UNCHANGED <<phase, worker, unload, outcome>>
  BY <1>1 DEF Admit, Refuse, RequestStep, Dispatch, ObserveCancel, Answer, Decide, Record,
              LoseConsumer, ExpireIdle, Abandon, unloading
<1>2. ASSUME NEW c \in Cancellers, CancelStep(c)
      PROVE  UNCHANGED <<phase, worker, unload, outcome>>
  BY <1>2 DEF CancelStep, LookUp, FindNone, Claim, FindEnded, Lose, FindStopping, Return,
              unloading
<1> QED
  BY <1>1, <1>2 DEF CountActive, unloading

LEMMA OutcomesGoOnFitting ==
  ASSUME TypeOK, OutcomesFit, [Next]_vars
  PROVE  OutcomesFit'
<1> USE DEF TypeOK, OutcomesFit
<1>1. CASE UNCHANGED <<phase, worker, unload, outcome>>
  BY <1>1
<1>2. ASSUME NEW u \in Unloads, UnloadStep(u) \/ DropUnload(u)
      PROVE  OutcomesFit'
  <2>1. CASE Begin(u) \/ FindClosed(u) \/ AllTold(u) \/ (\E r \in Requests : Tell(u, r))
    BY <2>1 DEF Begin, FindClosed, AllTold, Tell
  <2>2. CASE DrainSettles(u) \/ DrainExpires(u)
    BY <2>2 DEF DrainSettles, DrainExpires
  <2>3. CASE Stop(u) \/ FailStop(u)
    BY <2>3 DEF Stop, FailStop
  <2>4. CASE FinishUnload(u) \/ DropUnload(u)
    BY <2>4 DEF FinishUnload, DropUnload
  <2> QED
    BY <1>2, <2>1, <2>2, <2>3, <2>4 DEF UnloadStep
<1>3. CASE WorkerExits
  BY <1>3 DEF WorkerExits, unloading
<1> QED
  BY <1>1, <1>2, <1>3, TeardownUndisturbed DEF Next, vars

LEMMA UnloadImplements ==
  ASSUME TypeOK, OutcomesFit, NEW u \in Unloads, UnloadStep(u) \/ DropUnload(u)
  PROVE  [Teardown!Next]_(Teardown!vars)
<1> USE DEF TypeOK, Owning
<1> DEFINE stages == [v \in Unloads |-> Stage(v)]
           answers == [v \in Unloads |-> Answered(v)]
<1>1. CASE Begin(u)
  <2>1. stages[u] = "idle" /\ stages' = [stages EXCEPT ![u] = "tearing down"]
    BY <1>1 DEF Begin, Stage
  <2>2. answers' = answers
    BY <1>1 DEF Begin, Answered
  <2> QED
    BY <1>1, <2>1, <2>2 DEF Begin, Teardown!Next, Teardown!Close
<1>2. CASE FindClosed(u)
  <2>1. stages[u] = "idle" /\ stages' = [stages EXCEPT ![u] = "answered"]
    BY <1>2 DEF FindClosed, Stage
  <2>2. answers' = [answers EXCEPT ![u] = outcome'[u]]
    <3>1. outcome'[u] \notin {"Drained", "Escalated"} /\ unload'[u] = "returned"
      BY <1>2 DEF FindClosed
    <3>2. Answered(u)' = outcome'[u]
      BY <3>1 DEF Answered
    <3>3. ASSUME NEW v \in Unloads, v # u
          PROVE  Answered(v)' = Answered(v)
      <4>1. unload'[v] = unload[v] /\ outcome'[v] = outcome[v]
        BY <1>2, <3>3 DEF FindClosed
      <4> QED
        BY <4>1 DEF Answered
    <3> QED
      BY <3>2, <3>3
  <2>3. Teardown!TurnAway(u)
    BY <1>2, <2>1, <2>2 DEF FindClosed, Teardown!TurnAway, Teardown!Answer
  <2> QED
    BY <2>3 DEF Teardown!Next
<1>3. CASE \/ AllTold(u) \/ DrainSettles(u) \/ DrainExpires(u) \/ FailStop(u)
           \/ \E r \in Requests : Tell(u, r)
  <2>1. stages' = stages
    BY <1>3 DEF AllTold, DrainSettles, DrainExpires, FailStop, Tell, Stage
  <2>2. answers' = answers
    <3>1. unload[u] # "returned" /\ unload'[u] # "returned"
      BY <1>3 DEF AllTold, DrainSettles, DrainExpires, FailStop, Tell
    <3>2. ASSUME NEW v \in Unloads, v # u
          PROVE  unload'[v] = unload[v] /\ outcome'[v] = outcome[v]
      BY <1>3, <3>2 DEF AllTold, DrainSettles, DrainExpires, FailStop, Tell
    <3>3. ASSUME NEW v \in Unloads
          PROVE  Answered(v)' = Answered(v)
      BY <3>1, <3>2 DEF Answered
    <3> QED
      BY <3>3
  <2>3. phase' = phase /\ worker' = worker
    BY <1>3 DEF AllTold, DrainSettles, DrainExpires, FailStop, Tell
  <2> QED
    BY <2>1, <2>2, <2>3 DEF Teardown!vars
<1>4. CASE Stop(u)
  <2>1. stages' = stages
    BY <1>4 DEF Stop, Stage
  <2>2. answers' = answers
    BY <1>4 DEF Stop, Answered
  <2> QED
    BY <1>4, <2>1, <2>2 DEF Stop, Teardown!Next, Teardown!Exit
<1>5. CASE FinishUnload(u)
  <2>1. stages[u] = "tearing down" /\ stages' = [stages EXCEPT ![u] = "answered"]
    BY <1>5 DEF FinishUnload, Stage
  <2>2. answers' = [answers EXCEPT ![u] = IF unload[u] = "stopped" THEN "Stopped" ELSE "Error"]
    <3>1. /\ unload'[u] = "returned" /\ outcome' = outcome
          /\ unload[u] \in {"stopped", "unstopped"}
          /\ \A v \in Unloads : v # u => unload'[v] = unload[v]
      BY <1>5 DEF FinishUnload
    <3>2. Answered(u)' = IF unload[u] = "stopped" THEN "Stopped" ELSE "Error"
      BY <3>1 DEF Answered, OutcomesFit
    <3>3. ASSUME NEW v \in Unloads, v # u
          PROVE  Answered(v)' = Answered(v)
      BY <3>1, <3>3 DEF Answered
    <3> QED
      BY <3>2, <3>3
  <2>3. CASE unload[u] = "stopped"
    <3>1. worker' = "gone" /\ phase' = "Unloaded"
      BY <1>5, <2>3 DEF FinishUnload, OutcomesFit
    <3> QED
      BY <2>1, <2>2, <2>3, <3>1 DEF Teardown!Next, Teardown!Succeed, Teardown!Answer
  <2>4. CASE unload[u] = "unstopped"
    <3>1. worker' = worker /\ phase' = "UnloadFailed"
      BY <1>5, <2>4 DEF FinishUnload
    <3> QED
      BY <2>1, <2>2, <2>4, <3>1 DEF Teardown!Next, Teardown!Fail, Teardown!Answer
  <2> QED
    BY <1>5, <2>3, <2>4 DEF FinishUnload
<1>6. CASE DropUnload(u)
  <2>1. stages[u] = "tearing down" /\ stages' = [stages EXCEPT ![u] = "dropped"]
    BY <1>6 DEF DropUnload, Stage
  <2>2. answers' = answers
    BY <1>6 DEF DropUnload, Answered
  <2> QED
    BY <1>6, <2>1, <2>2 DEF DropUnload, Teardown!Next, Teardown!Drop
<1> QED
  BY <1>1, <1>2, <1>3, <1>4, <1>5, <1>6 DEF UnloadStep

(* An instance is torn down as the runtime relies on.                      *)
THEOREM LifecycleImplementsTeardown == Spec => TeardownImplemented
<1>1. Init => OutcomesFit /\ Teardown!Init
  BY DEF Init, OutcomesFit, Teardown!Init, Stage, Answered, Owning
<1>2. TypeOK /\ OutcomesFit /\ [Next]_vars => [Teardown!Next]_(Teardown!vars)
  <2> SUFFICES ASSUME TypeOK, OutcomesFit, [Next]_vars
               PROVE  [Teardown!Next]_(Teardown!vars)
    OBVIOUS
  <2>1. CASE UNCHANGED <<phase, worker, unload, outcome>>
    BY <2>1 DEF Teardown!vars, Stage, Answered
  <2>2. CASE WorkerExits
    BY <2>2 DEF WorkerExits, unloading, Teardown!Next, Teardown!Exit, Stage, Answered
  <2> QED
    BY <2>1, <2>2, UnloadImplements, TeardownUndisturbed DEF Next, vars
<1> QED
  BY <1>1, <1>2, LifecycleInvariant, OutcomesGoOnFitting, PTL
  DEF Spec, LifecycleInv, TeardownImplemented, Teardown!Spec

-----------------------------------------------------------------------------
(* The worker.                                                             *)

(* Who has taken the worker, and has not recorded how that ended. *)
Took(u) == unload[u] \in Owning \cup {"dropped"}

OneTakes ==
  /\ \A u \in Unloads : Took(u) => phase = "Unloading"
  /\ \A u, v \in Unloads : Took(u) /\ Took(v) => u = v

LEMMA OneGoesOnTaking ==
  ASSUME TypeOK, OneTakes, [Next]_vars
  PROVE  OneTakes'
<1> USE DEF TypeOK, OneTakes, Took, Owning
<1>1. CASE UNCHANGED <<phase, worker, unload, outcome>>
  BY <1>1
<1>2. ASSUME NEW u \in Unloads, UnloadStep(u) \/ DropUnload(u)
      PROVE  OneTakes'
  <2>1. CASE Begin(u)
    <3>1. \A v \in Unloads : ~Took(v)
      BY <2>1 DEF Begin
    <3>2. phase' = "Unloading" /\ unload' = [unload EXCEPT ![u] = "telling"]
      BY <2>1 DEF Begin
    <3> QED
      BY <3>1, <3>2
  <2>2. CASE FindClosed(u) \/ FinishUnload(u)
    <3>1. /\ unload' = [unload EXCEPT ![u] = "returned"]
          /\ phase' = phase \/ Took(u)
      BY <2>2 DEF FindClosed, FinishUnload
    <3> QED
      BY <3>1
  <2>3. CASE \/ AllTold(u) \/ DrainSettles(u) \/ DrainExpires(u) \/ Stop(u) \/ FailStop(u)
             \/ DropUnload(u) \/ \E r \in Requests : Tell(u, r)
    <3>1. phase' = phase /\ Took(u)
      BY <2>3 DEF AllTold, DrainSettles, DrainExpires, Stop, FailStop, DropUnload, Tell
    <3>2. \A v \in Unloads : v # u => unload'[v] = unload[v]
      BY <2>3 DEF AllTold, DrainSettles, DrainExpires, Stop, FailStop, DropUnload, Tell
    <3> QED
      BY <3>1, <3>2
  <2> QED
    BY <1>2, <2>1, <2>2, <2>3 DEF UnloadStep
<1>3. CASE WorkerExits
  BY <1>3 DEF WorkerExits, unloading
<1> QED
  BY <1>1, <1>2, <1>3, TeardownUndisturbed DEF Next, vars

LEMMA UnloadUsesWorker ==
  ASSUME TypeOK, OneTakes, NEW u \in Unloads, UnloadStep(u) \/ DropUnload(u)
  PROVE  [Worker!Next]_(Worker!vars)
<1> USE DEF TypeOK, Owning
<1>1. ASSUME Took(u)
      PROVE  /\ phase = "Unloading"
             /\ \A v \in Unloads : v # u => unload[v] \in {"idle", "returned"}
             /\ WorkerStage = IF unload[u] = "stopped" THEN "stopped"
                              ELSE IF unload[u] = "dropped" THEN "over" ELSE "serving"
  <2>1. phase = "Unloading" /\ \A v \in Unloads : v # u => ~Took(v)
    BY <1>1 DEF OneTakes
  <2>2. \A v \in Unloads : v # u => unload[v] \in {"idle", "returned"}
    BY <2>1 DEF Took, UnloadStages
  <2> QED
    BY <2>1, <2>2 DEF WorkerStage
<1>2. CASE Begin(u)
  <2>1. \A v \in Unloads : ~Took(v)
    BY <1>2 DEF Begin, OneTakes
  <2>2. /\ phase' = "Unloading" /\ phase = "Serving" /\ worker' = worker
        /\ unload' = [unload EXCEPT ![u] = "telling"]
    BY <1>2 DEF Begin
  <2>3. \A v \in Unloads : unload[v] \notin {"stopped", "dropped"}
                            /\ unload'[v] \notin {"stopped", "dropped"}
    BY <2>1, <2>2 DEF Took
  <2>4. WorkerStage = "serving" /\ WorkerStage' = "serving"
    BY <2>2, <2>3 DEF WorkerStage
  <2> QED
    BY <2>2, <2>4 DEF Worker!vars
<1>3. CASE FindClosed(u)
  <2>1. /\ phase' = phase /\ worker' = worker /\ unload[u] = "idle"
        /\ unload' = [unload EXCEPT ![u] = "returned"]
    BY <1>3 DEF FindClosed
  <2>2. \A v \in Unloads : unload'[v] = IF v = u THEN "returned" ELSE unload[v]
    BY <2>1
  <2>3. /\ (\E v \in Unloads : unload'[v] = "stopped") <=> \E v \in Unloads : unload[v] = "stopped"
        /\ (\E v \in Unloads : unload'[v] = "dropped") <=> \E v \in Unloads : unload[v] = "dropped"
    BY <2>1, <2>2
  <2>4. WorkerStage' = WorkerStage
    BY <2>1, <2>3 DEF WorkerStage
  <2> QED
    BY <2>1, <2>4 DEF Worker!vars
<1>4. CASE \/ AllTold(u) \/ DrainSettles(u) \/ DrainExpires(u) \/ FailStop(u)
           \/ \E r \in Requests : Tell(u, r)
  <2>1. /\ unload[u] \in Owning \ {"stopped"} /\ unload'[u] \notin {"stopped", "dropped"}
        /\ phase' = phase /\ worker' = worker
        /\ \A v \in Unloads : v # u => unload'[v] = unload[v]
    BY <1>4 DEF AllTold, DrainSettles, DrainExpires, FailStop, Tell
  <2>2. \A v \in Unloads : unload'[v] \notin {"stopped", "dropped"}
    BY <1>1, <2>1 DEF Took
  <2>3. WorkerStage = "serving" /\ WorkerStage' = "serving"
    BY <1>1, <2>1, <2>2 DEF Took, WorkerStage
  <2> QED
    BY <2>1, <2>3 DEF Worker!vars
<1>5. CASE Stop(u)
  <2>1. /\ unload[u] = "stopping" /\ unload'[u] = "stopped" /\ worker' = "gone"
    BY <1>5 DEF Stop
  <2>2. WorkerStage = "serving" /\ WorkerStage' = "stopped"
    BY <1>1, <2>1 DEF Took, WorkerStage
  <2> QED
    BY <2>1, <2>2 DEF Worker!Next, Worker!Stop
<1>6. CASE FinishUnload(u)
  <2>1. /\ unload[u] \in {"stopped", "unstopped"} /\ worker' = worker
        /\ unload' = [unload EXCEPT ![u] = "returned"]
        /\ phase' \in {"Unloaded", "UnloadFailed"}
    BY <1>6 DEF FinishUnload
  <2>2. \A v \in Unloads : unload'[v] # "stopped"
    BY <1>1, <2>1 DEF Took
  <2>3. WorkerStage \in {"serving", "stopped"} /\ WorkerStage' = "over"
    BY <1>1, <2>1, <2>2 DEF Took, WorkerStage
  <2> QED
    BY <2>1, <2>3 DEF Worker!Next, Worker!Drop, Worker!EndTried
<1>7. CASE DropUnload(u)
  <2>1. /\ unload[u] \in {"draining", "stopping"} /\ worker' \in {worker, "gone"}
        /\ unload' = [unload EXCEPT ![u] = "dropped"]
    BY <1>7 DEF DropUnload
  <2>2. \A v \in Unloads : unload'[v] # "stopped"
    BY <1>1, <2>1 DEF Took
  <2>3. WorkerStage = "serving" /\ WorkerStage' = "over"
    BY <1>1, <2>1, <2>2 DEF Took, WorkerStage
  <2> QED
    BY <2>1, <2>3 DEF Worker!Next, Worker!Drop, Worker!EndTried
<1> QED
  BY <1>2, <1>3, <1>4, <1>5, <1>6, <1>7 DEF UnloadStep

(* However the calls that unload an instance overlap, its worker is used   *)
(* as one that RunningBackend::stop may be asked of (unload_within).       *)
THEOREM LifecycleReliesOnWorker == Spec => WorkerKept
<1>1. Init => OneTakes /\ WorkerStage = "serving" /\ worker = "up"
  BY DEF Init, OneTakes, Took, Owning, WorkerStage
<1>2. TypeOK /\ OneTakes /\ [Next]_vars => [Worker!Next]_(Worker!vars)
  <2> SUFFICES ASSUME TypeOK, OneTakes, [Next]_vars
               PROVE  [Worker!Next]_(Worker!vars)
    OBVIOUS
  <2>1. CASE UNCHANGED <<phase, worker, unload, outcome>>
    BY <2>1 DEF Worker!vars, WorkerStage
  <2>2. CASE WorkerExits
    BY <2>2 DEF WorkerExits, unloading, Worker!Next, Worker!Exit, WorkerStage
  <2> QED
    BY <2>1, <2>2, UnloadUsesWorker, TeardownUndisturbed DEF Next, vars
<1> QED
  BY <1>1, <1>2, LifecycleInvariant, OneGoesOnTaking, PTL
  DEF Spec, LifecycleInv, WorkerKept
=============================================================================
