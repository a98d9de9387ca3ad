--------------------------- MODULE BackendsProofs ---------------------------
(***************************************************************************)
(* What several backends over one set of ports guarantee.  Every step of   *)
(* Backends is a step of ProcessWorker or leaves its variables alone, so   *)
(* what is proved of ProcessWorker holds here; BackendsInv adds what       *)
(* relates the process to its port, its secret and its secret file, and    *)
(* to the run that told its build.  Who answers at a port is told apart by *)
(* the secret, because no two channels have the same.                      *)
(***************************************************************************)
EXTENDS Backends, TLAPS

(* The supervision of a process, for any set of workers: SupervisionInv is *)
(* inductive.  The argument is worker by worker: a step is about one and   *)
(* leaves the others as they are.                                          *)

(* The invariant for one worker. *)
Supervised(w) ==
  /\ FreshHasNothing(w) /\ OperationsWait(w) /\ WaitsKnow(w)
  /\ \/ told[w] \in {"Requested", "Unexpected", "ShutdownTimeout", "ExitedDuringStartup"}
     \/ held[w] /\ state[w] = "Absent"
     => process[w] = "gone"
  /\ held[w] /\ Alive(w) => child[w]
  /\ process[w] = "running" /\ ~held[w] => defied[w]

Step(w) == Exit(w) \/ Die(w) \/ ExpireReady(w) \/ Proceed(w) \/ Request(w)

LEMMA InvIsPointwise == SupervisionInv <=> TypeOK /\ \A w \in Workers : Supervised(w)
  BY DEF SupervisionInv, StoppedIsGone, KeptForAnotherAttempt, NoSilentOrphan, Supervised

(* What terminate sets when it begins. *)
LEMMA TerminateType ==
  ASSUME TypeOK, NEW w \in Workers, Terminate(w)
  PROVE  /\ at' \in [Workers -> Awaits \cup {"nowhere", "killing"}]
         /\ child' \in [Workers -> BOOLEAN]
         /\ refused' \in [Workers -> BOOLEAN]
         /\ told' = told
<1>1. (child[w] /\ process[w] # "gone") \in BOOLEAN
  OBVIOUS
<1> QED
  BY <1>1 DEF TypeOK, Terminate, Wait, Awaits

LEMMA StepType ==
  ASSUME TypeOK, NEW w \in Workers, Step(w)
  PROVE  TypeOK'
<1> USE DEF TypeOK, os, own, Tell, Wait, KillAccepted, KillRefused
<1>1. CASE Exit(w) \/ Die(w)
  BY <1>1 DEF Exit, Die
<1>2. CASE ExpireReady(w)
  <2>1. CASE CanBecome(state[w], "Failed")
    BY <1>2, <2>1, TerminateType DEF ExpireReady, States
  <2>2. CASE ~CanBecome(state[w], "Failed")
    BY <1>2, <2>2 DEF ExpireReady, Answers
  <2> QED
    BY <2>1, <2>2
<1>3. CASE Proceed(w)
  <2>1. CASE Wake(w) \/ ProbeNotYet(w) \/ ProbeReady(w) \/ ProbeFails(w)
    BY <2>1 DEF Wake, ProbeNotYet, ProbeReady, ProbeFails, LookAlive, Conclude, Become,
                Awaits, States, Answers
  <2>2. CASE Kill(w) \/ RefuseKill(w) \/ KillTooLate(w)
    <3>1. CASE Kill(w)
      BY <3>1 DEF Kill, Awaits
    <3>2. CASE RefuseKill(w)
      BY <3>2 DEF RefuseKill, Awaits
    <3>3. CASE KillTooLate(w)
      BY <3>3 DEF KillTooLate, Awaits
    <3> QED
      BY <2>2, <3>1, <3>2, <3>3
  <2>3. CASE Reap(w) \/ EndAnyway(w) \/ GiveUp(w)
    BY <2>3 DEF Reap, EndAnyway, GiveUp, Awaits
  <2>4. CASE ExpireAsked(w)
    BY <2>4, TerminateType DEF ExpireAsked
  <2>5. CASE ShutdownEnds(w) \/ ReadyEnds(w)
    BY <2>5 DEF ShutdownEnds, ReadyEnds, Become, States, Answers
  <2>6. CASE SeeExit(w) \/ MissExit(w)
    <3>1. CASE SeeExit(w)
      BY <3>1 DEF SeeExit, Awaits, Answers
    <3>2. CASE MissExit(w)
      BY <3>2 DEF MissExit, Awaits, Answers
    <3> QED
      BY <2>6, <3>1, <3>2
  <2>7. CASE PartRequested(w) \/ PartUnexpected(w)
    BY <2>7 DEF PartRequested, PartUnexpected, Become, States, Answers
  <2> QED
    BY <1>3, <2>1, <2>2, <2>3, <2>4, <2>5, <2>6, <2>7 DEF Proceed
<1>4. CASE Request(w)
  <2>1. CASE (\E p \in {"ShutdownLine", "Terminate"} : Spawn(w, p))
    BY <2>1 DEF Spawn, States
  <2>2. CASE SpawnUncontrolled(w)
    BY <2>2 DEF SpawnUncontrolled, Answers
  <2>3. CASE WaitReady(w)
    BY <2>3 DEF WaitReady, LookAlive, Conclude, Become, Awaits, States, Answers
  <2>4. CASE ShutdownByKill(w)
    BY <2>4, TerminateType DEF ShutdownByKill, ShuttingDown, States
  <2>5. CASE ShutdownNothing(w) \/ ShutdownByAsking(w)
    BY <2>5 DEF ShutdownNothing, ShutdownByAsking, ShuttingDown, Awaits, States, Answers
  <2>6. CASE WaitNothing(w) \/ WaitExit(w)
    BY <2>6 DEF WaitNothing, WaitExit, Awaits, Answers
  <2>7. CASE DropCall(w)
    BY <2>7 DEF DropCall
  <2>8. CASE DropHandle(w)
    BY <2>8 DEF DropHandle
  <2> QED
    BY <1>4, <2>1, <2>2, <2>3, <2>4, <2>5, <2>6, <2>7, <2>8 DEF Request
<1> QED
  BY <1>1, <1>2, <1>3, <1>4 DEF Step

(* A step keeps the invariant of the worker it is about ... *)
LEMMA StepSupervised ==
  ASSUME TypeOK, NEW w \in Workers, Supervised(w), Step(w)
  PROVE  Supervised(w)'
<1> USE DEF TypeOK, os, own, Tell, Wait, Supervised, FreshHasNothing, OperationsWait,
            WaitsKnow, Alive, Idle
<1>1. CASE Exit(w) \/ Die(w)
  BY <1>1 DEF Exit, Die
<1>2. CASE ExpireReady(w)
  BY <1>2 DEF ExpireReady, Terminate, CanBecome
<1>3. CASE Proceed(w)
  <2>1. CASE Wake(w) \/ ProbeNotYet(w) \/ ProbeReady(w) \/ ProbeFails(w)
    BY <2>1 DEF Wake, ProbeNotYet, ProbeReady, ProbeFails, LookAlive, Conclude, Become,
                CanBecome
  <2>2. CASE Kill(w) \/ RefuseKill(w) \/ KillTooLate(w)
    BY <2>2 DEF Kill, RefuseKill, KillTooLate, KillAccepted, KillRefused
  <2>3. CASE Reap(w) \/ EndAnyway(w) \/ GiveUp(w)
    BY <2>3 DEF Reap, EndAnyway, GiveUp
  <2>4. CASE ExpireAsked(w)
    BY <2>4 DEF ExpireAsked, Terminate
  <2>5. CASE ShutdownEnds(w) \/ ReadyEnds(w)
    BY <2>5 DEF ShutdownEnds, ReadyEnds, Become, CanBecome
  <2>6. CASE SeeExit(w) \/ MissExit(w)
    BY <2>6 DEF SeeExit, MissExit
  <2>7. CASE PartRequested(w) \/ PartUnexpected(w)
    BY <2>7 DEF PartRequested, PartUnexpected, Become, CanBecome
  <2> QED
    BY <1>3, <2>1, <2>2, <2>3, <2>4, <2>5, <2>6, <2>7 DEF Proceed
<1>4. CASE Request(w)
  <2>1. CASE (\E p \in {"ShutdownLine", "Terminate"} : Spawn(w, p)) \/ SpawnUncontrolled(w)
    BY <2>1 DEF Spawn, SpawnUncontrolled
  <2>2. CASE WaitReady(w)
    BY <2>2 DEF WaitReady, LookAlive, Conclude, Become, CanBecome
  <2>3. CASE ShutdownByKill(w) \/ ShutdownNothing(w) \/ ShutdownByAsking(w)
    BY <2>3 DEF ShutdownByKill, ShutdownNothing, ShutdownByAsking, ShuttingDown, Terminate
  <2>4. CASE WaitNothing(w) \/ WaitExit(w) \/ DropCall(w) \/ DropHandle(w)
    BY <2>4 DEF WaitNothing, WaitExit, DropCall, DropHandle, KillAccepted, KillRefused, Awaits
  <2> QED
    BY <1>4, <2>1, <2>2, <2>3, <2>4 DEF Request
<1> QED
  BY <1>1, <1>2, <1>3, <1>4 DEF Step

(* ... and does not touch the others. *)
LEMMA StepTouchesOne ==
  ASSUME TypeOK, NEW w \in Workers, Step(w), NEW v \in Workers, v # w
  PROVE  /\ process'[v] = process[v] /\ defied'[v] = defied[v] /\ held'[v] = held[v]
         /\ state'[v] = state[v] /\ child'[v] = child[v] /\ doing'[v] = doing[v]
         /\ at'[v] = at[v] /\ refused'[v] = refused[v] /\ told'[v] = told[v]
<1> USE DEF TypeOK, os, own, Tell, Wait, KillAccepted, KillRefused, Terminate
<1>1. CASE Exit(w) \/ Die(w) \/ ExpireReady(w)
  BY <1>1 DEF Exit, Die, ExpireReady
<1>2. CASE Proceed(w)
  <2>1. CASE Wake(w) \/ ProbeNotYet(w) \/ ProbeReady(w) \/ ProbeFails(w)
    BY <2>1 DEF Wake, ProbeNotYet, ProbeReady, ProbeFails, LookAlive, Conclude
  <2>2. CASE \/ Kill(w) \/ RefuseKill(w) \/ KillTooLate(w) \/ Reap(w) \/ EndAnyway(w)
             \/ GiveUp(w) \/ ExpireAsked(w) \/ ShutdownEnds(w) \/ ReadyEnds(w)
             \/ SeeExit(w) \/ MissExit(w) \/ PartRequested(w) \/ PartUnexpected(w)
    BY <2>2 DEF Kill, RefuseKill, KillTooLate, Reap, EndAnyway, GiveUp, ExpireAsked,
                ShutdownEnds, ReadyEnds, SeeExit, MissExit, PartRequested, PartUnexpected
  <2> QED
    BY <1>2, <2>1, <2>2 DEF Proceed
<1>3. CASE Request(w)
  BY <1>3 DEF Request, Spawn, SpawnUncontrolled, WaitReady, LookAlive, Conclude,
              ShutdownByKill, ShutdownNothing, ShutdownByAsking, WaitNothing, WaitExit,
              DropCall, DropHandle
<1> QED
  BY <1>1, <1>2, <1>3 DEF Step

LEMMA OthersSupervised ==
  ASSUME TypeOK, NEW w \in Workers, Step(w), NEW v \in Workers, v # w, Supervised(v)
  PROVE  Supervised(v)'
  BY StepTouchesOne DEF Supervised, FreshHasNothing, OperationsWait, WaitsKnow, Alive

(* Whatever its process does and whoever drops what, a worker is           *)
(* supervised: the inductive invariant of ProcessWorker.                   *)
THEOREM SupervisionInvariant == Spec => []SupervisionInv
<1>1. Init => SupervisionInv
  BY InvIsPointwise
  DEF Init, TypeOK, States, Answers, Supervised, FreshHasNothing, OperationsWait, WaitsKnow,
      Alive
<1>2. SupervisionInv /\ [Next]_vars => SupervisionInv'
  <2> SUFFICES ASSUME SupervisionInv, [Next]_vars
               PROVE  TypeOK' /\ \A v \in Workers : Supervised(v)'
    BY InvIsPointwise, SupervisionInv' <=> TypeOK' /\ \A w \in Workers : Supervised(w)'
    DEF SupervisionInv, StoppedIsGone, KeptForAnotherAttempt, NoSilentOrphan, Supervised
  <2>1. TypeOK /\ \A v \in Workers : Supervised(v)
    BY InvIsPointwise
  <2>2. CASE UNCHANGED vars
    BY <2>1, <2>2
    DEF vars, TypeOK, Supervised, FreshHasNothing, OperationsWait, WaitsKnow, Alive
  <2>3. ASSUME NEW w \in Workers, Step(w)
        PROVE  TypeOK' /\ \A v \in Workers : Supervised(v)'
    BY <2>1, <2>3, StepType, StepSupervised, OthersSupervised
  <2> QED
    BY <2>2, <2>3 DEF Next, Step
<1> QED
  BY <1>1, <1>2, PTL DEF Spec

(* A worker that is said to have stopped has: for shutdown, wait and       *)
(* wait_ready_with, for both stop protocols.                               *)
THEOREM StoppedIsAlwaysGone == Spec => []StoppedIsGone
<1>1. SupervisionInv => StoppedIsGone
  BY DEF SupervisionInv
<1> QED
  BY <1>1, SupervisionInvariant, PTL

(* A process that lives can always be tried again: terminate keeps the     *)
(* child it could not kill.                                                *)
THEOREM LivingAlwaysKept == Spec => []KeptForAnotherAttempt
<1>1. SupervisionInv => KeptForAnotherAttempt
  BY DEF SupervisionInv
<1> QED
  BY <1>1, SupervisionInvariant, PTL

(* Only a process that the system refuses to kill outlives its handle.     *)
THEOREM OnlyTheDefiantOutlive == Spec => []NoSilentOrphan
<1>1. SupervisionInv => NoSilentOrphan
  BY DEF SupervisionInv
<1> QED
  BY <1>1, SupervisionInvariant, PTL

(* terminate reports a refusal only of a process that lives.               *)
THEOREM RefusalsAreReal == Spec => OnlyTheLivingRefuse
<1>1. ASSUME SupervisionInv, [Next]_vars, NEW v \in Workers,
             at[v] # "flushing", at'[v] = "flushing", refused'[v]
      PROVE  process[v] # "gone"
  <2>1. TypeOK /\ \A w \in Workers : WaitsKnow(w)
    BY <1>1 DEF SupervisionInv
  <2> USE DEF TypeOK, Tell, Wait, Terminate
  <2>2. CASE UNCHANGED vars
    BY <1>1, <2>2 DEF vars
  <2>3. ASSUME NEW w \in Workers, Exit(w) \/ Die(w) \/ ExpireReady(w)
        PROVE  process[v] # "gone"
    BY <1>1, <2>1, <2>3 DEF Exit, Die, ExpireReady
  <2>4. ASSUME NEW w \in Workers, Proceed(w)
        PROVE  process[v] # "gone"
    BY <1>1, <2>1, <2>4
    DEF Proceed, WaitsKnow, Wake, ProbeNotYet, ProbeReady, ProbeFails, LookAlive, Conclude,
        Kill, RefuseKill, KillTooLate, Reap, EndAnyway, GiveUp, ExpireAsked, ShutdownEnds,
        ReadyEnds, SeeExit, MissExit, PartRequested, PartUnexpected
  <2>5. ASSUME NEW w \in Workers, Request(w)
        PROVE  process[v] # "gone"
    BY <1>1, <2>1, <2>5
    DEF Request, Spawn, SpawnUncontrolled, WaitReady, LookAlive, Conclude, ShutdownByKill,
        ShutdownNothing, ShutdownByAsking, WaitNothing, WaitExit, DropCall, DropHandle
  <2> QED
    BY <1>1, <2>2, <2>3, <2>4, <2>5 DEF Next
<1>2. SupervisionInv /\ [Next]_vars
      => [\A w \in Workers :
            at[w] # "flushing" /\ at'[w] = "flushing" /\ refused'[w] => process[w] # "gone"]_vars
  BY <1>1
<1> QED
  BY <1>2, SupervisionInvariant, PTL DEF Spec, OnlyTheLivingRefuse

-----------------------------------------------------------------------------
BackendStep(w) ==
  \/ Listen(w) \/ End(w) \/ BannerEnds(w)
  \/ Identify(w) \/ Proceeds(w) \/ Supervise(w) \/ DropStart(w)
  \/ Stop(w) \/ StopStep(w) \/ DropBackend(w)

(* A step of another program. *)
OtherStep(p) == OtherListens(p) \/ OtherLeaves(p)

LEMMA OthersChangeOther ==
  ASSUME NEW p \in Ports, OtherStep(p)
  PROVE  UNCHANGED <<vars, start, banner, port, secret, listening, file>>
  BY DEF OtherStep, OtherListens, OtherLeaves, channel

(* What a step of ProcessWorker does to the process and the handle it is   *)
(* about: only a spawn makes a process or a handle.                        *)
LEMMA StepMakesNothing ==
  ASSUME TypeOK, NEW w \in Workers, Step(w), process[w] # "none"
  PROVE  /\ process'[w] # "none"
         /\ process'[w] = "running" => process[w] = "running"
         /\ held'[w] => held[w]
<1> USE DEF TypeOK, os, own, Tell, Wait, KillAccepted, KillRefused, Terminate
<1>1. CASE Exit(w) \/ Die(w) \/ ExpireReady(w)
  BY <1>1 DEF Exit, Die, ExpireReady
<1>2. CASE Proceed(w)
  <2>1. CASE Wake(w) \/ ProbeNotYet(w) \/ ProbeReady(w) \/ ProbeFails(w)
    BY <2>1 DEF Wake, ProbeNotYet, ProbeReady, ProbeFails, LookAlive, Conclude
  <2>2. CASE \/ Kill(w) \/ RefuseKill(w) \/ KillTooLate(w) \/ Reap(w) \/ EndAnyway(w)
             \/ GiveUp(w) \/ ExpireAsked(w) \/ ShutdownEnds(w) \/ ReadyEnds(w)
             \/ SeeExit(w) \/ MissExit(w) \/ PartRequested(w) \/ PartUnexpected(w)
    BY <2>2 DEF Kill, RefuseKill, KillTooLate, Reap, EndAnyway, GiveUp, ExpireAsked,
                ShutdownEnds, ReadyEnds, SeeExit, MissExit, PartRequested, PartUnexpected
  <2> QED
    BY <1>2, <2>1, <2>2 DEF Proceed
<1>3. CASE Request(w)
  BY <1>3 DEF Request, Spawn, SpawnUncontrolled, WaitReady, LookAlive, Conclude,
              ShutdownByKill, ShutdownNothing, ShutdownByAsking, WaitNothing, WaitExit,
              DropCall, DropHandle
<1> QED
  BY <1>1, <1>2, <1>3 DEF Step

LEMMA BackendStepIsStep ==
  ASSUME NEW w \in Workers, BackendStep(w)
  PROVE  Step(w) \/ UNCHANGED vars
<1>1. CASE Listen(w) \/ End(w) \/ BannerEnds(w) \/ Identify(w)
  BY <1>1 DEF Listen, End, BannerEnds, Identify, Step
<1>2. CASE Proceeds(w)
  BY <1>2 DEF Proceeds, Identified, PrepareFails, WriteFails, LaunchUncontrolled, Launch, Watch,
              CredentialAccepted, CredentialNotAccepted, Withdraw, ShuttingDownStep, ReturnError, DropStarted,
              Step, Proceed, Request
<1>3. CASE Supervise(w)
  BY <1>3 DEF Supervise, ProbeHealth, Step, Proceed
<1>4. CASE DropStart(w) \/ Stop(w) \/ StopStep(w) \/ DropBackend(w)
  BY <1>4 DEF DropStart, Stop, StopStep, ShuttingDownStep, DropBackend, Step, Proceed, Request
<1> QED
  BY <1>1, <1>2, <1>3, <1>4 DEF BackendStep

(* Backends are supervised as ProcessWorker says: start and stop use its   *)
(* operations, and change nothing that is its own.                         *)
THEOREM BackendsAreSupervised == BackendsSpec => Spec
<1>1. BackendsInit => Init
  BY DEF BackendsInit
<1>2. [BackendsNext]_allVars => [Next]_vars
  BY BackendStepIsStep, OthersChangeOther
  DEF BackendsNext, BackendStep, OtherStep, Next, Step, allVars
<1> QED
  BY <1>1, <1>2, PTL DEF BackendsSpec, Spec

LEMMA BackendsType ==
  ASSUME BackendsTypeOK, NEW w \in Workers, BackendStep(w)
  PROVE  BackendsTypeOK'
<1>1. TypeOK'
  BY BackendStepIsStep, StepType DEF BackendsTypeOK, TypeOK, vars
<1>2. /\ start' \in [Workers -> Stages]
      /\ banner' \in [Workers -> {"none", "running", "gone"}]
      /\ port' \in [Workers -> Ports \cup {NoPort}]
      /\ secret' \in [Workers -> Secrets \cup {NoSecret}]
      /\ listening' \in SUBSET Workers
      /\ other' \in [Ports -> Foreign \cup {"nobody"}]
      /\ file' \in [Workers -> BOOLEAN]
  <2> USE DEF BackendsTypeOK, Reach, Stages, Starting, Early, channel, others, channels
  <2>1. CASE Listen(w) \/ End(w) \/ BannerEnds(w) \/ Identify(w)
    BY <2>1 DEF Listen, End, BannerEnds, Identify
  <2>2. CASE Proceeds(w)
    <3>1. CASE Identified(w) \/ PrepareFails(w) \/ WriteFails(w)
      BY <3>1 DEF Identified, PrepareFails, WriteFails
    <3>2. CASE Watch(w)
      BY <3>2 DEF Watch
    <3>5. ASSUME NEW p \in Ports, NEW s \in Secrets, Launch(w, p, s) \/ LaunchUncontrolled(w, p, s)
          PROVE  /\ start' \in [Workers -> Stages]
                 /\ port' \in [Workers -> Ports \cup {NoPort}]
                 /\ secret' \in [Workers -> Secrets \cup {NoSecret}]
                 /\ file' \in [Workers -> BOOLEAN]
                 /\ UNCHANGED <<banner, listening, other>>
      <4>1. /\ port' = [port EXCEPT ![w] = p] /\ secret' = [secret EXCEPT ![w] = s]
            /\ UNCHANGED <<banner, listening, other>>
        BY <3>5 DEF Launch, LaunchUncontrolled, Channel
      <4>2. /\ \/ start' = [start EXCEPT ![w] = "launched"]
               \/ start' = [start EXCEPT ![w] = "failed"]
            /\ file' = file \/ file' = [file EXCEPT ![w] = TRUE]
        BY <3>5 DEF Launch, LaunchUncontrolled
      <4> QED
        BY <4>1, <4>2
    <3>3. CASE CredentialAccepted(w) \/ CredentialNotAccepted(w)
      BY <3>3 DEF CredentialAccepted, CredentialNotAccepted
    <3>4. CASE Withdraw(w) \/ ReturnError(w) \/ DropStarted(w)
      BY <3>4 DEF Withdraw, ReturnError, DropStarted
    <3> QED
      BY <2>2, <3>1, <3>2, <3>3, <3>4, <3>5 DEF Proceeds
  <2>3. CASE Supervise(w)
    BY <2>3 DEF Supervise
  <2>4. CASE DropStart(w) \/ Stop(w) \/ StopStep(w) \/ DropBackend(w)
    BY <2>4 DEF DropStart, Stop, StopStep, DropBackend
  <2> QED
    BY <2>1, <2>2, <2>3, <2>4 DEF BackendStep
<1> QED
  BY <1>1, <1>2 DEF BackendsTypeOK

LEMMA OthersType ==
  ASSUME BackendsTypeOK, NEW p \in Ports, OtherStep(p)
  PROVE  BackendsTypeOK'
<1>1. other' \in [Ports -> Foreign \cup {"nobody"}]
  BY DEF OtherStep, OtherListens, OtherLeaves, BackendsTypeOK
<1> QED
  BY <1>1, OthersChangeOther DEF BackendsTypeOK, TypeOK, vars

(* The invariant for one backend. *)
Backed(w) ==
  /\ start[w] \in Early => process[w] = "none" /\ ~file[w]
  /\ process[w] = "none" => start[w] \in Early \cup {"failed", "dropped"}
  /\ start[w] \in {"failed", "dropped"} => ~held[w]
  /\ process[w] # "none" => port[w] \in Ports /\ secret[w] \in Secrets
  /\ banner[w] = "running" =>
       start[w] \in {"identifying", "dropped"} /\ process[w] = "none" /\ ~file[w]
  /\ "accepts" \notin Foreign => ReachesItsOwn(w)
  /\ held[w] /\ process[w] = "running" /\ w \notin listening /\ start[w] \in Starting
     => file[w]
  /\ file[w] => start[w] \in Starting \/ process[w] = "none"

LEMMA BackendsInvIsPointwise ==
  BackendsInv <=> BackendsTypeOK /\ SecretsDiffer /\ \A w \in Workers : Backed(w)
  BY DEF BackendsInv, UnstartedHasNothing, EndedHoldsNothing, LaunchedHasChannel,
         BannerIsAwaited, ChannelIsOwn, FileServesTheStart, Backed

(* Where no other program takes secrets, only the backend itself does.     *)
LEMMA OnlyItsOwnTakes ==
  ASSUME BackendsTypeOK, SecretsDiffer, NEW w \in Workers, Backed(w),
         start[w] = "checking", TakesSecret(w), "accepts" \notin Foreign
  PROVE  w \in listening
<1>1. port[w] \in Ports /\ secret[w] \in Secrets
  BY DEF Backed, Early
<1>2. other[port[w]] # "accepts"
  BY <1>1 DEF BackendsTypeOK
<1>3. PICK v \in listening : secret[v] = secret[w]
  BY <1>2 DEF TakesSecret
<1> QED
  BY <1>1, <1>3, SecretsAssumption DEF SecretsDiffer, BackendsTypeOK

(* A channel is given a secret that no other has. *)
LEMMA SecretsStayApart ==
  ASSUME BackendsTypeOK, SecretsDiffer, NEW w \in Workers, BackendStep(w)
  PROVE  SecretsDiffer'
<1>1. CASE UNCHANGED secret
  BY <1>1 DEF SecretsDiffer
<1>2. ASSUME NEW s \in Secrets, secret' = [secret EXCEPT ![w] = s],
             \A v \in Workers : secret[v] # s
      PROVE  SecretsDiffer'
  BY <1>2 DEF SecretsDiffer, BackendsTypeOK
<1>3. CASE Proceeds(w)
  <2>1. CASE \E p \in Ports, s \in Secrets : Launch(w, p, s) \/ LaunchUncontrolled(w, p, s)
    BY <1>2, <2>1 DEF Launch, LaunchUncontrolled, Channel
  <2>2. CASE \/ Identified(w) \/ PrepareFails(w) \/ WriteFails(w) \/ Watch(w)
             \/ CredentialAccepted(w) \/ CredentialNotAccepted(w) \/ Withdraw(w)
             \/ ReturnError(w) \/ DropStarted(w)
    BY <1>1, <2>2 DEF Identified, PrepareFails, WriteFails, Watch, CredentialAccepted,
       CredentialNotAccepted, Withdraw, ReturnError, DropStarted, channel, channels
  <2> QED
    BY <1>3, <2>1, <2>2 DEF Proceeds
<1>4. CASE ~Proceeds(w)
  BY <1>1, <1>4 DEF BackendStep, Listen, End, BannerEnds, Identify, Supervise, DropStart, Stop,
     StopStep, DropBackend, channel, channels
<1> QED
  BY <1>3, <1>4

(* A step keeps the invariant of the backend it is about ... *)
LEMMA StepBacked ==
  ASSUME BackendsTypeOK, SecretsDiffer, NEW w \in Workers, FreshHasNothing(w), Backed(w),
         BackendStep(w)
  PROVE  Backed(w)'
<1> USE DEF BackendsTypeOK, Backed, ReachesItsOwn, Reach, Starting, Early, channel, others,
            channels
<1>1. TypeOK
  OBVIOUS
<1>2. \/ UNCHANGED vars
      \/ process[w] = "none"
      \/ /\ process'[w] # "none"
         /\ process'[w] = "running" => process[w] = "running"
         /\ held'[w] => held[w]
  BY <1>1, BackendStepIsStep, StepMakesNothing
<1>3. CASE Listen(w)
  BY <1>3 DEF Listen, vars
<1>4. CASE End(w)
  BY <1>4 DEF End, Exit, Die, own, TypeOK
<1>5. CASE Identify(w) \/ BannerEnds(w)
  BY <1>5 DEF Identify, BannerEnds, vars
<1>6. CASE Proceeds(w)
  <2>1. CASE Identified(w) \/ PrepareFails(w) \/ WriteFails(w)
    BY <2>1 DEF Identified, PrepareFails, WriteFails, vars, FreshHasNothing
  <2>2. ASSUME NEW p \in Ports, NEW s \in Secrets, LaunchUncontrolled(w, p, s)
        PROVE  Backed(w)'
    BY <2>2 DEF LaunchUncontrolled, Channel, SpawnUncontrolled, own, FreshHasNothing, TypeOK
  <2>3. ASSUME NEW p \in Ports, NEW s \in Secrets, Launch(w, p, s)
        PROVE  Backed(w)'
    BY <2>3 DEF Launch, Channel, Spawn, TypeOK
  <2>4. CASE Watch(w)
    BY <1>2, <2>4 DEF Watch, WaitReady, Idle, FreshHasNothing, vars
  <2>5. CASE CredentialAccepted(w)
    BY <2>5, OnlyItsOwnTakes DEF CredentialAccepted, vars
  <2>6. CASE CredentialNotAccepted(w)
    BY <1>2, <2>6 DEF CredentialNotAccepted, ShutdownByKill, Idle, FreshHasNothing, vars
  <2>7. CASE Withdraw(w)
    BY <1>2, <2>7 DEF Withdraw, vars
  <2>8. CASE ReturnError(w) \/ DropStarted(w)
    BY <2>8 DEF ReturnError, DropStarted, DropHandle, TypeOK
  <2> QED
    BY <1>6, <2>1, <2>2, <2>3, <2>4, <2>5, <2>6, <2>7, <2>8 DEF Proceeds
<1>7. CASE Supervise(w)
  BY <1>2, <1>7 DEF Supervise, vars
<1>8. CASE DropStart(w)
  BY <1>2, <1>8 DEF DropStart, DropCall, os, own, vars, FreshHasNothing
<1>9. CASE Stop(w)
  BY <1>2, <1>9 DEF Stop, vars
<1>10. CASE StopStep(w)
  BY <1>2, <1>10 DEF StopStep, vars
<1>11. CASE DropBackend(w)
  BY <1>11 DEF DropBackend, DropHandle, TypeOK
<1> QED
  BY <1>3, <1>4, <1>5, <1>6, <1>7, <1>8, <1>9, <1>10, <1>11 DEF BackendStep

(* ... and does not touch the others. *)
LEMMA OthersStand ==
  ASSUME BackendsTypeOK, NEW w \in Workers, BackendStep(w), NEW v \in Workers, v # w
  PROVE  /\ process'[v] = process[v] /\ held'[v] = held[v]
         /\ start'[v] = start[v] /\ banner'[v] = banner[v]
         /\ port'[v] = port[v] /\ secret'[v] = secret[v] /\ file'[v] = file[v]
         /\ v \in listening' <=> v \in listening
<1>1. process'[v] = process[v] /\ held'[v] = held[v]
  BY BackendStepIsStep, StepTouchesOne DEF BackendsTypeOK, vars
<1>2. /\ start'[v] = start[v] /\ banner'[v] = banner[v]
      /\ port'[v] = port[v] /\ secret'[v] = secret[v] /\ file'[v] = file[v]
      /\ (v \in listening' <=> v \in listening)
  <2> USE DEF BackendsTypeOK, Reach, channel, others, channels
  <2>1. CASE Listen(w) \/ End(w) \/ BannerEnds(w) \/ Identify(w)
    BY <2>1 DEF Listen, End, BannerEnds, Identify
  <2>2. CASE Proceeds(w)
    <3>1. CASE Identified(w) \/ PrepareFails(w) \/ WriteFails(w)
      BY <3>1 DEF Identified, PrepareFails, WriteFails
    <3>2. CASE Watch(w)
      BY <3>2 DEF Watch
    <3>5. CASE \E p \in Ports, s \in Secrets : Launch(w, p, s) \/ LaunchUncontrolled(w, p, s)
      BY <3>5 DEF Launch, LaunchUncontrolled, Channel
    <3>3. CASE CredentialAccepted(w) \/ CredentialNotAccepted(w)
      BY <3>3 DEF CredentialAccepted, CredentialNotAccepted
    <3>4. CASE Withdraw(w) \/ ReturnError(w) \/ DropStarted(w)
      BY <3>4 DEF Withdraw, ReturnError, DropStarted
    <3> QED
      BY <2>2, <3>1, <3>2, <3>3, <3>4, <3>5 DEF Proceeds
  <2>3. CASE Supervise(w)
    BY <2>3 DEF Supervise
  <2>4. CASE DropStart(w) \/ Stop(w) \/ StopStep(w) \/ DropBackend(w)
    BY <2>4 DEF DropStart, Stop, StopStep, DropBackend
  <2> QED
    BY <2>1, <2>2, <2>3, <2>4 DEF BackendStep
<1> QED
  BY <1>1, <1>2

LEMMA OthersBacked ==
  ASSUME BackendsTypeOK, NEW w \in Workers, BackendStep(w), NEW v \in Workers, v # w, Backed(v)
  PROVE  Backed(v)'
  BY OthersStand DEF Backed, ReachesItsOwn

(* The inductive invariant of Backends, on top of SupervisionInv. *)
THEOREM BackendsInvariant == BackendsSpec => []BackendsInv
<1>1. BackendsInit => BackendsInv
  BY SecretsAssumption
  DEF BackendsInit, BackendsInv, BackendsTypeOK, Init, TypeOK, States, Answers, Stages, Early,
      Starting, UnstartedHasNothing, EndedHoldsNothing, SecretsDiffer, LaunchedHasChannel,
      BannerIsAwaited, ChannelIsOwn, ReachesItsOwn, FileServesTheStart
<1>2. BackendsInv /\ SupervisionInv /\ [BackendsNext]_allVars => BackendsInv'
  <2> SUFFICES ASSUME BackendsInv, SupervisionInv, [BackendsNext]_allVars
               PROVE  BackendsTypeOK' /\ SecretsDiffer' /\ \A v \in Workers : Backed(v)'
    BY DEF BackendsInv, UnstartedHasNothing, EndedHoldsNothing, LaunchedHasChannel,
           BannerIsAwaited, ChannelIsOwn, FileServesTheStart, Backed
  <2>1. BackendsTypeOK /\ SecretsDiffer /\ \A v \in Workers : Backed(v) /\ FreshHasNothing(v)
    BY BackendsInvIsPointwise DEF SupervisionInv
  <2>2. CASE UNCHANGED <<vars, start, banner, port, secret, listening, file>>
    <3>1. SecretsDiffer' /\ \A v \in Workers : Backed(v)'
      BY <2>1, <2>2 DEF vars, Backed, ReachesItsOwn, SecretsDiffer
    <3>2. BackendsTypeOK' \/ other' # other
      BY <2>1, <2>2 DEF vars, BackendsTypeOK, TypeOK
    <3>3. CASE \E p \in Ports : OtherStep(p)
      BY <2>1, <3>1, <3>3, OthersType
    <3> QED
      BY <2>1, <3>1, <3>2, <3>3, BackendsType DEF BackendsNext, BackendStep, OtherStep, allVars
  <2>3. ASSUME NEW w \in Workers, BackendStep(w)
        PROVE  BackendsTypeOK' /\ SecretsDiffer' /\ \A v \in Workers : Backed(v)'
    BY <2>1, <2>3, BackendsType, SecretsStayApart, StepBacked, OthersBacked
  <2>4. CASE \E p \in Ports : OtherStep(p)
    BY <2>2, <2>4, OthersChangeOther
  <2> QED
    BY <2>2, <2>3, <2>4 DEF BackendsNext, BackendStep, OtherStep, allVars
<1> QED
  BY <1>1, <1>2, BackendsAreSupervised, SupervisionInvariant, PTL DEF BackendsSpec

(* A backend that was handed out is reached through its own channel, for   *)
(* any number of starts over any set of ports, whoever else comes and goes *)
(* there, as long as nobody takes a secret that it was not given           *)
(* (health::probe_credential, ChannelSecret::generate).                    *)
THEOREM ChannelIsAlwaysOwn == BackendsSpec => []ChannelIsOwn
<1>1. BackendsInv => ChannelIsOwn
  BY DEF BackendsInv
<1> QED
  BY <1>1, BackendsInvariant, PTL

(* The secret file is there while it may have to be read, and no longer    *)
(* than start, unless nothing was started because it could not be written. *)
THEOREM FileAlwaysServes == BackendsSpec => []FileServesTheStart
<1>1. BackendsInv => FileServesTheStart
  BY DEF BackendsInv
<1> QED
  BY <1>1, BackendsInvariant, PTL

(* A start that failed leaves behind at most a worker that the system      *)
(* refused to kill, and one that was dropped either that or the run that   *)
(* was to tell the build (LlamaCppBackend::start, identify).               *)
THEOREM FailuresLeaveNothing == BackendsSpec => []FailedStartLeavesNothing
<1>1. BackendsInv /\ SupervisionInv => FailedStartLeavesNothing
  BY DEF BackendsInv, EndedHoldsNothing, BannerIsAwaited, Early, SupervisionInv,
         NoSilentOrphan, FailedStartLeavesNothing
<1> QED
  BY <1>1, BackendsInvariant, BackendsAreSupervised, SupervisionInvariant, PTL

-----------------------------------------------------------------------------
(* Only an end of the process, and a spawn, are seen by who takes a backend *)
(* for BackendProcess: a process that was killed is there until it ends.   *)
LEMMA ProcessStands ==
  ASSUME TypeOK, NEW w \in Workers,
         ExpireReady(w) \/ Proceed(w) \/ WaitReady(w) \/ ShutdownByKill(w) \/ DropCall(w)
           \/ DropHandle(w)
  PROVE  ProcessOf(w)' = ProcessOf(w)
<1> USE DEF TypeOK, os, own, KillAccepted, KillRefused, Alive, ProcessOf
<1>1. CASE ExpireReady(w) \/ WaitReady(w) \/ ShutdownByKill(w) \/ DropCall(w)
  BY <1>1 DEF ExpireReady, WaitReady, ShutdownByKill, DropCall
<1>2. CASE DropHandle(w)
  BY <1>2 DEF DropHandle
<1>3. CASE Proceed(w)
  <2>1. CASE Kill(w) \/ RefuseKill(w)
    BY <2>1 DEF Kill, RefuseKill
  <2>2. CASE ~(Kill(w) \/ RefuseKill(w))
    BY <1>3, <2>2 DEF Proceed, Wake, ProbeNotYet, ProbeReady, ProbeFails, KillTooLate, Reap,
       EndAnyway, GiveUp, ExpireAsked, ShutdownEnds, ReadyEnds, SeeExit, MissExit,
       PartRequested, PartUnexpected
  <2> QED
    BY <2>1, <2>2
<1> QED
  BY <1>1, <1>2, <1>3

(* What start and stop do with a process that there is. *)
LEMMA BackendStands ==
  ASSUME BackendsTypeOK, NEW w \in Workers,
         \/ Watch(w) \/ Supervise(w) \/ CredentialAccepted(w) \/ CredentialNotAccepted(w)
         \/ Withdraw(w) \/ ReturnError(w) \/ DropStart(w) \/ DropStarted(w)
         \/ Stop(w) \/ StopStep(w) \/ DropBackend(w)
  PROVE  ProcessOf(w)' = ProcessOf(w)
<1> USE DEF BackendsTypeOK
<1>1. \/ ExpireReady(w) \/ Proceed(w) \/ WaitReady(w) \/ ShutdownByKill(w) \/ DropCall(w)
      \/ DropHandle(w) \/ UNCHANGED vars
  <2>1. CASE Supervise(w)
    BY <2>1 DEF Supervise, ProbeHealth, Proceed
  <2>2. CASE Withdraw(w) \/ StopStep(w)
    BY <2>2 DEF Withdraw, StopStep, ShuttingDownStep, Proceed
  <2> QED
    BY <2>1, <2>2 DEF Watch, CredentialAccepted, CredentialNotAccepted, ReturnError, DropStart,
       DropStarted, Stop, DropBackend
<1>2. CASE UNCHANGED vars
  BY <1>2 DEF vars, ProcessOf, Alive
<1> QED
  BY <1>1, <1>2, ProcessStands

(* A step about a backend is one of BackendProcess ... *)
OwnStep(w) == [Backend(w)!Next]_(Backend(w)!vars)

LEMMA OwnBackend ==
  ASSUME BackendsInv, SupervisionInv, SupervisionInv', NEW w \in Workers, BackendStep(w)
  PROVE  OwnStep(w)
<1> USE DEF BackendsInv, BackendsTypeOK, Reach
<1>1. CASE Listen(w) \/ BannerEnds(w) \/ Identify(w) \/ Identified(w)
  <2>1. ProcessOf(w)' = ProcessOf(w)
    BY <1>1 DEF Listen, BannerEnds, Identify, Identified, vars, ProcessOf, Alive
  <2>2. StageOf(w)' = StageOf(w)
    <3>1. CASE start' = start
      BY <3>1 DEF StageOf
    <3>2. CASE start[w] \in Early /\ start'[w] \in Early
      BY <3>2 DEF StageOf, Starting, Early
    <3> QED
      BY <1>1, <3>1, <3>2 DEF Listen, BannerEnds, Identify, Identified, Early
  <2> QED
    BY <2>1, <2>2 DEF OwnStep, Backend!vars
<1>2. CASE End(w)
  <2>1. ProcessOf(w) = "up" /\ ProcessOf(w)' = "gone"
    BY <1>2 DEF End, Exit, Die, TypeOK, ProcessOf, Alive
  <2>2. StageOf(w)' = StageOf(w)
    BY <1>2 DEF End, StageOf
  <2> QED
    BY <2>1, <2>2 DEF OwnStep, Backend!Next, Backend!Exit
<1>3. ASSUME \/ PrepareFails(w) \/ WriteFails(w)
             \/ \E p \in Ports, s \in Secrets : LaunchUncontrolled(w, p, s)
             \/ DropStart(w) /\ start[w] = "identifying"
      PROVE  OwnStep(w)
  <2>1. start[w] \in Early /\ start'[w] \in {"failed", "dropped"}
    BY <1>3 DEF PrepareFails, WriteFails, LaunchUncontrolled, DropStart, Early
  <2>2. StageOf(w) = "unstarted" /\ StageOf(w)' = "over"
    BY <2>1 DEF StageOf, Starting, Early
  <2>3. ProcessOf(w) = "none" /\ ProcessOf(w)' \in {"none", "up"}
    <3>1. process[w] = "none"
      BY <2>1 DEF UnstartedHasNothing
    <3>2. process'[w] \in {"none", "running", "dying"}
      BY <1>3, <3>1
      DEF TypeOK, PrepareFails, WriteFails, LaunchUncontrolled, SpawnUncontrolled, DropStart,
          DropCall, os, vars
    <3> QED
      BY <3>1, <3>2 DEF ProcessOf, Alive
  <2> QED
    BY <2>2, <2>3 DEF OwnStep, Backend!Next, Backend!FailToLaunch
<1>4. ASSUME NEW p \in Ports, NEW s \in Secrets, Launch(w, p, s)
      PROVE  OwnStep(w)
  <2>1. StageOf(w) = "unstarted" /\ StageOf(w)' = "starting"
    BY <1>4 DEF Launch, StageOf, Starting, Early
  <2>2. ProcessOf(w) = "none" /\ ProcessOf(w)' = "up"
    BY <1>4 DEF Launch, Spawn, TypeOK, ProcessOf, Alive
  <2> QED
    BY <2>1, <2>2 DEF OwnStep, Backend!Next, Backend!Launch
<1>5. CASE Watch(w) \/ Supervise(w) \/ CredentialNotAccepted(w) \/ Withdraw(w)
  <2>1. StageOf(w)' = StageOf(w)
    BY <1>5 DEF Watch, Supervise, CredentialNotAccepted, Withdraw, StageOf, Starting, Early
  <2> QED
    BY <1>5, <2>1, BackendStands DEF OwnStep, Backend!vars
<1>6. CASE CredentialAccepted(w)
  <2>1. StageOf(w) = "starting" /\ StageOf(w)' = "serving"
    BY <1>6 DEF CredentialAccepted, StageOf, Starting, Early
  <2> QED
    BY <1>6, <2>1, BackendStands DEF OwnStep, Backend!Next, Backend!HandOut
<1>7. CASE ReturnError(w) \/ DropStarted(w)
  <2>1. StageOf(w) = "starting" /\ StageOf(w)' = "over"
    BY <1>7 DEF ReturnError, DropStarted, StageOf, Starting, Early
  <2> QED
    BY <1>7, <2>1, BackendStands DEF OwnStep, Backend!Next, Backend!FailToStart, Backend!EndTried
<1>8. CASE DropStart(w) /\ start[w] # "identifying"
  <2>1. StageOf(w)' = StageOf(w)
    BY <1>8 DEF DropStart, StageOf, Starting, Early
  <2> QED
    BY <1>8, <2>1, BackendStands DEF OwnStep, Backend!vars
<1>9. CASE Stop(w)
  <2>1. StageOf(w)' = StageOf(w)
    BY <1>9 DEF Stop, StageOf, Starting, Early
  <2> QED
    BY <1>9, <2>1, BackendStands DEF OwnStep, Backend!vars
<1>10. CASE StopStep(w)
  <2>1. StageOf(w) = "serving"
    BY <1>10 DEF StopStep, StageOf, Starting, Early
  <2>2. CASE start'[w] = "stopped"
    <3>1. told'[w] = "Requested"
      BY <1>10, <2>2 DEF StopStep
    <3>2. process'[w] = "gone"
      BY <3>1 DEF SupervisionInv, StoppedIsGone
    <3>3. StageOf(w)' = "stopped" /\ ProcessOf(w)' = "gone"
      BY <2>2, <3>2 DEF StageOf, ProcessOf, Alive, Starting, Early
    <3> QED
      BY <2>1, <3>3 DEF OwnStep, Backend!Next, Backend!Stop
  <2>3. CASE start'[w] # "stopped"
    <3>1. start'[w] \in {"stopping", "unstopped"}
      BY <1>10, <2>3 DEF StopStep
    <3>2. StageOf(w)' = "serving"
      BY <3>1 DEF StageOf, Starting, Early
    <3> QED
      BY <1>10, <2>1, <3>2, BackendStands DEF OwnStep, Backend!vars
  <2> QED
    BY <2>2, <2>3
<1>11. CASE DropBackend(w)
  <2>1. StageOf(w) \in {"serving", "stopped"} /\ StageOf(w)' = "over"
    BY <1>11 DEF DropBackend, StageOf, Starting, Early
  <2> QED
    BY <1>11, <2>1, BackendStands DEF OwnStep, Backend!Next, Backend!Drop, Backend!EndTried
<1>12. CASE Proceeds(w)
  <2>1. CASE Watch(w) \/ CredentialNotAccepted(w) \/ Withdraw(w)
    BY <2>1, <1>5
  <2> QED
    BY <1>12, <2>1, <1>1, <1>3, <1>4, <1>6, <1>7 DEF Proceeds
<1>13. CASE DropStart(w)
  BY <1>13, <1>3, <1>8
<1> QED
  BY <1>1, <1>2, <1>5, <1>9, <1>10, <1>11, <1>12, <1>13 DEF BackendStep

(* ... and is not seen by the others. *)
LEMMA OtherBackends ==
  ASSUME BackendsTypeOK, NEW w \in Workers, BackendStep(w), NEW v \in Workers, v # w
  PROVE  UNCHANGED <<StageOf(v), ProcessOf(v)>>
<1>1. process'[v] = process[v] /\ start'[v] = start[v]
  BY OthersStand
<1> QED
  BY <1>1 DEF StageOf, ProcessOf, Alive

LEMMA OthersUnseen ==
  ASSUME NEW p \in Ports, OtherStep(p), NEW v \in Workers
  PROVE  UNCHANGED <<StageOf(v), ProcessOf(v)>>
<1>1. process' = process /\ start' = start
  BY OthersChangeOther DEF vars
<1> QED
  BY <1>1 DEF StageOf, ProcessOf, Alive

(* However many backends start and stop at once, each is what the ledger   *)
(* of the runtime takes it for (LlamaCppBackend::start,                    *)
(* RunningBackend::stop).                                                  *)
THEOREM BackendsImplementProcess == BackendsSpec => BackendsKept
<1>1. BackendsInit => \A w \in Workers : Backend(w)!Init
  <2> SUFFICES ASSUME BackendsInit, NEW w \in Workers
               PROVE  Backend(w)!Init
    OBVIOUS
  <2>1. StageOf(w) = "unstarted" /\ ProcessOf(w) = "none"
    BY DEF BackendsInit, Init, StageOf, ProcessOf, Alive, Starting, Early
  <2> QED
    BY <2>1 DEF Backend!Init
<1>2. BackendsInv /\ SupervisionInv /\ SupervisionInv' /\ [BackendsNext]_allVars
        => [\A w \in Workers : [Backend(w)!Next]_(Backend(w)!vars)]_allVars
  <2> SUFFICES ASSUME BackendsInv, SupervisionInv, SupervisionInv', BackendsNext,
                      NEW v \in Workers
               PROVE  [Backend(v)!Next]_(Backend(v)!vars)
    OBVIOUS
  <2>1. ASSUME NEW w \in Workers, BackendStep(w)
        PROVE  [Backend(v)!Next]_(Backend(v)!vars)
    <3>1. CASE v = w
      BY <2>1, <3>1, OwnBackend DEF OwnStep
    <3>2. CASE v # w
      BY <2>1, <3>2, OtherBackends DEF BackendsInv, Backend!vars
    <3> QED
      BY <3>1, <3>2
  <2>2. ASSUME NEW p \in Ports, OtherStep(p)
        PROVE  [Backend(v)!Next]_(Backend(v)!vars)
    BY <2>2, OthersUnseen DEF Backend!vars
  <2> QED
    BY <2>1, <2>2 DEF BackendsNext, BackendStep, OtherStep
<1> QED
  BY <1>1, <1>2, BackendsInvariant, BackendsAreSupervised, SupervisionInvariant, PTL
  DEF BackendsSpec, BackendsKept
=============================================================================
