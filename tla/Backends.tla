------------------------------- MODULE Backends -------------------------------
(***************************************************************************)
(* Starting and stopping llama.cpp backends (LlamaCppBackend::start,       *)
(* RunningBackend::stop), several at a time.  Each supervises its process  *)
(* as in ProcessWorker, whose steps are conjoined with what start does     *)
(* around them.  A backend gets a port that was free when it was reserved  *)
(* and let go of again, and whoever binds it first is who answers there:   *)
(* the backend once it has loaded, another backend of the runtime, or a    *)
(* program the runtime knows nothing of.  All that start can tell them     *)
(* apart by is what they answer to the secret of the channel.              *)
(*                                                                         *)
(* Before the worker there is another process: the executable is run once  *)
(* to tell its build, and nothing supervises that run.                     *)
(***************************************************************************)
EXTENDS ProcessWorker

CONSTANTS
  Ports,    \* the loopback ports the system may hand out
  NoPort,   \* the port of a backend that has none
  Secrets,  \* what ChannelSecret::generate may draw
  NoSecret,
  Foreign   \* what other programs of the machine may answer to a secret

ASSUME PortsAssumption == NoPort \notin Ports

ASSUME SecretsAssumption == NoSecret \notin Secrets

ASSUME ForeignAssumption == Foreign \subseteq {"refuses", "accepts"}

VARIABLES
  start,      \* how far LlamaCppBackend::start, and the backend, have got
  banner,     \* the run of the executable that tells its build
  port,       \* BackendChannel::address
  secret,     \* BackendChannel::secret
  listening,  \* the workers whose process has bound its port
  other,      \* how a program that is not the runtime's, if any, answers at a port
  file        \* whether the secret file exists

channel == <<port, secret>>
others == <<banner, other>>
channels == <<banner, port, secret, listening, other, file>>
allVars == <<vars, start, banner, port, secret, listening, other, file>>

(* start is under way at these, and has a worker from "launched" on. *)
Early == {"idle", "identifying", "preparing"}

Starting == {"identifying", "preparing", "launched", "watching", "checking", "reporting", "withdrawing",
             "withdrawn", "abandoned"}

Stages == Starting \cup {"idle", "failed", "running", "stopping", "stopped", "unstopped",
                         "dropped"}

BackendsTypeOK ==
  /\ TypeOK
  /\ start \in [Workers -> Stages]
  /\ banner \in [Workers -> {"none", "running", "gone"}]
  /\ port \in [Workers -> Ports \cup {NoPort}]
  /\ secret \in [Workers -> Secrets \cup {NoSecret}]
  /\ listening \in SUBSET Workers
  /\ other \in [Ports -> Foreign \cup {"nobody"}]
  /\ file \in [Workers -> BOOLEAN]

BackendsInit ==
  /\ Init
  /\ start = [w \in Workers |-> "idle"]
  /\ banner = [w \in Workers |-> "none"]
  /\ port = [w \in Workers |-> NoPort]
  /\ secret = [w \in Workers |-> NoSecret]
  /\ listening = {}
  /\ other = [p \in Ports |-> "nobody"]
  /\ file = [w \in Workers |-> FALSE]

Reach(w, stage) == start' = [start EXCEPT ![w] = stage]

Taken(p) == other[p] # "nobody" \/ \E v \in listening : port[v] = p

-----------------------------------------------------------------------------
(* The processes.                                                          *)

Listen(w) ==
  /\ process[w] = "running" /\ w \notin listening
  /\ ~Taken(port[w])
  /\ listening' = listening \cup {w}
  /\ UNCHANGED <<vars, start, channel, others, file>>

(* A process that ends, for want of its port or for any other reason. *)
End(w) ==
  /\ Exit(w) \/ Die(w)
  /\ listening' = listening \ {w}
  /\ UNCHANGED <<start, channel, others, file>>

(* Another program takes a port, or gives it up. *)
OtherListens(p) ==
  /\ ~Taken(p)
  /\ \E answer \in Foreign : other' = [other EXCEPT ![p] = answer]
  /\ UNCHANGED <<vars, start, banner, channel, listening, file>>

OtherLeaves(p) ==
  /\ other[p] # "nobody"
  /\ other' = [other EXCEPT ![p] = "nobody"]
  /\ UNCHANGED <<vars, start, banner, channel, listening, file>>

(* The run that tells the build ends, if it does: nobody makes it. *)
BannerEnds(w) ==
  /\ banner[w] = "running"
  /\ banner' = [banner EXCEPT ![w] = "gone"]
  /\ UNCHANGED <<vars, start, channel, listening, other, file>>

-----------------------------------------------------------------------------
(* LlamaCppBackend::start.                                                 *)

(* identify runs the executable, which is neither killed when its future   *)
(* is dropped nor waited for under a deadline ...                          *)
Identify(w) ==
  /\ start[w] = "idle"
  /\ \/ /\ banner' = [banner EXCEPT ![w] = "running"]
        /\ Reach(w, "identifying")
     \/ Reach(w, "preparing") /\ UNCHANGED banner
  /\ UNCHANGED <<vars, channel, listening, other, file>>

(* ... and what comes of it, if it can be run, does not matter. *)
Identified(w) ==
  /\ start[w] = "identifying" /\ banner[w] = "gone"
  /\ Reach(w, "preparing")
  /\ UNCHANGED <<vars, channels>>

(* No port, no secret, no file or no process is to be had. *)
PrepareFails(w) ==
  /\ start[w] = "preparing"
  /\ Reach(w, "failed")
  /\ UNCHANGED <<vars, channels>>

(* The secret file is made, but cannot be written: no SecretFile owns it. *)
WriteFails(w) ==
  /\ start[w] = "preparing"
  /\ file' = [file EXCEPT ![w] = TRUE]
  /\ Reach(w, "failed")
  /\ UNCHANGED <<vars, others, channel, listening>>

(* BackendChannel::reserve binds a free port and lets go of it, and draws  *)
(* a secret, long enough for no two to be the same.                        *)
Channel(w, p, s) ==
  /\ ~Taken(p)
  /\ \A v \in Workers : secret[v] # s
  /\ port' = [port EXCEPT ![w] = p]
  /\ secret' = [secret EXCEPT ![w] = s]

(* A bug: the secret file is gone once the process was spawned. *)
LaunchWithoutFile(w, p, s) ==
  /\ start[w] = "preparing"
  /\ Channel(w, p, s)
  /\ Spawn(w, "Terminate")
  /\ Reach(w, "launched")
  /\ UNCHANGED <<others, listening, file>>

(* The channel is there, the secret file is created and the process        *)
(* spawned, without an await in between.                                   *)
Launch(w, p, s) ==
  /\ start[w] = "preparing"
  /\ Channel(w, p, s)
  /\ Spawn(w, "Terminate")
  /\ file' = [file EXCEPT ![w] = TRUE]
  /\ Reach(w, "launched")
  /\ UNCHANGED <<others, listening>>

(* The process is there, the handle is not; the file is removed again. *)
LaunchUncontrolled(w, p, s) ==
  /\ start[w] = "preparing"
  /\ Channel(w, p, s)
  /\ SpawnUncontrolled(w)
  /\ Reach(w, "failed")
  /\ UNCHANGED <<others, listening, file>>

Watch(w) ==
  /\ start[w] = "launched"
  /\ WaitReady(w)
  /\ Reach(w, IF doing'[w] = "nothing" THEN "reporting" ELSE "watching")
  /\ UNCHANGED channels

(* health::probe asks whoever listens on the port, who need not look at    *)
(* the secret; phase_for_status.  One that is refused is final.            *)
ProbeHealth(w) ==
  \/ ProbeNotYet(w)
  \/ Taken(port[w]) /\ (ProbeReady(w) \/ ProbeFails(w))

(* The wait for readiness, and the kill that ends it in vain. *)
Supervise(w) ==
  /\ start[w] = "watching"
  /\ \/ ProbeHealth(w) \/ Wake(w) \/ ExpireReady(w)
     \/ Kill(w) \/ RefuseKill(w) \/ KillTooLate(w)
     \/ Reap(w) \/ EndAnyway(w) \/ GiveUp(w) \/ ReadyEnds(w)
  /\ Reach(w, IF doing'[w] # "nothing" THEN "watching"
              ELSE IF told'[w] = "Ready" THEN "checking" ELSE "reporting")
  /\ UNCHANGED channels

(* Whether who listens on the port takes the secret: a backend that was    *)
(* given the same one does, and another program does as it pleases.        *)
TakesSecret(w) ==
  \/ \E v \in listening : port[v] = port[w] /\ secret[v] = secret[w]
  \/ other[port[w]] = "accepts"

(* A bug: taking health for a proof of the credential. *)
CredentialUnchecked(w) ==
  /\ start[w] = "checking" /\ Taken(port[w])
  /\ Reach(w, "running")
  /\ file' = [file EXCEPT ![w] = FALSE]
  /\ UNCHANGED <<vars, others, channel, listening>>

(* health::probe_credential: some 2xx, from whoever listens there. *)
CredentialAccepted(w) ==
  /\ start[w] = "checking" /\ TakesSecret(w)
  /\ Reach(w, "running")
  /\ file' = [file EXCEPT ![w] = FALSE]
  /\ UNCHANGED <<vars, others, channel, listening>>

(* It is refused, or the request fails or takes too long. *)
CredentialNotAccepted(w) ==
  /\ start[w] = "checking"
  /\ ShutdownByKill(w)
  /\ Reach(w, "withdrawing")
  /\ UNCHANGED channels

(* ProcessWorker::shutdown, for start and for stop. *)
ShuttingDownStep(w) ==
  \/ Kill(w) \/ RefuseKill(w) \/ KillTooLate(w)
  \/ Reap(w) \/ EndAnyway(w) \/ GiveUp(w) \/ ShutdownEnds(w)

Withdraw(w) ==
  /\ start[w] = "withdrawing"
  /\ ShuttingDownStep(w)
  /\ Reach(w, IF doing'[w] = "nothing" THEN "withdrawn" ELSE "withdrawing")
  /\ UNCHANGED channels

(* The error is returned, and the handle and the secret file dropped. *)
ReturnError(w) ==
  /\ start[w] \in {"reporting", "withdrawn"}
  /\ DropHandle(w)
  /\ Reach(w, "failed")
  /\ file' = [file EXCEPT ![w] = FALSE]
  /\ UNCHANGED <<others, channel, listening>>

(* The future of start is dropped at an await: the first one leaves alone  *)
(* what it has run, ...                                                    *)
DropStart(w) ==
  \/ /\ start[w] = "identifying"
     /\ Reach(w, "dropped")
     /\ UNCHANGED <<vars, channels>>
  \/ /\ start[w] \in {"watching", "withdrawing"}
     /\ DropCall(w)
     /\ Reach(w, "abandoned")
     /\ UNCHANGED channels
  \/ /\ start[w] \in {"checking", "reporting"}
     /\ Reach(w, "abandoned")
     /\ UNCHANGED <<vars, channels>>

(* ... the later ones drop what start owned with it. *)
DropStarted(w) ==
  /\ start[w] = "abandoned"
  /\ DropHandle(w)
  /\ Reach(w, "dropped")
  /\ file' = [file EXCEPT ![w] = FALSE]
  /\ UNCHANGED <<others, channel, listening>>

-----------------------------------------------------------------------------
(* RunningBackend.                                                         *)

Stop(w) ==
  /\ start[w] \in {"running", "unstopped"}
  /\ ShutdownByKill(w)
  /\ Reach(w, "stopping")
  /\ UNCHANGED channels

StopStep(w) ==
  /\ start[w] = "stopping"
  /\ \/ /\ ShuttingDownStep(w)
        /\ Reach(w, IF doing'[w] # "nothing" THEN "stopping"
                    ELSE IF told'[w] = "Requested" THEN "stopped" ELSE "unstopped")
     \/ DropCall(w) /\ Reach(w, "unstopped")
  /\ UNCHANGED channels

DropBackend(w) ==
  /\ start[w] \in {"running", "stopped", "unstopped"}
  /\ DropHandle(w)
  /\ Reach(w, "dropped")
  /\ UNCHANGED channels

-----------------------------------------------------------------------------
(* What start does of itself once it is called. *)
Proceeds(w) ==
  \/ Identified(w)
  \/ PrepareFails(w) \/ WriteFails(w)
  \/ \E p \in Ports, s \in Secrets : Launch(w, p, s) \/ LaunchUncontrolled(w, p, s)
  \/ Watch(w)
  \/ CredentialAccepted(w) \/ CredentialNotAccepted(w) \/ Withdraw(w)
  \/ ReturnError(w) \/ DropStarted(w)

BackendsNext ==
  \/ \E w \in Workers :
       \/ Listen(w) \/ End(w) \/ BannerEnds(w)
       \/ Identify(w) \/ Proceeds(w) \/ Supervise(w) \/ DropStart(w)
       \/ Stop(w) \/ StopStep(w) \/ DropBackend(w)
  \/ \E p \in Ports : OtherListens(p) \/ OtherLeaves(p)

BackendsSpec == BackendsInit /\ [][BackendsNext]_allVars

-----------------------------------------------------------------------------
(* Properties.                                                             *)

(* What start hands out with a living process has that process at the      *)
(* other end of its channel.                                               *)
ReachesItsOwn(w) == start[w] = "running" /\ process[w] = "running" => w \in listening

(* It does as long as no other program takes secrets that it was not       *)
(* given: two starts that got the same port, and programs that came first  *)
(* and answer health, are told apart from the backend, whenever each of    *)
(* them comes and goes.                                                    *)
ChannelIsOwn == "accepts" \notin Foreign => \A w \in Workers : ReachesItsOwn(w)

(* It does whoever takes the port, so that a port that was taken is seen   *)
(* as a failure to start.  BackendChannel::reserve says so, and the code   *)
(* does not grant it: any 2xx will do.                                     *)
MisbindingIsVisible == \A w \in Workers : ReachesItsOwn(w)

(* The secret file is there for as long as a supervised process may still  *)
(* have to read it, and for no longer than start, unless it could not be   *)
(* written, in which case nothing was started that could read it.          *)
FileServesTheStart ==
  \A w \in Workers :
    /\ held[w] /\ process[w] = "running" /\ w \notin listening /\ start[w] \in Starting
       => file[w]
    /\ file[w] => start[w] \in Starting \/ process[w] = "none"

(* What is left of a start that is over.  A worker that runs on is one the *)
(* system refused to kill, whenever it was dropped.  A run that was to     *)
(* tell the build goes on only if the start was dropped waiting for it,    *)
(* when there was no worker and no secret yet: nobody was even asked to    *)
(* kill it.                                                                *)
FailedStartLeavesNothing ==
  \A w \in Workers : start[w] \in Stages \ Early =>
    /\ start[w] \in {"failed", "dropped"} /\ process[w] = "running" => defied[w]
    /\ banner[w] = "running" =>
         start[w] = "dropped" /\ process[w] = "none" /\ ~file[w]

(* A backend is what the ledger takes it for (module BackendProcess),      *)
(* whatever other backends do: what it says of having stopped is so, and   *)
(* no process is started twice or for a start that is over.  A process     *)
(* that was killed is there until it has ended.                            *)
StageOf(w) ==
  CASE start[w] \in Early -> "unstarted"
    [] start[w] \in Starting \ Early -> "starting"
    [] start[w] \in {"running", "stopping", "unstopped"} -> "serving"
    [] start[w] = "stopped" -> "stopped"
    [] OTHER -> "over"

ProcessOf(w) == IF Alive(w) THEN "up" ELSE process[w]

Backend(w) == INSTANCE BackendProcess WITH stage <- StageOf(w), process <- ProcessOf(w)

BackendsKept ==
  /\ \A w \in Workers : Backend(w)!Init
  /\ [][\A w \in Workers : [Backend(w)!Next]_(Backend(w)!vars)]_allVars

(* What ChannelIsOwn, FileServesTheStart and FailedStartLeavesNothing rest  *)
(* on beyond SupervisionInv.                                               *)
UnstartedHasNothing ==
  \A w \in Workers :
    /\ start[w] \in Early => process[w] = "none" /\ ~file[w]
    /\ process[w] = "none" => start[w] \in Early \cup {"failed", "dropped"}

EndedHoldsNothing ==
  \A w \in Workers : start[w] \in {"failed", "dropped"} => ~held[w]

(* A secret is of one channel, and a worker that was started with one has  *)
(* it and a port. *)
SecretsDiffer ==
  \A v, w \in Workers : secret[v] = secret[w] /\ secret[v] # NoSecret => v = w

LaunchedHasChannel ==
  \A w \in Workers :
    process[w] # "none" => port[w] \in Ports /\ secret[w] \in Secrets

(* Who is asked to tell the build is waited for, or left to itself. *)
BannerIsAwaited ==
  \A w \in Workers : banner[w] = "running" =>
    /\ start[w] \in {"identifying", "dropped"}
    /\ process[w] = "none" /\ ~file[w]

BackendsInv ==
  /\ BackendsTypeOK
  /\ UnstartedHasNothing
  /\ EndedHoldsNothing
  /\ SecretsDiffer
  /\ LaunchedHasChannel
  /\ BannerIsAwaited
  /\ ChannelIsOwn
  /\ FileServesTheStart

=============================================================================
