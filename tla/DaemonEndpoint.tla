--------------------------- MODULE DaemonEndpoint ---------------------------
(***************************************************************************)
(* Daemons that start, serve, stop and crash over one Unix socket path     *)
(* (Endpoint, transport/unix.rs; serve and drain, mehoy-daemon), and the   *)
(* clients that connect to it.  A daemon is one process: one that starts   *)
(* again is another.  A socket file outlives the process that bound it; a  *)
(* connection reaches a process that listens, and is refused otherwise.    *)
(* Whether a daemon may remove what is at the path and whether it binds    *)
(* are decided in separate steps, with those of other daemons in between.  *)
(***************************************************************************)
EXTENDS Naturals

CONSTANTS
  Daemons,
  Clients,
  Nothing,  \* what is at the path if nothing is
  File      \* a file there that is not a socket

ASSUME OccupantsAssumption == {Nothing, File} \cap Daemons = {} /\ Nothing # File

VARIABLES
  path,   \* what is at the path: a socket, named by the daemon that bound it, or not
  stage,  \* how far a daemon has got
  told,   \* why it could not start
  conn,   \* how far a client's connection has got
  peer,   \* the daemon it was made to
  apart   \* whether no two daemons have been starting at once so far

vars == <<path, stage, told, conn, peer, apart>>
clients == <<conn, peer>>

Starting == {"probing", "judging", "removing", "binding", "bound"}
Listening == {"serving", "draining", "dropping", "closing"}
Over == {"failed", "stopped", "crashed"}

TypeOK ==
  /\ path \in Daemons \cup {Nothing, File}
  /\ stage \in [Daemons -> {"off"} \cup Starting \cup Listening \cup Over]
  /\ told \in [Daemons -> {"nothing", "AlreadyRunning", "InsecureDirectory",
                           "UnexpectedOccupant", "Io"}]
  /\ conn \in [Clients -> {"none", "queued", "open", "done", "cut", "NotRunning"}]
  /\ peer \in [Clients -> Daemons \cup {Nothing}]
  /\ apart \in BOOLEAN

Init ==
  /\ path \in {Nothing, File}
  /\ stage = [d \in Daemons |-> "off"]
  /\ told = [d \in Daemons |-> "nothing"]
  /\ conn = [c \in Clients |-> "none"]
  /\ peer = [c \in Clients |-> Nothing]
  /\ apart = TRUE

Reach(d, s) == stage' = [stage EXCEPT ![d] = s]

Fail(d, why) ==
  /\ Reach(d, "failed")
  /\ told' = [told EXCEPT ![d] = why]

(* A connection to the path is answered. *)
Answers == path \in Daemons /\ stage[path] \in Listening

(* The clients of d for which s holds. *)
OfDaemon(d, states) == {c \in Clients : peer[c] = d /\ conn[c] \in states}

Cut(cs) == conn' = [c \in Clients |-> IF c \in cs THEN "cut" ELSE conn[c]]

-----------------------------------------------------------------------------
(* Endpoint::bind.                                                         *)

(* The directory is private, or was created so. *)
Start(d) ==
  /\ stage[d] = "off"
  /\ Reach(d, "probing")
  /\ apart' = (apart /\ \A e \in Daemons : stage[e] \notin Starting)
  /\ UNCHANGED <<path, told, clients>>

RefuseDirectory(d) ==
  /\ stage[d] = "off"
  /\ Fail(d, "InsecureDirectory")
  /\ UNCHANGED <<path, clients, apart>>

(* A bug: removing what is there without asking whether it is alive. *)
RemoveAnswered(d) ==
  /\ stage[d] = "probing" /\ Answers
  /\ Reach(d, "removing")
  /\ UNCHANGED <<path, told, clients, apart>>

(* clear_stale_socket: somebody listens, ... *)
ProbeAnswered(d) ==
  /\ stage[d] = "probing" /\ Answers
  /\ Fail(d, "AlreadyRunning")
  /\ UNCHANGED <<path, clients, apart>>

(* ... nothing is there, ... *)
ProbeAbsent(d) ==
  /\ stage[d] = "probing" /\ path = Nothing
  /\ Reach(d, "binding")
  /\ UNCHANGED <<path, told, clients, apart>>

(* A bug: taking existence for liveness. *)
TrustExistence(d) ==
  /\ stage[d] = "probing" /\ path # Nothing /\ ~Answers
  /\ Fail(d, "AlreadyRunning")
  /\ UNCHANGED <<path, clients, apart>>

(* ... or what is there does not answer. *)
ProbeRefused(d) ==
  /\ stage[d] = "probing" /\ path # Nothing /\ ~Answers
  /\ Reach(d, "judging")
  /\ UNCHANGED <<path, told, clients, apart>>

(* It is looked at, and removed if it is a socket, whosever it is by then. *)
Judge(d) ==
  /\ stage[d] = "judging"
  /\ \/ path = Nothing /\ Fail(d, "Io")
     \/ path = File /\ Fail(d, "UnexpectedOccupant")
     \/ path \in Daemons /\ Reach(d, "removing") /\ UNCHANGED told
  /\ UNCHANGED <<path, clients, apart>>

Remove(d) ==
  /\ stage[d] = "removing"
  /\ IF path = Nothing THEN Fail(d, "Io") ELSE Reach(d, "binding") /\ UNCHANGED told
  /\ path' = Nothing
  /\ UNCHANGED <<clients, apart>>

(* UnixListener::bind binds the path and then listens. *)
Bind(d) ==
  /\ stage[d] = "binding" /\ path = Nothing
  /\ path' = d
  /\ Reach(d, "bound")
  /\ UNCHANGED <<told, clients, apart>>

BindInUse(d) ==
  /\ stage[d] = "binding" /\ path # Nothing
  /\ Fail(d, "AlreadyRunning")
  /\ UNCHANGED <<path, clients, apart>>

Listen(d) ==
  /\ stage[d] = "bound"
  /\ Reach(d, "serving")
  /\ UNCHANGED <<path, told, clients, apart>>

-----------------------------------------------------------------------------
(* serve and drain.                                                        *)

(* A bug: serving one connection before accepting the next. *)
AcceptWhenIdle(d) ==
  /\ stage[d] = "serving" /\ OfDaemon(d, {"open"}) = {}
  /\ \E c \in OfDaemon(d, {"queued"}) : conn' = [conn EXCEPT ![c] = "open"]
  /\ UNCHANGED <<path, stage, told, peer, apart>>

Accept(d) ==
  /\ stage[d] = "serving"
  /\ \E c \in OfDaemon(d, {"queued"}) : conn' = [conn EXCEPT ![c] = "open"]
  /\ UNCHANGED <<path, stage, told, peer, apart>>

(* Accepting fails in a way that is not of one client only: serve returns   *)
(* at once, and the connections are aborted without a drain.               *)
AcceptFails(d) ==
  /\ stage[d] = "serving"
  /\ Cut(OfDaemon(d, {"open"}))
  /\ Reach(d, "dropping")
  /\ UNCHANGED <<path, told, peer, apart>>

(* A bug: taking the socket away before the drain. *)
UnlinkFirst(d) ==
  /\ stage[d] = "serving"
  /\ path' = Nothing
  /\ Reach(d, "draining")
  /\ UNCHANGED <<told, clients, apart>>

Shutdown(d) ==
  /\ stage[d] = "serving"
  /\ Reach(d, "draining")
  /\ UNCHANGED <<path, told, clients, apart>>

DrainSettles(d) ==
  /\ stage[d] = "draining" /\ OfDaemon(d, {"open"}) = {}
  /\ Reach(d, "dropping")
  /\ UNCHANGED <<path, told, clients, apart>>

(* The deadline passes: the connections that are left are aborted. *)
DrainExpires(d) ==
  /\ stage[d] = "draining" /\ OfDaemon(d, {"open"}) # {}
  /\ Cut(OfDaemon(d, {"open"}))
  /\ Reach(d, "dropping")
  /\ UNCHANGED <<path, told, peer, apart>>

(* The endpoint is dropped: what is at the path is removed, whosever it is, *)
(* and then the listener closed, with the connections it did not accept.   *)
(* (A removal that fails leaves what a crash leaves.)                      *)
Unlink(d) ==
  /\ stage[d] = "dropping"
  /\ path' = Nothing
  /\ Reach(d, "closing")
  /\ UNCHANGED <<told, clients, apart>>

Close(d) ==
  /\ stage[d] = "closing"
  /\ Cut(OfDaemon(d, {"queued"}))
  /\ Reach(d, "stopped")
  /\ UNCHANGED <<path, told, peer, apart>>

(* The process dies: its socket stays, its connections do not. *)
Crash(d) ==
  /\ stage[d] \in Starting \cup Listening
  /\ Cut(OfDaemon(d, {"queued", "open"}))
  /\ Reach(d, "crashed")
  /\ UNCHANGED <<path, told, peer, apart>>

-----------------------------------------------------------------------------
(* The clients.                                                            *)

(* connect. *)
Connect(c) ==
  /\ conn[c] = "none"
  /\ IF Answers
       THEN /\ conn' = [conn EXCEPT ![c] = "queued"]
            /\ peer' = [peer EXCEPT ![c] = path]
       ELSE /\ conn' = [conn EXCEPT ![c] = "NotRunning"]
            /\ UNCHANGED peer
  /\ UNCHANGED <<path, stage, told, apart>>

(* serve_connection ends: the client has its answer, or has gone. *)
Finish(c) ==
  /\ conn[c] = "open"
  /\ conn' = [conn EXCEPT ![c] = "done"]
  /\ UNCHANGED <<path, stage, told, peer, apart>>

-----------------------------------------------------------------------------
StartStep(d) ==
  \/ ProbeAnswered(d) \/ ProbeAbsent(d) \/ ProbeRefused(d) \/ Judge(d)
  \/ Remove(d) \/ Bind(d) \/ BindInUse(d) \/ Listen(d)

StopStep(d) ==
  \/ DrainSettles(d) \/ DrainExpires(d) \/ Unlink(d) \/ Close(d)

Next ==
  \/ \E d \in Daemons :
       \/ Start(d) \/ RefuseDirectory(d) \/ StartStep(d)
       \/ Accept(d) \/ AcceptFails(d) \/ Shutdown(d) \/ StopStep(d)
       \/ Crash(d)
  \/ \E c \in Clients : Connect(c) \/ Finish(c)

Spec == Init /\ [][Next]_vars

(* A daemon that can go on does, and its drain has a deadline.  Nobody has *)
(* to start, stop or crash, and no client to finish.                       *)
Fairness ==
  \A d \in Daemons :
    WF_vars(StartStep(d)) /\ WF_vars(Accept(d)) /\ WF_vars(StopStep(d))

FairSpec == Spec /\ Fairness

-----------------------------------------------------------------------------
(* Properties.                                                             *)

(* As long as daemons have started one at a time, whatever else they did,  *)
(* the one that serves is at the path, and so is alone and can be reached. *)
ServedAtThePath ==
  apart => \A d \in Daemons : stage[d] \in Listening \ {"closing"} => path = d

(* Then, too, a start that finds the directory in order fails only because *)
(* another daemon is there, or a file that is not a socket: what a crashed *)
(* daemon left does not block it ("existence is not liveness").            *)
StaleNeverBlocks ==
  [][\A d \in Daemons :
       apart /\ stage[d] \in Starting /\ stage'[d] = "failed" =>
         \/ told'[d] = "AlreadyRunning" /\ Answers
         \/ told'[d] = "UnexpectedOccupant" /\ path = File]_vars

(* What the endpoint promises on every platform (module LocalEndpoint), as *)
(* long as daemons have started one at a time: the owner is who listens    *)
(* and has not removed its socket.                                         *)
OwnerOf(d) ==
  CASE stage[d] \in {"off"} \cup Starting -> "out"
    [] stage[d] \in Listening \ {"closing"} -> "owner"
    [] stage[d] = "closing" -> "leaving"
    [] stage[d] \in {"stopped", "crashed"} -> "gone"
    [] OTHER -> IF told[d] = "AlreadyRunning" THEN "AlreadyRunning" ELSE "failed"

ClientOf(c) ==
  CASE conn[c] = "none" -> "asking"
    [] conn[c] \in {"queued", "open"} -> "connected"
    [] conn[c] = "done" -> "answered"
    [] OTHER -> conn[c]

owner == [d \in Daemons |-> OwnerOf(d)]
held == [d \in Daemons |-> OfDaemon(d, {"queued", "open"})]
client == [c \in Clients |-> ClientOf(c)]

Promise == INSTANCE LocalEndpoint WITH daemon <- owner

PromiseKept ==
  /\ Promise!Init
  /\ [][apart' => Promise!Next \/ UNCHANGED Promise!vars]_vars

(* A daemon that ended without crashing has left no socket behind, whoever *)
(* came and went meanwhile ("A clean shutdown therefore leaves nothing     *)
(* behind").                                                               *)
NothingLeftBehind ==
  path \in Daemons => stage[path] \notin {"off", "failed", "closing", "stopped"}

(* A connection that was made is accepted or closed, however long others   *)
(* take, and whether or not the daemon can still be reached by new ones.   *)
QueuedAreHeard == \A c \in Clients : conn[c] = "queued" ~> conn[c] # "queued"

(* Doc of clear_stale_socket: "a connection succeeds, so a daemon owns it   *)
(* and must not be disturbed".  A daemon that serves at the path stays     *)
(* there until it stops.                                                   *)
ServingUndisturbed ==
  [][\A d \in Daemons :
       path = d /\ stage[d] = "serving" /\ stage'[d] = "serving" => path' = d]_vars

-----------------------------------------------------------------------------
(* The strengthening under which ServedAtThePath and NothingLeftBehind are *)
(* inductive, and from which StaleNeverBlocks follows.                     *)

SocketIsOfTheBound ==
  path \in Daemons => stage[path] \in {"bound", "serving", "draining", "dropping", "crashed"}

OneStarts ==
  \A d, e \in Daemons : stage[d] \in Starting /\ stage[e] \in Starting => d = e

(* What a start has seen at the path is still so. *)
StartKnows(d) ==
  /\ stage[d] \in {"judging", "removing"} => path # Nothing /\ ~Answers
  /\ stage[d] = "removing" => path # File
  /\ stage[d] = "binding" => path = Nothing
  /\ stage[d] = "bound" => path = d

(* A connection that is waiting or open is of a daemon that may answer it. *)
ConnectionHasDaemon ==
  \A c \in Clients :
    /\ conn[c] = "queued" => peer[c] \in Daemons /\ stage[peer[c]] \in Listening
    /\ conn[c] = "open" => peer[c] \in Daemons /\ stage[peer[c]] \in {"serving", "draining"}

EndpointInv ==
  /\ TypeOK
  /\ SocketIsOfTheBound
  /\ ConnectionHasDaemon
  /\ apart => OneStarts /\ \A d \in Daemons : StartKnows(d)
  /\ ServedAtThePath

=============================================================================
