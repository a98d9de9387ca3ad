---------------------------- MODULE PipeEndpoint ----------------------------
(***************************************************************************)
(* Daemons that start, serve, stop and crash over one named pipe           *)
(* (Endpoint, transport/windows.rs; serve, mehoy-daemon), and the clients  *)
(* that connect to it.  A daemon is one process.  A pipe name has no file: *)
(* it exists while it has instances, each good for one connection.  A      *)
(* daemon keeps one instance for the next client and hands the connected   *)
(* ones to its connections.                                                *)
(*                                                                         *)
(* What the system does with instances - when a name may be created, who   *)
(* an open reaches, that the instance of an ended daemon lingers and still *)
(* answers - is taken from how bind, accept and connect treat it.          *)
(***************************************************************************)
EXTENDS Naturals

CONSTANTS
  Daemons,
  Clients,
  Nobody   \* at the other end of an instance that waits

(* The other end of an instance: a client, or a daemon that probes. *)
Peers == Clients \cup Daemons

ASSUME PeersAssumption == Nobody \notin Peers /\ Clients \cap Daemons = {}

VARIABLES
  stage,    \* how far a daemon has got
  pending,  \* Endpoint::pending: "none", "listening" or "connected"
  peer,     \* who is connected to it
  handed,   \* the connections a daemon has accepted and not seen end
  earlier,  \* the daemons a bind may still find closing
  asking    \* what became of a client

vars == <<stage, pending, peer, handed, earlier, asking>>
instances == <<pending, peer, handed>>

Binding == {"binding", "answered"}
Accepting == {"accepting", "replacing"}
Holding == {"bound", "draining"} \cup Accepting

TypeOK ==
  /\ stage \in [Daemons -> {"off", "closing", "gone", "AlreadyRunning", "AddrInUse", "Io"}
                           \cup Binding \cup Holding]
  /\ pending \in [Daemons -> {"none", "listening", "connected"}]
  /\ peer \in [Daemons -> Peers \cup {Nobody}]
  /\ handed \in [Daemons -> SUBSET Peers]
  /\ earlier \in [Daemons -> SUBSET Daemons]
  /\ asking \in [Clients -> {"idle", "busy", "connected", "answered", "cut",
                             "NotRunning", "TimedOut"}]

Init ==
  /\ stage = [d \in Daemons |-> "off"]
  /\ pending = [d \in Daemons |-> "none"]
  /\ peer = [d \in Daemons |-> Nobody]
  /\ handed = [d \in Daemons |-> {}]
  /\ earlier = [d \in Daemons |-> {}]
  /\ asking = [c \in Clients |-> "idle"]

Reach(d, s) == stage' = [stage EXCEPT ![d] = s]

(* The clients among ps have come to a. *)
Tell(ps, a) == asking' = [c \in Clients |-> IF c \in ps THEN a ELSE asking[c]]

(* The name exists while any instance does, whoever made it. *)
NameFree == \A d \in Daemons : pending[d] = "none" /\ handed[d] = {}

Listeners == {d \in Daemons : pending[d] = "listening"}
Closing == {d \in Daemons : stage[d] = "closing"}

(* Opening the name connects to an instance that waits, and uses it up. *)
Open(d, p) ==
  /\ d \in Listeners
  /\ pending' = [pending EXCEPT ![d] = "connected"]
  /\ peer' = [peer EXCEPT ![d] = p]
  /\ UNCHANGED handed

-----------------------------------------------------------------------------
(* Endpoint::bind.                                                         *)

BeginBind(d) ==
  /\ stage[d] = "off"
  /\ Reach(d, "binding")
  /\ earlier' = [earlier EXCEPT ![d] = Closing]
  /\ UNCHANGED <<instances, asking>>

(* create_instance asks for the first instance of the name. *)
Create(d) ==
  /\ stage[d] \in Binding
  /\ NameFree
  /\ pending' = [pending EXCEPT ![d] = "listening"]
  /\ Reach(d, "bound")
  /\ UNCHANGED <<peer, handed, earlier, asking>>

CreateFails(d) ==
  /\ stage[d] \in Binding
  /\ Reach(d, "Io")
  /\ UNCHANGED <<instances, earlier, asking>>

(* A bug: taking one answer for a daemon. *)
TrustAnswer(d, e) ==
  /\ stage[d] = "binding"
  /\ Open(e, d)
  /\ Reach(d, "AlreadyRunning")
  /\ UNCHANGED <<earlier, asking>>

(* Denied, it opens the name and lets go of it at once.  Only the first    *)
(* answer is asked for.  A probe that is not answered changes nothing.     *)
Probe(d, e) ==
  /\ stage[d] = "binding"
  /\ Open(e, d)
  /\ Reach(d, "answered")
  /\ earlier' = [earlier EXCEPT ![d] = Closing]
  /\ UNCHANGED asking

(* A closing instance is gone before BIND_LIVENESS_CONFIRMATION, and well  *)
(* before BIND_LINGER_BUDGET, have passed: that is what they are long for. *)
Outlasted(d) == \A e \in earlier[d] : stage[e] = "gone"

(* The name has gone on refusing to be created since it answered ... *)
ConfirmRunning(d) ==
  /\ stage[d] = "answered"
  /\ ~NameFree /\ Outlasted(d)
  /\ Reach(d, "AlreadyRunning")
  /\ UNCHANGED <<instances, earlier, asking>>

(* ... or since the bind began, and no answer is old enough to count. *)
ExpireBind(d) ==
  /\ stage[d] \in Binding
  /\ ~NameFree /\ Outlasted(d)
  /\ Reach(d, "AddrInUse")
  /\ UNCHANGED <<instances, earlier, asking>>

-----------------------------------------------------------------------------
(* serve and Endpoint::accept.                                             *)

Accept(d) ==
  /\ stage[d] = "bound"
  /\ Reach(d, "accepting")
  /\ UNCHANGED <<instances, earlier, asking>>

(* pending.connect() is done, also if the peer has left again. *)
Connected(d) ==
  /\ stage[d] = "accepting"
  /\ pending[d] = "connected"
  /\ Reach(d, "replacing")
  /\ UNCHANGED <<instances, earlier, asking>>

(* A bug: handing off the new instance for the connected one. *)
ReplaceSwapped(d) ==
  /\ stage[d] = "replacing"
  /\ pending' = [pending EXCEPT ![d] = "listening"]
  /\ peer' = [peer EXCEPT ![d] = Nobody]
  /\ Reach(d, "bound")
  /\ UNCHANGED <<handed, earlier, asking>>

(* The next instance is created, and only then the connected one is taken  *)
(* out of the endpoint and given to a connection.                          *)
Replace(d) ==
  /\ stage[d] = "replacing"
  /\ pending' = [pending EXCEPT ![d] = "listening"]
  /\ peer' = [peer EXCEPT ![d] = Nobody]
  /\ handed' = [handed EXCEPT ![d] = @ \cup {peer[d]}]
  /\ Reach(d, "bound")
  /\ UNCHANGED <<earlier, asking>>

(* A bug: an accept that takes the pending instance before it is connected, *)
(* and so destroys it if it is dropped.                                    *)
ReapTaking(d, p) ==
  /\ stage[d] \in Accepting \cup {"draining"} /\ p \in handed[d]
  /\ handed' = [handed EXCEPT ![d] = @ \ {p}]
  /\ IF stage[d] \in Accepting
     THEN Reach(d, "bound") /\ pending' = [pending EXCEPT ![d] = "none"]
     ELSE UNCHANGED <<stage, pending>>
  /\ Tell({p}, "answered")
  /\ UNCHANGED <<peer, earlier>>

(* A connection has ended.  If serve was accepting, select drops the       *)
(* accept, and the loop begins another; the endpoint is as it was.  (Past  *)
(* the connect there is an await to be dropped at only with the feature    *)
(* race-amplifier.)                                                        *)
Reap(d, p) ==
  /\ stage[d] \in Accepting \cup {"draining"} /\ p \in handed[d]
  /\ handed' = [handed EXCEPT ![d] = @ \ {p}]
  /\ IF stage[d] \in Accepting THEN Reach(d, "bound") ELSE UNCHANGED stage
  /\ Tell({p}, "answered")
  /\ UNCHANGED <<pending, peer, earlier>>

Shutdown(d) ==
  /\ stage[d] \in Accepting
  /\ Reach(d, "draining")
  /\ UNCHANGED <<instances, earlier, asking>>

(* serve is over: the drain has settled or run out, accepting or creating  *)
(* the next instance has failed for good, or the process has crashed.  The *)
(* connections end; the system has yet to take the pending instance down.  *)
End(d) ==
  /\ stage[d] \in Holding
  /\ Reach(d, "closing")
  /\ handed' = [handed EXCEPT ![d] = {}]
  /\ Tell(handed[d], "cut")
  /\ UNCHANGED <<pending, peer, earlier>>

(* The instance stops answering, and whoever was connected to it is cut. *)
Vanish(d) ==
  /\ stage[d] = "closing"
  /\ Reach(d, "gone")
  /\ pending' = [pending EXCEPT ![d] = "none"]
  /\ peer' = [peer EXCEPT ![d] = Nobody]
  /\ Tell({peer[d]}, "cut")
  /\ UNCHANGED <<handed, earlier>>

-----------------------------------------------------------------------------
(* connect, by a client.                                                   *)

Connect(c, d) ==
  /\ asking[c] \in {"idle", "busy"}
  /\ Open(d, c)
  /\ asking' = [asking EXCEPT ![c] = "connected"]
  /\ UNCHANGED <<stage, earlier>>

(* Every instance is in use: it tries again, ... *)
FindBusy(c) ==
  /\ asking[c] = "idle"
  /\ ~NameFree /\ Listeners = {}
  /\ asking' = [asking EXCEPT ![c] = "busy"]
  /\ UNCHANGED <<stage, instances, earlier>>

(* ... until BUSY_WAIT_BUDGET has passed. *)
ExpireBusy(c) ==
  /\ asking[c] = "busy"
  /\ ~NameFree /\ Listeners = {}
  /\ asking' = [asking EXCEPT ![c] = "TimedOut"]
  /\ UNCHANGED <<stage, instances, earlier>>

FindNone(c) ==
  /\ asking[c] \in {"idle", "busy"}
  /\ NameFree
  /\ asking' = [asking EXCEPT ![c] = "NotRunning"]
  /\ UNCHANGED <<stage, instances, earlier>>

-----------------------------------------------------------------------------
BindStep(d) ==
  \/ Create(d) \/ CreateFails(d) \/ ConfirmRunning(d) \/ ExpireBind(d)
  \/ \E e \in Daemons : Probe(d, e)

ServeStep(d) == Accept(d) \/ Connected(d) \/ Replace(d) \/ \E p \in Peers : Reap(d, p)

Next ==
  \/ \E d \in Daemons : BeginBind(d) \/ BindStep(d) \/ ServeStep(d)
                        \/ Shutdown(d) \/ End(d) \/ Vanish(d)
  \/ \E c \in Clients : \/ \E d \in Daemons : Connect(c, d)
                        \/ FindBusy(c) \/ ExpireBusy(c) \/ FindNone(c)

(* A bind tries every BIND_RETRY_INTERVAL under two deadlines; serve's loop *)
(* turns, a connection is served by a task of its own, a drain has a       *)
(* deadline, and the system closes the handles of what ended.  Nobody has  *)
(* to start a daemon, stop one or connect.                                 *)
Fairness ==
  \A d \in Daemons :
    /\ WF_vars(BindStep(d)) /\ WF_vars(ServeStep(d))
    /\ WF_vars(stage[d] = "draining" /\ End(d)) /\ WF_vars(Vanish(d))

Spec == Init /\ [][Next]_vars

FairSpec == Spec /\ Fairness

-----------------------------------------------------------------------------
(* Properties.                                                             *)

(* At most one daemon holds the name, through starts that race, crashes    *)
(* and instances that outlive their daemon (first_pipe_instance).          *)
OneHolder ==
  \A d, e \in Daemons : stage[d] \in Holding /\ stage[e] \in Holding => d = e

(* While a daemon serves or drains, no client is told that none is running, *)
(* whatever accept is dropped and whatever connection ends in between      *)
(* ("leaving the pipe name with no instance and making the daemon          *)
(* unreachable after the first connection completed").                     *)
ServingIsFound ==
  [][\A c \in Clients :
       asking[c] # "NotRunning" /\ asking'[c] = "NotRunning"
         => \A d \in Daemons : stage[d] \notin Holding]_vars

(* A bind comes to an end, and where all there is of others when it begins *)
(* is what ended ones have left, it gets the name or leaves it to another  *)
(* daemon: it is not turned away by the remains ("would make restarting    *)
(* the daemon fail intermittently").                                       *)
BindSettles ==
  \A d \in Daemons :
    /\ stage[d] = "binding" ~> stage[d] \notin Binding
    /\ stage[d] = "binding" /\ Closing \subseteq earlier[d] ~>
         \/ stage[d] \in Holding \cup {"Io"}
         \/ \E e \in Daemons \ {d} : stage[e] \in Holding

(* A client believes that it is connected exactly while one daemon holds   *)
(* its connection, on the pending instance or among those handed off, and  *)
(* never both: it is not lost between the two, whichever accept is dropped *)
(* and whoever ends ("cancel-safe, which is a requirement rather than a    *)
(* nicety").                                                               *)
ConnectedIsHeld ==
  \A c \in Clients :
    /\ asking[c] = "connected" <=> \E d \in Daemons : peer[d] = c \/ c \in handed[d]
    /\ \A d, e \in Daemons :
         /\ peer[d] = c => c \notin handed[e]
         /\ d # e => ~(peer[d] = c /\ peer[e] = c) /\ c \notin handed[d] \cap handed[e]

(* What the endpoint promises on every platform (module LocalEndpoint): an *)
(* instance that lingers answers, but is not an owner; a client that finds *)
(* all instances in use is still asking.                                   *)
OwnerOf(d) ==
  CASE stage[d] \in {"off"} \cup Binding -> "out"
    [] stage[d] \in Holding -> "owner"
    [] stage[d] = "closing" -> "leaving"
    [] stage[d] = "gone" -> "gone"
    [] stage[d] = "AlreadyRunning" -> "AlreadyRunning"
    [] OTHER -> "failed"

owner == [d \in Daemons |-> OwnerOf(d)]
held == [d \in Daemons |-> {c \in Clients : peer[d] = c \/ c \in handed[d]}]
client == [c \in Clients |-> IF asking[c] \in {"idle", "busy"} THEN "asking" ELSE asking[c]]

Promise == INSTANCE LocalEndpoint WITH daemon <- owner

PromiseKept == Promise!Spec

(* A client that is connected to an instance is answered or cut, however   *)
(* often the accept that waits on the instance is dropped.                 *)
ConnectedIsHeard == \A c \in Clients : asking[c] = "connected" ~> asking[c] # "connected"

-----------------------------------------------------------------------------
(* The strengthening under which OneHolder and ConnectedIsHeld are         *)
(* inductive, and from which ServingIsFound follows.                       *)

(* Whoever serves or drains has the pending instance, and so the name.     *)
HolderHasInstance ==
  \A d \in Daemons :
    /\ stage[d] \in Holding => pending[d] # "none"
    /\ stage[d] = "replacing" => pending[d] = "connected"

(* An instance has a peer when it is connected, and only then.             *)
PeerIsConnected == \A d \in Daemons : pending[d] = "connected" <=> peer[d] # Nobody

(* An instance is of a daemon that serves, or lingers without connections. *)
InstanceHasDaemon ==
  \A d \in Daemons :
    /\ pending[d] # "none" => stage[d] \in Holding \cup {"closing"}
    /\ handed[d] # {} => stage[d] \in Holding

PipeInv ==
  /\ TypeOK /\ HolderHasInstance /\ InstanceHasDaemon /\ PeerIsConnected
  /\ OneHolder /\ ConnectedIsHeld
=============================================================================
