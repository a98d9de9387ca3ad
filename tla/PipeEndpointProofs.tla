------------------------- MODULE PipeEndpointProofs -------------------------
(***************************************************************************)
(* Who has the pipe name, and where a client's connection is, for any      *)
(* daemons and clients: PipeInv is inductive.  A daemon that serves always *)
(* has its pending instance (HolderHasInstance), so the name is taken, so  *)
(* nobody else can create it; and a connection is on the pending instance  *)
(* until it is handed off, and then no longer.                             *)
(***************************************************************************)
EXTENDS PipeEndpoint, TLAPS

(* The steps of a daemon that leave every instance as it is. *)
Quiet(d) ==
  \/ BeginBind(d) \/ CreateFails(d) \/ ConfirmRunning(d) \/ ExpireBind(d)
  \/ Accept(d) \/ Connected(d) \/ Shutdown(d)

(* The steps that do not, and those of a client. *)
Moving(d) ==
  \/ Create(d) \/ Replace(d) \/ End(d) \/ Vanish(d)
  \/ \E e \in Daemons : Probe(d, e)
  \/ \E p \in Peers : Reap(d, p)

Asking(c) == (\E d \in Daemons : Connect(c, d)) \/ FindBusy(c) \/ ExpireBusy(c) \/ FindNone(c)

(* Every step is one of these. *)
LEMMA StepsOfPipe ==
  ASSUME Next
  PROVE  (\E d \in Daemons : Quiet(d) \/ Moving(d)) \/ (\E c \in Clients : Asking(c))
<1>1. ASSUME NEW d \in Daemons,
             BeginBind(d) \/ BindStep(d) \/ ServeStep(d) \/ Shutdown(d) \/ End(d) \/ Vanish(d)
      PROVE  Quiet(d) \/ Moving(d)
  <2>1. CASE BindStep(d)
    BY <2>1 DEF BindStep, Quiet, Moving
  <2>2. CASE ServeStep(d)
    BY <2>2 DEF ServeStep, Quiet, Moving
  <2>3. CASE BeginBind(d) \/ Shutdown(d) \/ End(d) \/ Vanish(d)
    BY <2>3 DEF Quiet, Moving
  <2> QED
    BY <1>1, <2>1, <2>2, <2>3
<1>2. CASE \E d \in Daemons : BeginBind(d) \/ BindStep(d) \/ ServeStep(d)
                              \/ Shutdown(d) \/ End(d) \/ Vanish(d)
  BY <1>1, <1>2
<1>3. CASE \E c \in Clients : Asking(c)
  BY <1>3
<1> QED
  BY <1>2, <1>3 DEF Next, Asking

LEMMA QuietKeeps ==
  ASSUME PipeInv, NEW d \in Daemons, Quiet(d)
  PROVE  PipeInv'
<1>1. UNCHANGED <<pending, peer, handed, asking>>
  BY DEF Quiet, BeginBind, CreateFails, ConfirmRunning, ExpireBind, Accept, Connected, Shutdown,
         instances
<1>2. TypeOK'
  <2> USE DEF PipeInv, TypeOK, Reach, Binding, Holding, Accepting, Closing
  <2>1. CASE BeginBind(d)
    BY <1>1, <2>1 DEF BeginBind
  <2>2. CASE CreateFails(d) \/ ConfirmRunning(d) \/ ExpireBind(d)
    BY <1>1, <2>2 DEF CreateFails, ConfirmRunning, ExpireBind
  <2>3. CASE Accept(d) \/ Connected(d) \/ Shutdown(d)
    BY <1>1, <2>3 DEF Accept, Connected, Shutdown
  <2> QED
    BY <2>1, <2>2, <2>3 DEF Quiet
<1>3. /\ \A e \in Daemons \ {d} : stage'[e] = stage[e]
      /\ stage'[d] \in Holding <=> stage[d] \in Holding
      /\ stage[d] # "closing"
      /\ stage'[d] = "replacing" => pending[d] = "connected"
  <2> USE DEF PipeInv, TypeOK, Reach, Binding, Holding, Accepting
  <2>1. CASE BeginBind(d)
    BY <2>1 DEF BeginBind
  <2>2. CASE CreateFails(d) \/ ConfirmRunning(d) \/ ExpireBind(d)
    BY <2>2 DEF CreateFails, ConfirmRunning, ExpireBind
  <2>3. CASE Accept(d) \/ Connected(d) \/ Shutdown(d)
    BY <2>3 DEF Accept, Connected, Shutdown
  <2> QED
    BY <2>1, <2>2, <2>3 DEF Quiet
<1>4. HolderHasInstance' /\ InstanceHasDaemon' /\ OneHolder'
  BY <1>1, <1>3 DEF PipeInv, HolderHasInstance, InstanceHasDaemon, OneHolder
<1>5. PeerIsConnected' /\ ConnectedIsHeld'
  BY <1>1 DEF PipeInv, PeerIsConnected, ConnectedIsHeld
<1> QED
  BY <1>2, <1>4, <1>5 DEF PipeInv

-----------------------------------------------------------------------------
(* The steps that change an instance.                                      *)

LEMMA CreateKeeps ==
  ASSUME PipeInv, NEW d \in Daemons, Create(d)
  PROVE  PipeInv'
<1> USE DEF PipeInv, TypeOK, Create, Reach
<1>1. /\ stage[d] \in Binding
      /\ \A e \in Daemons : pending[e] = "none" /\ handed[e] = {}
      /\ \A e \in Daemons : stage[e] \notin Holding /\ peer[e] = Nobody
  BY DEF NameFree, HolderHasInstance, PeerIsConnected
<1>2. TypeOK'
  BY DEF Holding
<1>3. HolderHasInstance' /\ InstanceHasDaemon' /\ OneHolder'
  BY <1>1 DEF HolderHasInstance, InstanceHasDaemon, OneHolder, Holding, Accepting
<1>4. PeerIsConnected' /\ ConnectedIsHeld'
  BY <1>1 DEF PeerIsConnected, ConnectedIsHeld
<1> QED
  BY <1>2, <1>3, <1>4

(* Somebody opens the instance of a daemon that waits. *)
LEMMA OpenKeeps ==
  ASSUME PipeInv, NEW d \in Daemons, NEW p \in Peers, Open(d, p), asking' \in [Clients ->
           {"idle", "busy", "connected", "answered", "cut", "NotRunning", "TimedOut"}],
         \A c \in Clients \ {p} : asking'[c] = asking[c],
         p \in Clients => asking[p] # "connected" /\ asking'[p] = "connected"
  PROVE  /\ pending' \in [Daemons -> {"none", "listening", "connected"}]
         /\ peer' \in [Daemons -> Peers \cup {Nobody}]
         /\ handed' = handed
         /\ \A e \in Daemons : pending[e] # "none" <=> pending'[e] # "none"
         /\ \A e \in Daemons : pending[e] = "connected" => pending'[e] = "connected"
         /\ PeerIsConnected'
         /\ ConnectedIsHeld'
<1> USE PeersAssumption DEF PipeInv, TypeOK, Open, Listeners
<1>1. pending[d] = "listening" /\ peer[d] = Nobody
  BY DEF PeerIsConnected
<1>2. /\ pending' = [pending EXCEPT ![d] = "connected"]
      /\ peer' = [peer EXCEPT ![d] = p]
      /\ handed' = handed
  OBVIOUS
<1>3. PeerIsConnected'
  BY <1>1, <1>2 DEF PeerIsConnected
<1>4. ConnectedIsHeld'
  <2> USE DEF ConnectedIsHeld
  <2>1. ASSUME NEW c \in Clients, c # p
        PROVE  /\ asking'[c] = asking[c]
               /\ \A e \in Daemons : (peer'[e] = c <=> peer[e] = c) /\ handed'[e] = handed[e]
    <3>1. c # Nobody
      BY DEF Peers
    <3> QED
      BY <1>1, <1>2, <2>1, <3>1
  <2>2. ASSUME p \in Clients
        PROVE  /\ asking'[p] = "connected" /\ peer'[d] = p
               /\ \A e \in Daemons : p \notin handed'[e] /\ (e # d => peer'[e] # p)
    BY <1>2, <2>2
  <2> QED
    BY <2>1, <2>2
<1> QED
  BY <1>1, <1>2, <1>3, <1>4

LEMMA ProbeKeeps ==
  ASSUME PipeInv, NEW d \in Daemons, NEW e \in Daemons, Probe(d, e)
  PROVE  PipeInv'
<1>1. /\ stage[d] = "binding" /\ stage' = [stage EXCEPT ![d] = "answered"]
      /\ Open(e, d) /\ asking' = asking /\ d \in Peers /\ d \notin Clients
      /\ earlier' = [earlier EXCEPT ![d] = Closing]
  BY PeersAssumption DEF Probe, Reach, Peers
<1>2. /\ pending' \in [Daemons -> {"none", "listening", "connected"}]
      /\ peer' \in [Daemons -> Peers \cup {Nobody}]
      /\ handed' = handed
      /\ \A f \in Daemons : pending[f] # "none" <=> pending'[f] # "none"
      /\ \A f \in Daemons : pending[f] = "connected" => pending'[f] = "connected"
      /\ PeerIsConnected' /\ ConnectedIsHeld'
  BY <1>1, OpenKeeps DEF PipeInv, TypeOK
<1>3. TypeOK'
  BY <1>1, <1>2 DEF PipeInv, TypeOK, Binding, Closing
<1>4. HolderHasInstance' /\ InstanceHasDaemon' /\ OneHolder'
  BY <1>1, <1>2 DEF PipeInv, TypeOK, HolderHasInstance, InstanceHasDaemon, OneHolder, Holding,
                    Accepting
<1> QED
  BY <1>2, <1>3, <1>4 DEF PipeInv

LEMMA ReplaceKeeps ==
  ASSUME PipeInv, NEW d \in Daemons, Replace(d)
  PROVE  PipeInv'
<1> USE DEF PipeInv, TypeOK
<1>1. /\ stage[d] = "replacing" /\ stage' = [stage EXCEPT ![d] = "bound"]
      /\ pending' = [pending EXCEPT ![d] = "listening"]
      /\ peer' = [peer EXCEPT ![d] = Nobody]
      /\ handed' = [handed EXCEPT ![d] = handed[d] \cup {peer[d]}]
      /\ UNCHANGED <<earlier, asking>>
  BY DEF Replace, Reach
<1>2. pending[d] = "connected" /\ peer[d] # Nobody /\ peer[d] \in Peers
  BY <1>1 DEF HolderHasInstance, PeerIsConnected
<1>3. TypeOK'
  BY <1>1, <1>2 DEF Holding
<1>4. HolderHasInstance' /\ InstanceHasDaemon' /\ OneHolder'
  BY <1>1 DEF HolderHasInstance, InstanceHasDaemon, OneHolder, Holding, Accepting
<1>5. PeerIsConnected'
  BY <1>1 DEF PeerIsConnected
<1>6. ConnectedIsHeld'
  <2> USE PeersAssumption DEF ConnectedIsHeld
  <2>1. ASSUME NEW c \in Clients, NEW e \in Daemons
        PROVE  /\ (peer'[e] = c \/ c \in handed'[e]) <=> (peer[e] = c \/ c \in handed[e])
               /\ peer'[e] = c => peer[e] = c
               /\ c \in handed'[e] => c \in handed[e] \/ (e = d /\ c = peer[d])
    BY <1>1, <1>2 DEF Peers
  <2>2. \A c \in Clients, e \in Daemons :
          c = peer[d] => c \notin handed[e] /\ (peer'[e] # c) /\ (e # d => c \notin handed'[e])
    BY <1>1, <1>2, <2>1 DEF Peers
  <2> QED
    BY <1>1, <2>1, <2>2
<1> QED
  BY <1>3, <1>4, <1>5, <1>6

LEMMA ReapKeeps ==
  ASSUME PipeInv, NEW d \in Daemons, NEW p \in Peers, Reap(d, p)
  PROVE  PipeInv'
<1> USE DEF PipeInv, TypeOK
<1>1. /\ stage[d] \in Accepting \cup {"draining"} /\ p \in handed[d]
      /\ handed' = [handed EXCEPT ![d] = handed[d] \ {p}]
      /\ (stage' = [stage EXCEPT ![d] = "bound"] /\ stage[d] \in Accepting) \/ stage' = stage
      /\ asking' = [c \in Clients |-> IF c \in {p} THEN "answered" ELSE asking[c]]
      /\ UNCHANGED <<pending, peer, earlier>>
  BY DEF Reap, Reach, Tell
<1>2. TypeOK'
  BY <1>1 DEF Holding
<1>3. HolderHasInstance' /\ InstanceHasDaemon' /\ OneHolder'
  BY <1>1 DEF HolderHasInstance, InstanceHasDaemon, OneHolder, Holding, Accepting
<1>4. PeerIsConnected'
  BY <1>1 DEF PeerIsConnected
<1>5. ConnectedIsHeld'
  <2> USE DEF ConnectedIsHeld
  <2>1. ASSUME NEW c \in Clients, c # p
        PROVE  /\ asking'[c] = asking[c]
               /\ \A e \in Daemons : (c \in handed'[e] <=> c \in handed[e]) /\ peer'[e] = peer[e]
    BY <1>1, <2>1
  <2>2. ASSUME p \in Clients
        PROVE  /\ asking'[p] # "connected"
               /\ \A e \in Daemons : peer'[e] # p /\ p \notin handed'[e]
    BY <1>1, <2>2
  <2> QED
    BY <2>1, <2>2
<1> QED
  BY <1>2, <1>3, <1>4, <1>5

LEMMA EndKeeps ==
  ASSUME PipeInv, NEW d \in Daemons, End(d)
  PROVE  PipeInv'
<1> USE DEF PipeInv, TypeOK
<1>1. /\ stage[d] \in Holding /\ stage' = [stage EXCEPT ![d] = "closing"]
      /\ handed' = [handed EXCEPT ![d] = {}]
      /\ asking' = [c \in Clients |-> IF c \in handed[d] THEN "cut" ELSE asking[c]]
      /\ UNCHANGED <<pending, peer, earlier>>
  BY DEF End, Reach, Tell
<1>2. TypeOK'
  BY <1>1
<1>3. HolderHasInstance' /\ InstanceHasDaemon' /\ OneHolder'
  BY <1>1 DEF HolderHasInstance, InstanceHasDaemon, OneHolder, Holding, Accepting
<1>4. PeerIsConnected'
  BY <1>1 DEF PeerIsConnected
<1>5. ConnectedIsHeld'
  <2> USE DEF ConnectedIsHeld
  <2>1. ASSUME NEW c \in Clients, c \notin handed[d]
        PROVE  /\ asking'[c] = asking[c]
               /\ \A e \in Daemons : (c \in handed'[e] <=> c \in handed[e]) /\ peer'[e] = peer[e]
    BY <1>1, <2>1
  <2>2. ASSUME NEW c \in Clients, c \in handed[d]
        PROVE  /\ asking'[c] # "connected"
               /\ \A e \in Daemons : peer'[e] # c /\ c \notin handed'[e]
    BY <1>1, <2>2
  <2> QED
    BY <2>1, <2>2
<1> QED
  BY <1>2, <1>3, <1>4, <1>5

LEMMA VanishKeeps ==
  ASSUME PipeInv, NEW d \in Daemons, Vanish(d)
  PROVE  PipeInv'
<1> USE DEF PipeInv, TypeOK
<1>1. /\ stage[d] = "closing" /\ stage' = [stage EXCEPT ![d] = "gone"]
      /\ pending' = [pending EXCEPT ![d] = "none"]
      /\ peer' = [peer EXCEPT ![d] = Nobody]
      /\ asking' = [c \in Clients |-> IF c \in {peer[d]} THEN "cut" ELSE asking[c]]
      /\ UNCHANGED <<handed, earlier>>
  BY DEF Vanish, Reach, Tell
<1>2. TypeOK'
  BY <1>1
<1>3. HolderHasInstance' /\ InstanceHasDaemon' /\ OneHolder'
  BY <1>1 DEF HolderHasInstance, InstanceHasDaemon, OneHolder, Holding, Accepting
<1>4. PeerIsConnected'
  BY <1>1 DEF PeerIsConnected
<1>5. ConnectedIsHeld'
  <2> USE PeersAssumption DEF ConnectedIsHeld, Peers
  <2>1. ASSUME NEW c \in Clients, c # peer[d]
        PROVE  /\ asking'[c] = asking[c]
               /\ \A e \in Daemons : (peer'[e] = c <=> peer[e] = c) /\ handed'[e] = handed[e]
    BY <1>1, <2>1
  <2>2. ASSUME NEW c \in Clients, c = peer[d]
        PROVE  /\ asking'[c] # "connected"
               /\ \A e \in Daemons : peer'[e] # c /\ c \notin handed'[e]
    BY <1>1, <2>2
  <2> QED
    BY <2>1, <2>2
<1> QED
  BY <1>2, <1>3, <1>4, <1>5

LEMMA ClientKeeps ==
  ASSUME PipeInv, NEW c \in Clients, Asking(c)
  PROVE  PipeInv'
<1>1. ASSUME NEW d \in Daemons, Connect(c, d)
      PROVE  PipeInv'
  <2>1. /\ asking[c] \in {"idle", "busy"} /\ asking' = [asking EXCEPT ![c] = "connected"]
        /\ Open(d, c) /\ UNCHANGED <<stage, earlier>> /\ c \in Peers
    BY <1>1 DEF Connect, Peers
  <2>2. /\ pending' \in [Daemons -> {"none", "listening", "connected"}]
        /\ peer' \in [Daemons -> Peers \cup {Nobody}]
        /\ handed' = handed
        /\ \A f \in Daemons : pending[f] # "none" <=> pending'[f] # "none"
        /\ \A f \in Daemons : pending[f] = "connected" => pending'[f] = "connected"
        /\ PeerIsConnected' /\ ConnectedIsHeld'
    <3>1. asking' \in [Clients -> {"idle", "busy", "connected", "answered", "cut",
                                   "NotRunning", "TimedOut"}]
      BY <2>1 DEF PipeInv, TypeOK
    <3>2. asking[c] # "connected" /\ asking'[c] = "connected"
          /\ \A b \in Clients \ {c} : asking'[b] = asking[b]
      BY <2>1 DEF PipeInv, TypeOK
    <3> QED
      BY <2>1, <3>1, <3>2, OpenKeeps
  <2> QED
    BY <2>1, <2>2 DEF PipeInv, TypeOK, HolderHasInstance, InstanceHasDaemon, OneHolder
<1>2. CASE FindBusy(c) \/ ExpireBusy(c) \/ FindNone(c)
  BY <1>2 DEF FindBusy, ExpireBusy, FindNone, instances, PipeInv, TypeOK, HolderHasInstance,
              InstanceHasDaemon, PeerIsConnected, OneHolder, ConnectedIsHeld
<1> QED
  BY <1>1, <1>2 DEF Asking

-----------------------------------------------------------------------------
(* The theorems.                                                           *)

LEMMA InitPipe == Init => PipeInv
  BY PeersAssumption
     DEF Init, PipeInv, TypeOK, HolderHasInstance, InstanceHasDaemon, PeerIsConnected,
         OneHolder, ConnectedIsHeld, Binding, Holding, Accepting, Peers

LEMMA PipeStep == PipeInv /\ [Next]_vars => PipeInv'
<1> SUFFICES ASSUME PipeInv, [Next]_vars
             PROVE  PipeInv'
  OBVIOUS
<1>1. CASE UNCHANGED vars
  BY <1>1 DEF vars, PipeInv, TypeOK, HolderHasInstance, InstanceHasDaemon, PeerIsConnected,
              OneHolder, ConnectedIsHeld
<1>2. CASE Next
  BY <1>2, StepsOfPipe, QuietKeeps, CreateKeeps, ProbeKeeps, ReplaceKeeps, ReapKeeps, EndKeeps,
     VanishKeeps, ClientKeeps DEF Moving
<1> QED
  BY <1>1, <1>2

(* What daemons, clients and the system do, in any order, keeps the        *)
(* invariant.                                                              *)
THEOREM PipeInvariant == Spec => []PipeInv
  BY InitPipe, PipeStep, PTL DEF Spec

(* The name has at most one daemon, through starts that race and instances *)
(* that linger (create_instance, first_pipe_instance).                     *)
THEOREM NameHasOneHolder == Spec => []OneHolder
<1>1. PipeInv => OneHolder
  BY DEF PipeInv
<1> QED
  BY <1>1, PipeInvariant, PTL

(* No connection is lost between the pending instance and those handed off *)
(* (Endpoint::accept).                                                     *)
THEOREM ConnectionsAreKept == Spec => []ConnectedIsHeld
<1>1. PipeInv => ConnectedIsHeld
  BY DEF PipeInv
<1> QED
  BY <1>1, PipeInvariant, PTL

(* While a daemon serves or drains, no client is told that none is running *)
(* (connect, ERROR_FILE_NOT_FOUND).                                        *)
THEOREM ServingIsAlwaysFound == Spec => ServingIsFound
<1>1. ASSUME PipeInv, [Next]_vars, NEW c \in Clients,
             asking[c] # "NotRunning", asking'[c] = "NotRunning"
      PROVE  \A d \in Daemons : stage[d] \notin Holding
  <2>1. NameFree
    <3> USE <1>1 DEF PipeInv, TypeOK
    <3>1. CASE UNCHANGED vars
      BY <3>1 DEF vars
    <3>2. CASE \E d \in Daemons : Quiet(d)
      BY <3>2 DEF Quiet, BeginBind, CreateFails, ConfirmRunning, ExpireBind, Accept, Connected,
                  Shutdown
    <3>3. CASE \E d \in Daemons : Moving(d)
      BY <3>3 DEF Moving, Create, Probe, Replace, Reap, End, Vanish, Tell
    <3>4. CASE \E b \in Clients : Asking(b)
      BY <3>4 DEF Asking, Connect, FindBusy, ExpireBusy, FindNone
    <3> QED
      BY <3>1, <3>2, <3>3, <3>4, StepsOfPipe
  <2> QED
    BY <1>1, <2>1 DEF NameFree, PipeInv, HolderHasInstance
<1>2. PipeInv /\ [Next]_vars =>
        [\A c \in Clients :
           asking[c] # "NotRunning" /\ asking'[c] = "NotRunning"
             => \A d \in Daemons : stage[d] \notin Holding]_vars
  BY <1>1
<1> QED
  BY <1>2, PipeInvariant, PTL DEF Spec, ServingIsFound

-----------------------------------------------------------------------------
(* The refinement: each step is one that LocalEndpoint allows, or changes  *)
(* nothing that it speaks of.                                              *)

Allowed == Promise!Next \/ UNCHANGED Promise!vars

LEMMA QuietIsAllowed ==
  ASSUME PipeInv, NEW d \in Daemons, Quiet(d)
  PROVE  Allowed
<1> USE DEF PipeInv, TypeOK
<1>1. UNCHANGED <<pending, peer, handed, asking>>
  BY DEF Quiet, BeginBind, CreateFails, ConfirmRunning, ExpireBind, Accept, Connected, Shutdown,
         instances
<1>2. UNCHANGED <<held, client>>
  BY <1>1 DEF held, client
<1>3. CASE BeginBind(d) \/ Accept(d) \/ Connected(d) \/ Shutdown(d)
  <2>1. UNCHANGED owner
    BY <1>3 DEF BeginBind, Accept, Connected, Shutdown, Reach, owner, OwnerOf, Binding, Holding,
                Accepting
  <2> QED
    BY <1>2, <2>1 DEF Allowed, Promise!vars
<1>4. CASE CreateFails(d) \/ ExpireBind(d)
  <2>1. owner[d] = "out" /\ owner' = [owner EXCEPT ![d] = "failed"]
    BY <1>4 DEF CreateFails, ExpireBind, Reach, owner, OwnerOf, Binding, Holding, Accepting
  <2>2. Promise!Fail(d)
    BY <1>2, <2>1 DEF Promise!Fail, Promise!Become
  <2> QED
    BY <2>2 DEF Allowed, Promise!Next
<1>5. CASE ConfirmRunning(d)
  <2>1. owner[d] = "out" /\ owner' = [owner EXCEPT ![d] = "AlreadyRunning"]
    BY <1>5 DEF ConfirmRunning, Reach, owner, OwnerOf, Binding, Holding, Accepting
  <2>2. PICK e \in Daemons : stage[e] \in Holding \cup {"closing"}
    BY <1>5 DEF ConfirmRunning, NameFree, InstanceHasDaemon
  <2>3. e # d /\ owner[e] \in {"owner", "leaving"}
    BY <1>5, <2>2 DEF ConfirmRunning, owner, OwnerOf, Binding, Holding, Accepting
  <2>4. Promise!Refuse(d)
    BY <1>2, <2>1, <2>3 DEF Promise!Refuse, Promise!Become, Promise!Answering
  <2> QED
    BY <2>4 DEF Allowed, Promise!Next
<1> QED
  BY <1>3, <1>4, <1>5 DEF Quiet

LEMMA CreateIsAllowed ==
  ASSUME PipeInv, NEW d \in Daemons, Create(d)
  PROVE  Allowed
<1> USE DEF PipeInv, TypeOK
<1>1. owner[d] = "out" /\ owner' = [owner EXCEPT ![d] = "owner"]
  BY DEF Create, Reach, owner, OwnerOf, Binding, Holding, Accepting
<1>2. UNCHANGED <<held, client>>
  BY DEF Create, held, client
<1>3. \A e \in Daemons : owner[e] # "owner"
  BY DEF Create, NameFree, HolderHasInstance, owner, OwnerOf
<1>4. Promise!Take(d)
  BY <1>1, <1>2, <1>3 DEF Promise!Take, Promise!Become, Promise!Unowned
<1> QED
  BY <1>4 DEF Allowed, Promise!Next

(* A probe is nobody's connection, and handing one off does not lose it. *)
LEMMA ProbeIsAllowed ==
  ASSUME PipeInv, NEW d \in Daemons, NEW e \in Daemons, Probe(d, e) \/ Replace(d)
  PROVE  Allowed
<1> USE PeersAssumption DEF PipeInv, TypeOK, Peers
<1>1. UNCHANGED owner /\ UNCHANGED client
  BY DEF Probe, Replace, Reach, owner, OwnerOf, client, Binding, Holding, Accepting
<1>2. CASE Probe(d, e)
  <2>1. /\ peer[e] = Nobody /\ peer' = [peer EXCEPT ![e] = d] /\ handed' = handed
    BY <1>2 DEF Probe, Open, Listeners, PeerIsConnected
  <2>2. \A f \in Daemons, c \in Clients : peer'[f] = c <=> peer[f] = c
    BY <2>1
  <2>3. UNCHANGED held
    BY <2>1, <2>2 DEF held
  <2> QED
    BY <1>1, <2>3 DEF Allowed, Promise!vars
<1>3. CASE Replace(d)
  <2>1. /\ peer' = [peer EXCEPT ![d] = Nobody]
        /\ handed' = [handed EXCEPT ![d] = handed[d] \cup {peer[d]}]
    BY <1>3 DEF Replace
  <2>2. \A f \in Daemons, c \in Clients :
          (peer'[f] = c \/ c \in handed'[f]) <=> (peer[f] = c \/ c \in handed[f])
    BY <2>1
  <2>3. UNCHANGED held
    BY <2>2 DEF held
  <2> QED
    BY <1>1, <2>3 DEF Allowed, Promise!vars
<1> QED
  BY <1>2, <1>3

LEMMA ReapIsAllowed ==
  ASSUME PipeInv, NEW d \in Daemons, NEW p \in Peers, Reap(d, p)
  PROVE  Allowed
<1> USE PeersAssumption DEF PipeInv, TypeOK, Peers
<1>1. /\ stage[d] \in Accepting \cup {"draining"} /\ p \in handed[d]
      /\ handed' = [handed EXCEPT ![d] = handed[d] \ {p}]
      /\ asking' = [c \in Clients |-> IF c \in {p} THEN "answered" ELSE asking[c]]
      /\ UNCHANGED <<pending, peer, earlier>>
  BY DEF Reap, Reach, Tell
<1>2. UNCHANGED owner /\ owner[d] = "owner"
  BY DEF Reap, Reach, owner, OwnerOf, Binding, Holding, Accepting
<1>3. CASE p \in Clients
  <2>1. \A e \in Daemons : peer[e] # p
    BY <1>1, <1>3 DEF ConnectedIsHeld
  <2>2. p \in held[d] /\ held' = [held EXCEPT ![d] = held[d] \ {p}]
    <3>1. p \in held[d]
      BY <1>1, <1>3 DEF held
    <3>2. \A e \in Daemons \ {d} : held'[e] = held[e]
      BY <1>1 DEF held
    <3>3. held'[d] = held[d] \ {p}
      BY <1>1, <2>1 DEF held
    <3> QED
      BY <3>1, <3>2, <3>3 DEF held
  <2>3. client' = [client EXCEPT ![p] = "answered"]
    BY <1>1, <1>3 DEF client
  <2>4. Promise!Answer(p, d)
    BY <1>2, <2>2, <2>3 DEF Promise!Answer
  <2> QED
    BY <1>3, <2>4 DEF Allowed, Promise!Next
<1>4. CASE p \notin Clients
  <2>1. UNCHANGED <<held, client>>
    BY <1>1, <1>4 DEF held, client
  <2> QED
    BY <1>2, <2>1 DEF Allowed, Promise!vars
<1> QED
  BY <1>3, <1>4

LEMMA EndIsAllowed ==
  ASSUME PipeInv, NEW d \in Daemons, End(d)
  PROVE  Allowed
<1> USE DEF PipeInv, TypeOK
<1> DEFINE cs == handed[d] \cap Clients
<1>1. owner[d] = "owner" /\ owner' = [owner EXCEPT ![d] = "leaving"]
  BY DEF End, Reach, owner, OwnerOf, Binding, Holding, Accepting
<1>2. /\ handed' = [handed EXCEPT ![d] = {}] /\ peer' = peer
      /\ asking' = [c \in Clients |-> IF c \in handed[d] THEN "cut" ELSE asking[c]]
  BY DEF End, Tell
<1>3. \A c \in cs : peer[d] # c
  BY DEF ConnectedIsHeld
<1>4. cs \subseteq held[d] /\ held' = [held EXCEPT ![d] = held[d] \ cs]
  <2>1. cs \subseteq held[d]
    BY DEF held
  <2>2. \A e \in Daemons \ {d} : held'[e] = held[e]
    BY <1>2 DEF held
  <2>3. held'[d] = held[d] \ cs
    BY <1>2, <1>3 DEF held
  <2> QED
    BY <2>1, <2>2, <2>3 DEF held
<1>5. client' = [c \in Clients |-> IF c \in cs THEN "cut" ELSE client[c]]
  BY <1>2 DEF client
<1>6. Promise!Leave(d, cs) /\ cs \in SUBSET held[d]
  BY <1>1, <1>4, <1>5 DEF Promise!Leave, Promise!Become, Promise!Cut
<1> QED
  BY <1>6 DEF Allowed, Promise!Next

LEMMA VanishIsAllowed ==
  ASSUME PipeInv, NEW d \in Daemons, Vanish(d)
  PROVE  Allowed
<1> USE PeersAssumption DEF PipeInv, TypeOK, Peers
<1>1. owner[d] = "leaving" /\ owner' = [owner EXCEPT ![d] = "gone"]
  BY DEF Vanish, Reach, owner, OwnerOf, Binding, Holding, Accepting
<1>2. /\ handed[d] = {} /\ handed' = handed /\ peer' = [peer EXCEPT ![d] = Nobody]
      /\ asking' = [c \in Clients |-> IF c \in {peer[d]} THEN "cut" ELSE asking[c]]
  BY DEF Vanish, Tell, InstanceHasDaemon, Holding, Accepting
<1>3. held[d] = {c \in Clients : peer[d] = c}
  BY <1>2 DEF held
<1>4. held' = [held EXCEPT ![d] = held[d] \ held[d]]
  <2>1. \A e \in Daemons \ {d} : held'[e] = held[e]
    BY <1>2 DEF held
  <2>2. held'[d] = {}
    BY <1>2 DEF held
  <2> QED
    <3>1. held[d] \ held[d] = {}
      OBVIOUS
    <3>2. /\ held = [e \in Daemons |-> held[e]]
          /\ held' = [e \in Daemons |-> held'[e]]
      BY DEF held
    <3> QED
      BY <2>1, <2>2, <3>1, <3>2
<1>5. client' = [c \in Clients |-> IF c \in held[d] THEN "cut" ELSE client[c]]
  BY <1>2, <1>3 DEF client
<1>6. Promise!Vanish(d)
  BY <1>1, <1>4, <1>5 DEF Promise!Vanish, Promise!Become, Promise!Cut, Promise!Answering
<1> QED
  BY <1>6 DEF Allowed, Promise!Next

LEMMA AskingIsAllowed ==
  ASSUME PipeInv, NEW c \in Clients, Asking(c)
  PROVE  Allowed
<1> USE PeersAssumption DEF PipeInv, TypeOK, Peers
<1>1. ASSUME NEW d \in Daemons, Connect(c, d)
      PROVE  Allowed
  <2>1. UNCHANGED owner /\ owner[d] \in {"owner", "leaving"}
    BY <1>1 DEF Connect, Open, Listeners, InstanceHasDaemon, owner, OwnerOf, Binding, Holding,
                Accepting
  <2>2. peer[d] = Nobody /\ peer' = [peer EXCEPT ![d] = c] /\ handed' = handed
    BY <1>1 DEF Connect, Open, Listeners, PeerIsConnected
  <2>3. held' = [held EXCEPT ![d] = held[d] \cup {c}]
    <3>1. \A e \in Daemons \ {d} : held'[e] = held[e]
      BY <2>2 DEF held
    <3>2. held'[d] = held[d] \cup {c}
      BY <2>2 DEF held
    <3> QED
      BY <3>1, <3>2 DEF held
  <2>4. client[c] = "asking" /\ client' = [client EXCEPT ![c] = "connected"]
    BY <1>1 DEF Connect, client
  <2>5. Promise!Connect(c, d)
    BY <2>1, <2>3, <2>4 DEF Promise!Connect, Promise!Answering
  <2> QED
    BY <2>5 DEF Allowed, Promise!Next
<1>2. CASE FindBusy(c)
  <2>1. UNCHANGED <<owner, held, client>>
    BY <1>2 DEF FindBusy, instances, owner, OwnerOf, held, client
  <2> QED
    BY <2>1 DEF Allowed, Promise!vars
<1>3. CASE ExpireBusy(c)
  <2>1. UNCHANGED <<owner, held>>
    BY <1>3 DEF ExpireBusy, instances, owner, OwnerOf, held
  <2>2. client[c] = "asking" /\ client' = [client EXCEPT ![c] = "TimedOut"]
    BY <1>3 DEF ExpireBusy, client
  <2>3. \E d \in Daemons : stage[d] \in Holding \cup {"closing"}
    BY <1>3 DEF ExpireBusy, NameFree, InstanceHasDaemon
  <2>4. \E d \in Daemons : owner[d] \in {"owner", "leaving"}
    BY <2>3 DEF owner, OwnerOf, Binding, Holding, Accepting
  <2>5. Promise!GiveUp(c)
    BY <2>1, <2>2, <2>4 DEF Promise!GiveUp, Promise!Answering
  <2> QED
    BY <2>5 DEF Allowed, Promise!Next
<1>4. CASE FindNone(c)
  <2>1. UNCHANGED <<owner, held>>
    BY <1>4 DEF FindNone, instances, owner, OwnerOf, held
  <2>2. client[c] = "asking" /\ client' = [client EXCEPT ![c] = "NotRunning"]
    BY <1>4 DEF FindNone, client
  <2>3. \A d \in Daemons : owner[d] # "owner"
    BY <1>4 DEF FindNone, NameFree, HolderHasInstance, owner, OwnerOf
  <2>4. Promise!FindNone(c)
    BY <2>1, <2>2, <2>3 DEF Promise!FindNone, Promise!Unowned
  <2> QED
    BY <2>4 DEF Allowed, Promise!Next
<1> QED
  BY <1>1, <1>2, <1>3, <1>4 DEF Asking

(* The pipe keeps what LocalEndpoint promises of an endpoint (transport).  *)
THEOREM PipeImplementsEndpoint == Spec => PromiseKept
<1>1. Init => Promise!Init
  <2> SUFFICES ASSUME Init
               PROVE  Promise!Init
    OBVIOUS
  <2>1. owner = [d \in Daemons |-> "out"]
    <3>1. \A d \in Daemons : OwnerOf(d) = "out"
      BY DEF Init, OwnerOf, Binding, Holding, Accepting
    <3> QED
      BY <3>1 DEF owner
  <2>2. held = [d \in Daemons |-> {}]
    BY PeersAssumption DEF Init, held, Peers
  <2>3. client = [c \in Clients |-> "asking"]
    BY DEF Init, client
  <2> QED
    BY <2>1, <2>2, <2>3 DEF Promise!Init
<1>2. PipeInv /\ [Next]_vars => [Promise!Next]_(Promise!vars)
  <2> SUFFICES ASSUME PipeInv, [Next]_vars
               PROVE  Allowed
    BY DEF Allowed
  <2>1. CASE UNCHANGED vars
    BY <2>1 DEF vars, Allowed, Promise!vars, owner, OwnerOf, held, client
  <2>2. CASE Next
    BY <2>2, StepsOfPipe, QuietIsAllowed, CreateIsAllowed, ProbeIsAllowed, ReapIsAllowed,
       EndIsAllowed, VanishIsAllowed, AskingIsAllowed DEF Moving
  <2> QED
    BY <2>1, <2>2
<1> QED
  BY <1>1, <1>2, PipeInvariant, PTL DEF Spec, PromiseKept, Promise!Spec
=============================================================================
