------------------------ MODULE DaemonEndpointProofs ------------------------
(***************************************************************************)
(* For any daemons and clients: while daemons start one at a time, the one *)
(* that serves is at the path, nothing that is left over blocks a start,   *)
(* and the endpoint is what LocalEndpoint says.  What makes it so is that  *)
(* what a start has learnt of the path is still so when it acts on it.     *)
(***************************************************************************)
EXTENDS DaemonEndpoint, TLAPS

(* The steps of one daemon. *)
DaemonStep(d) ==
  \/ Start(d) \/ RefuseDirectory(d) \/ StartStep(d)
  \/ Accept(d) \/ AcceptFails(d) \/ Shutdown(d) \/ StopStep(d)
  \/ Crash(d)

LEMMA StepType ==
  ASSUME TypeOK, NEW d \in Daemons, DaemonStep(d)
  PROVE  TypeOK'
<1> USE DEF TypeOK, Starting, Listening, Over, Reach, Fail, Cut, OfDaemon, clients
<1>1. CASE Start(d) \/ RefuseDirectory(d)
  BY <1>1 DEF Start, RefuseDirectory
<1>2. CASE Accept(d) \/ AcceptFails(d)
  BY <1>2 DEF Accept, AcceptFails
<1>3. CASE Shutdown(d) \/ Crash(d)
  BY <1>3 DEF Shutdown, Crash
<1>4. CASE StartStep(d)
  <2>1. CASE ProbeAnswered(d) \/ ProbeAbsent(d) \/ ProbeRefused(d)
    BY <2>1 DEF ProbeAnswered, ProbeAbsent, ProbeRefused
  <2>2. CASE Judge(d) \/ Remove(d) \/ Bind(d)
    BY <2>2 DEF Judge, Remove, Bind
  <2>3. CASE BindInUse(d) \/ Listen(d)
    BY <2>3 DEF BindInUse, Listen
  <2> QED
    BY <1>4, <2>1, <2>2, <2>3 DEF StartStep
<1>5. CASE StopStep(d)
  <2>1. CASE DrainSettles(d) \/ DrainExpires(d)
    BY <2>1 DEF DrainSettles, DrainExpires
  <2>2. CASE Unlink(d) \/ Close(d)
    BY <2>2 DEF Unlink, Close
  <2> QED
    BY <1>5, <2>1, <2>2 DEF StopStep
<1> QED
  BY <1>1, <1>2, <1>3, <1>4, <1>5 DEF DaemonStep

(* A daemon that is not starting starts, or keeps out of the start. *)
LEMMA StepTouchesOne ==
  ASSUME TypeOK, NEW d \in Daemons, DaemonStep(d)
  PROVE  /\ \A e \in Daemons \ {d} : stage'[e] = stage[e]
         /\ apart' => apart
         /\ stage[d] \in {"off"} \cup Starting \cup Listening
<1> USE DEF TypeOK, Starting, Listening, Reach, Fail, clients
<1>1. CASE Start(d) \/ RefuseDirectory(d) \/ Accept(d) \/ AcceptFails(d) \/ Shutdown(d) \/ Crash(d)
  BY <1>1 DEF Start, RefuseDirectory, Accept, AcceptFails, Shutdown, Crash
<1>2. CASE StartStep(d)
  BY <1>2 DEF StartStep, ProbeAnswered, ProbeAbsent, ProbeRefused, Judge, Remove, Bind,
              BindInUse, Listen
<1>3. CASE StopStep(d)
  BY <1>3 DEF StopStep, DrainSettles, DrainExpires, Unlink, Close
<1> QED
  BY <1>1, <1>2, <1>3 DEF DaemonStep

LEMMA StepSocket ==
  ASSUME TypeOK, SocketIsOfTheBound, NEW d \in Daemons, DaemonStep(d)
  PROVE  SocketIsOfTheBound'
<1> USE OccupantsAssumption DEF TypeOK, SocketIsOfTheBound, Reach, Fail, clients
<1>1. CASE Start(d) \/ RefuseDirectory(d) \/ Accept(d) \/ AcceptFails(d) \/ Shutdown(d)
  BY <1>1 DEF Start, RefuseDirectory, Accept, AcceptFails, Shutdown
<1>2. CASE StartStep(d)
  <2>1. CASE ProbeAnswered(d) \/ ProbeAbsent(d) \/ ProbeRefused(d) \/ Judge(d) \/ BindInUse(d)
    BY <2>1 DEF ProbeAnswered, ProbeAbsent, ProbeRefused, Judge, BindInUse
  <2>2. CASE Remove(d) \/ Bind(d) \/ Listen(d)
    BY <2>2 DEF Remove, Bind, Listen
  <2> QED
    BY <1>2, <2>1, <2>2 DEF StartStep
<1>3. CASE StopStep(d)
  BY <1>3 DEF StopStep, DrainSettles, DrainExpires, Unlink, Close
<1>4. CASE Crash(d)
  BY <1>4 DEF Crash
<1> QED
  BY <1>1, <1>2, <1>3, <1>4 DEF DaemonStep

(* Whoever stops lets go of what it has accepted, and whoever is gone of   *)
(* what it has not.                                                        *)
LEMMA StepConnections ==
  ASSUME TypeOK, ConnectionHasDaemon, NEW d \in Daemons, DaemonStep(d)
  PROVE  ConnectionHasDaemon'
<1>1. /\ peer' = peer
      /\ \A e \in Daemons \ {d} : stage'[e] = stage[e]
  <2>1. CASE StartStep(d)
    BY <2>1, StepTouchesOne
       DEF StartStep, ProbeAnswered, ProbeAbsent, ProbeRefused, Judge, Remove, Bind, BindInUse,
           Listen, clients
  <2>2. CASE StopStep(d)
    BY <2>2, StepTouchesOne DEF StopStep, DrainSettles, DrainExpires, Unlink, Close, clients
  <2> QED
    BY <2>1, <2>2, StepTouchesOne
       DEF DaemonStep, Start, RefuseDirectory, Accept, AcceptFails, Shutdown, Crash, clients
<1> USE <1>1 DEF TypeOK, ConnectionHasDaemon, Reach, Fail, Cut, OfDaemon, Listening, clients
<1>2. CASE Start(d) \/ RefuseDirectory(d)
  BY <1>2 DEF Start, RefuseDirectory
<1>3. CASE StartStep(d)
  <2>1. CASE ProbeAnswered(d) \/ ProbeAbsent(d) \/ ProbeRefused(d)
    BY <2>1 DEF ProbeAnswered, ProbeAbsent, ProbeRefused
  <2>2. CASE Judge(d) \/ Remove(d)
    BY <2>2 DEF Judge, Remove
  <2>3. CASE Bind(d) \/ BindInUse(d) \/ Listen(d)
    BY <2>3 DEF Bind, BindInUse, Listen
  <2> QED
    BY <1>3, <2>1, <2>2, <2>3 DEF StartStep
<1>4. CASE Accept(d)
  BY <1>4 DEF Accept
<1>5. CASE AcceptFails(d)
  BY <1>5 DEF AcceptFails
<1>6. CASE Shutdown(d)
  BY <1>6 DEF Shutdown
<1>7. CASE StopStep(d)
  <2>1. CASE DrainSettles(d)
    BY <2>1 DEF DrainSettles
  <2>2. CASE DrainExpires(d)
    BY <2>2 DEF DrainExpires
  <2>3. CASE Unlink(d)
    BY <2>3 DEF Unlink
  <2>4. CASE Close(d)
    BY <2>4 DEF Close
  <2> QED
    BY <1>7, <2>1, <2>2, <2>3, <2>4 DEF StopStep
<1>8. CASE Crash(d)
  BY <1>8 DEF Crash
<1> QED
  BY <1>2, <1>3, <1>4, <1>5, <1>6, <1>7, <1>8 DEF DaemonStep

(* Only a start that overlaps no other leaves them apart. *)
LEMMA StepApart ==
  ASSUME EndpointInv, NEW d \in Daemons, DaemonStep(d), apart'
  PROVE  OneStarts'
<1>1. apart /\ OneStarts /\ \A e \in Daemons \ {d} : stage'[e] = stage[e]
  BY StepTouchesOne DEF EndpointInv
<1>2. \/ stage[d] \in Starting
      \/ stage'[d] \notin Starting
      \/ \A e \in Daemons : stage[e] \notin Starting
  <2> USE DEF EndpointInv, TypeOK, Starting, Reach, Fail
  <2>1. CASE Start(d) \/ RefuseDirectory(d) \/ Accept(d) \/ AcceptFails(d) \/ Shutdown(d)
             \/ Crash(d)
    BY <2>1 DEF Start, RefuseDirectory, Accept, AcceptFails, Shutdown, Crash
  <2>2. CASE StartStep(d)
    BY <2>2 DEF StartStep, ProbeAnswered, ProbeAbsent, ProbeRefused, Judge, Remove, Bind,
                BindInUse, Listen
  <2>3. CASE StopStep(d)
    BY <2>3 DEF StopStep, DrainSettles, DrainExpires, Unlink, Close
  <2> QED
    BY <2>1, <2>2, <2>3 DEF DaemonStep
<1> QED
  BY <1>1, <1>2 DEF OneStarts

(* What the starting daemon has seen stays so, and who serves stays where  *)
(* it is.                                                                  *)
LEMMA StepKnows ==
  ASSUME EndpointInv, NEW d \in Daemons, DaemonStep(d), apart'
  PROVE  /\ \A e \in Daemons : StartKnows(e)'
         /\ ServedAtThePath'
<1>1. apart /\ OneStarts /\ (\A e \in Daemons : StartKnows(e)) /\ ServedAtThePath
  BY StepTouchesOne DEF EndpointInv
<1>2. /\ \A e \in Daemons \ {d} : stage'[e] = stage[e]
      /\ SocketIsOfTheBound /\ SocketIsOfTheBound' /\ TypeOK /\ TypeOK'
  BY StepTouchesOne, StepSocket, StepType DEF EndpointInv
<1> USE OccupantsAssumption, <1>1, <1>2
    DEF TypeOK, SocketIsOfTheBound, OneStarts, StartKnows, ServedAtThePath, Answers,
        Starting, Listening, Reach, Fail, clients
<1>3. CASE Start(d)
  BY <1>3 DEF Start
<1>4. CASE RefuseDirectory(d) \/ Accept(d)
  BY <1>4 DEF RefuseDirectory, Accept
<1>5. CASE AcceptFails(d) \/ Shutdown(d)
  BY <1>5 DEF AcceptFails, Shutdown
<1>6. CASE StartStep(d)
  <2>1. CASE ProbeAnswered(d) \/ ProbeAbsent(d) \/ ProbeRefused(d)
    BY <2>1 DEF ProbeAnswered, ProbeAbsent, ProbeRefused
  <2>2. CASE Judge(d) \/ BindInUse(d)
    BY <2>2 DEF Judge, BindInUse
  <2>3. CASE Remove(d)
    BY <2>3 DEF Remove
  <2>4. CASE Bind(d)
    BY <2>4 DEF Bind
  <2>5. CASE Listen(d)
    BY <2>5 DEF Listen
  <2> QED
    BY <1>6, <2>1, <2>2, <2>3, <2>4, <2>5 DEF StartStep
<1>7. CASE StopStep(d)
  <2>1. CASE DrainSettles(d) \/ DrainExpires(d)
    BY <2>1 DEF DrainSettles, DrainExpires
  <2>2. CASE Unlink(d)
    BY <2>2 DEF Unlink
  <2>3. CASE Close(d)
    BY <2>3 DEF Close
  <2> QED
    BY <1>7, <2>1, <2>2, <2>3 DEF StopStep
<1>8. CASE Crash(d)
  BY <1>8 DEF Crash
<1> QED
  BY <1>3, <1>4, <1>5, <1>6, <1>7, <1>8 DEF DaemonStep

(* What daemons and clients do keeps the invariant: who serves is at the   *)
(* path, as long as daemons have started one at a time.                    *)
THEOREM EndpointInvariant == Spec => []EndpointInv
<1>1. Init => EndpointInv
  BY OccupantsAssumption
     DEF Init, EndpointInv, TypeOK, SocketIsOfTheBound, ConnectionHasDaemon, OneStarts,
         StartKnows, ServedAtThePath, Starting, Listening
<1>2. EndpointInv /\ [Next]_vars => EndpointInv'
  <2> SUFFICES ASSUME EndpointInv, [Next]_vars
               PROVE  EndpointInv'
    OBVIOUS
  <2>1. CASE UNCHANGED vars
    BY <2>1 DEF vars, clients, EndpointInv, TypeOK, SocketIsOfTheBound, ConnectionHasDaemon,
                OneStarts, StartKnows, ServedAtThePath, Answers
  <2>2. ASSUME NEW d \in Daemons, DaemonStep(d)
        PROVE  EndpointInv'
    <3>1. TypeOK' /\ SocketIsOfTheBound' /\ ConnectionHasDaemon'
      BY <2>2, StepType, StepSocket, StepConnections DEF EndpointInv
    <3>2. apart' => OneStarts' /\ (\A e \in Daemons : StartKnows(e)') /\ ServedAtThePath'
      BY <2>2, StepApart, StepKnows
    <3> QED
      BY <3>1, <3>2 DEF EndpointInv, ServedAtThePath
  <2>3. ASSUME NEW c \in Clients, Connect(c) \/ Finish(c)
        PROVE  EndpointInv'
    <3> USE DEF EndpointInv, TypeOK, Answers
    <3>1. TypeOK' /\ UNCHANGED <<path, stage, told, apart>>
      BY <2>3 DEF Connect, Finish
    <3>2. ConnectionHasDaemon'
      BY <2>3 DEF Connect, Finish, ConnectionHasDaemon
    <3>3. SocketIsOfTheBound' /\ ServedAtThePath'
      BY <3>1 DEF SocketIsOfTheBound, ServedAtThePath
    <3>4. apart' => OneStarts' /\ \A d \in Daemons : StartKnows(d)'
      BY <3>1 DEF OneStarts, StartKnows
    <3> QED
      BY <3>1, <3>2, <3>3, <3>4
  <2> QED
    BY <2>1, <2>2, <2>3 DEF Next, DaemonStep
<1> QED
  BY <1>1, <1>2, PTL DEF Spec

(* As long as daemons have started one at a time, the one that serves is   *)
(* at the path: Endpoint::bind evicts nobody.                              *)
THEOREM NobodyIsEvicted == Spec => []ServedAtThePath
<1>1. EndpointInv => ServedAtThePath
  BY DEF EndpointInv
<1> QED
  BY <1>1, EndpointInvariant, PTL

(* A daemon that ended without crashing has left no socket behind. *)
THEOREM CleanStopsLeaveNothing == Spec => []NothingLeftBehind
<1>1. EndpointInv => NothingLeftBehind
  BY DEF EndpointInv, SocketIsOfTheBound, NothingLeftBehind
<1> QED
  BY <1>1, EndpointInvariant, PTL

(* What a crashed daemon left behind blocks no start. *)
THEOREM NoStartIsBlocked == Spec => StaleNeverBlocks
<1>1. ASSUME EndpointInv, [Next]_vars, NEW d \in Daemons,
             apart, stage[d] \in Starting, stage'[d] = "failed"
      PROVE  \/ told'[d] = "AlreadyRunning" /\ Answers
             \/ told'[d] = "UnexpectedOccupant" /\ path = File
  <2> USE OccupantsAssumption, <1>1 DEF EndpointInv, TypeOK, StartKnows, Starting, Reach, Fail
  <2>1. CASE UNCHANGED vars
    BY <2>1 DEF vars
  <2>2. ASSUME NEW c \in Clients, Connect(c) \/ Finish(c)
        PROVE  FALSE
    BY <2>2 DEF Connect, Finish
  <2>3. ASSUME NEW e \in Daemons, DaemonStep(e)
        PROVE  e = d
    BY <2>3, StepTouchesOne
  <2>4. CASE DaemonStep(d)
    <3>1. CASE StartStep(d)
      BY <3>1 DEF StartStep, ProbeAnswered, ProbeAbsent, ProbeRefused, Judge, Remove, Bind,
                  BindInUse, Listen
    <3>2. CASE ~StartStep(d)
      BY <2>4, <3>2 DEF DaemonStep, Start, RefuseDirectory, Accept, AcceptFails, Shutdown, Crash,
                  StopStep, DrainSettles, DrainExpires, Unlink, Close
    <3> QED
      BY <3>1, <3>2
  <2> QED
    BY <2>1, <2>2, <2>3, <2>4 DEF Next, DaemonStep
<1>2. EndpointInv /\ [Next]_vars =>
        [\A d \in Daemons :
           apart /\ stage[d] \in Starting /\ stage'[d] = "failed" =>
             \/ told'[d] = "AlreadyRunning" /\ Answers
             \/ told'[d] = "UnexpectedOccupant" /\ path = File]_vars
  BY <1>1
<1> QED
  BY <1>2, EndpointInvariant, PTL DEF Spec, StaleNeverBlocks

-----------------------------------------------------------------------------
(* The refinement: while daemons start one at a time, each step is one     *)
(* that LocalEndpoint allows, or changes nothing that it speaks of.        *)

Allowed == Promise!Next \/ UNCHANGED Promise!vars

(* What a start, and the quiet steps of a daemon that serves, leave alone. *)
LEMMA NothingHeldChanges ==
  ASSUME UNCHANGED clients
  PROVE  UNCHANGED <<held, client>>
  BY DEF clients, held, client, OfDaemon, ClientOf

(* Who comes to another stage, and is told nothing, is all that changes. *)
LEMMA QuietIsAllowed ==
  ASSUME TypeOK, NEW d \in Daemons, UNCHANGED <<clients, told>>, NEW s, Reach(d, s),
         \/ stage[d] \in {"off"} \cup Starting /\ s \in Starting
         \/ stage[d] \in Listening \ {"closing"} /\ s \in Listening \ {"closing"}
  PROVE  Allowed
<1>1. UNCHANGED owner
  <2>1. \A e \in Daemons : OwnerOf(e)' = OwnerOf(e)
    BY DEF TypeOK, Reach, OwnerOf, Starting, Listening
  <2> QED
    BY <2>1 DEF owner
<1> QED
  BY <1>1, NothingHeldChanges DEF Allowed, Promise!vars

LEMMA FailureIsAllowed ==
  ASSUME TypeOK, NEW d \in Daemons, UNCHANGED clients, NEW why, Fail(d, why),
         stage[d] \in {"off"} \cup Starting, why # "AlreadyRunning"
  PROVE  Allowed
<1>1. owner[d] = "out" /\ owner' = [owner EXCEPT ![d] = "failed"]
  <2>1. /\ \A e \in Daemons \ {d} : OwnerOf(e)' = OwnerOf(e)
        /\ OwnerOf(d) = "out" /\ OwnerOf(d)' = "failed"
    BY DEF TypeOK, Fail, Reach, OwnerOf, Starting, Listening
  <2> QED
    BY <2>1 DEF owner
<1>2. Promise!Fail(d)
  BY <1>1, NothingHeldChanges DEF Promise!Fail, Promise!Become
<1> QED
  BY <1>2 DEF Allowed, Promise!Next

LEMMA StartIsAllowed ==
  ASSUME EndpointInv, NEW d \in Daemons, apart', Start(d) \/ RefuseDirectory(d) \/ StartStep(d)
  PROVE  Allowed
<1> USE OccupantsAssumption DEF EndpointInv
<1>1. apart /\ StartKnows(d)
  BY StepTouchesOne DEF DaemonStep
<1>2. CASE Start(d) \/ ProbeAbsent(d) \/ ProbeRefused(d) \/ Bind(d)
  <2>1. PICK s \in Starting : Reach(d, s)
    BY <1>2 DEF Start, ProbeAbsent, ProbeRefused, Bind, Starting
  <2>2. UNCHANGED <<clients, told>> /\ stage[d] \in {"off"} \cup Starting
    BY <1>2 DEF Start, ProbeAbsent, ProbeRefused, Bind, Starting
  <2> QED
    BY <2>1, <2>2, QuietIsAllowed
<1>3. CASE RefuseDirectory(d)
  BY <1>3, FailureIsAllowed DEF RefuseDirectory
<1>4. CASE ProbeAnswered(d)
  <2>1. owner[d] = "out" /\ owner' = [owner EXCEPT ![d] = "AlreadyRunning"]
    <3>1. /\ \A e \in Daemons \ {d} : OwnerOf(e)' = OwnerOf(e)
          /\ OwnerOf(d) = "out" /\ OwnerOf(d)' = "AlreadyRunning"
      BY <1>4 DEF ProbeAnswered, TypeOK, Fail, Reach, OwnerOf, Starting, Listening
    <3> QED
      BY <3>1 DEF owner
  <2>2. path \in Daemons \ {d} /\ owner[path] \in {"owner", "leaving"}
    BY <1>4 DEF ProbeAnswered, Answers, owner, OwnerOf, Starting, Listening
  <2>3. Promise!Refuse(d)
    BY <1>4, <2>1, <2>2, NothingHeldChanges
       DEF ProbeAnswered, Promise!Refuse, Promise!Become, Promise!Answering
  <2> QED
    BY <2>3 DEF Allowed, Promise!Next
<1>5. CASE Judge(d) \/ Remove(d)
  <2>1. UNCHANGED clients /\ stage[d] \in Starting
    BY <1>5 DEF Judge, Remove, Starting
  <2>2. \/ Fail(d, "Io") \/ Fail(d, "UnexpectedOccupant")
        \/ UNCHANGED told /\ \E s \in Starting : Reach(d, s)
    BY <1>5 DEF Judge, Remove, Starting
  <2> QED
    BY <2>1, <2>2, FailureIsAllowed, QuietIsAllowed
<1>6. CASE BindInUse(d)
  BY <1>1, <1>6 DEF BindInUse, StartKnows
<1>7. CASE Listen(d)
  <2>1. owner[d] = "out" /\ owner' = [owner EXCEPT ![d] = "owner"]
    <3>1. /\ \A e \in Daemons \ {d} : OwnerOf(e)' = OwnerOf(e)
          /\ OwnerOf(d) = "out" /\ OwnerOf(d)' = "owner"
      BY <1>7 DEF Listen, TypeOK, Reach, OwnerOf, Starting, Listening
    <3> QED
      BY <3>1 DEF owner
  <2>2. \A e \in Daemons : stage[e] \in Listening \ {"closing"} => path = e
    BY <1>1 DEF ServedAtThePath
  <2>3. path = d /\ stage[d] = "bound"
    BY <1>1, <1>7 DEF Listen, StartKnows
  <2>4. \A e \in Daemons : owner[e] # "owner"
    BY <2>2, <2>3 DEF TypeOK, owner, OwnerOf, Starting, Listening
  <2>5. Promise!Take(d)
    BY <1>7, <2>1, <2>4, NothingHeldChanges
       DEF Listen, Promise!Take, Promise!Become, Promise!Unowned
  <2> QED
    BY <2>5 DEF Allowed, Promise!Next
<1> QED
  BY <1>2, <1>3, <1>4, <1>5, <1>6, <1>7 DEF StartStep

(* Connections are cut: those that a daemon holds and that are in these    *)
(* states.                                                                 *)
LEMMA CutIsCut ==
  ASSUME TypeOK, NEW d \in Daemons, NEW states \in SUBSET {"queued", "open"},
         Cut(OfDaemon(d, states)), UNCHANGED peer
  PROVE  /\ OfDaemon(d, states) \in SUBSET held[d]
         /\ Promise!Cut(d, OfDaemon(d, states))
<1> DEFINE cs == OfDaemon(d, states)
<1>1. cs \in SUBSET held[d]
  BY DEF held, OfDaemon
<1>2. /\ \A c \in cs : conn'[c] = "cut"
      /\ \A c \in Clients \ cs : conn'[c] = conn[c]
  BY DEF Cut, OfDaemon
<1>3. held' = [held EXCEPT ![d] = held[d] \ cs]
  <2>1. \A e \in Daemons \ {d} : held'[e] = held[e]
    BY <1>2 DEF held, OfDaemon
  <2>2. held'[d] = held[d] \ cs
    BY <1>2 DEF held, OfDaemon
  <2> QED
    BY <2>1, <2>2 DEF held
<1>4. client' = [c \in Clients |-> IF c \in cs THEN "cut" ELSE client[c]]
  BY <1>2 DEF client, ClientOf, OfDaemon
<1> QED
  BY <1>1, <1>3, <1>4 DEF Promise!Cut

LEMMA ServeIsAllowed ==
  ASSUME EndpointInv, NEW d \in Daemons,
         Accept(d) \/ AcceptFails(d) \/ Shutdown(d) \/ DrainSettles(d) \/ DrainExpires(d)
  PROVE  Allowed
<1> USE DEF EndpointInv
<1>1. CASE Accept(d)
  <2>1. PICK c \in OfDaemon(d, {"queued"}) : conn' = [conn EXCEPT ![c] = "open"]
    BY <1>1 DEF Accept
  <2>2. UNCHANGED <<held, client>>
    BY <1>1, <2>1 DEF Accept, TypeOK, OfDaemon, held, client, ClientOf
  <2>3. UNCHANGED owner
    BY <1>1 DEF Accept, owner, OwnerOf
  <2> QED
    BY <2>2, <2>3 DEF Allowed, Promise!vars
<1>2. CASE AcceptFails(d) \/ DrainExpires(d)
  <2>1. UNCHANGED owner /\ owner[d] = "owner"
    <3>1. /\ \A e \in Daemons : OwnerOf(e)' = OwnerOf(e)
          /\ OwnerOf(d) = "owner"
      BY <1>2 DEF AcceptFails, DrainExpires, TypeOK, Reach, OwnerOf, Starting, Listening
    <3> QED
      BY <3>1 DEF owner
  <2>2. Cut(OfDaemon(d, {"open"})) /\ UNCHANGED peer
    BY <1>2 DEF AcceptFails, DrainExpires
  <2>3. /\ OfDaemon(d, {"open"}) \in SUBSET held[d]
        /\ Promise!Cut(d, OfDaemon(d, {"open"}))
    BY <2>2, CutIsCut
  <2>4. Promise!Abort(d, OfDaemon(d, {"open"}))
    BY <2>1, <2>3 DEF Promise!Abort
  <2> QED
    BY <2>3, <2>4 DEF Allowed, Promise!Next
<1>3. CASE Shutdown(d) \/ DrainSettles(d)
  <2>1. /\ UNCHANGED <<clients, told>> /\ stage[d] \in Listening \ {"closing"}
        /\ \E s \in Listening \ {"closing"} : Reach(d, s)
    BY <1>3 DEF Shutdown, DrainSettles, Listening
  <2> QED
    BY <2>1, QuietIsAllowed
<1> QED
  BY <1>1, <1>2, <1>3

LEMMA StopIsAllowed ==
  ASSUME EndpointInv, NEW d \in Daemons, Unlink(d) \/ Close(d) \/ Crash(d)
  PROVE  Allowed
<1> USE DEF EndpointInv
<1>1. CASE Unlink(d)
  <2>1. owner[d] = "owner" /\ owner' = [owner EXCEPT ![d] = "leaving"]
    <3>1. /\ \A e \in Daemons \ {d} : OwnerOf(e)' = OwnerOf(e)
          /\ OwnerOf(d) = "owner" /\ OwnerOf(d)' = "leaving"
      BY <1>1 DEF Unlink, TypeOK, Reach, OwnerOf, Starting, Listening
    <3> QED
      BY <3>1 DEF owner
  <2>2. UNCHANGED <<held, client>>
    BY <1>1, NothingHeldChanges DEF Unlink
  <2>3. Promise!Cut(d, {})
    <3>1. held' = [held EXCEPT ![d] = held[d] \ {}]
      BY <2>2 DEF held
    <3>2. client' = [c \in Clients |-> IF c \in {} THEN "cut" ELSE client[c]]
      BY <2>2 DEF client
    <3> QED
      BY <3>1, <3>2 DEF Promise!Cut
  <2>4. Promise!Leave(d, {}) /\ {} \in SUBSET held[d]
    BY <2>1, <2>3 DEF Promise!Leave, Promise!Become
  <2> QED
    BY <2>4 DEF Allowed, Promise!Next
<1>2. CASE Close(d) \/ (Crash(d) /\ stage[d] \in Listening)
  <2>1. /\ owner[d] \in {"owner", "leaving"}
        /\ owner' = [owner EXCEPT ![d] = "gone"]
    <3>1. /\ \A e \in Daemons \ {d} : OwnerOf(e)' = OwnerOf(e)
          /\ OwnerOf(d) \in {"owner", "leaving"} /\ OwnerOf(d)' = "gone"
      BY <1>2 DEF Close, Crash, TypeOK, Reach, OwnerOf, Starting, Listening
    <3> QED
      BY <3>1 DEF owner
  <2>2. \E states \in SUBSET {"queued", "open"} :
          /\ Cut(OfDaemon(d, states)) /\ UNCHANGED peer
          /\ OfDaemon(d, states) = held[d]
    <3>1. CASE Close(d)
      <4>1. OfDaemon(d, {"queued"}) = held[d]
        BY <3>1 DEF Close, ConnectionHasDaemon, OfDaemon, held
      <4> QED
        BY <3>1, <4>1 DEF Close
    <3>2. CASE Crash(d)
      BY <3>2 DEF Crash, held
    <3> QED
      BY <1>2, <3>1, <3>2
  <2>3. Promise!Cut(d, held[d])
    BY <2>2, CutIsCut
  <2>4. Promise!Vanish(d)
    BY <2>1, <2>3 DEF Promise!Vanish, Promise!Become, Promise!Answering
  <2> QED
    BY <2>4 DEF Allowed, Promise!Next
<1>3. CASE Crash(d) /\ stage[d] \notin Listening
  <2>1. owner[d] = "out" /\ owner' = [owner EXCEPT ![d] = "gone"]
    <3>1. /\ \A e \in Daemons \ {d} : OwnerOf(e)' = OwnerOf(e)
          /\ OwnerOf(d) = "out" /\ OwnerOf(d)' = "gone"
      BY <1>3 DEF Crash, TypeOK, Reach, OwnerOf, Starting, Listening
    <3> QED
      BY <3>1 DEF owner
  <2>2. OfDaemon(d, {"queued", "open"}) = {}
    BY <1>3 DEF ConnectionHasDaemon, OfDaemon, Listening
  <2>3. UNCHANGED <<held, client>>
    BY <1>3, <2>2 DEF Crash, Cut, TypeOK, OfDaemon, held, client, ClientOf
  <2>4. Promise!Fail(d)
    BY <2>1, <2>3 DEF Promise!Fail, Promise!Become
  <2> QED
    BY <2>4 DEF Allowed, Promise!Next
<1> QED
  BY <1>1, <1>2, <1>3

LEMMA ClientIsAllowed ==
  ASSUME EndpointInv, NEW c \in Clients, apart', Connect(c) \/ Finish(c)
  PROVE  Allowed
<1> USE OccupantsAssumption DEF EndpointInv
<1>1. UNCHANGED owner /\ apart
  <2>1. UNCHANGED <<stage, told, apart>>
    BY DEF Connect, Finish
  <2>2. \A d \in Daemons : OwnerOf(d)' = OwnerOf(d)
    BY <2>1 DEF OwnerOf
  <2> QED
    BY <2>1, <2>2 DEF owner
<1>2. CASE Connect(c) /\ Answers
  <2>1. path \in Daemons /\ owner[path] \in {"owner", "leaving"}
    BY <1>2 DEF Answers, owner, OwnerOf, Starting, Listening
  <2>2. /\ conn[c] = "none" /\ conn' = [conn EXCEPT ![c] = "queued"]
        /\ peer' = [peer EXCEPT ![c] = path]
    BY <1>2 DEF Connect
  <2>3. held' = [held EXCEPT ![path] = held[path] \cup {c}]
    <3>1. \A e \in Daemons \ {path} : held'[e] = held[e]
      BY <2>2 DEF TypeOK, held, OfDaemon
    <3>2. held'[path] = held[path] \cup {c}
      BY <2>1, <2>2 DEF TypeOK, held, OfDaemon
    <3> QED
      BY <3>1, <3>2 DEF held
  <2>4. client[c] = "asking" /\ client' = [client EXCEPT ![c] = "connected"]
    BY <2>2 DEF TypeOK, client, ClientOf
  <2>5. Promise!Connect(c, path)
    BY <1>1, <2>1, <2>3, <2>4 DEF Promise!Connect, Promise!Answering
  <2> QED
    BY <2>1, <2>5 DEF Allowed, Promise!Next
<1>3. CASE Connect(c) /\ ~Answers
  <2>1. \A d \in Daemons : owner[d] # "owner"
    BY <1>1, <1>3 DEF Answers, ServedAtThePath, owner, OwnerOf, TypeOK, Starting, Listening
  <2>2. conn[c] = "none" /\ conn' = [conn EXCEPT ![c] = "NotRunning"] /\ peer' = peer
    BY <1>3 DEF Connect
  <2>3. UNCHANGED held
    BY <2>2 DEF TypeOK, held, OfDaemon
  <2>4. client[c] = "asking" /\ client' = [client EXCEPT ![c] = "NotRunning"]
    BY <2>2 DEF TypeOK, client, ClientOf
  <2>5. Promise!FindNone(c)
    BY <1>1, <2>1, <2>3, <2>4 DEF Promise!FindNone, Promise!Unowned
  <2> QED
    BY <2>5 DEF Allowed, Promise!Next
<1>4. CASE Finish(c)
  <2> DEFINE d == peer[c]
  <2>1. /\ conn[c] = "open" /\ conn' = [conn EXCEPT ![c] = "done"] /\ peer' = peer
        /\ d \in Daemons /\ stage[d] \in {"serving", "draining"}
    BY <1>4 DEF Finish, ConnectionHasDaemon
  <2>2. owner[d] = "owner"
    BY <2>1 DEF owner, OwnerOf, Starting, Listening
  <2>3. c \in held[d] /\ held' = [held EXCEPT ![d] = held[d] \ {c}]
    <3>1. \A e \in Daemons \ {d} : held'[e] = held[e]
      BY <2>1 DEF TypeOK, held, OfDaemon
    <3>2. c \in held[d] /\ held'[d] = held[d] \ {c}
      BY <2>1 DEF TypeOK, held, OfDaemon
    <3> QED
      BY <3>1, <3>2 DEF held
  <2>4. client' = [client EXCEPT ![c] = "answered"]
    BY <2>1 DEF TypeOK, client, ClientOf
  <2>5. Promise!Answer(c, d)
    BY <1>1, <2>2, <2>3, <2>4 DEF Promise!Answer
  <2> QED
    BY <2>1, <2>5 DEF Allowed, Promise!Next
<1> QED
  BY <1>2, <1>3, <1>4

(* While daemons start one at a time, the socket keeps what LocalEndpoint  *)
(* promises of an endpoint (transport).                                    *)
THEOREM SocketImplementsEndpoint == Spec => PromiseKept
<1>1. Init => Promise!Init
  <2> SUFFICES ASSUME Init
               PROVE  Promise!Init
    OBVIOUS
  <2>1. owner = [d \in Daemons |-> "out"]
    <3>1. \A d \in Daemons : OwnerOf(d) = "out"
      BY DEF Init, OwnerOf, Starting, Listening
    <3> QED
      BY <3>1 DEF owner
  <2>2. held = [d \in Daemons |-> {}]
    BY OccupantsAssumption DEF Init, held, OfDaemon
  <2>3. client = [c \in Clients |-> "asking"]
    BY DEF Init, client, ClientOf
  <2> QED
    BY <2>1, <2>2, <2>3 DEF Promise!Init
<1>2. EndpointInv /\ [Next]_vars =>
        [apart' => Promise!Next \/ UNCHANGED Promise!vars]_vars
  <2> SUFFICES ASSUME EndpointInv, Next, apart'
               PROVE  Allowed
    BY DEF Allowed
  <2>1. ASSUME NEW d \in Daemons, DaemonStep(d)
        PROVE  Allowed
    BY <2>1, StartIsAllowed, ServeIsAllowed, StopIsAllowed DEF DaemonStep, StopStep
  <2> QED
    BY <2>1, ClientIsAllowed DEF Next, DaemonStep
<1> QED
  BY <1>1, <1>2, EndpointInvariant, PTL DEF Spec, PromiseKept
=============================================================================
