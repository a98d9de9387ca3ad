--------------------------- MODULE LocalEndpoint ----------------------------
(***************************************************************************)
(* What daemons and clients may rely on of an endpoint, on either platform *)
(* (mehoy-core transport, whose platform modules "present the same small   *)
(* API, so callers do not branch on the operating system"): at most one    *)
(* daemon has the address, a start is told of another daemon only if there *)
(* is one, a client is told that none runs only if none has the address,   *)
(* and a connection that was made is held by one daemon until it is        *)
(* answered or cut.  Nothing here says what is at the address.             *)
(***************************************************************************)
CONSTANTS Daemons, Clients

VARIABLES
  daemon,  \* "out" until it has the address: "owner"; then "leaving", "gone"
  held,    \* the clients whose connections a daemon has
  client   \* what became of a client

vars == <<daemon, held, client>>

Init ==
  /\ daemon = [d \in Daemons |-> "out"]
  /\ held = [d \in Daemons |-> {}]
  /\ client = [c \in Clients |-> "asking"]

Unowned == \A d \in Daemons : daemon[d] # "owner"

Answering(d) == daemon[d] \in {"owner", "leaving"}

Become(d, s) == daemon' = [daemon EXCEPT ![d] = s]

(* A daemon lets go of connections it has, and these are cut. *)
Cut(d, cs) ==
  /\ held' = [held EXCEPT ![d] = @ \ cs]
  /\ client' = [c \in Clients |-> IF c \in cs THEN "cut" ELSE client[c]]

-----------------------------------------------------------------------------
(* Endpoint::bind: Ok, AlreadyRunning, or another failure or death.        *)

Take(d) ==
  /\ daemon[d] = "out" /\ Unowned
  /\ Become(d, "owner")
  /\ UNCHANGED <<held, client>>

Refuse(d) ==
  /\ daemon[d] = "out"
  /\ \E e \in Daemons \ {d} : Answering(e)
  /\ Become(d, "AlreadyRunning")
  /\ UNCHANGED <<held, client>>

Fail(d) ==
  /\ daemon[d] = "out"
  /\ Become(d, "failed") \/ Become(d, "gone")
  /\ UNCHANGED <<held, client>>

-----------------------------------------------------------------------------
(* The end of a daemon that had the address.  It gives the address up,     *)
(* with or without connections left, and at last answers nobody.           *)

Abort(d, cs) ==
  /\ daemon[d] = "owner" /\ cs \subseteq held[d]
  /\ Cut(d, cs)
  /\ UNCHANGED daemon

Leave(d, cs) ==
  /\ daemon[d] = "owner" /\ cs \subseteq held[d]
  /\ Become(d, "leaving")
  /\ Cut(d, cs)

Vanish(d) ==
  /\ Answering(d)
  /\ Become(d, "gone")
  /\ Cut(d, held[d])

-----------------------------------------------------------------------------
(* connect, and a connection.                                              *)

Connect(c, d) ==
  /\ client[c] = "asking" /\ Answering(d)
  /\ held' = [held EXCEPT ![d] = @ \cup {c}]
  /\ client' = [client EXCEPT ![c] = "connected"]
  /\ UNCHANGED daemon

Answer(c, d) ==
  /\ daemon[d] = "owner" /\ c \in held[d]
  /\ held' = [held EXCEPT ![d] = @ \ {c}]
  /\ client' = [client EXCEPT ![c] = "answered"]
  /\ UNCHANGED daemon

FindNone(c) ==
  /\ client[c] = "asking" /\ Unowned
  /\ client' = [client EXCEPT ![c] = "NotRunning"]
  /\ UNCHANGED <<daemon, held>>

(* There is a daemon, but it has been busy for too long. *)
GiveUp(c) ==
  /\ client[c] = "asking" /\ \E d \in Daemons : Answering(d)
  /\ client' = [client EXCEPT ![c] = "TimedOut"]
  /\ UNCHANGED <<daemon, held>>

Next ==
  \/ \E d \in Daemons :
       \/ Take(d) \/ Refuse(d) \/ Fail(d) \/ Vanish(d)
       \/ \E cs \in SUBSET held[d] : Abort(d, cs) \/ Leave(d, cs)
  \/ \E c \in Clients :
       \/ FindNone(c) \/ GiveUp(c)
       \/ \E d \in Daemons : Connect(c, d) \/ Answer(c, d)

Spec == Init /\ [][Next]_vars
=============================================================================
