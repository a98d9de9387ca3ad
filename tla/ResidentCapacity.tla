-------------------------- MODULE ResidentCapacity --------------------------
(***************************************************************************)
(* What a runtime's ledger promises whoever configured its limits          *)
(* (ADR-0010): room is claimed before a model is brought up and held for   *)
(* as long as the model may be using it, and what is held together never   *)
(* exceeds the limits.  Nothing here says how the ledger is kept.          *)
(***************************************************************************)
CONSTANTS
  Models,           \* every model some caller may ask to load
  WithinLimits(_)   \* whether a set of models may be held together

VARIABLES
  account,   \* what the ledger says of each model
  running    \* the models whose worker is alive

vars == <<account, running>>

Accounted == {m \in Models : account[m] \in {"claimed", "resident"}}

Init ==
  /\ account = [m \in Models |-> "none"]
  /\ running = {}

(* Room is claimed only if what is then held is within the limits. *)
Claim(m) ==
  /\ account[m] = "none"
  /\ WithinLimits(Accounted \cup {m})
  /\ account' = [account EXCEPT ![m] = "claimed"]
  /\ UNCHANGED running

(* A worker comes up under a claim, and may go away at any time. *)
Start(m) ==
  /\ account[m] = "claimed"
  /\ running' = running \cup {m}
  /\ UNCHANGED account

Exit(m) ==
  /\ running' = running \ {m}
  /\ UNCHANGED account

Settle(m) ==
  /\ account[m] = "claimed"
  /\ account' = [account EXCEPT ![m] = "resident"]
  /\ UNCHANGED running

(* A load that did not make it gives its claim back, whatever became of    *)
(* the worker it had started.                                              *)
Abandon(m) ==
  /\ account[m] = "claimed"
  /\ account' = [account EXCEPT ![m] = "given back"]
  /\ \/ UNCHANGED running
     \/ running' = running \ {m}

(* A resident model is given back only once its worker is gone.            *)
Release(m) ==
  /\ account[m] = "resident"
  /\ m \notin running
  /\ account' = [account EXCEPT ![m] = "given back"]
  /\ UNCHANGED running

Next == \E m \in Models :
          Claim(m) \/ Start(m) \/ Exit(m) \/ Settle(m) \/ Abandon(m) \/ Release(m)

Spec == Init /\ [][Next]_vars
=============================================================================
