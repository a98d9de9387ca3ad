---------------------------- MODULE RequestHandle ----------------------------
(***************************************************************************)
(* The handle of one in-flight request (mehoy-core, cancel.rs): a state    *)
(* behind a lock and a cancellation token that remembers its first cause.  *)
(* Each operator is one method, the whole of what it does under the lock;  *)
(* whoever holds a clone of the handle calls them in any order.            *)
(***************************************************************************)

RequestStates == {"Starting", "Running", "Cancelling", "Completed", "Cancelled", "Failed"}

TerminalStates == {"Completed", "Cancelled", "Failed"}

(* A user, an unload, an idle budget or an absent consumer. *)
Causes == {"User", "InstanceUnloading", "StreamIdleTimeout", "ConsumerGone"}

Handles == [state : RequestStates, cause : Causes \cup {"none"}]

NewHandle == [state |-> "Starting", cause |-> "none"]

IsTerminal(h) == h.state \in TerminalStates

(* mark_running: a late report cannot revive a request. *)
MarkRunning(h) == IF h.state = "Starting" THEN [h EXCEPT !.state = "Running"] ELSE h

(* A bug: a cause that a later one overwrites. *)
CancelTokenAnyway(h, c) == [h EXCEPT !.cause = c]

(* CancellationToken::cancel: the first cause wins. *)
CancelToken(h, c) == IF h.cause = "none" THEN [h EXCEPT !.cause = c] ELSE h

(* A bug: forgetting that a request may have ended without being stopped. *)
ClaimsToken(h) == h.cause = "none"

(* Whether request_cancellation answers that this call was the one. *)
Claims(h) == ~IsTerminal(h) /\ h.cause = "none"

(* request_cancellation: only a call that claims the token changes the state. *)
RequestCancellation(h, c) ==
  IF Claims(h) THEN [CancelToken(h, c) EXCEPT !.state = "Cancelling"] ELSE h

(* finish: the first terminal state wins. *)
Finish(h, o) == IF IsTerminal(h) THEN h ELSE [h EXCEPT !.state = o]
=============================================================================
