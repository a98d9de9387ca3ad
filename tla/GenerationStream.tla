--------------------------- MODULE GenerationStream ---------------------------
(***************************************************************************)
(* One streaming generation: the task that carries it out (execute and     *)
(* read, mehoy-backend-llama generate.rs), the buffer between it and its   *)
(* consumer (GenerationSink and GenerationStream, mehoy-core inference.rs), *)
(* the consumer, and whoever stops the request through its handle.         *)
(*                                                                         *)
(* The task gives way to the others only where it awaits or takes a lock,  *)
(* and a step goes from one such place to the next.  What the backend      *)
(* sends is a sequence of frames, each a batch of payloads that are        *)
(* handled without looking at the cancellation signal in between.  A       *)
(* payload matters by whether it is the end marker, unusable, carries      *)
(* text, or says why generation finished.                                  *)
(***************************************************************************)
EXTENDS RequestHandle, Sequences, Naturals

CONSTANTS
  Capacity,   \* GENERATION_STREAM_BUFFER
  MaxTexts,   \* bound: payloads that carry text, in one generation
  MaxBatch    \* bound: payloads in one frame

ASSUME BoundsAssumption ==
  Capacity \in Nat \ {0} /\ MaxTexts \in Nat /\ MaxBatch \in Nat \ {0}

VARIABLES
  handle,    \* the handle of the request
  task,      \* where the task is
  batch,     \* payloads of the current frame still to be handled
  reported,  \* whether the backend said why it finished ("terminal")
  texts,     \* non-empty texts the backend sent
  verdict,   \* what the task is ending the sink with
  buffer,    \* the channel
  consumer,  \* "reading", "finished" or "dropped"
  seen,      \* the last event the consumer was given
  deltas,    \* GenerationStream::deltas
  verified   \* whether the instance's generation was verified by this stream

producing == <<task, batch, reported, texts, verdict>>
consuming == <<consumer, seen, deltas, verified>>
vars == <<handle, task, batch, reported, texts, verdict, buffer, consumer, seen, deltas,
          verified>>

(* The stages of the task that wait under `within`, or under the same three *)
(* conditions spelled out in `read`.                                       *)
Waiting == {"connecting", "shaking_hands", "requesting", "refused", "reading"}

(* Its stages where it awaits room in the buffer. *)
Blocked == {"handing_over", "announcing"}

Stages == Waiting \cup Blocked \cup {"encoding", "answered", "decoding", "expired",
                                     "stopping", "recording", "over"}

(* An outcome, with the cause of a cancellation. *)
Outcome(kind, cause) == [kind |-> kind, cause |-> cause]

Outcomes == [kind : {"Completed", "Failed"}, cause : {"none"}]
              \cup [kind : {"Cancelled"}, cause : Causes]

Started == Outcome("Started", "none")

TextDelta == Outcome("TextDelta", "none")

Nothing == Outcome("none", "none")

Events == Outcomes \cup {Started, TextDelta}

TypeOK ==
  /\ handle \in Handles
  /\ task \in Stages
  /\ batch \in 0..MaxBatch
  /\ reported \in BOOLEAN
  /\ texts \in 0..MaxTexts
  /\ verdict \in Outcomes \cup {Nothing}
  /\ buffer \in Seq(Events)
  /\ Len(buffer) <= Capacity
  /\ consumer \in {"reading", "finished", "dropped"}
  /\ seen \in Events \cup {Nothing}
  /\ deltas \in 0..MaxTexts
  /\ verified \in BOOLEAN

(* start_generation puts Started in the buffer before the task runs. *)
Init ==
  /\ handle = NewHandle
  /\ task = "encoding"
  /\ batch = 0
  /\ reported = FALSE
  /\ texts = 0
  /\ verdict = Nothing
  /\ buffer = <<Started>>
  /\ consumer = "reading"
  /\ seen = Nothing
  /\ deltas = 0
  /\ verified = FALSE

-----------------------------------------------------------------------------
(* The task, before the backend answers.                                   *)

Goto(stage) ==
  /\ task' = stage
  /\ UNCHANGED <<handle, batch, reported, texts, verdict, buffer, consuming>>

(* The task decides how the generation ends, and drops the transport. *)
EndWith(o) ==
  /\ verdict' = o
  /\ task' = IF o.kind = "Cancelled" THEN "stopping" ELSE "recording"
  /\ batch' = 0
  /\ UNCHANGED <<handle, reported, texts, buffer, consuming>>

Encode ==
  /\ task = "encoding"
  /\ Goto("connecting") \/ EndWith(Outcome("Failed", "none"))

(* The three things `within` looks at besides the work itself, in their    *)
(* order: the signal ...                                                   *)
ObserveCancel ==
  /\ task \in Waiting
  /\ handle.cause # "none"
  /\ EndWith(Outcome("Cancelled", handle.cause))

(* ... whether anybody reads ... *)
ObserveClosed ==
  /\ task \in Waiting
  /\ handle.cause = "none"
  /\ consumer = "dropped"
  /\ EndWith(Outcome("Cancelled", "ConsumerGone"))

(* A bug: looking at the work before the signal. *)
UndisturbedByCancel == task \in Waiting /\ consumer # "dropped"

(* ... and, the backend having said nothing, the idle budget. *)
Undisturbed == task \in Waiting /\ handle.cause = "none" /\ consumer # "dropped"

Expire ==
  /\ Undisturbed
  /\ Goto("expired")

(* A bug: telling the consumer that the budget ran out whatever the token  *)
(* says.                                                                   *)
BlameBudget(h) == "StreamIdleTimeout"

(* The cause that won, which another party may have set in between. *)
WinningCause(h) == CancelToken(h, "StreamIdleTimeout").cause

ClaimExpiry ==
  /\ task = "expired"
  /\ handle' = CancelToken(handle, "StreamIdleTimeout")
  /\ verdict' = Outcome("Cancelled", WinningCause(handle))
  /\ task' = "stopping"
  /\ UNCHANGED <<batch, reported, texts, buffer, consuming>>

(* Connecting, the handshake and the request, one after the other. *)
Proceed ==
  /\ Undisturbed
  /\ \/ task = "connecting" /\ Goto("shaking_hands")
     \/ task = "shaking_hands" /\ Goto("requesting")
     \/ task = "requesting" /\ Goto("answered")

FailTransport ==
  /\ Undisturbed
  /\ EndWith(Outcome("Failed", "none"))

(* The response has begun, with a status that promises a stream or not. *)
Answered ==
  /\ task = "answered"
  /\ handle' = MarkRunning(handle)
  /\ task' \in {"reading", "refused"}
  /\ UNCHANGED <<batch, reported, texts, verdict, buffer, consuming>>

-----------------------------------------------------------------------------
(* The task, while it reads the response.                                  *)

Frame ==
  /\ Undisturbed
  /\ task = "reading"
  /\ batch' \in 0..MaxBatch
  /\ task' = IF batch' = 0 THEN "reading" ELSE "decoding"
  /\ UNCHANGED <<handle, reported, texts, verdict, buffer, consuming>>

(* A bug: taking the end of the body for the end of the generation. *)
EndOfAnyBody == Outcome("Completed", "none")

(* How a body that ended, by its marker or by itself, ends the generation. *)
EndOfBody == IF reported THEN Outcome("Completed", "none") ELSE Outcome("Failed", "none")

Closed ==
  /\ Undisturbed
  /\ task = "reading"
  /\ EndWith(EndOfBody)

Marker ==
  /\ task = "decoding"
  /\ EndWith(EndOfBody)

Unusable ==
  /\ task = "decoding"
  /\ EndWith(Outcome("Failed", "none"))

(* The next payload, or the next frame once the batch is handled. *)
Resume(left) ==
  /\ batch' = left
  /\ task' = IF left = 0 THEN "reading" ELSE "decoding"

(* A payload with or without text, and with or without a finish reason;    *)
(* the reason is remembered before the text is handed over.                *)
Payload(finishes, hasText) ==
  /\ task = "decoding"
  /\ reported' = (reported \/ finishes)
  /\ \/ /\ hasText
        /\ texts < MaxTexts
        /\ texts' = texts + 1
        /\ task' = "handing_over"
        /\ batch' = batch - 1
     \/ /\ ~hasText
        /\ Resume(batch - 1)
        /\ UNCHANGED texts
  /\ UNCHANGED <<handle, verdict, buffer, consuming>>

(* A bug: a text that finds no room is left out. *)
HandOverIfRoom ==
  /\ task = "handing_over"
  /\ consumer # "dropped"
  /\ Resume(batch)
  /\ buffer' = IF Len(buffer) < Capacity THEN Append(buffer, TextDelta) ELSE buffer
  /\ UNCHANGED <<handle, reported, texts, verdict, consuming>>

(* GenerationSink::delta awaits room, and nothing else is awaited with it. *)
HandOver ==
  /\ task = "handing_over"
  /\ consumer # "dropped"
  /\ Len(buffer) < Capacity
  /\ Resume(batch)
  /\ buffer' = Append(buffer, TextDelta)
  /\ UNCHANGED <<handle, reported, texts, verdict, consuming>>

(* A bug: leaving at once, there being nobody to tell. *)
ReturnUnread ==
  /\ task = "handing_over"
  /\ consumer = "dropped"
  /\ Goto("over")

HandOverFails ==
  /\ task = "handing_over"
  /\ consumer = "dropped"
  /\ EndWith(Outcome("Cancelled", "ConsumerGone"))

-----------------------------------------------------------------------------
(* The end of the task.                                                    *)

(* GenerationSink::cancel records the reason, then the outcome ... *)
RecordCause ==
  /\ task = "stopping"
  /\ handle' = RequestCancellation(handle, verdict.cause)
  /\ task' = "recording"
  /\ UNCHANGED <<batch, reported, texts, verdict, buffer, consuming>>

(* A bug: recording the outcome when it has been announced. *)
AnnounceFirst ==
  /\ task = "recording"
  /\ Goto("announcing")

RecordOutcome ==
  /\ task = "recording"
  /\ handle' = Finish(handle, verdict.kind)
  /\ task' = "announcing"
  /\ UNCHANGED <<batch, reported, texts, verdict, buffer, consuming>>

(* ... and tells the consumer, if there is one. *)
Announce ==
  /\ task = "announcing"
  /\ \/ /\ consumer = "dropped"
        /\ UNCHANGED buffer
     \/ /\ consumer # "dropped"
        /\ Len(buffer) < Capacity
        /\ buffer' = Append(buffer, verdict)
  /\ task' = "over"
  /\ UNCHANGED <<handle, batch, reported, texts, verdict, consuming>>

(* A bug: a sink without a destructor. *)
VanishUnrecorded ==
  /\ task \in {"encoding"} \cup Waiting \cup Blocked
  /\ Goto("over")

(* The task vanishes before it first runs or at an await, with the executor *)
(* it ran on: the destructor of a sink that had not finished records a     *)
(* failure.                                                                *)
Vanish ==
  /\ task \in {"encoding"} \cup Waiting \cup Blocked
  /\ task' = "over"
  /\ handle' = IF task = "announcing" THEN handle ELSE Finish(handle, "Failed")
  /\ UNCHANGED <<batch, reported, texts, verdict, buffer, consuming>>

-----------------------------------------------------------------------------
(* The consumer.                                                           *)

(* GenerationStream::next, with something in the buffer ... *)
Read ==
  /\ consumer = "reading"
  /\ buffer # <<>>
  /\ seen' = Head(buffer)
  /\ buffer' = Tail(buffer)
  /\ deltas' = IF Head(buffer) = TextDelta THEN deltas + 1 ELSE deltas
  /\ consumer' = IF Head(buffer) \in Outcomes THEN "finished" ELSE "reading"
  /\ UNCHANGED <<handle, producing, verified>>

(* ... and with nothing in it and nobody left to fill it. *)
ReadEnd ==
  /\ consumer = "reading"
  /\ buffer = <<>>
  /\ task = "over"
  /\ consumer' = "finished"
  /\ seen' = Outcome("Failed", "none")
  /\ handle' = Finish(handle, "Failed")
  /\ UNCHANGED <<producing, buffer, deltas, verified>>

(* GenerationStream::collect calls next until it is given an end. *)
Collect == Read \/ ReadEnd

DropStream ==
  /\ consumer # "dropped"
  /\ consumer' = "dropped"
  /\ buffer' = <<>>
  /\ UNCHANGED <<handle, producing, seen, deltas, verified>>

(* A stream demonstrates generation by completing after some text. *)
Demonstrated == seen.kind = "Completed" /\ deltas > 0

(* Whoever still holds the stream has its instance record what it          *)
(* demonstrated.                                                           *)
RecordStream ==
  /\ consumer # "dropped"
  /\ Demonstrated
  /\ verified' = TRUE
  /\ UNCHANGED <<handle, producing, buffer, consumer, seen, deltas>>

(* A user or an unload stops the request through its handle. *)
Cancel(c) ==
  /\ handle' = RequestCancellation(handle, c)
  /\ UNCHANGED <<producing, buffer, consuming>>

-----------------------------------------------------------------------------
TaskStep ==
  \/ Encode \/ ObserveCancel \/ ObserveClosed \/ Expire \/ ClaimExpiry \/ Proceed
  \/ FailTransport \/ Answered \/ Frame \/ Closed \/ Marker \/ Unusable
  \/ \E finishes, hasText \in BOOLEAN : Payload(finishes, hasText)
  \/ HandOver \/ HandOverFails \/ RecordCause \/ RecordOutcome \/ Announce

Next ==
  \/ TaskStep \/ Vanish
  \/ Collect \/ DropStream \/ RecordStream
  \/ \E c \in {"User", "InstanceUnloading"} : Cancel(c)

(* The executor runs a task that can run, and no wait for the backend      *)
(* outlasts the idle budget.                                               *)
Spec == Init /\ [][Next]_vars /\ WF_vars(TaskStep)

(* With a consumer that keeps reading. *)
ReadSpec == Spec /\ WF_vars(Collect)

-----------------------------------------------------------------------------
(* Properties.                                                             *)

(* A consumer that was given the end of the stream finds that end recorded *)
(* in the handle, and was told the cause the handle names: the two views   *)
(* of a request do not disagree, whoever else was stopping it.             *)
SeenOutcomeIsRecorded ==
  /\ consumer = "finished" => IsTerminal(handle)
  /\ seen.kind \in {"Completed", "Cancelled"} => handle.state = seen.kind
  /\ seen.kind = "Cancelled" => handle.cause = seen.cause

(* A stream that completed said so after the backend had said why, and     *)
(* after every text the backend had sent: a truncated answer never passes  *)
(* for a finished one.  And what an instance was verified by is such a     *)
(* stream, of some text, whose request nobody had stopped first.           *)
CompletedMeansAll ==
  /\ seen.kind = "Completed" => reported /\ deltas = texts
  /\ verified => handle.state = "Completed" /\ reported /\ deltas = texts /\ texts > 0

(* No request is left looking alive by a task that is gone. *)
NoTaskLeavesARequestLive == task = "over" => IsTerminal(handle)

(* A request nobody reads any more ends (ADR-0009 decision 3). *)
AbandonedEnds == consumer = "dropped" ~> IsTerminal(handle)

(* A request that was stopped is seen to end, if its consumer reads on. *)
StoppedIsHeard ==
  handle.cause # "none" /\ consumer = "reading" ~> consumer # "reading"

(* Cancellation does not depend on who holds the stream, or on whether     *)
(* anyone still does (ADR-0009 decision 3).                                *)
CancelledEnds == handle.cause # "none" ~> IsTerminal(handle)

-----------------------------------------------------------------------------
(* The strengthening under which the three invariants are inductive.       *)

Ending == {"stopping", "recording", "announcing", "over"}

(* The verdict is reached once, by a stage that ends the task, and the     *)
(* handle is terminal from the moment the task has recorded it.            *)
VerdictIsLate ==
  /\ task \notin Ending => verdict = Nothing
  /\ task \in Ending \ {"over"} => verdict \in Outcomes
  /\ task = "stopping" => verdict.kind = "Cancelled"
  /\ task = "decoding" => batch > 0
  /\ verdict.kind = "Completed" => reported
  /\ IsTerminal(handle) <=> task \in {"announcing", "over"}

(* Who is still there to be told a cause will find it in the handle.       *)
VerdictIsRecorded ==
  /\ verdict # Nothing /\ task \in {"announcing", "over"} => handle.state = verdict.kind
  /\ verdict.kind = "Cancelled" /\ consumer # "dropped" => handle.cause = verdict.cause

HoldsEnd == buffer # <<>> /\ buffer[Len(buffer)] \in Outcomes

(* The buffer holds Started until it is read, then texts, then the end.    *)
BufferShape ==
  /\ \A k \in 1..Len(buffer) :
       /\ buffer[k] = Started <=> k = 1 /\ seen = Nothing
       /\ buffer[k] \in Outcomes => k = Len(buffer) /\ buffer[k] = verdict /\ task = "over"
  /\ seen = Nothing /\ consumer # "dropped" => buffer # <<>>

(* So the number of the texts in it is known from its ends.                *)
TextsInBuffer ==
  Len(buffer) - (IF seen = Nothing THEN 1 ELSE 0) - (IF HoldsEnd THEN 1 ELSE 0)

TextsInHand == IF task = "handing_over" THEN 1 ELSE 0

(* Every text the backend sent was read, is in the buffer or is being put  *)
(* there, unless the consumer left or the task vanished.                   *)
TextsAccounted ==
  /\ deltas <= texts
  /\ consumer # "dropped" => deltas + TextsInBuffer + TextsInHand <= texts
  /\ consumer # "dropped" /\ (task # "over" \/ verdict.kind = "Completed") =>
       deltas + TextsInBuffer + TextsInHand = texts

(* The consumer sees an end after the task is over, and the one it reached. *)
EndIsLast ==
  /\ consumer = "finished" => task = "over" /\ buffer = <<>> /\ seen # Nothing
  /\ consumer = "dropped" => buffer = <<>>
  /\ consumer = "reading" => seen \notin Outcomes
  /\ seen \in Outcomes => task = "over"
  /\ seen.kind \in {"Completed", "Cancelled"} => seen = verdict
  /\ verified => seen.kind = "Completed"

StreamInv ==
  /\ TypeOK
  /\ VerdictIsLate /\ VerdictIsRecorded
  /\ BufferShape /\ TextsAccounted /\ EndIsLast
  /\ SeenOutcomeIsRecorded /\ CompletedMeansAll /\ NoTaskLeavesARequestLive
=============================================================================
