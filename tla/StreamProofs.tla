---------------------------- MODULE StreamProofs ----------------------------
(***************************************************************************)
(* What a generation's stream carries, from the bytes of the backend to    *)
(* the consumer.  The first half is about GenerationStream: what one       *)
(* generation and its consumer may rely on of each other, for any capacity *)
(* of the buffer, any number of texts and any frames.  The second is about *)
(* SseDecoder: what it makes of any bytes, cut into chunks anywhere.       *)
(*                                                                         *)
(* StreamInv is inductive, and has three parts.  The task reaches one      *)
(* verdict, late, and records it in the handle before it says anything     *)
(* (VerdictIsLate, VerdictIsRecorded).  The buffer is a sequence of texts  *)
(* between a beginning and that verdict, so the texts in it are counted by *)
(* its length (BufferShape), and none is lost before a verdict that says   *)
(* so (TextsAccounted).  What the consumer took for the end is the         *)
(* verdict, or the absence of one (EndIsLast).                             *)
(*                                                                         *)
(* DecoderInv is inductive: the decoder has read the bytes up to a line    *)
(* end, holds what the lines up to there have left open, and there is no   *)
(* line end after it.  A turn of the loop moves that position to the next  *)
(* line end (TurnReads), as many turns as the buffer has bytes move it to  *)
(* the last one (LinesReads), and more bytes change nothing of what the    *)
(* bytes before it mean (ReadingStays).                                    *)
(***************************************************************************)
EXTENDS GenerationStream, SseDecoder, SequenceTheorems, WellFoundedInduction, TLAPS

-----------------------------------------------------------------------------
(* The handle: what each of its methods keeps.                             *)

LEMMA MarkRunningKeeps ==
  ASSUME NEW h \in Handles
  PROVE  /\ MarkRunning(h) \in Handles
         /\ IsTerminal(MarkRunning(h)) <=> IsTerminal(h)
         /\ MarkRunning(h).cause = h.cause
  BY DEF Handles, RequestStates, Causes, MarkRunning, IsTerminal, TerminalStates

LEMMA CancelTokenKeeps ==
  ASSUME NEW h \in Handles, NEW c \in Causes
  PROVE  /\ CancelToken(h, c) \in Handles
         /\ CancelToken(h, c).state = h.state
         /\ CancelToken(h, c).cause \in Causes
         /\ h.cause # "none" => CancelToken(h, c).cause = h.cause
  BY DEF Handles, RequestStates, Causes, CancelToken

LEMMA RequestCancellationKeeps ==
  ASSUME NEW h \in Handles, NEW c \in Causes
  PROVE  /\ RequestCancellation(h, c) \in Handles
         /\ IsTerminal(RequestCancellation(h, c)) <=> IsTerminal(h)
         /\ IsTerminal(h) => RequestCancellation(h, c) = h
         /\ h.cause # "none" => RequestCancellation(h, c).cause = h.cause
         /\ ~IsTerminal(h) /\ h.cause = "none" => RequestCancellation(h, c).cause = c
  BY DEF Handles, RequestStates, Causes, RequestCancellation, Claims, CancelToken, IsTerminal,
         TerminalStates

LEMMA FinishKeeps ==
  ASSUME NEW h \in Handles, NEW o \in TerminalStates
  PROVE  /\ Finish(h, o) \in Handles
         /\ IsTerminal(Finish(h, o))
         /\ Finish(h, o).cause = h.cause
         /\ IsTerminal(h) => Finish(h, o) = h
         /\ ~IsTerminal(h) => Finish(h, o).state = o
  BY DEF Handles, RequestStates, Causes, Finish, IsTerminal, TerminalStates

LEMMA OutcomeTypes ==
  /\ Outcome("Completed", "none") \in Outcomes
  /\ Outcome("Failed", "none") \in Outcomes
  /\ \A c \in Causes : Outcome("Cancelled", c) \in Outcomes
  /\ \A k, c : Outcome(k, c).kind = k /\ Outcome(k, c).cause = c
  /\ \A o \in Outcomes : /\ o.kind \in TerminalStates /\ o # Started /\ o # TextDelta /\ o # Nothing
                         /\ o.kind = "Cancelled" => o.cause \in Causes
  /\ Nothing.kind = "none" /\ Started.kind = "Started" /\ TextDelta.kind = "TextDelta"
  BY DEF Outcome, Outcomes, Causes, TerminalStates, Started, TextDelta, Nothing

(* What has been read was sent, if what remains in the buffer is no debt.  *)
LEMMA ReadIsAccounted ==
  ASSUME NEW before \in Int, NEW after \in Int, NEW held \in Int, NEW left \in Int,
         NEW hand \in Nat, NEW sent \in Int,
         before + held + hand <= sent, after + left = before + held, left >= 0
  PROVE  after <= sent
  OBVIOUS

LEMMA NoBatch == 0 \in 0..MaxBatch
  BY BoundsAssumption

-----------------------------------------------------------------------------
(* The task moves.                                                         *)

(* Neither in hand nor at an end: a step from one such stage to another    *)
(* matters to nobody else.                                                 *)
Plain == Stages \ (Ending \cup {"handing_over", "decoding"})

LEMMA GotoKeeps ==
  ASSUME StreamInv, NEW s \in Plain, task \in Plain, Goto(s)
  PROVE  StreamInv'
<1> USE DEF StreamInv, Goto, consuming, Plain
<1>1. TypeOK'
  BY DEF TypeOK
<1>2. VerdictIsLate' /\ VerdictIsRecorded'
  BY DEF VerdictIsLate, VerdictIsRecorded, Ending
<1>3. BufferShape' /\ TextsAccounted' /\ EndIsLast'
  BY DEF BufferShape, TextsAccounted, TextsInBuffer, TextsInHand, HoldsEnd, EndIsLast, Ending
<1>4. SeenOutcomeIsRecorded' /\ CompletedMeansAll' /\ NoTaskLeavesARequestLive'
  BY DEF SeenOutcomeIsRecorded, CompletedMeansAll, NoTaskLeavesARequestLive, Ending
<1> QED
  BY <1>1, <1>2, <1>3, <1>4

LEMMA EndWithKeeps ==
  ASSUME StreamInv, NEW o \in Outcomes, task \notin Ending, EndWith(o),
         o.kind = "Completed" => reported,
         o.kind = "Cancelled" /\ consumer # "dropped" => handle.cause = o.cause,
         task = "handing_over" => consumer = "dropped"
  PROVE  StreamInv'
<1> USE DEF StreamInv, EndWith, consuming
<1>1. TypeOK'
  <2>1. batch' = 0
    OBVIOUS
  <2>2. task' \in Stages
    BY DEF Stages
  <2> QED
    BY <2>1, <2>2, NoBatch DEF TypeOK
<1>2. VerdictIsLate' /\ VerdictIsRecorded'
  BY OutcomeTypes DEF VerdictIsLate, VerdictIsRecorded, Ending
<1>3. BufferShape' /\ TextsAccounted' /\ EndIsLast'
  <2>1. \A k \in 1..Len(buffer) : buffer[k] \notin Outcomes
    BY DEF BufferShape, Ending
  <2>2. seen \notin Outcomes /\ seen.kind \notin {"Completed", "Cancelled"}
    BY OutcomeTypes DEF EndIsLast, Ending, VerdictIsLate
  <2> QED
    BY <2>1, <2>2
       DEF BufferShape, TextsAccounted, TextsInBuffer, TextsInHand, HoldsEnd, EndIsLast, Ending
<1>4. SeenOutcomeIsRecorded' /\ CompletedMeansAll' /\ NoTaskLeavesARequestLive'
  BY DEF SeenOutcomeIsRecorded, CompletedMeansAll, NoTaskLeavesARequestLive, Ending
<1> QED
  BY <1>1, <1>2, <1>3, <1>4

LEMMA MovesKeep ==
  ASSUME StreamInv,
         \/ Encode \/ ObserveCancel \/ ObserveClosed \/ Expire \/ Proceed \/ FailTransport
         \/ Closed \/ Marker \/ Unusable \/ HandOverFails
  PROVE  StreamInv'
<1> USE DEF Encode, ObserveCancel, ObserveClosed, Expire, Proceed, FailTransport, Closed, Marker,
        Unusable, HandOverFails, Undisturbed, Waiting, Ending
<1>1. CASE \E s \in Plain : task \in Plain /\ Goto(s)
  BY <1>1, GotoKeeps
<1>2. CASE \E o \in Outcomes :
             /\ task \notin Ending /\ EndWith(o)
             /\ o.kind = "Completed" => reported
             /\ o.kind = "Cancelled" /\ consumer # "dropped" => handle.cause = o.cause
             /\ task = "handing_over" => consumer = "dropped"
  BY <1>2, EndWithKeeps
<1>3. CASE (Encode /\ Goto("connecting")) \/ Expire \/ Proceed
  BY <1>1, <1>3 DEF Plain, Stages, Blocked
<1>4. CASE ObserveCancel
  <2>1. handle.cause \in Causes
    BY <1>4 DEF StreamInv, TypeOK, Handles
  <2> DEFINE o == Outcome("Cancelled", handle.cause)
  <2>2. o \in Outcomes /\ o.kind = "Cancelled" /\ o.cause = handle.cause
    BY <2>1, OutcomeTypes DEF Outcome
  <2> QED
    BY <1>2, <1>4, <2>2
<1>5. CASE ObserveClosed \/ HandOverFails
  <2> DEFINE o == Outcome("Cancelled", "ConsumerGone")
  <2>1. o \in Outcomes /\ o.kind = "Cancelled"
    BY OutcomeTypes DEF Causes
  <2> QED
    BY <1>2, <1>5, <2>1
<1>6. CASE (Encode /\ EndWith(Outcome("Failed", "none"))) \/ FailTransport \/ Unusable
  <2> DEFINE o == Outcome("Failed", "none")
  <2>1. o \in Outcomes /\ o.kind = "Failed"
    BY OutcomeTypes
  <2> QED
    BY <1>2, <1>6, <2>1
<1>7. CASE Closed \/ Marker
  <2>1. EndOfBody \in Outcomes /\ EndOfBody.kind # "Cancelled"
    BY OutcomeTypes DEF EndOfBody, Outcome
  <2>2. EndOfBody.kind = "Completed" => reported
    BY OutcomeTypes DEF EndOfBody, Outcome
  <2> QED
    BY <1>2, <1>7, <2>1, <2>2
<1> QED
  BY <1>3, <1>4, <1>5, <1>6, <1>7

-----------------------------------------------------------------------------
(* What a step of the task away from the buffer keeps without more ado.    *)

LEMMA BufferUndisturbed ==
  ASSUME StreamInv, UNCHANGED <<texts, buffer, consuming>>,
         task \notin {"handing_over", "over"}, task' \notin {"handing_over", "over"},
         task \notin Ending \/ verdict' = verdict
  PROVE  BufferShape' /\ TextsAccounted' /\ EndIsLast'
<1>1. \A k \in 1..Len(buffer) : buffer[k] \notin Outcomes
  BY DEF StreamInv, BufferShape
<1>2. (seen \notin Outcomes /\ seen.kind \notin {"Completed", "Cancelled"}) \/ verdict' = verdict
  BY OutcomeTypes DEF StreamInv, EndIsLast, Ending, VerdictIsLate
<1> QED
  BY <1>1, <1>2
     DEF StreamInv, BufferShape, TextsAccounted, TextsInBuffer, TextsInHand, HoldsEnd, EndIsLast,
         consuming

(* Until the handle is terminal nobody has seen an end. *)
LEMMA SeenUndisturbed ==
  ASSUME StreamInv, UNCHANGED consuming,
         IsTerminal(handle) => handle' = handle /\ reported' = reported /\ texts' = texts,
         task' = "over" => IsTerminal(handle')
  PROVE  SeenOutcomeIsRecorded' /\ CompletedMeansAll' /\ NoTaskLeavesARequestLive'
<1>1. CASE IsTerminal(handle)
  BY <1>1 DEF StreamInv, SeenOutcomeIsRecorded, CompletedMeansAll, NoTaskLeavesARequestLive,
              IsTerminal, consuming
<1>2. CASE ~IsTerminal(handle)
  <2>1. consumer # "finished" /\ seen.kind \notin {"Completed", "Cancelled"} /\ ~verified
    BY <1>2 DEF StreamInv, SeenOutcomeIsRecorded, CompletedMeansAll, IsTerminal, TerminalStates
  <2> QED
    BY <2>1 DEF SeenOutcomeIsRecorded, CompletedMeansAll, NoTaskLeavesARequestLive, consuming
<1> QED
  BY <1>1, <1>2

-----------------------------------------------------------------------------
(* The task and the handle.                                                *)

LEMMA ClaimExpiryKeeps ==
  ASSUME StreamInv, ClaimExpiry
  PROVE  StreamInv'
<1> DEFINE c == "StreamIdleTimeout"
           h == CancelToken(handle, c)
           o == Outcome("Cancelled", h.cause)
<1>1. /\ handle \in Handles /\ ~IsTerminal(handle)
      /\ task = "expired" /\ task' = "stopping" /\ handle' = h /\ verdict' = o
      /\ UNCHANGED <<batch, reported, texts, buffer, consuming>>
  BY DEF ClaimExpiry, WinningCause, StreamInv, TypeOK, VerdictIsLate
<1>2. h \in Handles /\ h.cause \in Causes /\ ~IsTerminal(h)
  BY <1>1, CancelTokenKeeps DEF Causes, IsTerminal
<1>3. o \in Outcomes /\ o.kind = "Cancelled" /\ o.cause = h.cause
  BY <1>2, OutcomeTypes DEF Outcome
<1> HIDE DEF h, o
<1>4. TypeOK'
  BY <1>1, <1>2, <1>3 DEF StreamInv, TypeOK, Stages, consuming
<1>5. VerdictIsLate' /\ VerdictIsRecorded'
  BY <1>1, <1>2, <1>3 DEF StreamInv, VerdictIsLate, VerdictIsRecorded, Ending
<1>6. BufferShape' /\ TextsAccounted' /\ EndIsLast'
  BY <1>1, BufferUndisturbed DEF Ending
<1>7. SeenOutcomeIsRecorded' /\ CompletedMeansAll' /\ NoTaskLeavesARequestLive'
  BY <1>1, SeenUndisturbed
<1> QED
  BY <1>4, <1>5, <1>6, <1>7 DEF StreamInv

LEMMA AnsweredKeeps ==
  ASSUME StreamInv, Answered
  PROVE  StreamInv'
<1>1. /\ handle \in Handles /\ ~IsTerminal(handle) /\ verdict = Nothing
      /\ task = "answered" /\ task' \in {"reading", "refused"} /\ handle' = MarkRunning(handle)
      /\ UNCHANGED <<batch, reported, texts, verdict, buffer, consuming>>
  BY DEF Answered, StreamInv, TypeOK, VerdictIsLate, Ending
<1>2. handle' \in Handles /\ ~IsTerminal(handle')
  BY <1>1, MarkRunningKeeps
<1>3. TypeOK'
  BY <1>1, <1>2 DEF StreamInv, TypeOK, Stages, Waiting, consuming
<1>4. VerdictIsLate' /\ VerdictIsRecorded'
  BY <1>1, <1>2, OutcomeTypes DEF StreamInv, VerdictIsLate, VerdictIsRecorded, Ending
<1>5. BufferShape' /\ TextsAccounted' /\ EndIsLast'
  BY <1>1, BufferUndisturbed
<1>6. SeenOutcomeIsRecorded' /\ CompletedMeansAll' /\ NoTaskLeavesARequestLive'
  BY <1>1, SeenUndisturbed
<1> QED
  BY <1>3, <1>4, <1>5, <1>6 DEF StreamInv

LEMMA RecordCauseKeeps ==
  ASSUME StreamInv, RecordCause
  PROVE  StreamInv'
<1>1. /\ handle \in Handles /\ ~IsTerminal(handle) /\ verdict.cause \in Causes
      /\ verdict \in Outcomes /\ verdict.kind = "Cancelled"
      /\ task = "stopping" /\ task' = "recording"
      /\ handle' = RequestCancellation(handle, verdict.cause)
      /\ UNCHANGED <<batch, reported, texts, verdict, buffer, consuming>>
  BY OutcomeTypes DEF RecordCause, StreamInv, TypeOK, VerdictIsLate, Ending
<1>2. /\ handle' \in Handles /\ ~IsTerminal(handle')
      /\ handle.cause = verdict.cause => handle'.cause = verdict.cause
  BY <1>1, RequestCancellationKeeps DEF Causes
<1>3. TypeOK'
  BY <1>1, <1>2 DEF StreamInv, TypeOK, Stages, consuming
<1>4. VerdictIsLate' /\ VerdictIsRecorded'
  BY <1>1, <1>2 DEF StreamInv, VerdictIsLate, VerdictIsRecorded, Ending, consuming
<1>5. BufferShape' /\ TextsAccounted' /\ EndIsLast'
  BY <1>1, BufferUndisturbed
<1>6. SeenOutcomeIsRecorded' /\ CompletedMeansAll' /\ NoTaskLeavesARequestLive'
  BY <1>1, SeenUndisturbed
<1> QED
  BY <1>3, <1>4, <1>5, <1>6 DEF StreamInv

LEMMA RecordOutcomeKeeps ==
  ASSUME StreamInv, RecordOutcome
  PROVE  StreamInv'
<1>1. /\ handle \in Handles /\ ~IsTerminal(handle)
      /\ verdict \in Outcomes /\ verdict.kind \in TerminalStates
      /\ task = "recording" /\ task' = "announcing" /\ handle' = Finish(handle, verdict.kind)
      /\ UNCHANGED <<batch, reported, texts, verdict, buffer, consuming>>
  BY OutcomeTypes DEF RecordOutcome, StreamInv, TypeOK, VerdictIsLate, Ending
<1>2. /\ handle' \in Handles /\ IsTerminal(handle') /\ handle'.cause = handle.cause
      /\ handle'.state = verdict.kind
  BY <1>1, FinishKeeps
<1>3. TypeOK'
  BY <1>1, <1>2 DEF StreamInv, TypeOK, Stages, Blocked, consuming
<1>4. VerdictIsLate' /\ VerdictIsRecorded'
  BY <1>1, <1>2 DEF StreamInv, VerdictIsLate, VerdictIsRecorded, Ending, consuming
<1>5. BufferShape' /\ TextsAccounted' /\ EndIsLast'
  BY <1>1, BufferUndisturbed
<1>6. SeenOutcomeIsRecorded' /\ CompletedMeansAll' /\ NoTaskLeavesARequestLive'
  BY <1>1, SeenUndisturbed
<1> QED
  BY <1>3, <1>4, <1>5, <1>6 DEF StreamInv

LEMMA VanishKeeps ==
  ASSUME StreamInv, Vanish
  PROVE  StreamInv'
<1>1. /\ handle \in Handles /\ task \notin {"over", "stopping", "recording"} /\ task' = "over"
      /\ task = "announcing" => handle' = handle /\ IsTerminal(handle)
      /\ task # "announcing" =>
           /\ ~IsTerminal(handle) /\ handle' = Finish(handle, "Failed")
           /\ task \notin Ending /\ verdict = Nothing
      /\ UNCHANGED <<batch, reported, texts, verdict, buffer, consuming>>
  BY DEF Vanish, StreamInv, TypeOK, VerdictIsLate, Ending, Waiting, Blocked
<1>2. /\ handle' \in Handles /\ IsTerminal(handle') /\ handle'.cause = handle.cause
      /\ IsTerminal(handle) => handle' = handle
  BY <1>1, FinishKeeps DEF TerminalStates
<1>3. TypeOK'
  BY <1>1, <1>2 DEF StreamInv, TypeOK, Stages, consuming
<1>4. VerdictIsLate' /\ VerdictIsRecorded'
  BY <1>1, <1>2, OutcomeTypes
     DEF StreamInv, VerdictIsLate, VerdictIsRecorded, Ending, consuming
<1>5. BufferShape' /\ EndIsLast'
  BY <1>1 DEF StreamInv, BufferShape, EndIsLast, consuming
<1>6. TextsAccounted'
  <2>1. TextsInBuffer' = TextsInBuffer /\ TextsInHand' = 0
    BY <1>1 DEF TextsInBuffer, TextsInHand, HoldsEnd, consuming
  <2>2. task = "announcing" => TextsInHand = 0
    BY DEF TextsInHand
  <2>3. TextsInHand \in {0, 1} /\ TextsInBuffer \in Int /\ deltas \in Int /\ texts \in Int
    BY BoundsAssumption, LenProperties DEF TextsInHand, TextsInBuffer, StreamInv, TypeOK
  <2> QED
    BY <1>1, <2>1, <2>2, <2>3, OutcomeTypes DEF StreamInv, TextsAccounted, consuming
<1>7. SeenOutcomeIsRecorded' /\ CompletedMeansAll' /\ NoTaskLeavesARequestLive'
  BY <1>1, <1>2, SeenUndisturbed
<1> QED
  BY <1>3, <1>4, <1>5, <1>6, <1>7 DEF StreamInv

LEMMA CancelKeeps ==
  ASSUME StreamInv, NEW c \in {"User", "InstanceUnloading"}, Cancel(c)
  PROVE  StreamInv'
<1>1. /\ handle \in Handles /\ c \in Causes /\ handle' = RequestCancellation(handle, c)
      /\ UNCHANGED <<producing, buffer, consuming>>
  BY DEF Cancel, StreamInv, TypeOK, Causes
<1>2. /\ handle' \in Handles /\ (IsTerminal(handle') <=> IsTerminal(handle))
      /\ IsTerminal(handle) => handle' = handle
      /\ handle.cause # "none" => handle'.cause = handle.cause
  BY <1>1, RequestCancellationKeeps
<1>3. TypeOK'
  BY <1>1, <1>2 DEF StreamInv, TypeOK, producing, consuming
<1>4. VerdictIsLate' /\ VerdictIsRecorded'
  <2>1. verdict.kind = "Cancelled" => verdict.cause # "none"
    BY OutcomeTypes DEF StreamInv, TypeOK, Causes
  <2>2. task \in {"announcing", "over"} => IsTerminal(handle)
    BY DEF StreamInv, VerdictIsLate
  <2> QED
    BY <1>1, <1>2, <2>1, <2>2
       DEF StreamInv, VerdictIsLate, VerdictIsRecorded, producing, consuming
<1>5. BufferShape' /\ TextsAccounted' /\ EndIsLast'
  BY <1>1 DEF StreamInv, BufferShape, TextsAccounted, TextsInBuffer, TextsInHand, HoldsEnd,
              EndIsLast, producing, consuming
<1>6. SeenOutcomeIsRecorded' /\ CompletedMeansAll' /\ NoTaskLeavesARequestLive'
  <2>1. UNCHANGED <<task, reported, texts>>
    BY <1>1 DEF producing
  <2> QED
    BY <1>1, <1>2, <2>1, SeenUndisturbed DEF StreamInv, NoTaskLeavesARequestLive
<1> QED
  BY <1>3, <1>4, <1>5, <1>6 DEF StreamInv

-----------------------------------------------------------------------------
(* The task and what the backend sends.                                    *)

LEMMA FrameKeeps ==
  ASSUME StreamInv, Frame
  PROVE  StreamInv'
<1>1. /\ task = "reading" /\ verdict = Nothing /\ ~IsTerminal(handle)
      /\ batch' \in 0..MaxBatch /\ task' = IF batch' = 0 THEN "reading" ELSE "decoding"
      /\ UNCHANGED <<handle, reported, texts, verdict, buffer, consuming>>
  BY DEF Frame, StreamInv, VerdictIsLate, Ending
<1>2. TypeOK'
  BY <1>1 DEF StreamInv, TypeOK, Stages, Waiting, consuming
<1>3. VerdictIsLate' /\ VerdictIsRecorded'
  <2>1. batch' # 0 => batch' > 0
    BY <1>1, BoundsAssumption
  <2> QED
    BY <1>1, <2>1, OutcomeTypes DEF StreamInv, VerdictIsLate, VerdictIsRecorded, Ending
<1>4. BufferShape' /\ TextsAccounted' /\ EndIsLast'
  BY <1>1, BufferUndisturbed
<1>5. SeenOutcomeIsRecorded' /\ CompletedMeansAll' /\ NoTaskLeavesARequestLive'
  BY <1>1, SeenUndisturbed
<1> QED
  BY <1>2, <1>3, <1>4, <1>5 DEF StreamInv

LEMMA PayloadKeeps ==
  ASSUME StreamInv, NEW finishes \in BOOLEAN, NEW hasText \in BOOLEAN, Payload(finishes, hasText)
  PROVE  StreamInv'
<1>1. /\ task = "decoding" /\ verdict = Nothing /\ ~IsTerminal(handle)
      /\ reported' = (reported \/ finishes)
      /\ UNCHANGED <<handle, verdict, buffer, consuming>>
  BY DEF Payload, StreamInv, VerdictIsLate, Ending
<1>2. batch \in 1..MaxBatch /\ batch - 1 \in 0..MaxBatch
  BY <1>1, BoundsAssumption DEF StreamInv, TypeOK, VerdictIsLate
<1>3. \/ texts < MaxTexts /\ texts' = texts + 1 /\ task' = "handing_over" /\ batch' = batch - 1
      \/ texts' = texts /\ batch' = batch - 1
         /\ task' = IF batch - 1 = 0 THEN "reading" ELSE "decoding"
  BY DEF Payload, Resume
<1>4. TypeOK'
  <2>1. texts' \in 0..MaxTexts /\ batch' \in 0..MaxBatch /\ reported' \in BOOLEAN
    BY <1>1, <1>2, <1>3, BoundsAssumption DEF StreamInv, TypeOK
  <2>2. task' \in Stages
    BY <1>3 DEF Stages, Waiting, Blocked
  <2> QED
    BY <1>1, <2>1, <2>2 DEF StreamInv, TypeOK, consuming
<1>5. VerdictIsLate' /\ VerdictIsRecorded'
  <2>1. task' = "decoding" => batch' > 0
    BY <1>2, <1>3
  <2> QED
    BY <1>1, <1>3, <2>1, OutcomeTypes DEF StreamInv, VerdictIsLate, VerdictIsRecorded, Ending
<1>6. BufferShape' /\ EndIsLast'
  <2>1. task # "over" /\ task' # "over"
    BY <1>1, <1>3
  <2> QED
    BY <1>1, <2>1 DEF StreamInv, BufferShape, EndIsLast, consuming
<1>7. TextsAccounted'
  <2>1. TextsInBuffer' = TextsInBuffer /\ TextsInBuffer \in Int
    BY <1>1, LenProperties DEF TextsInBuffer, HoldsEnd, consuming, StreamInv, TypeOK
  <2>2. deltas \in Nat /\ texts \in Nat
    BY BoundsAssumption DEF StreamInv, TypeOK
  <2>3. TextsInHand = 0 /\ texts' = texts + TextsInHand'
    BY <1>1, <1>3, <2>2 DEF TextsInHand
  <2>4. TextsInHand' \in Nat
    BY DEF TextsInHand
  <2>5. deltas <= texts /\ (consumer # "dropped" => deltas + TextsInBuffer = texts)
    BY <1>1, <2>1, <2>2, <2>3 DEF StreamInv, TextsAccounted
  <2>6. /\ deltas <= texts'
        /\ consumer # "dropped" => deltas + TextsInBuffer + TextsInHand' = texts'
    <3>1. deltas <= texts'
      <4>1. texts <= texts' /\ texts' \in Nat
        BY <1>3, <2>2
      <4> QED
        BY <2>2, <2>5, <4>1
    <3>2. ASSUME deltas + TextsInBuffer = texts
          PROVE  deltas + TextsInBuffer + TextsInHand' = texts'
      BY <2>1, <2>2, <2>3, <2>4, <3>2
    <3> QED
      BY <2>5, <3>1, <3>2
  <2>7. UNCHANGED <<deltas, consumer>> /\ TextsInBuffer' = TextsInBuffer
    BY <1>1, <2>1 DEF consuming
  <2>8. deltas + TextsInBuffer + TextsInHand' \in Int /\ texts' \in Int
    BY <2>1, <2>2, <2>3, <2>4
  <2> QED
    BY <2>6, <2>7, <2>8 DEF TextsAccounted
<1>8. SeenOutcomeIsRecorded' /\ CompletedMeansAll' /\ NoTaskLeavesARequestLive'
  BY <1>1, <1>3, SeenUndisturbed
<1> QED
  BY <1>4, <1>5, <1>6, <1>7, <1>8 DEF StreamInv

-----------------------------------------------------------------------------
(* The buffer.                                                             *)

LEMMA HandOverKeeps ==
  ASSUME StreamInv, HandOver
  PROVE  StreamInv'
<1>1. /\ task = "handing_over" /\ consumer # "dropped" /\ Len(buffer) < Capacity
      /\ verdict = Nothing /\ ~IsTerminal(handle)
      /\ task' = IF batch = 0 THEN "reading" ELSE "decoding"
      /\ buffer' = Append(buffer, TextDelta)
      /\ UNCHANGED <<handle, batch, reported, texts, verdict, consuming>>
  BY DEF HandOver, Resume, StreamInv, VerdictIsLate, Ending
<1>0. buffer \in Seq(Events) /\ TextDelta \in Events
  BY DEF StreamInv, TypeOK, Events
<1>2. Len(buffer) \in Nat /\ batch \in Nat /\ deltas \in Nat /\ texts \in Nat
  BY BoundsAssumption, LenProperties DEF StreamInv, TypeOK
<1>3. /\ buffer' \in Seq(Events) /\ Len(buffer') = Len(buffer) + 1 /\ buffer' # <<>>
      /\ \A k \in 1..Len(buffer) : buffer'[k] = buffer[k]
      /\ buffer'[Len(buffer) + 1] = TextDelta
  BY <1>0, <1>1, AppendProperties
<1>4. TextDelta \notin Outcomes /\ TextDelta # Started
  BY OutcomeTypes
<1>5. TypeOK'
  <2>1. Len(buffer') <= Capacity
    BY <1>1, <1>2, <1>3, BoundsAssumption
  <2>2. task' \in Stages
    BY <1>1 DEF Stages, Waiting
  <2> QED
    BY <1>1, <1>3, <2>1, <2>2 DEF StreamInv, TypeOK, consuming
<1>6. VerdictIsLate' /\ VerdictIsRecorded'
  <2>1. task' = "decoding" => batch' > 0
    BY <1>1, <1>2
  <2> QED
    BY <1>1, <2>1, OutcomeTypes
       DEF StreamInv, VerdictIsLate, VerdictIsRecorded, Ending, consuming
<1>7. \A k \in 1..Len(buffer) : buffer[k] \notin Outcomes
  BY <1>1 DEF StreamInv, BufferShape
<1>8. BufferShape'
  <2>1. seen = Nothing => Len(buffer) >= 1
    BY <1>0, <1>1, <1>2, EmptySeq DEF StreamInv, BufferShape
  <2>2. ASSUME NEW k \in 1..Len(buffer')
        PROVE  /\ buffer'[k] = Started <=> k = 1 /\ seen = Nothing
               /\ buffer'[k] \notin Outcomes
    <3>1. CASE k = Len(buffer) + 1
      BY <1>2, <1>3, <1>4, <2>1, <3>1
    <3>2. CASE k \in 1..Len(buffer)
      BY <1>3, <1>7, <3>2 DEF StreamInv, BufferShape
    <3> QED
      BY <1>2, <1>3, <2>2, <3>1, <3>2
  <2> QED
    BY <1>1, <1>3, <2>2 DEF BufferShape, consuming
<1>9. TextsAccounted'
  <2>1. ~HoldsEnd /\ ~HoldsEnd'
    <3>1. buffer # <<>> => Len(buffer) \in 1..Len(buffer)
      BY <1>0, EmptySeq
    <3> QED
      BY <1>2, <1>3, <1>4, <1>7, <3>1 DEF HoldsEnd
  <2>2. TextsInBuffer' = TextsInBuffer + 1 /\ TextsInBuffer \in Int
    BY <1>1, <1>2, <1>3, <2>1 DEF TextsInBuffer, consuming
  <2>3. TextsInHand = 1 /\ TextsInHand' = 0 /\ task' # "over" /\ task # "over"
    BY <1>1 DEF TextsInHand
  <2> QED
    BY <1>1, <1>2, <2>2, <2>3 DEF StreamInv, TextsAccounted, consuming
<1>10. EndIsLast'
  BY <1>1 DEF StreamInv, EndIsLast, consuming
<1>11. SeenOutcomeIsRecorded' /\ CompletedMeansAll' /\ NoTaskLeavesARequestLive'
  BY <1>1, SeenUndisturbed
<1> QED
  BY <1>5, <1>6, <1>8, <1>9, <1>10, <1>11 DEF StreamInv

LEMMA AnnounceKeeps ==
  ASSUME StreamInv, Announce
  PROVE  StreamInv'
<1>1. /\ task = "announcing" /\ task' = "over" /\ verdict \in Outcomes /\ IsTerminal(handle)
      /\ UNCHANGED <<handle, batch, reported, texts, verdict, consuming>>
  BY DEF Announce, StreamInv, VerdictIsLate, Ending
<1>0. buffer \in Seq(Events) /\ verdict \in Events
  BY <1>1 DEF StreamInv, TypeOK, Events
<1>2. Len(buffer) \in Nat /\ deltas \in Nat /\ texts \in Nat
  BY BoundsAssumption, LenProperties DEF StreamInv, TypeOK
<1>3. \/ consumer = "dropped" /\ buffer' = buffer
      \/ /\ consumer # "dropped" /\ Len(buffer) < Capacity
         /\ buffer' = Append(buffer, verdict)
  BY DEF Announce
<1>4. consumer # "dropped" =>
        /\ buffer' \in Seq(Events) /\ Len(buffer') = Len(buffer) + 1 /\ buffer' # <<>>
        /\ \A k \in 1..Len(buffer) : buffer'[k] = buffer[k]
        /\ buffer'[Len(buffer) + 1] = verdict
  BY <1>0, <1>3, AppendProperties
<1>5. consumer = "dropped" => buffer = <<>> /\ buffer' = <<>> /\ Len(buffer') = 0
  BY <1>3, EmptySeq DEF StreamInv, EndIsLast
<1>6. TypeOK'
  <2>1. buffer' \in Seq(Events) /\ Len(buffer') <= Capacity
    BY <1>2, <1>3, <1>4, BoundsAssumption DEF StreamInv, TypeOK
  <2> QED
    BY <1>1, <2>1 DEF StreamInv, TypeOK, Stages, consuming
<1>7. VerdictIsLate' /\ VerdictIsRecorded'
  BY <1>1 DEF StreamInv, VerdictIsLate, VerdictIsRecorded, Ending, consuming
<1>8. \A k \in 1..Len(buffer) : buffer[k] \notin Outcomes
  BY <1>1 DEF StreamInv, BufferShape
<1>9. BufferShape'
  <2>1. CASE consumer = "dropped"
    BY <1>1, <1>5, <2>1 DEF BufferShape, consuming
  <2>2. CASE consumer # "dropped"
    <3>1. seen = Nothing => Len(buffer) >= 1
      BY <1>0, <2>2, EmptySeq DEF StreamInv, BufferShape
    <3>2. ASSUME NEW k \in 1..Len(buffer')
          PROVE  /\ buffer'[k] = Started <=> k = 1 /\ seen = Nothing
                 /\ buffer'[k] \in Outcomes => k = Len(buffer') /\ buffer'[k] = verdict
      <4>1. CASE k = Len(buffer) + 1
        BY <1>1, <1>2, <1>4, <2>2, <3>1, <4>1, OutcomeTypes
      <4>2. CASE k \in 1..Len(buffer)
        BY <1>4, <1>8, <2>2, <4>2 DEF StreamInv, BufferShape
      <4> QED
        BY <1>2, <1>4, <2>2, <3>2, <4>1, <4>2
    <3> QED
      BY <1>1, <1>4, <2>2, <3>2 DEF BufferShape, consuming
  <2> QED
    BY <2>1, <2>2
<1>10. TextsAccounted'
  <2>1. CASE consumer = "dropped"
    BY <1>1, <2>1 DEF StreamInv, TextsAccounted, consuming
  <2>2. CASE consumer # "dropped"
    <3>1. ~HoldsEnd /\ HoldsEnd'
      <4>1. buffer # <<>> => Len(buffer) \in 1..Len(buffer)
        BY <1>0, EmptySeq
      <4> QED
        BY <1>1, <1>2, <1>4, <1>8, <2>2, <4>1 DEF HoldsEnd
    <3>2. TextsInBuffer' = TextsInBuffer /\ TextsInBuffer \in Int
      BY <1>1, <1>2, <1>4, <2>2, <3>1 DEF TextsInBuffer, consuming
    <3>3. TextsInHand = 0 /\ TextsInHand' = 0 /\ task # "over"
      BY <1>1 DEF TextsInHand
    <3> QED
      BY <1>1, <1>2, <3>2, <3>3 DEF StreamInv, TextsAccounted, consuming
  <2> QED
    BY <2>1, <2>2
<1>11. EndIsLast'
  BY <1>1, <1>5 DEF StreamInv, EndIsLast, consuming
<1>12. SeenOutcomeIsRecorded' /\ CompletedMeansAll' /\ NoTaskLeavesARequestLive'
  BY <1>1, SeenUndisturbed
<1> QED
  BY <1>6, <1>7, <1>9, <1>10, <1>11, <1>12 DEF StreamInv

-----------------------------------------------------------------------------
(* The consumer.                                                           *)

LEMMA ReadKeeps ==
  ASSUME StreamInv, Read
  PROVE  StreamInv'
<1> DEFINE first == Head(buffer)
<1>1. /\ consumer = "reading" /\ buffer # <<>> /\ seen' = first /\ buffer' = Tail(buffer)
      /\ deltas' = IF first = TextDelta THEN deltas + 1 ELSE deltas
      /\ consumer' = IF first \in Outcomes THEN "finished" ELSE "reading"
      /\ UNCHANGED <<handle, task, batch, reported, texts, verdict, verified>>
  BY DEF Read, producing
<1>2. buffer \in Seq(Events)
  BY DEF StreamInv, TypeOK
<1>3. Len(buffer) \in Nat /\ Len(buffer) > 0 /\ deltas \in Nat /\ texts \in Nat
  BY <1>1, <1>2, BoundsAssumption, EmptySeq, LenProperties DEF StreamInv, TypeOK
<1>4. /\ first \in Events /\ first = buffer[1]
      /\ buffer' \in Seq(Events) /\ Len(buffer') = Len(buffer) - 1
      /\ \A k \in 1..Len(buffer') : buffer'[k] = buffer[k + 1]
  BY <1>1, <1>2, HeadTailProperties
<1>5. /\ first = Started <=> seen = Nothing
      /\ first \in Outcomes => Len(buffer) = 1 /\ first = verdict /\ task = "over"
      /\ \A k \in 1..Len(buffer') :
           /\ buffer'[k] # Started
           /\ buffer'[k] \in Outcomes =>
                k = Len(buffer') /\ buffer'[k] = verdict /\ task = "over"
  <2>1. 1 \in 1..Len(buffer) /\ \A k \in 1..Len(buffer') : k + 1 \in 1..Len(buffer) /\ k + 1 # 1
    BY <1>3, <1>4
  <2>2. \A k \in 1..Len(buffer) :
          /\ buffer[k] = Started <=> k = 1 /\ seen = Nothing
          /\ buffer[k] \in Outcomes => k = Len(buffer) /\ buffer[k] = verdict /\ task = "over"
    BY DEF StreamInv, BufferShape
  <2>3. \A k \in 1..Len(buffer') : k + 1 = Len(buffer) => k = Len(buffer')
    BY <1>3, <1>4
  <2> QED
    BY <1>4, <2>1, <2>2, <2>3
<1>6. first # Nothing /\ (first \in Outcomes => first # TextDelta /\ first # Started)
      /\ (first \in Outcomes \/ first = Started \/ first = TextDelta) /\ Started # TextDelta
  BY <1>4, OutcomeTypes DEF Events
<1>7. BufferShape'
  BY <1>1, <1>5, <1>6 DEF BufferShape
<1>8. TextsInBuffer' = TextsInBuffer - (IF first = TextDelta THEN 1 ELSE 0)
  <2>1. CASE Len(buffer) = 1
    <3>1. Len(buffer') = 0 /\ ~HoldsEnd'
      BY <1>2, <1>4, <2>1, EmptySeq DEF HoldsEnd
    <3>2. HoldsEnd <=> first \in Outcomes
      BY <1>1, <1>4, <2>1 DEF HoldsEnd
    <3>3. TextsInBuffer' = 0
      BY <1>1, <1>6, <3>1 DEF TextsInBuffer
    <3>4. TextsInBuffer = IF first = TextDelta THEN 1 ELSE 0
      <4>1. CASE first = TextDelta
        BY <1>5, <1>6, <2>1, <3>2, <4>1 DEF TextsInBuffer
      <4>2. CASE first = Started
        BY <1>5, <1>6, <2>1, <3>2, <4>2 DEF TextsInBuffer
      <4>3. CASE first \in Outcomes
        BY <1>5, <1>6, <2>1, <3>2, <4>3 DEF TextsInBuffer
      <4> QED
        BY <1>6, <4>1, <4>2, <4>3
    <3> QED
      BY <3>3, <3>4
  <2>2. CASE Len(buffer) # 1
    <3>1. Len(buffer') \in 1..Len(buffer') /\ buffer' # <<>> /\ Len(buffer') + 1 = Len(buffer)
      BY <1>3, <1>4, <2>2, EmptySeq
    <3>2. HoldsEnd' <=> HoldsEnd
      BY <1>1, <1>4, <3>1 DEF HoldsEnd
    <3>3. first \notin Outcomes
      BY <1>5, <2>2
    <3> DEFINE end == IF HoldsEnd THEN 1 ELSE 0
    <3>4. TextsInBuffer' = Len(buffer) - 1 - end /\ end \in Nat
      BY <1>1, <1>3, <1>4, <1>6, <3>2 DEF TextsInBuffer
    <3>5. TextsInBuffer = Len(buffer) - (IF first = TextDelta THEN 0 ELSE 1) - end
      <4>1. CASE first = TextDelta
        BY <1>3, <1>5, <1>6, <4>1 DEF TextsInBuffer
      <4>2. CASE first = Started
        BY <1>3, <1>5, <1>6, <4>2 DEF TextsInBuffer
      <4> QED
        BY <1>6, <3>3, <4>1, <4>2
    <3> QED
      BY <1>3, <3>4, <3>5
  <2> QED
    BY <2>1, <2>2
<1>9. TextsAccounted' /\ deltas' \in 0..MaxTexts
  <2>1. TextsInBuffer \in Int /\ TextsInBuffer' \in Int /\ TextsInHand \in Nat
        /\ TextsInHand' = TextsInHand
    BY <1>1, <1>3, <1>4 DEF TextsInBuffer, TextsInHand
  <2>2. TextsInBuffer' >= 0
    <3>1. HoldsEnd' => Len(buffer') >= 1
      BY <1>4, EmptySeq DEF HoldsEnd
    <3> QED
      BY <1>1, <1>3, <1>4, <1>6, <3>1 DEF TextsInBuffer
  <2>3. deltas' + TextsInBuffer' = deltas + TextsInBuffer /\ deltas' \in Nat
    BY <1>1, <1>3, <1>8, <2>1
  <2>4. /\ deltas + TextsInBuffer + TextsInHand <= texts
        /\ task # "over" \/ verdict.kind = "Completed" =>
             deltas + TextsInBuffer + TextsInHand = texts
    BY <1>1 DEF StreamInv, TextsAccounted
  <2>5. /\ deltas' + TextsInBuffer' + TextsInHand' <= texts'
        /\ task' # "over" \/ verdict'.kind = "Completed" =>
             deltas' + TextsInBuffer' + TextsInHand' = texts'
    BY <1>1, <2>1, <2>3, <2>4
  <2>6. deltas' <= texts'
    <3>1. deltas + TextsInBuffer + TextsInHand <= texts
      BY <2>4
    <3>2. texts' = texts /\ texts \in Nat /\ deltas \in Nat
      BY <1>1, <1>3
    <3>3. deltas' \in Int /\ texts \in Int /\ deltas \in Int /\ TextsInHand \in Nat
          /\ TextsInBuffer \in Int /\ TextsInBuffer' \in Int
      BY <2>1, <2>3, <3>2
    <3>4. deltas' <= texts
      BY <2>2, <2>3, <3>1, <3>3, ReadIsAccounted, Zenon
    <3> QED
      BY <3>2, <3>4
  <2>7. deltas' \in 0..MaxTexts
    BY <1>1, <1>3, <2>3, <2>6, BoundsAssumption DEF StreamInv, TypeOK
  <2> QED
    BY <2>5, <2>6, <2>7 DEF TextsAccounted
<1>10. TypeOK'
  <2>1. Len(buffer') <= Capacity
    BY <1>3, <1>4, BoundsAssumption DEF StreamInv, TypeOK
  <2> QED
    BY <1>1, <1>4, <1>9, <2>1 DEF StreamInv, TypeOK
<1>11. VerdictIsLate' /\ VerdictIsRecorded'
  BY <1>1 DEF StreamInv, VerdictIsLate, VerdictIsRecorded
<1>12. EndIsLast' /\ ~verified
  <2>0. seen.kind # "Completed"
    BY <1>1, OutcomeTypes DEF StreamInv, TypeOK, EndIsLast
  <2>00. ~verified
    BY <2>0 DEF StreamInv, EndIsLast
  <2>1. first \in Outcomes => buffer' = <<>>
    BY <1>2, <1>4, <1>5, EmptySeq
  <2>2. first.kind \in {"Completed", "Cancelled"} => first \in Outcomes
    BY <1>6, OutcomeTypes
  <2> QED
    BY <1>1, <1>5, <1>6, <2>00, <2>1, <2>2 DEF EndIsLast
<1>13. SeenOutcomeIsRecorded'
  <2>1. first.kind \in {"Completed", "Cancelled"} => first \in Outcomes
    BY <1>6, OutcomeTypes
  <2>2. first \in Outcomes => IsTerminal(handle) /\ handle.state = first.kind
                              /\ (first.kind = "Cancelled" => handle.cause = first.cause)
    BY <1>1, <1>5, OutcomeTypes DEF StreamInv, VerdictIsLate, VerdictIsRecorded
  <2> QED
    BY <1>1, <2>1, <2>2 DEF SeenOutcomeIsRecorded
<1>14. CompletedMeansAll'
  <2>2. ASSUME first.kind = "Completed"
        PROVE  reported /\ deltas' = texts
    <3>1. first \in Outcomes /\ first = verdict /\ task = "over" /\ Len(buffer) = 1
      BY <1>5, <1>6, <2>2, OutcomeTypes
    <3>2. TextsInBuffer' = 0 /\ TextsInHand' = 0
      <4>1. buffer' = <<>>
        BY <1>2, <1>4, <3>1, EmptySeq
      <4> QED
        BY <1>1, <1>4, <1>6, <3>1, <4>1 DEF TextsInBuffer, TextsInHand, HoldsEnd
    <3>3. deltas' + 0 + 0 = texts /\ deltas' \in Int
      BY <1>1, <1>3, <1>9, <2>2, <3>1, <3>2 DEF TextsAccounted
    <3> QED
      BY <2>2, <3>1, <3>3 DEF StreamInv, VerdictIsLate
  <2> QED
    BY <1>1, <1>12, <2>2 DEF CompletedMeansAll
<1>15. NoTaskLeavesARequestLive'
  BY <1>1 DEF StreamInv, NoTaskLeavesARequestLive
<1> QED
  BY <1>7, <1>9, <1>10, <1>11, <1>12, <1>13, <1>14, <1>15 DEF StreamInv

LEMMA ReadEndKeeps ==
  ASSUME StreamInv, ReadEnd
  PROVE  StreamInv'
<1>1. /\ consumer = "reading" /\ buffer = <<>> /\ task = "over" /\ IsTerminal(handle)
      /\ consumer' = "finished" /\ seen' = Outcome("Failed", "none")
      /\ handle' = Finish(handle, "Failed") /\ handle \in Handles
      /\ UNCHANGED <<task, batch, reported, texts, verdict, buffer, deltas, verified>>
  BY DEF ReadEnd, producing, StreamInv, TypeOK, NoTaskLeavesARequestLive
<1>2. handle' = handle
  BY <1>1, FinishKeeps DEF TerminalStates
<1>3. seen' \in Outcomes /\ seen'.kind = "Failed" /\ seen' # Nothing /\ seen # Nothing
  BY <1>1, OutcomeTypes DEF StreamInv, BufferShape, Outcome
<1>4. seen.kind # "Completed" /\ ~verified
  BY <1>1, OutcomeTypes DEF StreamInv, TypeOK, EndIsLast
<1>5. TypeOK' /\ VerdictIsLate' /\ VerdictIsRecorded'
  BY <1>1, <1>2, <1>3 DEF StreamInv, TypeOK, Events, VerdictIsLate, VerdictIsRecorded
<1>6. BufferShape' /\ EndIsLast'
  BY <1>1, <1>3, <1>4, EmptySeq DEF BufferShape, EndIsLast
<1>7. TextsAccounted'
  <2>1. TextsInBuffer' = TextsInBuffer /\ TextsInHand' = TextsInHand
    BY <1>1, <1>3 DEF TextsInBuffer, TextsInHand, HoldsEnd
  <2> QED
    BY <1>1, <2>1 DEF StreamInv, TextsAccounted
<1>8. SeenOutcomeIsRecorded' /\ CompletedMeansAll' /\ NoTaskLeavesARequestLive'
  BY <1>1, <1>2, <1>3, <1>4
     DEF StreamInv, SeenOutcomeIsRecorded, CompletedMeansAll, NoTaskLeavesARequestLive
<1> QED
  BY <1>5, <1>6, <1>7, <1>8 DEF StreamInv

LEMMA DropStreamKeeps ==
  ASSUME StreamInv, DropStream
  PROVE  StreamInv'
<1>1. /\ consumer # "dropped" /\ consumer' = "dropped" /\ buffer' = <<>>
      /\ UNCHANGED <<handle, task, batch, reported, texts, verdict, seen, deltas, verified>>
  BY DEF DropStream, producing
<1>2. buffer' \in Seq(Events) /\ Len(buffer') = 0
  BY <1>1, EmptySeq
<1>3. TypeOK'
  <2>1. Len(buffer') <= Capacity
    BY <1>2, BoundsAssumption
  <2> QED
    BY <1>1, <1>2, <2>1 DEF StreamInv, TypeOK
<1>4. VerdictIsLate' /\ VerdictIsRecorded' /\ BufferShape' /\ TextsAccounted'
  BY <1>1, <1>2
     DEF StreamInv, VerdictIsLate, VerdictIsRecorded, BufferShape, TextsAccounted
<1>5. EndIsLast'
  BY <1>1 DEF StreamInv, EndIsLast
<1>6. SeenOutcomeIsRecorded' /\ CompletedMeansAll' /\ NoTaskLeavesARequestLive'
  BY <1>1 DEF StreamInv, SeenOutcomeIsRecorded, CompletedMeansAll, NoTaskLeavesARequestLive
<1> QED
  BY <1>3, <1>4, <1>5, <1>6 DEF StreamInv

LEMMA RecordStreamKeeps ==
  ASSUME StreamInv, RecordStream
  PROVE  StreamInv'
<1>1. /\ seen.kind = "Completed" /\ deltas > 0 /\ verified'
      /\ UNCHANGED <<handle, task, batch, reported, texts, verdict, buffer, consumer, seen, deltas>>
      /\ verified' \in BOOLEAN
  BY DEF RecordStream, Demonstrated, producing
<1>2. TypeOK' /\ VerdictIsLate' /\ VerdictIsRecorded'
  BY <1>1 DEF StreamInv, TypeOK, VerdictIsLate, VerdictIsRecorded
<1>3. BufferShape' /\ TextsAccounted' /\ EndIsLast'
  BY <1>1 DEF StreamInv, BufferShape, TextsAccounted, TextsInBuffer, TextsInHand, HoldsEnd,
              EndIsLast
<1>4. SeenOutcomeIsRecorded' /\ CompletedMeansAll' /\ NoTaskLeavesARequestLive'
  BY <1>1 DEF StreamInv, SeenOutcomeIsRecorded, CompletedMeansAll, NoTaskLeavesARequestLive
<1> QED
  BY <1>2, <1>3, <1>4 DEF StreamInv

-----------------------------------------------------------------------------
(* The theorems.                                                           *)

LEMMA InitStream == Init => StreamInv
<1> SUFFICES ASSUME Init
             PROVE  StreamInv
  OBVIOUS
<1>1. /\ handle = NewHandle /\ task = "encoding" /\ batch = 0 /\ reported = FALSE /\ texts = 0
      /\ verdict = Nothing /\ buffer = <<Started>> /\ consumer = "reading" /\ seen = Nothing
      /\ deltas = 0 /\ verified = FALSE
  BY DEF Init
<1>2. buffer \in Seq(Events) /\ Len(buffer) = 1 /\ buffer[1] = Started /\ buffer # <<>>
  BY <1>1 DEF Events
<1>3. handle \in Handles /\ ~IsTerminal(handle)
  BY <1>1 DEF NewHandle, Handles, RequestStates, IsTerminal, TerminalStates
<1>4. TypeOK
  <2>1. Len(buffer) <= Capacity /\ 0 \in 0..MaxBatch /\ 0 \in 0..MaxTexts
    BY <1>2, BoundsAssumption
  <2> QED
    BY <1>1, <1>2, <1>3, <2>1 DEF TypeOK, Stages
<1>5. VerdictIsLate /\ VerdictIsRecorded
  BY <1>1, <1>3, OutcomeTypes DEF VerdictIsLate, VerdictIsRecorded, Ending
<1>6. BufferShape /\ EndIsLast
  <2>1. Started \notin Outcomes
    BY OutcomeTypes
  <2>2. \A k \in 1..Len(buffer) : k = 1
    BY <1>2
  <2> QED
    BY <1>1, <1>2, <2>1, <2>2, OutcomeTypes DEF BufferShape, EndIsLast
<1>7. TextsAccounted
  <2>1. ~HoldsEnd
    BY <1>2, OutcomeTypes DEF HoldsEnd
  <2>2. TextsInBuffer = 0 /\ TextsInHand = 0
    BY <1>1, <1>2, <2>1 DEF TextsInBuffer, TextsInHand
  <2> QED
    BY <1>1, <2>2 DEF TextsAccounted
<1>8. SeenOutcomeIsRecorded /\ CompletedMeansAll /\ NoTaskLeavesARequestLive
  BY <1>1, OutcomeTypes DEF SeenOutcomeIsRecorded, CompletedMeansAll, NoTaskLeavesARequestLive
<1> QED
  BY <1>4, <1>5, <1>6, <1>7, <1>8 DEF StreamInv

LEMMA StreamStep == StreamInv /\ [Next]_vars => StreamInv'
<1> SUFFICES ASSUME StreamInv, [Next]_vars
             PROVE  StreamInv'
  OBVIOUS
<1>1. CASE TaskStep
  <2>1. CASE \/ Encode \/ ObserveCancel \/ ObserveClosed \/ Expire \/ Proceed \/ FailTransport
             \/ Closed \/ Marker \/ Unusable \/ HandOverFails
    BY <2>1, MovesKeep
  <2>2. CASE ClaimExpiry \/ Answered \/ RecordCause \/ RecordOutcome
    BY <2>2, ClaimExpiryKeeps, AnsweredKeeps, RecordCauseKeeps, RecordOutcomeKeeps
  <2>3. CASE Frame \/ HandOver \/ Announce
    BY <2>3, FrameKeeps, HandOverKeeps, AnnounceKeeps
  <2>4. ASSUME NEW finishes \in BOOLEAN, NEW hasText \in BOOLEAN, Payload(finishes, hasText)
        PROVE  StreamInv'
    BY <2>4, PayloadKeeps
  <2> QED
    BY <1>1, <2>1, <2>2, <2>3, <2>4 DEF TaskStep
<1>2. CASE Vanish
  BY <1>2, VanishKeeps
<1>3. CASE Collect \/ DropStream \/ RecordStream
  BY <1>3, ReadKeeps, ReadEndKeeps, DropStreamKeeps, RecordStreamKeeps DEF Collect
<1>4. ASSUME NEW c \in {"User", "InstanceUnloading"}, Cancel(c)
      PROVE  StreamInv'
  BY <1>4, CancelKeeps
<1>5. CASE UNCHANGED vars
  BY <1>5 DEF vars, StreamInv, TypeOK, VerdictIsLate, VerdictIsRecorded, BufferShape,
              TextsAccounted, TextsInBuffer, TextsInHand, HoldsEnd, EndIsLast,
              SeenOutcomeIsRecorded, CompletedMeansAll, NoTaskLeavesARequestLive
<1> QED
  BY <1>1, <1>2, <1>3, <1>4, <1>5 DEF Next

(* What the task, the consumer and whoever stops the request do, in any    *)
(* order, keeps the invariant.                                             *)
THEOREM StreamInvariant == Spec => []StreamInv
  BY InitStream, StreamStep, PTL DEF Spec

(* A consumer and the handle never disagree about how a request ended, nor *)
(* about who stopped it (GenerationSink::end, GenerationStream::next).     *)
THEOREM EndsAgree == Spec => []SeenOutcomeIsRecorded
<1>1. StreamInv => SeenOutcomeIsRecorded
  BY DEF StreamInv
<1> QED
  BY <1>1, StreamInvariant, PTL

(* A truncated answer never passes for a finished one, and only a finished *)
(* one that had text verifies an instance (read, demonstrated_generation). *)
THEOREM CompletionIsWhole == Spec => []CompletedMeansAll
<1>1. StreamInv => CompletedMeansAll
  BY DEF StreamInv
<1> QED
  BY <1>1, StreamInvariant, PTL

(* However the task ends, its request has ended too (Drop for              *)
(* GenerationSink).                                                        *)
THEOREM NoRequestOutlivesItsTask == Spec => []NoTaskLeavesARequestLive
<1>1. StreamInv => NoTaskLeavesARequestLive
  BY DEF StreamInv
<1> QED
  BY <1>1, StreamInvariant, PTL

-----------------------------------------------------------------------------
(* Induction over positions.  The induction theorems of the library take a *)
(* predicate; here a property is the set of those that have it, and its    *)
(* least exception is the least element of a set of naturals.              *)

LEMMA LeastNatural ==
  ASSUME NEW T \in SUBSET Nat, T # {}
  PROVE  \E x \in T : \A y \in T : x <= y
<1>1. PICK R : R = OpToRel(<, Nat)
  OBVIOUS
<1>2. IsWellFoundedOn(R, Nat)
  BY <1>1, NatLessThanWellFounded, Zenon
<1>3. PICK x \in T : \A y \in T : <<y, x>> \notin R
  BY <1>2, WFMin
<1>4. R = {ss \in Nat \X Nat : ss[1] < ss[2]}
  BY <1>1, Zenon DEF OpToRel
<1>5. \A y \in T : ~(y < x)
  BY <1>3, <1>4
<1> QED
  BY <1>5

(* Induction up to a bound, for a property given as the set of those that  *)
(* have it.                                                                *)
LEMMA BoundedInduction ==
  ASSUME NEW n \in Nat, NEW Good, 0 \in Good, \A k \in 0..n-1 : k \in Good => k + 1 \in Good
  PROVE  0..n \subseteq Good
<1> DEFINE Bad == {k \in 0..n : k \notin Good}
<1>1. SUFFICES ASSUME Bad # {}
               PROVE  FALSE
  OBVIOUS
<1>2. PICK x \in Bad : \A y \in Bad : x <= y
  <2>1. Bad \in SUBSET Nat
    OBVIOUS
  <2> HIDE DEF Bad
  <2> QED
    BY <1>1, <2>1, LeastNatural
<1>3. x # 0 /\ x - 1 \in 0..n-1
  BY <1>2
<1>4. x - 1 \notin Good
  BY <1>2, <1>3
<1> QED
  BY <1>2, <1>3, <1>4

LEMMA LatestIsLast ==
  ASSUME NEW n \in Nat, NEW T \in SUBSET (1..n)
  PROVE  /\ T = {} => Latest(T) = 0
         /\ T # {} => Latest(T) \in T
         /\ Latest(T) \in 0..n
         /\ \A y \in T : y <= Latest(T)
<1>1. CASE T = {}
  BY <1>1 DEF Latest
<1>2. CASE T # {}
  <2> DEFINE D == {d \in 0..n : n - d \in T}
  <2>1. PICK y \in T : y \in 1..n
    BY <1>2
  <2>2. n - y \in D
    BY <2>1
  <2>3. PICK d \in D : \A e \in D : d <= e
    <3>1. D \in SUBSET Nat
      OBVIOUS
    <3> HIDE DEF D
    <3> QED
      BY <2>2, <3>1, LeastNatural
  <2>4. \A z \in T : n - z \in D
    OBVIOUS
  <2>5. n - d \in T /\ \A z \in T : n - d >= z
    BY <2>3, <2>4
  <2>6. Max(T) \in T /\ \A z \in T : Max(T) >= z
    BY <2>5, Zenon DEF Max
  <2>7. Latest(T) = Max(T)
    BY <1>2 DEF Latest
  <2> QED
    <3> DEFINE m == Max(T)
    <3>1. m \in T /\ (\A z \in T : m >= z) /\ Latest(T) = m
      BY <2>6, <2>7
    <3> HIDE DEF m
    <3> QED
      BY <1>2, <3>1
<1> QED
  BY <1>1, <1>2

(* What a recursive function over positions is, given its step. *)
Iterates(f, n, first, G) == f[0] = first /\ \A k \in 1..n : f[k] = G[<<k, f[k - 1]>>]

LEMMA Iteration ==
  ASSUME NEW n \in Nat, NEW S, NEW first \in S, NEW G \in [(1..n) \X S -> S]
  PROVE  \E f \in [0..n -> S] : Iterates(f, n, first, G)
<1> USE DEF Iterates
<1> DEFINE Is(f, m) == Iterates(f, m, first, G)
           Good == {m \in 0..n : \E f \in [0..m -> S] : Is(f, m)}
<1>1. 0 \in Good
  <2> DEFINE f == [k \in 0..0 |-> first]
  <2>1. f \in [0..0 -> S] /\ Is(f, 0) /\ 0 \in 0..n
    OBVIOUS
  <2> HIDE DEF f, Is
  <2> QED
    BY <2>1
<1>2. ASSUME NEW m \in 0..n-1, m \in Good
      PROVE  m + 1 \in Good
  <2>1. PICK f \in [0..m -> S] : Is(f, m)
    BY <1>2
  <2> DEFINE x == G[<<m + 1, f[m]>>]
             g == [k \in 0..m+1 |-> IF k = m + 1 THEN x ELSE f[k]]
  <2>2. x \in S
    OBVIOUS
  <2>3. g \in [0..m+1 -> S]
    BY <2>2
  <2>4. ASSUME NEW k \in 1..m+1
        PROVE  g[k] = G[<<k, g[k - 1]>>]
    <3>1. CASE k = m + 1
      <4>1. g[k] = x /\ g[k - 1] = f[m]
        BY <3>1
      <4> QED
        BY <4>1, <3>1
    <3>2. CASE k # m + 1
      <4>1. k \in 1..m /\ g[k] = f[k] /\ g[k - 1] = f[k - 1]
        BY <3>2
      <4> QED
        BY <4>1, <2>1
    <3> QED
      BY <3>1, <3>2
  <2>5. g[0] = first
    BY <2>1
  <2>6. Is(g, m + 1)
    <3> HIDE DEF g
    <3> QED
      BY <2>4, <2>5
  <2>7. m + 1 \in 0..n
    OBVIOUS
  <2> HIDE DEF Is, g
  <2> QED
    BY <2>3, <2>6, <2>7
<1>3. 0..n \subseteq Good
  <2> HIDE DEF Good
  <2> QED
    BY <1>1, <1>2, BoundedInduction
<1> QED
  BY <1>3

LEMMA StepByStep ==
  ASSUME NEW n \in Nat, NEW S, NEW g, g = [k \in 0..n |-> g[k]], g[0] \in S,
         \A k \in 1..n : g[k - 1] \in S => g[k] \in S
  PROVE  g \in [0..n -> S]
<1> DEFINE Good == {k \in 0..n : g[k] \in S}
<1>1. 0 \in Good
  OBVIOUS
<1>2. ASSUME NEW k \in 0..n-1, k \in Good
      PROVE  k + 1 \in Good
  <2>1. k + 1 \in 1..n /\ k + 1 \in 0..n /\ (k + 1) - 1 = k
    OBVIOUS
  <2> QED
    BY <1>2, <2>1
<1>3. 0..n \subseteq Good
  <2> HIDE DEF Good
  <2> QED
    BY <1>1, <1>2, BoundedInduction
<1>4. \A k \in 0..n : g[k] \in S
  BY <1>3
<1> QED
  BY <1>4
-----------------------------------------------------------------------------
(* Lines.                                                                  *)

LEMMA MinIsLeast ==
  ASSUME NEW T \in SUBSET Nat, T # {}
  PROVE  Min(T) \in T /\ \A y \in T : Min(T) <= y
<1>1. \E x \in T : \A y \in T : x <= y
  BY LeastNatural
<1> QED
  BY <1>1, Zenon DEF Min

Terminators(b) == {i \in 1..Len(b) : b[i] \in {"CR", "LF"}}

LEMMA TakeLineIs ==
  ASSUME NEW b \in Seq(Bytes)
  PROVE  \/ /\ Terminators(b) = {}
            /\ TakeLine(b) = [upTo |-> 0, consumed |-> 0]
         \/ \E i \in Terminators(b) :
              /\ \A j \in Terminators(b) : i <= j
              /\ TakeLine(b) = [upTo |-> i - 1, consumed |-> EndOfLine(b, i)]
<1>1. Terminators(b) \in SUBSET Nat /\ 0 \notin Terminators(b)
  BY DEF Terminators
<1>2. CASE Terminators(b) = {}
  BY <1>2 DEF Terminators, TakeLine, SelectInSeq
<1>3. CASE Terminators(b) # {}
  <2> DEFINE i == Min(Terminators(b))
  <2>1. i \in Terminators(b) /\ \A j \in Terminators(b) : i <= j
    BY <1>1, <1>3, MinIsLeast
  <2>2. i # 0
    BY <1>1, <2>1
  <2>3. TakeLine(b) = [upTo |-> i - 1, consumed |-> EndOfLine(b, i)]
    BY <1>3, <2>2 DEF Terminators, TakeLine, SelectInSeq
  <2> QED
    BY <2>1, <2>3
<1> QED
  BY <1>2, <1>3

LEMMA DropIs ==
  ASSUME NEW s \in Seq(Bytes), NEW n \in 0..Len(s)
  PROVE  /\ Drop(s, n) \in Seq(Bytes)
         /\ Len(Drop(s, n)) = Len(s) - n
         /\ \A i \in 1..(Len(s) - n) : Drop(s, n)[i] = s[n + i]
<1>1. \A i \in n+1..Len(s) : s[i] \in Bytes
  BY ElementOfSeq
<1> QED
  BY <1>1, SubSeqProperties DEF Drop

LEMMA PartOfSeq ==
  ASSUME NEW s \in Seq(Bytes), NEW n \in 0..Len(s)
  PROVE  /\ SubSeq(s, 1, n) \in Seq(Bytes)
         /\ Len(SubSeq(s, 1, n)) = n
         /\ \A i \in 1..n : SubSeq(s, 1, n)[i] = s[i]
<1>1. \A i \in 1..n : s[i] \in Bytes
  BY ElementOfSeq
<1> QED
  BY <1>1, SubSeqProperties

LEMMA Fields ==
  ASSUME NEW line \in Seq(Bytes)
  PROVE  /\ FieldValue(line) \in Seq(Bytes)
         /\ line # <<>> => Len(FieldValue(line)) < Len(line)
<1> DEFINE Colons == {i \in 1..Len(line) : line[i] = ":"}
           colon == IF Colons # {} THEN Min(Colons) ELSE 0
           raw == Drop(line, colon)
<1>1. colon \in 0..Len(line)
  <2>1. Colons \in SUBSET Nat
    OBVIOUS
  <2>2. Colons # {} => Min(Colons) \in Colons
    <3> HIDE DEF Colons
    <3> QED
      BY <2>1, MinIsLeast
  <2> QED
    BY <2>2
<1>2. FieldValue(line) = IF colon = 0 THEN <<>>
                         ELSE IF raw # <<>> /\ raw[1] = " " THEN Tail(raw) ELSE raw
  BY DEF FieldValue, SelectInSeq
<1> HIDE DEF colon
<1>3. raw \in Seq(Bytes) /\ Len(raw) \in Nat /\ Len(raw) = Len(line) - colon
  BY <1>1, DropIs, LenProperties
<1> HIDE DEF raw
<1>4. raw # <<>> => Tail(raw) \in Seq(Bytes) /\ Len(Tail(raw)) = Len(raw) - 1
  BY <1>3, HeadTailProperties
<1>5. /\ <<>> \in Seq(Bytes) /\ Len(<<>>) = 0
      /\ Len(line) \in Nat /\ (line # <<>> => Len(line) > 0)
  BY EmptySeq
<1>6. CASE colon = 0
  BY <1>2, <1>5, <1>6
<1>7. colon # 0 => Len(raw) < Len(line)
  <2> SUFFICES ASSUME colon # 0
               PROVE  Len(raw) < Len(line)
    OBVIOUS
  <2>1. colon \in 1..Len(line) /\ Len(line) \in Nat
    BY <1>1
  <2> QED
    BY <1>3, <2>1
<1>8. CASE colon # 0 /\ raw # <<>> /\ raw[1] = " "
  <2>1. FieldValue(line) = Tail(raw) /\ Tail(raw) \in Seq(Bytes)
    BY <1>2, <1>4, <1>8
  <2>2. Len(Tail(raw)) < Len(line)
    <3>1. Len(Tail(raw)) = Len(raw) - 1 /\ Len(raw) < Len(line)
      BY <1>4, <1>7, <1>8
    <3> QED
      BY <1>3, <3>1
  <2> QED
    BY <2>1, <2>2
<1>9. CASE colon # 0 /\ ~(raw # <<>> /\ raw[1] = " ")
  BY <1>2, <1>3, <1>7, <1>9
<1> QED
  BY <1>6, <1>8, <1>9
LEMMA PartOfDrop ==
  ASSUME NEW r \in Seq(Bytes), NEW p \in 0..Len(r), NEW n \in 0..Len(r)-p
  PROVE  /\ SubSeq(Drop(r, p), 1, n) = SubSeq(r, p + 1, p + n)
         /\ Drop(Drop(r, p), n) = Drop(r, p + n)
<1> DEFINE b == Drop(r, p)
<1>1. /\ b \in Seq(Bytes) /\ Len(b) = Len(r) - p
      /\ \A i \in 1..(Len(r) - p) : b[i] = r[p + i]
  BY DropIs
<1>2. SubSeq(b, 1, n) = SubSeq(r, p + 1, p + n)
  <2>1. /\ SubSeq(b, 1, n) \in Seq(Bytes) /\ Len(SubSeq(b, 1, n)) = n
        /\ \A i \in 1..n : SubSeq(b, 1, n)[i] = b[i]
    <3> HIDE DEF b
    <3> QED
      BY <1>1, PartOfSeq
  <2>2. /\ SubSeq(r, p + 1, p + n) \in Seq(Bytes) /\ Len(SubSeq(r, p + 1, p + n)) = n
        /\ \A i \in 1..n : SubSeq(r, p + 1, p + n)[i] = r[p + i]
    <3>1. \A i \in p+1..p+n : r[i] \in Bytes
      BY ElementOfSeq
    <3> QED
      BY <3>1, SubSeqProperties
  <2>3. \A i \in 1..n : SubSeq(b, 1, n)[i] = SubSeq(r, p + 1, p + n)[i]
    BY <1>1, <2>1, <2>2
  <2> HIDE DEF b
  <2> QED
    BY <2>1, <2>2, <2>3, SeqEqual
<1>3. Drop(b, n) = Drop(r, p + n)
  <2>1. n \in 0..Len(b) /\ p + n \in 0..Len(r) /\ Len(r) \in Nat /\ p \in Nat /\ n \in Nat
    BY <1>1
  <2> DEFINE m == Len(r) - (p + n)
  <2>2. m \in Nat /\ m = Len(b) - n
    BY <1>1, <2>1
  <2>3. /\ Drop(b, n) \in Seq(Bytes) /\ Len(Drop(b, n)) = m
        /\ \A i \in 1..m : Drop(b, n)[i] = b[n + i]
    <3> HIDE DEF b, m
    <3> QED
      BY <1>1, <2>1, <2>2, DropIs
  <2>4. /\ Drop(r, p + n) \in Seq(Bytes) /\ Len(Drop(r, p + n)) = m
        /\ \A i \in 1..m : Drop(r, p + n)[i] = r[(p + n) + i]
    BY <2>1, DropIs
  <2>5. ASSUME NEW i \in 1..m
        PROVE  Drop(b, n)[i] = Drop(r, p + n)[i]
    <3>1. n + i \in 1..(Len(r) - p) /\ p + (n + i) = (p + n) + i
      BY <2>1
    <3>2. b[n + i] = r[p + (n + i)]
      BY <1>1, <3>1
    <3> HIDE DEF b, m
    <3> QED
      BY <2>3, <2>4, <3>1, <3>2
  <2> HIDE DEF b, m
  <2> QED
    BY <2>3, <2>4, <2>5, SeqEqual
<1> QED
  BY <1>2, <1>3

(* The line that ends at e begins after the line end before it. *)
LEMMA LineFrom ==
  ASSUME NEW r \in Seq(Bytes), NEW p \in 0..Len(r), p = 0 \/ p \in LineEnds(r),
         NEW e \in LineEnds(r), p < e, \A i \in LineEnds(r) : i <= p \/ e <= i
  PROVE  LineAt(r, e) =
           SubSeq(r, p + 1, IF r[e] = "LF" /\ e > p + 1 /\ r[e - 1] = "CR" THEN e - 2 ELSE e - 1)
<1> DEFINE T == Before(LineEnds(r), e)
<1>1. T \in SUBSET (1..Len(r)) /\ Len(r) \in Nat
  BY DEF Before, LineEnds
<1>2. /\ T = {} => Latest(T) = 0
      /\ T # {} => Latest(T) \in T
      /\ \A y \in T : y <= Latest(T)
  <2> HIDE DEF T
  <2> QED
    BY <1>1, LatestIsLast
<1>3. \A i \in T : i <= p /\ i \in Nat \ {0}
  BY DEF Before, LineEnds
<1>4. p # 0 => p \in T
  BY DEF Before
<1>5. Latest(T) = p
  <2> HIDE DEF T
  <2> QED
    BY <1>2, <1>3, <1>4
<1> QED
  BY <1>5 DEF LineAt

LEMMA NextLine ==
  ASSUME NEW r \in Seq(Bytes), NEW p \in 0..Len(r), p = 0 \/ p \in LineEnds(r),
         NEW b, b = Drop(r, p), NEW t, t = TakeLine(b)
  PROVE  \/ t.consumed = 0 /\ \A i \in LineEnds(r) : i <= p
         \/ /\ t.consumed \in 1..Len(b) /\ t.upTo \in 0..t.consumed-1
            /\ p + t.consumed \in LineEnds(r)
            /\ \A i \in LineEnds(r) : i <= p \/ p + t.consumed <= i
            /\ SubSeq(b, 1, t.upTo) = LineAt(r, p + t.consumed)
            /\ Drop(b, t.consumed) = Drop(r, p + t.consumed)
<1>1. /\ b \in Seq(Bytes) /\ Len(b) = Len(r) - p /\ Len(r) \in Nat
      /\ \A i \in 1..(Len(r) - p) : b[i] = r[p + i]
  BY DropIs, LenProperties
<1>2. CASE Terminators(b) = {} /\ t = [upTo |-> 0, consumed |-> 0]
  <2>1. \A j \in p+1..Len(r) : j \notin LineEnds(r)
    <3> SUFFICES ASSUME NEW j \in p+1..Len(r), j \in LineEnds(r)
                 PROVE  FALSE
      OBVIOUS
    <3>1. b[j - p] = r[j] /\ j - p \in 1..Len(b)
      BY <1>1
    <3>2. r[j] \in {"CR", "LF"}
      BY DEF LineEnds
    <3> QED
      BY <1>2, <3>1, <3>2 DEF Terminators
  <2>2. LineEnds(r) \subseteq 1..Len(r)
    BY DEF LineEnds
  <2> QED
    BY <1>2, <2>1, <2>2
<1>3. ASSUME NEW i \in Terminators(b), \A j \in Terminators(b) : i <= j,
             t = [upTo |-> i - 1, consumed |-> EndOfLine(b, i)]
      PROVE  \/ t.consumed = 0 /\ \A j \in LineEnds(r) : j <= p
             \/ /\ t.consumed \in 1..Len(b) /\ t.upTo \in 0..t.consumed-1
                /\ p + t.consumed \in LineEnds(r)
                /\ \A j \in LineEnds(r) : j <= p \/ p + t.consumed <= j
                /\ SubSeq(b, 1, t.upTo) = LineAt(r, p + t.consumed)
                /\ Drop(b, t.consumed) = Drop(r, p + t.consumed)
  <2> DEFINE q == p + i
  <2>0. /\ i \in Nat \ {0} /\ p \in Nat /\ Len(r) \in Nat /\ Len(b) \in Nat /\ Len(b) = Len(r) - p
        /\ i <= Len(b) /\ b[i] \in {"CR", "LF"}
    BY <1>1 DEF Terminators
  <2>1. i \in 1..Len(b) /\ q \in 1..Len(r) /\ b[i] \in {"CR", "LF"} /\ r[q] = b[i] /\ q = p + i
    BY <1>1, <2>0
  <2> HIDE DEF q
  <2>2. \A j \in p+1..q-1 : r[j] \notin {"CR", "LF"}
    <3> SUFFICES ASSUME NEW j \in p+1..q-1, r[j] \in {"CR", "LF"}
                 PROVE  FALSE
      OBVIOUS
    <3>1. j - p \in 1..(Len(r) - p) /\ j - p \in 1..Len(b) /\ j - p < i /\ p + (j - p) = j
      BY <2>0, <2>1
    <3>2. b[j - p] = r[j]
      BY <1>1, <3>1
    <3> QED
      BY <1>3, <2>0, <3>1, <3>2 DEF Terminators
  <2>3. \A j \in LineEnds(r) : j <= p \/ q <= j
    <3>1. \A j \in LineEnds(r) : j \in 1..Len(r) /\ r[j] \in {"CR", "LF"}
      BY DEF LineEnds
    <3>2. \A j \in 1..Len(r) : j <= p \/ q <= j \/ j \in p+1..q-1
      BY <2>0, <2>1
    <3> QED
      BY <2>2, <3>1, <3>2
  <2>4. ASSUME NEW n \in i..Len(b), p + n \in LineEnds(r), t.consumed = n,
               \A j \in LineEnds(r) : j <= p \/ p + n <= j,
               LineAt(r, p + n) = SubSeq(r, p + 1, q - 1)
        PROVE  /\ t.consumed \in 1..Len(b) /\ t.upTo \in 0..t.consumed-1
               /\ p + t.consumed \in LineEnds(r)
               /\ \A j \in LineEnds(r) : j <= p \/ p + t.consumed <= j
               /\ SubSeq(b, 1, t.upTo) = LineAt(r, p + t.consumed)
               /\ Drop(b, t.consumed) = Drop(r, p + t.consumed)
    <3>1. /\ t.upTo = i - 1 /\ i - 1 \in 0..Len(r)-p /\ n \in 0..Len(r)-p /\ p + (i - 1) = q - 1
          /\ i - 1 \in 0..n-1 /\ n \in 1..Len(b)
      BY <1>3, <2>0, <2>1
    <3>2. SubSeq(b, 1, i - 1) = SubSeq(r, p + 1, p + (i - 1)) /\ Drop(b, n) = Drop(r, p + n)
      BY <3>1, PartOfDrop
    <3> QED
      BY <2>4, <3>1, <3>2
  <2>5. CASE b[i] = "LF"
    <3>1. t.consumed = i /\ q \in LineEnds(r)
      BY <1>3, <2>1, <2>5 DEF EndOfLine, LineEnds
    <3>2. LineAt(r, q) = SubSeq(r, p + 1, q - 1)
      <4>1. ~(r[q] = "LF" /\ q > p + 1 /\ r[q - 1] = "CR")
        BY <2>0, <2>1, <2>2
      <4>2. p < q
        BY <2>0, <2>1
      <4>3. LineAt(r, q)
              = SubSeq(r, p + 1, IF r[q] = "LF" /\ q > p + 1 /\ r[q - 1] = "CR" THEN q - 2 ELSE q - 1)
        BY <2>3, <3>1, <4>2, LineFrom
      <4> QED
        BY <4>1, <4>3
    <3> QED
      BY <2>0, <2>1, <2>3, <2>4, <3>1, <3>2
  <2>6. CASE b[i] = "CR" /\ i = Len(b)
    <3>1. t.consumed = 0 /\ q = Len(r) /\ q \notin LineEnds(r)
      BY <1>1, <1>3, <2>1, <2>6 DEF EndOfLine, LineEnds
    <3>2. LineEnds(r) \subseteq 1..Len(r)
      BY DEF LineEnds
    <3> QED
      BY <1>1, <2>3, <3>1, <3>2
  <2>7. CASE b[i] = "CR" /\ i # Len(b) /\ b[i + 1] = "LF"
    <3>0. /\ i + 1 \in 1..Len(b) /\ i + 1 \in 1..(Len(r) - p)
          /\ p + (i + 1) = q + 1 /\ q + 1 \in 1..Len(r)
      BY <2>0, <2>1, <2>7
    <3>1. i + 1 \in 1..Len(b) /\ q + 1 \in 1..Len(r) /\ r[q + 1] = "LF"
      BY <1>1, <2>7, <3>0
    <3>2. t.consumed = i + 1 /\ q + 1 \in LineEnds(r) /\ q \notin LineEnds(r)
      BY <1>3, <2>1, <2>7, <3>1 DEF EndOfLine, LineEnds
    <3>3. \A j \in LineEnds(r) : j <= p \/ q + 1 <= j
      <4>1. LineEnds(r) \subseteq 1..Len(r)
        BY DEF LineEnds
      <4> QED
        BY <2>1, <2>3, <3>2, <4>1
    <3>4. LineAt(r, q + 1) = SubSeq(r, p + 1, q - 1)
      <4>1. /\ p < q + 1 /\ q + 1 > p + 1 /\ (q + 1) - 1 = q /\ (q + 1) - 2 = q - 1
            /\ r[q] = "CR"
        BY <2>0, <2>1, <2>7
      <4> DEFINE e == q + 1
      <4>2. LineAt(r, e)
              = SubSeq(r, p + 1, IF r[e] = "LF" /\ e > p + 1 /\ r[e - 1] = "CR" THEN e - 2 ELSE e - 1)
        <5> HIDE DEF e
        <5> QED
          BY <3>2, <3>3, <4>1, LineFrom DEF e
      <4> QED
        BY <3>1, <4>1, <4>2
    <3> QED
      BY <2>0, <2>1, <2>4, <3>0, <3>2, <3>3, <3>4
  <2>8. CASE b[i] = "CR" /\ i # Len(b) /\ b[i + 1] # "LF"
    <3>0. /\ i + 1 \in 1..Len(b) /\ i + 1 \in 1..(Len(r) - p)
          /\ p + (i + 1) = q + 1 /\ q + 1 \in 1..Len(r)
      BY <2>0, <2>1, <2>8
    <3>1. i + 1 \in 1..Len(b) /\ q + 1 \in 1..Len(r) /\ r[q + 1] # "LF"
      BY <1>1, <2>8, <3>0
    <3>2. t.consumed = i /\ q \in LineEnds(r)
      BY <1>3, <2>1, <2>8, <3>1 DEF EndOfLine, LineEnds
    <3>3. LineAt(r, q) = SubSeq(r, p + 1, q - 1)
      <4>1. p < q /\ r[q] # "LF"
        BY <2>0, <2>1, <2>8
      <4>2. LineAt(r, q)
              = SubSeq(r, p + 1, IF r[q] = "LF" /\ q > p + 1 /\ r[q - 1] = "CR" THEN q - 2 ELSE q - 1)
        BY <2>3, <3>2, <4>1, LineFrom
      <4> QED
        BY <4>1, <4>2
    <3> QED
      BY <2>0, <2>1, <2>3, <2>4, <3>2, <3>3
  <2> QED
    BY <2>1, <2>5, <2>6, <2>7, <2>8
<1> QED
  BY <1>1, <1>2, <1>3, TakeLineIs

(* The line that ends at a line end is a sequence of bytes. *)
LEMMA LineIsBytes ==
  ASSUME NEW s \in Seq(Bytes), NEW e \in LineEnds(s)
  PROVE  /\ LineAt(s, e) \in Seq(Bytes)
         /\ FieldValue(LineAt(s, e)) \in Seq(Bytes)
<1> DEFINE T == Before(LineEnds(s), e)
           first == Latest(T) + 1
           last == IF s[e] = "LF" /\ e > first /\ s[e - 1] = "CR" THEN e - 2 ELSE e - 1
<1>1. T \in SUBSET (1..Len(s)) /\ Len(s) \in Nat /\ e \in 1..Len(s)
  BY LenProperties DEF Before, LineEnds
<1>2. first \in Nat /\ first >= 1
  <2>1. Latest(T) \in 0..Len(s)
    <3> HIDE DEF T
    <3> QED
      BY <1>1, LatestIsLast
  <2> QED
    BY <1>1, <2>1
<1>3. last \in Int /\ last <= Len(s)
  <2> HIDE DEF first
  <2> QED
    BY <1>1
<1>4. SubSeq(s, first, last) \in Seq(Bytes)
  <2> HIDE DEF first, last
  <2>1. \A i \in first..last : i \in 1..Len(s)
    BY <1>1, <1>2, <1>3
  <2>2. \A i \in first..last : s[i] \in Bytes
    BY <2>1, ElementOfSeq
  <2> QED
    BY <2>2, <1>2, <1>3, SubSeqProperties
<1>5. LineAt(s, e) \in Seq(Bytes)
  BY <1>4 DEF LineAt
<1> QED
  BY <1>5, Fields

(* What the recursive definitions of the reading of a stream amount to. *)
LEMMA JoinedIs ==
  ASSUME NEW s \in Seq(Bytes), NEW from \in Nat
  PROVE  /\ Joined(s, from) \in [0..Len(s) -> Seq(Bytes)]
         /\ \A i \in 0..Len(s) :
              /\ i <= from => Joined(s, from)[i] = <<>>
              /\ i > from /\ i \notin DataLines(s) => Joined(s, from)[i] = Joined(s, from)[i - 1]
              /\ i > from /\ i \in DataLines(s) =>
                   Joined(s, from)[i] =
                     IF \E j \in DataLines(s) : from < j /\ j < i
                     THEN Joined(s, from)[i - 1] \o <<"LF">> \o FieldValue(LineAt(s, i))
                     ELSE FieldValue(LineAt(s, i))
<1> DEFINE S == Seq(Bytes)
           n == Len(s)
           value(i) == FieldValue(LineAt(s, i))
           More(i) == \E j \in DataLines(s) : from < j /\ j < i
           Step(i, t) == IF i <= from THEN <<>>
                         ELSE IF i \notin DataLines(s) THEN t
                         ELSE IF More(i) THEN t \o <<"LF">> \o value(i) ELSE value(i)
           G == [w \in (1..n) \X S |-> Step(w[1], w[2])]
           Is(f) == f = [i \in 0..n |-> IF i <= from THEN <<>>
                                        ELSE IF i \notin DataLines(s) THEN f[i - 1]
                                        ELSE IF More(i) THEN f[i - 1] \o <<"LF">> \o value(i)
                                        ELSE value(i)]
<1>1. n \in Nat /\ <<>> \in S /\ <<"LF">> \in S
  <2>1. "LF" \in Bytes
    BY DEF Bytes
  <2> HIDE DEF S
  <2> QED
    BY <2>1, LenProperties DEF S
<1>2. \A i \in DataLines(s) : value(i) \in S
  BY LineIsBytes DEF DataLines
<1>3. \A i \in 1..n, t \in S : Step(i, t) \in S
  <2> HIDE DEF value, More
  <2>1. \A x, y \in S : x \o y \in S
    BY ConcatProperties
  <2> HIDE DEF S, n
  <2> QED
    BY <1>1, <1>2, <2>1, Zenon
<1>4. G \in [(1..n) \X S -> S]
  <2> HIDE DEF Step, S, n
  <2> QED
    BY <1>3
<1>5. PICK f \in [0..n -> S] : Iterates(f, n, <<>>, G)
  <2> HIDE DEF G, S, n
  <2> QED
    BY <1>1, <1>4, Iteration
<1>6. ASSUME NEW k \in 1..n
      PROVE  f[k] = Step(k, f[k - 1])
  <2> HIDE DEF Step, S, n
  <2>1. k - 1 \in 0..n
    BY <1>1
  <2>2. f[k - 1] \in S
    BY <2>1
  <2> QED
    BY <1>5, <2>2 DEF Iterates
<1>7. f[0] = <<>>
  BY <1>5 DEF Iterates
<1>8. Is(f)
  <2>1. f[0] = Step(0, f[0 - 1])
    BY <1>7
  <2>2. \A k \in 0..n : k = 0 \/ k \in 1..n
    BY <1>1
  <2>3. \A k \in 0..n : f[k] = Step(k, f[k - 1])
    <3> HIDE DEF Step, S, n
    <3> QED
      BY <1>6, <2>1, <2>2
  <2>4. f = [k \in 0..n |-> f[k]]
    BY <1>5
  <2> HIDE DEF value, More, S, n
  <2> QED
    BY <2>3, <2>4
<1>9. Joined(s, from) = CHOOSE g : Is(g)
  BY Zenon DEF Joined
<1>10. Is(Joined(s, from))
  <2> HIDE DEF Is
  <2> QED
    BY <1>8, <1>9
<1> HIDE DEF S, n
<1>11. Joined(s, from) \in [0..n -> S]
  <2> DEFINE J == Joined(s, from)
  <2>1. J = [k \in 0..n |-> J[k]]
    <3> HIDE DEF value, More
    <3> QED
      BY <1>10
  <2>2. \A k \in 0..n : J[k] = Step(k, J[k - 1])
    <3> HIDE DEF value, More, J
    <3> QED
      BY <1>10 DEF J
  <2>3. J[0] \in S
    <3>1. 0 \in 0..n /\ 0 <= from
      BY <1>1
    <3> HIDE DEF J
    <3> QED
      BY <1>1, <2>2, <3>1
  <2>4. \A k \in 1..n : J[k - 1] \in S => J[k] \in S
    <3>1. \A k \in 1..n : k \in 0..n
      BY <1>1
    <3> HIDE DEF Step, J
    <3> QED
      BY <1>3, <2>2, <3>1
  <2> HIDE DEF J
  <2>5. J \in [0..n -> S]
    BY <1>1, <2>1, <2>3, <2>4, StepByStep
  <2> QED
    BY <2>5 DEF J
<1>12. ASSUME NEW i \in 0..n
       PROVE  Joined(s, from)[i] = Step(i, Joined(s, from)[i - 1])
  <2> HIDE DEF value, More
  <2> QED
    BY <1>10
<1> HIDE DEF value, More
<1>13. ASSUME NEW i \in 0..n
       PROVE  /\ i <= from => Joined(s, from)[i] = <<>>
              /\ ~(i <= from) /\ i \notin DataLines(s) => Joined(s, from)[i] = Joined(s, from)[i - 1]
              /\ ~(i <= from) /\ i \in DataLines(s) =>
                   Joined(s, from)[i] = IF More(i) THEN Joined(s, from)[i - 1] \o <<"LF">> \o value(i)
                                        ELSE value(i)
  BY <1>12, Zenon
<1>14. \A i \in 0..n : i > from <=> ~(i <= from)
  BY <1>1
<1> QED
  BY <1>11, <1>13, <1>14, Zenon DEF S, n, value, More

LEMMA LastBlankIs ==
  ASSUME NEW s \in Seq(Bytes), NEW i
  PROVE  /\ LastBlank(s, i) \in 0..Len(s)
         /\ LastBlank(s, i) # 0 => LastBlank(s, i) \in Blanks(s) /\ LastBlank(s, i) < i
         /\ \A j \in Blanks(s) : j < i => j <= LastBlank(s, i)
<1> DEFINE T == Before(Blanks(s), i)
<1>1. T \in SUBSET (1..Len(s)) /\ Len(s) \in Nat
  BY LenProperties DEF Before, Blanks, LineEnds
<1>2. /\ T = {} => Latest(T) = 0
      /\ T # {} => Latest(T) \in T
      /\ Latest(T) \in 0..Len(s)
      /\ \A y \in T : y <= Latest(T)
  <2> HIDE DEF T
  <2> QED
    BY <1>1, LatestIsLast
<1> QED
  BY <1>2 DEF LastBlank, Before

LEMMA ReadingIs ==
  ASSUME NEW s \in Seq(Bytes)
  PROVE  /\ Reading(s) \in [0..Len(s) -> Seq(Seq(Bytes))]
         /\ Reading(s)[0] = <<>>
         /\ \A i \in 1..Len(s) :
              Reading(s)[i] = IF i \in Blanks(s) /\ DataBefore(s, i) # {}
                              THEN Append(Reading(s)[i - 1], Joined(s, LastBlank(s, i))[i - 1])
                              ELSE Reading(s)[i - 1]
<1> DEFINE S == Seq(Seq(Bytes))
           n == Len(s)
           Ends(i) == i \in Blanks(s) /\ DataBefore(s, i) # {}
           event(i) == Joined(s, LastBlank(s, i))[i - 1]
           Step(i, t) == IF Ends(i) THEN Append(t, event(i)) ELSE t
           G == [w \in (1..n) \X S |-> Step(w[1], w[2])]
           Is(f) == f = [i \in 0..n |-> IF i = 0 THEN <<>>
                                        ELSE IF Ends(i) THEN Append(f[i - 1], event(i))
                                        ELSE f[i - 1]]
<1>1. n \in Nat /\ <<>> \in S
  BY LenProperties
<1>2. \A i \in 1..n : event(i) \in Seq(Bytes)
  <2> SUFFICES ASSUME NEW i \in 1..n
               PROVE  event(i) \in Seq(Bytes)
    OBVIOUS
  <2>1. LastBlank(s, i) \in Nat
    BY <1>1, LastBlankIs
  <2>2. Joined(s, LastBlank(s, i)) \in [0..Len(s) -> Seq(Bytes)]
    BY <2>1, JoinedIs
  <2> QED
    BY <1>1, <2>2
<1>3. \A i \in 1..n, t \in S : Step(i, t) \in S
  <2> HIDE DEF event, Ends
  <2>1. \A t \in S : \A x \in Seq(Bytes) : Append(t, x) \in S
    BY AppendProperties
  <2> HIDE DEF S, n
  <2> QED
    BY <1>2, <2>1, Zenon
<1>4. G \in [(1..n) \X S -> S]
  <2> HIDE DEF Step, S, n
  <2> QED
    BY <1>3
<1>5. PICK f \in [0..n -> S] : Iterates(f, n, <<>>, G)
  <2> HIDE DEF G, S, n
  <2> QED
    BY <1>1, <1>4, Iteration
<1>6. ASSUME NEW k \in 1..n
      PROVE  f[k] = Step(k, f[k - 1])
  <2> HIDE DEF Step, S, n
  <2>1. k - 1 \in 0..n
    BY <1>1
  <2>2. f[k - 1] \in S
    BY <2>1
  <2> QED
    BY <1>5, <2>2 DEF Iterates
<1>7. f[0] = <<>>
  BY <1>5 DEF Iterates
<1>8. Is(f)
  <2>1. \A k \in 0..n : k = 0 \/ k \in 1..n
    BY <1>1
  <2>2. \A k \in 0..n : f[k] = IF k = 0 THEN <<>> ELSE Step(k, f[k - 1])
    <3> HIDE DEF Step, S, n
    <3> QED
      BY <1>6, <1>7, <2>1
  <2>3. f = [k \in 0..n |-> f[k]]
    BY <1>5
  <2> HIDE DEF event, Ends, S, n
  <2> QED
    BY <2>2, <2>3
<1>9. Reading(s) = CHOOSE g : Is(g)
  BY Zenon DEF Reading
<1>10. Is(Reading(s))
  <2> HIDE DEF Is
  <2> QED
    BY <1>8, <1>9
<1> HIDE DEF S, n
<1>11. Reading(s) \in [0..n -> S]
  <2> DEFINE R == Reading(s)
  <2>1. R = [k \in 0..n |-> R[k]]
    <3> HIDE DEF event, Ends
    <3> QED
      BY <1>10
  <2>2. \A k \in 1..n : k \in 0..n /\ k # 0
    BY <1>1
  <2>3. \A k \in 0..n : R[k] = IF k = 0 THEN <<>> ELSE Step(k, R[k - 1])
    <3> HIDE DEF event, Ends, R
    <3> QED
      BY <1>10 DEF R
  <2>4. \A k \in 1..n : R[k - 1] \in S => R[k] \in S
    <3> HIDE DEF Step, R
    <3> QED
      BY <1>3, <2>2, <2>3
  <2>5. R[0] \in S
    <3>1. 0 \in 0..n
      BY <1>1
    <3> HIDE DEF Step, R
    <3> QED
      BY <1>1, <2>3, <3>1
  <2> HIDE DEF R
  <2>6. R \in [0..n -> S]
    BY <1>1, <2>1, <2>4, <2>5, StepByStep
  <2> QED
    BY <2>6 DEF R
<1>12. ASSUME NEW i \in 1..n
       PROVE  Reading(s)[i] = Step(i, Reading(s)[i - 1])
  <2>1. i \in 0..n /\ i # 0
    BY <1>1
  <2> HIDE DEF event, Ends
  <2> QED
    BY <1>10, <2>1
<1>13. Reading(s)[0] = <<>>
  <2>1. 0 \in 0..n
    BY <1>1
  <2> HIDE DEF event, Ends
  <2> QED
    BY <1>10, <2>1
<1> QED
  BY <1>11, <1>12, <1>13, Zenon DEF S, n

(* Where no line ends, nothing is read. *)
LEMMA Quiet ==
  ASSUME NEW s \in Seq(Bytes), NEW p \in 0..Len(s), NEW e \in p..Len(s),
         \A i \in LineEnds(s) : i <= p \/ e < i
  PROVE  /\ Reading(s)[e] = Reading(s)[p]
         /\ \A from \in Nat : Joined(s, from)[e] = Joined(s, from)[p]
         /\ LastBlank(s, e + 1) = LastBlank(s, p + 1)
         /\ DataBefore(s, e + 1) = DataBefore(s, p + 1)
<1>1. Len(s) \in Nat /\ p \in Nat /\ e \in Nat /\ e - p \in Nat /\ p + (e - p) = e /\ p + 0 = p
  BY LenProperties
<1>2. \A k \in 0..(e - p)-1 :
        /\ p + (k + 1) \in 1..Len(s) /\ (p + (k + 1)) - 1 = p + k
        /\ p + (k + 1) \notin LineEnds(s)
  BY <1>1
<1>3. Blanks(s) \subseteq LineEnds(s) /\ DataLines(s) \subseteq LineEnds(s)
  BY DEF Blanks, DataLines
<1>4. Reading(s)[e] = Reading(s)[p]
  <2> DEFINE Good == {k \in Nat : Reading(s)[p + k] = Reading(s)[p]}
  <2>1. 0 \in Good
    BY <1>1
  <2>2. ASSUME NEW k \in 0..(e - p)-1, k \in Good
        PROVE  k + 1 \in Good
    <3>1. \A i \in 1..Len(s) : i \notin Blanks(s) => Reading(s)[i] = Reading(s)[i - 1]
      BY ReadingIs, Zenon
    <3>2. Reading(s)[p + (k + 1)] = Reading(s)[p + k]
      BY <1>2, <1>3, <3>1
    <3> QED
      BY <2>2, <3>2
  <2>3. 0..(e - p) \subseteq Good
    <3> HIDE DEF Good
    <3> QED
      BY <1>1, <2>1, <2>2, BoundedInduction
  <2>4. e - p \in Good
    <3> HIDE DEF Good
    <3> QED
      BY <1>1, <2>3
  <2> QED
    BY <1>1, <2>4
<1>5. ASSUME NEW from \in Nat
      PROVE  Joined(s, from)[e] = Joined(s, from)[p]
  <2> DEFINE J == Joined(s, from)
             Good == {k \in Nat : J[p + k] = J[p]}
  <2>1. 0 \in Good
    BY <1>1
  <2>2. ASSUME NEW k \in 0..(e - p)-1, k \in Good
        PROVE  k + 1 \in Good
    <3>1. \A i \in 1..Len(s) : i \notin DataLines(s) => J[i] = J[i - 1]
      <4> SUFFICES ASSUME NEW i \in 1..Len(s), i \notin DataLines(s)
                   PROVE  J[i] = J[i - 1]
        OBVIOUS
      <4>1. /\ i \in 0..Len(s) /\ i - 1 \in 0..Len(s)
            /\ (i <= from => i - 1 <= from) /\ (~(i <= from) => i > from)
        BY <1>1
      <4> QED
        BY <4>1, JoinedIs
    <3>2. J[p + (k + 1)] = J[p + k]
      <4> HIDE DEF J
      <4> QED
        BY <1>2, <1>3, <3>1
    <3> HIDE DEF J
    <3> QED
      BY <2>2, <3>2
  <2>3. 0..(e - p) \subseteq Good
    <3> HIDE DEF Good
    <3> QED
      BY <1>1, <2>1, <2>2, BoundedInduction
  <2>4. e - p \in Good
    <3> HIDE DEF Good
    <3> QED
      BY <1>1, <2>3
  <2> HIDE DEF J
  <2>5. J[e] = J[p]
    BY <1>1, <2>4
  <2> QED
    BY <2>5 DEF J
<1>6. \A i \in LineEnds(s) : i < e + 1 <=> i < p + 1
  <2>1. LineEnds(s) \subseteq 1..Len(s)
    BY DEF LineEnds
  <2> QED
    BY <1>1, <2>1
<1>7. LastBlank(s, e + 1) = LastBlank(s, p + 1)
  <2>1. Before(Blanks(s), e + 1) = Before(Blanks(s), p + 1)
    BY <1>3, <1>6 DEF Before
  <2> QED
    BY <2>1 DEF LastBlank
<1>8. DataBefore(s, e + 1) = DataBefore(s, p + 1)
  BY <1>3, <1>6, <1>7 DEF DataBefore
<1> QED
  BY <1>4, <1>5, <1>7, <1>8

(* More bytes change nothing up to a line end: a carriage return is one    *)
(* only if the byte after it has arrived.                                  *)
Begins(r, s) ==
  /\ s \in Seq(Bytes) /\ Len(r) <= Len(s)
  /\ \A i \in 1..Len(r) : s[i] = r[i]
  /\ \A m \in 1..Len(r), k \in Int : k <= Len(r) => SubSeq(s, m, k) = SubSeq(r, m, k)

LEMMA BeginsConcat ==
  ASSUME NEW r \in Seq(Bytes), NEW u \in Seq(Bytes)
  PROVE  Begins(r, r \o u)
<1>1. /\ r \o u \in Seq(Bytes) /\ Len(r \o u) = Len(r) + Len(u)
      /\ Len(r) \in Nat /\ Len(u) \in Nat
      /\ \A i \in 1..Len(r) + Len(u) : (r \o u)[i] = IF i <= Len(r) THEN r[i] ELSE u[i - Len(r)]
  BY ConcatProperties, LenProperties
<1>2. \A i \in 1..Len(r) : i \in 1..Len(r) + Len(u) /\ i <= Len(r)
  BY <1>1
<1>3. ASSUME NEW m \in 1..Len(r), NEW k \in Int, k <= Len(r)
      PROVE  SubSeq(r \o u, m, k) = SubSeq(r, m, k)
  <2>1. CASE k < m
    BY <2>1, SubSeqEmpty
  <2>2. CASE ~(k < m)
    <3>1. k \in 1..Len(r)
      BY <1>3, <2>2
    <3> QED
      BY <3>1, SubSeqOfConcat1
  <2> QED
    BY <2>1, <2>2
<1>4. Len(r) <= Len(r \o u)
  BY <1>1
<1>5. \A i \in 1..Len(r) : (r \o u)[i] = r[i]
  BY <1>1, <1>2
<1> QED
  BY <1>1, <1>3, <1>4, <1>5, Zenon DEF Begins

LEMMA LinesStay ==
  ASSUME NEW r \in Seq(Bytes), NEW s, Begins(r, s),
         NEW p \in 0..Len(r), p = 0 \/ p \in LineEnds(r)
  PROVE  /\ p = 0 \/ p \in LineEnds(s)
         /\ \A i \in 1..p : i \in LineEnds(r) <=> i \in LineEnds(s)
         /\ \A i \in 1..p : i \in LineEnds(r) => LineAt(r, i) = LineAt(s, i)
<1>1. /\ s \in Seq(Bytes) /\ Len(r) <= Len(s) /\ Len(r) \in Nat /\ Len(s) \in Nat
      /\ \A i \in 1..Len(r) : s[i] = r[i]
      /\ \A m \in 1..Len(r), k \in Int : k <= Len(r) => SubSeq(s, m, k) = SubSeq(r, m, k)
  BY LenProperties DEF Begins
<1>2. ASSUME NEW i \in 1..p
      PROVE  i \in LineEnds(r) <=> i \in LineEnds(s)
  <2>1. i \in 1..Len(r) /\ i \in 1..Len(s) /\ r[i] = s[i]
    BY <1>1
  <2>2. CASE i < Len(r)
    <3>1. i + 1 \in 1..Len(r) /\ i < Len(s)
      BY <1>1, <2>2
    <3>2. r[i + 1] = s[i + 1]
      BY <1>1, <3>1
    <3> QED
      BY <2>1, <2>2, <3>1, <3>2 DEF LineEnds
  <2>3. CASE ~(i < Len(r))
    <3>1. p # 0 /\ i = p /\ i \in LineEnds(r)
      BY <1>1, <2>3
    <3>2. r[i] = "LF"
      BY <2>3, <3>1 DEF LineEnds
    <3> QED
      BY <2>1, <3>1, <3>2 DEF LineEnds
  <2> QED
    BY <2>2, <2>3
<1>3. /\ LineEnds(r) \subseteq Nat /\ LineEnds(s) \subseteq Nat
      /\ 0 \notin LineEnds(r) \cup LineEnds(s)
  BY <1>1 DEF LineEnds
<1>4. ASSUME NEW i \in 1..p, i \in LineEnds(r)
      PROVE  LineAt(r, i) = LineAt(s, i)
  <2>1. Before(LineEnds(r), i) = Before(LineEnds(s), i)
    <3>1. \A j \in Nat : j < i /\ j # 0 => j \in 1..p
      OBVIOUS
    <3> QED
      BY <1>2, <1>3, <3>1 DEF Before
  <2> DEFINE T == Before(LineEnds(r), i)
             first == Latest(T) + 1
             last == IF r[i] = "LF" /\ i > first /\ r[i - 1] = "CR" THEN i - 2 ELSE i - 1
  <2>2. Latest(T) \in 0..Len(r) /\ (T # {} => Latest(T) \in T)
    <3>1. T \in SUBSET (1..Len(r))
      BY <1>1 DEF Before, LineEnds
    <3> HIDE DEF T
    <3> QED
      BY <1>1, <3>1, LatestIsLast
  <2>3. T = {} => Latest(T) = 0
    <3> HIDE DEF T
    <3> QED
      BY DEF Latest
  <2>4. T # {} => Latest(T) < i
    BY <2>2 DEF Before
  <2>5. first \in 1..i /\ first \in 1..Len(r)
    <3> HIDE DEF T
    <3> QED
      BY <1>1, <2>2, <2>3, <2>4
  <2> HIDE DEF first, T
  <2>6. last \in Int /\ last <= Len(r)
    BY <1>1, <2>5
  <2>7. r[i] = s[i] /\ (i > first => r[i - 1] = s[i - 1])
    BY <1>1, <2>5
  <2>8. SubSeq(r, first, last) = SubSeq(s, first, last)
    <3> HIDE DEF last
    <3> QED
      BY <1>1, <2>5, <2>6
  <2>9. LineAt(r, i) = SubSeq(r, first, last)
    BY Zenon DEF LineAt, first, last, T
  <2>10. LineAt(s, i)
           = SubSeq(s, first, IF s[i] = "LF" /\ i > first /\ s[i - 1] = "CR" THEN i - 2 ELSE i - 1)
    BY <2>1, Zenon DEF LineAt, first, T
  <2>11. last = IF s[i] = "LF" /\ i > first /\ s[i - 1] = "CR" THEN i - 2 ELSE i - 1
    BY <2>7
  <2> HIDE DEF last
  <2>12. LineAt(s, i) = SubSeq(s, first, last)
    BY <2>10, <2>11
  <2> QED
    BY <2>8, <2>9, <2>12, Zenon
<1>5. p = 0 \/ p \in LineEnds(s)
  BY <1>2, <1>3
<1> QED
  BY <1>2, <1>4, <1>5

LEMMA ReadingStays ==
  ASSUME NEW r \in Seq(Bytes), NEW s, Begins(r, s),
         NEW p \in 0..Len(r), p = 0 \/ p \in LineEnds(r)
  PROVE  /\ Reading(r)[p] = Reading(s)[p]
         /\ \A from \in Nat : Joined(r, from)[p] = Joined(s, from)[p]
         /\ LastBlank(r, p + 1) = LastBlank(s, p + 1)
         /\ DataBefore(r, p + 1) = DataBefore(s, p + 1)
<1>1. s \in Seq(Bytes) /\ Len(r) <= Len(s) /\ Len(r) \in Nat /\ Len(s) \in Nat /\ p \in Nat
  BY LenProperties DEF Begins
<1>2. /\ \A i \in 1..p : i \in LineEnds(r) <=> i \in LineEnds(s)
      /\ \A i \in 1..p : i \in LineEnds(r) => LineAt(r, i) = LineAt(s, i)
  BY LinesStay
<1>3. \A i \in 1..p :
         (i \in Blanks(r) <=> i \in Blanks(s)) /\ (i \in DataLines(r) <=> i \in DataLines(s))
  BY <1>2 DEF Blanks, DataLines
<1>4. /\ Blanks(r) \cup DataLines(r) \cup Blanks(s) \cup DataLines(s) \subseteq Nat \ {0}
  BY <1>1 DEF Blanks, DataLines, LineEnds
<1>5. \A i \in 1..p+1 : \A j \in Nat \ {0} : j < i => j \in 1..p
  BY <1>1
<1>6. \A i \in 1..p+1 : LastBlank(r, i) = LastBlank(s, i)
  <2> SUFFICES ASSUME NEW i \in 1..p+1
               PROVE  LastBlank(r, i) = LastBlank(s, i)
    OBVIOUS
  <2>1. Before(Blanks(r), i) = Before(Blanks(s), i)
    BY <1>3, <1>4, <1>5 DEF Before
  <2> QED
    BY <2>1 DEF LastBlank
<1>7. \A i \in 1..p+1 : DataBefore(r, i) = DataBefore(s, i)
  BY <1>3, <1>4, <1>5, <1>6 DEF DataBefore
<1>8. \A from \in Nat : \A i \in 0..p : Joined(r, from)[i] = Joined(s, from)[i]
  <2> SUFFICES ASSUME NEW from \in Nat
               PROVE  \A i \in 0..p : Joined(r, from)[i] = Joined(s, from)[i]
    OBVIOUS
  <2> DEFINE R == Joined(r, from)
             S == Joined(s, from)
             Good == {i \in Nat : R[i] = S[i]}
  <2>1. R[0] = <<>> /\ S[0] = <<>>
    <3>1. 0 \in 0..Len(r) /\ 0 \in 0..Len(s) /\ 0 <= from
      BY <1>1
    <3> QED
      BY <1>1, <3>1, JoinedIs, Zenon
  <2>2. ASSUME NEW i \in 0..p-1, i \in Good
        PROVE  i + 1 \in Good
    <3> DEFINE k == i + 1
    <3>1. k \in 1..p /\ k \in 1..p+1 /\ k \in 0..Len(r) /\ k \in 0..Len(s) /\ k \in Nat /\ k - 1 = i
      BY <1>1
    <3> HIDE DEF k
    <3>2. CASE k <= from
      <4>1. R[k] = <<>> /\ S[k] = <<>>
        BY <1>1, <3>1, <3>2, JoinedIs
      <4> QED
        BY <3>1, <4>1 DEF k
    <3>3. CASE k > from /\ k \notin DataLines(r)
      <4>1. k \notin DataLines(s)
        BY <1>3, <3>1, <3>3
      <4>2. R[k] = R[k - 1]
        BY <3>1, <3>3, JoinedIs
      <4>3. S[k] = S[k - 1]
        BY <1>1, <3>1, <3>3, <4>1, JoinedIs
      <4> HIDE DEF R, S
      <4> QED
        BY <2>2, <3>1, <4>2, <4>3 DEF k
    <3>4. CASE k > from /\ k \in DataLines(r)
      <4>1. k \in DataLines(s) /\ LineAt(r, k) = LineAt(s, k)
        BY <1>2, <1>3, <3>1, <3>4 DEF DataLines
      <4>2. (\E j \in DataLines(r) : from < j /\ j < k)
              <=> (\E j \in DataLines(s) : from < j /\ j < k)
        BY <1>3, <1>4, <1>5, <3>1
      <4>3. R[k] = IF \E j \in DataLines(r) : from < j /\ j < k
                   THEN R[k - 1] \o <<"LF">> \o FieldValue(LineAt(r, k)) ELSE FieldValue(LineAt(r, k))
        BY <3>1, <3>4, JoinedIs, Zenon
      <4>4. S[k] = IF \E j \in DataLines(s) : from < j /\ j < k
                   THEN S[k - 1] \o <<"LF">> \o FieldValue(LineAt(s, k)) ELSE FieldValue(LineAt(s, k))
        BY <1>1, <3>1, <3>4, <4>1, JoinedIs, Zenon
      <4> HIDE DEF R, S
      <4>5. R[k - 1] = S[k - 1]
        BY <2>2, <3>1
      <4>6. R[k] = S[k]
        BY <4>1, <4>2, <4>3, <4>4, <4>5, Zenon
      <4> QED
        BY <3>1, <4>6 DEF k
    <3>5. k <= from \/ k > from
      BY <3>1
    <3> QED
      BY <3>2, <3>3, <3>4, <3>5
  <2>3. 0 \in Good
    BY <2>1
  <2>4. 0..p \subseteq Good
    <3> HIDE DEF Good
    <3> QED
      BY <1>1, <2>2, <2>3, BoundedInduction
  <2> QED
    BY <2>4
<1>9. \A i \in 0..p : Reading(r)[i] = Reading(s)[i]
  <2> DEFINE R == Reading(r)
             S == Reading(s)
             Good == {i \in Nat : R[i] = S[i]}
  <2>1. R[0] = <<>> /\ S[0] = <<>>
    BY <1>1, ReadingIs
  <2>2. ASSUME NEW i \in 0..p-1, i \in Good
        PROVE  i + 1 \in Good
    <3> DEFINE k == i + 1
    <3>1. /\ k \in 1..p /\ k \in 1..p+1 /\ k \in 1..Len(r) /\ k \in 1..Len(s)
          /\ k \in Nat /\ k - 1 = i /\ i \in 0..p
      BY <1>1
    <3> HIDE DEF k
    <3>2. /\ k \in Blanks(r) <=> k \in Blanks(s)
          /\ DataBefore(r, k) = DataBefore(s, k)
          /\ LastBlank(r, k) = LastBlank(s, k)
      BY <1>3, <1>6, <1>7, <3>1
    <3>3. Joined(r, LastBlank(r, k))[k - 1] = Joined(s, LastBlank(s, k))[k - 1]
      <4>1. LastBlank(r, k) \in Nat
        BY <1>1, LastBlankIs
      <4> QED
        BY <1>8, <3>1, <3>2, <4>1
    <3>4. R[k] = IF k \in Blanks(r) /\ DataBefore(r, k) # {}
                 THEN Append(R[k - 1], Joined(r, LastBlank(r, k))[k - 1]) ELSE R[k - 1]
      BY <3>1, ReadingIs, Zenon
    <3>5. S[k] = IF k \in Blanks(s) /\ DataBefore(s, k) # {}
                 THEN Append(S[k - 1], Joined(s, LastBlank(s, k))[k - 1]) ELSE S[k - 1]
      BY <1>1, <3>1, ReadingIs, Zenon
    <3> HIDE DEF R, S
    <3>6. R[k - 1] = S[k - 1]
      BY <2>2, <3>1
    <3>7. R[k] = S[k]
      <4>1. CASE k \in Blanks(s) /\ DataBefore(s, k) # {}
        BY <3>2, <3>3, <3>4, <3>5, <3>6, <4>1
      <4>2. CASE ~(k \in Blanks(s) /\ DataBefore(s, k) # {})
        BY <3>2, <3>4, <3>5, <3>6, <4>2
      <4> QED
        BY <4>1, <4>2
    <3>8. k \in Nat
      BY <3>1
    <3>9. k \in Good
      BY <3>7, <3>8
    <3> HIDE DEF Good
    <3> QED
      BY <3>9, Zenon DEF k
  <2>3. 0 \in Good
    BY <2>1
  <2>4. 0..p \subseteq Good
    <3> HIDE DEF Good
    <3> QED
      BY <1>1, <2>2, <2>3, BoundedInduction
  <2> QED
    BY <2>4
<1>10. p \in 0..p /\ p + 1 \in 1..p+1
  BY <1>1
<1> QED
  BY <1>6, <1>7, <1>8, <1>9, <1>10
-----------------------------------------------------------------------------
(* The loop of push.                                                       *)

Decoders == [buffer : Seq(Bytes), data : Seq(Bytes), has_data : BOOLEAN]

Works == [d : Decoders, out : Seq(Seq(Bytes)), failed : {"no", "utf-8"}]

(* The updates of a turn, whatever the sets of the parts. *)
WorkOf(B, O, F) == [d : [buffer : B, data : B, has_data : BOOLEAN], out : O, failed : F]

Taken(w, x) == [w EXCEPT !.d.buffer = x]

Extended(w, x) == [w EXCEPT !.d.data = x, !.d.has_data = TRUE]

Dispatched(w, x, o) == [w EXCEPT !.d.data = x, !.d.has_data = FALSE, !.out = o]

LEMMA TakenIs ==
  ASSUME NEW B, NEW O, NEW F, NEW w \in WorkOf(B, O, F), NEW x \in B
  PROVE  /\ Taken(w, x) \in WorkOf(B, O, F)
         /\ Taken(w, x).d.buffer = x /\ Taken(w, x).d.data = w.d.data
         /\ (Taken(w, x).d.has_data <=> w.d.has_data)
         /\ Taken(w, x).out = w.out /\ Taken(w, x).failed = w.failed
BY DEF WorkOf, Taken

LEMMA ExtendedIs ==
  ASSUME NEW B, NEW O, NEW F, NEW w \in WorkOf(B, O, F), NEW x \in B
  PROVE  /\ Extended(w, x) \in WorkOf(B, O, F)
         /\ Extended(w, x).d.buffer = w.d.buffer /\ Extended(w, x).d.data = x
         /\ Extended(w, x).d.has_data
         /\ Extended(w, x).out = w.out /\ Extended(w, x).failed = w.failed
BY DEF WorkOf, Extended

LEMMA DispatchedIs ==
  ASSUME NEW B, NEW O, NEW F, NEW w \in WorkOf(B, O, F), NEW x \in B, NEW o \in O
  PROVE  /\ Dispatched(w, x, o) \in WorkOf(B, O, F)
         /\ Dispatched(w, x, o).d.buffer = w.d.buffer /\ Dispatched(w, x, o).d.data = x
         /\ ~Dispatched(w, x, o).d.has_data
         /\ Dispatched(w, x, o).out = o /\ Dispatched(w, x, o).failed = w.failed
BY DEF WorkOf, Dispatched

(* What a data line makes of the data lines before it. *)
More(d, value) == d.data \o (IF d.has_data THEN <<"LF">> ELSE <<>>) \o value

LEMMA ConsumeIs ==
  ASSUME NEW w \in Works, NEW line \in Seq(Bytes), NEW c, c = Consume(w, line)
  PROVE  /\ c \in Works /\ c.d.buffer = w.d.buffer
         /\ line = <<>> /\ w.d.has_data =>
              c.d.data = <<>> /\ ~c.d.has_data /\ c.out = Append(w.out, w.d.data)
         /\ line = <<>> /\ ~w.d.has_data => c = w
         /\ line # <<>> /\ FieldName(line) # <<"d">> => c = w
         /\ line # <<>> /\ FieldName(line) = <<"d">> =>
              \/ c.failed = "utf-8"
              \/ c.d.data = More(w.d, FieldValue(line)) /\ c.d.has_data /\ c.out = w.out
<1>1. /\ w.d \in Decoders /\ w.out \in Seq(Seq(Bytes)) /\ w.d.data \in Seq(Bytes)
      /\ w.d.has_data \in BOOLEAN
  BY DEF Works, Decoders
<1>2. w \in WorkOf(Seq(Bytes), Seq(Seq(Bytes)), {"no", "utf-8"})
  BY DEF Works, Decoders, WorkOf
<1>3. CASE line = <<>> /\ w.d.has_data
  <2>1. c = [w EXCEPT !.d.data = <<>>, !.d.has_data = FALSE, !.out = Append(@, w.d.data)]
    BY <1>3 DEF Consume
  <2>2. Append(w.out, w.d.data) \in Seq(Seq(Bytes))
    BY <1>1, AppendProperties
  <2> DEFINE x == <<>>
             o == Append(w.out, w.d.data)
  <2>3. x \in Seq(Bytes) /\ o \in Seq(Seq(Bytes))
    BY <2>2
  <2>4. c = Dispatched(w, x, o)
    BY <2>1 DEF Dispatched
  <2> HIDE DEF x, o
  <2>5. /\ c \in WorkOf(Seq(Bytes), Seq(Seq(Bytes)), {"no", "utf-8"})
        /\ c.d.buffer = w.d.buffer /\ c.d.data = x /\ ~c.d.has_data /\ c.out = o
    BY <1>2, <2>3, <2>4, DispatchedIs
  <2> QED
    BY <1>3, <2>5 DEF x, o, WorkOf, Works, Decoders
<1>4. CASE line = <<>> /\ ~w.d.has_data
  BY <1>4 DEF Consume
<1>5. CASE line # <<>> /\ FieldName(line) # <<"d">>
  BY <1>5 DEF Consume
<1>6. CASE line # <<>> /\ FieldName(line) = <<"d">> /\ "!" \in ToSet(FieldValue(line))
  <2>1. c = [w EXCEPT !.failed = "utf-8"]
    BY <1>6 DEF Consume
  <2> QED
    BY <1>6, <2>1 DEF Works
<1>7. CASE line # <<>> /\ FieldName(line) = <<"d">> /\ ~("!" \in ToSet(FieldValue(line)))
  <2> DEFINE more == More(w.d, FieldValue(line))
  <2>1. c = Extended(w, more)
    BY <1>7 DEF Consume, Extended, More
  <2>2. more \in Seq(Bytes)
    <3>1. <<"LF">> \in Seq(Bytes) /\ <<>> \in Seq(Bytes)
      <4>1. "LF" \in Bytes
        BY DEF Bytes
      <4> QED
        BY <4>1
    <3>2. (IF w.d.has_data THEN <<"LF">> ELSE <<>>) \in Seq(Bytes)
      BY <3>1
    <3>3. FieldValue(line) \in Seq(Bytes)
      BY Fields
    <3> QED
      BY <1>1, <3>2, <3>3, ConcatProperties DEF More
  <2> HIDE DEF more
  <2>3. /\ c \in WorkOf(Seq(Bytes), Seq(Seq(Bytes)), {"no", "utf-8"})
        /\ c.d.buffer = w.d.buffer /\ c.d.data = more /\ c.d.has_data /\ c.out = w.out
    BY <1>2, <2>1, <2>2, ExtendedIs
  <2> QED
    BY <1>7, <2>3 DEF more, WorkOf, Works, Decoders
<1> QED
  BY <1>3, <1>4, <1>5, <1>6, <1>7

(* The bytes up to p have been read: ev are their events, and the decoder  *)
(* holds the data lines since.                                             *)
Holds(d, ev, r, p) ==
  /\ d.data = Joined(r, LastBlank(r, p + 1))[p]
  /\ d.has_data <=> DataBefore(r, p + 1) # {}
  /\ d.has_data \/ d.data = <<>>
  /\ ev = Reading(r)[p]

LEMMA ConsumeHolds ==
  ASSUME NEW r \in Seq(Bytes), NEW ev \in Seq(Seq(Bytes)), NEW p \in 0..Len(r),
         NEW e \in LineEnds(r), p < e, \A i \in LineEnds(r) : i <= p \/ e <= i,
         NEW w \in Works, w.failed = "no", Holds(w.d, ev \o w.out, r, p),
         NEW c, c = Consume(w, LineAt(r, e))
  PROVE  c.failed = "no" => Holds(c.d, ev \o c.out, r, e)
<1> DEFINE line == LineAt(r, e)
           from == LastBlank(r, p + 1)
<1>1. /\ Len(r) \in Nat /\ p \in Nat /\ e \in Nat /\ e \in 1..Len(r) /\ e \in 0..Len(r)
      /\ e - 1 \in p..Len(r) /\ (e - 1) + 1 = e
  BY LenProperties DEF LineEnds
<1>2. /\ Reading(r)[e - 1] = Reading(r)[p]
      /\ \A f \in Nat : Joined(r, f)[e - 1] = Joined(r, f)[p]
      /\ LastBlank(r, e) = LastBlank(r, p + 1)
      /\ DataBefore(r, e) = DataBefore(r, p + 1)
  <2> DEFINE k == e - 1
  <2>1. \A i \in LineEnds(r) : i <= p \/ k < i
    <3>1. LineEnds(r) \subseteq Nat
      BY <1>1 DEF LineEnds
    <3> QED
      BY <1>1, <3>1
  <2>2. k \in p..Len(r) /\ k + 1 = e
    BY <1>1
  <2> HIDE DEF k
  <2>3. /\ Reading(r)[k] = Reading(r)[p]
        /\ \A f \in Nat : Joined(r, f)[k] = Joined(r, f)[p]
        /\ LastBlank(r, k + 1) = LastBlank(r, p + 1)
        /\ DataBefore(r, k + 1) = DataBefore(r, p + 1)
    BY <2>1, <2>2, Quiet
  <2> QED
    BY <2>2, <2>3 DEF k
<1>3. line \in Seq(Bytes) /\ FieldValue(line) \in Seq(Bytes)
  BY LineIsBytes
<1>4. from \in Nat /\ from < e
  <2>1. from \in 0..Len(r) /\ (from # 0 => from < p + 1)
    BY LastBlankIs
  <2> QED
    BY <1>1, <2>1
<1>5. /\ w.d \in Decoders /\ w.out \in Seq(Seq(Bytes)) /\ w.d.data \in Seq(Bytes)
      /\ w.d.buffer \in Seq(Bytes) /\ w.d.has_data \in BOOLEAN
  BY DEF Works, Decoders
<1>6. /\ w.d.data = Joined(r, from)[p]
      /\ w.d.has_data <=> DataBefore(r, e) # {}
      /\ w.d.has_data \/ w.d.data = <<>>
      /\ ev \o w.out = Reading(r)[p]
  BY <1>2 DEF Holds
<1>7. (e \in Blanks(r) <=> line = <<>>) /\ (e \in DataLines(r) <=> FieldName(line) = <<"d">>)
  BY DEF Blanks, DataLines
<1>8. \A i \in Blanks(r) \cup DataLines(r) : i \in Nat /\ i # 0 /\ (i < e + 1 <=> i < e \/ i = e)
  <2>1. Blanks(r) \cup DataLines(r) \subseteq 1..Len(r)
    BY DEF Blanks, DataLines, LineEnds
  <2> QED
    BY <1>1, <2>1
<1>9. Reading(r)[e] = IF e \in Blanks(r) /\ DataBefore(r, e) # {}
                      THEN Append(Reading(r)[p], Joined(r, from)[p])
                      ELSE Reading(r)[p]
  <2>1. Reading(r)[e] = IF e \in Blanks(r) /\ DataBefore(r, e) # {}
                        THEN Append(Reading(r)[e - 1], Joined(r, LastBlank(r, e))[e - 1])
                        ELSE Reading(r)[e - 1]
    BY <1>1, ReadingIs, Zenon
  <2>2. Joined(r, LastBlank(r, e))[e - 1] = Joined(r, from)[p]
    BY <1>2, <1>4
  <2> QED
    BY <1>2, <2>1, <2>2
<1>10. e \notin Blanks(r) => LastBlank(r, e + 1) = from
  <2> SUFFICES ASSUME e \notin Blanks(r)
               PROVE  LastBlank(r, e + 1) = from
    OBVIOUS
  <2>1. Before(Blanks(r), e + 1) = Before(Blanks(r), e)
    BY <1>8 DEF Before
  <2> QED
    BY <1>2, <2>1 DEF LastBlank
<1>11. /\ line = <<>> /\ w.d.has_data =>
            c.d.data = <<>> /\ ~c.d.has_data /\ c.out = Append(w.out, w.d.data)
       /\ line = <<>> /\ ~w.d.has_data => c = w
       /\ line # <<>> /\ FieldName(line) # <<"d">> => c = w
       /\ line # <<>> /\ FieldName(line) = <<"d">> =>
            \/ c.failed = "utf-8"
            \/ c.d.data = More(w.d, FieldValue(line)) /\ c.d.has_data /\ c.out = w.out
  <2> HIDE DEF line
  <2>1. c = Consume(w, line)
    BY DEF line
  <2> QED
    BY <1>3, <2>1, ConsumeIs
<1>12. CASE line = <<>>
  <2>1. e \in Blanks(r)
    BY <1>7, <1>12
  <2>2. LastBlank(r, e + 1) = e
    <3>1. /\ LastBlank(r, e + 1) \in 0..Len(r)
          /\ LastBlank(r, e + 1) # 0 => LastBlank(r, e + 1) < e + 1
          /\ \A j \in Blanks(r) : j < e + 1 => j <= LastBlank(r, e + 1)
      BY LastBlankIs
    <3>2. e <= LastBlank(r, e + 1)
      BY <1>1, <2>1, <3>1
    <3> QED
      BY <1>1, <3>1, <3>2
  <2>3. Joined(r, e)[e] = <<>>
    <3>1. e <= e
      BY <1>1
    <3> QED
      BY <1>1, <3>1, JoinedIs, Zenon
  <2>4. DataBefore(r, e + 1) = {}
    <3>1. \A j \in DataLines(r) : ~(e < j /\ j < e + 1)
      BY <1>1, <1>8
    <3> QED
      BY <2>2, <3>1 DEF DataBefore
  <2>5. CASE w.d.has_data
    <3>3. c.d.data = <<>> /\ ~c.d.has_data /\ c.out = Append(w.out, w.d.data)
      BY <1>11, <1>12, <2>5
    <3>5. Reading(r)[e] = Append(ev \o w.out, w.d.data)
      BY <1>6, <1>9, <2>1, <2>5
    <3>6. ev \o Append(w.out, w.d.data) = Append(ev \o w.out, w.d.data)
      <4>1. \A x \in Seq(Seq(Bytes)) : Append(x, w.d.data) = x \o <<w.d.data>>
        BY <1>5, AppendIsConcat
      <4>2. ev \o w.out \in Seq(Seq(Bytes)) /\ <<w.d.data>> \in Seq(Seq(Bytes))
        BY <1>5, ConcatProperties
      <4>3. (ev \o w.out) \o <<w.d.data>> = ev \o (w.out \o <<w.d.data>>)
        <5> DEFINE S == Seq(Bytes)
                   x == w.out
                   y == <<w.d.data>>
        <5>1. ev \in Seq(S) /\ x \in Seq(S) /\ y \in Seq(S)
          BY <1>5, <4>2
        <5> HIDE DEF S, x, y
        <5>2. (ev \o x) \o y = ev \o (x \o y)
          BY <5>1, ConcatAssociative
        <5> QED
          BY <5>2 DEF x, y
      <4> QED
        BY <1>5, <4>1, <4>2, <4>3, Zenon
    <3> QED
      BY <2>2, <2>3, <2>4, <3>3, <3>5, <3>6 DEF Holds
  <2>6. CASE ~w.d.has_data
    <3>1. c = w
      BY <1>11, <1>12, <2>6
    <3>2. Reading(r)[e] = ev \o w.out
      BY <1>6, <1>9, <2>6
    <3> QED
      BY <1>6, <2>2, <2>3, <2>4, <2>6, <3>1, <3>2 DEF Holds
  <2> QED
    BY <2>5, <2>6
<1>13. CASE line # <<>> /\ FieldName(line) # <<"d">>
  <2>1. c = w /\ e \notin Blanks(r) /\ e \notin DataLines(r)
    BY <1>11, <1>7, <1>13
  <2>2. Joined(r, from)[e] = Joined(r, from)[p]
    <3>1. e > from
      BY <1>1, <1>4
    <3>2. Joined(r, from)[e] = Joined(r, from)[e - 1]
      BY <1>1, <1>4, <2>1, <3>1, JoinedIs, Zenon
    <3> QED
      BY <1>2, <1>4, <3>2
  <2>3. DataBefore(r, e + 1) = DataBefore(r, e)
    BY <1>2, <1>8, <1>10, <2>1 DEF DataBefore
  <2>4. Reading(r)[e] = Reading(r)[p]
    BY <1>9, <2>1
  <2> QED
    BY <1>6, <1>10, <2>1, <2>2, <2>3, <2>4 DEF Holds
<1>14. CASE line # <<>> /\ FieldName(line) = <<"d">> /\ c.failed = "no"
  <2> DEFINE more == More(w.d, FieldValue(line))
  <2>1. c.d.data = more /\ c.d.has_data /\ c.out = w.out
    BY <1>11, <1>14
  <2>3. e \notin Blanks(r) /\ e \in DataLines(r)
    BY <1>7, <1>14
  <2>4. Joined(r, from)[e] = more
    <3>1. e > from
      BY <1>1, <1>4
    <3>2. Joined(r, from)[e] = IF \E j \in DataLines(r) : from < j /\ j < e
                               THEN Joined(r, from)[e - 1] \o <<"LF">> \o FieldValue(line)
                               ELSE FieldValue(line)
      BY <1>1, <1>4, <2>3, <3>1, JoinedIs, Zenon
    <3>3. (\E j \in DataLines(r) : from < j /\ j < e) <=> w.d.has_data
      BY <1>2, <1>6 DEF DataBefore
    <3>4. Joined(r, from)[e - 1] = w.d.data
      BY <1>2, <1>4, <1>6
    <3>5. CASE w.d.has_data
      BY <3>2, <3>3, <3>4, <3>5 DEF More
    <3>6. CASE ~w.d.has_data
      <4>1. Joined(r, from)[e] = FieldValue(line)
        BY <3>2, <3>3, <3>6
      <4>2. more = (<<>> \o <<>>) \o FieldValue(line)
        BY <1>6, <3>6 DEF More
      <4> HIDE DEF line
      <4>3. (<<>> \o <<>>) \o FieldValue(line) = FieldValue(line)
        BY <1>3, ConcatEmptySeq
      <4> QED
        BY <4>1, <4>2, <4>3, Zenon
    <3> QED
      BY <3>5, <3>6
  <2>5. DataBefore(r, e + 1) # {}
    <3>1. e \in DataBefore(r, e + 1)
      BY <1>1, <1>4, <1>10, <2>3 DEF DataBefore
    <3> QED
      BY <3>1
  <2>6. Reading(r)[e] = Reading(r)[p]
    BY <1>9, <2>3
  <2> HIDE DEF more
  <2> QED
    BY <1>6, <1>10, <2>3, <2>4, <2>5, <2>6, <2>1 DEF Holds
<1> QED
  BY <1>12, <1>13, <1>14

LEMMA WholeDrop ==
  ASSUME NEW b \in Seq(Bytes)
  PROVE  b = Drop(b, 0)
BY SubSeqFull DEF Drop

(* A turn either finds nothing to do or consumes a line. *)
LEMMA TurnIs ==
  ASSUME NEW w \in Works, NEW b, b = w.d.buffer, NEW t, t = TakeLine(b)
  PROVE  \/ (w.failed # "no" \/ t.consumed = 0) /\ Turn(w) = w
         \/ /\ w.failed = "no" /\ t.consumed \in 1..Len(b) /\ t.upTo \in 0..t.consumed-1
            /\ Taken(w, Drop(b, t.consumed)) \in Works
            /\ Turn(w) = Consume(Taken(w, Drop(b, t.consumed)), SubSeq(b, 1, t.upTo))
<1>1. b \in Seq(Bytes) /\ w \in WorkOf(Seq(Bytes), Seq(Seq(Bytes)), {"no", "utf-8"})
  BY DEF Works, Decoders, WorkOf
<1>2. CASE w.failed # "no" \/ t.consumed = 0
  BY <1>2 DEF Turn
<1>3. CASE ~(w.failed # "no" \/ t.consumed = 0)
  <2>1. t.consumed \in 1..Len(b) /\ t.upTo \in 0..t.consumed-1
    <3>1. 0 \in 0..Len(b)
      BY <1>1, LenProperties
    <3>2. b = Drop(b, 0)
      BY <1>1, WholeDrop
    <3> DEFINE p == 0
               r == b
    <3>3. p \in 0..Len(r) /\ (p = 0 \/ p \in LineEnds(r)) /\ b = Drop(r, p) /\ r \in Seq(Bytes)
      BY <1>1, <3>1, <3>2
    <3> HIDE DEF p, r
    <3>4. \/ t.consumed = 0
          \/ t.consumed \in 1..Len(b) /\ t.upTo \in 0..t.consumed-1
      BY <3>3, NextLine
    <3> QED
      BY <1>3, <3>4
  <2>2. Drop(b, t.consumed) \in Seq(Bytes)
    <3>1. t.consumed \in 0..Len(b)
      BY <1>1, <2>1
    <3> QED
      BY <1>1, <3>1, DropIs
  <2>3. Taken(w, Drop(b, t.consumed)) \in Works
    <3>1. Taken(w, Drop(b, t.consumed)) \in WorkOf(Seq(Bytes), Seq(Seq(Bytes)), {"no", "utf-8"})
      BY <1>1, <2>2, TakenIs
    <3> QED
      BY <3>1 DEF Works, Decoders, WorkOf
  <2>4. Turn(w) = Consume(Taken(w, Drop(b, t.consumed)), SubSeq(b, 1, t.upTo))
    BY <1>3, Zenon DEF Turn, Taken
  <2> QED
    BY <1>3, <2>1, <2>3, <2>4
<1> QED
  BY <1>2, <1>3

(* The decoder has read the bytes of r up to p, and buffers the others. *)
Reads(d, ev, r, p) ==
  /\ p \in 0..Len(r) /\ (p = 0 \/ p \in LineEnds(r))
  /\ d.buffer = Drop(r, p)
  /\ Holds(d, ev, r, p)

LEMMA TurnReads ==
  ASSUME NEW r \in Seq(Bytes), NEW ev \in Seq(Seq(Bytes)), NEW w \in Works, w.failed = "no",
         NEW p, Reads(w.d, ev \o w.out, r, p), NEW v, v = Turn(w)
  PROVE  \/ v = w /\ \A i \in LineEnds(r) : i <= p
         \/ \E e \in LineEnds(r) : p < e /\ (v.failed = "no" => Reads(v.d, ev \o v.out, r, e))
<1> DEFINE b == w.d.buffer
           t == TakeLine(b)
<1>1. /\ p \in 0..Len(r) /\ (p = 0 \/ p \in LineEnds(r)) /\ b = Drop(r, p)
      /\ Holds(w.d, ev \o w.out, r, p) /\ Len(r) \in Nat
      /\ w \in WorkOf(Seq(Bytes), Seq(Seq(Bytes)), {"no", "utf-8"})
  BY LenProperties DEF Reads, Works, Decoders, WorkOf
<1> HIDE DEF b
<1>2. \/ t.consumed = 0 /\ \A i \in LineEnds(r) : i <= p
      \/ /\ t.consumed \in 1..Len(b) /\ t.upTo \in 0..t.consumed-1
         /\ p + t.consumed \in LineEnds(r)
         /\ \A i \in LineEnds(r) : i <= p \/ p + t.consumed <= i
         /\ SubSeq(b, 1, t.upTo) = LineAt(r, p + t.consumed)
         /\ Drop(b, t.consumed) = Drop(r, p + t.consumed)
  BY <1>1, NextLine
<1>3. \/ (w.failed # "no" \/ t.consumed = 0) /\ Turn(w) = w
      \/ /\ w.failed = "no" /\ t.consumed \in 1..Len(b) /\ t.upTo \in 0..t.consumed-1
         /\ Taken(w, Drop(b, t.consumed)) \in Works
         /\ Turn(w) = Consume(Taken(w, Drop(b, t.consumed)), SubSeq(b, 1, t.upTo))
  BY TurnIs DEF b
<1> HIDE DEF t
<1>4. CASE t.consumed = 0
  <2>1. v = w
    BY <1>1, <1>3, <1>4
  <2>2. \A i \in LineEnds(r) : i <= p
    BY <1>2, <1>4
  <2> QED
    BY <2>1, <2>2
<1>5. CASE t.consumed # 0
  <2> DEFINE e == p + t.consumed
             u == Taken(w, Drop(b, t.consumed))
  <2>1. /\ e \in LineEnds(r) /\ p < e /\ \A i \in LineEnds(r) : i <= p \/ e <= i
        /\ SubSeq(b, 1, t.upTo) = LineAt(r, e)
        /\ Drop(b, t.consumed) = Drop(r, e)
    <3>1. p < e
      BY <1>1, <1>2, <1>5
    <3> QED
      BY <1>2, <1>5, <3>1
  <2>2. u \in Works /\ v = Consume(u, LineAt(r, e))
    BY <1>3, <1>5, <2>1
  <2>3. e \in 1..Len(r) /\ e \in 0..Len(r)
    BY <1>1, <2>1 DEF LineEnds
  <2>4. /\ u.d.buffer = Drop(r, e) /\ u.d.data = w.d.data /\ (u.d.has_data <=> w.d.has_data)
        /\ u.out = w.out /\ u.failed = w.failed
    <3>1. Drop(r, e) \in Seq(Bytes)
      BY <2>3, DropIs
    <3> DEFINE x == Drop(b, t.consumed)
    <3>2. x \in Seq(Bytes) /\ x = Drop(r, e)
      BY <2>1, <3>1
    <3> HIDE DEF x
    <3>3. /\ Taken(w, x).d.buffer = x /\ Taken(w, x).d.data = w.d.data
          /\ (Taken(w, x).d.has_data <=> w.d.has_data)
          /\ Taken(w, x).out = w.out /\ Taken(w, x).failed = w.failed
      BY <1>1, <3>2, TakenIs
    <3> QED
      BY <3>2, <3>3, Zenon DEF x
  <2> HIDE DEF e, u
  <2>5. u.failed = "no" /\ Holds(u.d, ev \o u.out, r, p)
    BY <1>1, <2>4 DEF Holds
  <2>6. v.failed = "no" => Holds(v.d, ev \o v.out, r, e)
    BY <1>1, <2>1, <2>2, <2>5, ConsumeHolds
  <2>7. v.d.buffer = Drop(r, e)
    <3>1. LineAt(r, e) \in Seq(Bytes)
      BY <2>1, LineIsBytes
    <3>2. v.d.buffer = u.d.buffer
      BY <2>2, <3>1, ConsumeIs
    <3> QED
      BY <2>4, <3>2
  <2>8. v.failed = "no" => Reads(v.d, ev \o v.out, r, e)
    BY <2>1, <2>3, <2>6, <2>7 DEF Reads
  <2> QED
    BY <2>1, <2>8
<1> QED
  BY <1>4, <1>5

Held(d) == Len(d.buffer) + Len(d.data)

LEMMA HeldIsNat ==
  ASSUME NEW w \in Works
  PROVE  Held(w.d) \in Nat
<1>1. w.d.buffer \in Seq(Bytes) /\ w.d.data \in Seq(Bytes)
  BY DEF Works, Decoders
<1>2. Len(w.d.buffer) \in Nat /\ Len(w.d.data) \in Nat
  BY <1>1, LenProperties
<1>3. \A i, j \in Nat : i + j \in Nat
  OBVIOUS
<1> QED
  BY <1>2, <1>3, Zenon DEF Held

(* A turn does not add to what is held: a data line is longer than what it *)
(* adds to the data.                                                       *)
LEMMA TurnShrinks ==
  ASSUME NEW w \in Works, NEW v, v = Turn(w)
  PROVE  /\ v \in Works
         /\ v.failed = "no" => w.failed = "no" /\ Held(v.d) <= Held(w.d)
<1> DEFINE b == w.d.buffer
           t == TakeLine(b)
<1>1. /\ w.d.buffer \in Seq(Bytes) /\ w.d.data \in Seq(Bytes)
      /\ Len(w.d.buffer) \in Nat /\ Len(w.d.data) \in Nat
      /\ w \in WorkOf(Seq(Bytes), Seq(Seq(Bytes)), {"no", "utf-8"})
  BY LenProperties DEF Works, Decoders, WorkOf
<1>2. \/ (w.failed # "no" \/ t.consumed = 0) /\ Turn(w) = w
      \/ /\ w.failed = "no" /\ t.consumed \in 1..Len(b) /\ t.upTo \in 0..t.consumed-1
         /\ Taken(w, Drop(b, t.consumed)) \in Works
         /\ Turn(w) = Consume(Taken(w, Drop(b, t.consumed)), SubSeq(b, 1, t.upTo))
  BY TurnIs
<1> HIDE DEF b, t
<1>3. CASE Turn(w) = w
  <2>1. Held(w.d) <= Held(w.d)
    BY <1>1 DEF Held
  <2> QED
    BY <1>3, <2>1
<1>4. CASE /\ w.failed = "no" /\ t.consumed \in 1..Len(b) /\ t.upTo \in 0..t.consumed-1
           /\ Taken(w, Drop(b, t.consumed)) \in Works
           /\ Turn(w) = Consume(Taken(w, Drop(b, t.consumed)), SubSeq(b, 1, t.upTo))
  <2> DEFINE x == Drop(b, t.consumed)
             u == Taken(w, x)
             line == SubSeq(b, 1, t.upTo)
  <2>1. /\ b \in Seq(Bytes) /\ Len(b) \in Nat /\ Len(b) = Len(w.d.buffer)
        /\ t.consumed \in 0..Len(b) /\ t.upTo \in 0..Len(b)
    BY <1>1, <1>4 DEF b
  <2>2. x \in Seq(Bytes) /\ Len(x) = Len(b) - t.consumed
    BY <2>1, DropIs
  <2>3. line \in Seq(Bytes) /\ Len(line) = t.upTo
    BY <2>1, PartOfSeq
  <2>4. u \in Works /\ v = Consume(u, line)
    BY <1>4
  <2> HIDE DEF x, line
  <2>5. u.d.buffer = x /\ u.d.data = w.d.data /\ u.failed = w.failed
    BY <1>1, <2>2, TakenIs
  <2> HIDE DEF u
  <2>6. v \in Works /\ v.d.buffer = x
    BY <2>3, <2>4, <2>5, ConsumeIs
  <2>7. v.failed = "no" =>
          \/ v.d.data = <<>> \/ v.d.data = w.d.data
          \/ line # <<>> /\ v.d.data = More(u.d, FieldValue(line))
    <3>1. /\ line = <<>> /\ u.d.has_data => v.d.data = <<>>
          /\ line = <<>> /\ ~u.d.has_data => v = u
          /\ line # <<>> /\ FieldName(line) # <<"d">> => v = u
          /\ line # <<>> /\ FieldName(line) = <<"d">> =>
               v.failed = "utf-8" \/ v.d.data = More(u.d, FieldValue(line))
      BY <2>3, <2>4, ConsumeIs
    <3> QED
      BY <2>5, <3>1
  <2>8. line # <<>> => Len(More(u.d, FieldValue(line))) <= Len(w.d.data) + t.upTo
    <3> DEFINE value == FieldValue(line)
               sep == IF u.d.has_data THEN <<"LF">> ELSE <<>>
    <3>1. value \in Seq(Bytes) /\ Len(value) \in Nat /\ (line # <<>> => Len(value) < t.upTo)
      BY <2>3, Fields, LenProperties
    <3>2. sep \in Seq(Bytes) /\ Len(sep) \in 0..1
      <4>1. "LF" \in Bytes
        BY DEF Bytes
      <4>2. <<"LF">> \in Seq(Bytes) /\ Len(<<"LF">>) = 1
        BY <4>1
      <4>3. <<>> \in Seq(Bytes) /\ Len(<<>>) = 0
        OBVIOUS
      <4> QED
        BY <4>2, <4>3
    <3> HIDE DEF value, sep
    <3>3. /\ w.d.data \o sep \in Seq(Bytes) /\ Len(w.d.data \o sep) = Len(w.d.data) + Len(sep)
      BY <1>1, <3>2, ConcatProperties
    <3>4. Len((w.d.data \o sep) \o value) = Len(w.d.data) + Len(sep) + Len(value)
      BY <3>1, <3>3, ConcatProperties
    <3>5. More(u.d, FieldValue(line)) = (w.d.data \o sep) \o value
      BY <2>5 DEF More, sep, value
    <3>6. t.upTo \in Nat
      BY <2>1
    <3>7. line # <<>> => Len(w.d.data) + Len(sep) + Len(value) <= Len(w.d.data) + t.upTo
      <4>1. \A i, j, k, m \in Nat : j <= 1 /\ k < m => i + j + k <= i + m
        OBVIOUS
      <4>2. Len(sep) \in Nat /\ Len(sep) <= 1
        <5>1. \A k \in 0..1 : k \in Nat /\ k <= 1
          OBVIOUS
        <5> QED
          BY <3>2, <5>1, Zenon
      <4> QED
        BY <1>1, <3>1, <3>6, <4>1, <4>2, Zenon
    <3> QED
      BY <3>4, <3>5, <3>7
  <2>9. v.failed = "no" => Len(v.d.data) <= Len(w.d.data) + t.upTo
    <3>1. t.upTo \in Nat /\ Len(<<>>) = 0
      BY <2>1
    <3> QED
      BY <1>1, <2>7, <2>8, <3>1
  <2>10. v.failed = "no" => Held(v.d) <= Held(w.d)
    <3>1. Len(v.d.buffer) = Len(w.d.buffer) - t.consumed
      BY <2>1, <2>2, <2>6
    <3>2. t.consumed \in Nat /\ t.upTo \in Nat /\ t.upTo < t.consumed
      BY <1>4, <2>1
    <3>3. Len(v.d.data) \in Nat
      BY <2>6, LenProperties DEF Works, Decoders
    <3>4. \A i, j, k, l, m \in Nat : k <= j + l /\ l < m => (i - m) + k <= i + j
      OBVIOUS
    <3> QED
      BY <1>1, <2>9, <3>1, <3>2, <3>3, <3>4, Zenon DEF Held
  <2> QED
    BY <1>4, <2>6, <2>10
<1> QED
  BY <1>2, <1>3, <1>4

(* The loop is as many turns as the buffer has bytes. *)
LEMMA LinesIs ==
  ASSUME NEW w \in Works
  PROVE  \E f \in [0..Len(w.d.buffer) -> Works] :
           /\ f[0] = w
           /\ \A k \in 1..Len(w.d.buffer) : f[k] = Turn(f[k - 1])
           /\ Lines(w) = f[Len(w.d.buffer)]
<1> DEFINE n == Len(w.d.buffer)
           G == [x \in (1..n) \X Works |-> Turn(x[2])]
           Is(f) == f = [k \in 0..n |-> IF k = 0 THEN w ELSE Turn(f[k - 1])]
<1>1. n \in Nat
  BY LenProperties DEF Works, Decoders
<1> HIDE DEF n
<1>2. \A x \in Works : Turn(x) \in Works
  BY TurnShrinks
<1>3. G \in [(1..n) \X Works -> Works]
  BY <1>2
<1>4. PICK f \in [0..n -> Works] : Iterates(f, n, w, G)
  <2> HIDE DEF G
  <2> QED
    BY <1>1, <1>3, Iteration
<1>5. ASSUME NEW k \in 1..n
      PROVE  f[k] = Turn(f[k - 1])
  <2>1. k - 1 \in 0..n
    BY <1>1
  <2>2. f[k - 1] \in Works
    BY <2>1
  <2> QED
    BY <1>4, <2>2 DEF Iterates
<1>6. Is(f)
  <2>1. \A k \in 0..n : k = 0 \/ k \in 1..n
    BY <1>1
  <2>2. \A k \in 0..n : f[k] = IF k = 0 THEN w ELSE Turn(f[k - 1])
    BY <1>4, <1>5, <2>1 DEF Iterates
  <2>3. f = [k \in 0..n |-> f[k]]
    BY <1>4
  <2> QED
    BY <2>2, <2>3
<1> DEFINE g == CHOOSE x : Is(x)
<1>7. Is(g)
  <2> HIDE DEF Is
  <2> QED
    BY <1>6
<1>8. Lines(w) = g[n]
  BY Zenon DEF Lines, n
<1> HIDE DEF g
<1>9. g = [k \in 0..n |-> g[k]] /\ g[0] = w /\ \A k \in 1..n : g[k] = Turn(g[k - 1])
  <2>1. 0 \in 0..n /\ \A k \in 1..n : k \in 0..n /\ k # 0
    BY <1>1
  <2>2. g = [k \in 0..n |-> IF k = 0 THEN w ELSE Turn(g[k - 1])]
    BY <1>7
  <2> QED
    BY <2>1, <2>2
<1>10. g \in [0..n -> Works]
  <2>1. \A k \in 1..n : g[k - 1] \in Works => g[k] \in Works
    BY <1>2, <1>9
  <2> QED
    BY <1>1, <1>9, <2>1, StepByStep
<1> QED
  BY <1>8, <1>9, <1>10 DEF n

(* When it ends without an error, all lines there are have been read.      *)
LEMMA LinesReads ==
  ASSUME NEW r \in Seq(Bytes), NEW ev \in Seq(Seq(Bytes)), NEW w \in Works, w.failed = "no",
         NEW p, Reads(w.d, ev \o w.out, r, p), NEW v, v = Lines(w)
  PROVE  /\ v \in Works
         /\ v.failed = "no" =>
              /\ Held(v.d) <= Held(w.d)
              /\ \E e : Reads(v.d, ev \o v.out, r, e) /\ \A i \in LineEnds(r) : i <= e
<1> DEFINE n == Len(w.d.buffer)
           Far(e, k) == e >= p + k \/ \A i \in LineEnds(r) : i <= e
           Fine(x, k) == x.failed = "no" =>
                           /\ Held(x.d) <= Held(w.d)
                           /\ \E e : Reads(x.d, ev \o x.out, r, e) /\ Far(e, k)
<1>1. /\ w.d.buffer \in Seq(Bytes) /\ n \in Nat /\ Len(w.d.data) \in Nat
      /\ p \in 0..Len(r) /\ Len(r) \in Nat /\ p \in Nat /\ n = Len(r) - p
  <2>1. w.d.buffer \in Seq(Bytes) /\ n \in Nat /\ Len(w.d.data) \in Nat /\ Len(r) \in Nat
    BY LenProperties DEF Works, Decoders
  <2>2. p \in 0..Len(r) /\ w.d.buffer = Drop(r, p)
    BY DEF Reads
  <2>3. n = Len(r) - p
    BY <2>2, DropIs
  <2> QED
    BY <2>1, <2>2, <2>3
<1>2. PICK f \in [0..n -> Works] :
        f[0] = w /\ (\A k \in 1..n : f[k] = Turn(f[k - 1])) /\ v = f[n]
  BY LinesIs
<1> HIDE DEF n
<1>3. LineEnds(r) \subseteq Nat /\ \A i \in LineEnds(r) : i <= Len(r)
  BY <1>1 DEF LineEnds
<1> DEFINE Good == {k \in 0..n : Fine(f[k], k)}
<1>4. 0 \in Good
  <2>1. Held(w.d) <= Held(w.d)
    BY <1>1 DEF Held, n
  <2>2. Far(p, 0)
    BY <1>1
  <2> HIDE DEF Far
  <2>3. Fine(w, 0)
    BY <2>1, <2>2
  <2>4. 0 \in 0..n
    BY <1>1
  <2> HIDE DEF Fine
  <2> QED
    BY <1>2, <2>3, <2>4
<1>5. ASSUME NEW k \in 0..n-1, k \in Good
      PROVE  k + 1 \in Good
  <2> DEFINE m == k + 1
             x == f[k]
             y == f[m]
  <2>1. k \in Nat /\ m \in 1..n /\ m \in 0..n /\ k \in 0..n /\ m - 1 = k
    BY <1>1
  <2>2. x \in Works /\ y = Turn(x)
    <3> HIDE DEF m
    <3> QED
      BY <1>2, <2>1
  <2>3. Fine(x, k)
    BY <1>5
  <2> HIDE DEF m, x, y
  <2>4. ASSUME y.failed = "no"
        PROVE  /\ Held(y.d) <= Held(w.d)
               /\ \E e : Reads(y.d, ev \o y.out, r, e) /\ Far(e, m)
    <3>1. x.failed = "no" /\ Held(y.d) <= Held(x.d) /\ y \in Works
      BY <2>2, <2>4, TurnShrinks
    <3>2. PICK e : Reads(x.d, ev \o x.out, r, e) /\ Far(e, k)
      BY <2>3, <3>1
    <3>3. Held(x.d) <= Held(w.d)
      BY <2>3, <3>1
    <3>4. Held(y.d) <= Held(w.d)
      <4>1. Held(x.d) \in Nat /\ Held(y.d) \in Nat /\ Held(w.d) \in Nat
        BY <2>2, <3>1, HeldIsNat
      <4> QED
        BY <3>1, <3>3, <4>1
    <3>5. e \in Nat
      BY <1>1, <3>2 DEF Reads
    <3>6. \/ y = x /\ \A i \in LineEnds(r) : i <= e
          \/ \E g \in LineEnds(r) : e < g /\ Reads(y.d, ev \o y.out, r, g)
      <4> HIDE DEF Far
      <4> QED
        BY <2>2, <2>4, <3>1, <3>2, TurnReads
    <3>7. CASE y = x /\ \A i \in LineEnds(r) : i <= e
      BY <3>2, <3>4, <3>7
    <3>8. ASSUME NEW g \in LineEnds(r), e < g, Reads(y.d, ev \o y.out, r, g)
          PROVE  Far(g, m)
      <4>1. g \in Nat
        BY <1>3
      <4>2. e >= p + k
        BY <3>2, <3>5, <3>8, <4>1
      <4>3. m = k + 1
        BY DEF m
      <4>4. g >= p + m
        BY <1>1, <2>1, <3>5, <3>8, <4>1, <4>2, <4>3
      <4> QED
        BY <4>4
    <3> HIDE DEF Far
    <3> QED
      BY <3>4, <3>6, <3>7, <3>8
  <2>5. Fine(y, m)
    BY <2>4
  <2> HIDE DEF Fine
  <2>6. m \in Good
    BY <2>1, <2>5 DEF y
  <2> HIDE DEF Good
  <2> QED
    BY <2>6 DEF m
<1>6. n \in Good
  <2>1. 0..n \subseteq Good
    <3> HIDE DEF Good
    <3> QED
      BY <1>1, <1>4, <1>5, BoundedInduction
  <2>2. n \in 0..n
    BY <1>1
  <2> HIDE DEF Good
  <2> QED
    BY <2>1, <2>2
<1>7. Fine(v, n)
  BY <1>2, <1>6
<1>8. v \in Works
  <2>1. n \in 0..n
    BY <1>1
  <2> QED
    BY <1>2, <2>1
<1>9. ASSUME NEW e, Reads(v.d, ev \o v.out, r, e), Far(e, n)
      PROVE  \A i \in LineEnds(r) : i <= e
  <2>1. e \in Nat
    BY <1>1, <1>9 DEF Reads
  <2>2. e >= p + n => e >= Len(r)
    BY <1>1, <2>1
  <2> QED
    BY <1>1, <1>3, <1>9, <2>1, <2>2
<1> HIDE DEF Far
<1> QED
  BY <1>7, <1>8, <1>9

LEMMA PrefixOfConcat ==
  ASSUME NEW S, NEW a \in Seq(S), NEW u \in Seq(S)
  PROVE  IsPrefix(a, a \o u)
<1>1. Len(a) \in Nat /\ Len(u) \in Nat /\ Len(a \o u) = Len(a) + Len(u) /\ a \o u \in Seq(S)
  BY ConcatProperties, LenProperties
<1>2. SubSeq(a \o u, 1, Len(a)) = SubSeq(a, 1, Len(a))
  <2>1. CASE Len(a) = 0
    BY <2>1, SubSeqEmpty
  <2>2. CASE Len(a) # 0
    <3>1. 1 \in 1..Len(a) /\ Len(a) \in 1..Len(a)
      BY <1>1, <2>2
    <3> QED
      BY <3>1, SubSeqOfConcat1
  <2> QED
    BY <2>1, <2>2
<1>3. Len(a) <= Len(a \o u)
  BY <1>1
<1> QED
  BY <1>2, <1>3 DEF IsPrefix

(* What has been read stays read. *)
LEMMA ReadingGrows ==
  ASSUME NEW s \in Seq(Bytes), NEW p \in 0..Len(s)
  PROVE  IsPrefix(Reading(s)[p], Reading(s)[Len(s)])
<1> DEFINE S == Seq(Bytes)
           R == Reading(s)
           n == Len(s) - p
           Good == {k \in Nat : \E u \in Seq(S) : R[p + k] = R[p] \o u}
<1>1. /\ Len(s) \in Nat /\ p \in Nat /\ n \in Nat /\ p + n = Len(s) /\ p + 0 = p
      /\ R \in [0..Len(s) -> Seq(S)]
  BY LenProperties, ReadingIs
<1>2. R[p] \in Seq(S)
  <2> HIDE DEF R, S
  <2> QED
    BY <1>1
<1>3. 0 \in Good
  <2> HIDE DEF R, S
  <2>1. <<>> \in Seq(S) /\ R[p] \o <<>> = R[p]
    BY <1>2, ConcatEmptySeq
  <2> QED
    BY <1>1, <2>1
<1>4. ASSUME NEW k \in 0..n-1, k \in Good
      PROVE  k + 1 \in Good
  <2> DEFINE i == p + (k + 1)
  <2>1. i \in 1..Len(s) /\ i - 1 = p + k /\ k + 1 \in Nat
    BY <1>1
  <2> HIDE DEF i, R, S
  <2>2. PICK u \in Seq(S) : R[i - 1] = R[p] \o u
    BY <1>4, <2>1
  <2>3. \/ R[i] = R[i - 1]
        \/ \E x \in S : R[i] = Append(R[i - 1], x)
    <3> DEFINE x == Joined(s, LastBlank(s, i))[i - 1]
    <3>1. x \in S
      <4>1. LastBlank(s, i) \in Nat
        BY <1>1, LastBlankIs
      <4>2. i - 1 \in 0..Len(s)
        BY <1>1, <2>1
      <4>3. Joined(s, LastBlank(s, i)) \in [0..Len(s) -> Seq(Bytes)]
        BY <4>1, JoinedIs
      <4> QED
        BY <4>2, <4>3 DEF S
    <3>2. R[i] = IF i \in Blanks(s) /\ DataBefore(s, i) # {} THEN Append(R[i - 1], x) ELSE R[i - 1]
      BY <2>1, ReadingIs, Zenon DEF R
    <3> HIDE DEF x
    <3> QED
      BY <3>1, <3>2
  <2>4. \E z \in Seq(S) : R[i] = R[p] \o z
    <3>1. CASE R[i] = R[i - 1]
      BY <2>2, <3>1
    <3>2. ASSUME NEW x \in S, R[i] = Append(R[i - 1], x)
          PROVE  \E z \in Seq(S) : R[i] = R[p] \o z
      <4> DEFINE a == R[p]
                 y == <<x>>
      <4>1. a \in Seq(S) /\ y \in Seq(S)
        BY <1>2
      <4> HIDE DEF a
      <4>2. a \o u \in Seq(S) /\ u \o y \in Seq(S)
        BY <4>1, ConcatProperties
      <4>3. Append(a \o u, x) = (a \o u) \o y
        BY <4>2, AppendIsConcat
      <4> HIDE DEF y
      <4>4. (a \o u) \o y = a \o (u \o y)
        BY <4>1, ConcatAssociative
      <4>5. R[i] = Append(a \o u, x)
        BY <2>2, <3>2 DEF a
      <4>6. R[i] = a \o (u \o y)
        BY <4>3, <4>4, <4>5, Zenon
      <4> QED
        BY <4>2, <4>6, Zenon DEF a
    <3> QED
      BY <2>3, <3>1, <3>2
  <2> QED
    BY <2>1, <2>4 DEF i
<1>5. n \in Good
  <2>1. 0..n \subseteq Good
    <3> HIDE DEF Good, n
    <3> QED
      BY <1>1, <1>3, <1>4, BoundedInduction
  <2>2. n \in 0..n
    BY <1>1
  <2> HIDE DEF Good
  <2> QED
    BY <2>1, <2>2
<1> HIDE DEF R, S
<1>6. PICK u \in Seq(S) : R[Len(s)] = R[p] \o u
  BY <1>1, <1>5
<1>7. IsPrefix(R[p], R[Len(s)])
  BY <1>2, <1>6, PrefixOfConcat
<1> QED
  BY <1>7 DEF R
-----------------------------------------------------------------------------
(* The decoder and the stream.                                             *)

LEMMA DropConcat ==
  ASSUME NEW r \in Seq(Bytes), NEW u \in Seq(Bytes), NEW p \in 0..Len(r)
  PROVE  Drop(r \o u, p) = Drop(r, p) \o u
<1>1. /\ Len(r) \in Nat /\ Len(u) \in Nat /\ p \in Nat
      /\ r \o u \in Seq(Bytes) /\ Len(r \o u) = Len(r) + Len(u)
      /\ \A i \in 1..Len(r) + Len(u) : (r \o u)[i] = IF i <= Len(r) THEN r[i] ELSE u[i - Len(r)]
  BY ConcatProperties, LenProperties
<1> DEFINE x == Drop(r \o u, p)
           b == Drop(r, p)
           y == b \o u
           m == Len(r) - p
           n == m + Len(u)
<1>2. p \in 0..Len(r \o u) /\ m \in Nat /\ n \in Nat /\ n = Len(r \o u) - p
  BY <1>1
<1>3. /\ x \in Seq(Bytes) /\ Len(x) = n
      /\ \A i \in 1..n : x[i] = (r \o u)[p + i]
  <2> DEFINE s == r \o u
  <2>1. s \in Seq(Bytes) /\ p \in 0..Len(s) /\ n = Len(s) - p
    BY <1>1, <1>2
  <2> HIDE DEF s, n
  <2>2. Drop(s, p) \in Seq(Bytes) /\ Len(Drop(s, p)) = n /\ \A i \in 1..n : Drop(s, p)[i] = s[p + i]
    BY <2>1, DropIs
  <2> QED
    BY <2>2 DEF s
<1>4. /\ b \in Seq(Bytes) /\ Len(b) = m /\ \A i \in 1..m : b[i] = r[p + i]
  BY DropIs
<1> HIDE DEF b
<1>5. /\ y \in Seq(Bytes) /\ Len(y) = n
      /\ \A i \in 1..n : y[i] = IF i <= m THEN b[i] ELSE u[i - m]
  <2>1. /\ b \o u \in Seq(Bytes) /\ Len(b \o u) = Len(b) + Len(u)
        /\ \A i \in 1..Len(b) + Len(u) :
              (b \o u)[i] = IF i <= Len(b) THEN b[i] ELSE u[i - Len(b)]
    BY <1>4, ConcatProperties
  <2>2. Len(b) = m
    BY <1>4
  <2> HIDE DEF m
  <2> QED
    BY <2>1, <2>2
<1>6. ASSUME NEW i \in 1..n
      PROVE  x[i] = y[i]
  <2>1. /\ p + i \in 1..Len(r) + Len(u) /\ (i <= m <=> p + i <= Len(r))
        /\ (p + i) - Len(r) = i - m /\ (i <= m => i \in 1..m)
    BY <1>1, <1>2
  <2>2. x[i] = IF p + i <= Len(r) THEN r[p + i] ELSE u[(p + i) - Len(r)]
    BY <1>1, <1>3, <2>1
  <2>3. y[i] = IF i <= m THEN b[i] ELSE u[i - m]
    BY <1>5
  <2> HIDE DEF x, y, m, n
  <2>4. CASE i <= m
    BY <1>4, <2>1, <2>2, <2>3, <2>4
  <2>5. CASE ~(i <= m)
    BY <2>1, <2>2, <2>3, <2>5
  <2> QED
    BY <2>4, <2>5
<1> HIDE DEF x, y, m, n
<1>7. x = y
  BY <1>3, <1>5, <1>6, SeqEqual
<1> QED
  BY <1>7 DEF x, y, b

(* The decoder has read all the lines of what was received; what was       *)
(* returned before an error is a beginning of the events.                  *)
DecoderInv ==
  /\ DecoderTypeOK
  /\ failed = "no" =>
       \E p : Reads(decoder, events, Received, p) /\ \A i \in LineEnds(Received) : i <= p
  /\ failed # "no" => IsPrefix(events, EventsOf(Received))
  /\ failed = "no" => Held(decoder) <= 2 * Limit

LEMMA NothingRead ==
  /\ LineEnds(<<>>) = {}
  /\ Reads(Empty, <<>>, <<>>, 0)
<1> DEFINE r == <<>>
<1>1. r \in Seq(Bytes) /\ Len(r) = 0 /\ r = <<>>
  OBVIOUS
<1> HIDE DEF r
<1>2. LineEnds(r) = {}
  BY <1>1 DEF LineEnds
<1>3. Drop(r, 0) = r
  BY <1>1, WholeDrop
<1>4. DataBefore(r, 0 + 1) = {} /\ LastBlank(r, 0 + 1) \in Nat
  <2>1. DataBefore(r, 0 + 1) = {}
    BY <1>2 DEF DataBefore, DataLines
  <2>2. LastBlank(r, 0 + 1) \in 0..Len(r)
    BY <1>1, LastBlankIs
  <2> QED
    BY <1>1, <2>1, <2>2
<1>5. Joined(r, LastBlank(r, 0 + 1))[0] = <<>>
  <2>1. 0 \in 0..Len(r) /\ 0 <= LastBlank(r, 0 + 1)
    BY <1>1, <1>4
  <2> QED
    BY <1>1, <1>4, <2>1, JoinedIs, Zenon
<1>6. Reading(r)[0] = <<>>
  BY <1>1, ReadingIs
<1>7. Holds(Empty, r, r, 0)
  <2>1. Empty.data = r /\ Empty.has_data = FALSE
    BY <1>1 DEF Empty
  <2> QED
    BY <1>1, <1>4, <1>5, <1>6, <2>1 DEF Holds
<1>8. Empty.buffer = r
  BY <1>1 DEF Empty
<1>9. Reads(Empty, r, r, 0)
  BY <1>1, <1>3, <1>7, <1>8 DEF Reads
<1> QED
  BY <1>1, <1>2, <1>9

LEMMA DecoderInit_Inv ==
  DecoderInit => DecoderInv
<1> SUFFICES ASSUME DecoderInit
             PROVE  DecoderInv
  OBVIOUS
<1>1. stream \in Seq(Bytes) /\ Len(stream) \in Nat
  BY StreamsAssumption, LenProperties DEF DecoderInit
<1>2. Received = <<>>
  BY <1>1, SubSeqEmpty DEF DecoderInit, Received
<1>3. DecoderTypeOK
  <2>1. Empty \in [buffer : Seq(Bytes), data : Seq(Bytes), has_data : BOOLEAN]
    BY DEF Empty
  <2> QED
    BY <1>1, <2>1 DEF DecoderInit, DecoderTypeOK
<1>4. Held(decoder) <= 2 * Limit
  <2>1. Held(decoder) = 0
    BY DEF DecoderInit, Held, Empty
  <2> QED
    BY <2>1, LimitAssumption
<1>5. Reads(decoder, events, Received, 0) /\ \A i \in LineEnds(Received) : i <= 0
  BY <1>2, NothingRead DEF DecoderInit
<1>6. failed = "no"
  BY DEF DecoderInit
<1> QED
  BY <1>3, <1>4, <1>5, <1>6 DEF DecoderInv

(* A push keeps the invariant, whatever the length of its chunk. *)
LEMMA PushInv ==
  ASSUME DecoderInv, NEW n \in 1..(Len(stream) - arrived), Push(n)
  PROVE  DecoderInv'
<1> DEFINE r == Received
           u == SubSeq(stream, arrived + 1, arrived + n)
           s == Received'
           d == [decoder EXCEPT !.buffer = @ \o u]
           w == [d |-> d, out |-> <<>>, failed |-> "no"]
           v == Lines(w)
<1>1. /\ stream \in Seq(Bytes) /\ Len(stream) \in Nat /\ arrived \in Nat /\ n \in Nat
      /\ arrived \in 0..Len(stream) /\ arrived + n \in 0..Len(stream)
      /\ decoder \in Decoders /\ events \in Seq(Seq(Bytes))
  <2>1. stream \in Seq(Bytes) /\ Len(stream) \in Nat
    BY StreamsAssumption, LenProperties DEF DecoderInv, DecoderTypeOK
  <2>2. arrived \in 0..Len(stream) /\ decoder \in Decoders /\ events \in Seq(Seq(Bytes))
    BY DEF DecoderInv, DecoderTypeOK, Decoders
  <2> QED
    BY <2>1, <2>2
<1>2. /\ failed = "no" /\ arrived' = arrived + n /\ UNCHANGED stream
      /\ IF OverLimit(d) THEN decoder' = d /\ failed' = "limit" /\ UNCHANGED events
         ELSE /\ decoder' = v.d
              /\ failed' = v.failed
              /\ events' = IF v.failed = "no" THEN events \o v.out ELSE events
  BY DEF Push
<1>3. r \in Seq(Bytes) /\ Len(r) = arrived /\ u \in Seq(Bytes) /\ s = r \o u /\ s \in Seq(Bytes)
  <2>1. r \in Seq(Bytes) /\ Len(r) = arrived
    BY <1>1, PartOfSeq DEF Received
  <2>2. u \in Seq(Bytes)
    <3>1. \A i \in arrived+1..arrived+n : i \in 1..Len(stream)
      BY <1>1
    <3>2. \A i \in arrived+1..arrived+n : stream[i] \in Bytes
      BY <1>1, <3>1, ElementOfSeq
    <3> QED
      BY <1>1, <3>2, SubSeqProperties
  <2>3. s = SubSeq(stream, 1, arrived + n)
    BY <1>2 DEF Received
  <2>4. SubSeq(stream, 1, arrived) \o SubSeq(stream, arrived + 1, arrived + n)
          = SubSeq(stream, 1, arrived + n)
    <3> DEFINE m == arrived + n
    <3>1. 1 \in 1..Len(stream)+1 /\ arrived \in 1-1..Len(stream) /\ m \in arrived..Len(stream)
      BY <1>1
    <3> HIDE DEF m
    <3>2. SubSeq(stream, 1, arrived) \o SubSeq(stream, arrived + 1, m) = SubSeq(stream, 1, m)
      BY <1>1, <3>1, ConcatAdjacentSubSeq
    <3> QED
      BY <3>2 DEF m
  <2>5. s = r \o u
    BY <2>3, <2>4 DEF Received
  <2> QED
    BY <2>1, <2>2, <2>5, ConcatProperties
<1> HIDE DEF r, s, u
<1>4. PICK p : Reads(decoder, events, r, p) /\ \A i \in LineEnds(r) : i <= p
  BY <1>2 DEF DecoderInv, r
<1>5. /\ p \in 0..Len(r) /\ (p = 0 \/ p \in LineEnds(r))
      /\ decoder.buffer = Drop(r, p) /\ Holds(decoder, events, r, p)
  BY <1>4 DEF Reads
<1>6. Begins(r, s)
  BY <1>3, BeginsConcat
<1>7. /\ p \in 0..Len(s) /\ (p = 0 \/ p \in LineEnds(s))
      /\ Reading(r)[p] = Reading(s)[p] /\ Holds(decoder, events, s, p)
  <2>1. p = 0 \/ p \in LineEnds(s)
    BY <1>3, <1>5, <1>6, LinesStay
  <2>2. p \in 0..Len(s)
    BY <1>3, <1>5, <1>6, LenProperties DEF Begins
  <2>3. /\ Reading(r)[p] = Reading(s)[p]
        /\ \A from \in Nat : Joined(r, from)[p] = Joined(s, from)[p]
        /\ LastBlank(r, p + 1) = LastBlank(s, p + 1)
        /\ DataBefore(r, p + 1) = DataBefore(s, p + 1)
    BY <1>3, <1>5, <1>6, ReadingStays
  <2>4. LastBlank(r, p + 1) \in Nat
    BY <1>3, LastBlankIs, LenProperties
  <2> QED
    BY <1>5, <2>1, <2>2, <2>3, <2>4 DEF Holds
<1>8. /\ d \in Decoders /\ d.buffer = decoder.buffer \o u /\ d.data = decoder.data
      /\ (d.has_data <=> decoder.has_data)
  <2>1. decoder.buffer \o u \in Seq(Bytes)
    BY <1>1, <1>3, ConcatProperties DEF Decoders
  <2> QED
    BY <1>1, <2>1 DEF Decoders
<1> HIDE DEF d
<1>9. Reads(d, events, s, p)
  <2>1. d.buffer = Drop(s, p)
    BY <1>3, <1>5, <1>8, DropConcat
  <2>2. Holds(d, events, s, p)
    BY <1>7, <1>8 DEF Holds
  <2> QED
    BY <1>7, <2>1, <2>2 DEF Reads
<1>10. w \in Works /\ w.failed = "no" /\ w.d = d /\ Reads(w.d, events \o w.out, s, p)
  <2>1. events \o <<>> = events
    BY <1>1, ConcatEmptySeq
  <2>2. w.d = d /\ w.out = <<>> /\ w.failed = "no"
    OBVIOUS
  <2>3. w \in Works
    BY <1>8 DEF Works
  <2>4. events \o w.out = events
    BY <2>1, <2>2
  <2> QED
    BY <1>9, <2>2, <2>3, <2>4
<1> HIDE DEF w
<1>11. /\ v \in Works
       /\ v.failed = "no" =>
            /\ Held(v.d) <= Held(w.d)
            /\ \E e : Reads(v.d, events \o v.out, s, e) /\ \A i \in LineEnds(s) : i <= e
  BY <1>1, <1>3, <1>10, LinesReads
<1> HIDE DEF v
<1>12. IsPrefix(events, EventsOf(s))
  <2>1. events = Reading(s)[p]
    BY <1>9 DEF Reads, Holds
  <2>2. IsPrefix(Reading(s)[p], Reading(s)[Len(s)])
    BY <1>3, <1>7, ReadingGrows
  <2> QED
    BY <2>1, <2>2 DEF EventsOf
<1>13. stream' \in Streams /\ arrived' \in 0..Len(stream')
  BY <1>1, <1>2 DEF DecoderInv, DecoderTypeOK
<1>14. CASE OverLimit(d)
  <2>1. decoder' = d /\ failed' = "limit" /\ events' = events
    BY <1>2, <1>14
  <2>2. DecoderTypeOK'
    BY <1>1, <1>8, <1>13, <2>1 DEF DecoderTypeOK, Decoders
  <2> QED
    BY <1>12, <2>1, <2>2 DEF DecoderInv, s
<1>15. CASE ~OverLimit(d) /\ v.failed # "no"
  <2>1. decoder' = v.d /\ failed' = v.failed /\ events' = events
    BY <1>2, <1>15
  <2>2. DecoderTypeOK'
    BY <1>1, <1>11, <1>13, <2>1 DEF DecoderTypeOK, Decoders, Works
  <2> QED
    BY <1>12, <1>15, <2>1, <2>2 DEF DecoderInv, s
<1>16. CASE ~OverLimit(d) /\ v.failed = "no"
  <2>1. decoder' = v.d /\ failed' = "no" /\ events' = events \o v.out
    BY <1>2, <1>16
  <2>2. v.d \in Decoders /\ v.out \in Seq(Seq(Bytes))
    BY <1>11 DEF Works
  <2>3. events \o v.out \in Seq(Seq(Bytes))
    <3> DEFINE S == Seq(Bytes)
               o == v.out
    <3>1. events \in Seq(S) /\ o \in Seq(S)
      BY <1>1, <2>2
    <3> HIDE DEF S, o
    <3>2. events \o o \in Seq(S)
      BY <3>1, ConcatProperties
    <3> QED
      BY <3>2 DEF S, o
  <2>4. DecoderTypeOK'
    BY <1>13, <2>1, <2>2, <2>3 DEF DecoderTypeOK, Decoders
  <2>5. Held(v.d) <= 2 * Limit
    <3>1. /\ Len(d.buffer) \in Nat /\ Len(d.data) \in Nat
          /\ Len(d.buffer) <= Limit /\ Len(d.data) <= Limit
      BY <1>8, <1>16, LenProperties, LimitAssumption DEF OverLimit, Decoders
    <3>2. Held(d) <= 2 * Limit
      <4>1. \A i, j, k \in Nat : i <= k /\ j <= k => i + j <= 2 * k
        OBVIOUS
      <4> QED
        BY <3>1, <4>1, LimitAssumption, Zenon DEF Held
    <3>3. Held(v.d) <= Held(d)
      BY <1>10, <1>11, <1>16
    <3>4. Held(v.d) \in Nat /\ Held(d) \in Nat
      BY <1>10, <1>11, HeldIsNat
    <3> QED
      BY <3>2, <3>3, <3>4, LimitAssumption
  <2>6. \E e : Reads(decoder, events, Received, e)' /\ \A i \in LineEnds(s) : i <= e
    BY <1>11, <1>16, <2>1 DEF s
  <2> QED
    BY <2>1, <2>4, <2>5, <2>6 DEF DecoderInv, s
<1> QED
  BY <1>11, <1>14, <1>15, <1>16 DEF Works

(* Received and its reading do not depend on how it was cut, so neither    *)
(* does the invariant: it is kept by every step of the decoder.            *)
THEOREM DecoderIsSound == DecoderSpec => []DecoderInv
<1>1. DecoderInv /\ [DecoderNext]_decoderVars => DecoderInv'
  <2> SUFFICES ASSUME DecoderInv, [DecoderNext]_decoderVars
               PROVE  DecoderInv'
    OBVIOUS
  <2>1. CASE DecoderNext
    BY <2>1, PushInv DEF DecoderNext
  <2>2. CASE UNCHANGED decoderVars
    BY <2>2 DEF decoderVars, DecoderInv, DecoderTypeOK, Received
  <2> QED
    BY <2>1, <2>2
<1> QED
  BY DecoderInit_Inv, <1>1, PTL DEF DecoderSpec

(* The fields of the decoder are of their types (SseDecoder). *)
THEOREM DecoderIsTyped == DecoderSpec => []DecoderTypeOK
<1>1. DecoderInv => DecoderTypeOK
  BY DEF DecoderInv
<1> QED
  BY DecoderIsSound, <1>1, PTL

(* What the lines read make of all that was received: nothing ends after   *)
(* the last of them.                                                       *)
LEMMA ReadToTheEnd ==
  ASSUME DecoderInv, failed = "no"
  PROVE  \E p \in 0..Len(Received) :
           /\ p = 0 \/ p \in LineEnds(Received)
           /\ \A i \in LineEnds(Received) : i <= p
           /\ Len(Received) = arrived /\ arrived \in Nat /\ Received \in Seq(Bytes)
           /\ decoder.buffer = Drop(Received, p)
           /\ events = Reading(Received)[Len(Received)]
           /\ decoder.has_data <=> DataBefore(Received, arrived + 1) # {}
<1> DEFINE r == Received
<1>1. PICK p : Reads(decoder, events, r, p) /\ \A i \in LineEnds(r) : i <= p
  BY DEF DecoderInv
<1>2. r \in Seq(Bytes) /\ Len(r) = arrived /\ arrived \in Nat
  <2>1. stream \in Seq(Bytes) /\ arrived \in 0..Len(stream)
    BY StreamsAssumption DEF DecoderInv, DecoderTypeOK
  <2> QED
    BY <2>1, PartOfSeq DEF Received
<1> HIDE DEF r
<1>3. /\ p \in 0..Len(r) /\ (p = 0 \/ p \in LineEnds(r)) /\ decoder.buffer = Drop(r, p)
      /\ events = Reading(r)[p] /\ (decoder.has_data <=> DataBefore(r, p + 1) # {})
  BY <1>1 DEF Reads, Holds
<1>4. Len(r) \in p..Len(r)
  BY <1>2, <1>3
<1>5. Reading(r)[Len(r)] = Reading(r)[p] /\ DataBefore(r, Len(r) + 1) = DataBefore(r, p + 1)
  <2>1. \A i \in LineEnds(r) : i <= p \/ Len(r) < i
    BY <1>1
  <2> DEFINE e == Len(r)
  <2>2. e \in p..Len(r) /\ \A i \in LineEnds(r) : i <= p \/ e < i
    BY <1>4, <2>1
  <2> HIDE DEF e
  <2>3. Reading(r)[e] = Reading(r)[p] /\ DataBefore(r, e + 1) = DataBefore(r, p + 1)
    BY <1>2, <1>3, <2>2, Quiet
  <2> QED
    BY <2>3 DEF e
<1>6. /\ p \in 0..Len(r)
      /\ p = 0 \/ p \in LineEnds(r)
      /\ \A i \in LineEnds(r) : i <= p
      /\ Len(r) = arrived /\ arrived \in Nat /\ r \in Seq(Bytes)
      /\ decoder.buffer = Drop(r, p)
      /\ events = Reading(r)[Len(r)]
      /\ decoder.has_data <=> DataBefore(r, arrived + 1) # {}
  BY <1>1, <1>2, <1>3, <1>5
<1> QED
  BY <1>6, Zenon DEF r

(* For every stream and however it is cut into chunks, the decoder returns *)
(* the events of the bytes, and before an error the first of them.         *)
THEOREM EventsAreThoseOfTheBytes == DecoderSpec => []ChunksDoNotShow
<1>1. DecoderInv => ChunksDoNotShow
  <2> SUFFICES ASSUME DecoderInv
               PROVE  ChunksDoNotShow
    OBVIOUS
  <2>1. CASE failed = "no"
    <3>1. events = Reading(Received)[Len(Received)]
      BY <2>1, ReadToTheEnd
    <3> QED
      BY <2>1, <3>1 DEF ChunksDoNotShow, EventsOf
  <2>2. CASE failed # "no"
    BY <2>2 DEF DecoderInv, ChunksDoNotShow
  <2> QED
    BY <2>1, <2>2
<1> QED
  BY DecoderIsSound, <1>1, PTL

(* For every stream and every chunk, has_partial_event tells a truncation  *)
(* from a clean end.                                                       *)
THEOREM TruncationIsSeen == DecoderSpec => []TruncationShows
<1>1. DecoderInv => TruncationShows
  <2> SUFFICES ASSUME DecoderInv, failed = "no"
               PROVE  HasPartialEvent <=> \/ Latest(LineEnds(Received)) < arrived
                                          \/ DataBefore(Received, arrived + 1) # {}
    BY DEF TruncationShows
  <2> DEFINE r == Received
  <2>1. PICK p \in 0..Len(r) :
          /\ p = 0 \/ p \in LineEnds(r)
          /\ \A i \in LineEnds(r) : i <= p
          /\ Len(r) = arrived /\ arrived \in Nat /\ r \in Seq(Bytes)
          /\ decoder.buffer = Drop(r, p)
          /\ decoder.has_data <=> DataBefore(r, arrived + 1) # {}
    BY ReadToTheEnd, Zenon
  <2> HIDE DEF r
  <2>2. Latest(LineEnds(r)) = p
    <3> DEFINE T == LineEnds(r)
    <3>1. T \in SUBSET (1..Len(r)) /\ Len(r) \in Nat
      BY <2>1 DEF LineEnds
    <3>2. (p = 0 \/ p \in T) /\ \A i \in T : i <= p
      BY <2>1
    <3> HIDE DEF T
    <3>3. /\ T = {} => Latest(T) = 0
          /\ T # {} => Latest(T) \in T
          /\ Latest(T) \in 0..Len(r)
          /\ \A y \in T : y <= Latest(T)
      BY <3>1, LatestIsLast
    <3>4. Latest(T) = p
      BY <2>1, <3>1, <3>2, <3>3
    <3> QED
      BY <3>4 DEF T
  <2>3. decoder.buffer # <<>> <=> p < arrived
    <3>1. /\ Drop(r, p) \in Seq(Bytes) /\ Len(Drop(r, p)) = arrived - p
          /\ p \in Nat /\ p <= arrived /\ arrived \in Nat
      <4>1. Drop(r, p) \in Seq(Bytes) /\ Len(Drop(r, p)) = Len(r) - p
        BY <2>1, DropIs
      <4>2. Len(r) = arrived /\ p \in 0..Len(r) /\ arrived \in Nat
        BY <2>1
      <4> QED
        BY <4>1, <4>2
    <3>2. Drop(r, p) = <<>> <=> arrived - p = 0
      BY <3>1, EmptySeq
    <3>3. arrived - p = 0 <=> ~(p < arrived)
      BY <3>1
    <3> QED
      BY <2>1, <3>2, <3>3
  <2> QED
    BY <2>1, <2>2, <2>3 DEF HasPartialEvent, r
<1> QED
  BY DecoderIsSound, <1>1, PTL

(* For every limit, no more than twice the limit is held between pushes.   *)
THEOREM HeldStaysBounded == DecoderSpec => []HeldIsBounded
<1>1. DecoderInv => HeldIsBounded
  BY DEF DecoderInv, HeldIsBounded, Held
<1> QED
  BY DecoderIsSound, <1>1, PTL
=============================================================================
