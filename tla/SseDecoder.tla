----------------------------- MODULE SseDecoder -----------------------------
(***************************************************************************)
(* The framing of a backend's server-sent events (SseDecoder, sse.rs): the *)
(* bytes of a stream arrive in chunks cut anywhere, and each push returns  *)
(* the payloads of the events it completed.                                *)
(*                                                                         *)
(* A byte is a carriage return, a line feed, a colon, a space, "d" for the *)
(* field name data, "x" for any other character, or "!" for a byte that is *)
(* not UTF-8 where it stands.  The decoder looks at nothing else.          *)
(***************************************************************************)
EXTENDS Naturals, SequencesExt

CONSTANTS
  Streams,  \* what a backend may send
  Limit     \* MAX_PENDING_BYTES

Bytes == {"CR", "LF", ":", " ", "d", "x", "!"}

ASSUME StreamsAssumption == Streams \subseteq Seq(Bytes)
ASSUME LimitAssumption == Limit \in Nat

VARIABLES
  stream,   \* what the backend sends
  arrived,  \* how many bytes of it have been pushed
  decoder,  \* the fields of the SseDecoder
  events,   \* the payloads returned so far
  failed    \* why a push returned an error: "no", "limit" or "utf-8"

decoderVars == <<stream, arrived, decoder, events, failed>>

Empty == [buffer |-> <<>>, data |-> <<>>, has_data |-> FALSE]

DecoderTypeOK ==
  /\ stream \in Streams
  /\ arrived \in 0..Len(stream)
  /\ decoder \in [buffer : Seq(Bytes), data : Seq(Bytes), has_data : BOOLEAN]
  /\ events \in Seq(Seq(Bytes))
  /\ failed \in {"no", "limit", "utf-8"}

DecoderInit ==
  /\ stream \in Streams
  /\ arrived = 0
  /\ decoder = Empty
  /\ events = <<>>
  /\ failed = "no"

-----------------------------------------------------------------------------
(* A bug: a carriage return ends its line at once. *)
EndOfLineAtReturn(b, i) == i

(* Where the terminator of a line that runs up to position i ends: at 0 if *)
(* it is a carriage return of which the next byte is not known yet.        *)
EndOfLine(b, i) ==
  IF b[i] = "LF" THEN i
  ELSE IF i = Len(b) THEN 0
  ELSE IF b[i + 1] = "LF" THEN i + 1
  ELSE i

(* take_line: the positions up to which the next line and its terminator   *)
(* reach, the latter 0 if the buffer holds no complete line.               *)
TakeLine(b) ==
  LET i == SelectInSeq(b, LAMBDA c : c \in {"CR", "LF"})
  IN  IF i = 0 THEN [upTo |-> 0, consumed |-> 0]
      ELSE [upTo |-> i - 1, consumed |-> EndOfLine(b, i)]

Drop(s, n) == SubSeq(s, n + 1, Len(s))

(* The value of a field, without the one space that may follow the colon. *)
FieldValue(line) ==
  LET colon == SelectInSeq(line, LAMBDA c : c = ":")
      raw == Drop(line, colon)
  IN  IF colon = 0 THEN <<>>
      ELSE IF raw # <<>> /\ raw[1] = " " THEN Tail(raw)
      ELSE raw

FieldName(line) ==
  LET colon == SelectInSeq(line, LAMBDA c : c = ":")
  IN  IF colon = 0 THEN line ELSE SubSeq(line, 1, colon - 1)

(* consume: an empty line dispatches what there is, a data line adds to    *)
(* it, and a comment or another field is passed over.                      *)
Consume(work, line) ==
  IF line = <<>> THEN
    IF work.d.has_data
    THEN [work EXCEPT !.d.data = <<>>, !.d.has_data = FALSE, !.out = Append(@, work.d.data)]
    ELSE work
  ELSE IF FieldName(line) # <<"d">> THEN work
  ELSE IF "!" \in ToSet(FieldValue(line)) THEN [work EXCEPT !.failed = "utf-8"]
  ELSE [work EXCEPT !.d.data = @ \o (IF work.d.has_data THEN <<"LF">> ELSE <<>>)
                                 \o FieldValue(line),
                    !.d.has_data = TRUE]

(* A turn of the loop of push: the next complete line, unless one was      *)
(* refused before it.                                                      *)
Turn(work) ==
  LET b == work.d.buffer
      t == TakeLine(b)
      taken == [work EXCEPT !.d.buffer = Drop(b, t.consumed)]
  IN  IF work.failed # "no" \/ t.consumed = 0 THEN work
      ELSE Consume(taken, SubSeq(b, 1, t.upTo))

(* The loop.  A line takes a byte at least from the buffer, so that after  *)
(* as many turns as there are bytes no complete line is left.              *)
Lines(work) ==
  LET n == Len(work.d.buffer)
      after[k \in 0..n] == IF k = 0 THEN work ELSE Turn(after[k - 1])
  IN  after[n]

(* A bug: only what has not been split into lines yet is held to the limit. *)
OverLimitInBuffer(d) == Len(d.buffer) > Limit

OverLimit(d) == Len(d.buffer) > Limit \/ Len(d.data) > Limit

(* push, for the next n bytes.  An error discards what the same push had   *)
(* returned, and is the end of the stream for who called it.               *)
Push(n) ==
  LET d == [decoder EXCEPT !.buffer = @ \o SubSeq(stream, arrived + 1, arrived + n)]
      done == Lines([d |-> d, out |-> <<>>, failed |-> "no"])
  IN  /\ failed = "no"
      /\ arrived' = arrived + n
      /\ IF OverLimit(d)
         THEN decoder' = d /\ failed' = "limit" /\ UNCHANGED events
         ELSE /\ decoder' = done.d
              /\ failed' = done.failed
              /\ events' = IF done.failed = "no" THEN events \o done.out ELSE events
      /\ UNCHANGED stream

(* A bug: forgetting the data lines of an event that was not dispatched. *)
BufferIsPartial == decoder.buffer # <<>>

(* has_partial_event, asked at the end of the stream. *)
HasPartialEvent == decoder.buffer # <<>> \/ decoder.has_data

DecoderNext == \E n \in 1..(Len(stream) - arrived) : Push(n)

DecoderSpec == DecoderInit /\ [][DecoderNext]_decoderVars

-----------------------------------------------------------------------------
(* What a stream of bytes means, whatever the chunks: its lines are cut at *)
(* every line feed and at every carriage return known not to be followed   *)
(* by one, and an event is the data lines between two empty lines.         *)

LineEnds(s) ==
  {i \in 1..Len(s) : \/ s[i] = "LF"
                     \/ s[i] = "CR" /\ i < Len(s) /\ s[i + 1] # "LF"}

Before(S, i) == {j \in S : j < i}

Latest(S) == IF S = {} THEN 0 ELSE Max(S)

(* The line that ends at i. *)
LineAt(s, i) ==
  LET first == Latest(Before(LineEnds(s), i)) + 1
      last == IF s[i] = "LF" /\ i > first /\ s[i - 1] = "CR" THEN i - 2 ELSE i - 1
  IN  SubSeq(s, first, last)

Blanks(s) == {i \in LineEnds(s) : LineAt(s, i) = <<>>}

DataLines(s) == {i \in LineEnds(s) : FieldName(LineAt(s, i)) = <<"d">>}

LastBlank(s, i) == Latest(Before(Blanks(s), i))

(* The data lines of the event that has not ended before i. *)
DataBefore(s, i) == {j \in DataLines(s) : LastBlank(s, i) < j /\ j < i}

(* The values of the data lines after from, joined line by line. *)
Joined(s, from) ==
  LET value(i) == FieldValue(LineAt(s, i))
      text[i \in 0..Len(s)] ==
        IF i <= from THEN <<>>
        ELSE IF i \notin DataLines(s) THEN text[i - 1]
        ELSE IF \E j \in DataLines(s) : from < j /\ j < i
             THEN text[i - 1] \o <<"LF">> \o value(i)
             ELSE value(i)
  IN  text

(* The events that have ended up to each position. *)
Reading(s) ==
  LET read[i \in 0..Len(s)] ==
        IF i = 0 THEN <<>>
        ELSE IF i \in Blanks(s) /\ DataBefore(s, i) # {}
             THEN Append(read[i - 1], Joined(s, LastBlank(s, i))[i - 1])
             ELSE read[i - 1]
  IN  read

EventsOf(s) == Reading(s)[Len(s)]

Received == SubSeq(stream, 1, arrived)

-----------------------------------------------------------------------------
(* Properties.                                                             *)

(* The events are those of the bytes, however they were cut into chunks,   *)
(* also within a line, a field name or a line end.                         *)
ChunksDoNotShow ==
  IF failed = "no" THEN events = EventsOf(Received) ELSE IsPrefix(events, EventsOf(Received))

(* At the end of a stream, something is held exactly if there are bytes    *)
(* after the last line or data lines after the last event ("a truncation   *)
(* rather than a clean end").                                              *)
TruncationShows ==
  failed = "no" =>
    (HasPartialEvent <=>
       \/ Latest(LineEnds(Received)) < arrived
       \/ DataBefore(Received, arrived + 1) # {})

(* However long a backend keeps an event open, in one line or in many,     *)
(* what is held for it between two pushes is bounded: by twice the limit,  *)
(* because the line that is not complete and the data of the lines before  *)
(* it are judged each by itself.                                           *)
HeldIsBounded ==
  failed = "no" => Len(decoder.buffer) + Len(decoder.data) <= 2 * Limit

(* "The most that may be held while an event is still incomplete" is the   *)
(* limit itself.  The code does not grant that.                            *)
HeldWithinLimit ==
  failed = "no" => Len(decoder.buffer) + Len(decoder.data) <= Limit
=============================================================================
