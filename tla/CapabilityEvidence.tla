------------------------- MODULE CapabilityEvidence -------------------------
(***************************************************************************)
(* What is known of the capabilities of resident instances, and the        *)
(* requests that demonstrate them (capability.rs, instance.rs, and the     *)
(* embed, generate_text, verify_ and record_ methods of LoadedModel and    *)
(* of Runtime).                                                            *)
(*                                                                         *)
(* Several callers share the instances.  A call looks its instance up, is  *)
(* admitted, waits for the backend, judges the answer and, if it is a      *)
(* verifying one, records it; the instance may be unloaded between any two *)
(* of these.  A call that is refused or fails has told its caller so, and  *)
(* is over.  A stream is its holder's, who may record it whenever, as      *)
(* often as, and for whichever instance it likes.  What is known of an     *)
(* instance is handed out in copies, and a copy is its holder's, to add    *)
(* what else is said of the instance.  How an unload goes about it is      *)
(* module InstanceLifecycle.                                               *)
(***************************************************************************)
EXTENDS Inference

CONSTANTS
  Instances,       \* identifiers of instances, each given out once
  Callers,
  Streams,         \* bound: the streams that may be held at once
  Copies,          \* bound: the copies that may be held at once
  None,
  Metadata,        \* what artifacts say of themselves
  Parameters,      \* the parameters of generation requests
  Batches,         \* how many inputs an embedding request may have
  EmbedResponses,  \* the embeddings a backend may answer with
  Completions      \* the choices a backend may answer with

ASSUME NoneAssumption == None \notin Instances

(* A batch is counted, and an answer says of each vector which input it is *)
(* for and how long it is (EmbedRequest::len, Embedding).                  *)
ASSUME AnswersAssumption ==
  /\ Batches \subseteq Nat
  /\ EmbedResponses \subseteq Seq([index : Nat, dimension : Nat, finite : BOOLEAN])

Capabilities == {"text-generation", "embeddings"}
States == {"Unknown", "Indicated", "Verified"}
Kinds == {"embed", "generate_text"}
Ends == {"none", "Completed", "other"}

VARIABLES
  phase,     \* "absent", then LifecyclePhase while resident, then "forgotten"
  known,     \* the capabilities of each ModelInstance
  call,      \* what each caller is doing
  stream,    \* each GenerationStream, as its consumer has seen it
  copy,      \* each ModelCapabilities that was handed out
  performed, \* history: what backends have really done, <<instance, capability>>
  lent       \* history: <<j, i>> if a stream of j was recorded for another instance i

history == <<performed, lent>>
vars == <<phase, known, call, stream, copy, history>>

Idle == [step |-> "idle", on |-> None, kind |-> "none", inputs |-> 0, result |-> <<>>]
NoStream == [of |-> None, deltas |-> FALSE, end |-> "none"]
NothingKnown == [k \in Capabilities |-> "Unknown"]
NoCopy == [of |-> None, known |-> NothingKnown]

Calls ==
  [step : {"idle", "found", "sent", "completed"}, on : Instances \cup {None},
   kind : Kinds \cup {"none"}, inputs : Batches \cup {0}, result : EmbedResponses \cup {<<>>}]

TypeOK ==
  /\ phase \in [Instances -> {"absent", "Serving", "Unloading", "forgotten"}]
  /\ known \in [Instances -> [Capabilities -> States]]
  /\ call \in [Callers -> Calls]
  /\ stream \in [Streams -> [of : Instances \cup {None}, deltas : BOOLEAN, end : Ends]]
  /\ copy \in [Copies -> [of : Instances \cup {None}, known : [Capabilities -> States]]]
  /\ performed \subseteq Instances \X Capabilities
  /\ lent \subseteq Instances \X Instances

Init ==
  /\ phase = [i \in Instances |-> "absent"]
  /\ known = [i \in Instances |-> NothingKnown]
  /\ call = [c \in Callers |-> Idle]
  /\ stream = [s \in Streams |-> NoStream]
  /\ copy = [p \in Copies |-> NoCopy]
  /\ performed = {}
  /\ lent = {}

Resident(i) == phase[i] \in {"Serving", "Unloading"}

-----------------------------------------------------------------------------
(* Instances come and go.                                                  *)

(* A bug: an assertion replaces whatever was known.                        *)
IndicateAnyway(state) == "Indicated"

(* ModelCapabilities::indicate: a demonstration outranks an assertion.     *)
Indicate(state) == IF state = "Verified" THEN state ELSE "Indicated"

(* indicated_by_metadata *)
IndicatedByMetadata(m) ==
  [k \in Capabilities |->
     IF \/ k = "text-generation" /\ m.chat_template
        \/ k = "embeddings" /\ m.bert /\ m.embedding_length
     THEN Indicate("Unknown") ELSE "Unknown"]

(* ModelLoader::commit: a new instance, serving, with what its artifact    *)
(* suggests and nothing demonstrated.                                      *)
Commit(i, m) ==
  /\ phase[i] = "absent"
  /\ phase' = [phase EXCEPT ![i] = "Serving"]
  /\ known' = [known EXCEPT ![i] = IndicatedByMetadata(m)]
  /\ UNCHANGED <<call, stream, copy, history>>

(* An unload closes admission. *)
Close(i) ==
  /\ phase[i] = "Serving"
  /\ phase' = [phase EXCEPT ![i] = "Unloading"]
  /\ UNCHANGED <<known, call, stream, copy, history>>

(* The backend is gone, and the runtime forgets the instance; who resolved *)
(* it before still holds it.                                               *)
Forget(i) ==
  /\ phase[i] = "Unloading"
  /\ phase' = [phase EXCEPT ![i] = "forgotten"]
  /\ UNCHANGED <<known, call, stream, copy, history>>

-----------------------------------------------------------------------------
(* Calls.  Which one it is makes no difference before it is sent.          *)

(* Runtime::require.  UnknownInstance of what is not resident. *)
Find(c, i) ==
  /\ call[c].step = "idle" /\ Resident(i)
  /\ call' = [call EXCEPT ![c].step = "found", ![c].on = i]
  /\ UNCHANGED <<phase, known, stream, copy, history>>

(* The call is over: refused, failed, cancelled or dropped. *)
End(c) ==
  /\ call' = [call EXCEPT ![c] = Idle]
  /\ UNCHANGED <<phase, known, stream, copy, history>>

(* InvalidRequest, judged before admission, or NotUsable. *)
Refuse(c) ==
  /\ call[c].step = "found"
  /\ \/ \E p \in Parameters : ~Honourable(p)
     \/ phase[call[c].on] # "Serving"
  /\ End(c)

Admitted(c) == call[c].step = "found" /\ phase[call[c].on] = "Serving"

(* embed: sent as it is, also with no input at all. *)
SendEmbed(c, inputs) ==
  /\ Admitted(c)
  /\ call' = [call EXCEPT ![c].step = "sent", ![c].kind = "embed", ![c].inputs = inputs]
  /\ UNCHANGED <<phase, known, stream, copy, history>>

(* generate_text *)
SendGenerate(c) ==
  /\ Admitted(c)
  /\ \E p \in Parameters : Honourable(p)
  /\ call' = [call EXCEPT ![c].step = "sent", ![c].kind = "generate_text"]
  /\ UNCHANGED <<phase, known, stream, copy, history>>

(* generate_stream_within: the caller has the stream, and the call is over. *)
StartStream(c, s) ==
  /\ Admitted(c) /\ stream[s].of = None
  /\ \E p \in Parameters : Honourable(p)
  /\ stream' = [stream EXCEPT ![s].of = call[c].on]
  /\ call' = [call EXCEPT ![c] = Idle]
  /\ UNCHANGED <<phase, known, copy, history>>

(* The backend of an instance answers until it is gone. *)
Answered(c, kind) ==
  call[c].step = "sent" /\ call[c].kind = kind /\ Resident(call[c].on)

Performs(i, capability) == performed' = performed \cup {<<i, capability>>}

(* Whether embeddings answer a request for this many inputs: each input    *)
(* has one vector, and the vectors can be compared with each other.        *)
AnswersEach(inputs, embeddings) ==
  /\ inputs > 0
  /\ \A n \in 0..(inputs - 1) : Cardinality(ForInput(embeddings, n)) = 1
  /\ \A k \in DOMAIN embeddings :
       /\ embeddings[k].index \in 0..(inputs - 1)
       /\ embeddings[k].finite
       /\ embeddings[k].dimension = embeddings[1].dimension
       /\ embeddings[k].dimension # 0

(* The answers to so many inputs that validate lets pass. *)
Usable == [n \in Batches |-> {e \in EmbedResponses : ValidEmbeddings(n, e)}]

(* The backend answers with embeddings that can be used.                   *)
AnswerEmbeddings(c) ==
  /\ Answered(c, "embed")
  /\ \E e \in Usable[call[c].inputs] :
       /\ call' = [call EXCEPT ![c].step = "completed", ![c].result = e]
       /\ IF AnswersEach(call[c].inputs, e)
          THEN Performs(call[c].on, "embeddings") ELSE UNCHANGED performed
  /\ UNCHANGED <<phase, known, stream, copy, lent>>

(* Of the choices of a completion the first one counts, if there is any,   *)
(* and validate_generation judges it.                                      *)
UsableText ==
  {choices[1] : choices \in {s \in Completions : s # <<>> /\ ValidGeneration(s[1])}}

(* The backend answers with a text that can be used. *)
AnswerText(c) ==
  /\ Answered(c, "generate_text")
  /\ \E r \in UsableText :
       IF r.text > 0 THEN Performs(call[c].on, "text-generation") ELSE UNCHANGED performed
  /\ call' = [call EXCEPT ![c].step = "completed"]
  /\ UNCHANGED <<phase, known, stream, copy, lent>>

Demonstrates(kind) == IF kind = "embed" THEN "embeddings" ELSE "text-generation"

(* The transport failed or REQUEST_BUDGET ran out, the backend refused,    *)
(* its response could not be read or is not usable.                        *)
Fail(c) == call[c].step = "sent" /\ End(c)

(* The request was cancelled, or the future dropped. *)
Stop(c) == call[c].step = "sent" /\ End(c)

(* verify_embeddings and verify_text_generation are the calls above with   *)
(* one more step before Ok: what was demonstrated is recorded in the       *)
(* instance that every caller shares, by now perhaps forgotten.            *)
Verify(c) ==
  /\ call[c].step = "completed"
  /\ call' = [call EXCEPT ![c] = Idle]
  /\ known' = [known EXCEPT ![call[c].on][Demonstrates(call[c].kind)] = "Verified"]
  /\ UNCHANGED <<phase, stream, copy, history>>

(* embed and generate_text answer Ok, and record nothing. *)
Return(c) == call[c].step = "completed" /\ End(c)

-----------------------------------------------------------------------------
(* Streams, as their consumer sees them (module GenerationStream).         *)

Open(s) == stream[s].of # None /\ stream[s].end = "none"

(* A text that is not empty is taken from the stream. *)
Deliver(s) ==
  /\ Open(s)
  /\ stream' = [stream EXCEPT ![s].deltas = TRUE]
  /\ UNCHANGED <<phase, known, call, copy, history>>

(* The consumer sees that the stream is complete. *)
SeeCompleted(s) ==
  /\ Open(s)
  /\ stream' = [stream EXCEPT ![s].end = "Completed"]
  /\ IF stream[s].deltas
     THEN Performs(stream[s].of, "text-generation") ELSE UNCHANGED performed
  /\ UNCHANGED <<phase, known, call, copy, lent>>

(* It sees that it failed, was cut short, or was cancelled. *)
SeeOtherEnd(s) ==
  /\ Open(s)
  /\ stream' = [stream EXCEPT ![s].end = "other"]
  /\ UNCHANGED <<phase, known, call, copy, history>>

(* A bug: text is enough, whether or not the backend went on to complete. *)
DemonstratedByText(s) == stream[s].deltas

(* demonstrated_generation *)
Demonstrated(s) == stream[s].end = "Completed" /\ stream[s].deltas

(* record_generation_stream, for any instance that is resident: nothing    *)
(* asks whose stream it is.                                                *)
RecordStream(s, i) ==
  /\ stream[s].of # None /\ Demonstrated(s) /\ Resident(i)
  /\ known' = [known EXCEPT ![i]["text-generation"] = "Verified"]
  /\ lent' = IF stream[s].of = i THEN lent ELSE lent \cup {<<stream[s].of, i>>}
  /\ UNCHANGED <<phase, call, stream, copy, performed>>

DropStream(s) ==
  /\ stream[s].of # None
  /\ stream' = [stream EXCEPT ![s] = NoStream]
  /\ UNCHANGED <<phase, known, call, copy, history>>

-----------------------------------------------------------------------------
(* Copies.                                                                 *)

(* Runtime::instance, and ModelInstance::capabilities of that: what is     *)
(* known now, and nothing that is learnt later.                            *)
Snapshot(p, i) ==
  /\ Resident(i)
  /\ copy' = [copy EXCEPT ![p] = [of |-> i, known |-> known[i]]]
  /\ UNCHANGED <<phase, known, call, stream, history>>

(* ModelCapabilities::indicate by the holder, of what a backend reports or *)
(* an artifact suggests, whenever it learns of it.                         *)
IndicateInCopy(p, k) ==
  /\ copy[p].of # None
  /\ copy' = [copy EXCEPT ![p].known[k] = Indicate(copy[p].known[k])]
  /\ UNCHANGED <<phase, known, call, stream, history>>

-----------------------------------------------------------------------------
InstanceStep(i) == (\E m \in Metadata : Commit(i, m)) \/ Close(i) \/ Forget(i)

CallStep(c) ==
  \/ \E i \in Instances : Find(c, i)
  \/ \E n \in Batches : SendEmbed(c, n)
  \/ \E s \in Streams : StartStream(c, s)
  \/ Refuse(c) \/ SendGenerate(c) \/ AnswerEmbeddings(c) \/ AnswerText(c) \/ Fail(c) \/ Stop(c)
  \/ Verify(c) \/ Return(c)

StreamStep(s) ==
  \/ Deliver(s) \/ SeeCompleted(s) \/ SeeOtherEnd(s) \/ DropStream(s)
  \/ \E i \in Instances : RecordStream(s, i)

CopyStep(p) ==
  \/ \E i \in Instances : Snapshot(p, i)
  \/ \E k \in Capabilities : IndicateInCopy(p, k)

Next ==
  \/ \E i \in Instances : InstanceStep(i)
  \/ \E c \in Callers : CallStep(c)
  \/ \E s \in Streams : StreamStep(s)
  \/ \E p \in Copies : CopyStep(p)

Spec == Init /\ [][Next]_vars

-----------------------------------------------------------------------------
(* Properties.                                                             *)

(* A capability is verified of an instance only if its own backend         *)
(* performed it - answered a request with a vector for each input, or      *)
(* completed a generation that had text in it - or if the holder of a      *)
(* stream of another instance, which did complete one, had it recorded for *)
(* this one.  Neither metadata, nor an answer that cannot be used, nor a   *)
(* stream that began and was not seen to complete is a demonstration.      *)
VerifiedWasPerformed ==
  \A i \in Instances :
    /\ known[i]["embeddings"] = "Verified" => <<i, "embeddings">> \in performed
    /\ known[i]["text-generation"] = "Verified" =>
         \E j \in Instances : /\ <<j, "text-generation">> \in performed
                             /\ (j = i \/ <<j, i>> \in lent)

(* An instance inherits no demonstration from another's backend.  The code *)
(* does not grant that: record_generation_stream takes any stream.         *)
OwnDemonstration ==
  \A i \in Instances, k \in Capabilities :
    known[i][k] = "Verified" => <<i, k>> \in performed

Strength(state) == CASE state = "Unknown" -> 0 [] state = "Indicated" -> 1 [] OTHER -> 2

(* Nothing takes evidence back.  What is known of an instance gets no      *)
(* weaker, and what a copy says was demonstrated it goes on saying, while  *)
(* its holder adds later assertions and while it is brought up to date.    *)
EvidenceStands ==
  [][/\ \A i \in Instances, k \in Capabilities :
          phase[i] # "absent" => Strength(known[i][k]) <= Strength(known'[i][k])
     /\ \A p \in Copies, k \in Capabilities :
          copy'[p].of = copy[p].of /\ copy[p].known[k] = "Verified"
            => copy'[p].known[k] = "Verified"]_vars

(* Embeddings that a caller is given are one usable vector for each input  *)
(* that it asked about, whatever order, indices and lengths the backend    *)
(* answered with.                                                          *)
AcceptedAnswersEach ==
  \A c \in Callers :
    call[c].step = "completed" /\ call[c].kind = "embed" =>
      AnswersEach(call[c].inputs, call[c].result)

-----------------------------------------------------------------------------
(* The strengthening under which VerifiedWasPerformed and                  *)
(* AcceptedAnswersEach are inductive, and EvidenceStands follows.          *)

(* A call that is under way has an instance, and one that was sent is of a *)
(* kind and, if it embeds, about a batch.                                  *)
CallsAreAbout ==
  \A c \in Callers :
    /\ call[c].step # "idle" => call[c].on \in Instances
    /\ call[c].step \in {"sent", "completed"} =>
         \/ call[c].kind = "generate_text"
         \/ call[c].kind = "embed" /\ call[c].inputs \in Batches

(* A call that is completed may be recorded: its backend did perform.      *)
CompletedPerformed ==
  \A c \in Callers :
    call[c].step = "completed" => <<call[c].on, Demonstrates(call[c].kind)>> \in performed

(* So may a stream that was seen to complete with text in it.              *)
StreamedPerformed ==
  \A s \in Streams : Demonstrated(s) => <<stream[s].of, "text-generation">> \in performed

(* What a copy says was demonstrated is known of its instance as well.     *)
CopiesAreTrue ==
  \A p \in Copies :
    IF copy[p].of = None THEN copy[p] = NoCopy
    ELSE /\ phase[copy[p].of] # "absent"
         /\ \A k \in Capabilities :
              copy[p].known[k] = "Verified" => known[copy[p].of][k] = "Verified"

EvidenceInv ==
  /\ TypeOK /\ CallsAreAbout /\ CompletedPerformed /\ StreamedPerformed
  /\ AcceptedAnswersEach /\ VerifiedWasPerformed /\ CopiesAreTrue
=============================================================================
