---------------------- MODULE CapabilityEvidenceProofs ----------------------
(***************************************************************************)
(* What is known of the capabilities of instances, for any instances,      *)
(* callers, streams and answers of backends: EvidenceInv is inductive.     *)
(* That an accepted answer has a vector for each input is a pigeonhole     *)
(* argument: as many vectors as inputs, each at an index that was asked    *)
(* for and not seen before, leave no input out.                            *)
(***************************************************************************)
EXTENDS CapabilityEvidence, FiniteSetTheorems, FunctionTheorems, TLAPS

Embedding == [index : Nat, dimension : Nat, finite : BOOLEAN]

(* One-to-one between as many positions as there are inputs, the indices   *)
(* are all of them; and where each input has one position, there are as    *)
(* many positions as inputs.                                               *)
LEMMA Counts ==
  ASSUME NEW n \in Nat
  PROVE  /\ IsFiniteSet(1..n) /\ Cardinality(1..n) = n
         /\ IsFiniteSet(0..(n - 1)) /\ Cardinality(0..(n - 1)) = n
<1>1. 0 \in Int /\ 1 \in Int /\ n \in Int /\ n - 1 \in Int
  OBVIOUS
<1>2. /\ IsFiniteSet(1..n) /\ Cardinality(1..n) = IF 1 > n THEN 0 ELSE n - 1 + 1
      /\ IsFiniteSet(0..(n - 1))
      /\ Cardinality(0..(n - 1)) = IF 0 > n - 1 THEN 0 ELSE (n - 1) - 0 + 1
  BY <1>1, FS_Interval
<1> QED
  BY <1>2

LEMMA IndicesOnto ==
  ASSUME NEW n \in Nat, NEW f \in [1..n -> 0..(n - 1)],
         \A j, k \in 1..n : f[j] = f[k] => j = k
  PROVE  \A i \in 0..(n - 1) : \E k \in 1..n : f[k] = i
<1>1. f \in Injection(1..n, 0..(n - 1))
  BY Fun_IsInj
<1>2. /\ IsFiniteSet(1..n) /\ Cardinality(1..n) = n
      /\ IsFiniteSet(0..(n - 1)) /\ Cardinality(0..(n - 1)) = n
  BY Counts
<1>3. f \in Surjection(1..n, 0..(n - 1))
  BY <1>1, <1>2, FS_Injection
<1> QED
  BY <1>3, Zenon DEF Surjection

LEMMA AsManyPositions ==
  ASSUME NEW n \in Nat, NEW m \in Nat, NEW f \in [1..m -> 0..(n - 1)],
         \A j, k \in 1..m : f[j] = f[k] => j = k,
         \A i \in 0..(n - 1) : \E k \in 1..m : f[k] = i
  PROVE  m = n
<1>1. f \in Bijection(1..m, 0..(n - 1))
  BY Fun_IsBij
<1>2. ExistsBijection(1..m, 0..(n - 1))
  BY <1>1 DEF ExistsBijection
<1>3. /\ IsFiniteSet(1..m) /\ Cardinality(1..m) = m /\ Cardinality(0..(n - 1)) = n
  BY Counts
<1> QED
  BY <1>2, <1>3, FS_Bijection

(* for_input finds one position of an index exactly if there is one.       *)
LEMMA OnePosition ==
  ASSUME NEW e \in Seq(Embedding), NEW i
  PROVE  Cardinality(ForInput(e, i)) = 1 <=>
           /\ \E k \in DOMAIN e : e[k].index = i
           /\ \A j, k \in DOMAIN e : e[j].index = i /\ e[k].index = i => j = k
<1>1. IsFiniteSet(ForInput(e, i))
  <2>1. Len(e) \in Int /\ 1 \in Int /\ DOMAIN e = 1..Len(e)
    OBVIOUS
  <2>2. IsFiniteSet(DOMAIN e)
    BY <2>1, FS_Interval
  <2>3. ForInput(e, i) \subseteq DOMAIN e
    BY DEF ForInput
  <2> QED
    BY <2>2, <2>3, FS_Subset
<1>2. Cardinality(ForInput(e, i)) = 1 <=> \E k : ForInput(e, i) = {k}
  BY <1>1, FS_Singleton
<1>3. (\E k : ForInput(e, i) = {k}) <=>
        /\ \E k \in DOMAIN e : e[k].index = i
        /\ \A j, k \in DOMAIN e : e[j].index = i /\ e[k].index = i => j = k
  <2>1. ASSUME NEW k, ForInput(e, i) = {k}
        PROVE  /\ \E j \in DOMAIN e : e[j].index = i
               /\ \A j, l \in DOMAIN e : e[j].index = i /\ e[l].index = i => j = l
    <3>1. \A j : j \in DOMAIN e /\ e[j].index = i <=> j = k
      BY <2>1 DEF ForInput
    <3> QED
      BY <3>1
  <2>2. ASSUME NEW k \in DOMAIN e, e[k].index = i,
               \A j, l \in DOMAIN e : e[j].index = i /\ e[l].index = i => j = l
        PROVE  ForInput(e, i) = {k}
    <3>1. \A j : j \in ForInput(e, i) <=> j = k
      BY <2>2 DEF ForInput
    <3> QED
      BY <3>1
  <2> QED
    BY <2>1, <2>2
<1> QED
  BY <1>2, <1>3

LEMMA ValidAnswersEach ==
  ASSUME NEW n \in Nat, NEW e \in Seq(Embedding), ValidEmbeddings(n, e)
  PROVE  AnswersEach(n, e)
<1>1. /\ Len(e) = n /\ DOMAIN e = 1..n
      /\ \A k \in 1..n : e[k] \in Embedding
  BY DEF ValidEmbeddings
<1>2. \A k \in 1..n : e[k].index \in 0..(n - 1) /\ e[k].dimension # 0 /\ e[k].finite
  <2> SUFFICES ASSUME NEW k \in 1..n
               PROVE  e[k].index \in 0..(n - 1) /\ e[k].dimension # 0 /\ e[k].finite
    OBVIOUS
  <2>1. e[k].index \in Nat /\ e[k].dimension \in Nat
    BY <1>1 DEF Embedding
  <2>2. e[k].index < n /\ e[k].dimension > 0 /\ e[k].finite
    BY <1>1 DEF ValidEmbeddings, Attributable
  <2> QED
    BY <2>1, <2>2
<1>3. \A j, k \in 1..n : e[j].index = e[k].index => j = k
  <2> SUFFICES ASSUME NEW j \in 1..n, NEW k \in 1..n, j < k
               PROVE  e[j].index # e[k].index
    OBVIOUS
  <2>1. j \in 1..(k - 1)
    OBVIOUS
  <2> QED
    BY <1>1, <2>1 DEF ValidEmbeddings, Attributable
<1>4. PICK d : d \in Dimension(e)
  BY DEF ValidEmbeddings
<1>5. n > 0 /\ \A k \in 1..n : e[k].dimension = d
  BY <1>1, <1>4 DEF Dimension
<1>6. \A i \in 0..(n - 1) : \E k \in 1..n : e[k].index = i
  <2> DEFINE f == [k \in 1..n |-> e[k].index]
  <2>1. f \in [1..n -> 0..(n - 1)] /\ \A k \in 1..n : f[k] = e[k].index
    BY <1>2
  <2>2. \A j, k \in 1..n : f[j] = f[k] => j = k
    BY <1>3
  <2> HIDE DEF f
  <2>3. \A i \in 0..(n - 1) : \E k \in 1..n : f[k] = i
    BY <2>1, <2>2, IndicesOnto
  <2> QED
    BY <2>1, <2>3
<1>7. \A i \in 0..(n - 1) : Cardinality(ForInput(e, i)) = 1
  BY <1>1, <1>3, <1>6, OnePosition
<1>8. 1 \in 1..n
  BY <1>5
<1> QED
  BY <1>1, <1>2, <1>5, <1>7, <1>8 DEF AnswersEach

LEMMA AnsweredIsValid ==
  ASSUME NEW n \in Nat, NEW e \in Seq(Embedding), AnswersEach(n, e)
  PROVE  ValidEmbeddings(n, e)
<1> DEFINE m == Len(e)
<1>1. /\ m \in Nat /\ DOMAIN e = 1..m
      /\ \A k \in 1..m : e[k] \in Embedding
  OBVIOUS
<1>2. /\ n > 0
      /\ \A k \in 1..m : /\ e[k].index \in 0..(n - 1) /\ e[k].finite
                         /\ e[k].dimension = e[1].dimension /\ e[k].dimension # 0
  BY <1>1 DEF AnswersEach
<1>3. \A i \in 0..(n - 1) :
        /\ \E k \in 1..m : e[k].index = i
        /\ \A j, k \in 1..m : e[j].index = i /\ e[k].index = i => j = k
  <2> SUFFICES ASSUME NEW i \in 0..(n - 1)
               PROVE  /\ \E k \in 1..m : e[k].index = i
                      /\ \A j, k \in 1..m : e[j].index = i /\ e[k].index = i => j = k
    OBVIOUS
  <2>1. Cardinality(ForInput(e, i)) = 1
    BY DEF AnswersEach
  <2> QED
    BY <1>1, <2>1, OnePosition
<1>4. \A j, k \in 1..m : e[j].index = e[k].index => j = k
  BY <1>2, <1>3
<1>5. m = n
  <2> DEFINE f == [k \in 1..m |-> e[k].index]
  <2>1. f \in [1..m -> 0..(n - 1)] /\ \A k \in 1..m : f[k] = e[k].index
    BY <1>2
  <2>2. \A j, k \in 1..m : f[j] = f[k] => j = k
    BY <1>4
  <2>3. \A i \in 0..(n - 1) : \E k \in 1..m : f[k] = i
    BY <1>3
  <2> HIDE DEF f
  <2> QED
    BY <1>1, <2>1, <2>2, <2>3, AsManyPositions
<1>6. \A k \in 1..m : Attributable(n, e, k) /\ e[k].dimension > 0
  <2> SUFFICES ASSUME NEW k \in 1..m
               PROVE  Attributable(n, e, k) /\ e[k].dimension > 0
    OBVIOUS
  <2>1. e[k].dimension > 0 /\ e[k].index < n
    BY <1>1, <1>2 DEF Embedding
  <2>2. \A j \in 1..(k - 1) : j \in 1..m /\ j # k
    OBVIOUS
  <2> QED
    BY <1>4, <2>1, <2>2 DEF Attributable
<1>7. Dimension(e) # {}
  <2>1. 1 \in 1..m
    BY <1>2, <1>5
  <2> QED
    BY <1>1, <1>2, <2>1 DEF Dimension
<1> QED
  BY <1>1, <1>2, <1>5, <1>6, <1>7 DEF ValidEmbeddings

(* validate lets an answer pass exactly if it has one vector that can be   *)
(* used for each input, whatever the order and the indices the backend     *)
(* gave them (validate, inference.rs).                                     *)
THEOREM ValidationIsExact ==
  ASSUME NEW n \in Nat, NEW e \in Seq([index : Nat, dimension : Nat, finite : BOOLEAN])
  PROVE  ValidEmbeddings(n, e) <=> AnswersEach(n, e)
  BY ValidAnswersEach, AnsweredIsValid DEF Embedding

-----------------------------------------------------------------------------
(* The steps.  Each lemma is about those that change the same variables.   *)

(* What is demonstrated is not forgotten, so what was true of it stays so. *)
LEMMA VerifiedStands ==
  ASSUME VerifiedWasPerformed, known' = known, performed \subseteq performed', lent' = lent
  PROVE  VerifiedWasPerformed'
  BY DEF VerifiedWasPerformed

(* Nor does a copy say too much, while what is known gets no weaker.       *)
LEMMA CopiesStand ==
  ASSUME TypeOK, CopiesAreTrue, copy' = copy,
         \A i \in Instances : phase[i] # "absent" =>
           /\ phase'[i] # "absent"
           /\ \A k \in Capabilities : known[i][k] = "Verified" => known'[i][k] = "Verified"
  PROVE  CopiesAreTrue'
  BY DEF TypeOK, CopiesAreTrue

LEMMA InstanceKeeps ==
  ASSUME EvidenceInv, NEW i \in Instances, InstanceStep(i)
  PROVE  EvidenceInv'
<1>1. UNCHANGED <<call, stream, copy, performed, lent>>
  BY DEF InstanceStep, Commit, Close, Forget, history
<1>2. /\ phase' \in [Instances -> {"absent", "Serving", "Unloading", "forgotten"}]
      /\ known' \in [Instances -> [Capabilities -> States]]
      /\ \A j \in Instances, k \in Capabilities :
           known'[j][k] = "Verified" => known[j][k] = "Verified"
  <2>1. ASSUME NEW m \in Metadata
        PROVE  /\ IndicatedByMetadata(m) \in [Capabilities -> States]
               /\ \A k \in Capabilities : IndicatedByMetadata(m)[k] # "Verified"
    BY DEF IndicatedByMetadata, Indicate, States
  <2>2. CASE \E m \in Metadata : Commit(i, m)
    BY <2>1, <2>2 DEF Commit, EvidenceInv, TypeOK
  <2>3. CASE Close(i) \/ Forget(i)
    BY <2>3 DEF Close, Forget, EvidenceInv, TypeOK
  <2> QED
    BY <2>2, <2>3 DEF InstanceStep
<1>3. TypeOK'
  BY <1>1, <1>2 DEF EvidenceInv, TypeOK
<1>4. CallsAreAbout' /\ CompletedPerformed' /\ AcceptedAnswersEach'
  BY <1>1 DEF EvidenceInv, CallsAreAbout, CompletedPerformed, AcceptedAnswersEach
<1>5. StreamedPerformed'
  BY <1>1 DEF EvidenceInv, StreamedPerformed, Demonstrated
<1>6. VerifiedWasPerformed'
  BY <1>1, <1>2 DEF EvidenceInv, VerifiedWasPerformed, Capabilities
<1>7. CopiesAreTrue'
  <2>1. \A j \in Instances : phase[j] # "absent" => phase'[j] # "absent" /\ known'[j] = known[j]
    BY DEF InstanceStep, Commit, Close, Forget, EvidenceInv, TypeOK
  <2> QED
    BY <1>1, <2>1, CopiesStand DEF EvidenceInv
<1> QED
  BY <1>3, <1>4, <1>5, <1>6, <1>7 DEF EvidenceInv

(* A call that goes on without an answer, or that is over. *)
Asks(c) ==
  \/ \E i \in Instances : Find(c, i)
  \/ \E n \in Batches : SendEmbed(c, n)
  \/ SendGenerate(c)

Finishes(c) == Refuse(c) \/ Fail(c) \/ Stop(c) \/ Return(c)

LEMMA IdleIsCall ==
  ASSUME TypeOK
  PROVE  Idle \in Calls
  BY DEF Idle, Calls

LEMMA AskKeeps ==
  ASSUME EvidenceInv, NEW c \in Callers, Asks(c) \/ Finishes(c)
  PROVE  EvidenceInv'
<1> USE DEF EvidenceInv
<1>1. UNCHANGED <<phase, known, stream, copy, performed, lent>>
  BY DEF Asks, Finishes, Find, SendEmbed, SendGenerate, Refuse, Fail, Stop, Return, End, history
<1>2. /\ call' \in [Callers -> Calls]
      /\ CallsAreAbout'
      /\ call'[c].step # "completed"
      /\ \A d \in Callers \ {c} : call'[d] = call[d]
  <2> USE DEF TypeOK, CallsAreAbout
  <2>1. CASE Finishes(c)
    <3>1. call' = [call EXCEPT ![c] = Idle]
      BY <2>1 DEF Finishes, Refuse, Fail, Stop, Return, End
    <3> QED
      BY <3>1, IdleIsCall DEF Idle
  <2>2. ASSUME Asks(c)
        PROVE  \E r \in Calls :
                 /\ call' = [call EXCEPT ![c] = r]
                 /\ r.step \in {"found", "sent"} /\ r.on \in Instances
                 /\ r.step = "sent" => \/ r.kind = "generate_text"
                                       \/ r.kind = "embed" /\ r.inputs \in Batches
    <3>1. call[c] \in Calls
      OBVIOUS
    <3>2. CASE \E i \in Instances : Find(c, i)
      <4>1. PICK i \in Instances : Find(c, i)
        BY <3>2
      <4> DEFINE r == [call[c] EXCEPT !.step = "found", !.on = i]
      <4>2. call' = [call EXCEPT ![c] = r]
        BY <4>1 DEF Find
      <4>3. r \in Calls /\ r.step = "found" /\ r.on \in Instances
        BY <3>1 DEF Calls
      <4> HIDE DEF r
      <4> QED
        BY <4>2, <4>3
    <3>3. CASE \E n \in Batches : SendEmbed(c, n)
      <4>1. PICK n \in Batches : SendEmbed(c, n)
        BY <3>3
      <4> DEFINE r == [call[c] EXCEPT !.step = "sent", !.kind = "embed", !.inputs = n]
      <4>2. call' = [call EXCEPT ![c] = r] /\ call[c].on \in Instances
        BY <4>1 DEF SendEmbed, Admitted
      <4>3. /\ r \in Calls /\ r.step = "sent" /\ r.on = call[c].on
            /\ r.kind = "embed" /\ r.inputs \in Batches
        BY <3>1 DEF Calls, Kinds
      <4> HIDE DEF r
      <4> QED
        BY <4>2, <4>3
    <3>4. CASE SendGenerate(c)
      <4> DEFINE r == [call[c] EXCEPT !.step = "sent", !.kind = "generate_text"]
      <4>1. call' = [call EXCEPT ![c] = r] /\ call[c].on \in Instances
        BY <3>4 DEF SendGenerate, Admitted
      <4>2. r \in Calls /\ r.step = "sent" /\ r.on = call[c].on /\ r.kind = "generate_text"
        BY <3>1 DEF Calls, Kinds
      <4> HIDE DEF r
      <4> QED
        BY <4>1, <4>2
    <3> QED
      BY <2>2, <3>2, <3>3, <3>4 DEF Asks
  <2>3. CASE Asks(c)
    BY <2>2, <2>3
  <2> QED
    BY <2>1, <2>3
<1>3. TypeOK'
  BY <1>1, <1>2 DEF TypeOK
<1>4. CompletedPerformed' /\ AcceptedAnswersEach'
  BY <1>1, <1>2 DEF CompletedPerformed, AcceptedAnswersEach
<1>5. StreamedPerformed' /\ VerifiedWasPerformed' /\ CopiesAreTrue'
  BY <1>1, VerifiedStands, CopiesStand DEF StreamedPerformed, Demonstrated
<1> QED
  BY <1>2, <1>3, <1>4, <1>5

LEMMA StartKeeps ==
  ASSUME EvidenceInv, NEW c \in Callers, NEW s \in Streams, StartStream(c, s)
  PROVE  EvidenceInv'
<1> USE DEF EvidenceInv
<1>1. /\ UNCHANGED <<phase, known, copy, performed, lent>>
      /\ stream[s].of = None /\ call[c].on \in Instances
      /\ stream' = [stream EXCEPT ![s].of = call[c].on]
      /\ call' = [call EXCEPT ![c] = Idle]
  BY DEF StartStream, Admitted, CallsAreAbout, history
<1>2. TypeOK'
  BY <1>1, IdleIsCall DEF TypeOK
<1>3. CallsAreAbout' /\ CompletedPerformed' /\ AcceptedAnswersEach'
  BY <1>1 DEF TypeOK, CallsAreAbout, CompletedPerformed, AcceptedAnswersEach, Idle
<1>4. ~Demonstrated(s)
  BY <1>1, NoneAssumption DEF StreamedPerformed, TypeOK
<1>5. StreamedPerformed'
  BY <1>1, <1>4 DEF TypeOK, StreamedPerformed, Demonstrated
<1>6. VerifiedWasPerformed' /\ CopiesAreTrue'
  BY <1>1, VerifiedStands, CopiesStand
<1> QED
  BY <1>2, <1>3, <1>5, <1>6

(* The backend answers: what it answers with was performed. *)
LEMMA AnswerKeeps ==
  ASSUME EvidenceInv, NEW c \in Callers, AnswerEmbeddings(c) \/ AnswerText(c)
  PROVE  EvidenceInv'
<1> USE DEF EvidenceInv
<1> DEFINE on == call[c].on
           kind == call[c].kind
<1>1. /\ UNCHANGED <<phase, known, stream, copy, lent>>
      /\ call[c].step = "sent" /\ on \in Instances
  BY DEF AnswerEmbeddings, AnswerText, Answered, CallsAreAbout
<1>2. /\ \A d \in Callers \ {c} : call'[d] = call[d]
      /\ call' \in [Callers -> Calls]
      /\ call'[c].on = on /\ call'[c].kind = kind /\ call'[c].inputs = call[c].inputs
      /\ kind = "embed" => AnswersEach(call[c].inputs, call'[c].result)
      /\ performed' = performed \cup {<<on, Demonstrates(kind)>>}
  <2>1. CASE AnswerText(c)
    <3>1. /\ call' = [call EXCEPT ![c].step = "completed"]
          /\ kind = "generate_text" /\ Demonstrates(kind) = "text-generation"
      BY <2>1 DEF AnswerText, Answered, Demonstrates
    <3>2. performed' = performed \cup {<<on, "text-generation">>}
      BY <2>1 DEF AnswerText, UsableText, ValidGeneration, Performs
    <3> QED
      BY <3>1, <3>2 DEF TypeOK, Calls
  <2>2. CASE AnswerEmbeddings(c)
    <3>1. kind = "embed" /\ call[c].inputs \in Batches /\ Demonstrates(kind) = "embeddings"
      BY <2>2 DEF AnswerEmbeddings, Answered, CallsAreAbout, Demonstrates
    <3>2. PICK e \in Usable[call[c].inputs] :
            /\ call' = [call EXCEPT ![c].step = "completed", ![c].result = e]
            /\ IF AnswersEach(call[c].inputs, e)
               THEN Performs(on, "embeddings") ELSE UNCHANGED performed
      BY <2>2 DEF AnswerEmbeddings
    <3>3. e \in EmbedResponses /\ ValidEmbeddings(call[c].inputs, e)
      BY <3>1, <3>2 DEF Usable
    <3>4. AnswersEach(call[c].inputs, e)
      BY <3>1, <3>3, AnswersAssumption, ValidationIsExact
    <3> QED
      BY <3>1, <3>2, <3>3, <3>4 DEF TypeOK, Performs, Calls
  <2> QED
    BY <2>1, <2>2
<1>3. TypeOK'
  BY <1>1, <1>2 DEF TypeOK, Demonstrates, Capabilities
<1>4. CallsAreAbout' /\ CompletedPerformed' /\ AcceptedAnswersEach'
  BY <1>1, <1>2 DEF CallsAreAbout, CompletedPerformed, AcceptedAnswersEach
<1>5. StreamedPerformed'
  BY <1>1, <1>2 DEF StreamedPerformed, Demonstrated
<1>6. VerifiedWasPerformed' /\ CopiesAreTrue'
  BY <1>1, <1>2, VerifiedStands, CopiesStand
<1> QED
  BY <1>3, <1>4, <1>5, <1>6

(* Evidence is recorded of an instance, at the request of a caller or of   *)
(* who holds a stream. *)
LEMMA RecordKeeps ==
  ASSUME EvidenceInv,
         \/ \E c \in Callers : Verify(c)
         \/ \E s \in Streams, i \in Instances : RecordStream(s, i)
  PROVE  EvidenceInv'
<1> USE DEF EvidenceInv
<1>1. PICK i \in Instances, k \in Capabilities :
        /\ known' = [known EXCEPT ![i][k] = "Verified"]
        /\ k = "embeddings" => <<i, "embeddings">> \in performed
        /\ k = "text-generation" =>
             \E j \in Instances : /\ <<j, "text-generation">> \in performed
                                 /\ (j = i \/ <<j, i>> \in lent')
        /\ lent \subseteq lent' /\ lent' \subseteq Instances \X Instances
  <2>1. CASE \E c \in Callers : Verify(c)
    BY <2>1 DEF Verify, CallsAreAbout, CompletedPerformed, Demonstrates, Capabilities, history,
                TypeOK
  <2>2. CASE \E s \in Streams, i \in Instances : RecordStream(s, i)
    <3>1. PICK s \in Streams, i \in Instances : RecordStream(s, i)
      BY <2>2
    <3>2. stream[s].of \in Instances /\ <<stream[s].of, "text-generation">> \in performed
      BY <3>1 DEF RecordStream, StreamedPerformed, TypeOK
    <3>3. lent' = IF stream[s].of = i THEN lent ELSE lent \cup {<<stream[s].of, i>>}
      BY <3>1 DEF RecordStream
    <3>4. stream[s].of = i \/ <<stream[s].of, i>> \in lent'
      BY <3>3
    <3>5. lent \subseteq lent' /\ lent' \subseteq Instances \X Instances
      BY <3>2, <3>3 DEF TypeOK
    <3>6. known' = [known EXCEPT ![i]["text-generation"] = "Verified"]
      BY <3>1 DEF RecordStream
    <3> QED
      BY <3>2, <3>4, <3>5, <3>6 DEF Capabilities
  <2> QED
    BY <2>1, <2>2
<1>2. /\ UNCHANGED <<phase, stream, copy, performed>>
      /\ call' = call \/ \E c \in Callers : call' = [call EXCEPT ![c] = Idle]
  BY DEF Verify, RecordStream, history
<1>3. TypeOK'
  BY <1>1, <1>2, IdleIsCall DEF TypeOK, States
<1>4. CallsAreAbout' /\ CompletedPerformed' /\ AcceptedAnswersEach'
  <2>1. /\ performed' = performed
        /\ \A d \in Callers : call'[d] = call[d] \/ call'[d] = Idle
    BY <1>2 DEF TypeOK
  <2> QED
    BY <2>1 DEF CallsAreAbout, CompletedPerformed, AcceptedAnswersEach, Idle
<1>5. StreamedPerformed'
  BY <1>2 DEF StreamedPerformed, Demonstrated
<1>6. VerifiedWasPerformed'
  <2>1. /\ performed' = performed
        /\ \A j \in Instances, l \in Capabilities :
             known'[j][l] = known[j][l] \/ (j = i /\ l = k)
    BY <1>1, <1>2 DEF TypeOK
  <2>2. ASSUME NEW j \in Instances, known'[j]["embeddings"] = "Verified"
        PROVE  <<j, "embeddings">> \in performed
    BY <1>1, <2>1, <2>2 DEF VerifiedWasPerformed, Capabilities
  <2>3. ASSUME NEW j \in Instances, known'[j]["text-generation"] = "Verified"
        PROVE  \E l \in Instances : /\ <<l, "text-generation">> \in performed
                                   /\ (l = j \/ <<l, j>> \in lent')
    BY <1>1, <2>1, <2>3 DEF VerifiedWasPerformed, Capabilities
  <2> QED
    BY <2>1, <2>2, <2>3 DEF VerifiedWasPerformed
<1>7. CopiesAreTrue'
  <2>1. \A j \in Instances, l \in Capabilities :
          known[j][l] = "Verified" => known'[j][l] = "Verified"
    BY <1>1 DEF TypeOK
  <2> QED
    BY <1>2, <2>1, CopiesStand
<1> QED
  BY <1>3, <1>4, <1>5, <1>6, <1>7

Consumes(s) == Deliver(s) \/ SeeCompleted(s) \/ SeeOtherEnd(s) \/ DropStream(s)

LEMMA ConsumeKeeps ==
  ASSUME EvidenceInv, NEW s \in Streams, Consumes(s)
  PROVE  EvidenceInv'
<1> USE DEF EvidenceInv
<1>1. UNCHANGED <<phase, known, call, copy, lent>>
  BY DEF Consumes, Deliver, SeeCompleted, SeeOtherEnd, DropStream, history
<1>2. /\ stream' \in [Streams -> [of : Instances \cup {None}, deltas : BOOLEAN,
                                  end : {"none", "Completed", "other"}]]
      /\ \A t \in Streams \ {s} : stream'[t] = stream[t]
      /\ performed \subseteq performed' /\ performed' \subseteq Instances \X Capabilities
      /\ stream'[s].end = "Completed" /\ stream'[s].deltas =>
           <<stream'[s].of, "text-generation">> \in performed'
  <2> USE DEF TypeOK, Ends
  <2>1. CASE Deliver(s)
    BY <2>1 DEF Deliver, Open, history
  <2>2. CASE SeeCompleted(s)
    <3>1. /\ stream' = [stream EXCEPT ![s].end = "Completed"]
          /\ stream[s].of \in Instances
      BY <2>2 DEF SeeCompleted, Open
    <3>2. performed' = IF stream[s].deltas
                       THEN performed \cup {<<stream[s].of, "text-generation">>}
                       ELSE performed
      BY <2>2 DEF SeeCompleted, Performs
    <3>3. performed \subseteq performed' /\ performed' \subseteq Instances \X Capabilities
      BY <3>1, <3>2 DEF Capabilities
    <3>4. /\ stream'[s].of = stream[s].of /\ stream'[s].deltas = stream[s].deltas
          /\ \A t \in Streams \ {s} : stream'[t] = stream[t]
          /\ stream' \in [Streams -> [of : Instances \cup {None}, deltas : BOOLEAN,
                                      end : {"none", "Completed", "other"}]]
      BY <3>1
    <3> QED
      BY <3>2, <3>3, <3>4
  <2>3. CASE SeeOtherEnd(s)
    BY <2>3 DEF SeeOtherEnd, history
  <2>4. CASE DropStream(s)
    BY <2>4 DEF DropStream, NoStream, history
  <2> QED
    BY <2>1, <2>2, <2>3, <2>4 DEF Consumes
<1>3. TypeOK'
  BY <1>1, <1>2 DEF TypeOK, Ends
<1>4. CallsAreAbout' /\ CompletedPerformed' /\ AcceptedAnswersEach'
  BY <1>1, <1>2 DEF CallsAreAbout, CompletedPerformed, AcceptedAnswersEach
<1>5. StreamedPerformed'
  BY <1>2 DEF StreamedPerformed, Demonstrated
<1>6. VerifiedWasPerformed' /\ CopiesAreTrue'
  BY <1>1, <1>2, VerifiedStands, CopiesStand
<1> QED
  BY <1>3, <1>4, <1>5, <1>6

(* A holder takes a copy, or adds to one. *)
LEMMA CopyKeeps ==
  ASSUME EvidenceInv, NEW p \in Copies, CopyStep(p)
  PROVE  /\ EvidenceInv'
         /\ UNCHANGED <<phase, known>>
         /\ \A q \in Copies, k \in Capabilities :
              copy'[q].of = copy[q].of /\ copy[q].known[k] = "Verified"
                => copy'[q].known[k] = "Verified"
<1> USE DEF EvidenceInv
<1>1. UNCHANGED <<phase, known, call, stream, performed, lent>>
  BY DEF CopyStep, Snapshot, IndicateInCopy, history
<1>2. PICK i \in Instances, f \in [Capabilities -> States] :
        /\ copy' = [copy EXCEPT ![p] = [of |-> i, known |-> f]]
        /\ phase[i] # "absent"
        /\ \A k \in Capabilities : f[k] = "Verified" => known[i][k] = "Verified"
        /\ copy[p].of = i =>
             \A k \in Capabilities : copy[p].known[k] = "Verified" => f[k] = "Verified"
  <2>1. ASSUME NEW i \in Instances, Snapshot(p, i)
        PROVE  /\ copy' = [copy EXCEPT ![p] = [of |-> i, known |-> known[i]]]
               /\ known[i] \in [Capabilities -> States] /\ phase[i] # "absent"
               /\ copy[p].of = i =>
                    \A k \in Capabilities :
                      copy[p].known[k] = "Verified" => known[i][k] = "Verified"
    BY <2>1, NoneAssumption DEF Snapshot, Resident, TypeOK, CopiesAreTrue
  <2>2. ASSUME NEW k \in Capabilities, IndicateInCopy(p, k)
        PROVE  \E i \in Instances, f \in [Capabilities -> States] :
                 /\ copy' = [copy EXCEPT ![p] = [of |-> i, known |-> f]]
                 /\ phase[i] # "absent"
                 /\ \A l \in Capabilities : f[l] = "Verified" => known[i][l] = "Verified"
                 /\ copy[p].of = i =>
                      \A l \in Capabilities : copy[p].known[l] = "Verified" => f[l] = "Verified"
    <3> DEFINE i == copy[p].of
               f == [copy[p].known EXCEPT ![k] = Indicate(copy[p].known[k])]
    <3>1. /\ i \in Instances /\ i # None /\ phase[i] # "absent"
          /\ copy[p] = [of |-> i, known |-> copy[p].known]
          /\ copy[p].known \in [Capabilities -> States]
      BY <2>2 DEF IndicateInCopy, TypeOK, CopiesAreTrue
    <3>2. f \in [Capabilities -> States]
      BY <3>1 DEF Indicate, States
    <3>3. copy' = [copy EXCEPT ![p] = [of |-> i, known |-> f]]
      <4>1. copy' = [copy EXCEPT ![p] = [copy[p] EXCEPT !.known = f]]
        BY <2>2 DEF IndicateInCopy
      <4>2. [copy[p] EXCEPT !.known = f] = [of |-> i, known |-> f]
        BY <3>1
      <4> QED
        BY <4>1, <4>2
    <3>4. \A l \in Capabilities : f[l] = "Verified" <=> copy[p].known[l] = "Verified"
      BY <3>1 DEF Indicate
    <3>5. \A l \in Capabilities : copy[p].known[l] = "Verified" => known[i][l] = "Verified"
      BY <3>1 DEF CopiesAreTrue
    <3>6. \A l \in Capabilities : f[l] = "Verified" => known[i][l] = "Verified"
      BY <3>4, <3>5
    <3> HIDE DEF i, f
    <3> USE <3>1, <3>2
    <3> WITNESS i \in Instances, f \in [Capabilities -> States]
    <3> QED
      BY <3>3, <3>4, <3>6
  <2>3. CASE \E i \in Instances : Snapshot(p, i)
    BY <2>1, <2>3
  <2>4. CASE \E k \in Capabilities : IndicateInCopy(p, k)
    BY <2>2, <2>4
  <2> QED
    BY <2>3, <2>4 DEF CopyStep
<1>3. TypeOK'
  BY <1>1, <1>2 DEF TypeOK
<1>4. CallsAreAbout' /\ CompletedPerformed' /\ AcceptedAnswersEach'
  BY <1>1 DEF CallsAreAbout, CompletedPerformed, AcceptedAnswersEach
<1>5. StreamedPerformed' /\ VerifiedWasPerformed'
  BY <1>1, VerifiedStands DEF StreamedPerformed, Demonstrated
<1>6. \A q \in Copies : copy'[q] = IF q = p THEN [of |-> i, known |-> f] ELSE copy[q]
  BY <1>2 DEF TypeOK
<1>7. CopiesAreTrue'
  BY <1>1, <1>2, <1>6, NoneAssumption DEF CopiesAreTrue
<1>8. \A q \in Copies, k \in Capabilities :
        copy'[q].of = copy[q].of /\ copy[q].known[k] = "Verified" => copy'[q].known[k] = "Verified"
  BY <1>2, <1>6
<1> QED
  BY <1>1, <1>3, <1>4, <1>5, <1>7, <1>8

-----------------------------------------------------------------------------
(* The theorems.                                                           *)

LEMMA StepsOfEvidence ==
  ASSUME Next
  PROVE  \/ \E i \in Instances : InstanceStep(i)
         \/ \E c \in Callers : \/ Asks(c) \/ Finishes(c)
                               \/ \E s \in Streams : StartStream(c, s)
                               \/ AnswerEmbeddings(c) \/ AnswerText(c) \/ Verify(c)
         \/ \E s \in Streams : Consumes(s) \/ \E i \in Instances : RecordStream(s, i)
         \/ \E p \in Copies : CopyStep(p)
<1>1. ASSUME NEW c \in Callers, CallStep(c)
      PROVE  \/ Asks(c) \/ Finishes(c)
             \/ \E s \in Streams : StartStream(c, s)
             \/ AnswerEmbeddings(c) \/ AnswerText(c) \/ Verify(c)
  BY <1>1 DEF CallStep, Asks, Finishes
<1>2. ASSUME NEW s \in Streams, StreamStep(s)
      PROVE  Consumes(s) \/ \E i \in Instances : RecordStream(s, i)
  BY <1>2 DEF StreamStep, Consumes
<1> QED
  BY <1>1, <1>2 DEF Next

LEMMA EvidenceStep == EvidenceInv /\ [Next]_vars => EvidenceInv'
<1> SUFFICES ASSUME EvidenceInv, [Next]_vars
             PROVE  EvidenceInv'
  OBVIOUS
<1>1. CASE UNCHANGED vars
  BY <1>1 DEF vars, history, EvidenceInv, TypeOK, CallsAreAbout, CompletedPerformed,
              StreamedPerformed, Demonstrated, AcceptedAnswersEach, VerifiedWasPerformed,
              CopiesAreTrue
<1>2. CASE Next
  BY <1>2, StepsOfEvidence, InstanceKeeps, AskKeeps, StartKeeps, AnswerKeeps, RecordKeeps,
     ConsumeKeeps, CopyKeeps
<1> QED
  BY <1>1, <1>2

LEMMA InitEvidence == Init => EvidenceInv
<1> SUFFICES ASSUME Init
             PROVE  EvidenceInv
  OBVIOUS
<1>1. TypeOK
  <2>1. Idle \in Calls
    BY DEF Idle, Calls
  <2> QED
    BY <2>1 DEF Init, TypeOK, NoStream, NoCopy, NothingKnown, Ends, States
<1>2. CallsAreAbout /\ CompletedPerformed /\ AcceptedAnswersEach
  BY DEF Init, CallsAreAbout, CompletedPerformed, AcceptedAnswersEach, Idle
<1>3. StreamedPerformed /\ VerifiedWasPerformed /\ CopiesAreTrue
  BY DEF Init, StreamedPerformed, VerifiedWasPerformed, Demonstrated, NoStream, Capabilities,
         NothingKnown, CopiesAreTrue, NoCopy
<1> QED
  BY <1>1, <1>2, <1>3 DEF EvidenceInv

(* However calls, streams and unloads interleave, the evidence invariant   *)
(* holds (LoadedModel, capability.rs).                                     *)
THEOREM EvidenceInvariant == Spec => []EvidenceInv
  BY InitEvidence, EvidenceStep, PTL DEF Spec

(* What is verified was performed (verify_embeddings,                      *)
(* verify_text_generation, record_generation_stream).                      *)
THEOREM VerifiedIsAlwaysPerformed == Spec => []VerifiedWasPerformed
<1>1. EvidenceInv => VerifiedWasPerformed
  BY DEF EvidenceInv
<1> QED
  BY <1>1, EvidenceInvariant, PTL

(* Embeddings that are handed out answer each input (embed, validate).     *)
THEOREM AcceptedAlwaysAnswersEach == Spec => []AcceptedAnswersEach
<1>1. EvidenceInv => AcceptedAnswersEach
  BY DEF EvidenceInv
<1> QED
  BY <1>1, EvidenceInvariant, PTL

LEMMA StrengthOrder ==
  /\ \A x \in States : Strength(x) <= Strength(x) /\ Strength(x) <= Strength("Verified")
  /\ Strength("Verified") <= Strength("Verified")
  BY DEF Strength, States

LEMMA StepsStrengthen ==
  ASSUME EvidenceInv, Next
  PROVE  /\ \A i \in Instances, k \in Capabilities :
              phase[i] # "absent" => known'[i][k] \in {known[i][k], "Verified"}
         /\ \A p \in Copies, k \in Capabilities :
              copy'[p].of = copy[p].of /\ copy[p].known[k] = "Verified"
                => copy'[p].known[k] = "Verified"
<1> USE DEF EvidenceInv
<1>1. CASE UNCHANGED <<known, copy>>
  BY <1>1
<1>2. CASE \E i \in Instances : InstanceStep(i)
  BY <1>2 DEF InstanceStep, Commit, Close, Forget, TypeOK
<1>3. CASE \E c \in Callers : Verify(c)
  BY <1>3 DEF Verify, TypeOK
<1>4. CASE \E s \in Streams, i \in Instances : RecordStream(s, i)
  BY <1>4 DEF RecordStream, TypeOK
<1>5. ASSUME NEW c \in Callers,
             \/ Asks(c) \/ Finishes(c)
             \/ \E s \in Streams : StartStream(c, s)
             \/ AnswerEmbeddings(c) \/ AnswerText(c)
      PROVE  UNCHANGED <<known, copy>>
  BY <1>5 DEF Asks, Finishes, Find, SendEmbed, SendGenerate, Refuse, Fail, Stop, Return, End,
              StartStream, AnswerEmbeddings, AnswerText
<1>6. ASSUME NEW s \in Streams, Consumes(s)
      PROVE  UNCHANGED <<known, copy>>
  BY <1>6 DEF Consumes, Deliver, SeeCompleted, SeeOtherEnd, DropStream
<1>7. CASE \E p \in Copies : CopyStep(p)
  BY <1>7, CopyKeeps
<1> QED
  BY <1>1, <1>2, <1>3, <1>4, <1>5, <1>6, <1>7, StepsOfEvidence

(* No step weakens what is known of a resident or forgotten instance, and  *)
(* no later assertion takes from a copy what was demonstrated, however     *)
(* copies, assertions and demonstrations interleave                        *)
(* (ModelCapabilities::indicate, verify).                                  *)
THEOREM EvidenceAlwaysStands == Spec => EvidenceStands
<1> DEFINE Stands ==
             /\ \A i \in Instances, k \in Capabilities :
                  phase[i] # "absent" => Strength(known[i][k]) <= Strength(known'[i][k])
             /\ \A p \in Copies, k \in Capabilities :
                  copy'[p].of = copy[p].of /\ copy[p].known[k] = "Verified"
                    => copy'[p].known[k] = "Verified"
<1>1. ASSUME EvidenceInv, Next
      PROVE  Stands
  <2>1. ASSUME NEW i \in Instances, NEW k \in Capabilities, phase[i] # "absent"
        PROVE  Strength(known[i][k]) <= Strength(known'[i][k])
    <3>1. known[i][k] \in States
      BY <1>1 DEF EvidenceInv, TypeOK
    <3>2. known'[i][k] \in {known[i][k], "Verified"}
      BY <1>1, <2>1, StepsStrengthen
    <3> QED
      BY <3>1, <3>2, StrengthOrder
  <2> QED
    BY <1>1, <2>1, StepsStrengthen
<1>2. EvidenceInv /\ [Next]_vars => [Stands]_vars
  BY <1>1
<1> QED
  BY <1>2, EvidenceInvariant, PTL DEF Spec, EvidenceStands
=============================================================================
