------------------------ MODULE ArtifactRegistryProofs ------------------------
(***************************************************************************)
(* Proofs about ArtifactRegistry, for any calls, paths and versions.       *)
(***************************************************************************)
EXTENDS ArtifactRegistry, TLAPS

(* The steps of one call. *)
CallStep(c) ==
  \/ RegisterStep(c) \/ VerifyStep(c) \/ LoadStep(c)
  \/ \E i \in Calls : Forget(c, i)
  \/ FailStorage(c) \/ Crash(c)

LEMMA NoneIsNoRecord == \A r \in Records : r # None
  BY RecordsAssumption

UnderWay == {"finding", "inspecting", "observing", "inserting", "filling"}

(* A call that is under way, or has read, has a record to go by. *)
LEMMA HasRecord ==
  ASSUME RegistryInv, NEW c \in Calls,
         stage[c] \in UnderWay \cup {"registered"} \cup Reading
  PROVE  record[c] \in Records /\ record[c].path \in Paths
  BY DEF RegistryInv, TypeOK, RegistrationKnows, ReaderKnows, Reading, UnderWay, Records

LEMMA RegisterType ==
  ASSUME RegistryInv, NEW c \in Calls, RegisterStep(c)
  PROVE  TypeOK'
<1> USE VersionsAssumption, HasRecord
    DEF RegistryInv, TypeOK, Reach, tables, Now, Known, UnderWay
<1>1. ASSUME NEW p \in Paths, Register(c, p) \/ RegisterNothing(c, p)
      PROVE  TypeOK'
  BY <1>1 DEF Register, RegisterNothing, Records
<1>2. CASE FindRegistered(c) \/ FindNone(c)
  BY <1>2 DEF FindRegistered, FindNone, AtPath
<1>3. CASE InspectUnreadable(c) \/ ObserveNothing(c) \/ Insert(c) \/ InsertDuplicate(c)
  BY <1>3 DEF InspectUnreadable, ObserveNothing, Insert, InsertDuplicate
<1>4. CASE Commit(c)
  BY <1>4 DEF Commit
<1>5. CASE Inspect(c)
  BY <1>5 DEF Inspect, Records
<1>6. CASE Observe(c)
  BY <1>6 DEF Observe, Records
<1> QED
  BY <1>1, <1>2, <1>3, <1>4, <1>5, <1>6 DEF RegisterStep

LEMMA CallType ==
  ASSUME RegistryInv, NEW c \in Calls, CallStep(c)
  PROVE  TypeOK'
<1> USE HasRecord DEF RegistryInv, TypeOK, Reach, tables, Now, Known, Named
<1>1. ASSUME NEW i \in Calls,
             Look(c, i, "digesting") \/ Look(c, i, "checking") \/ LookInVain(c, i) \/ Forget(c, i)
      PROVE  TypeOK'
  BY <1>1 DEF Look, LookInVain, Forget
<1>2. CASE Digest(c)
  BY <1>2 DEF Digest, Records, Reading
<1>3. CASE Update(c)
  <2>1. about[c] \in Calls /\ record[c] \in Records
    BY <1>3 DEF Update, ReaderKnows, Reading
  <2>2. rows' \in [Calls -> Records \cup {None}]
    BY <1>3, <2>1 DEF Update, Records
  <2> QED
    BY <1>3, <2>2 DEF Update
<1>4. CASE DigestNothing(c) \/ Unchanged(c) \/ Drifted(c) \/ OpenNothing(c)
  BY <1>4 DEF DigestNothing, Unchanged, Drifted, OpenNothing
<1>5. CASE Open(c)
  BY <1>5 DEF Open, Reading
<1>6. CASE FailStorage(c) \/ Crash(c)
  BY <1>6 DEF FailStorage, Crash, LetGo
<1> QED
  BY <1>1, <1>2, <1>3, <1>4, <1>5, <1>6, RegisterType DEF CallStep, VerifyStep, LoadStep

(* A step of one call changes what it knows itself, and moves no file. *)
LEMMA StepIsOwn ==
  ASSUME TypeOK, NEW c \in Calls, CallStep(c)
  PROVE  /\ \A d \in Calls \ {c} :
              /\ stage'[d] = stage[d] /\ about'[d] = about[d]
              /\ record'[d] = record[d] /\ opened'[d] = opened[d]
         /\ UNCHANGED <<file, moved>>
<1> USE DEF TypeOK, Reach, tables
<1>1. CASE RegisterStep(c)
  <2>1. ASSUME NEW p \in Paths, Register(c, p) \/ RegisterNothing(c, p)
        PROVE  /\ \A d \in Calls \ {c} :
                    /\ stage'[d] = stage[d] /\ about'[d] = about[d]
                    /\ record'[d] = record[d] /\ opened'[d] = opened[d]
               /\ UNCHANGED <<file, moved>>
    BY <2>1 DEF Register, RegisterNothing
  <2>2. CASE FindRegistered(c) \/ FindNone(c) \/ Inspect(c) \/ InspectUnreadable(c)
    BY <2>2 DEF FindRegistered, FindNone, Inspect, InspectUnreadable
  <2>3. CASE Observe(c) \/ ObserveNothing(c) \/ Insert(c) \/ InsertDuplicate(c) \/ Commit(c)
    BY <2>3 DEF Observe, ObserveNothing, Insert, InsertDuplicate, Commit
  <2> QED
    BY <1>1, <2>1, <2>2, <2>3 DEF RegisterStep
<1>2. CASE ~RegisterStep(c)
  BY <1>2 DEF CallStep, VerifyStep, LoadStep, Look, LookInVain, Forget, Digest, DigestNothing,
              Update, Unchanged, Drifted, Open, OpenNothing, FailStorage, Crash
<1> QED
  BY <1>1, <1>2

(* What is registered or forgotten stays so. *)
LEMMA StepKeeps ==
  ASSUME RegistryInv, NEW c \in Calls, CallStep(c)
  PROVE  /\ \A i \in Named : i \in Named' /\ record'[i] = record[i]
         /\ \A i \in Calls : Forgotten(i) => Forgotten(i)'
<1>1. stage[c] \notin {"registered", "forgotten"}
  <2> USE DEF Reach
  <2>1. CASE RegisterStep(c)
    BY <2>1 DEF RegisterStep, Register, RegisterNothing, FindRegistered, FindNone, Inspect,
                InspectUnreadable, Observe, ObserveNothing, Insert, InsertDuplicate, Commit
  <2>2. CASE ~RegisterStep(c)
    BY <2>2 DEF CallStep, VerifyStep, LoadStep, Look, LookInVain, Forget, Digest,
                DigestNothing, Update, Unchanged, Drifted, Open, OpenNothing, FailStorage, Crash
  <2> QED
    BY <2>1, <2>2
<1> QED
  BY <1>1, StepIsOwn DEF RegistryInv, Named, Forgotten

(* The steps that leave the tables alone: all but those below. *)
LEMMA StepTables ==
  ASSUME RegistryInv, NEW c \in Calls, CallStep(c)
  PROVE  \/ Insert(c) \/ Commit(c) \/ Update(c)
         \/ \E i \in Calls : Forget(c, i)
         \/ FailStorage(c) \/ Crash(c)
         \/ UNCHANGED tables
<1> USE DEF tables
<1>1. CASE RegisterStep(c)
  BY <1>1 DEF RegisterStep, Register, RegisterNothing, FindRegistered, FindNone, Inspect,
              InspectUnreadable, Observe, ObserveNothing, InsertDuplicate
<1>2. CASE ~RegisterStep(c)
  BY <1>2 DEF CallStep, VerifyStep, LoadStep, Look, LookInVain, Digest, DigestNothing,
              Unchanged, Drifted, Open, OpenNothing
<1> QED
  BY <1>1, <1>2

(* Recording a digest changes nothing else of a record. *)
LEMMA UpdateKeeps ==
  ASSUME RegistryInv, NEW c \in Calls, Update(c), NEW i \in Calls
  PROVE  \/ rows'[i] = rows[i]
         \/ rows[i] # None /\ rows'[i] # None /\ SameFile(rows'[i], rows[i])
<1> USE DEF RegistryInv, TypeOK
<1>1. CASE i = about[c] /\ rows[i] # None
  <2>1. rows[i] \in Records /\ rows'[i] = [rows[i] EXCEPT !.digest = record[c].digest]
    BY <1>1 DEF Update
  <2>2. record[c].digest \in Known
    BY HasRecord DEF Update, Reading, Records
  <2>3. rows'[i] \in Records /\ SameFile(rows'[i], rows[i])
    BY <2>1, <2>2 DEF Records, SameFile
  <2> QED
    BY <1>1, <2>3, RecordsAssumption
<1>2. CASE ~(i = about[c] /\ rows[i] # None)
  BY <1>2 DEF Update
<1> QED
  BY <1>1, <1>2

(* What a step does to the records of the table. *)
LEMMA StepRows ==
  ASSUME RegistryInv, NEW c \in Calls, CallStep(c), NEW i \in Calls
  PROVE  \/ rows'[i] = rows[i]
         \/ /\ rows[i] # None /\ rows'[i] # None /\ SameFile(rows'[i], rows[i])
         \/ rows[i] # None /\ rows'[i] = None /\ Forgotten(i)'
         \/ Commit(c) /\ i = c /\ rows[i] = None /\ rows'[i] = record[i] /\ i \in Named'
<1> USE DEF RegistryInv, TypeOK, tables, Reach
<1>1. CASE Insert(c) \/ FailStorage(c) \/ Crash(c) \/ UNCHANGED tables
  BY <1>1 DEF Insert, FailStorage, Crash
<1>2. CASE Commit(c)
  <2>1. rows[c] = None
    BY <1>2 DEF Commit, RowsHold, Named
  <2> QED
    BY <1>2, <2>1 DEF Commit, Named
<1>3. CASE Update(c)
  BY <1>3, UpdateKeeps
<1>4. ASSUME NEW j \in Calls, Forget(c, j)
      PROVE  \/ rows'[i] = rows[i]
             \/ rows[i] # None /\ rows'[i] = None /\ Forgotten(i)'
  BY <1>4 DEF Forget, Forgotten
<1> QED
  BY <1>1, <1>2, <1>3, <1>4, StepTables

LEMMA StepRowsHold ==
  ASSUME RegistryInv, NEW c \in Calls, CallStep(c)
  PROVE  RowsHold'
<1> SUFFICES ASSUME NEW i \in Calls, rows'[i] # None
             PROVE  i \in Named' /\ record'[i] # None /\ SameFile(rows'[i], record'[i])
  BY DEF RowsHold
<1>1. CASE rows[i] # None /\ (rows'[i] = rows[i] \/ SameFile(rows'[i], rows[i]))
  BY <1>1, StepKeeps DEF RegistryInv, RowsHold, SameFile
<1>2. CASE Commit(c) /\ i = c /\ rows'[i] = record[i] /\ i \in Named'
  <2>1. record'[i] = record[i]
    BY <1>2 DEF Commit
  <2> QED
    BY <1>2, <2>1 DEF SameFile
<1> QED
  BY <1>1, <1>2, StepRows

LEMMA StepPathsApart ==
  ASSUME RegistryInv, NEW c \in Calls, CallStep(c)
  PROVE  PathsApart'
<1> SUFFICES ASSUME NEW i \in Calls, NEW j \in Calls,
                    rows'[i] # None, rows'[j] # None, rows'[i].path = rows'[j].path
             PROVE  i = j
  BY DEF PathsApart
<1>1. ASSUME NEW k \in Calls, rows'[k] # None
      PROVE  \/ rows[k] # None /\ rows'[k].path = rows[k].path
             \/ Commit(c) /\ k = c /\ rows'[k] = record[c]
  BY <1>1, StepRows DEF SameFile
<1>2. ASSUME Commit(c), NEW k \in Calls, rows[k] # None
      PROVE  rows[k].path # record[c].path
  BY <1>2 DEF Commit, RegistryInv, RegistrationKnows, AtPath
<1> QED
  BY <1>1, <1>2 DEF RegistryInv, PathsApart

LEMMA StepMetadata ==
  ASSUME RegistryInv, NEW c \in Calls, CallStep(c)
  PROVE  MetadataFollows'
<1> USE DEF RegistryInv, TypeOK, MetadataFollows, tables
<1>1. CASE Insert(c) \/ FailStorage(c) \/ Crash(c) \/ UNCHANGED tables
  BY <1>1 DEF Insert, FailStorage, Crash
<1>2. CASE Commit(c)
  <2>1. record[c] # None
    BY <1>2, HasRecord, NoneIsNoRecord DEF Commit, UnderWay
  <2> QED
    BY <1>2, <2>1 DEF Commit
<1>3. CASE Update(c)
  <2>1. \A i \in Calls : (rows'[i] = None) <=> (rows[i] = None)
    BY <1>3, UpdateKeeps
  <2> QED
    BY <1>3, <2>1 DEF Update
<1>4. ASSUME NEW j \in Calls, Forget(c, j)
      PROVE  MetadataFollows'
  BY <1>4 DEF Forget
<1> QED
  BY <1>1, <1>2, <1>3, <1>4, StepTables

(* What the other calls know stays so. *)
LEMMA StepOthers ==
  ASSUME RegistryInv, NEW c \in Calls, CallStep(c), NEW d \in Calls \ {c}
  PROVE  RegistrationKnows(d)' /\ ReaderKnows(d)'
<1>1. /\ stage'[d] = stage[d] /\ about'[d] = about[d]
      /\ record'[d] = record[d] /\ opened'[d] = opened[d]
      /\ UNCHANGED <<file, moved>>
  BY StepIsOwn DEF RegistryInv
<1>2. RegistrationKnows(d) /\ ReaderKnows(d) /\ d \in Calls
  BY DEF RegistryInv
<1>3. d \in Named' <=> d \in Named
  BY <1>1 DEF Named
<1>4. ASSUME about[d] \in Named
      PROVE  about[d] \in Named' /\ record'[about[d]] = record[about[d]]
  BY <1>4, StepKeeps
<1>5. ASSUME NEW i \in Calls, rows[i] # None \/ Forgotten(i)
      PROVE  rows'[i] # None \/ Forgotten(i)'
  <2>1. CASE Commit(c) /\ i = c /\ rows'[i] = record[i]
    BY <2>1, HasRecord, NoneIsNoRecord DEF Commit, UnderWay
  <2>2. CASE ~(Commit(c) /\ i = c /\ rows'[i] = record[i])
    BY <1>5, <2>2, StepRows, StepKeeps
  <2> QED
    BY <2>1, <2>2
<1>6. ASSUME stage[d] = "filling"
      PROVE  lock' = d /\ AtPath(record[d].path)' = {}
  <2>1. lock = d /\ AtPath(record[d].path) = {}
    BY <1>2, <1>6 DEF RegistrationKnows
  <2>2. ~Commit(c) /\ lock' = d
    <3> USE CallsAssumption, <2>1 DEF tables
    <3>1. CASE Insert(c) \/ Update(c) \/ \E i \in Calls : Forget(c, i)
      BY <3>1 DEF Insert, Update, Forget
    <3>2. CASE FailStorage(c) \/ Crash(c) \/ UNCHANGED tables
      BY <3>2 DEF FailStorage, Crash, LetGo, Commit
    <3>3. CASE Commit(c)
      BY <3>3 DEF Commit, RegistryInv, RegistrationKnows
    <3> QED
      BY <3>1, <3>2, <3>3, StepTables
  <2>3. \A i \in Calls : rows'[i] # None => rows[i] # None /\ rows'[i].path = rows[i].path
    BY <2>2, StepRows DEF SameFile
  <2> QED
    BY <1>1, <2>1, <2>2, <2>3 DEF AtPath
<1>7. RegistrationKnows(d)'
  <2> USE <1>1, <1>2, <1>3 DEF RegistrationKnows, Now
  <2>1. ASSUME stage'[d] = "registered"
        PROVE  /\ about'[d] \in Named' /\ record'[about'[d]].path = record'[d].path
               /\ rows'[about'[d]] # None \/ Forgotten(about[d])'
    <3>1. about[d] \in Named /\ about[d] \in Calls
      BY <2>1 DEF Named
    <3>2. rows'[about[d]] # None \/ \E e \in Calls : stage'[e] = "forgotten" /\ about'[e] = about[d]
      BY <2>1, <3>1, <1>5 DEF Forgotten
    <3> QED
      BY <2>1, <3>1, <3>2, <1>4 DEF Forgotten
  <2>2. stage'[d] = "filling" => lock' = d /\ AtPath(record[d].path)' = {}
    BY <1>6
  <2> QED
    BY <2>1, <2>2
<1>8. ReaderKnows(d)'
  BY <1>1, <1>2, <1>4 DEF ReaderKnows, Now
<1> QED
  BY <1>7, <1>8

(* The registering call knows what it relies on. *)
LEMMA StepOwnRegistration ==
  ASSUME RegistryInv, NEW c \in Calls, RegisterStep(c)
  PROVE  RegistrationKnows(c)' /\ ReaderKnows(c)'
<1>1. /\ RegistrationKnows(c) /\ ReaderKnows(c) /\ TypeOK
      /\ stage[c] \in UnderWay => record[c] \in Records
      /\ opened[c] # Absent => stage[c] = "opened"
  BY HasRecord DEF RegistryInv, ReaderKnows
<1> USE VersionsAssumption, <1>1, NoneIsNoRecord
    DEF TypeOK, Reach, tables, Now, Named, Reading, UnderWay
<1>2. ASSUME NEW p \in Paths, Register(c, p) \/ RegisterNothing(c, p)
      PROVE  RegistrationKnows(c)' /\ ReaderKnows(c)'
  BY <1>2, RecordsAssumption DEF Register, RegisterNothing, RegistrationKnows, ReaderKnows, Records, Known
<1>3. CASE FindRegistered(c)
  <2>1. PICK i \in AtPath(record[c].path) : about' = [about EXCEPT ![c] = i]
    BY <1>3 DEF FindRegistered
  <2>2. /\ i \in Calls /\ stage[i] = "registered" /\ about[i] = i /\ rows[i] # None
        /\ record[i].path = record[c].path /\ i # c
    BY <1>3, <2>1 DEF FindRegistered, AtPath, RegistryInv, RowsHold, SameFile
  <2> QED
    BY <1>3, <2>1, <2>2 DEF FindRegistered, RegistrationKnows, ReaderKnows
<1>4. CASE FindNone(c) \/ InspectUnreadable(c) \/ ObserveNothing(c) \/ InsertDuplicate(c)
  BY <1>4 DEF FindNone, InspectUnreadable, ObserveNothing, InsertDuplicate, RegistrationKnows,
              ReaderKnows
<1>5. CASE Inspect(c)
  <2>1. record'[c] \in Records /\ record'[c].path = record[c].path /\ record'[c].header = Now(c)
    BY <1>5 DEF Inspect, Records, Known
  <2> QED
    BY <1>5, <2>1 DEF Inspect, RegistrationKnows, ReaderKnows
<1>6. CASE Observe(c)
  <2>1. /\ record'[c] \in Records /\ record'[c].path = record[c].path
        /\ record'[c].header = record[c].header /\ record'[c].fingerprint = Now(c)
    BY <1>6 DEF Observe, Records, Known
  <2> QED
    BY <1>6, <2>1 DEF Observe, RegistrationKnows, ReaderKnows
<1>7. CASE Insert(c)
  BY <1>7 DEF Insert, RegistrationKnows, ReaderKnows, AtPath
<1>8. CASE Commit(c)
  BY <1>8 DEF Commit, RegistrationKnows, ReaderKnows
<1> QED
  BY <1>2, <1>3, <1>4, <1>5, <1>6, <1>7, <1>8 DEF RegisterStep

(* The call that has read a record knows what it relies on. *)
LEMMA StepOwnReader ==
  ASSUME RegistryInv, NEW c \in Calls, CallStep(c), ~RegisterStep(c)
  PROVE  RegistrationKnows(c)' /\ ReaderKnows(c)'
<1>1. /\ RegistrationKnows(c) /\ ReaderKnows(c) /\ TypeOK
      /\ stage[c] \in Reading => record[c] \in Records
      /\ opened[c] # Absent => stage[c] = "opened"
  BY HasRecord DEF RegistryInv, ReaderKnows
<1> USE <1>1, NoneIsNoRecord DEF TypeOK, Reach, tables, Now, Named, Reading
<1>2. ASSUME NEW i \in Calls, NEW s \in {"digesting", "checking"}, Look(c, i, s)
      PROVE  RegistrationKnows(c)' /\ ReaderKnows(c)'
  <2>1. /\ stage[i] = "registered" /\ about[i] = i /\ i # c
        /\ SameFile(rows[i], record[i]) /\ rows[i] # None
    BY <1>2 DEF Look, RegistryInv, RowsHold
  <2> QED
    BY <1>2, <2>1 DEF Look, RegistrationKnows, ReaderKnows
<1>3. ASSUME NEW i \in Calls, LookInVain(c, i) \/ Forget(c, i)
      PROVE  RegistrationKnows(c)' /\ ReaderKnows(c)'
  BY <1>3 DEF LookInVain, Forget, RegistrationKnows, ReaderKnows
<1>4. CASE Digest(c)
  <2>1. about[c] # c
    BY <1>4 DEF Digest, ReaderKnows
  <2>2. record'[c] \in Records /\ SameFile(record'[c], record[c])
    BY <1>4 DEF Digest, Records, Known, SameFile
  <2> QED
    BY <1>4, <2>1, <2>2 DEF Digest, RegistrationKnows, ReaderKnows, SameFile
<1>5. CASE Update(c) \/ DigestNothing(c) \/ Unchanged(c) \/ Drifted(c) \/ OpenNothing(c)
  BY <1>5 DEF Update, DigestNothing, Unchanged, Drifted, OpenNothing, RegistrationKnows,
              ReaderKnows
<1>6. CASE Open(c)
  BY <1>6 DEF Open, RegistrationKnows, ReaderKnows
<1>7. CASE FailStorage(c) \/ Crash(c)
  BY <1>7 DEF FailStorage, Crash, RegistrationKnows, ReaderKnows
<1> QED
  BY <1>2, <1>3, <1>4, <1>5, <1>6, <1>7 DEF CallStep, VerifyStep, LoadStep

(* A file that is replaced under a call that relies on it is put down as    *)
(* moved, and nothing else is disturbed.                                   *)
LEMMA StepReplace ==
  ASSUME RegistryInv, NEW p \in Paths, NEW v \in Known, Replace(p, v)
  PROVE  RegistryInv'
<1> USE DEF RegistryInv, Replace, tables
<1>1. TypeOK'
  BY DEF TypeOK
<1>2. MetadataFollows' /\ RowsHold' /\ PathsApart'
  BY DEF MetadataFollows, RowsHold, PathsApart, Named
<1>3. ASSUME NEW c \in Calls
      PROVE  RegistrationKnows(c)' /\ ReaderKnows(c)'
  <2>1. /\ moved[c] => moved'[c]
        /\ stage[c] \in {"observing", "unchanged"} => moved'[c] \/ Now(c)' = Now(c)
    BY HasRecord DEF Relying, Now, TypeOK, UnderWay, Reading
  <2> QED
    BY <2>1 DEF RegistrationKnows, ReaderKnows, Named, AtPath, Forgotten
<1> QED
  BY <1>1, <1>2, <1>3

(* What calls do, and what happens to files, keeps the invariant: what is   *)
(* relied on is still so, or was moved at a moment that is put down.       *)
THEOREM RegistryInvariant == Spec => []RegistryInv
<1>1. Init => RegistryInv
  BY DEF Init, RegistryInv, TypeOK, MetadataFollows, RowsHold, PathsApart, RegistrationKnows,
         ReaderKnows, Named, AtPath, Reading, Known
<1>2. RegistryInv /\ [Next]_vars => RegistryInv'
  <2> SUFFICES ASSUME RegistryInv, [Next]_vars
               PROVE  RegistryInv'
    OBVIOUS
  <2>1. CASE UNCHANGED vars
    BY <2>1 DEF vars, RegistryInv, TypeOK, MetadataFollows, RowsHold, PathsApart,
                RegistrationKnows, ReaderKnows, Named, AtPath, Now, Forgotten
  <2>2. ASSUME NEW c \in Calls, CallStep(c)
        PROVE  RegistryInv'
    <3>1. TypeOK' /\ MetadataFollows' /\ RowsHold' /\ PathsApart'
      BY <2>2, CallType, StepMetadata, StepRowsHold, StepPathsApart
    <3>2. \A d \in Calls : RegistrationKnows(d)' /\ ReaderKnows(d)'
      BY <2>2, StepOthers, StepOwnRegistration, StepOwnReader
    <3> QED
      BY <3>1, <3>2 DEF RegistryInv
  <2>3. ASSUME NEW p \in Paths, NEW v \in Known, Replace(p, v)
        PROVE  RegistryInv'
    BY <2>3, StepReplace
  <2> QED
    BY <2>1, <2>2, <2>3 DEF Next, CallStep
<1> QED
  BY <1>1, <1>2, PTL DEF Spec

(* What a backend opens was inspected, but for two named intervals. *)
THEOREM LoadsAreInspected == Spec => []LoadedWasInspected
<1>1. RegistryInv => LoadedWasInspected
  <2> SUFFICES ASSUME RegistryInv, NEW c \in Calls, opened[c] # Absent
               PROVE  opened[c] = record[c].header \/ moved[c] \/ moved[about[c]]
    BY DEF LoadedWasInspected
  <2>1. /\ stage[c] = "opened" /\ (opened[c] = record[c].fingerprint \/ moved[c])
        /\ about[c] \in Named /\ SameFile(record[c], record[about[c]])
    BY DEF RegistryInv, ReaderKnows, Reading
  <2>2. record[about[c]].header = record[about[c]].fingerprint \/ moved[about[c]]
    BY <2>1 DEF RegistryInv, RegistrationKnows, Named
  <2> QED
    BY <2>1, <2>2 DEF SameFile
<1> QED
  BY <1>1, RegistryInvariant, PTL

(* One path has one artifact, as long as none is forgotten. *)
THEOREM IdentifiersAgree == Spec => []OneIdentifier
<1>1. RegistryInv => OneIdentifier
  <2> SUFFICES ASSUME RegistryInv, NEW c \in Calls, NEW d \in Calls,
                      stage[c] = "registered", stage[d] = "registered",
                      record[c].path = record[d].path,
                      ~Forgotten(about[c]), ~Forgotten(about[d])
               PROVE  about[c] = about[d]
    BY DEF OneIdentifier
  <2>1. ASSUME NEW e \in {c, d}
        PROVE  /\ about[e] \in Calls /\ rows[about[e]] # None
               /\ rows[about[e]].path = record[e].path
    BY DEF RegistryInv, RegistrationKnows, RowsHold, SameFile, Named
  <2> QED
    BY <2>1 DEF RegistryInv, PathsApart
<1> QED
  BY <1>1, RegistryInvariant, PTL

(* A record and its metadata come and go together. *)
THEOREM MetadataAlwaysFollows == Spec => []MetadataFollows
<1>1. RegistryInv => MetadataFollows
  BY DEF RegistryInv
<1> QED
  BY <1>1, RegistryInvariant, PTL

(* What a record says of the file stays as long as the record does. *)
THEOREM RecordsAlwaysStand == Spec => RecordsStand
<1>1. ASSUME RegistryInv, [Next]_vars, NEW i \in Calls, rows[i] # None, rows'[i] # None
      PROVE  \A f \in {"path", "header", "fingerprint"} : rows'[i][f] = rows[i][f]
  <2>1. CASE UNCHANGED vars
    BY <2>1 DEF vars
  <2>2. ASSUME NEW c \in Calls, CallStep(c)
        PROVE  rows'[i] = rows[i] \/ SameFile(rows'[i], rows[i])
    BY <1>1, <2>2, StepRows
  <2>3. ASSUME NEW p \in Paths, NEW v \in Known, Replace(p, v)
        PROVE  rows'[i] = rows[i]
    BY <2>3 DEF Replace, tables
  <2> QED
    BY <1>1, <2>1, <2>2, <2>3 DEF Next, CallStep, SameFile
<1>2. RegistryInv /\ [Next]_vars =>
        [\A i \in Calls :
           rows[i] # None /\ rows'[i] # None =>
             \A f \in {"path", "header", "fingerprint"} : rows'[i][f] = rows[i][f]]_vars
  BY <1>1
<1> QED
  BY <1>2, RegistryInvariant, PTL DEF Spec, RecordsStand

=============================================================================
