--------------------------- MODULE ArtifactRegistry ---------------------------
(***************************************************************************)
(* The registry of artifacts (ArtifactRegistry, mehoy-registry) and the    *)
(* loads that rely on it (ModelLoader::resolve), over files that others    *)
(* replace, move and remove at any moment.  A call is one operation on a   *)
(* connection of its own to one database; reading a file, reading a row    *)
(* and writing are separate steps, with those of other calls in between.   *)
(* An artifact is named by the call that registers it (an identifier is    *)
(* 128 random bits).  A version is what can be at a path: contents, with   *)
(* the size and modification time that make up a fingerprint; versions of  *)
(* other contents are taken to have other fingerprints.                    *)
(***************************************************************************)
EXTENDS Naturals

CONSTANTS
  Calls,
  Paths,       \* canonical paths
  Versions,
  Containers,  \* the versions that parse as a container
  Absent,      \* the version of what is not there, or not known
  None         \* no record, artifact or call

ASSUME VersionsAssumption == Containers \subseteq Versions /\ Absent \notin Versions
ASSUME CallsAssumption == None \notin Calls

Known == Versions \cup {Absent}

(* A record: where the artifact is, the version its header was read of, the *)
(* one its fingerprint was taken of and the one that was digested, if any.  *)
Records == [path : Paths, header : Known, fingerprint : Known, digest : Known]

ASSUME RecordsAssumption == None \notin Records

VARIABLES
  file,     \* what is at a path
  rows,     \* the table of artifacts, by identifier
  entries,  \* the artifacts with rows in the table of metadata
  lock,     \* the call whose transaction is open
  stage,    \* how far a call has got
  about,    \* the artifact it is about, for a registration the one it answers
  record,   \* the record it has read, or is making
  opened,   \* what the backend it starts has opened
  moved     \* whether the file was replaced between two looks of the call

vars == <<file, rows, entries, lock, stage, about, record, opened, moved>>
tables == <<rows, entries, lock>>

TypeOK ==
  /\ file \in [Paths -> Known]
  /\ rows \in [Calls -> Records \cup {None}]
  /\ entries \subseteq Calls
  /\ lock \in Calls \cup {None}
  /\ stage \in [Calls -> {"idle", "finding", "inspecting", "observing", "inserting", "filling",
                          "registered", "digesting", "updating", "verified", "checking",
                          "unchanged", "drifted", "opened", "forgotten", "failed", "gone"}]
  /\ about \in [Calls -> Calls \cup {None}]
  /\ record \in [Calls -> Records \cup {None}]
  /\ opened \in [Calls -> Known]
  /\ moved \in [Calls -> BOOLEAN]

Init ==
  /\ file \in [Paths -> Known]
  /\ rows = [i \in Calls |-> None]
  /\ entries = {}
  /\ lock = None
  /\ stage = [c \in Calls |-> "idle"]
  /\ about = [c \in Calls |-> None]
  /\ record = [c \in Calls |-> None]
  /\ opened = [c \in Calls |-> Absent]
  /\ moved = [c \in Calls |-> FALSE]

Reach(c, s) == stage' = [stage EXCEPT ![c] = s]

(* What the file that c is concerned with is now. *)
Now(c) == file[record[c].path]

AtPath(p) == {i \in Calls : rows[i] # None /\ rows[i].path = p}

(* The artifacts a caller can name: those that were ever registered. *)
Named == {i \in Calls : stage[i] = "registered" /\ about[i] = i}

(* A transaction that is not committed is as if it had not begun. *)
LetGo(c) == lock' = IF lock = c THEN None ELSE lock

-----------------------------------------------------------------------------
(* register.                                                               *)

(* The path is found to be a file, and canonicalised. *)
Register(c, p) ==
  /\ stage[c] = "idle"
  /\ file[p] # Absent
  /\ record' = [record EXCEPT ![c] =
       [path |-> p, header |-> Absent, fingerprint |-> Absent, digest |-> Absent]]
  /\ Reach(c, "finding")
  /\ UNCHANGED <<file, tables, about, opened, moved>>

RegisterNothing(c, p) ==
  /\ stage[c] = "idle"
  /\ file[p] = Absent
  /\ Reach(c, "failed")
  /\ UNCHANGED <<file, tables, about, record, opened, moved>>

(* find_by_path: the path has a record, which is left as it is. *)
FindRegistered(c) ==
  /\ stage[c] = "finding"
  /\ \E i \in AtPath(record[c].path) : about' = [about EXCEPT ![c] = i]
  /\ Reach(c, "registered")
  /\ UNCHANGED <<file, tables, record, opened, moved>>

FindNone(c) ==
  /\ stage[c] = "finding"
  /\ AtPath(record[c].path) = {}
  /\ Reach(c, "inspecting")
  /\ UNCHANGED <<file, tables, about, record, opened, moved>>

(* gguf::parse. *)
Inspect(c) ==
  /\ stage[c] = "inspecting"
  /\ Now(c) \in Containers
  /\ record' = [record EXCEPT ![c].header = Now(c)]
  /\ Reach(c, "observing")
  /\ UNCHANGED <<file, tables, about, opened, moved>>

InspectUnreadable(c) ==
  /\ stage[c] = "inspecting"
  /\ Now(c) \notin Containers
  /\ Reach(c, "failed")
  /\ UNCHANGED <<file, tables, about, record, opened, moved>>

(* ArtifactFingerprint::observe, of what is at the path by then. *)
Observe(c) ==
  /\ stage[c] = "observing"
  /\ Now(c) # Absent
  /\ record' = [record EXCEPT ![c].fingerprint = Now(c)]
  /\ Reach(c, "inserting")
  /\ UNCHANGED <<file, tables, about, opened, moved>>

ObserveNothing(c) ==
  /\ stage[c] = "observing"
  /\ Now(c) = Absent
  /\ Reach(c, "failed")
  /\ UNCHANGED <<file, tables, about, record, opened, moved>>

(* A bug: a table that does not keep paths apart. *)
InsertUnchecked(c) ==
  /\ stage[c] = "inserting"
  /\ lock = None
  /\ lock' = c
  /\ Reach(c, "filling")
  /\ UNCHANGED <<file, rows, entries, about, record, opened, moved>>

(* A bug: no transaction around the row and its metadata. *)
InsertAtOnce(c) ==
  /\ stage[c] = "inserting"
  /\ lock = None
  /\ AtPath(record[c].path) = {}
  /\ rows' = [rows EXCEPT ![c] = record[c]]
  /\ Reach(c, "filling")
  /\ UNCHANGED <<file, entries, lock, about, record, opened, moved>>

(* insert begins a transaction with the row, which no other may have the   *)
(* path of, ...                                                            *)
Insert(c) ==
  /\ stage[c] = "inserting"
  /\ lock = None
  /\ AtPath(record[c].path) = {}
  /\ lock' = c
  /\ Reach(c, "filling")
  /\ UNCHANGED <<file, rows, entries, about, record, opened, moved>>

InsertDuplicate(c) ==
  /\ stage[c] = "inserting"
  /\ lock = None
  /\ AtPath(record[c].path) # {}
  /\ Reach(c, "failed")
  /\ UNCHANGED <<file, tables, about, record, opened, moved>>

(* ... goes on with the metadata, and commits both. *)
Commit(c) ==
  /\ stage[c] = "filling"
  /\ rows' = [rows EXCEPT ![c] = record[c]]
  /\ entries' = entries \cup {c}
  /\ lock' = None
  /\ about' = [about EXCEPT ![c] = c]
  /\ Reach(c, "registered")
  /\ UNCHANGED <<file, record, opened, moved>>

-----------------------------------------------------------------------------
(* verify, check, forget and the loads.                                    *)

(* get. *)
Look(c, i, s) ==
  /\ stage[c] = "idle"
  /\ i \in Named /\ rows[i] # None
  /\ about' = [about EXCEPT ![c] = i]
  /\ record' = [record EXCEPT ![c] = rows[i]]
  /\ Reach(c, s)
  /\ UNCHANGED <<file, tables, opened, moved>>

LookInVain(c, i) ==
  /\ stage[c] = "idle"
  /\ i \in Named /\ rows[i] = None
  /\ Reach(c, "failed")
  /\ UNCHANGED <<file, tables, about, record, opened, moved>>

(* verify reads the file in full, ... *)
Digest(c) ==
  /\ stage[c] = "digesting"
  /\ Now(c) # Absent
  /\ record' = [record EXCEPT ![c].digest = Now(c)]
  /\ Reach(c, "updating")
  /\ UNCHANGED <<file, tables, about, opened, moved>>

DigestNothing(c) ==
  /\ stage[c] = "digesting"
  /\ Now(c) = Absent
  /\ Reach(c, "failed")
  /\ UNCHANGED <<file, tables, about, record, opened, moved>>

(* ... and records the digest, if the record is still there. *)
Update(c) ==
  /\ stage[c] = "updating"
  /\ lock = None
  /\ rows' = IF rows[about[c]] = None THEN rows
             ELSE [rows EXCEPT ![about[c]].digest = record[c].digest]
  /\ Reach(c, "verified")
  /\ UNCHANGED <<file, entries, lock, about, record, opened, moved>>

(* The metadata of a record goes with it. *)
Forget(c, i) ==
  /\ stage[c] = "idle"
  /\ i \in Named
  /\ lock = None
  /\ rows' = [rows EXCEPT ![i] = None]
  /\ entries' = entries \ {i}
  /\ about' = [about EXCEPT ![c] = i]
  /\ Reach(c, "forgotten")
  /\ UNCHANGED <<file, lock, record, opened, moved>>

(* A bug: taking the record at its word. *)
TrustRecord(c) ==
  /\ stage[c] = "checking"
  /\ Reach(c, "unchanged")
  /\ UNCHANGED <<file, tables, about, record, opened, moved>>

(* detect_drift: the end of check, and what resolve decides on. *)
Unchanged(c) ==
  /\ stage[c] = "checking"
  /\ Now(c) = record[c].fingerprint
  /\ Reach(c, "unchanged")
  /\ UNCHANGED <<file, tables, about, record, opened, moved>>

Drifted(c) ==
  /\ stage[c] = "checking"
  /\ Now(c) # record[c].fingerprint
  /\ Reach(c, "drifted")
  /\ UNCHANGED <<file, tables, about, record, opened, moved>>

(* The backend that a load starts opens the file. *)
Open(c) ==
  /\ stage[c] = "unchanged"
  /\ Now(c) # Absent
  /\ opened' = [opened EXCEPT ![c] = Now(c)]
  /\ Reach(c, "opened")
  /\ UNCHANGED <<file, tables, about, record, moved>>

OpenNothing(c) ==
  /\ stage[c] = "unchanged"
  /\ Now(c) = Absent
  /\ Reach(c, "failed")
  /\ UNCHANGED <<file, tables, about, record, opened, moved>>

-----------------------------------------------------------------------------
(* Storage fails a call that writes: its wait for another's transaction has *)
(* a limit, and a commit may fail.                                         *)
FailStorage(c) ==
  /\ stage[c] \in {"inserting", "filling", "updating"}
  /\ LetGo(c)
  /\ Reach(c, "failed")
  /\ UNCHANGED <<file, rows, entries, about, record, opened, moved>>

(* The process of a call dies. *)
Crash(c) ==
  /\ stage[c] \notin {"idle", "registered", "verified", "drifted", "opened", "forgotten",
                      "failed", "gone"}
  /\ LetGo(c)
  /\ Reach(c, "gone")
  /\ UNCHANGED <<file, rows, entries, about, record, opened, moved>>

(* The calls that have looked at the file at p and rely on it at their next *)
(* step.                                                                   *)
Relying(p) ==
  {c \in Calls : stage[c] \in {"observing", "unchanged"} /\ record[c].path = p}

(* Somebody replaces the file, removes it or puts one there. *)
Replace(p, v) ==
  /\ v # file[p]
  /\ file' = [file EXCEPT ![p] = v]
  /\ moved' = [c \in Calls |-> moved[c] \/ c \in Relying(p)]
  /\ UNCHANGED <<tables, stage, about, record, opened>>

-----------------------------------------------------------------------------
RegisterStep(c) ==
  \/ \E p \in Paths : Register(c, p) \/ RegisterNothing(c, p)
  \/ FindRegistered(c) \/ FindNone(c)
  \/ Inspect(c) \/ InspectUnreadable(c) \/ Observe(c) \/ ObserveNothing(c)
  \/ Insert(c) \/ InsertDuplicate(c) \/ Commit(c)

VerifyStep(c) ==
  \/ \E i \in Calls : Look(c, i, "digesting") \/ LookInVain(c, i)
  \/ Digest(c) \/ DigestNothing(c) \/ Update(c)

LoadStep(c) ==
  \/ \E i \in Calls : Look(c, i, "checking")
  \/ Unchanged(c) \/ Drifted(c) \/ Open(c) \/ OpenNothing(c)

Next ==
  \/ \E c \in Calls :
       \/ RegisterStep(c) \/ VerifyStep(c) \/ LoadStep(c)
       \/ \E i \in Calls : Forget(c, i)
       \/ FailStorage(c) \/ Crash(c)
  \/ \E p \in Paths, v \in Known : Replace(p, v)

Spec == Init /\ [][Next]_vars

-----------------------------------------------------------------------------
(* Properties.                                                             *)

(* What a backend opens is what was inspected when the artifact was         *)
(* registered, except if the file was replaced within one of two intervals: *)
(* between the header and the fingerprint of that registration, or between *)
(* the drift check of this load and the opening.                           *)
LoadedWasInspected ==
  \A c \in Calls :
    opened[c] # Absent =>
      opened[c] = record[c].header \/ moved[c] \/ moved[about[c]]

(* As long as a record exists, what it says of the file stays: a file that  *)
(* has changed is never adopted, neither by registering it again nor by    *)
(* verifying it.                                                           *)
RecordsStand ==
  [][\A i \in Calls :
       rows[i] # None /\ rows'[i] # None =>
         \A f \in {"path", "header", "fingerprint"} : rows'[i][f] = rows[i][f]]_vars

(* However registrations of one path race, those that answer answer the     *)
(* same artifact, unless one of the artifacts has been forgotten.          *)
Forgotten(i) == \E c \in Calls : stage[c] = "forgotten" /\ about[c] = i

OneIdentifier ==
  \A c, d \in Calls :
    stage[c] = "registered" /\ stage[d] = "registered" /\ record[c].path = record[d].path =>
      about[c] = about[d] \/ Forgotten(about[c]) \/ Forgotten(about[d])

(* A record and its metadata come and go together, whatever fails or dies   *)
(* between the two.                                                        *)
MetadataFollows == entries = {i \in Calls : rows[i] # None}

-----------------------------------------------------------------------------
(* The strengthening under which the properties are inductive.             *)

Reading == {"digesting", "updating", "verified", "checking", "unchanged", "drifted", "opened"}

SameFile(r, s) == r.path = s.path /\ r.header = s.header /\ r.fingerprint = s.fingerprint

(* A record is what its registration made. *)
RowsHold ==
  \A i \in Calls : rows[i] # None =>
    i \in Named /\ record[i] # None /\ SameFile(rows[i], record[i])

PathsApart ==
  \A i, j \in Calls : rows[i] # None /\ rows[j] # None /\ rows[i].path = rows[j].path => i = j

(* A registration that is under way, or was. *)
RegistrationKnows(c) ==
  /\ stage[c] \in {"finding", "inspecting", "observing", "inserting", "filling", "registered"} =>
       record[c] # None
  /\ stage[c] = "observing" => record[c].header = Now(c) \/ moved[c]
  /\ stage[c] \in {"inserting", "filling"} \/ c \in Named =>
       record[c].header = record[c].fingerprint \/ moved[c]
  /\ stage[c] = "filling" => lock = c /\ AtPath(record[c].path) = {}
  /\ stage[c] = "registered" =>
       /\ about[c] \in Named /\ record[about[c]].path = record[c].path
       /\ rows[about[c]] # None \/ Forgotten(about[c])

(* A call that has read a record. *)
ReaderKnows(c) ==
  /\ stage[c] \in Reading =>
       about[c] \in Named /\ record[c] # None /\ SameFile(record[c], record[about[c]])
  /\ stage[c] = "unchanged" => Now(c) = record[c].fingerprint \/ moved[c]
  /\ opened[c] # Absent =>
       stage[c] = "opened" /\ (opened[c] = record[c].fingerprint \/ moved[c])

RegistryInv ==
  /\ TypeOK
  /\ MetadataFollows
  /\ RowsHold
  /\ PathsApart
  /\ \A c \in Calls : RegistrationKnows(c) /\ ReaderKnows(c)
=============================================================================
