# Mehoy Malloy AI Runtime: a formal model

TLA+ modules, TLC configurations and TLAPS proofs about the runtime in
`src/`: a Rust control plane that brings model files up on backend processes,
admits inference requests to them, streams their answers, and takes them down
again. All paths below are relative to `src/crates/`.

## 1. The system

| Component | State | Operations |
| --- | --- | --- |
| **Runtime ledger**, `mehoy-runtime/src/runtime.rs` | under one mutex: `pending` (reservation → footprint), `resident` (instance → model and footprint) | `load` (reserve, bring up, fulfil), `unload_within` (resolve, tear down, release), look-ups |
| **Admission policy**, `mehoy-runtime/src/resources.rs` | none | `ResidentLimits::admits` |
| **Instance lifecycle**, `mehoy-runtime/src/loader.rs` | under one mutex per instance: `phase`, `active` (request → handle), `worker` | `admit`, `embed`, `generate_text`, `generate_stream_within`, `cancel`, `active_requests`, `unload_within` |
| **Loader**, `mehoy-runtime/src/loader.rs` | none | `ModelLoader::load`: resolve, start the backend, commit, roll back |
| **Capabilities**, `mehoy-runtime/src/{capability,instance}.rs` | indicated and verified capabilities of an instance, and copies of them | `indicate`, `verify`, `capabilities`, `record_generation_stream` |
| **Requests**, `mehoy-core/src/cancel.rs` | a state behind a mutex, a token with its first cause | `mark_running`, `request_cancellation`, `finish`, `cancel` |
| **Generation streams**, `mehoy-core/src/inference.rs` | a channel of 32 events, the producer's and the consumer's flags | sink: `delta`, `complete`, `cancel`, `fail`, drop; stream: `next`, `collect`, drop |
| **Streaming execution**, `mehoy-backend-llama/src/generate.rs` | the stage of one task, the reported finish reason | `start_generation`, `execute`, `read`, `within` |
| **Event decoder**, `mehoy-backend-llama/src/sse.rs` | a partial line, a partial event | `push` |
| **Backend start and stop**, `mehoy-backend-llama/src/{lib,channel,health}.rs` | a port, a secret, a secret file, a running worker | `identify`, `start`, `stop`, `probe`, `probe_credential` |
| **Worker supervision**, `mehoy-core/src/worker/` | worker state, child process, output capture | `spawn`, `wait_ready`, `shutdown`, `wait`, `terminate` |
| **Registry**, `mehoy-registry/src/` | artifact rows in SQLite, files that others may replace | `register`, `check`, `verify`, `forget`, GGUF header parsing |
| **Endpoints**, `mehoy-core/src/transport/` | a Unix socket path, or a pool of named pipe instances | `bind`, `accept`, `connect`, drop |
| **Daemon**, `mehoy-daemon/src/` | the set of open connections | `serve`, `drain`, `route` |
| **Client and protocol**, `mehoy-cli`, `mehoy-protocol` | none | one request, one answer |

How they interact. `Runtime` takes its mutex only to reserve, to fulfil, to
resolve and to release; everything slow happens on the resolved
`Arc<LoadedModel>` with that mutex free. `LoadedModel` takes its own mutex only
to admit a request, to look one up, to begin an unload and to finish it. A
request's handle is cloned into the in-flight map, the task or future that
executes it, and the stream its consumer reads, and each holder calls its
methods when it likes. A streaming task and its consumer share a bounded
channel. A backend is a child process reached over a loopback port, which other
programs may have taken; it is stopped by killing it. Before it is spawned the
executable is run once to tell its build. The daemon accepts connections on an endpoint, and does
not hold a `Runtime` yet.

What is hard about it: loads, unloads, requests and cancellations from many
threads, with two levels of locks and decisions taken between holds of them;
futures that a caller may drop at any `await`, so that the rest of a function
never runs; tasks that vanish with their executor; a process that dies of
itself or refuses to; a backend that never answers; a consumer that stops
reading, or leaves; budgets that expire while the answer arrives. PROJECT.json
lists these under "hazards", each at its line.

What makes each component correct:

* *Ledger*: what is committed never exceeds a limit; a claim lives exactly as
  long as its load; a footprint is released only when its worker is gone, and
  then it is; one call tears an instance down.
* *Lifecycle*: no request is admitted behind an unload's back; "drained" is
  true; whatever a cancellation was told stays true; unloads and calls return.
* *Requests*: one terminal state, one cause.
* *Streams*: the consumer is told how the stream ended, in agreement with the
  handle; a truncated answer never passes for a complete one; a request that is
  stopped or that nobody reads ends.
* *Worker supervision*: a stop that reports success knows the process gone; a
  failed start leaves none behind, or says so; a channel leads to its own backend.
* *Registry*: what is loaded was inspected; one row per path.
* *Endpoints*: at most one daemon per address; a dead one does not block the
  next, and a live one is not evicted.
* *Event decoder*: the events do not depend on how the bytes were cut; a
  truncation is told from an end; what is held is bounded.
* *Capabilities*: verified only by a completed exchange of that instance, and
  never taken back, by later assertions neither;
  an accepted embedding belongs to the input it is given for.

## 2. The modules

| Module | Models | Used by |
| --- | --- | --- |
| `ResidentLimits` | `ResidentLimits::admits`, `Ledger::committed` | `Runtime` |
| `ResidentCapacity` | abstract: what the ledger promises (ADR-0010) | refined by `Runtime` |
| `InstanceTeardown` | abstract: what the runtime relies on when it unloads an instance | refined by `Runtime` and `InstanceLifecycle` |
| `BackendProcess` | abstract: what the ledger relies on of one backend | refined by `Runtime` and `Backends`, and from its serving stage on by `InstanceLifecycle` |
| `Runtime` | the ledger, the loads and unloads through it, and the loader | `MCRuntime`, `RuntimeProofs` |
| `RequestHandle` | `RequestHandle`, `CancellationToken` | the next two |
| `InstanceLifecycle` | one `LoadedModel` | its own cfgs, `InstanceLifecycleProofs` |
| `GenerationStream` | one streaming request: task, buffer, consumer | its own cfgs, `StreamProofs` |
| `ProcessWorker` | `ProcessWorker`, `WorkerHandle`, the processes | its own cfg, `Backends` |
| `Backends` | `LlamaCppBackend::start`, `RunningBackend::stop`, `BackendChannel`, and other programs at its port | `MCBackends`, `BackendsProofs` |
| `SseDecoder` | the framing of server-sent events, byte by byte | `MCSseDecoder`, `StreamProofs` |
| `Inference` | what `validate`, `validate_generation` and `GenerationParameters::validate` accept | `CapabilityEvidence` |
| `CapabilityEvidence` | what is known of instances, and the calls and streams that demonstrate it | `MCCapabilityEvidence`, `CapabilityEvidenceProofs` |
| `LocalEndpoint` | abstract: what daemons and clients may rely on of an endpoint, on either platform | refined by the next two |
| `DaemonEndpoint` | daemons over one Unix socket path: `bind`, `serve`, `drain`, the dropping of an `Endpoint`, and clients | its own cfgs, `DaemonEndpointProofs` |
| `PipeEndpoint` | the same over one named pipe: instances, probes, deadlines | its own cfg, `PipeEndpointProofs` |
| `ArtifactRegistry` | `register`, `verify`, `check`, `forget` over one database, and what a load opens | `MCArtifactRegistry`, `ArtifactRegistryProofs` |
| `RuntimeProofs` (and of `ResidentLimits`), `InstanceLifecycleProofs`, `StreamProofs` (of `GenerationStream` and `SseDecoder`), `BackendsProofs` (and of `ProcessWorker`), `CapabilityEvidenceProofs` (and of `Inference`), `DaemonEndpointProofs`, `PipeEndpointProofs`, `ArtifactRegistryProofs` | theorems | |

### Runtime

A model is named by the load that brings it up. `load[m]` is how far
`Runtime::load` has got: `idle`, `reserved` (`reserve` has claimed),
`identifying` (the executable was run to tell its build, and is waited for),
`identified`, `starting` (the worker is spawned), `rolling back` (`commit` failed
and `stop` is awaited), and then `loaded`, `failed` or `dropped`; `refused` and `unknown` are the refusals before any
claim. `pending` and `resident` are the two maps. `worker[m]` is the process
itself, which the code cannot see: it may die at any time, and an attempt to end
it may be refused. `unload[u]`, `target[u]`, `outcome[u]` are the calls of
`Runtime::unload`; the steps inside a teardown are reduced to the
changes of `phase`. That this reduction is sound is `InstanceTeardown`, an abstract
specification of the teardown of one instance: `InstanceLifecycle` implements it
(`TeardownImplemented`: the stages of an unload between closing and finishing are
one "tearing down", and its two good outcomes one "Stopped"), and for every
model so does the ledger (`TeardownsKept`: a call that has resolved the instance
has not reached it yet, and releasing comes after the answer). A step of the one is
thus a step of the other as far as phase, worker, calls and answers go, and the two
modules fit together without being composed. In the same way
`BackendProcess` is what the ledger has to know of the backend of a model: it is
started at most once, has one process that may end at any time, and has
none after a stop that succeeded. The ledger's steps are steps of it for every
model, and so are those of `Backends` for every backend (`BackendsKept` in
each). `DropLoad` and `DropUnload` are the caller dropping the
future at an `await`. The weight of a set of models is the number of its bytes,
a form to which theorems on cardinality apply; `MCRuntime` checks, as an
assumption evaluated by TLC, that it is the sum the code folds.

### RequestHandle and InstanceLifecycle

`RequestHandle` has one operator per method, each the whole of what the method
does under the handle's lock. `request_cancellation` sets the token and the state under
one lock, and is one step; the idle budget goes to the token directly and
leaves the state alone, as in the code.

`InstanceLifecycle` is one instance from the moment it serves. Requests are
`Calls` (`embed`, `generate_text`: carried out by the caller's future, which may
be dropped at its one `await`) or `Streams` (carried out by a task). `call[r]` is how far
the executor has got and `verdict[r]` the outcome it has decided on but not
recorded: between the two a cancellation or an unload may come first. `asking[c]` splits
`cancel` where the code lets go of a lock: the look-up (`LookUp`, `FindNone`), the terminal check and the claim
(`Claim`, `FindEnded`, `Lose`), and the second look (`FindEnded`,
`FindStopping`). `unload[u]` goes through phase one (`Begin`), telling the
outstanding requests one at a time (`Tell`), draining (`DrainSettles`,
`DrainExpires`), stopping the worker (`Stop`, `FailStop`) and phase three
(`FinishUnload`). Phase one takes its list of handles in one step; in the
code a handle may end while the list is made, which only leaves ended ones out.

### GenerationStream

One task, its consumer and whoever cancels. A step of the task goes from one
`await` or lock to the next. The stages "connecting", "shaking_hands",
"requesting", "refused" and "reading" wait under the same biased choice:
the token first (`ObserveCancel`), then an absent consumer (`ObserveClosed`),
then the work (`Proceed`, `Frame`, `Closed`, `FailTransport`) or the idle
budget (`Expire`, and `ClaimExpiry` once the token has been tried). "handing_over"
and "announcing" await room in the buffer and nothing else. A response is
a sequence of frames, each a batch of payloads handled without another look at
the token; a payload matters by whether it is the end marker, unusable, carries text or a
finish reason. `Vanish` is the task being dropped with its executor.
`RecordStream` is `record_generation_stream`: whoever still holds the stream
has its instance verified by it, if it has demonstrated generation. Whose stream
it is, is a question of `CapabilityEvidence`.

### SseDecoder

A byte is what the decoder tells apart: a carriage return, a line feed, a colon,
a space, `d` for the field name `data`, `x` for another character, and `!` for a
byte that is not UTF-8. `Push(n)` is `push` of the next `n` bytes, so that every
cut of a stream into chunks is a behaviour; `TakeLine` and `Consume` are
`take_line` and `consume`. `Turn` is one turn of the loop, and `Lines` the loop,
as a function over its turns: a line takes at least a byte, so there are no more
turns than bytes. The reference is written without the decoder's state:
`LineEnds` are the positions at which a line ends, `Joined` is the text of the
data lines from one position to another, and `Reading` are the events that have
ended up to each position. Three things that it shows of the code are not
obvious from it. A push that fails discards the events which the same chunk had
completed, so `ChunksDoNotShow` promises a prefix then. The limit is judged on
the whole chunk before any line is taken from it, so a chunk of many short events
can exceed it; and it is judged of the partial line and of the data of the lines
before it separately, so that up to twice the limit may be held (`HeldIsBounded`),
which is not what its documentation says (`HeldWithinLimit`, which does not hold). And a carriage return is held until the byte after it is known: a
stream that ends in one counts as truncated.

### Inference and CapabilityEvidence

`Inference` has the judgements of `inference.rs` as operators over the data they
look at: a text is its length, a vector its dimension and whether it is finite,
an option a set of at most one element. `CapabilityEvidence` is several
instances, each committed, closed and forgotten once, callers that look one up,
are admitted, wait for the backend and judge its answer, and streams that their
holder may record whenever and for whichever instance it likes. Between the
steps of a call its instance may be unloaded. `known` is what is recorded of
capabilities; `performed` is a history variable, what backends have really
done, and is written by the steps in which they do it. `Verify` is the step that
`verify_embeddings` and `verify_text_generation` have more than `embed` and
`generate_text`: it comes after the await, and may thus concern an instance that
is forgotten by then. `record_generation_stream` does not ask whose stream it
is given (`loader.rs:679`), so `RecordStream` takes any resident instance, and
`lent` is a history variable of the streams that were recorded for another one.
`VerifiedWasPerformed` promises that what is verified of an instance was
performed by its own backend or lent to it in this way; that it was its own is
`OwnDemonstration`, which does not hold.
`copy` are the copies that `Runtime::instance` and `capabilities` hand out.
`ModelCapabilities::indicate` is public, and in the program itself called by
`indicated_by_metadata` only, when nothing is verified yet; that "a demonstration
outranks any later assertion" (`capability.rs:134-135`) is a question of copies
that were taken after a verification, so their holders may call it at any
time (`IndicateInCopy`). `EmbedResponses` and `Completions` are what a backend may send at all: wrong
counts, repeated, skipped and foreign indices, empty, different and non-finite
vectors, no choices, no text. An embedding request without inputs is sent as it
is, as `embed` checks nothing, and its empty answer is refused for want of a
dimension.

### ProcessWorker and Backends

`ProcessWorker` separates what the supervisor knows of a process from what the
process does. `held`, `state`, `child` and `protocol` are the fields of a
`WorkerHandle`; `process` and `defied` are the operating system's: whether the
process runs, was killed or has gone, and whether a kill was ever refused.
`doing[w]` is the operation under way, `at[w]` the `await` it stands at (plus
"killing", the interval between the look that finds the child alive and
`start_kill`), `refused[w]` the local variable of `terminate`, and `told[w]`
what the last operation answered. `terminate` is not an operation of its own:
`Terminate` is its beginning, conjoined to the step that calls it, and
`ShutdownEnds` and `ReadyEnds` go on after it. `DropCall` is the caller dropping
a future, and `DropHandle` the owner dropping the handle, with the last attempt
of `kill_on_drop`. Two assumptions are made on the system: a process that has
gone is seen to have gone (a wait fails only where `MissExit` says), and one
whose kill was accepted ends, which is what the comment in `terminate` relies
on.

`Backends` extends it with what `start` does around the supervision. Its steps
conjoin those of `ProcessWorker` with changes of `start`, `port`, `listening`
and `file`, so that every behaviour of it is one of `ProcessWorker` by theorem.
A port is free when it is reserved, and given up before the process binds it;
two backends may thus be given the same one, and a program that is none of the
runtime's may take it (`OtherListens`) and give it up again (`OtherLeaves`) at any
time. `secret[w]` is what `ChannelSecret::generate` drew, 32 random bytes, so that no two
are the same. Health is answered by whoever listens there. Whether the credential
check succeeds is decided by that one too, as any 2xx counts (`TakesSecret`): a
backend takes the secret that it was given, and another program does as `Foreign`
has it. `ChannelIsOwn` says that the two probes together never hand out a backend
whose channel leads elsewhere, as long as other programs refuse secrets they were
not given; `MisbindingIsVisible`, which does without that condition, does not hold.

`banner[w]` is the run of the executable that tells its build (`Identify`). It is
a process beside the worker's, which nothing supervises: `identify` neither asks for
`kill_on_drop` nor sets a deadline, so it ends when it likes (`BannerEnds`) or
never, and a start that is dropped while it waits leaves it alone.
`FailedStartLeavesNothing` says that this, and a worker that the system refused
to kill, is all that a start can leave. `WriteFails` is
`SecretFile::create` failing after it has opened the file: no `SecretFile`
exists yet, so nothing removes it, although `ModelLoader::load` promises that no
credential file survives a failure. `FileServesTheStart` allows for that file.

### LocalEndpoint

The platform modules "present the same small API, so callers do not branch on the
operating system" (`transport/mod.rs`); `LocalEndpoint` says what that API lets
its callers rely on, without saying what is at the address. `daemon[d]` is what
`bind` came to and then whether the daemon has the address ("owner"), has given
it up but may still answer ("leaving"), or is "gone"; `held[d]` are the
clients whose connections it has, and `client[c]` is what became of a client. An
address has at most one owner (`Take`); a start is told `AlreadyRunning` only if
another daemon answers (`Refuse`), and a client `NotRunning` only if there is no
owner (`FindNone`); a connection is held by one daemon until that answers
it (`Answer`) or cuts it (`Abort`, `Leave`, `Vanish`). Both endpoints implement it under a
mapping of their states (`PromiseKept` in each): the pipe always, the socket as
long as daemons start one at a time, which is what the run `evicted` shows to be
necessary.

### DaemonEndpoint

`path` is what is at the address: nothing, a foreign file, or the socket some
daemon bound. `stage[d]` is how far a daemon has got with `bind`, `serve` and
`drain`, `told[d]` what it told its caller, `conn[c]` and `peer[c]` how far a
client has got and with whom. `UnixListener::bind` is two steps, as it is two
calls of the system: between them the socket is there and refuses connections,
which is what a stale one does. What is judged (`Judge`) and what is removed
(`Remove`) are two steps too. `apart` remembers whether no two daemons have been
starting at the same time so far; the properties that need this say so, and the
run `evicted` shows what happens without it. The checks on the directory are
reduced to their verdict, a foreign file is there from the start or not at all,
a removal in the destructor succeeds, and connections fail in the two ways that
`clear_stale_socket` tells apart.

### PipeEndpoint

A pipe name is not a file: it exists while it has instances, and each serves one
connection. `pending[d]` is `Endpoint::pending`, the instance a daemon keeps for
its next client, `peer[d]` who is connected to it, and `handed[d]` the connected
instances that were given to connections. `Create` asks for the first instance
of the name, which the system denies while anybody has one. Denied, `bind`
probes: `Probe` opens the name, and so uses up an instance of somebody else,
which may be a daemon that is bound and does not accept yet. After that the bind
tries again until the name has gone on refusing (`ConfirmRunning`) or its budget
is over (`ExpireBind`). Time is abstracted to what the two budgets are for: a
daemon that was closing when they began is gone when they end (`earlier`,
`Outlasted`). `accept` is `Connected` (the wait for a peer) and `Replace` (the
new instance, and only then the handing off of the old one); `Reap` is the other
branch of the `select` in `serve`, which drops the accept at whatever it was.
A daemon that ends, also by a crash, is `closing` until the system has taken its
pending instance down, and that instance still answers. What the system does
with instances is taken from how the code treats it. Two things differ from the
Unix endpoint: nothing is left behind by a crash once the system has cleaned up,
and the name has one holder also when starts overlap (`OneHolder`).

### ArtifactRegistry

A call is a registration, a verification, a check, a load or a forgetting, on a
connection of its own; an artifact is named by the call that registered it, so
identifiers are not used twice. A version of a file stands for its contents with
their size and modification time. Different versions are assumed to have
different fingerprints: what keeps both the size and the time, a platform
without modification times, and times before 1970 (which `to_epoch_nanos`
saturates, so that such a file always counts as changed) are outside the model.
Reading the header (`Inspect`), observing the fingerprint (`Observe`), the drift
check (`Unchanged`, `Drifted`) and the opening by the backend (`Open`) are
separate steps, and whoever else has the directory may replace the file between
any two (`Replace`). `moved[c]` remembers that this happened in one of the two
intervals that the code leaves open: between header and fingerprint, and between
drift check and opening. `LoadedWasInspected` speaks of the loads and
registrations to which it did not happen. `lock` is SQLite's write lock; a
transaction that is not committed is as if it had not begun, and a process may
die inside it. `check` is a load that ends with the drift check. `verify` does
not check for drift, so its digest may be of another file than the header; and
an artifact is left unverified until then, though `docs/adr/README.md:49` speaks
of hashing at registration. Paths are canonical ones, and the refusal of
directories is that of a file that is not there.

## 3. The runs

| Run | Instance | Shows | States |
| --- | --- | --- | --- |
| `ledger` | 3 models (3, 2 and 2 bytes), 2 unloads, 2 instances, 4 bytes, u64 scaled to 4 | limits held; `CapacityKept` and `TeardownsKept` (it implements `ResidentCapacity` and `InstanceTeardown`); finished teardowns are released, and claims settled but for those that wait for the build | 79,568 |
| `lifecycle` | 1 call, 1 stream, 1 cancellation, 2 unloads | the safety of one instance, that it implements `InstanceTeardown`, and that unloads and calls return | 512,914 |
| `stream` | buffer of 3, up to 5 texts, frames of up to 2 payloads | safety and liveness of one stream | 5,565 |
| `cancelled_ends` | buffer of 2, up to 4 texts | **violated**: a cancelled stream may wait for its consumer for ever | |
| `decoder` | every stream of 3 lines of 7 kinds and 3 line ends, and 2 events that are kept open, in every cut; limit 7 | events, truncation and bound of the decoder | 145,490 |
| `evidence` | 2 instances, 1 caller, 1 stream, 1 copy, requests of 0 or 2 inputs, symmetric | what is verified was performed, or lent; accepted embeddings answer each input; evidence stands, of the instances and in the copy | 1,003,552 |
| `supervision` | 1 worker | what is said to have stopped has; refusals are real; operations return | 2,153 |
| `backends` | 2 workers, 2 ports, 2 secrets, other programs that refuse secrets, symmetric | channels lead to their own backend; secret files live as long as needed; what failed and dropped starts leave | 647,898 |
| `endpoint` | 3 daemons, 2 clients | who serves is at the path, nothing stale blocks and `PromiseKept` (it implements `LocalEndpoint`), as long as daemons do not start at the same time; clients are heard | 267,225 |
| `evicted` | 3 daemons, 1 client | **violated**: a daemon that serves may lose its socket to one that starts | |
| `pipes` | 3 daemons, 2 clients | `PromiseKept` (it implements `LocalEndpoint`: one owner, a daemon that serves is found, no connection is lost); starts settle; clients are heard | 176,493 |
| `registry` | 4 calls, 1 path, 2 containers and a file that is none, symmetric | what is loaded was inspected; one identifier per path; records whole | 1,194,769 |

Why the bounds are enough. Limits of two models and four bytes with sizes 3, 2,
2 reach both refusals, a choice that depends on the order of the loads, and a
saturated total (5 and 7 bytes exceed the scaled u64); two unloads are what it
takes to race, and a third behaves as the second. On an instance a call and a
stream are the two kinds of executor; a cancellation and two unloads give every
race for a claim, and the theorems speak of any number of them. A buffer of three
and five texts fill the buffer twice, and batches of two payloads hold one back
past the token. `MaxTexts` and `MaxBatch` bound the exploration only; `Capacity`
is the code's 32, scaled. Three lines are an event of two data lines and its
end, or an event between two others; the longest of the streams that are kept
open has more than twice the limit, as one line and as nine. Two instances are
what it takes to confuse them, and a caller, the holder of a stream and the holder of
a copy are the three who add to what is known; two inputs
have the wrong order, a repetition and an omission, none is the boundary, and
`MCCapabilityEvidence` lists the answers. One stop sequence of one byte is the
code's 8 of 256 bytes, scaled. Workers share nothing in `ProcessWorker`, so one is
every number of them; in `Backends` they share the ports, and two workers over
two ports may or may not be given the same, and another program may take it
first; no start draws more than one secret. Three daemons are one that died and
two that start, or one that serves and two; two clients are one that holds its
connection while another comes. Four calls on the registry are two
registrations that race, a forgetting or a verification, and a load; one path
is enough, as artifacts at different paths share only the lock. Deadlock is not
checked where a system may stop once its callers have; `decoder` never says
more than its stream, and stops with it.

Fairness. `Runtime`: a load or an unload that was begun goes on, as each waits
under a deadline, with one exception: the wait for the executable to tell its
build has none, so `Identified` is not fair. Nobody has to begin, drop or lose
anything. `ClaimsSettle` accordingly says that a claim which is not given back
is one of a load that waits there for good.
`InstanceLifecycle`: a call goes on because the backend's answer is awaited
under REQUEST_BUDGET (in `generate` and `embed`), an unload because drain and
stop have budgets; streams and cancellations get no fairness, so a stream may
be held up for ever. `DaemonEndpoint`: a daemon that can go on does, and its
drain has a deadline; nobody has to start, stop or crash, and no client has to
finish. `PipeEndpoint`: a bind tries again under its deadlines, `serve`'s loop
turns and its connections end, a drain has a deadline, and the system closes
what has ended; nobody has to start a daemon, stop one or connect.
`ArtifactRegistry`, `Backends`, `SseDecoder` and `CapabilityEvidence` have safety
properties only. `GenerationStream`: the executor runs a task that can run,
and silence of the backend ends with the idle budget; `ReadSpec`, which run
`stream` uses, adds a consumer that reads or drops. `ProcessWorker`: an
operation that can go on is polled, its budget runs out, and a process whose
kill was accepted ends; nothing makes a process exit of itself, become ready or
honour a request, and `wait`, which has no budget, is promised no return.

### Where the code and its documents disagree

Each of these is a property that a document states and TLC refutes. The first
two are runs of PROJECT.json, which quotes the lines under "findings"; the other
four have a configuration each, to be run by hand, and the property that the code
does keep instead is checked by a passing run.

1. `CancelledEnds`. With a full buffer the task looks at neither the token nor
   the idle budget; if the consumer keeps the stream without reading, a
   cancelled request does not end, and its connection stays open.
2. `ServingUndisturbed`. `clear_stale_socket` says that a daemon that owns the
   path must not be disturbed. A daemon that was refused by a stale socket may
   judge and remove what another has bound in the meantime; the other goes on
   listening where nobody finds it. It takes two daemons that start at the same
   time.
3. `EveryClaimSettles` (`tlc -config MCRuntime_EveryClaimSettles.cfg MCRuntime`;
   kept: `ClaimsSettle`). While a load holds its claim, `LlamaCppBackend::start`
   awaits the executable's `--version` without a deadline (`lib.rs:257-263`). One that
   does not end keeps the claim, and the room it stands for, for ever, though
   ADR-0010 (`docs/adr/0010-...md:76-77`) says that a load "holds the reservation until
   the model is either resident or gone".
4. `MisbindingIsVisible` (`tlc -config MCBackends_MisbindingIsVisible.cfg MCBackends`;
   kept: `ChannelIsOwn`). `BackendChannel::reserve` says of a port that is taken in
   the meantime that "the backend fails to start if that happens, which is a visible
   startup failure rather than a silent mis-binding" (`channel.rs:205-207`). A start
   asks whoever listens on the port, and any 2xx satisfies it.
5. `HeldWithinLimit` (`tlc -config MCSseDecoder_HeldWithinLimit.cfg MCSseDecoder`;
   kept: `HeldIsBounded`). `MAX_PENDING_BYTES` is "the most that may be held while an
   event is still incomplete" (`sse.rs:20`); the partial line and the data before it
   are held to it separately, and together reach nearly twice as much.
6. `OwnDemonstration`
   (`tlc -config MCCapabilityEvidence_OwnDemonstration.cfg MCCapabilityEvidence`; kept:
   `VerifiedWasPerformed`). "A different backend inherits no demonstration from this
   one" (`capability.rs:88-89`), but the stream of one instance may be recorded for
   another, with the identity of the other's backend.

Others are visible in the models without a run of their own; the hazards name
them at their lines.

* A worker whose kill is refused survives a failed load, though
  `ModelLoader::load` promises that none does (`loader.rs:790-791`). The code
  reports this for a rollback, and discards it on a startup timeout. The claim is
  given back either way (`RollBack`, `FailStart`), so the limits are then not a
  statement about what runs: `RunningIsAccounted` speaks of loaded models only.
* Dropping the future of an unload during its drain (`DropUnload`) leaves the
  phase at `Unloading` and the worker's handle gone; every later unload is told
  that another is in progress, and the entry is never released.
* Dropping the future of `embed` or `generate_text` leaves the handle at
  `Running` for good, though ADR-0009 decision 5 says that a request never ends
  as none of the outcomes; it counts as active, and a later unload waits its
  drain budget for it. The streaming path has a destructor for this, which
  `NoTaskLeavesARequestLive` and `AbandonedEnds` show to work.
* A start that is dropped while it waits for the executable to tell its build
  leaves that process running, with nobody to end it (`DropStart`). No document
  speaks of it; `FailedStartLeavesNothing` allows for it by name.
* The secret file that cannot be written, and the two intervals of the registry,
  are told with their modules in section 2.

## 4. The proofs

All for every value of the constants, under the named assumptions of the
modules (`ModelsAssumption`: finitely many models; `LimitsAssumption`: sizes
and limits are in the range of u64; `UnloadsAssumption`, `RequestsAssumption`,
`OccupantsAssumption`, `PeersAssumption`, `NoneAssumption`, `PortsAssumption`, `SecretsAssumption`,
`CallsAssumption` and `RecordsAssumption`: the value for "none" is nobody, calls
are not streams, clients are not daemons; `ForeignAssumption`: another program accepts a
secret or refuses it; `StreamsAssumption`: a stream is a
sequence of bytes; `BoundsAssumption`: a buffer has room for one event
at least; `AnswersAssumption`: batches are counted, and a vector of an answer has an index, a
length and a verdict on its finiteness; `VersionsAssumption`: a container is a
version of a file, and no version is the absence of one). The type invariant of
each module is a conjunct of its inductive invariant, and proved with it.

* `VerdictIsExact` (`RuntimeProofs`): a model is admitted exactly when the set it joins is
  within both limits. The saturating total and the checked sum change nothing
  about that. The argument is the cardinality of a disjoint union of bytes.
* `LedgerInvariant` (`RuntimeProofs`): the inductive invariant `LedgerInv`. `LimitsHeld` is not
  inductive alone: the limits are kept because a claim moves from `pending` to
  `resident` and never appears in neither while its load goes on. That a
  running model is accounted for needs `UnloadedIsGone` (the phase says
  `Unloaded` of dead workers only) and that an entry is released on that phase only,
  which needs the sole teardown, which needs that whoever tears down
  left the phase at `Unloading`. From it `LimitsAlwaysHold`,
  `RunningAlwaysAccounted`, `TeardownIsExclusive`, and
  `LedgerImplementsCapacity`, the refinement of `ResidentCapacity` step by step,
  and, with `NothingAhead` (a call has no outcome before it is answered),
  `LedgerKeepsTeardowns`, the refinement of `InstanceTeardown` for every model.
  `LedgerReliesOnBackends` is the refinement of `BackendProcess`; it needs
  `NoneBefore`, that a load that has not started a backend has no process.
* `LifecycleInvariant` (`InstanceLifecycleProofs`): the inductive invariant
  `LifecycleInv`. That nothing escapes an unload rests on `OwnerKnowsAll` (from
  the closing on, whatever is in flight was in the list), which rests on
  `LiveAreNameable` (until then, whatever is in flight is in the map) and on
  `LiveShrinks`. That replies stay true rests on handles only growing
  (`NextGrows`): terminal states and causes are kept. From it
  `NothingEscapesAnUnload`, `DrainedIsQuiet`, `RepliesRemainTrue`,
  `EveryRequestEndsOnce`. `LifecycleImplementsTeardown` is the refinement of
  `InstanceTeardown`; it needs `OutcomesFit`, that what an unload has found when it
  stops the worker is what it will answer.
  `LifecycleReliesOnWorker` shows that, from its serving stage on, the worker is used as
  a `BackendProcess` may be: it is stopped once, and nobody uses it afterwards.
  It needs `OneTakes`: one unload at most has taken the worker without having recorded
  how that ended, and while there is one the phase is `Unloading`, also after it was
  dropped.
* `SupervisionInvariant` (`BackendsProofs`): the inductive invariant
  `SupervisionInv`, proved for the worker that moves (`Supervised`) and, as a
  step touches one worker only (`StepTouchesOne`), for the others. That a stop
  is true needs `WaitsKnow`: past its waits `terminate` has either a refusal in
  hand or a process that is gone. From it `StoppedIsAlwaysGone`,
  `LivingAlwaysKept`, `OnlyTheDefiantOutlive` and `RefusalsAreReal`.
* `BackendsAreSupervised` (`BackendsProofs`): `Backends` refines
  `ProcessWorker`, so `SupervisionInvariant` carries over. `BackendsInvariant`
  adds that a start that has not launched has no process and no file, that
  one that has ended holds no handle, that no two channels have a secret in common
  (`SecretsDiffer`), that a worker has a port and a secret (`LaunchedHasChannel`), and that
  the run that tells the build is waited for or was left by a dropped start
  (`BannerIsAwaited`). From the two `ChannelIsAlwaysOwn`, `FileAlwaysServes` and
  `FailuresLeaveNothing`. The first is a matter of secrets and not of ports: who
  answers at the port and takes the secret was given it, and only the worker was.
  The proof does not depend on a port being free. `BackendsImplementProcess`
  is the refinement of `BackendProcess`, where a process that was killed counts as
  up until it has ended: a backend that moves is seen to make one step at most
  (`OwnBackend`), and of the others nothing is seen (`OtherBackends`).
* `StreamInvariant` (`StreamProofs`): the inductive invariant
  `StreamInv`, for any capacity of the buffer, number of texts and length of frames. That
  the consumer and the handle agree rests on `VerdictIsRecorded` (a task that
  announces an end has recorded that very end) and on the end being the last
  event of the buffer (`BufferShape`, `EndIsLast`). That a completion is whole rests on
  `TextsAccounted`: the texts sent are those read, those in the buffer, and the one
  in the task's hand, as long as the consumer has not left. From it `EndsAgree`,
  `CompletionIsWhole` and `NoRequestOutlivesItsTask`.
* `DecoderIsSound` (`StreamProofs`): the inductive invariant `DecoderInv`, for any
  streams, any chunks and any limit. `ChunksDoNotShow` alone says nothing of
  what the decoder holds; inductive is that there is a position, past which there
  is no line end, at which the buffer begins, and that what the decoder holds
  beside it, and what it has returned, is what the lines up to there mean
  (`Reads`). Three arguments carry it through a push. More bytes change nothing of
  what the bytes before mean (`ReadingStays`), which is why a carriage return is
  no line end until its next byte is known. A turn finds the next line end
  (`NextLine`) and moves the position there (`TurnReads`). And as many turns as
  there are bytes reach the last line end (`LinesReads`), since every turn before it
  moves the position by a byte at least. That a failed push leaves a beginning of the events is
  `ReadingGrows`. From it `EventsAreThoseOfTheBytes`, `TruncationIsSeen` and
  `HeldStaysBounded`; the last one needs that no turn makes the decoder hold more
  (`TurnShrinks`), as a data line gives up at least the byte that ends it.

  These are inductions over the positions of a sequence, stated without an
  operator as parameter: the positions at which the claim fails have no least
  one (`LeastNatural`, from the well-foundedness of the numbers), so a set that has 0
  and the successor of each of its members has them all (`BoundedInduction`); the
  same principle shows that the functions `Joined`, `Reading` and `Lines`, which are
  defined by recursion, have the values their equations say (`Iteration`,
  `StepByStep`).
* `ValidationIsExact` (`CapabilityEvidenceProofs`): `validate` accepts an embedding
  response exactly if there is one usable vector for each input. The code counts the
  vectors, checks the range of their indices and marks each as seen; that this
  leaves no input out is the pigeonhole principle, proved by cardinality.
* `EvidenceInvariant` (`CapabilityEvidenceProofs`): the inductive invariant
  `EvidenceInv`. `VerifiedWasPerformed` speaks of what was recorded; inductive is that
  whoever may record has performed (`CompletedPerformed` for a call,
  `StreamedPerformed` for a stream). From it `VerifiedIsAlwaysPerformed`,
  `AcceptedAlwaysAnswersEach` (with `ValidationIsExact`), and, by the order of
  strength of what is known and because a copy says no more than its instance
  (`CopiesAreTrue`, for a copy that is taken again), `EvidenceAlwaysStands`.
* `EndpointInvariant` (`DaemonEndpointProofs`): for any number of daemons and
  clients, the socket at the path is of a daemon that bound it
  (`SocketIsOfTheBound`), a connection is of a daemon that may answer it
  (`ConnectionHasDaemon`), while daemons start one at a time there is one that
  starts (`OneStarts`), and what a starting daemon has learnt of the path is
  still so (`StartKnows`). From it what the run `endpoint` checks of safety,
  `CleanStopsLeaveNothing`, and `SocketImplementsEndpoint`: every step taken
  while starts have not overlapped is one of `LocalEndpoint` or changes nothing
  there. `OneStarts` is what `Take` needs, `StartKnows` what the removal of a
  socket needs, and `ConnectionHasDaemon` what the answers need.
* `PipeInvariant` (`PipeEndpointProofs`): the inductive invariant `PipeInv`. One
  holder is kept because who serves has an instance (`HolderHasInstance`) and a
  first instance needs a free name. That no connection is lost
  (`ConnectionsAreKept`) needs `PeerIsConnected`, that an instance which waits has no
  peer. From it `NameHasOneHolder`, `ServingIsAlwaysFound`, and
  `PipeImplementsEndpoint`, the refinement of `LocalEndpoint` without a
  condition on the starts; it needs `InstanceHasDaemon`, that what an instance
  is found of is a daemon that has not gone.
* `RegistryInvariant` (`ArtifactRegistryProofs`): a record is whole and was made
  by its registration (`RowsHold`), no two have a path (`PathsApart`), and what a
  registration or a reader holds agrees with the table as far as it can
  (`RegistrationKnows`, `ReaderKnows`). From it `LoadsAreInspected`,
  `IdentifiersAgree`, `MetadataAlwaysFollows` and `RecordsAlwaysStand`.

Some properties have a theorem and no run of their own, because they are part of
an inductive invariant or follow from what a run checks: `RunningIsAccounted`,
`SoleTeardown`, `ReservationsAreLoadsInFlight` and `UnfinishedKeepsEntry` of
`Runtime`, `LiveAreNameable` of `InstanceLifecycle`, `KeptForAnotherAttempt` of
`ProcessWorker`, `NothingLeftBehind` of `DaemonEndpoint`, `OneHolder`,
`ConnectedIsHeld` and `ServingIsFound` of `PipeEndpoint` (which say in its own terms
what `PromiseKept` asks of it), `BackendsKept` of `Runtime` and of `Backends`, `WorkerKept` of `InstanceLifecycle`, and `RecordsStand` of `ArtifactRegistry`.

Only model-checked: everything that speaks of "eventually", as the provers have
neither liveness under fairness nor ENABLED. Every other property of a passing
run is a theorem.

A caution about the prover. The SMT encoding of tlapm 1.4.5 says that a value has
the length N exactly if its domain is 1..N, for values that are no sequences
too; as it also gives everything a length, an obligation that speaks of lengths and
of a function over another domain (over 0..N, say) could be proved from that
alone. The functions of `SseDecoder` are of this kind. All proofs of the
project have therefore been checked a second time with that axiom weakened to what is
true (a sequence has the domain 1..N for its length N), and hold.

## 5. Not modelled

The arm of `Reserved::fulfil` for an identifier that is already resident and
the arm of `unload_within` for a serving instance without a worker, which the
code marks unreachable; the death of the daemon itself, and what the
parent-death signal and the job object then do to its workers; the interval
between a process's start and its job, the draining of its output and
`flush_output`, which is bounded and changes no state; the readiness line of a
worker (`wait_ready`, `mark_ready`, `mark_failed`), as backends are probed over
HTTP; the bytes of a GGUF header, which are far more than TLC can enumerate; the
security descriptor of a pipe and the checks of its owner; the wrap of the 64-bit
reservation counter; poisoned locks, as nothing panics under one; parsing,
encoding and wording; pure judgements such as compatibility; the client, the wire
types, identifiers and tracing, which keep no state that another part depends on.
PROJECT.json lists every component with its status and reason.

## 6. What remains

What is planned of the modules above is written, checked and proved. Not begun:
the readiness line of a worker, which only tests and an example wait for, and the unary
`generate` with its errors, which a call of `InstanceLifecycle` has as one stage.
Of `GenerationStream`, texts are counted and not told apart; their order is that
of one first-in-first-out buffer with one writer and one reader.
