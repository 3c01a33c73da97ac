# Fram in TLA+

Fram keeps a database as an append-only history of signed propositions in a
binary log (the FRAMLOG) and serves it over a binary protocol (FRAMRPC). Its
contract is `docs/guarantees.md`; the identifiers D1–D6, A1–A2, I1–I4, R1–R4
below are the ones used there. This directory holds TLA+ models of the parts of
Fram where that contract is decided, the TLC runs that check them on small
instances, and TLAPS proofs of the properties that carry most weight.

Paths in this file are relative to the root of the repository. `PROJECT.json`
maps every definition to the lines it models, every property to a mutant that
breaks it, and lists the hazards the properties are aimed at.

    cd tla
    tlc -workers 2 -config MCNativeServer.cfg MCNativeServer    # a run
    tlapm TermStoreProofs.tla                                   # the proofs

## The system

**Term store** (`src/fram/store.bgl`, `types.bgl`). State: rows of transactions
and operations, the next sequence, and what is derived from them: the live
positions of every proposition and the withdrawal target of every retraction,
held in buckets or, while a fold is open, in cells. Operations: commit a
transaction, replay one with its recorded sequence, open and close a fold, dump,
load. Correct when liveness is what the history says, in either representation.

**Commit sequencer**, the JVM route (`server.clj`, `database.clj`). State: the
log file and how much of it is forced, the live and the published root, a queue
of tickets, the cohort in progress, the fence. Workers enqueue; one thread runs
a cohort on a private root, appends its frames, forces once, publishes, answers.
Hard: cancellation and interruption between any two steps, failing writes and
barriers, shutdown against late tickets, crash inside an append and the repair
at the next boot.

**Native server**, the deployed route (`native/server_host.c`,
`native/server_generated.c`, `src/fram/native_server.bgl`,
`src/fram/snapshot_codec.bgl`). An acceptor thread admits connections up to a
cap and starts a detached worker for each; a mutex serialises dispatch; a
dispatch may compact, appends and syncs one frame, replaces the current
generation, or writes a checkpoint image that a later boot installs. Hard: a
failure after part of a frame is written, the order of sync, swap and answer,
image against log after a crash, the drain against blocked workers.

**Leases and fencing** (`src/fram/native_lease_ops.bgl`, `server.clj`,
`database.clj`, `src/commit_plan.bgl`). A lease is a proposition in the history;
its epoch is the sequence of its transaction and fences later writes. Hard:
chains of renewals, releases and takeovers that leave superseded occurrences in
the store, clocks that step, cohorts that are lost after they were built.

**Mutation planning** (`src/fram/native_dispatch.bgl`, `schema.bgl`): a batch
predicts withdrawals and its response before it commits (A2).

**Forks and branches** (`database.clj`, `src/fram/branch.bclj`), **log rotation**
(`rotations.clj`, `src/fram/rotation.bgl`, `log_codec.bgl`), **writer authority**
(`writer_authority.clj`, the flock of `server_host.c`): which files make up a
history, and which process may write them.

**Queries** (`src/fram/query.bgl`, `datalog.bgl`, `native_query_ops.bgl`,
`src/pull.bclj`), **text search** (`text_search.bgl`, `text_index.bgl`), **result
cache** (`server.clj`, `schema.bgl`): reads of immutable snapshots, paged, with
cached results.

**Cloudflare Durable Object adapter** (`clients/cloudflare-do/src/adapter.mjs`).
One object keeps the log and a snapshot image as chunked key ranges and runs the
engine as a WebAssembly guest over copies of them in isolate memory. State: the
two ranges, the marker of a pending restore, the live guest and a boot in
progress, a queue of operations, a gate per guest. Operations: query, transact,
checkpoint, export, restore, recycle. Hard: what a commit rewrites when the chunk
size changes, a guest that is ahead of storage after a rejected transaction,
callers that kept a guest across a restore, losing the isolate between the
publication of a restore and the removal of its marker.

**Bun client** (`clients/bun/`). `framrpc-core.mjs` builds, sends and decodes one
call; `framrpc.mjs` is its socket; `schema.mjs` keeps identities unique and
replaces fields by compare-and-set, with retries; `backup.mjs` copies a log that
a server keeps appending to. Hard: answers in pieces, late, for another request;
guards read at one version and values at another; outcomes that are unknown;
power loss between a rename and its sync.

**Worker client and HTTP shim** (`deploy/cloudflare/worker-client.js`,
`shim.clj`): the same calls as JSON through a gateway with two paths, each with
the operations it allows.

**Embedding hosts** (`native/fram_embed.c`, `fram_wasm_host.c`): the storage hooks
the object above is called through.

**Graph edits** (`src/fram/authority.bclj`, `projection_lifecycle.clj`,
`code_commit_gate.clj`, `candidate_transformer.clj`): a candidate change of a
program stored as facts is gated, committed and projected to files.

How they interact: clients send frames to a server; the server checks version
and fence against a store, appends to the log, and publishes; hosts replace the
file by storage hooks; forks and rotation decide what a boot replays; the graph
pipeline and the tools are clients of the server.

## Modules

| module | models | extends or instantiates |
|---|---|---|
| `TermStore` | one store: history and derived liveness | |
| `TermStoreProofs` | its theorems | `TermStore` |
| `AtomicHistory` | abstract promise of a write path: one growing history and one verdict per request | |
| `CommitSequencer` | the JVM write path | refines `AtomicHistory` |
| `NativeServer` | the deployed server | refines `AtomicHistory` |
| `LeaseConstants` | the constants both lease modules share, with their assumptions | |
| `Lease` | abstract table of leases, grants, fenced writes, checks | `LeaseConstants` |
| `LeaseProofs` | its theorems | `Lease` |
| `LeaseHistory` | leases as occurrences, on either route | `LeaseConstants`, refines `Lease` |
| `ChunkedRange` | one stored range and the copy a guest writes to | |
| `DurableObject` | the object: guests, operations, restores | `ChunkedRange` |
| `DurableObjectProofs` | theorems of both | `DurableObject` |
| `SchemaPlan` | checks of a schema command and the batch it plans | |
| `SchemaClient` | concurrent schema clients of one database | `SchemaPlan` |
| `SchemaClientProofs` | its theorems | `SchemaClient` |
| `Backup` | creating and accepting backups of a live log | |
| `BackupProofs` | its theorems | `Backup` |
| `WireTerm` | the Term codec of the JavaScript client | |
| `RpcClient` | one call over each route, against each engine | `WireTerm` |
| `MC*` | instances for TLC | |

### TermStore

`operations` and `transactions` are the row vectors, `withdrawalTargets`,
`buckets`, `cells` and `foldOpen` the derived state. Positions count from 1, so
the code's −1 for no target is 0. The two loops of the code (append, rebuild)
take one step per iteration, so what they pass through is checked too;
a store has one owner meanwhile. A commit at the largest sequence fails after
its rows are in, as in the code (`mode = "failed"`). Interning is abstracted:
equal propositions have equal handles.

### AtomicHistory

What both write paths promise: a history that only grows while a process is up,
may lose at a restart only what no client was told, and for each request a
verdict: acknowledged (and in the history for good), rejected (and never in it),
or unknown (A1, D1, D4).

### CommitSequencer

One action per step of a worker (`Enqueue`, waiting, answering), of the
sequencer loop (taking a first ticket, draining into a cohort within frame and
byte limits, running each mutation on the scratch root, writing frame by frame,
forcing, publishing, delivering), of shutdown, and of the next boot with its
repair. A frame keeps its sequence and whether it was deflated; bytes are
abstracted to whole frames and a kind of tail. Failures are nondeterministic and
bounded. The join of `stop-commit-sequencer!` is taken to succeed: an expired
join is a matter of two processes and belongs to WriterAuthority.

### NativeServer

`proc` is the process, `log`, `tail`, `synced` and `dirty` the log file, `image`
and `imageDisk` the checkpoint as read and as a power failure would leave it;
`current`, `mark`, `chain`, `base`, `poisoned` are `fram_server_store`;
`mutex`, `clients`, `clientCount`, `fatal`, `stop`, `armed`, `quiet` the server
context and the acceptor. A connection carries one request. The dispatch is
split where another thread, a failure or a crash can tell the difference:
compaction, decision, append, sync with generation swap, image truncation, image
write, image sync, encode.

Assumed: the header of the log is on disk; a successful fsync makes all written
bytes durable (a kernel that drops pages on a failed fsync is not modelled);
client timeouts are on (the default, 15 s); one process (the writer lock is
WriterAuthority's); a peer names a version that was served when it connected.
Resource failures are nondeterministic. `silent` covers a peer that has sent
nothing or part of a request. The image's integrity checks are `state`: an image
is whole or it is refused.

### Lease and LeaseHistory

`Lease` keeps per resource the current grant and the newest epoch, the line of
tables a power failure can still return to (the first is on the disk, the one at
`shown` is published, those after it belong to a cohort in progress), the grants
clients hold, and a check that was read earlier and is answered later. A cohort is
forced before it is published, but what a killed process had only written, the next
boot of the JVM route publishes without a barrier (`database.clj:489-500`,
`server.clj:299-304`): `Lose` and `LoseCohort` move `shown` onto it, and `PowerLoss`
takes a published table back. So a check refutes a lease for good only when the
table it read was forced; the other two promises and the refinement hold as they
stand. The native boot syncs first.
`LeaseHistory` keeps the occurrences themselves: the JVM route supersedes by an
assertion, the native route retracts and asserts in one transaction, which is the
variable `route`, chosen once; so is `backwards`, whether the clock may be set back.
The promises of the table are checked on the occurrences, through the refinement
mapping (`Promised`). Assumed: ordinary writes leave the lease and supersession
vocabulary alone (nothing in the code reserves it; listed as a hazard), one route
serves a log, a client relies on a grant from its delivery until it offers it for
renewal or release.

### ChunkedRange and DurableObject

`ChunkedRange` has the storage format as operators: a range is its published
length, chunk size and chunks; `Plan` is what a commit from a low-water mark
writes and deletes, `LoadBytes` what `load()` reads. A byte is any value: in a log
one transaction, in an image the log it was taken of, so that an image byte tells
whether it belongs above the log in storage.

In `DurableObject` `log`, `image` and `marker` are the storage, `live`, `booting`
and `fence` the fields of the object, `inst` the guests of the isolate with their
host images and gates, `op` the operation at the head of the queue, `hold` the
callers that kept a guest. A step ends where the code awaits: `Use`, `UseBooted`,
`RunCall`, `CommitCall` for a call; `BootMarker`, `BootLoad`, `CommitOpen` for a
boot; seven steps for `restoreFramlog`. `Crash` is the loss of the isolate, after
which the chunk size may be another. The guest is external: a write appends a
byte, a checkpoint truncates the image and writes one.

A guest that is poisoned or closed refuses every call, so its bytes are forgotten.
A guest nobody refers to is garbage and frees its slot. `recycle()` is queued and
`fram()` is not, so a recycling may drop a boot that a caller awaits (finding 3).
`crossed` records that this happened; the safety properties speak of the behaviour
until then, with every other meeting of recyclings and kept guests in it.

### SchemaPlan and SchemaClient

A database maps a subject, predicate and value to how often that proposition is
live, so duplicates another program left are states. `SchemaPlan` has the
rejections that need no request, the guards at a snapshot, and the batch;
`SchemaClient` runs commands of several clients: read a version, guards at that
version, a scan at whatever version is served, one batch with the version as
expected. The server is external and keeps every version. The pages of a read are
one step, since a continuation stays on the version of its first page. Other
programs write duplicates of fields; identities are written through the client,
on which the identity half of `CommitsMeetContract` rests.

### Backup

Two servers of one SpaceId, creators that are each a process, and an output
directory whose entries and contents reach the disk when they are synced; a power
loss keeps any of the others and may undo a rename. `MatchesReceipt` is the
comparison of receipt and sidecar, `Accepts` is `verifyBackup`. Checkpoints are
told apart by a stamp, which stands for the digests of the image. A byte of a log
carries the power losses before it, so that what a server lost and wrote again is
never taken for what was copied. The log file is
not replaced at its path meanwhile, and the artifact receipt is constant.

### WireTerm and RpcClient

`WireTerm` builds and reads Terms in their prefix code, with the depth and node
budgets; a unit is a tag with its payload. A float is its bits: the client writes
only the canonical NaN and reads no other, the native codec writes what it has, and
a sum over both infinities leaves the NaN of the machine, which the client cannot
read (a disagreement named below). `RpcClient` takes a call from the application to
the engine and back over a socket, Durable Object RPC or the shim.
A request is built and checked as the client does, dispatched whole by a server of
either kind or an object, and its answer decoded from pieces. `meant` records what
the engine did for a call. Query plans, paging and the record decoders beyond
their shape are left out; a stopped native server is not started again; the JSON
route has neither timer nor abort. `tripleQuery` of the Worker client builds a
plan every server refuses (see below), and so it does here.

## Runs

| run | instance | shows |
|---|---|---|
| `term_store` | 2 propositions, 4 operations | liveness, withdrawals and the fold a reload gives, for every history of that length |
| `commit_path` | 3 mutations, cohort of 2 frames and 2 bytes, 1 cancellation, 1 failure | answers against the published root, refusals, expected version, fence |
| `crash_recovery` | 2 mutations, 3 boots, fair | D1, D2, D5, the refinement of `AtomicHistory`, every request answered, every shutdown ends |
| `deflate_repair` | deflate generation | violated: finding 1 |
| `lease_history` | either route, 1 resource, 2 clients, 3 transactions in cohorts of 2, clock set back or not, power failures | one effective lease, the granted one, releases that succeed, the promises of the lease table, refinement of `Lease` |
| `native_server` | 2 connections, 1 crash, power failure or failing call, fair | lost updates, store against log, image (D1, R3), answers against power failures, poison fence (D4, I2, R1), refinement of `AtomicHistory`, drain, release of slots, idle compaction |
| `durable_object` | 1 queued writer, 1 kept guest, 2 guests, chunk sizes 1 and 2, 2 events of checkpoint, restore, recycle, crash and fault, fair | operations settle; storage reads back, durable answers (D6), restore marker, one guest, expected replacement, until a recycling meets a direct boot |
| `two_guests` | the same, not fair | violated: finding 3 |
| `schema_client` | 3 clients, 11 commands, 2 identities, batches of 3, 1 retry, 1 disturbance | commits are serial under their guards and do what was asked, identities are unique, outcomes are true |
| `backup` | 2 creators, 2 outputs, 2 servers of 2 transactions, 1 power loss | a committed backup is exact and kept |
| `rpc_client` | 2 calls, 9 requests, 3 engines and 3 routes, Terms 11 deep, 1 fault | outcomes are true, answers can be read but for a NaN of other bits |
| `deep_query` | native server, no fault | violated: finding 2 |

Why the bounds are enough. A withdrawal error needs two equal live assertions and
a retraction, then one more operation to show it: four operations. Ticket and
cohort errors need a full cohort and one ticket beyond it: three requests and
cohorts of two. A repair error needs a crash, a boot, a commit and another boot:
three boots. An image error needs a write, a checkpoint and a reboot, or a crash,
a boot and a checkpoint: two connections and one fault, since the invariants speak
of what a power failure could take and need not wait for it. A lease error needs a
grant, a renewal or takeover and a release: three transactions; for a power
failure to revive a lease that was seen released, the grant is forced, the release
written, published by a restart, checked, and lost. A stale chunk needs a range of
two chunks that shrinks or changes its chunk size: images of one and three bytes,
chunk sizes one and two. An error of the object needs an event that replaces a
range or a guest and a second that fails, drops or restarts it, with writes
before, between and after: two events, writes not counted. The five theorems about
the object hold for any number, and its safety properties were also checked with
three. A schema error needs a reader, a writer between its reads, and a batch that
was lost or retried: three clients, one retry. A framing error needs two calls
that can be confused, request ids that wrap and one spoiled answer. The depths of
`rpc_client` keep the proportions of the real limits: the largest batch is the
deepest receipt that fits, one fact fits every answer exactly, one fits a write
and no read. A version that a read names decides only the read's own answer, so
the reads of the native instances name none. Symmetry is used over propositions,
connections, holders and resources, never in runs with liveness properties.
Deadlock checking is off where a model really may stop (all requests spent, bounds
reached). The type invariants are not among the runs' properties: those of
TermStore and Lease are proved, those of CommitSequencer, LeaseHistory,
NativeServer and RpcClient state what the variables hold and can be added to any
configuration.

Fairness. CommitSequencer: weak fairness of the sequencer thread, of every worker
and of the thread that shuts down; the JVM schedules its threads, and queue and
promise waits are on by design once enabled. NativeServer: weak fairness of the
acceptor and of each worker; reads and writes are bounded by socket timeouts or by
the `shutdown(2)` of the drain. Weak fairness of a worker that waits for the
dispatch mutex says only that a mutex that stays free is given to somebody;
the properties do not need more, since each connection dispatches once. Nothing
forces a boot, a peer, a signal, an accept error or a fault. DurableObject: weak
fairness of each guest's steps and of the operation at the head of the queue; an
event loop runs every continuation whose promise is settled, and storage and guest
calls return or throw. Callers, administrators and the loss of the isolate are not
fair. SchemaClient, Backup and RpcClient are checked for safety: their waits end
by a timer or an abort that the model allows at any time.

## Findings

1. `deflate_repair`: in `database.clj:305-311` the branch for a torn transaction
   frame drops the deflate flag the header gave; after a repair the next cohort is
   written raw under a deflate header and acknowledged, and the next open refuses
   the log. `docs/guarantees.md:35` promises the longest committed prefix.
2. `deep_query`: the bound on an unpaged query answer (`native_query_ops.bgl:1177`)
   counts rows and not their depth, so a fact that fits a write may fit no answer.
   The comment above it says the bound is there "instead of letting the encoder
   fail on the way out", and `docs/guarantees.md:143` says that native query pages
   stay within the depth budget. On the native server the encoding failure is fatal
   (`native_server.bgl:296`, `server_generated.c:1216`, `server_host.c:1012`) and
   the process stops; an unpaged scan has the same gap. The JVM route answers an
   error instead (`server.clj:2108`), the object fails the exchange.
3. `two_guests`: `adapter.mjs:1564` says `fram()` gives "the open instance, booting it
   at most once however many requests race", and `clients/cloudflare-do/README.md:186`
   "One boot per object". `recycle()` is serialised with the operations but clears
   `booting` (`adapter.mjs:2062-2072`) while a direct `fram()` may be booting, as the
   workers of the repository let it (`capacity/worker.mjs:59,68`,
   `test/worker/worker.mjs:118,247`). The next request boots a second guest over the
   same storage. Each then plans its commits from a handle and an image the other
   makes stale, so that the safety properties of `durable_object` fail too when they
   are asked without `crossed`: an acknowledged write is overwritten, a range reads
   back as a mixture, a guest writes in front of a pending restore, a log is
   replaced that no administrator named.

### Disagreements without a run

- `append-and-replay!` (`database.clj:1058`) defers a frame before its replay may
  refuse it, at the largest sequence of the format: the earlier mutations of the
  cohort are acknowledged while the published root does not hold them
  (`docs/guarantees.md:61`).
- `tripleQuery` of `worker-client.js:164-183` builds a plan of two fields, the
  servers require four (`native_query_ops.bgl:814`, `server.clj:697`);
  `tests/cloudflare_worker_client_test.mjs:98` pins two.
- `README.md:36` and `docs/ontology.md:28` say that "the wire canonicalizes NaN
  bits". The JVM codec does (`framrpc.bclj:181`), the native one writes and reads raw
  bits (`native_wire_codec.bgl:312`, `379`). A query that sums both infinities answers
  with the NaN of the machine (`fff8000000000000` on x86-64), and the client throws
  `client/invalid-float` on these bits (`framrpc-core.mjs:150`, called from `541`
  before the canonicalization there). The case is among the calls of `rpc_client`:
  `AnswersReadable` allows this error over such an answer, and no other.
- The shim answers a failed upstream exchange as retryable also for mutations whose
  outcome is unknown; `clients/bun/README.md:53` calls such outcomes ambiguous.

## Proofs

`TermStoreProofs` (1282 obligations) proves for every set of propositions, every
largest sequence and every length of history: `TypeOK`, `LivenessIsDerived`,
`WithdrawsNewestLive`, `WithdrawnAtMostOnce`, `CoordinatesOrdered`,
`DumpAlwaysLoads` (a store at rest passes the validation of its own dump). The
inductive invariant adds to these how far the derived state has come in each mode
(`Frame`: a rebuild has folded a prefix, an append is one operation behind), that
coordinates are within the rows of their transaction (`Coordinates`) and that
transactions tile the operations (`Tiling`). Liveness alone is not inductive: a
retraction needs to know that live positions are sorted, so that the last is the
newest, and during an append that the rows already pushed are the ones still to be
folded.

`LeaseProofs` (756 obligations) proves for every set of resources and clients, any
cohort size, any clock and any number of failures: types, `TableInvariant`,
`FencedWritesHoldNewestLease`, `RefutedStaysRefuted`, and `ExclusiveReliance` when
the clock is never set back. `TableInvariant` says that every table is well formed
and none is earlier than the one on the disk, that epochs never come back, that what
clients hold is on the disk, and that a pending check of a forced table holds one
no other is earlier than. A promise about the published table is not inductive: a
power failure puts any table that was not forced in its place.

`DurableObjectProofs` (4897 obligations) proves first of the storage format of the
Durable Object, for every chunk size, length and content: appends and truncations
keep the low-water mark honest (`LowWaterHonest`), a commit from that mark reads
back as the committed bytes whatever chunk size is configured (`CommitReadsBack`),
and so does a restore over anything (`RestoreReadsBack`). The argument goes by
chunk: one below the mark's holds only bytes that did not change and is neither
rewritten nor dropped, any other is a slice of the new bytes, and what is dropped
lies past the new end. Then it proves of the object, for every set of callers, any
chunk sizes, image lengths and supplied logs, any number of guests, restores,
recyclings, crashes and faults: `StoreReadsBack`, `AnsweredIsDurable`,
`PendingRestoreFences`, `OneLiveImageUnlessCrossed` and `ReplaceOnlyExpected`. All
five end where a recycling meets the boot of a direct caller: a second guest over
the same storage plans its commits from a handle and an image that no longer fit.
Up to there recyclings, kept guests and fences mix freely. None of the five is
inductive. That a commit leaves what it meant to needs a guest that knows both
ranges as they are stored and holds nothing but what was written on top (`Fits`);
that it stays so while others run needs that at most one guest can write, the
`Keeper`: the object's, else the one that boots, else the one an operation closes
or a restore verifies (`Guests`). That there is one keeper rests on who refers to
guests (`References`, `Holders`, `Gates`, `Operation`): a caller in a gate is
calling that guest, a recycled guest that a caller still keeps is closed before
the next operation, and a boot in progress is always awaited by somebody
(`Awaited`). A restore replaces the log it compared because behind its fence no
guest is left that could commit in between.

`CommitSequencerProofs` (2494 obligations) proves for every set of requests, any
cohort limits and any number of failures and restarts: `TypeOK`,
`AckedIsPublished`, `RefusedNeverCommits`, `OptimisticSound`, `RootMatchesFile`,
`TornTailNeverBuried`, `FencedUntilRestart`, and that the sequencer implements
`AtomicHistory`. None of them is inductive alone: that a refused request never
reaches the log depends on where its ticket can be, in a queue, a cohort, a
deferred frame or a result. The invariant therefore has one conjunct per kind of
fact: `Fences` (the flags of an open and of a stopping sequencer), `Roots` (each
scratch root is the one before it plus one request), `Planned` (frames are the
roots still to be written), `Places` (a request is in one place, with the verdict
that place allows), `Waits` (who waits for which ticket), `File` (the log is the
published root, plus the frames written since, plus at most a torn one), `Results`
and `Told` (what workers and clients have heard). In the refinement the history is
the longest log a restart could find, so that a frame joins it when it is written,
not when it is acknowledged, and the verdict on a request is what its worker holds.

`NativeServerProofs` (1499 obligations) proves the same of the native route, for
every set of clients, any resource limit and any number of power failures:
`TypeOK`, `StoreIsLog`, `ImageIsDurablePrefix`, `ShownIsDurable`, `NoLostUpdate`,
`PoisonFences` and the implementation of `AtomicHistory`. The invariant says which
lock states let a thread be inside the store (`Threads`), how store, chain and log
differ in each of its phases (`Store`), how much of log and image a power failure
keeps (`Disk`), that a client's write is in the log at most once (`Once`), that an
answer matches it (`Answers`), and that no answer is of a version beyond the
synced log (`Shown`, which `AtomicHistory` does not promise: it lets go what was
only shown). `NoLostUpdate` needs `Once`: a version that is current when it is
compared stays so only because the thread that compared it holds the mutex until
its frame is in the chain.

`LeaseHistoryProofs` (1935 obligations) proves for every set of resources, holders
and times to live, any cohort size, any clock, any failures and both routes:
`TypeOK`, `OneEffectiveLease`, `MatchingReleaseSucceeds`, and that either way of
writing leases down implements `Lease`, step by step. One effective lease is not
inductive: the next acquire hides the current lease by its epoch, so epochs must
be distinct and past (`RootSound`), supersessions must name only occurrences
already made, or the new lease would be born hidden, and the live lease must be
newer than the superseded ones of its resource, which stay in the history for
good, or a retraction of an equal proposition would take the wrong one. The
promises proved of `Lease` hold of its implementations by substituting the
refinement mapping in `LeaseProofs`; the prover cannot cite a theorem through an
instance, so that last step is left to the reader (and to TLC in `lease_history`).

`SchemaClientProofs` (1237 obligations) proves for every set of clients, every set of
commands of the four kinds, any database, any batches of other programs and any
number of retries: `CommitsAreSerial` and `OutcomesTruthful`. Databases and plans
are never expanded; what is used of them is `GuardsHold`, that a command which
passes the checks has its guards true of that version. The invariant says where a
client's one batch can be (`OneBatch`: on its way, refused, or applied once, with
the reply that goes with it; `LostBatch` after the client gave up), that it carries
the plan of one version at which the checks passed (`HasRead`), and that each version
a client wrote is such a plan applied to the version before (`Serial`). That the
plans do what was asked (`CommitsMeetContract`) is induction over batches and stays
with TLC.

`BackupProofs` (2500 obligations) proves `CommittedIsExact` and `ReportedIsKept` for
every set of creators and outputs, logs of any length and any number of power
losses. Neither is inductive. That a copy is exact rests on the source: the image
beside the supplied log is always of a checkpoint which that log keeps
(`Checkpoints`, `KeptBySource`), because a checkpoint is taken under the lock that
makes the log durable (`Locks`), and the comparison with the receipt hands this on
to the creator (`Copies`). That it survives rests on the order of the syncs:
`Stage` says of every point of `createBackup` which files are there, whole and
synced, and which entries are; one creator owns an output (`OneOwner`, from `mkdir`);
and a directory that shows its manifest has nothing but the entry of the manifest
left to lose (`Directory`), whoever died or failed before.

Assumptions are those named in the modules (`StoreAssumption`, the lease
constants, that only a transaction has several records, that subjects are finite,
that a ticket's marks are not requests, that `None` is not a grant, a check or a
ticket, that the two marks of a gate are not holders and that a supplied log is a
sequence); TLC evaluates them in every run.

Each invariant was checked by TLC as an invariant of a run of its module before it
was proved, with larger bounds than the runs listed above where that was feasible
(3.4 million states for the sequencer); those of the leases and of the Durable Object
with the bounds of their runs, the Durable Object also with three events.

Only model-checked: the liveness properties (`EveryRequestAnswered`,
`ShutdownCompletes`, `Drains`, `SlotsReturn`, `QuietServerCompacts`,
`OperationsSettle`; the prover has no fairness), the properties the code violates,
`CommitsMeetContract` and the invariants of `RpcClient`. `WireTerm` is recursive
over data, so nothing of it or of `RpcClient`, which is built on it, is proved. Of
a Durable Object after a recycling met a direct boot only `OperationsSettle` is
checked.

## Plan

1. `MutationPlan`: withdrawals a batch predicts against those `TermStore` performs,
   receipts (A2), cardinality-one replacement.
2. `WriterAuthority`: two lock kinds on one log, hand-over between processes, the
   expired join of a stopping sequencer. Composes two write paths.
3. `ForkStore` and `LogChain`: fork markers, chained bases, rotation, a boot that
   replays them.
4. `ResultCache` and `ConnectionAdmission` of the JVM route; the ordered-result
   cache of the native one.
5. `GraphEdit`: gate, commit, projection, roll-back.
6. Algorithms for TLC: semi-naive against naive evaluation, the text index against
   a scan, claim classification against its table.

## Not modelled

Byte layouts of frames, terms and images (golden files in `tests/` cover them);
code resolution and rendering (`src/resolve_*.bclj`, `src/fri*.bclj`), sequential
transformations of source text; the code graph tool, the command line, build and
packaging scripts; generated code in `out/`; of the clients, the memory layout and
the imports of the WebAssembly guest, the capacity harness of the Durable Object
and its wiring to the platform, the JSON spelling of Terms, the contents of query
plans, page loops and the backup command line. Observed while reading, and left to
the plan: the result cache of `server.clj` drops entries outside its lock; a log
whose very first header write was cut short is refused by every later boot; hard
`accept` errors such as a full descriptor table stop the native server.
