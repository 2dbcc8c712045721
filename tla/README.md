# Verification of pdomain-ops

TLA+ models of `pdomain_ops`, the operations library shared by the applications of the pdomain suite, with
TLC runs on small instances and theorems checked by TLAPS. Paths below are relative to the repository
(`gpu/...` is `pdomain_ops/gpu/...`).

## 1. The system

An *app* is one process with one asyncio event loop (coroutines switch only where they await), a default
executor whose threads do the blocking work, and subprocesses. Several apps run at once on one machine and
share files: a job database, preferences, a registry, lock files. There is no server between them.

| component | state it keeps | operations | interacts through |
|---|---|---|---|
| Long-job runner (`gpu/local_jobs.py`, `gpu/events.py`) | `jobs.db` (tables `jobs`, `job_events`), `_processes` | `submit`, `submit_with_process`, `status`, `cancel`, `stream_events`, the `_supervise` task | `jobs.db` under a lock file; stdout, stderr and signals of a subprocess |
| Batched OCR (`gpu/doctr_batch.py`, `gpu/local_stage.py`, `gpu/default_stages.py`) | `_predictor_cache` | `run_ocr_batch`, `run_doctr_batch`, the `ocr` stage | the cache, without a lock; device memory |
| Device selection (`gpu/device.py`, `gpu/device_probe.py`, `suite/device_prefs.py`) | none | `pick_device`, `resolve_effective_device`, `pick_doctr_batch_sizes`, ... | probes, environment, preferences |
| Stage dispatch and remote backends (`gpu/local_stage.py`, `gpu/modal_*.py`, `gpu/shared_container_dispatcher.py`) | table of stages | `register`, `run_stage` | calls |
| Blob store (`blob_store.py`) | one file per content hash | `write`, `read`, `prune_orphans` | a directory |
| Page aggregates (`page_aggregate.py`) | events, snapshots | commands, `save`, replay | the event store |
| Page records (`pages/`) | records, provenance graph | `add_node`, summaries | in memory |
| Page stores (`page_server.py`) | none of their own | load and save of projects and pages, routing of a project to a shard | adapters over the event store and the blob store |
| Preferences and device routes (`suite/prefs.py`, `suite/device_*.py`) | `prefs.json` | `write_common`, `write_app`, `put_device` | a file and its lock |
| Registry and ports (`suite/registry.py`, `register_self.py`, `bootstrap.py`, `ports.py`) | `installed.toml`, TCP ports | `register`, `allocate` | a file and its lock |
| Shared paths (`suite/shared_paths.py`) | `shared-paths.json` | read, atomic write | a file |
| Single-instance lock (`suite/single_instance.py`) | a file naming pid and port | `acquire`, `read_live` | the file and its lock |
| Desktop shell (`desktop.py`) | server thread, window, quit event | `run_windowed`, `restart` | threads, the lock, a port |
| Sibling launcher (`suite/sibling_spawn.py`, `suite/routes.py`) | none | `launch` | ports, health checks |
| Self-update (`suite/update.py`, `suite/update_routes.py`) | rollback file | `apply_upgrade`, `check_latest` | the installer, the package index |
| Shortcuts, support types, scripts | files | sequential | none |

What is hard in it, and so what the properties are for:

* *several writers of one row*: the supervisor, `cancel()` here and `cancel()` in another app all write the
  same row of `jobs`, each from what it read earlier;
* *two reads that should be one*: `stream_events` reads events and state separately;
* *pipes*: stdout is drained as it comes, stderr only after the exit;
* *crashes*: nothing is recovered when an app starts again, while workers live on;
* *check, then act* with no lock: the predictor cache, the single-instance lock, ports, siblings;
* *stale answers*: batch sizes picked from a probe, a state read before an await;
* *retries* on out-of-memory errors;
* *files written in place* and read by others, or read after a crash.

`PROJECT.json` lists each at its line, with the property that would notice it going wrong.

What makes each component correct: a job ends once, its row never contradicts itself, its streams deliver
everything in order and end (runner); retries are bounded, pages match images, the cache is effective and
its key is honest (OCR); a blob that is referenced can be read (blobs); replay gives what was saved
(aggregates); no setting is lost (preferences, registry, paths); at most one instance (lock); the shell does
not outlive its server (desktop); a launch yields one healthy sibling (launcher); a failed upgrade can be
undone (update).

## 2. Plan

Order: what carries the program's own logic and its concurrency first.

| # | modules | what | status |
|---|---|---|---|
| 1 | `EventFeed`, `LocalJobs`, `MCLocalJobs`; `LocalJobs_proofs`, `EventFeed_proofs`, `LocalJobsFeed_proofs` | the job runner, and the feed it implements | checked and proved, with the refinement |
| 2 | `OcrBatch`, `MCOcrBatch`, `OcrBatch_proofs` | the predictor cache and the out-of-memory backoff | checked and proved |
| 3 | `BlobStore`, `MCBlobStore`, `BlobStore_proofs` | the blob store with several writers and pruners, and calls that die | checked and proved |
| 4 | `SuiteFile`, `MCSuiteFile`, `SuiteFile_proofs` | preferences, registry and shared paths: the locked read-modify-write they have in common, in place or atomic | checked and proved |
| 5 | `PageStore`, `MCPageStore`, `PageStore_proofs` | event-sourced pages and projects: commands, optimistic versions, snapshots, replay, the provenance graph | checked and proved |
| 6 | `Shells`, `Upgrade`, `Apps`, `MCApps`, `Apps_proofs` | processes with pidfile, ports, server, window and tray; launches of siblings; upgrades. `Apps` composes the other two with the launches | checked and proved |
| 7 | `Devices` | device choice and stage look-up as pure operators; `OcrBatch` starts its calls with what they give | checked with 2 |

Theorems still worth proving: an abstract versioned object that `PageStore` implements, with how fresh a load is (it
needs the version that was stored when the load began as history). Parameters are constants with named assumptions,
each operation is one action, and no module uses a RECURSIVE operator.

## 3. The job runner: `LocalJobs`, `EventFeed`

`row` and `log` are the two tables of `jobs.db`; `procs[r]` is `self._processes` of app `r`; `sup[j]` is
where `submit_with_process` and then `_supervise` stand for job `j`; `call` and `stream` are the coroutines
of `cancel()` and the iterators of `stream_events()`; `worker`, `out`, `read`, `err` and `sigterm` are the
subprocess, its two pipes and the signal.

A step is one database statement, one handover between loop and thread, or one thing the worker does. A
stretch of coroutine without an await keeps the loop (`LoopFree`), and the poll of a stream, two SELECTs
under one lock file, keeps every other access out (`DbFree`). A line is its class: `blank`, `event`, `log`
(not JSON: published as a log event), `malformed` (rejected with ValueError) and `choking`: one that makes the
parser raise something else, a TypeError for a kind that cannot be hashed (`gpu/events.py:54`) or a RecursionError
for JSON nested too deeply (`gpu/events.py:46`). An event is the number of its line; its seq is its position in the log.
A crash loses the memory of an app and frees the lock file; a restart recovers nothing.

`EventFeed` says what clients are promised, without database, lock, poll or process: every reader receives
a prefix of what was published, in order; a sealed feed grows no more; a reader ends with all of a sealed
feed, unless the feed was disrupted (cancelled, its app gone, its drain broken). `ImplementsFeed` maps
`feed <- log`, `sealed <-` the jobs whose supervision is over.

Bounds: lines and stderr of a worker (`MaxLines`, `MaxStderr`), guards of `WorkerPrint` and `WorkerStderr`.

| run | instance | what it shows |
|---|---|---|
| `local_jobs` | one job, two apps of which one may crash, two calls of `cancel()`, one stream, two lines of three classes, a stderr pipe that blocks at once | completeness of succeeded jobs and ended streams, that `cancel()` leaves no worker, the process map (`ProcessMapExact`: also that only a crash or a broken drain leaves a worker no app can find), the coherence of a row (`RowCoherent`: also that an error text has a failure behind it, and that only a crash or a failed launch leaves a row running or queued), terminal states that are final unless somebody cancelled (`NeverRevived`), the refinement of `EventFeed` |
| `local_jobs_live` | two apps that do not crash, one call, one stream, lines that cannot fail, a worker that does not fill stderr | every launched job ends, every stream ends, `cancel()` returns |
| `terminal_final` | one app, one call | finding: a terminal state is overwritten by another |
| `stderr_full` | a worker that writes more to stderr than the pipe holds | finding: its job stays running for ever |

One job is enough for the safety properties, since no step reads the row, log or process of another job
(jobs meet only at the loop and the lock, which delay and change nothing); the theorems hold for any number.
Two lines make order, omission and repetition visible; two apps make the owner and another app; two calls
let one `cancel()` find what another left. In the apps of a run one is fragile: two that crash add states
and no new kind of behaviour.

Fairness (`local_jobs_live`, `stderr_full`): the loop runs every ready coroutine in turn and a lock file is
polled until it is free, but another process may hold it whenever one looks, hence strong fairness for the
steps of launch, supervision, `cancel()` and streams: streams sleep between polls, so each gets its turn. A
worker is assumed to exit when it can (weak fairness), a consumer to keep iterating. Without the worker's
exit neither `cancel()`, which waits with no timeout, nor the supervisor would return.

The runs stop when every job, call and stream is over: the system may stop, so deadlock is not checked.

### Proved (`LocalJobs_proofs`)

For all sets of jobs, apps, calls, streams and all bounds, from the named assumptions of `LocalJobs` only:
`TypeCorrect`, `SucceededMeansComplete`, `EndedStreamsAreComplete`, `CancelLeavesNoWorker`,
`ProcessMapIsExact`, `RowsAreCoherent` (each `Spec => []...`) and `EndedJobsStayEnded`
(`Spec => NeverRevived`).

None of these invariants but the process map is inductive alone. `IInv` adds what ties the parts together:

* *supervision*: what each value of `sup` says of owner, worker and row, for example that "waited" means the
  worker has exited and all its lines were read;
* *calls*: a waiting `cancel()` signalled a job that was launched, and its owner;
* *log*: the log carries exactly the publishable lines among those read;
* *streams*: what a stream delivered, followed by what it holds, is the start of the log, all of it when
  the poll saw succeeded or failed;
* *causes*: a drain that raised met a bad line, a row that says "failed", or has an error text, has a failure
  behind it, and one that says "cancelled" a `cancel()`.

The stream part is the delicate one: between the two SELECTs nobody writes (`DbFree`), so the state a poll
sees is one the log it read already accounts for. `Init => IInv` and `IInv /\ [Next]_vars => IInv'` are
proved with one lemma per action or group of actions; facts about sequences are lemmas of their own.

### Proved (`EventFeed_proofs`, `LocalJobsFeed_proofs`)

`EventFeed` is a list of steps; `EventFeed_proofs` proves what they add up to. `PromiseIsKept`: at any time a
reader has exactly the beginning of its feed, and one that ended has all of it, of a feed that is sealed, unless
the feed was disrupted. `PublishedStays`: nothing published is taken back, and a sealed feed is final.

`RunnerImplementsFeed` (`Spec => ImplementsFeed`) is the refinement for any number of jobs, apps, calls and
streams. Every step of the runner is a step of the feed or changes nothing it sees: a published line is `Publish`,
the end of a supervision `Seal`, a crash, a broken drain or a `cancel()` that finds the job running `Disrupt`,
opening a stream `Attach`, a yield `Receive`, its end `End`. Beyond `IInv` it needs that a worker's output stays
within its bound, and that a state "cancelled" a stream has seen is some call's work: the stream that ends on it
ends a disrupted feed.

Through the same mapping the two theorems of the feed hold of the runner: `StreamsAreServed` (what a stream
delivered is the beginning of its job's events, all of them if it ended undisturbed) and `LogsOnlyGrow`.

## 4. Batched OCR: `OcrBatch`, `Devices`

`Batches` are calls of `run_ocr_batch`, `Pages` calls of the single-page `ocr` stage. `pc` is where a
call stands: `lookup`, `build`, `store` are the three steps of getting a predictor, `queued` waits for an
executor thread, `run` has a predictor, `cpu` is the per-image fallback. `cache` is `_predictor_cache`;
`built` (history) every predictor ever built; `key` the cache key the call is after; `size` is det_bs and
reco_bs inside `run_doctr_batch`; `tries` (history) counts runs. The paths of the model files are the same
for all calls and are left out of the key. Free memory is any level at each probe, counted in pages of
`_VRAM_PER_PAGE_BYTES`, or no answer: other processes use the device too. Each run of a predictor may work,
fail, or run out of memory. A batch's first look-up, build and store run on the event loop, so nothing
starts meanwhile (`LoopFree`); all others run in threads and interleave.

`Devices` says which device a call goes on with: the one it asks for, else the one `resolve_effective_device`
finds in the preferences, else what `pick_device` takes from two environment variables or the hardware. Ids
of CUDA devices become `local`. A call starts on any device that some request, preferences, environment and
hardware give (`ExecutionDevices`; every combination is evaluated); an invalid one from the environment fails it
(`NoDevice`). The stage looks its implementation up by that device and falls back to `cpu`: such a page, and one
with Tesseract or without model files, never touches the cache (`StockStage`, `StockStageFails`).

Two things one sees there, which contradict no comment: a preference is not checked against what is available,
so an id of the device list that is marked unavailable (`nvidia:0`) sends the page stage to the CPU and has the
batch sized as for a GPU; and the device only sizes a batch, since neither the builder nor the cache key gets it
(`gpu/local_stage.py:162-170`).

A page call gives the page of its image or none: both stages end with `if not pages: return {"pages": []}`
(`gpu/default_stages.py:133`, `229`).

External and taken as its use suggests: `from_images_ocr_via_doctr` returns one page per image of a batch, in
order; the DocTR calls of the page stages return a page of their one image or an empty list; the builder without
sizes uses det_bs 2 and reco_bs 128.

| run | instance | what it shows |
|---|---|---|
| `ocr_batch` | a batch of no, two or three images and one page call, on every device; no, little (2 pages) or much (9) free memory at each probe, or no answer | sizes within bounds, at most four predictors per batch (`BackoffBounded`), one page per image, and of a page call one page or none (`OnePagePerImage`), no call builds a key twice (`NoRebuild`), only the page stage stores a predictor under sizes it does not have, and then with the builder's defaults (`OnlyPagesMisfile`), every call ends |
| `backoff` | one batch, free memory 1 or 4 | finding: a retry runs a predictor as large as, or larger than, the one that failed |

Free memory 9 is above the ceiling of 8, so all four halvings 8, 4, 2, 1 occur; 0 is below one page; no answer
gives the sizes that the page stage builds with whatever its key. With widths 2 and 3 an order of pages and a
missing last page are visible and reco_bs differs; width 0 is a batch of no images. A batch and a page call are
two threads of the two kinds of callers; the theorems hold for any number of both.

Fairness: the executor runs what it was given and builders and predictors return or raise; weak fairness for
the steps of each started call, none for starting one. Calls may all be over, so deadlock is not checked.

### Proved (`OcrBatch_proofs`)

For any calls, widths and amounts of free memory: `TypeCorrect` (with det_bs in 1..8, of every predictor),
`BackoffEnds`, `PagesMatchImages`, `NothingIsBuiltTwice`, `OnlyPagesMisfileEntries` (an entry whose predictor has
other sizes than its key was built by the page stage, with the builder's defaults; predictors that batches build are
honest) and `WarmCacheHits`, an action property that no run has room for: a stored key is never built again. The
inductive invariant `IInv` adds: a call about to store holds the predictor it built for its key; a predictor
that nobody is about to store has its key in the cache, which never shrinks; before run number n det_bs is at
most 8, 4, 2, 1; the pages of a call are a prefix of its images. It rests on lemmas about `PickSizes` and
`Halved`.

Two more theorems say how far the finding reaches, and how long a call takes:

* `OnlyTheFirstRetryGrows`: only the first retry can ask for a larger det_bs than what ran before. From the second
  on each asks for a smaller one, and runs a smaller predictor unless a page built one of the two (`backoff`: the
  second sizing happens once).
* `EveryStepNearsTheEnd`: a step of a started call lowers its rank, which is at most 31 plus its images, and no
  step of another call touches it. The rank counts runs left, then positions, then pages; it is the part of
  `CallsEnd` that needs no fairness.

Their invariant `ScopeInv` adds where each predictor comes from and which sizes a retry was left with.

## 5. The blob store: `BlobStore`

`blob[d]` and `tmp[d]` are the files `<d>` and `<d>.tmp` in the directory; a file is an inode (the call that
created it) and `content` the chunks written to each inode, so that a file renamed while another call has it
open keeps its content. `pc`, `what`, `fd`, `at` are where each `write()` stands, its content, its open file
and its position. `refs` are the hashes saved records carry; `prune[p]` is a `prune_orphans()` with the
references it was given, the names still to test, and (history) those it deleted. A step is one access to the
directory or one write to an open file; there is no lock. A call may die before or within its writes, as a
killed process or a full disk would have it.

The temporary file of a content has one name, so two writers of that content share it: the second truncates
what the first is writing. Then a blob may be published unfinished, and the second rename finds no file and
raises FileNotFoundError. `blob_store.py:23` promises "Hash data, store if new (atomically)" and
`blob_store.py:29` "atomic on POSIX": that does not hold for two writers of one content, and run `blob_atomic` shows
an unfinished blob under its name (`StoredAtomically`). The other properties state what remains true:

* an unfinished blob has a writer that will complete it or one that died on it (`TornHasWriter`), and does not stay
  unfinished otherwise (`TornHeals`);
* a call that ended leaves a blob of its content unless a pruner, any pruner, has deleted it (`EndedWriteIsStored`).
  A call that raised FileNotFoundError counts as ended: somebody else's rename stored the content;
* a pruner never takes a blob whose reference was saved before it was given its references
  (`ReferencedBlobsStay`). A reference saved after they were gathered is not protected, nor is a blob that a
  `write()` found present meanwhile: such a blob is lost, and no property forbids it, since
  `prune_orphans` can only know what it was given. Its caller has to keep pruning and writing apart.

| run | instance | what it shows |
|---|---|---|
| `blob_store` | one content, three writers, two pruners, two chunks per file | the four properties, over every interleaving and death |
| `blob_atomic` | two writers of one content | finding: an unfinished blob stands under its name |

Calls on different contents touch different files, so one content is enough; what a pruner does in between to
other names only delays it. Two chunks make a file that is truncated in the middle differ from one that is
whole and one that is empty; of three writers one can publish, one can write on and one can find the blob.
Two pruners race for one unlink.

Fairness: a `write()` that has started goes on until it ends or dies (weak fairness); none for pruners, for
recording and for starting calls. All calls may be over, so deadlock is not checked.

### Proved (`BlobStore_proofs`)

For any digests, calls and number of chunks: `TypeCorrect`, `TornBlobsHaveWriters`, `EndedWritesAreStored`,
`ReferencesStay`. `TornHasWriter` is not inductive: a rename publishes whatever the temporary file holds. The
invariant `IInv` therefore says of *every named* inode, temporary or published, that it is whole, will be
completed by a writer, or lost its writer; that a call with its file open can still
rename it, or somebody else has; and that a pruner neither deletes nor condemns a reference it was given. The
invariant is proved with one step per action.

`NoForeignBytes` and `PublishedOnlyGrows` are about whose bytes a blob holds: no file stands for two contents,
whoever has a blob's file open writes that content, and no call truncates a file once it has its final name, for
all that opening `<digest>.tmp` truncates and two calls share it. So what is whole stays whole under its name,
until a pruner takes it or another call's rename replaces it. Their invariant `CreatedInv` follows an inode to the
call that created it: it has one name at most, of that call's content.

## 6. Files of the suite: `SuiteFile`

`prefs.json`, `installed.toml` and `shared-paths.json` hold sections by name (common and apps, installed apps,
keys) and are all changed as one: take the lock file, read, change one section, write. `kind` says which file a
behaviour is about: calls on different files never meet. `text` is what the file holds, `Torn` if it does not
parse; `lock` its holder; `req[c]` what call `c` is to do; `stage` which locked part it is in (`put_device`
reads, then writes, then reads for its answer, each under a lock of its own) and `pc` where in it; `snap` the
data it read or is to write; `mine` the section `put_device` took along; `hung` the calls that do no more. A
step is one access to the lock or the file. `saved`, `blind`, `lapped` and `missed` are history: what the file
held when last closed, who failed to read it, who was overlapped by a write to its section, and which binaries
were once missing.

What differs between the files is in the operators: `Timed` (the registry waits for its lock for ever),
`InPlace` (the shared paths are written beside and renamed), `Remains` (half a TOML file may parse),
pruning in `Edited`. Every reader takes any error for an empty file (`Seen`, `ReadFails`), so a failed read or a
half-written file becomes permanent with the next write: `SectionsAreKept` and `TornHasCause` exempt deaths within
a write and failed reads, and so do not forbid these losses; they say that nothing else loses a setting. The write
routes speak of "preserving everything else" (`suite/prefs.py:186`) without these exceptions.

A section is a device, the settings its readers know (`rest`) and keys they do not (`extra`). What is read through
the models of `suite/types.py` does not come back as it was: `UIPrefs` fills in the defaults of the common section
and drops its unknown keys (`types.py:77-80`), leaves the section of an app alone, and raises if one is no object
(`Validated`, `Rejected`, `Odd`). `put_device` writes back what it read that way (`suite/device_routes.py:83-87`), so
of the common section more than the device may change: `PutKeepsTheRest` says that every setting in the file
survives, missing ones get their default, and only unknown keys of the common section are lost. `write_app` stores
any JSON, and one payload that is no object makes every later read and `put_device` raise, for all apps, until it is
replaced.

| run | instance | what it shows |
|---|---|---|
| `suite_file` | two calls of any kind on two sections with one value, on a fresh or a filled file of each kind, the preferences also as another version of the suite wrote them; either call may die, hang or fail to read | what a call changes is current (`BaseIsCurrent`), half files have a cause (`TornHasCause`), writes keep other sections (`SectionsAreKept`), a device change keeps the settings of its section unless overlapped (`PutKeepsTheRest`), every call ends (`CallsEnd`) |

Two calls are enough for a race, a stale write or a wait for a hung holder, and the filled file stands for calls
that went before; the theorems hold for any number. One value, next to its absence, tells a kept setting from a
lost one; two sections, the common one and an app's, tell the caller's from another's. Calls that set a section
name no device in it, which is left to `put_device`. The run has 463,888 states.

Fairness: a call with the lock goes on unless it hangs (weak); one without it polls, and may find it taken each
time it looks, so it gets it only if it is free again and again (strong), or times out (weak). Without a
timeout, a call on the registry waits as long as any holder hangs: `CallsEnd` says so. All calls may be
over, so deadlock is not checked.

### Proved (`SuiteFile_proofs`)

`TypeCorrect`, `BasesAreCurrent`, `TornFilesHaveCauses`, and the action properties `SectionsStay` and
`PutsKeepTheRest`, for any calls, sections and values. The invariant `IInv` adds to the checked ones: the
lock is held by exactly the call that reads, edits or writes; the text is what was last saved, or cut; a writer's
data differs from the saved data in its own section and pruned entries only; and the section a `put_device`
took along still is what the models make of the one in the file, apart from the device, while no overlapping write
has come between.

Two theorems give what `CallsEnd` rests on apart from fairness. `LocksAreReleased`: the lock has one holder at most, and
that call is in its locked part; no dead process keeps the others out and no `put_device` waits for itself.
`EveryStepNearsTheEnd`: each step of a call that has begun lowers its rank, of at most twelve (three locked parts of
at most four steps), and no step of another one raises it.

## 7. Pages and projects: `PageStore`

One aggregate, a page or a project (`kind`), that several clients create, load, change and save, each through a
`LocalPageStore` on the same database. `events` and `snaps` are the two tables, by version. Of a client, `ver`
is the version of its aggregate, `pend` the events not yet saved, `seen` the record at each version it had (the
last is `_record`), `due`, `view` and `todo` a load in progress, by the caller or to take a snapshot. Each
`@event` method of `page_aggregate.py` is an action (`Preprocess`, `OcrCompleted`, `GtMapped`, `LabelerEdited`,
`Exported`, `RotationUpdated`, `ExtensionRecorded`; `AddPage`, `ReorderPages`, `RemovePage`, `ProjectExported`)
that makes the event of the next version and applies it with `Applied`, which a replay runs again. A list of
blob references is one value, the extension data of a page one namespace. A page or project may be created from any
record (`page_aggregate.py:81-91`, `192-202`).

What the fields of type Any hold (`config` of a node, `changes` of a changelog entry, `extra` of a page) does not come
back from the store as it went in: models are dumped to JSON and validated (`Json`), other arguments are converted by
the library's own transcodings, of which some keep the type of a date or a UUID (`Coded`, `page_aggregate.py:232-268`).
`EventCoded` and `RecordJson` apply one or the other, as the code does, to each part of an event and of a snapshot. Of
both maps the model assumes only that what was converted is plain JSON in the end (`ValuesAssumption`). So a record in
memory, one replayed from events and one from a snapshot may differ in these types; `SnapshotsAgree` and
`SavedIsReloaded` say that they differ in nothing else, that is, that they are equal once dumped.

The event store is the library `eventsourcing` (9.5.4), external, modelled as the code relies on it: a save
takes all pending events off the aggregate and inserts them in one transaction, in which a version may exist
once (`SaveStored`), or raises, for a version that is taken or any other reason, with the events gone (`SaveFailed`);
versions at the interval are then snapshotted by loading them back; a load
reads the latest snapshot, then the events after it, and another client may save in between. `truth` is history:
the record at each version that *all* events give, kept up by `CatchUp` before anybody goes on. Clients may
crash anywhere.

What a client does behind the events' back is modelled too: an edit that raises halfway (`changes` of the wrong
type, `page_aggregate.py:124`) leaves its node in the graph with no event for it, and `set_extension` may be
called on the record directly. Such an aggregate is marked `altered`, one whose events a failed save has lost
`lost`; the properties name these exceptions and nothing else.

| run | instance | what it shows |
|---|---|---|
| `page_store` | two clients, three versions, a snapshot at every second one, six menus of commands on new and old pages and projects, values that are text, dates and enums | a snapshot is what all events give (`SnapshotsAgree`) and what is saved is what is loaded (`SavedIsReloaded`), up to the types JSON does not keep; versions have no gap (`NoGap`), head, history, graph and changelog of a page made from a coherent record agree (`PagesAreCoherent`) |

Bounds: `MaxVersion` 3 and `Interval` 2 let a load start from a snapshot and find events after it, and let a client
with two pending events lose to one that stores its own; `Menus` restricts the commands of one behaviour to two
that meet (every command is in one of them), with one node that brings references and one that does not; an
aggregate is altered at most once. Text comes back as it was, a date only from the library's transcodings, an enum
from neither. The run has 498,491 states. The theorems hold for all events, any number of
versions, clients and any interval.

Worth knowing: a failed save has already emptied the aggregate (`page_server.py:83` leaves reloading to the
caller). A client that goes on with it instead can leave a gap in the versions, and then no load succeeds;
hence `wentOn` in `NoGap`. And a node that carries references of its own goes into the graph as the same object the
pending event holds, not as a copy; the model assumes that callers leave their arguments alone until they save, as
the module's docstring asks. A snapshot that fails for another reason than a version it cannot load is not modelled.

### Proved (`PageStore_proofs`)

`TypeCorrectness`, `SnapshotsAlwaysAgree`, `SavedAggregatesAreReloaded`, `VersionsHaveNoGap`,
`PagesStayCoherent`. The invariant `IInv` says: every known `truth` is what the event of its version makes of
the one before; a load in progress agrees with `truth` at its version, since it started from a snapshot that
agrees, and has the events that were there when it read; a clean client's record follows from its pending events
and the stored record they start from; the stored versions reach as far as whoever saved without loss. Coherence
is proved of every command's effect on a coherent record, then of every record there is.

Three action properties are proved besides, which no run has room for and which TLC confirmed on the instance of
`page_store`: `HistoryIsKeptHolds` (a stored event or snapshot is never replaced by another of its version),
`StoredAggregatesLoad` (a load fails only if it finds nothing at all, and no save fails over the snapshot it takes,
unless some client went on with an aggregate whose events it lost: the exception `wentOn` of `NoGap`), and
`SnapshotsAreTakenWhenDue`. Their invariant `LoadingInv` says that a load under way holds the events it has still
to apply, in order and without a gap, up to the version it is for.

## 8. Processes of the suite: `Shells`, `Upgrade`, `Apps`

`Shells` are the processes of all apps on one machine. `pc[p]` is where the main thread of process `p` stands in
`run_windowed` (program with mode `window`) or in `bootstrap_spa` and its server (`page`); `server`, `tray` and
`quit` are its server thread, its tray icon and `quit_event`; `pidfile` is the one lock file, `registered` the
ports in the registry. A step is one access to the pidfile under its lock (with the truncated file between
truncation and write), one probe of a port, or one thing a thread does. A process may be killed anywhere,
restart itself (`restart()` keeps the process id), end and stay a zombie until it is waited for, or get the id
of one that ended. `life` counts the uses of an id; `marks`, `raced` and `outrun` are history for the exceptions
the properties make.

`Upgrade` is `POST /api/suite/update`: read the installed version, truncate and write the rollback file,
run `uv`; requests run in parallel, may fail or die, and releases come out meanwhile. The version is "unknown" if
the distribution is not found. Killing the app does not kill `uv`, which may still install (`Stopped`, `UvEnds`).
`Apps` adds the launches (`call`, `want`, `child`): port from the registry, health check, spawn, poll, timeout. An app
without an entry is answered 404, a disabled one 409 (`LaunchUnknown`, `LaunchDisabled`); entries are removed and
disabled at any time (`Unregister`, `Disable`), also between start and launch. Upgrades and processes
share no state, so `Apps` interleaves nothing between them: each behaviour has one of the `Scenes`.

| run | instance | what it shows |
|---|---|---|
| `app_life` | two process ids (one used at most twice), two ports, five scenes: two programs started by users; a windowed launch; two page launches; two launches of an app whose entry is removed or disabled; two upgrades with three releases | one shell at a time (`OneInstance`), answers are those of the own server (`AnswersAreOwn`), teardown leaves nothing (`TeardownStops`), a start gives way to a shell only (`GivesWayToShell`), the rollback file names the version before (`UpgradeCanBeUndone`), every start, every quit and every launch, refusals included, settles (`EverythingSettles`) |
| `dead_server` | one shell | finding: its window stays open when its server has died (`ServerDeathCloses`) |

Bounds: two processes race for lock or port; a pidfile can name a process that was killed, restarted or whose id
is used again, since one id has two lives (`MaxLives`); two ports let a probe go on to the next and run out;
three releases let an upgrade find another's result and a newer one. The scene with edits of the registry has one
process, the launched child or one that starts and registers again. The run has 283,591 states.

Fairness: main threads go on and launches poll until they have an answer (weak); a start takes the pidfile's
lock, which others may hold whenever it looks (strong). None for users, server threads, kills, `uv` or the
reaping of zombies: a server may never come up, and then the timeout that `WaitFails` and `PollTimeout` stand
for has to strike. Processes may all be over, so deadlock is not checked.

The exceptions are what the code does, and worth knowing:

* `acquire` overwrites: of two starts that both found no instance the second takes the pidfile
  (`desktop.py:518-525`), and two shells run; `OneInstance` holds in all other behaviours.
* The pidfile is shared by all apps (`desktop.py:371`, `382`), so a windowed launch from within a shell finds
  that shell alive, gives way to it and never answers: the launch times out.
* A process counts as alive if its id exists (`suite/single_instance.py:79`): after `restart()` a shell finds
  itself and gives way to itself; a stranger with the id, or a launched sibling that ended and that its launcher
  never waited for (`suite/sibling_spawn.py:107`), blocks every start. `docs/architecture/suite-services.md:57` says
  that reads "reap corrupt or dead-process files", which they do not in these cases. `GivesWayToShell` exempts them,
  and accepts the shell of another app, since all share the pidfile.
* A health check takes any 200 at the port for the server it waits for. If another server took the port between
  probe and bind, the window shows that one, and a launch reports its child as opened.
* The watchdog (`desktop.py:546`) only sleeps: it never sets `quit_event` when the server dies, and the window
  stays with a dead server until its user closes it, although `desktop.py:473` promises "Server death → quit_event →
  window closes → teardown". Run `dead_server` shows it. `EverythingSettles` therefore counts such a window as settled
  (`AtRest`): it is not about it.
* The teardown is `stop_server()`, then `stop_tray()`; that one of them raises, which would skip the rest, is not
  modelled: `TeardownStops` is about teardowns whose calls return.
* A launch that times out leaves its child running (`suite/sibling_spawn.py:121`).
* A second upgrade overwrites the rollback file of the first, also with the version the first installed, and two
  at a time may leave parts of both (`suite/update.py:252`).

### Proved (`Apps_proofs`)

`TypeCorrectness`, `OneInstanceHolds`, `AnswersAreOwnHolds`, `TeardownStopsHolds`, `UpgradeCanBeUndoneHolds` and
`GivesWayToShellHolds` (the action property), for any processes, ports, launches, requests and scenes. The
invariant adds: while a shell holds the lock, every start that has looked and not acquired is marked (`Sole`); a
port has one server (`OnePort`) and whoever else chose it is marked (`Beaten`, `Answered`); while the writer of the
pidfile lives it is a shell at that port, or through (`Named`); a request that no other was made along with is alone
with its file (`Alone`). One lemma per action shows that it preserves the part of the processes.

`StartsEnd` and `LaunchesEnd` are the part of `EverythingSettles` that needs no fairness: within one life of a
process id the main thread never goes back (a rank of at most `LastPort` + 12 falls with each of its moves, whatever
servers, ports and the pidfile do), and a launch is answered, or refused, after four steps of its own at most, with
one port and at most one child.

## 9. Findings

Each run stops with a trace; `PROJECT.json` quotes the lines it contradicts.

* `terminal_final`: `cancel()` and the supervisor overwrite each other's terminal state.
* `stderr_full`: a worker that fills its stderr pipe keeps its job running for ever.
* `backoff`: the retry after an out-of-memory error may run a predictor as large as the one that failed, or larger.
* `blob_atomic`: two writers of one content publish an unfinished blob.
* `dead_server`: the death of its server does not close a window.

Two more disagreements are in the models without a run of their own. A `choking` line breaks a drain, and its job
fails while the worker runs on, although `gpu/local_jobs.py:127-128` says that a bad line can never crash the
supervisor; `RowCoherent` shows that the row at least says so. And the page stage stores a predictor with the
builder's default sizes under a key of other sizes (`gpu/default_stages.py:220`), which the comment at lines 51-53
rules out; `OnlyPagesMisfile` says that nobody else does and that no other sizes can be behind such a key.

The safety properties above hold in spite of them: a job overwritten after its end is still in a terminal state with a
coherent row, the backoff still ends, an unfinished blob still has its writer. Theorems say how far some reach:
`EndedJobsStayEnded` (`terminal_final` needs a `cancel()`), `OnlyTheFirstRetryGrows` (`backoff`),
`TornBlobsHaveWriters` (`blob_atomic`), `OnlyPagesMisfileEntries`.

## 10. Only model-checked, and not modelled

Liveness (`LaunchedJobsEnd`, `StreamsEnd`, `CancelReturns`, `CallsEnd`, `TornHeals`, `EverythingSettles`) is out
of the prover's reach and stays with TLC. What can be proved of it is proved: ranks that fall with every step of a
call, a start or a launch (`OcrBatch_proofs`, `SuiteFile_proofs`, `Apps_proofs`), so that only "it gets to move"
is left to fairness, and who holds the lock others wait for. For the runner there is no such rank: a worker may print
for as long as its bound allows and a stream polls for as long as its job runs. Theorems that
state no run's property are about definitions in the proof modules.

Not modelled: text of events, errors and logs; timestamps; the poll interval; sqlite errors; a second `submit`
with an id already used (ids are fresh UUIDs); event kinds apart from their class; the number of executor
threads; `run_doctr_batch` called without `build_smaller` (it falls back to the CPU at the first out-of-memory
error); a missing `pdomain_book_tools`; the device list, `pick_concurrency` and the GET of the device route,
which change nothing; stages that apps register themselves; the remote dispatchers and the remote page store,
which are stubs; `ShardedPageStore`, which picks one of several stores; validation and summaries
of page records; icons, menus and the Qt platform of the window; `check_latest`, which informs only; keys of
`prefs.json` itself that nobody knows. The components with status `not_modelled` in `PROJECT.json` have
no behaviour over time: shortcuts, support types and schema generation, scripts.

## 11. Running it

    tlc -config LocalJobs.cfg MCLocalJobs.tla      # and the other .cfg files, see PROJECT.json
    tlapm LocalJobs_proofs.tla
    tlapm EventFeed_proofs.tla
    tlapm LocalJobsFeed_proofs.tla
    tlapm OcrBatch_proofs.tla
    tlapm BlobStore_proofs.tla
    tlapm SuiteFile_proofs.tla
    tlapm PageStore_proofs.tla
    tlapm Apps_proofs.tla

Definitions named `Wrong...`, `Other...`, `Late...` and `Same...` are plausible mistakes in the definition
after them. Nothing uses them: put in its place, each makes the property `PROJECT.json` names for it fail.
