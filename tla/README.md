# Verification of kiro-learn

kiro-learn gives Kiro agent sessions a long-term memory. Hooks of the Kiro CLI
and IDE start short-lived *shims* that post events over HTTP to a local daemon,
the *collector*. The collector stores every event in SQLite, buffers its
projection in one file per project, has a model extract candidate memories from
each batch, reconciles the candidates with what is already remembered, and
serves lexical and vector search to the shims, to an MCP server and to a
dashboard. A CLI installs, starts and stops the daemon.

This directory holds TLA+ modules of that program, the TLC configurations that
check them on small instances, and TLAPS proofs for every instance. Paths below
are relative to the repository, which the map in `PROJECT.json` prefixes with
`src/`; `collector/` stands for `src/collector/`.

1. Inventory - 2. Modules - 3. Runs, bounds, fairness - 4. Proofs -
5. Plan - 6. Where code and documentation differ - 7. Not modelled

## 1. Inventory

| Component | State | Operations | Modules |
|---|---|---|---|
| Buffer store (`collector/buffer/store.ts`) | one `buffer.ndjson` per project | append, snapshot, snapshotWithSize, clear, replace | `BufferPipeline`, `BufferCompaction` |
| Buffer watcher (`collector/buffer/watcher.ts`) | per project: counted bytes, idle timer, two in-flight flags, failure count, breaker | wouldExceedCeiling, notifyAppend, notifyExtractionResult, notifyCompactionResult | the same |
| POST pipeline (`collector/pipeline/index.ts`) | dedup set; legacy extraction queue and active count | process: dedup, privacy scrub, putEvent, then append and notify, or enqueue | `Ingest`, `Privacy`, `BufferPipeline` |
| Ingestion (`collector/ingestion/index.ts`) | semaphore, wait queue, active runs | run (doRun), drain | `BufferPipeline`, `Reconciler` |
| Reconciler, clustering, judge XML (`collector/ingestion/`) | none of its own | cluster, look up neighbours, ask the judge, commit or merge | `Reconciler`, `Clustering`, `Markup` |
| Judge breaker (`collector/ingestion/circuit-breaker.ts`) | failures and open flag per project | isOpen, record, onRunComplete | `Reconciler` |
| Candidate extraction (`collector/ingestion/candidate.ts`) | none | frame, one model call, parse, embed | `Reconciler`, `Markup` |
| Compaction worker (`collector/buffer/compaction.ts`) | one guard, model failures per project | compact, drain | `BufferCompaction` |
| ACP client and XML (`collector/pipeline/`) | child process, accumulated answer, kill timer | createAcpSession, sendPrompt, destroy; frame, parse | `AcpSession`, `Markup` |
| Query layer, vector cache (`collector/query/`) | indexes and epochs per namespace | search, lookupNeighbors, getOrLoad, invalidate | `MemoryServices`, `Ranking`, `Reconciler` |
| Embedder (`collector/embedding/`) | lazily loaded session, promise chain | load, embed, dispose | `Embedder` |
| Backfill (`collector/backfill/worker.ts`) | state machine, failure count | start, stop, status | `MemoryServices` |
| Receiver, retrieval (`collector/receiver/`, `collector/retrieval/`) | per request | POST and GET handlers, latency budget | `Ingest`, `MemoryServices`, `ReadApi` |
| Storage (`collector/storage/`) | SQLite database | putEvent, putMemoryRecord, putEmbedding, delete, transaction, lists, statistics, migrations | `Storage`, `ReadApi`, `Schema` |
| Wiring (`collector/index.ts`) | the handles | start, re-arm, close | `BufferPipeline`, `MemoryServices`, `Daemon` |
| Shims (`src/shim/`) | session file | read hook input, find the project, cut the body, post | `Clients`, `ProjectRoots`, `Privacy` |
| MCP server (`src/mcp/`) | none | search_memory, save_observation, save_session_summary | `Clients`, `ProjectRoots` |
| Installer (`src/installer/`) | file layout, pid file, agent files | init, start, stop, status, uninstall | `Daemon`, `AgentFiles`, `ProjectRoots` |
| Dashboard (`src/ui/src/`) | fetched sections, selection, mounted graph | poll, click, refresh | `Dashboard` |
| Types (`src/types/`) | none | validation | none |

`PROJECT.json` lists each with its status, and under `hazards` every place where
the code can go wrong in a way a test would hardly reach, with the properties
that watch it.

### How the parts interact

    hook --> shim --POST--> receiver --> process()
      session file           |  dedup, scrub, putEvent  -> SQLite
                             |  append, notifyAppend    -> buffer.ndjson, watcher
                             |  retrieval (budget)      -> query -> embedder, cache
                                    | idle timer or size threshold
                                    v
                     run() -- semaphore --> doRun
                             snapshot  <- buffer.ndjson
                             model call, clusters, judge   (awaits: other
                             commits   -> SQLite            callbacks run)
                             invalidate -> vector cache
                             clear     -> buffer.ndjson
                             notifyExtractionResult -> watcher, next waiter

    watcher --size--> compact(): snapshotWithSize, model call, replace, notify
    backfill: list, embed, putEmbedding, invalidate, sleep
    MCP tool, dashboard --HTTP--> receiver
    CLI --pid file, signals--> the process that holds all of this

Everything in the daemon is one Node process, so there is no parallelism; the
concurrency is what happens between the awaits of a run, a search or the
backfill that waits for a model (seconds to minutes) while posts, timers and
other runs go on. Storage and file calls are synchronous underneath.
Parallelism proper is between processes: hooks that share a session file,
commands that share a pid file and an install directory, the daemon and its
kiro-cli children.

### What is hard

* File, byte counter, flags, semaphore and run are kept consistent by calls
  spread over four modules and six exits of `doRun`.
* `clear()` deletes the file a run took a snapshot of, not the snapshot;
  `replace()` uses an offset measured before a model call.
* A failed write, or a death between two system calls, leaves torn lines the
  byte counter does not know of, unbuffered events, a batch that is committed and
  still in its file, half an install, an empty mcp.json.
* A cached index is built across an await that writes may overtake; a search
  returns records across an await in which they may be merged away.
* Dedup forgets: by eviction, by rollback, by restart.
* Many timeouts (budget, prompt, inference, drains, stop, HTTP) race what they
  limit, and what they limit goes on.
* Liveness: what re-arms a trigger that was swallowed, failed, or refused; what
  frees a slot; what ends `close()`.

## 2. Modules

| Module | What it is |
|---|---|
| `EventLedger` | abstract specification: what the collector promises of an event |
| `BufferPipeline` | store, watcher, POST handler in buffer mode, ingestion runs, death and restart; implements `EventLedger` |
| `BufferCompaction` | `BufferPipeline` composed with the compaction worker |
| `Reconciler` | extraction, clusters, neighbours, judge, commits and merges of one project; judge breaker; cached index; saves and backfill beside it |
| `Embedder`, `Storage` | the two services that searches, runs and backfill share: state, and operators for their operations |
| `MemoryServices` | both composed with query layer, vector cache, retrieval budget, backfill, a run's writes and `close()` |
| `AcpSession` | sessions with kiro-cli children |
| `Ingest` | `AcpSession` composed with dedup, storing and the legacy extraction stage |
| `Daemon` | commands of the CLI, pid file, install directory, processes |
| `Clients` | hooks and the session file, MCP tools and their requests |
| `Privacy`, `Ranking`, `Clustering`, `Markup`, `ProjectRoots`, `AgentFiles`, `Schema`, `ReadApi`, `Dashboard` | algorithms and file transformations as operators, with the definitions they are checked against |
| `Orders` | sorting by a total order |
| `Transformations` | gives these nine their steps |
| `MC...` | instances for TLC |
| `BufferProofs`, `ReconcilerProofs`, `MemoryServicesProofs`, `IngestProofs`, `DaemonProofs`, `ClientsProofs`, `TransformationsProofs` | inductive invariants and theorems about the module they are named for (TLAPS); `BufferProofs` is about `BufferPipeline`, that it implements `EventLedger` step by step, and about `BufferCompaction` |
| `MarkupProofs` | lemmas about the operators of `Markup`, and those about sets, recursion and sequences that `TransformationsProofs` shares |

Operators commented as a *variant* or *mutated form* (`CanFireWhileDisabled`, ...)
are mutated forms of the definition that follows them. No specification uses
them; they show, substituted for it, that a property would notice the mistake.

### 2.1 BufferPipeline

State and its counterpart:

| Variable | Code |
|---|---|
| `lines`, `fragments` | `buffer.ndjson`: its complete lines, and what failed and interrupted appends left in it |
| `stored` | rows of the events table |
| `processed` | history: events covered by a batch that committed |
| `bytes`, `idleTimer`, `extractionInFlight`, `consecutiveFailures`, `extractionDisabled` | `ProjectState` of the watcher |
| `activeCount`, `waitQueue` | the semaphore of `createIngestionPipeline` |
| `phase`, `snapshot`, `anyCommitted` | the program counter and the locals of `doRun` |
| `mode`, `toArm`, `crashes` | life of the process, position of the start-up scan |
| `buffered`, `late`, `glued`, `reprocessed` | history, read by properties only |

One action is one macrotask. `PostBuffered`, `PostSkipped` and `PostWriteFails`
are the three outcomes of `process()`. `IdleTimerFires` and the size threshold
in `NotifyAppend` both call `FireExtraction`, which raises the flag and either
takes a slot or queues. A run that holds a slot goes through `TakeSnapshot`
(promise reactions of the callback that granted the slot; `Quiescent` keeps
every other callback out until it has run), then `ExtractionFails`,
`ExtractionCompletes` (nothing extracted, or the direct-commit path) or
`ReconciliationStarts`, then `ClusterSettles` and `LastClusterSettles`. Every
exit ends in `FinishSuccess` or `FinishFailure`, which notify the watcher and
pass the slot on. `Crash`, `CrashInPost` and `CrashInCommit` are a death between
callbacks, inside a post, and between commit and clear; `Restart` and `Arm` are
the start-up scan, interleaved with first steps of the runs it starts.

Abstractions. A line is the set of events it stands for ({} if it does not
parse), and counts one unit, as a fragment does. An entry's projection, the prompt
and the records are left out. A fragment never parses (one that lacks nothing but
its newline would, until the next append). Its unit is in the file (`FileSize`,
which the start-up scan reads) and, as the watcher is not told of a failed append,
not in `bytes`: `unseen` counts those units, `failed` those of failed appends,
through restarts. A fragment is at most as long as the line the gate has let pass. `processed` says that a batch committed, not which records came of it;
a run in which some clusters fail and one commits counts as a success, as it
does in the code. An event is posted once: the resend of an id is the subject of
`Ingest`. An event may go to any project; the code derives the
project from the namespace, which makes no difference to any property here.

### 2.2 BufferCompaction

Off by default (`compactionEnabled: false`). The module extends `BufferPipeline`
and conjoins the worker to its actions: `PostBeside` and `ArmBeside` add the
trigger to an append, `RunBeside` notes when a run deletes the file under a
compaction, `DeathBeside` and `CrashAfterRename` reset the worker. `Compact` is
`doCompact` after its snapshot: `ModelSummarizes`, `ModelFails` (evict half) or
`EvictAtOnce` (the breaker is open; `Calm` keeps other callbacks out, as the code
does all this in the macrotask of the append). `ReplaceFails` is a choice
everywhere: no file any more, a full disk, or `fs.flockSync` missing.

`replace()` calls `fs.flockSync`, which the comment in `store.ts` ascribes to Node
22 and which the Node releases we know do not have; there every replace throws
and compaction amounts to `ReplaceFails`. The model allows both, so what it shows
holds with a Node that has the call as well.

Torn writes are left out (they are covered by `BufferPipeline`), so offsets fall
between lines; in the code an offset into a recreated file may also fall inside
a line, which loses that line and is a further case of the overlap in section 6.
Timestamps are those of the shims, so any half of a buffer may be the newest, and
eviction may leave it in any order.

### 2.3 Reconciler

| Variable | Code |
|---|---|
| `pending` | what the buffer of the project holds |
| `memory` | rows of memory_records: id, sources, whether embedded; `covers`, the candidates a record stands for, is history |
| `cached`, `index` | the namespace's entry in the vector cache |
| `breaker` | the project's `{ consecutiveFailures, open }` |
| `phase`, `openAtStart`, `clusters`, `neighbors`, `failedAttempts`, `cited`, `anyCommitted`, `anyJudgeFailure` | program counter and locals of `doRun`, `reconcile` and `processCluster` |
| `backfilling` | whether the backfill worker of this process is still at work |
| `appended`, `skipped`, `uncited`, `fallbacks`, `defeats` | history |

A run goes `StartRun`, `Extracts` (or `ExtractionFails`, `ExtractsNothing`), then
either `CommitDirectly` once per candidate (flag off, or breaker open) or, per
cluster, `NullCentroid` or `LookupNeighbors`, `JudgeGarbles`, `JudgeGivesUp` or
`JudgeDecides`, and `CommitKeepSeparate`, `CommitMerge` or `ClusterFails`, which
end in `Settle`: the next cluster, or `EndOfRun`, which clears the buffer if any
cluster committed. `EmptyRun` is a run without entries. Beside the run,
`SearchLoadsIndex`, `SaveObservation` and `BackfillEmbeds` are other callbacks;
they interleave where the run awaits a model.

Abstractions. Similarity, texts and vectors are left out: any clustering that
respects the rules (candidates without embedding stay alone), any set of indexed
records as neighbours, any cited subset as the decision. Ids the judge invents
are the empty citation, because unknown ids are ignored one by one. The retry of
compressor garbage is part of the outcome of the call. A load of the index is
one step: the epochs that make it so are in `MemoryServices`. Only
one project is modelled: no record of another namespace is ever looked up, and
runs of one project exclude each other, which `BufferProofs` proves of
the watcher's flag (`InFlightCorrect`). Events are appended between runs only;
what a post during a run suffers is the subject of `BufferPipeline`.


### 2.4 EventLedger

What the collector promises of an event, in five variables and a flag: it is
`kept` once stored, `waiting` while a buffer holds it, `done` once a batch has
covered it, `again` once a second batch has; only an `exposed` event may stop waiting without being done, and only
after the daemon has `died` may an event be covered twice. `BufferPipeline`
implements it (`LedgerKept`) under the mapping kept <- `stored`, waiting <- the
contents of the buffer files, done <- `processed`, again <- `reprocessed`, exposed <- `late \cup glued`,
died <- `crashes > 0`. So nothing but those two windows loses an event: no
failed run, tripped breaker, full disk, death or restart.

### 2.5 Embedder, Storage, MemoryServices

`Embedder` is the ONNX embedder: one load for good, calls chained on `tail`, a
timeout that rejects the caller while the native inference goes on
(`abandoned`). `Storage` is one database: records, full-text rows and vectors,
with operators for single statements, for the deletion of a set of records, and
for a transaction, which applies all or none. `MemoryServices` composes both:

| Variable | Code |
|---|---|
| `db`, `gone` | the database; history: records a merge deleted |
| `cache` | `indexes` of the vector cache; its epochs are the `sameEpoch` of each search that is building an index |
| `search` | locals of `search()` and of the retrieval: lexical result, built index, response; `settled` and `dead` are history |
| `run` | the writes of an ingestion run, or of POST /v1/memories |
| `backfill` | the loop: its place, batch, failure count, public state, stop flag |
| `closing` | how far `CollectorHandle.close()` has come |

Every await is a step boundary, those of storage calls included (with
better-sqlite3 these are one turn of the microtask queue). A search goes
`SearchBegins` (lexical result), the embedding, then hit or miss of the cache,
`FillReturns`; `BudgetExpires` answers the request while it goes on. Only the
search behind POST /v1/events has that budget, GET /v1/memories/search waits to the
end: so a search of the model may or may not be cut off, and no property relies on it. A run
embeds, commits in a transaction (with merges) or record by record, and then
invalidates. The backfill lists, embeds, writes and invalidates record by
record, pauses after consecutive failures, and is stopped at any point.
`CloseBegins` to `CollectorCloses` are the awaits of `close()`.

Abstractions: vectors are present or absent; queries are sets of matching
records; timers may fire at any time. One writer besides the backfill: writes of
several runs are sequences of the same steps, interleaved by the same callbacks.

### 2.6 AcpSession, Ingest

`AcpSession` has a session per slot (none, handshaking, prompting), the children
alive, and those of them that were told to go (SIGTERM, then SIGKILL). `Ingest`
composes it with what `POST /v1/events` does: `Post` is the head of `process()`
with the dedup set (`seen`, oldest first, with `Evict`), `Stored` and
`StoreFails` are putEvent's continuation (with `Rollback`), `Buffers` the append.
Without a buffer `Enqueue` feeds the legacy stage: slots, a queue that drops its
oldest, up to `MaxRetries` sessions for an event, the records, `Finish` and
`NotifyDrain`; `Drain` and `DrainTimesOut` are `drain()`. `Restart` loses the dedup
set and the queue. `since` and `pushedOut` are history. The scrub is `Privacy`'s,
the texts `Markup`'s.

### 2.7 Daemon

`process` says what runs under each pid (node starting, database open, serving,
closing, a foreign program, or a foreign program that passes for a collector), `pidFile` and `tree` what is on disk, `cli` which
command each operator runs and where it is. A command is a sequence of system
calls and others move between any two: `FileStep` is the deployment of `init`,
`StopStep` stopDaemon (read, signal, wait up to five seconds, SIGKILL, unlink),
`StartStep` getDaemonPid and startDaemon (read, check by `ps`, spawn, record,
verify). `ProcessStep` is the daemon: database, then port, then close.
`Accident` is a death, or a foreign process that takes a freed pid somebody still
names; `Fails` is a step of a command that throws.

The code has no lock. Two commands of which one spawns may leave a daemon that no
file names, whatever order one wishes for; the history variable `exposed` marks
that overlap and the failure to write the pid file, and the properties are claimed
until then. `getDaemonPid` takes any command line with "collector" in it for the
daemon's (`IsOurs`), so start and init may report success with nothing serving.
`StartServes` claims nothing while the pid file names such a process (`Misled`);
`StartAlwaysServes`, which does, is false (section 6). Overlapping stop, status and uninstall are
covered. `expected` is raised when start or init reports a daemon.

### 2.8 Clients

Hooks of one directory and the tools of the MCP server. A hook reads the session
file (`ReadsSession`), draws an id when it finds none, writes it by truncate and
write, posts, and exits with an answer, an error or at its timeout. A tool posts,
succeeds on a 2xx with the fields it looks for, fails otherwise, and the agent may
try again with a new record id. The collector is what a client sees of it: it
stores, serves, refuses, dies with requests in hand, and may store what nobody
waits for any more. `Spec` is without fairness, `FairSpec` with it. `era` counts
the sessions a spawn or a lost file begins, and `exposed` marks a hook that ran
while another was between truncate and write, for which `SessionsAgree` promises
nothing.

### 2.9 Transformations

Parts that one actor carries out from start to end. Each is an operator module
that follows the code branch by branch; `Transformations` gives it a state and
steps, so that runs explore it from every small input and, for files, tables and
the viewer, through every sequence of commands, writes and polls. `part` says
which of them a behaviour is about, `work` is its state.

| Module | Code | Data it abstracts to |
|---|---|---|
| `Privacy` | `truncateBody`, `scrubPrivateSpans` | texts of atoms, a tag being two atoms so that a cut can take it apart |
| `Ranking` | `rrfFuse`, sort and join of `search` | rankings of ids, exact scores |
| `Clustering` | `intraBatchCluster` | candidates 1..n and the pairs that are near |
| `Markup` | framers and parsers of compressor and judge, trims and cuts included | texts of the characters, white space, entities and tags that matter |
| `ProjectRoots` | `detectProjectRoot`, `detectScope`, MCP namespace | paths of names, markers, a link to the home |
| `AgentFiles` | agent, hook and mcp.json files of init and uninstall, step by step | which file is there, whose servers it lists, whether it is JSON |
| `Schema` | migrations 1 to 5 and their runner | versions applied, columns, admitted types |
| `ReadApi` | lists and statistics of storage, GET handlers | rows of ids, namespaces, types, concepts |
| `Dashboard` | poll, points and links, click, refresh | points by id, in order |

Init and uninstall may be killed or throw in any step. A step cut short leaves all or
nothing of one file, some of several, and of mcp.json, which `writeFileSync`
truncates in place, possibly a file that is no JSON. `McpFails` is a mcp.json that
cannot be read or, in uninstall, written: init starts afresh and uninstall takes
the error for one of parsing and removes the file. `cut` and `givenUp` remember
where that happened, and `UsersServersStay` claims nothing there.

`Ranking`, `Clustering`, `ReadApi` and `Dashboard` sort with `Orders`, by comparators
that leave no two elements alike, so the result is the one list in which each element
has as many before it as are smaller. For the listings this is an abstraction: ids
stand for times of creation, taken to differ, while `ORDER BY created_at DESC`
(`collector/storage/sqlite/statements.ts:1079`) leaves rows of one time in the order
SQLite finds them. Loops
(`find()`, the walk up to a marked directory, the scans over a text) are recursive
functions over the nodes, the lengths or the positions they run through.

## 3. Runs

`CHECK_DEADLOCK` is `FALSE` everywhere: when all events are posted and processed
the daemon idles, a dead daemon may stay dead, commands and hooks end, and a
transformation is over when its result is there.

Most properties are a conjunction whose parts are named, defined and commented
where they stand; the parts are listed here.

| Run | Instance | Shows |
|---|---|---|
| `buffer` | 2 projects, 4 events, threshold 2, ceiling 3, breaker 2, 1 slot, 2 deaths | `CeilingIsKept` (`BytesMatchFile`, `HardCeiling`), `NothingForgotten`, `NoLossOutsideRuns`, `InFlightMatchesRun`, `SlotsAreFair` (`SlotsAccounted`, `NobodyOvertakes`), `BreakerHolds` (`BreakerStops`, `StaysDisabled`), `LedgerKept` |
| `compaction` | 2 projects, 4 events, thresholds 1, ceiling 3, summaries of up to 3 lines, 1 death | `WorkerConsistent` (types, `GuardsAgree`), `CeilingIsNearlyKept` (`BytesMatchFile`, `CeilingOvershoot`), `OnlyOverlapsHarm` (`NoLossOutsideOverlap`, `RepeatsNeedOverlap`) |
| `liveness` | 2 projects, 2 events, compaction on, 1 death, fairness of everything but model calls | `OnlyCallsHoldRuns`, `BufferedIsProcessed` |
| `late_append` | smallest instance | `BufferKeepsWaitingEvents` violated, see section 6 |
| `reconciler` | 2 events, 4 ids, batches of up to 2 candidates, 1 disturbance (a save or a death), fairness | `EventsAccounted`, `BatchConsistent` (types, `BatchCommittedOnce`, `CoveredOnce`), `NeighborsAreCurrent` (`IndexIsFresh`, `NeighborsExist`), `JudgeBreakerWorks` (`BreakerTrips`, `OneFallbackRun`), `ProvenanceKept`, `OnlyCallsHoldRuns` |
| `memory` | a run, the backfill and one search, 3 ids of which 2 old, batches of 2, 1 restart | `StateConsistent` (types, `DatabaseConsistent`), `CacheFresh`, `SearchIsCurrent` (`SearchSeesStored`, `NothingResurrected`) |
| `memory_live` | the same with 2 ids, one of them hopeless, fairness | `BackfillCatchesUp`, `ShutdownIsClean` (`NoEmbedAfterStop`, `CloseEnds`) |
| `ingest` | 2 requests, 2 ids, dedup set of 1, 2 slots, queue of 1, 2 attempts, 4 posts, 1 restart, both modes, fairness | `DedupIsHarmless` (`SeenIsStored`, `NoEarlyRepeat`), `StageIsSound` (types, `NoIdleSlot`, `DrainedIsIdle`, `NoOrphans`), `ExtractionEnds` |
| `handshake` | smallest instance, fairness without the handshake | `ExtractionEnds` violated, see section 6 |
| `daemon` | 2 operators, 3 pids, 3 commands, 2 accidents, fairness | `OneCollector` (types, `OnlyTheRecordedRuns`, `OneDatabaseUser`), `DataSurvives`, `CommandsSucceed` (`CommandsEnd`, `StartServes`) |

| `clients` | 2 hooks, 1 tool call of 2 attempts, 1 accident, fairness | `SessionsAgree`, `SavesAreAccounted` (types, `SavedIsStored`, `DuplicatesAreUnanswered`), `ClientsReturn` |
| `transformations` | see below | `BodiesArrive` (`PrivateWordsStayHome`, `PublicWordsArrive`, `BodiesFit`), `SearchOrderIsRight` (`AgreementWins`, `NewerWins`), `ClusteringIsRight` (`ForestFollowsChains`, `ClustersAreComplete`), `XmlRoundTrips` (`EventsAreFramed`, `PromptsAreFramed`, `RecordsAreRead`, `MergesAreRead`), `ProjectsAreRespected` (`OneProject`, `UsersServersStay`, `LeftoversAreElsewhere`), `SchemaEvolves` (`DaemonsSchemaFits`, `MigrationsGoOn`), `ReadersAreServed` (`PagesMissNothing`, `ProjectsAreListed`), `ViewIsTrue` (`FreshClicksOpenTheirs`, `GraphKeepsProjectsApart`) |


### Why the bounds are enough

*Buffer.* Two projects are needed for one to hold the slot while the other
waits; longer queues are covered by the proofs. Four events fill a buffer to the
ceiling and post one over it, or one more behind a fragment, or make two batches of two; a batch, an event
appended during its run and one after it need three. Two failures open the
breaker, and two deaths show a second re-arming of the same file. With
compaction a summary of three lines is longer than a batch of two, so that with
one line appended meanwhile the replaced file outgrows the ceiling of three, and
a second project is rejected by the busy worker.

*Reconciler.* Four ids are what one stored record, two candidates in two
clusters and a summary need. `MaxDisturbances` counts saves and deaths, which
only matter one at a time between two steps of a run.

*MemoryServices.* Two old records make a batch of two with a third record stored
while it is worked on; one search meets every writer at every await, and two
searches share nothing but the cache, whose entry the second finds as the first
has left it. `MaxAbandoned` bounds native inferences left running.

*Ingest.* A dedup set of one forgets with each new id; two ids and four posts
give a post, its eviction, its resend and a concurrent resend. Two slots and a
queue of one drop an event; two attempts show a retry beside a lingering child.

*Daemon.* Three commands are start or init, what goes wrong, and what meets the
consequence (an upgrade or a start); two accidents a death and the reuse of its
pid. Three pids leave one for the daemon beside a foreign and a closing process.

*Clients.* Two hooks race for the file; the second attempt of a call is the
retry of the first. One accident is enough to lose the file or the collector,
which may also be down from the start and come up.

*Transformations.* Bodies of up to five tokens (open, close, word) or two turns
of three; rankings of three records with all ties and two ages; all graphs of up to five
candidates; texts with every tag and entity one could take them for, and white space; three
homes-and-links; one project and the directories outside it with any sequence of
edits, inits and uninstalls, each broken off anywhere or not (unbounded; two
projects share nothing but the home directory, and the theorem is about any number); five migrations with deaths and older daemons;
two or three rows with readers, polls and clicks in any order. `MaxTitle`, `MaxSummary`
and the budgets stand for 200 and 4000 characters and 512 KB: small enough to cut
between any two atoms.

`MaxCrashes`, `MaxSummaryLines`, `MaxCandidates`, `MaxDisturbances`,
`MaxAbandoned`, `MaxLingering`, `MaxPosts`, `MaxCommands`, `MaxAccidents`,
`MaxAttempts` and the finite sets are bounds the code does not have. Projects and
events of `buffer` and `compaction` are symmetric (no operator picks one over
another), which those runs use; they check safety only.

### Fairness

Every model call goes through `createAcpSession`, whose handshake has no timeout. So
`BufferCompaction` and `Reconciler` assume of no model call that it ends, and their
liveness properties say that nothing else holds up the work. `BufferCompaction` has
weak fairness of the idle timer (it fires when its time comes), `TakeSnapshot`
(promise reactions run), `EvictAtOnce` (the same macrotask) and `Arm` (a loop over
directory entries). A run ends unless it waits for its own call for good, or for a
slot while each slot is held by such a call (`HeldByCalls`); a worker whose call
never ends holds up no run; and a buffered event is processed but for the named
losses, or those calls. `Reconciler` has weak fairness of `Continues`, the steps of a
run that are no ends of calls: it ends unless it is extracting or judging for good.
`MemoryServices`: loads, inferences (both have timeouts), timers and continuations
go on, but for the budget's timer; strong fairness says that a record that can be
embedded is not timed out for ever, without which the backfill may rightly never
get it done.
`Ingest`: a prompt ends by its timer at the latest, a child told to go goes, by
SIGKILL at the latest; that kiro-cli answers the handshake is an assumption
of its own in `FairSpec`, which `PatientSpec` does without. `Daemon`: a command
goes on and node boots; nothing makes `close()` end. `Clients`: hooks and tools run
and their timeouts fire; the collector owes nothing. Nothing anywhere assumes
that somebody posts, that the daemon dies, or that it comes back.

## 4. Proofs

Eight modules of theorems. They hold for every value of the constants that satisfies the
assumptions below, TLC having found no counterexample on the instances of
section 3. Each module but `MarkupProofs` has the same layout: an inductive invariant as a conjunction of
named parts, lemmas for the helpers it needs, a lemma per action or group of
actions that a step keeps it, `Spec => []` of it, and the properties of the runs
as consequences. Every safety and action property of the passing runs is stated
by a theorem.

| Module | Inductive invariant | Theorems, and the property each states |
|---|---|---|
| `BufferProofs` | `IInv` (`Invariant`) | `CeilingCorrect` (`CeilingIsKept`), `SemaphoreIsFair` (`SlotsAreFair`), `BreakerIsSafe` (`BreakerHolds`), `InFlightCorrect` (`InFlightMatchesRun`), `NoBufferForgotten` (`NothingForgotten`), `NoEventLost` (`NoLossOutsideRuns`); their parts are `TypeCorrect`, `CounterCorrect`, `CeilingHolds`, `SemaphoreCorrect`, `NobodyBarges`, `BreakerCorrect`, `BreakerNeverResets` |
| `BufferProofs`, the ledger | `IInv` and `LedgerInv` (`LedgerInvariant`) | `PipelineKeepsLedger` (`LedgerKept`, the refinement) |
| `BufferProofs`, compaction | `CInv` (`CompactionInvariant`) | `WorkerStaysConsistent` (`WorkerConsistent`), `CeilingStaysNearlyKept` (`CeilingIsNearlyKept`), `OnlyOverlapsDoHarm` (`OnlyOverlapsHarm`) |
| `ReconcilerProofs` | `ReconcilerInv` (`ReconcilerInvariant`) | `EventsStayAccounted` (`EventsAccounted`), `BatchStaysConsistent` (`BatchConsistent`), `NeighborsStayCurrent` (`NeighborsAreCurrent`), `BreakerWorks` (`JudgeBreakerWorks`), `ProvenanceStays` (`ProvenanceKept`) |
| `MemoryServicesProofs` | `MemoryInv` (`MemoryInvariant`) | `StateStaysConsistent` (`StateConsistent`), `CacheStaysFresh` (`CacheFresh`), `SearchStaysCurrent` (`SearchIsCurrent`), `NothingEmbeddedAfterStop` (the first half of `ShutdownIsClean`) |
| `IngestProofs` | `IngestInv` (`IngestInvariant`) | `DedupStaysHarmless` (`DedupIsHarmless`), `StageStaysSound` (`StageIsSound`) |
| `DaemonProofs` | `DaemonInv` (`DaemonInvariant`) | `OneCollectorRuns` (`OneCollector`), `DatabaseSurvives` (`DataSurvives`) |
| `ClientsProofs` | `ClientsInv` (`ClientsInvariant`) | `SessionsStayTogether` (`SessionsAgree`), `SavesStayAccounted` (`SavesAreAccounted`) |
| `MarkupProofs` | none: lemmas about operators | `EscapedComesBack`, and what the scans find in each kind of frame (`EventsComeThrough`, `PromptsComeThrough`, `RecordsAreTaken`, `MergesComeThrough`) |
| `TransformationsProofs` | one for each part: `SchemaInv`, `FilesInv`, `ProjectInv`, `ClusterInv`, `SearchInv`, `PagesInv`, `ViewInv`, `BodyInv`, `TextInv` | `BodiesAreScrubbed` (`BodiesArrive`), `TextsComeThrough` (`XmlRoundTrips`), `SchemasEvolve` (`SchemaEvolves`), `ProjectsHoldApart` (`ProjectsAreRespected`), `ClusteringIsSingleLinkage` (`ClusteringIsRight`), `SearchKeepsOrder` (`SearchOrderIsRight`), `ReadersMissNothing` (`ReadersAreServed`), `ViewShowsTheTruth` (`ViewIsTrue`) |

### Assumptions

The limits of the configuration are positive, the bounds the models add are
numbers, and the sets whose elements are counted are finite (projects, hooks,
slots, callers of the embedder, record ids). Ids are ordered by age, so they are
numbers; placeholders (`NoPid`, `NoId`, `NoEvent`, `NoIndex`) are no members of
what they stand in for; the callers of the embedder are the searches, the run
and the backfill. Each is a named `ASSUME` of the module that declares the
constants, and every run evaluates those of its modules. Nothing is assumed
about the order of thresholds: `CompactionSizeThreshold` may be above
`BufferMaxBytes`, in which case no compaction starts.

`Transformations` assumes of its inputs what the code around them guarantees. A word
of a body stands for the place it is at, so that none is both public and private, and
a prompt is one text (`BodiesAssumption`). What events, candidates and answers say is
any sequence of words, tags and entities among them, and the type of an answered record
is one word that opens no tag (`TextsAssumption`). A
ranking lists a record once (`SearchAssumption`; one row per id in the full-text
index and in the vector index, `collector/embedding/rrf.ts:46`). No home directory
lies in another one, and paths are sequences of names (`DirectoriesAssumption`).
Concepts are not empty (`types/schemas.ts:153`) and no namespace is the beginning of
another (`types/schemas.ts:25`: each ends in a slash after the same number of
segments), ids are numbers (`TablesAssumption`). `TiesAssumption` is a statement about the constants
of the fusion alone: for each limit, at most limit + 1 pairs of places give the same
score. With k = 60 and a depth of four times the limit it was computed to be true of the
limits 1 to 60 and of 100; the runs evaluate it for theirs. It is needed: with
more ties than that the fusion, which breaks them by id, may cut the newer of
two records before the join can prefer it (section 6).

### Arguments

*BufferPipeline.* The properties are not inductive by themselves. That the counter
and the fragments it does not know of add up to the file needs to know that a run
in progress has not cleared it and that the start-up scan has not visited a project
twice. That the file keeps near the ceiling needs that sum, and the failed fragments
to be counted across a death, after which the gate knows of them. That a slot is not
lost needs the queue to be free of repetitions and disjoint from the holders, and
finite sets of holders whose cardinality moves by one. That an event is not lost
needs the snapshot of a run to be contained in what the file holds or held, so that
the `clear()` at its end deletes only what has just been processed, or what is in
`late`.

*EventLedger.* The ledger lets a batch be covered only while it waits, and twice
only after a death. `LedgerInv` says why the pipeline obeys: files hold stored
events, no two files the same one; a run's snapshot is still in its file; and
before the first death a file holds processed events only until the run that
processed them ends. The initial states agree, and each action is mapped to a
step of the ledger or to a stutter, one lemma each.

*BufferCompaction.* `IInv` does not carry over, as compaction weakens the ceiling
and the account of losses; its lemmas about semaphore, flags, watcher and breaker
do. `WorkerInv` relates the worker's batch to the limits: it is longer than the
threshold, so replacing it by a summary never takes a file over the ceiling by
more than one answer (`Fits`), although events are appended meanwhile. `FilesInv`
relates the batch to the file: until a run deletes the file the batch is its
beginning; from then on the batch is processed or `late`, and the new file holds
only events whose loss is excused. Before the first death or replace over a
recreated file no event has been covered twice, because files, snapshots and
batches are `Clean`.

*Reconciler.* Between two steps of a run, the members of the clusters still to be
settled are candidates of this batch that no record stands for yet
(`MembersInv`); once a cluster has committed, every event of the buffer is named
by a record or counted as uncited (`SourcesInv`), so that clearing the buffer at
the end loses nothing; a run none of whose clusters committed leaves the buffer as
it is. `StepShapes` reduces the actions to the few ways in which
they change those; `FallbackInv` counts the runs since the breaker opened.

*MemoryServices.* An index that is being built is no part of the cache, so
`CacheFresh` says nothing of it until it is installed. `CacheInv` therefore speaks
of every index that is or may become the cached one: it is what the database
holds, or a write that will invalidate it is pending. `SearchInv` follows a search
from its start: whatever index it may still receive has all that was stored
before it began. That the batch of the backfill is the oldest records is a lemma
about least elements.

*Ingest.* Dedup is harmless because of an order: the events taken since an event
was seen are those behind it in the set (`InOrder`), so forgetting it takes
`DedupMaxSize` others; and because an event that is in the set is stored, or on
its way there (`SeenIsStored`). The stage is a matter of correspondence: a slot is
in use exactly while its task calls the model, queued work means no slot is idle,
and each living child has a slot or was told to go.

*Daemon.* What a command has read of pid file and directory is used several steps
later. `OperatorInv` says of each place a command can be at what still holds of it
there; `Alone` that nobody else spawns, `Known` that a collector is one the pid
file or a command names, `DirectoryInv` that no collector runs without the
directory. All three are claimed, like the properties, until two commands have
overlapped of which one spawns, or the pid file could not be written
(`exposed`): afterwards they are false of the code too (section 6).

*Clients.* At most one hook is about to fill the session file, and whoever else has
an id of the session has that of the file (`SessionInv`, until `exposed`). For a
call, `CallInv` says which of its attempts have been sent, which are answered, and
which the agent no longer waits for; the surplus records are among the last.

*Transformations.* `EachPartBySteps` says that a behaviour stays with its part, so
each part has an invariant of its own: `...AtFirst`, `...Kept` and `...Gives` are
the three facts about it.

Recursive functions are defined by CHOOSE, and an induction theorem with an
operator for its parameter cannot be used; so `RecursionHasSolution` shows once,
with sets, that a function which recurs along a decreasing measure satisfies
its equation: the least relation closed under the equation is a function.
`find()`, the walk to a marked directory and the products of the fusion take
their values from it, with least elements of sets of naturals where one would
write an induction. `OrderedLists` says of `Ordered` what a sort promises, for any total order
of a finite set.

In the union-find ranks grow towards the roots (`ForestOn`), so walks end; path
compression moves nodes to their roots and changes no root; and hanging a root
below another one merges two classes (`HangingMerges`). `ScanTrue` then relates forest and
scan: the ends of each similar pair seen have one root, and no set closed under
the pairs seen separates two candidates of one root, so the classes are the
chains. `AscendingAscends` and `ClustersAtTheEnd` carry that over to the lists.

A body is scanned twice: by the code, which looks for tags with `indexOf` and copies what
lies between the spans, and by a reader who counts tags (`Depth`). Where the reader is outside
every span and in no tag, a span the code finds begins, and it ends where the reader is
outside again (`SpansEnd`, `SpanAfterIs`), so the copy holds just the public words (`ScrubShows`).
A cut text is a beginning of the text and a marker, and the depth at a place depends only
on what stands before it (`CutShowsNoMore`); in the string made of a JSON value a leaf stands
behind others, whose unclosed tags can only make it more private (`DepthOfPart`).
Hence a cut body shows no word that the given one does not (`NoMoreThan`). That it fits is
counted text by text (`TrimMessageKeeps`).

For the XML there are two things to see. Escaping can be undone (`EscapedComesBack`): each of the four
replacements works piece by piece, so a text is cut before and after what is replaced
(`ReplaceJoins`), and since after the first step every `&` begins an entity, the
replacements undo each other in the reverse order. And the scan for a tag, which starts anew behind each
element, takes from a text what it takes from its parts: `Yields` says what it takes
from a part whatever stands around it, nothing from one that is `Quiet` in the tag
(`YieldsNothing`), the inside of a frame (`YieldsOne`), and from two parts one after the
other (`YieldsBoth`). Escaped text holds no `<`, so it is quiet in every tag, and an
element is quiet in every tag but its own; a frame is put together from such parts, so what each
extractor finds in it can be read off. White space is not among what is escaped, so
to trim an escaped text is to escape the trimmed one.

A walk up from a directory finds the nearest marked directory (`NearestIsProject`)
for the installer, which starts below the home as it is named, and for the
hooks, which start below what it links to; `ProjectsAgree` says these are the same.

The fusion cannot cut a record that both rankings prefer, because a better place
is a larger share (`SharesFall`), so the record stands before the other one in
both sorts. That a tie is not cut is a matter of counting: what the fusion keeps
is twice the limit, of which the older of two tied records needs to be among
the first `limit` of the join; were the newer one cut, all that stands before the older would be
kept and better, or tied with it, and more records would tie than `TiesAssumption`
admits (`FewTie`, `TieIsKept`).

A reader of pages has seen every record of the promise that stands before its
offset, counted from the newest: a record that arrives shifts others towards the end, never past
the offset (`PagesInv`). The viewer's graph is that of its data unless it is
stale, and points are told apart by kind and id (`ViewInv`), because concept ids
begin with a namespace and no namespace begins with another. For the files,
`FilesInv` says that what the user put into mcp.json is there between any two
steps of an init or uninstall unless the project is in `cut` or `givenUp`; that ours
is only where an init has run; and of an uninstall under way, which of ours
the steps it has behind it have removed and no later one brings back; for the schema, `SchemaInv`
that the tables are always those of some version: the first migrations, in order.

### Only model-checked

Liveness under fairness, which is out of the prover's reach: `OnlyCallsHoldRuns`
(of `BufferCompaction` and of `Reconciler`), `BufferedIsProcessed`, `BackfillCatchesUp`, `CloseEnds`,
`ExtractionEnds`, `CommandsSucceed`, `ClientsReturn`.

## 5. Plan

1. Model: an abstract ledger for `Reconciler` (every event pending or named by a
   record) in the manner of `EventLedger`; a namespace per buffer entry.

## 6. Where code and documentation differ

Shown by a run:

* `late_append`: an event appended while a run holds its snapshot is deleted by
  the `clear()` at the end of the run (`collector/ingestion/index.ts:567`), though
  `docs/concepts/event-buffer.mdx:80` says every event is ingested eventually. It
  remains in SQLite's events table.
* `handshake`: `createAcpSession` (`collector/pipeline/acp-client.ts:272`) has no
  timeout for initialize and newSession; a kiro-cli that lives and does not answer
  holds an extraction slot for ever. `docs/architecture/extraction.mdx:128` gives
  every compressor call 60 seconds.

Refuted by TLC when checked in place of a run's properties; the definitions are in
the modules, most of them under "What the documentation says":

* `CountIsNeverStale` (`BufferPipeline`): an append that fails after part of its
  line was written (`collector/buffer/store.ts:131`) makes the file grow and not the
  counter, against the comment at `collector/pipeline/index.ts:620`, by which a failed
  append never leaves stale byte counts. `docs/concepts/event-buffer.mdx:97` has appends
  refused above the ceiling; by such fragments, and by nothing else, a file may pass
  it (`CeilingIsKept`).
* `StartAlwaysServes` (`Daemon`): `getDaemonPid` takes any process with "collector" in
  its command line for the daemon (`installer/index.ts:1546`), against its comment, which
  verifies "the process is actually our collector"; start then reports success and
  nothing serves.
* `OtherServersArePreserved` (`Transformations`): uninstall takes any error around
  mcp.json for one of parsing and unlinks the file (`installer/index.ts:1998`), with the
  servers the comment at 1979 preserves. A write of the file that is cut short, in
  init (743) or uninstall (1996), costs them too.
* `TornWriteHarmsNoOther` (`BufferPipeline`): an interrupted append costs its own
  line and the next one (`collector/buffer/store.ts:131`), against
  `docs/concepts/event-buffer.mdx:51`.
* `FailedRunIsRetried` (`BufferPipeline`): after a run that fails nothing arms a
  timer (`collector/buffer/watcher.ts:270`), though the comment at
  `collector/ingestion/index.ts:550` counts on the next idle flush.
* `OverlapHandled` (`BufferCompaction`): extraction's `clear()` under a compaction
  (`collector/buffer/store.ts:364`) brings a processed batch back and loses events
  appended to the new file, against `docs/architecture/compaction.mdx:137`.
* `MergeKeepsClusterSources` (`Reconciler`): a merge decision that cites only
  neighbours drops the candidates of its cluster
  (`collector/ingestion/reconciler.ts:498`), against
  `docs/architecture/extraction.mdx:104`.
* `OpensOnRepeatedDefeat` (`Reconciler`): every attempt of a judge call counts, so
  two defeated clusters can open a breaker set to three
  (`collector/ingestion/reconciler.ts:420`), against
  `docs/architecture/extraction.mdx:136`.
* `OneInference` (`Embedder`): a timed-out inference goes on beside the next one
  (`collector/embedding/onnx-embedder.ts:478-494`), though the comment at 522-533
  says the pipeline sees one at a time.
* `ClickedMemoryIsShown` (`Transformations`): a click on a point drawn before a
  poll opens whatever has its index now (`ui/src/components/CosmosGraph.tsx:139`),
  against `docs/architecture/viewer.mdx:21`.

Met while modelling, without a statement of their own:

* The daemon. Two concurrent starts or inits may leave a daemon no pid file names.
  `stopDaemon` sends SIGKILL after 5 seconds, less than `close()` allows its drains,
  and does not check for a reused pid as `getDaemonPid` does; `getDaemonPid` removes
  the pid file when `ps` cannot be run. A fresh init that throws after the spawn
  removes the directory under the running daemon; a failed upgrade is not rolled
  back; a failed fresh init leaves agent files that uninstall then calls "not
  installed". Uninstall cleans the current project only; a mcp.json that does not parse or cannot
  be read is replaced by init and removed by uninstall. A kill between the seeding of an agent file and its merge leaves
  the agent without hooks.
* Privacy. `privacy.mdx` says nothing inside a private tag reaches storage:
  `POST /v1/memories` is not scrubbed, and an unclosed tag reaches to the end of its
  string, not of the body. `scrubJsonValue` may merge keys that become equal.
  `privacy.mdx:100` and uninstall differ on whether data stays by default.
* Namespaces. `mcp/namespace.ts` calls its algorithm identical to the shim's, but
  it stops at other markers; `detectScope` compares with an unresolved home;
  `getActorId` accepts a blank user name. Host and port in the settings are read
  by shims and MCP only.
* Ranking. The in-memory term ranker compares raw with stemmed words. The fusion
  breaks ties by id and keeps twice the limit (`collector/embedding/rrf.ts:215`)
  before the join breaks them by age (`collector/query/index.ts:412`): with more than
  limit + 1 places of one score a newer record could be cut for an older one. At
  k = 60 this cannot happen for the limits the proof was instantiated for, so it
  is a condition on k and the depth rather than a fault.
* Backfill. Hopeless records that fill a batch hold up all others.
* Listings. Pages are LIMIT and OFFSET of one statement each: a merge between two of
  them shifts records to pages already read, so that a client misses some, and rows of
  one time of creation have no order of their own. `PagesMissNothing` claims neither.
* Clients. Hooks that run while another is between truncate and write of the session
  file may draw ids of their own; `SessionsAgree` sets them aside.
* Viewer. Concept ids with colons are split at the last one
  (`MemoryGraph.tsx:64-67`); the clicked point is remembered after its panel is
  closed; only the newest 500 memories are listed, and only projects with events;
  scoped statistics say one project; polls that overlap may be shown out of order;
  `viewer.mdx` describes a library and filters that are gone. `pipeline/index.ts:126`
  calls `active` the number of kiro-cli processes, of which destroyed ones live up
  to two seconds more.

## 7. Not modelled

Types and schemas (`src/types/`: declarations and validation, no state); log
lines, wording and layout everywhere; vectors, cosine and tokenization (their
results are choices or orders); body limits, routing and static files of the
receiver; the retry of compressor garbage (folded into the outcome of a call) and
the framing of the compaction prompt; installation of dependencies and the texts
of installed files; rendering of the viewer. Torn writes under compaction, several
namespaces in one buffer, and overlapping polls of the viewer are left out of the
models that would hold them. `PROJECT.json` says for each component what is
missing.
