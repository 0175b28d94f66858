---------------------------- MODULE MemoryServices ----------------------------
(***************************************************************************)
(* What happens to memory records outside a run's own decisions: the       *)
(* query layer and its vector cache (query/index.ts, query/vector-cache.ts)*)
(* the retrieval assembler's latency budget (retrieval/index.ts), the      *)
(* backfill worker (backfill/worker.ts), and the order in which the        *)
(* collector starts and closes them (index.ts), over the shared Embedder   *)
(* and Storage.  Runs of the ingestion pipeline appear as the writes they  *)
(* make; Reconciler models how they come to them.                          *)
(*                                                                         *)
(* Every await is a point where the other parts may step in.  That         *)
(* includes the awaits of storage calls: the code is written against the   *)
(* asynchronous StorageBackend interface, and with better-sqlite3 these    *)
(* windows are one turn of the microtask queue wide.                       *)
(***************************************************************************)
EXTENDS Embedder, Storage, FiniteSetsExt

CONSTANTS
    Searchers,               \* requests with retrieval that may be under way at once
    Queries,                 \* for each query that is asked, the records that match it
    OldRecords,              \* records of an earlier release, without embedding
    Poison,                  \* records whose embedding always fails
    BatchSize,               \* backfillBatchSize
    CircuitBreakerFailures,  \* consecutive failures that pause the worker
    MaxCrashes,              \* bound: deaths of the daemon
    NoIndex                  \* stands for a namespace that is not cached

ASSUME CallersHere ==
    /\ Callers = Searchers \cup {"run", "backfill"}
    /\ Searchers \cap {"run", "backfill"} = {}
ASSUME RecordsAssumption ==
    OldRecords \subseteq Ids /\ \A index \in SUBSET Ids : index # NoIndex
ASSUME BackfillAssumption ==
    BatchSize \in Nat \ {0} /\ CircuitBreakerFailures \in Nat \ {0}
ASSUME CrashesAssumption == MaxCrashes \in Nat

VARIABLES
    db,         \* the database file
    gone,       \* history: records a merge deleted
    cache,     \* vector index per namespace, or NoIndex
    search,     \* what each search is at
    run,        \* the ingestion run that writes, if any
    backfill,   \* the backfill loop
    closing,    \* how far CollectorHandle.close() has come
    crashes

serviceVars == <<db, gone, cache, search, run, backfill, closing, crashes>>
vars == <<embedderVars, serviceVars>>

NoSearch == [pc |-> "idle", ns |-> CHOOSE ns \in Namespaces : TRUE, lexical |-> {}, built |-> {}, semantic |-> FALSE,
             sameEpoch |-> TRUE, response |-> "none", settled |-> {}, dead |-> {}]
NoRun == [pc |-> "idle", id |-> 0, embedded |-> FALSE]
BackfillOff == [pc |-> "off", batch |-> {}, failures |-> 0, state |-> "idle", stopped |-> FALSE]

MemoryTypeOK ==
    /\ EmbedderTypeOK
    /\ db \in Database /\ gone \subseteq Ids
    /\ cache \in [Namespaces -> (SUBSET Ids) \cup {NoIndex}]
    /\ \A s \in Searchers :
          /\ search[s].pc \in {"idle", "embedding", "filling", "done"}
          /\ search[s].response \in {"none", "pending", "empty", "results"}
          /\ search[s].lexical \cup search[s].built \subseteq Ids
    /\ run.pc \in {"idle", "embedding", "committing", "storing", "dropping", "updating", "dropping again"}
    /\ run.id \in Ids \cup {0} /\ run.embedded \in BOOLEAN
    /\ backfill.pc \in {"off", "top", "record", "embedding", "dropping", "paused", "sleeping", "ended"}
    /\ backfill.batch \subseteq Ids /\ Cardinality(backfill.batch) <= BatchSize
    /\ backfill.failures \in 0 .. CircuitBreakerFailures
    /\ backfill.state \in {"idle", "running", "paused", "stopped"}
    /\ closing \in {"up", "receiver", "backfill", "draining", "closed"}
    /\ crashes \in 0 .. MaxCrashes

Open == closing # "closed"
Serving == closing = "up" /\ readiness # "loading"
FreshIds == Ids \ (db.records \cup gone \cup {run.id})
NewRecord(id) == id \in FreshIds /\ \A other \in FreshIds : id <= other

-----------------------------------------------------------------------------
(* The vector cache.                                                       *)

\* Mutated form: the entry goes, the epoch stays.
InvalidateEntryOnly(ns) ==
    /\ cache' = [cache EXCEPT ![ns] = NoIndex]
    /\ UNCHANGED search

\* invalidate(ns): drop the entry and bump the epoch.  Of the counter only what
\* its one reader asks is kept: whether it moved since the build began.
Invalidate(ns) ==
    /\ cache' = [cache EXCEPT ![ns] = NoIndex]
    /\ search' = [s \in Searchers |->
                    IF search[s].ns = ns /\ search[s].pc = "filling" THEN [search[s] EXCEPT !.sameEpoch = FALSE] ELSE search[s]]

\* A write of this namespace is committed and its invalidation is still to come.
InvalidationPending(ns) ==
    \/ run.pc \in {"dropping", "dropping again"} /\ NamespaceOf[run.id] = ns
    \/ backfill.pc = "dropping" /\ NamespaceOf[Min(backfill.batch)] = ns

-----------------------------------------------------------------------------
(* Searches and the assembler that races them against its budget.          *)

Searches(s, step) == search' = [search EXCEPT ![s] = step]

\* The search promise resolves; the assembler uses it unless the budget won.
Finish(s, ended) ==
    Searches(s, [ended EXCEPT !.pc = "done",
                    !.response = IF @ = "pending" THEN "results" ELSE @])

\* assemble() and the synchronous head of search(): lexical ranking first,
\* nothing more for a query without tokens, the lexical answer without embedder.
SearchBegins(s, ns, matching, blank) ==
    LET lexical == SearchLexical(db, ns, matching)
        begun == [NoSearch EXCEPT !.pc = "embedding", !.ns = ns, !.lexical = lexical, !.response = "pending",
                    !.settled = IF InvalidationPending(ns) THEN {} ELSE ListEmbeddings(db, ns),
                    !.dead = IF InvalidationPending(ns) THEN {} ELSE gone]
    IN  /\ Serving /\ search[s].pc = "idle"
        /\ blank => matching = {}
        /\ IF blank \/ ~IsReady
           THEN Finish(s, begun) /\ UNCHANGED embedderVars
           ELSE Searches(s, begun) /\ Embed(s)
        /\ UNCHANGED <<db, gone, cache, run, backfill, closing, crashes>>

\* The query embedding failed, or the vector stage did (here: the database is
\* closed): the lexical answer.
SearchFallsBack(s) ==
    /\ search[s].pc = "embedding"
    /\ \/ Take(s, "error")
       \/ Take(s, "vector") /\ ~Open /\ cache[search[s].ns] = NoIndex
    /\ Finish(s, search[s])
    /\ UNCHANGED <<db, gone, cache, run, backfill, closing, crashes>>

\* The join: lexical records as they were read, vector-only ones from the index.
Result(s) == search[s].lexical \cup search[s].built

\* getOrLoad(): a hit.
SearchHits(s) ==
    /\ search[s].pc = "embedding" /\ cache[search[s].ns] # NoIndex
    /\ Take(s, "vector")
    /\ Finish(s, [search[s] EXCEPT !.semantic = TRUE, !.built = cache[search[s].ns]])
    /\ UNCHANGED <<db, gone, cache, run, backfill, closing, crashes>>

\* getOrLoad(): a miss; epoch and database are read, the build is awaited.
SearchMisses(s) ==
    /\ search[s].pc = "embedding" /\ cache[search[s].ns] = NoIndex /\ Open
    /\ Take(s, "vector")
    /\ Searches(s, [search[s] EXCEPT !.pc = "filling", !.semantic = TRUE,
                       !.built = ListEmbeddings(db, search[s].ns) \cap ListMemoryRecords(db, search[s].ns)])
    /\ UNCHANGED <<db, gone, cache, run, backfill, closing, crashes>>

\* Mutated form: the build is always installed.
InstallAlways(s) == cache' = [cache EXCEPT ![search[s].ns] = search[s].built]

\* The build is installed only if no invalidation came in between.
Install(s) ==
    IF search[s].sameEpoch
    THEN cache' = [cache EXCEPT ![search[s].ns] = search[s].built]
    ELSE UNCHANGED cache

FillReturns(s) ==
    /\ search[s].pc = "filling"
    /\ Install(s)
    /\ Finish(s, search[s])
    /\ UNCHANGED <<embedderVars, db, gone, run, backfill, closing, crashes>>

\* The budget timer wins: the request is answered without context. Only the
\* assembler has one, GET /v1/memories/search waits for its search: so nothing
\* makes this step happen.
BudgetExpires(s) ==
    /\ search[s].response = "pending"
    /\ Searches(s, [search[s] EXCEPT !.response = "empty"])
    /\ UNCHANGED <<embedderVars, db, gone, cache, run, backfill, closing, crashes>>

\* The request is over and its search too.
RequestEnds(s) ==
    /\ search[s].pc = "done"
    /\ Searches(s, NoSearch)
    /\ UNCHANGED <<embedderVars, db, gone, cache, run, backfill, closing, crashes>>

-----------------------------------------------------------------------------
(* Writers: an ingestion run, and observations saved over HTTP.            *)

RunUnchanged == UNCHANGED <<search, backfill, closing, crashes>>

\* A run embeds its candidate (or a summary) before it commits.
RunEmbeds(id) ==
    /\ run.pc = "idle" /\ readiness # "loading" /\ closing # "closed" /\ NewRecord(id)
    /\ run' = [NoRun EXCEPT !.pc = "embedding", !.id = id]
    /\ Embed("run")
    /\ UNCHANGED <<db, gone, cache>> /\ RunUnchanged

\* The answer decides whether the record is committed with a vector; the run
\* then takes the reconciled commit or the direct one.
RunResumes(outcome, next) ==
    /\ run.pc = "embedding"
    /\ Take("run", outcome)
    /\ run' = [run EXCEPT !.pc = next, !.embedded = (outcome = "vector")]
    /\ UNCHANGED <<db, gone, cache>> /\ RunUnchanged

\* commitKeepSeparate (dead = {}) and commitMerge: one transaction.
RunCommits(dead) ==
    /\ run.pc = "committing" /\ Open
    /\ dead \subseteq InNamespace(db.records, NamespaceOf[run.id])
    /\ db' = Transaction(db, run.id, dead, run.embedded)
    /\ gone' = gone \cup dead
    /\ run' = [run EXCEPT !.pc = "dropping again"]
    /\ UNCHANGED <<embedderVars, cache>> /\ RunUnchanged

\* The direct commit: the record, an invalidation, its vector, another one.
RunStores ==
    /\ run.pc = "storing" /\ Open
    /\ db' = InsertRecord(db, run.id)
    /\ run' = [run EXCEPT !.pc = "dropping"]
    /\ UNCHANGED <<embedderVars, gone, cache>> /\ RunUnchanged

RunUpdates ==
    /\ run.pc = "updating" /\ Open
    /\ db' = UpdateEmbedding(db, run.id)
    /\ run' = [run EXCEPT !.pc = "dropping again"]
    /\ UNCHANGED <<embedderVars, gone, cache>> /\ RunUnchanged

RunInvalidates ==
    /\ run.pc \in {"dropping", "dropping again"}
    /\ Invalidate(NamespaceOf[run.id])
    /\ run' = IF run.pc = "dropping" /\ run.embedded THEN [run EXCEPT !.pc = "updating"] ELSE NoRun
    /\ UNCHANGED <<embedderVars, db, gone, backfill, closing, crashes>>

\* A write after close() throws; the run fails and keeps its buffer.
RunRefused ==
    /\ run.pc \in {"committing", "storing", "updating"} /\ ~Open
    /\ run' = NoRun
    /\ UNCHANGED <<embedderVars, db, gone, cache>> /\ RunUnchanged

\* POST /v1/memories: a record without vector, and no invalidation.
SaveMemory(id) ==
    /\ Serving /\ NewRecord(id)
    /\ db' = InsertRecord(db, id)
    /\ UNCHANGED <<embedderVars, gone, cache, run>> /\ RunUnchanged

-----------------------------------------------------------------------------
(* The backfill worker.                                                    *)

Backfills(step) ==
    /\ backfill' = step
    /\ UNCHANGED <<gone, run, closing, crashes>>

Ended(b) == [b EXCEPT !.pc = "ended", !.batch = {},
                !.state = IF b.stopped THEN "stopped" ELSE "idle"]

\* The top of the loop: leave, or fetch the next batch, oldest first.
BackfillLists ==
    /\ backfill.pc = "top"
    /\ LET batch == ListRecordsWithoutEmbedding(db, BatchSize)
       IN  Backfills(IF backfill.stopped \/ ~IsReady \/ ~Open \/ batch = {}
                     THEN Ended(backfill)
                     ELSE [backfill EXCEPT !.pc = "record", !.batch = batch, !.state = "running"])
    /\ UNCHANGED <<embedderVars, db, cache, search>>

\* The next record of the batch.
BackfillNext ==
    /\ backfill.pc = "record" /\ backfill.batch # {} /\ ~backfill.stopped
    /\ Backfills([backfill EXCEPT !.pc = "embedding"])
    /\ Embed("backfill")
    /\ UNCHANGED <<db, cache, search>>

\* The batch is done, or stop() was called: leave, or sleep idleMs.
BackfillBatchEnds ==
    /\ backfill.pc = "record" /\ (backfill.batch = {} \/ backfill.stopped)
    /\ Backfills(IF backfill.stopped THEN Ended(backfill) ELSE [backfill EXCEPT !.pc = "sleeping"])
    /\ UNCHANGED <<embedderVars, db, cache, search>>

\* processRecord(): the vector is stored.
BackfillWrites ==
    /\ backfill.pc = "embedding" /\ Open
    /\ Take("backfill", "vector")
    /\ db' = UpdateEmbedding(db, Min(backfill.batch))
    /\ Backfills([backfill EXCEPT !.pc = "dropping"])
    /\ UNCHANGED <<cache, search>>

\* ... and the namespace invalidated.
BackfillInvalidates ==
    /\ backfill.pc = "dropping"
    /\ Invalidate(NamespaceOf[Min(backfill.batch)])
    /\ Backfills([backfill EXCEPT !.pc = "record", !.batch = @ \ {Min(@)}, !.failures = 0])
    /\ UNCHANGED <<embedderVars, db>>

\* Mutated form: the loop gives up on a failed record.
AfterFailureLeaves(b) == Ended(b)

\* A failure counts; enough of them in a row pause the worker, whether or not
\* stop() has been called meanwhile.
AfterFailure(b) ==
    IF b.failures + 1 >= CircuitBreakerFailures
    THEN [b EXCEPT !.pc = "paused", !.state = "paused", !.failures = CircuitBreakerFailures]
    ELSE [b EXCEPT !.pc = "record", !.batch = @ \ {Min(@)}, !.failures = @ + 1]

\* processRecord(): the embedding or the write failed.
BackfillFails ==
    /\ backfill.pc = "embedding"
    /\ Take("backfill", "error") \/ (Take("backfill", "vector") /\ ~Open)
    /\ Backfills(AfterFailure(backfill))
    /\ UNCHANGED <<db, cache, search>>

\* The end of a pause or of the sleep between two batches.
Woken(b) ==
    IF b.pc = "sleeping" THEN [b EXCEPT !.pc = "top"]
    ELSE IF b.stopped THEN Ended(b)
    ELSE [b EXCEPT !.pc = "record", !.batch = @ \ {Min(@)}, !.failures = 0, !.state = "running"]

BackfillWakes ==
    /\ backfill.pc \in {"paused", "sleeping"}
    /\ Backfills(Woken(backfill))
    /\ UNCHANGED <<embedderVars, db, cache, search>>

-----------------------------------------------------------------------------
(* Start and close of the collector.                                       *)

\* startCollector(): the model is awaited, then the worker starts if it loaded.
ModelLoads(outcome) ==
    /\ Load(outcome)
    /\ backfill' = IF outcome = "ready" THEN [BackfillOff EXCEPT !.pc = "top"] ELSE BackfillOff
    /\ UNCHANGED <<db, gone, cache, search, run, closing, crashes>>

CloseBegins ==
    /\ Serving
    /\ closing' = "receiver"
    /\ UNCHANGED <<embedderVars, db, gone, cache, search, run, backfill, crashes>>

\* stop(): raise the flag and end a sleep at once.
StopRequested(b) ==
    LET stopped == [b EXCEPT !.stopped = TRUE]
    IN  IF b.pc \in {"off", "ended"} THEN [stopped EXCEPT !.state = "stopped"]
        ELSE IF b.pc \in {"paused", "sleeping"} THEN Woken(stopped)
        ELSE stopped

\* The receiver has answered its last request; then backfillWorker.stop().
ReceiverCloses ==
    /\ closing = "receiver" /\ \A s \in Searchers : search[s].response # "pending"
    /\ closing' = "backfill"
    /\ backfill' = StopRequested(backfill)
    /\ UNCHANGED <<embedderVars, db, gone, cache, search, run, crashes>>

\* Mutated form: stop() waits for a loop to end, with no timeout.
StopWaitsForLoop == closing = "backfill" /\ backfill.pc = "ended"

\* stop() returns when no loop is left, or when its timeout has passed, which
\* it may at any time.
StopReturns == closing = "backfill"

BackfillStops ==
    /\ StopReturns
    /\ closing' = "draining"
    /\ backfill' = [backfill EXCEPT !.state = "stopped"]
    /\ UNCHANGED <<embedderVars, db, gone, cache, search, run, crashes>>

\* drain() returns when no run is left or after its timeout; dispose() and
\* storage.close() follow without another await.
CollectorCloses ==
    /\ closing = "draining"
    /\ closing' = "closed"
    /\ Dispose
    /\ UNCHANGED <<db, gone, cache, search, run, backfill, crashes>>

\* The process dies, or ends after close(): memory is lost, the file stays.
Restart ==
    /\ crashes < MaxCrashes /\ readiness # "loading"
    /\ crashes' = crashes + 1
    /\ readiness' = "loading" /\ disposed' = FALSE /\ tail' = <<>> /\ abandoned' = 0
    /\ answer' = [c \in Callers |-> "none"]
    /\ cache' = [ns \in Namespaces |-> NoIndex]
    /\ search' = [s \in Searchers |-> NoSearch] /\ run' = NoRun /\ backfill' = BackfillOff
    /\ closing' = "up"
    /\ UNCHANGED <<db, gone>>

-----------------------------------------------------------------------------
Init ==
    /\ EmbedderInit
    /\ db = [EmptyDatabase EXCEPT !.records = OldRecords, !.fts = OldRecords]
    /\ gone = {}
    /\ cache = [ns \in Namespaces |-> NoIndex]
    /\ search = [s \in Searchers |-> NoSearch]
    /\ run = NoRun
    /\ backfill = BackfillOff
    /\ closing = "up"
    /\ crashes = 0

\* The text the oldest call embeds cannot be embedded.
Hopeless == Head(tail) = "backfill" /\ Min(backfill.batch) \in Poison

EmbedderSteps ==
    /\ \/ \E outcome \in {"vector", "error"} : InferenceEnds(outcome) /\ (Hopeless => outcome = "error")
       \/ InferenceTimesOut
       \/ AbandonedInferenceEnds
    /\ UNCHANGED serviceVars

Searching ==
    \E s \in Searchers :
        \/ \E ns \in Namespaces, matching \in Queries, blank \in BOOLEAN : SearchBegins(s, ns, matching, blank)
        \/ SearchFallsBack(s) \/ SearchHits(s) \/ SearchMisses(s) \/ FillReturns(s)
        \/ BudgetExpires(s) \/ RequestEnds(s)

Writing ==
    \/ \E id \in FreshIds : RunEmbeds(id) \/ SaveMemory(id)
    \/ \E outcome \in {"vector", "error"}, next \in {"committing", "storing"} : RunResumes(outcome, next)
    \/ \E dead \in SUBSET db.records : RunCommits(dead)
    \/ RunStores \/ RunUpdates \/ RunInvalidates \/ RunRefused

Backfilling ==
    \/ BackfillLists \/ BackfillNext \/ BackfillBatchEnds \/ BackfillWrites
    \/ BackfillInvalidates \/ BackfillFails \/ BackfillWakes

Closing == CloseBegins \/ ReceiverCloses \/ BackfillStops \/ CollectorCloses

Next ==
    \/ \E outcome \in {"ready", "failed"} : ModelLoads(outcome)
    \/ EmbedderSteps \/ Searching \/ Writing \/ Backfilling \/ Closing \/ Restart

Spec == Init /\ [][Next]_vars

\* A search goes on when its embedding or its index is there.
SearchGoesOn(s) == SearchFallsBack(s) \/ SearchHits(s) \/ SearchMisses(s) \/ FillReturns(s)

\* Timers fire, but for the budget's, which not every search has; promises settle
\* and their continuations run.  A record that can be embedded is not timed out
\* for ever.
Fairness ==
    /\ WF_vars(\E outcome \in {"ready", "failed"} : ModelLoads(outcome))
    /\ WF_vars(EmbedderSteps) /\ WF_vars(Backfilling)
    /\ WF_vars(ReceiverCloses \/ BackfillStops \/ CollectorCloses)
    /\ \A s \in Searchers : WF_vars(SearchGoesOn(s))
    /\ SF_vars(EmbedderSteps /\ answer'["backfill"] = "vector")

FairSpec == Spec /\ Fairness

-----------------------------------------------------------------------------
(* Properties.                                                             *)

\* Whatever a merge, a save, a backfill write and a direct commit do in which
\* order: the full-text table lists exactly the records, and no vector is left
\* of a record that was deleted while the backfill was embedding it.
DatabaseConsistent == IndexesAgree(db)

\* ... and every service's own state (the gate, the cache, the failure count of
\* the backfill, open searches) stays in range while they share the database.
StateConsistent == MemoryTypeOK /\ DatabaseConsistent

\* A cached index is that of the database, or the write that outdated it is
\* about to drop it: no build that began before a write survives it.
CacheFresh ==
    \A ns \in Namespaces :
        cache[ns] # NoIndex => cache[ns] = ListEmbeddings(db, ns) \/ InvalidationPending(ns)

\* A search whose vector stage ran saw every vector that was stored when it
\* began, unless a merge has deleted the record since.
SearchSeesStored ==
    \A s \in Searchers :
        search[s].semantic => search[s].settled \subseteq search[s].built \cup gone

\* A search never returns a record whose deletion was over when it began.
NothingResurrected ==
    \A s \in Searchers : search[s].pc = "done" => Result(s) \cap search[s].dead = {}

\* A search (lexical result, embedding, index, join, with writes at every await)
\* answers from a database that existed: nothing stored before it is missed by
\* its vector stage, nothing deleted before it is returned.
SearchIsCurrent == SearchSeesStored /\ NothingResurrected

\* After stop() the backfill asks for no further embedding: what close() waits
\* for is one record's work.
NoEmbedAfterStop ==
    [][backfill.stopped /\ ~Waiting("backfill") => ~Waiting("backfill")']_vars

\* Every record without embedding that the worker finds is embedded, however
\* many hopeless ones come before it, as long as these do not fill a batch.
BackfillCatchesUp ==
    \A id \in Ids \ Poison :
        id \in db.records \ db.vectors /\ backfill.pc \notin {"off", "ended"}
            ~> id \notin db.records \ db.vectors \/ backfill.stopped \/ readiness = "loading"

\* close() ends, whatever the embedder, the worker and open requests are at.
CloseEnds == closing # "up" ~> closing = "closed" \/ readiness = "loading"

\* stop() and close(): no further embedding is begun, and the waits end.
ShutdownIsClean == NoEmbedAfterStop /\ CloseEnds
===============================================================================
