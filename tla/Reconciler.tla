----------------------------- MODULE Reconciler -----------------------------
(***************************************************************************)
(* What an ingestion run does with a batch: candidate memories are         *)
(* extracted from it, clustered, compared with the memory records already  *)
(* stored, and committed cluster by cluster, after a judge model has said  *)
(* whether a cluster is merged with its neighbours or kept separate.       *)
(*                                                                         *)
(*   collector/ingestion/candidate.ts        extraction                    *)
(*   collector/ingestion/clustering.ts       clusters                      *)
(*   collector/ingestion/reconciler.ts       neighbours, judge, commits    *)
(*   collector/ingestion/circuit-breaker.ts  the judge breaker             *)
(*   collector/ingestion/index.ts            doRun: fallback, clearing     *)
(*   collector/query/vector-cache.ts         the cached index              *)
(*   collector/receiver/index.ts             POST /v1/memories             *)
(*                                                                         *)
(* One project: its runs exclude each other (InFlightMatchesRun of module  *)
(* BufferPipeline) and no other project's run touches its namespace, but   *)
(* searches, saves and the backfill do. Events appended during a run, and  *)
(* what clear() does to them, are that module's subject: here events are   *)
(* appended between runs.                                                  *)
(*                                                                         *)
(* Data. A record is its id, the events it names as sources, whether it    *)
(* has an embedding, and (history) the candidates it stands for. Texts and *)
(* vectors are left out: any candidates may be similar, any embedded       *)
(* record may be a neighbour, and the judge may answer anything.           *)
(***************************************************************************)
EXTENDS Integers, Sequences, FiniteSets

CONSTANTS
  Events,                 \* events that may be appended
  Ids,                    \* bound: record ids, a finite set of numbers
  MaxCandidates,          \* bound: candidates per batch
  NeighborPoolMaxSize,    \* neighbours handed to the judge
  MaxConsecutiveFailures, \* failed judge calls that open the breaker (>=)
  ReconciliationEnabled,  \* the feature flag
  MaxDisturbances         \* bound: memories saved by agents themselves, and deaths
                          \* of the daemon, together

ASSUME ReconcilerAssumption ==
  /\ Ids \subseteq Nat /\ IsFiniteSet(Ids)
  /\ MaxCandidates \in Nat \ {0}
  /\ NeighborPoolMaxSize \in Nat \ {0}
  /\ MaxConsecutiveFailures \in Nat \ {0}
  /\ ReconciliationEnabled \in BOOLEAN
  /\ MaxDisturbances \in Nat

JudgeAttempts == 2

VARIABLES
  \* durable
  pending,   \* events in the buffer
  memory,    \* rows of memory_records
  \* in memory
  cached,    \* the vector cache holds an index of the namespace
  index,     \* its entries, {} without one
  breaker,   \* judge breaker: consecutiveFailures and open
  phase,     \* where doRun is
  openAtStart,      \* circuitBreakerOpenAtStart
  clusters,         \* clusters not settled yet, the current one first
  neighbors,        \* neighbours of the current cluster
  failedAttempts,   \* judge calls that failed for it
  cited,            \* ids of the merge decision being embedded
  anyCommitted, anyJudgeFailure,
  backfilling,      \* the backfill worker of this process is not done yet
  crashes,
  \* history, read by properties only
  appended,   \* events ever appended
  skipped,    \* events of batches without a candidate
  uncited,    \* events of batches of which a merge cited no candidate
  fallbacks,  \* completed runs in a row that bypassed an open breaker
  defeats     \* clusters in a row whose judge gave no usable answer

cache == <<cached, index>>
run == <<phase, openAtStart, clusters, neighbors, failedAttempts, cited,
         anyCommitted, anyJudgeFailure>>
life == <<backfilling, crashes>>
history == <<appended, skipped, uncited, fallbacks, defeats>>
vars == <<pending, memory, cache, breaker, run, life, history>>

Record == [id : Ids, sources : SUBSET Events, embedded : BOOLEAN, covers : SUBSET Ids]
Cluster == [members : SUBSET Record, centroid : BOOLEAN]

(***************************************************************************)
(* Phases of doRun: compressor called; direct commit under way; current    *)
(* cluster not looked up yet; judge called; cluster to be committed as it  *)
(* is; summary being embedded.                                             *)
(***************************************************************************)
Phase == {"idle", "extracting", "committing", "clustering", "judging",
          "separating", "merging"}

TypeOK ==
  /\ pending \subseteq Events
  /\ memory \subseteq Record
  /\ cached \in BOOLEAN
  /\ index \subseteq Record
  /\ breaker \in [consecutiveFailures : Nat, open : BOOLEAN]
  /\ phase \in Phase
  /\ openAtStart \in BOOLEAN
  /\ clusters \in Seq(Cluster)
  /\ neighbors \subseteq Record
  /\ failedAttempts \in 0 .. JudgeAttempts - 1
  /\ cited \subseteq Ids
  /\ anyCommitted \in BOOLEAN
  /\ anyJudgeFailure \in BOOLEAN
  /\ backfilling \in BOOLEAN
  /\ crashes \in Nat
  /\ appended \cup skipped \cup uncited \subseteq Events
  /\ fallbacks \in Nat
  /\ defeats \in Nat

-----------------------------------------------------------------------------
(* Records. *)

IdsOf(records) == {r.id : r \in records}
Sources(records) == UNION {r.sources : r \in records}
Covers(records) == UNION {r.covers : r \in records}
Embedded(records) == {r \in records : r.embedded}

\* A ulid is new: it is no record's, and no candidate's that one stands for.
InHand == memory \cup UNION {clusters[i].members : i \in DOMAIN clusters}
FreshIds == Ids \ (IdsOf(InHand) \cup Covers(InHand))

IsFirstOf(ids, all) == ids \subseteq all /\ \A i \in ids, j \in all \ ids : i < j

-----------------------------------------------------------------------------
(* The vector cache: loaded on demand, dropped after every write. *)

\* Variant: the index outlives the records it was built from.
DropIndexNever == UNCHANGED cache

DropIndex == cached' = FALSE /\ index' = {}

LoadIndex ==
  /\ cached' = TRUE
  /\ index' = IF cached THEN index ELSE Embedded(memory)

-----------------------------------------------------------------------------
(* The judge breaker. *)

RecordFailures(b, failures) ==
  LET count == b.consecutiveFailures + failures
  IN [consecutiveFailures |-> count,
      open |-> b.open \/ (failures > 0 /\ count >= MaxConsecutiveFailures)]

RecordSuccess(b) == [b EXCEPT !.consecutiveFailures = 0]

\* Variant: a run that never asked the judge leaves the breaker as it is.
OnRunCompleteIfAsked(b, judgeFailed) ==
  IF judgeFailed \/ openAtStart THEN b ELSE [consecutiveFailures |-> 0, open |-> FALSE]

OnRunComplete(b, judgeFailed) ==
  IF judgeFailed THEN b ELSE [consecutiveFailures |-> 0, open |-> FALSE]

-----------------------------------------------------------------------------
(* The end of a run. *)

Idle ==
  /\ phase' = "idle"
  /\ openAtStart' = FALSE
  /\ clusters' = <<>>
  /\ neighbors' = {}
  /\ failedAttempts' = 0
  /\ cited' = {}
  /\ anyCommitted' = FALSE
  /\ anyJudgeFailure' = FALSE

\* The buffer is cleared, and the breaker told.
Complete(judgeFailed) ==
  /\ pending' = {}
  /\ breaker' = OnRunComplete(breaker, judgeFailed)
  /\ defeats' = IF judgeFailed THEN defeats ELSE 0
  /\ Idle

\* Variant: a run in which every cluster failed clears the buffer too.
EndOfRunClears(committed) == Complete(anyJudgeFailure)

\* The buffer is kept if no cluster committed.
EndOfRun(committed) ==
  \/ /\ committed
     /\ Complete(anyJudgeFailure)
  \/ /\ ~committed
     /\ breaker' = OnRunComplete(breaker, anyJudgeFailure)
     /\ defeats' = IF anyJudgeFailure THEN defeats ELSE 0
     /\ Idle
     /\ UNCHANGED pending

\* The next cluster, with the buffer's fate so far.
NextCluster(remaining, committed) ==
  /\ clusters' = remaining
  /\ phase' = "clustering"
  /\ neighbors' = {}
  /\ failedAttempts' = 0
  /\ cited' = {}
  /\ anyCommitted' = committed
  /\ UNCHANGED <<pending, breaker, openAtStart, anyJudgeFailure, fallbacks, defeats>>

\* Variant: the last cluster decides whether the buffer is kept.
SettleLastDecides(commits) ==
  \/ /\ Len(clusters) > 1
     /\ NextCluster(Tail(clusters), commits)
  \/ /\ Len(clusters) = 1
     /\ EndOfRun(commits)
     /\ fallbacks' = 0

\* Variant: a cluster that failed is tried again.
SettleRetries(commits) ==
  \/ /\ ~commits
     /\ NextCluster(clusters, anyCommitted)
  \/ /\ commits
     /\ SettleLastDecides(TRUE)

\* The current cluster is done with, one way or another.
Settle(commits) ==
  \/ /\ Len(clusters) > 1
     /\ NextCluster(Tail(clusters), anyCommitted \/ commits)
  \/ /\ Len(clusters) = 1
     /\ EndOfRun(anyCommitted \/ commits)
     /\ fallbacks' = 0

-----------------------------------------------------------------------------
(* Extraction. *)

AppendEvent(e) ==
  /\ phase = "idle"
  /\ e \notin appended
  /\ appended' = appended \cup {e}
  /\ pending' = pending \cup {e}
  /\ UNCHANGED <<memory, cache, breaker, run, life, skipped, uncited, fallbacks, defeats>>

StartRun ==
  /\ phase = "idle"
  /\ pending # {}
  /\ phase' = "extracting"
  /\ openAtStart' = breaker.open
  /\ UNCHANGED <<pending, memory, cache, breaker, clusters, neighbors, failedAttempts,
                 cited, anyCommitted, anyJudgeFailure, life, history>>

\* The timer of an event that an earlier run's clear() deleted: a run without
\* entries succeeds, and so closes the breaker.
EmptyRun ==
  /\ phase = "idle"
  /\ pending = {} /\ appended # {}
  /\ Complete(FALSE)
  /\ fallbacks' = 0
  /\ UNCHANGED <<memory, cache, life, appended, skipped, uncited>>

\* The breaker is not touched.
ExtractionFails ==
  /\ phase = "extracting"
  /\ Idle
  /\ UNCHANGED <<pending, memory, cache, breaker, life, history>>

ExtractsNothing ==
  /\ phase = "extracting"
  /\ Complete(FALSE)
  /\ skipped' = skipped \cup pending
  /\ fallbacks' = 0
  /\ UNCHANGED <<memory, cache, life, appended, uncited>>

\* Every candidate names the whole batch; the embedder may fail on any.
Candidates(ids) ==
  {candidates \in SUBSET {[id |-> i, sources |-> pending, embedded |-> embeds,
                           covers |-> {i}] : i \in ids, embeds \in BOOLEAN} :
     \A i \in ids : Cardinality({c \in candidates : c.id = i}) = 1}

\* The union-find forests: an element's root is no later than itself. A candidate
\* without an embedding stays alone.
Forests(candidates) ==
  {root \in [IdsOf(candidates) -> IdsOf(candidates)] :
     /\ \A i \in IdsOf(candidates) : root[i] <= i /\ root[root[i]] = root[i]
     /\ \A c \in candidates \ Embedded(candidates) :
          \A i \in IdsOf(candidates) \ {c.id} : root[i] # root[c.id]}

Increasing(ids) ==
  {order \in [1 .. Cardinality(ids) -> ids] :
     \A i, j \in 1 .. Cardinality(ids) : i < j => order[i] < order[j]}

ClusterOf(candidates, root, r) ==
  LET members == {c \in candidates : root[c.id] = r}
  IN [members |-> members, centroid |-> members = Embedded(members)]

\* Clusters by similarity, in the order of their first members.
Clusterings(candidates) ==
  UNION {{[k \in DOMAIN order |-> ClusterOf(candidates, root, order[k])] :
            order \in Increasing({root[i] : i \in IdsOf(candidates)})} :
         root \in Forests(candidates)}

Singletons(candidates) ==
  {cs \in Clusterings(candidates) : Len(cs) = Cardinality(candidates)}

Fallback == ~ReconciliationEnabled \/ openAtStart

Extracts(n) ==
  /\ phase = "extracting"
  /\ \E ids \in SUBSET FreshIds :
       /\ Cardinality(ids) = n
       /\ IsFirstOf(ids, FreshIds)
       /\ \E candidates \in Candidates(ids) :
            IF Fallback
            THEN /\ phase' = "committing"
                 /\ clusters' \in Singletons(candidates)
            ELSE /\ phase' = "clustering"
                 /\ clusters' \in Clusterings(candidates)
  /\ UNCHANGED <<pending, memory, cache, breaker, openAtStart, neighbors,
                 failedAttempts, cited, anyCommitted, anyJudgeFailure, life, history>>

\* Direct commit: no transaction spans the candidates.
CommitDirectly ==
  /\ phase = "committing"
  /\ memory' = memory \cup Head(clusters).members
  /\ DropIndex
  /\ \/ /\ Len(clusters) > 1
        /\ clusters' = Tail(clusters)
        /\ UNCHANGED <<pending, breaker, phase, openAtStart, neighbors, failedAttempts,
                       cited, anyCommitted, anyJudgeFailure, fallbacks, defeats>>
     \/ /\ Len(clusters) = 1
        /\ Complete(FALSE)
        /\ fallbacks' = IF openAtStart THEN fallbacks + 1 ELSE 0
  /\ UNCHANGED <<life, appended, skipped, uncited>>

-----------------------------------------------------------------------------
(* One cluster: processCluster. *)

NullCentroid ==
  /\ phase = "clustering"
  /\ ~Head(clusters).centroid
  /\ phase' = "separating"
  /\ UNCHANGED <<pending, memory, cache, breaker, openAtStart, clusters, neighbors,
                 failedAttempts, cited, anyCommitted, anyJudgeFailure, life, history>>

LookupNeighbors ==
  /\ phase = "clustering"
  /\ Head(clusters).centroid
  /\ LoadIndex
  /\ neighbors' \in {pool \in SUBSET index' : Cardinality(pool) <= NeighborPoolMaxSize}
  /\ phase' = IF neighbors' = {} THEN "separating" ELSE "judging"
  /\ UNCHANGED <<pending, memory, breaker, openAtStart, clusters, failedAttempts,
                 cited, anyCommitted, anyJudgeFailure, life, history>>

\* A call that answers garbage is repeated once.
JudgeGarbles ==
  /\ phase = "judging"
  /\ failedAttempts + 1 < JudgeAttempts
  /\ failedAttempts' = failedAttempts + 1
  /\ UNCHANGED <<pending, memory, cache, breaker, phase, openAtStart, clusters, neighbors,
                 cited, anyCommitted, anyJudgeFailure, life, history>>

\* A timeout, or garbage for the last time: keep the members separate. Every
\* failed attempt counts on the breaker.
JudgeGivesUp ==
  /\ phase = "judging"
  /\ breaker' = RecordFailures(breaker, failedAttempts + 1)
  /\ anyJudgeFailure' = TRUE
  /\ defeats' = defeats + 1
  /\ failedAttempts' = 0
  /\ phase' = "separating"
  /\ UNCHANGED <<pending, memory, cache, openAtStart, clusters, neighbors, cited,
                 anyCommitted, life, appended, skipped, uncited, fallbacks>>

\* Keep separate, or merge: a merge that cites no known id is not a merge.
JudgeDecides(ids) ==
  /\ phase = "judging"
  /\ ids \subseteq IdsOf(Head(clusters).members \cup neighbors)
  /\ breaker' = RecordSuccess(RecordFailures(breaker, failedAttempts))
  /\ anyJudgeFailure' = (anyJudgeFailure \/ failedAttempts > 0)
  /\ defeats' = 0
  /\ failedAttempts' = 0
  /\ cited' = ids
  /\ phase' = IF ids = {} THEN "separating" ELSE "merging"
  /\ UNCHANGED <<pending, memory, cache, openAtStart, clusters, neighbors,
                 anyCommitted, life, appended, skipped, uncited, fallbacks>>

CommitKeepSeparate ==
  /\ phase = "separating"
  /\ memory' = memory \cup Head(clusters).members
  /\ DropIndex
  /\ Settle(TRUE)
  /\ UNCHANGED <<life, appended, skipped, uncited>>

MergedMembers ==
  {r \in Head(clusters).members \cup neighbors : r.id \in cited}

\* Variant: the sources of the neighbours are forgotten.
SummaryOfMembers(id, embeds) ==
  [id |-> id, embedded |-> embeds, covers |-> Covers(MergedMembers),
   sources |-> Sources(MergedMembers \ neighbors)]

Summary(id, embeds) ==
  [id |-> id, embedded |-> embeds, covers |-> Covers(MergedMembers),
   sources |-> Sources(MergedMembers)]

DeletedRecords == {r \in memory : r.id \in cited}

\* One transaction; the embedding of the summary is there or not.
Merge ==
  \E id \in FreshIds, embeds \in BOOLEAN :
    /\ IsFirstOf({id}, FreshIds)
    /\ memory' = (memory \ DeletedRecords) \cup {Summary(id, embeds)}

CommitMerge ==
  /\ phase = "merging"
  /\ Merge
  /\ DropIndex
  /\ uncited' = IF \E c \in Head(clusters).members : c.id \in cited
                THEN uncited ELSE uncited \cup pending
  /\ Settle(TRUE)
  /\ UNCHANGED <<life, appended, skipped>>

\* The look-up or the transaction throws: the next cluster goes on.
ClusterFails ==
  /\ phase \in {"clustering", "separating", "merging"}
  /\ phase = "clustering" => Head(clusters).centroid
  /\ Settle(FALSE)
  /\ UNCHANGED <<memory, cache, life, appended, skipped, uncited>>

-----------------------------------------------------------------------------
(* Other callbacks, and the death of the daemon. *)

SearchLoadsIndex ==
  /\ ~cached
  /\ LoadIndex
  /\ UNCHANGED <<pending, memory, breaker, run, life, history>>

\* The worker looks for records without an embedding once per process.
BackfillEmbeds(r) ==
  /\ backfilling
  /\ ~r.embedded
  /\ memory' = (memory \ {r}) \cup {[r EXCEPT !.embedded = TRUE]}
  /\ DropIndex
  /\ UNCHANGED <<pending, breaker, run, life, history>>

BackfillEnds ==
  /\ backfilling
  /\ backfilling' = FALSE
  /\ UNCHANGED <<pending, memory, cache, breaker, run, crashes, history>>

Disturbances == crashes + Cardinality({r \in memory : r.sources = {}})

\* An agent saves a memory of its own: it names no event of a buffer, has no
\* embedding, and the index is not dropped.
SaveObservation ==
  /\ Disturbances < MaxDisturbances
  /\ \E id \in FreshIds :
       /\ IsFirstOf({id}, FreshIds)
       /\ memory' = memory \cup {[id |-> id, sources |-> {}, embedded |-> FALSE,
                                  covers |-> {id}]}
  /\ UNCHANGED <<pending, cache, breaker, run, life, history>>

Die ==
  /\ Disturbances < MaxDisturbances
  /\ crashes' = crashes + 1
  /\ backfilling' = TRUE
  /\ cached' = FALSE
  /\ index' = {}
  /\ breaker' = [consecutiveFailures |-> 0, open |-> FALSE]
  /\ fallbacks' = 0
  /\ defeats' = 0
  /\ Idle
  /\ UNCHANGED <<pending, appended, skipped, uncited>>

Crash == Die /\ UNCHANGED memory

\* Between the record and its embedding.
CrashInDirectCommit ==
  /\ phase = "committing"
  /\ memory' = memory \cup {[c EXCEPT !.embedded = FALSE] : c \in Head(clusters).members}
  /\ Die

\* Between the commit of the last cluster and the clear.
CrashBeforeClear ==
  /\ Len(clusters) = 1
  /\ \/ /\ phase \in {"committing", "separating"}
        /\ memory' = memory \cup Head(clusters).members
     \/ /\ phase = "merging"
        /\ Merge
  /\ Die

-----------------------------------------------------------------------------
Init ==
  /\ pending = {}
  /\ memory = {}
  /\ cached = FALSE
  /\ index = {}
  /\ breaker = [consecutiveFailures |-> 0, open |-> FALSE]
  /\ phase = "idle"
  /\ openAtStart = FALSE
  /\ clusters = <<>>
  /\ neighbors = {}
  /\ failedAttempts = 0
  /\ cited = {}
  /\ anyCommitted = FALSE
  /\ anyJudgeFailure = FALSE
  /\ backfilling = TRUE
  /\ crashes = 0
  /\ appended = {}
  /\ skipped = {}
  /\ uncited = {}
  /\ fallbacks = 0
  /\ defeats = 0

Extraction ==
  ExtractionFails \/ ExtractsNothing \/ \E n \in 1 .. MaxCandidates : Extracts(n)
JudgeAnswers ==
  JudgeGarbles \/ JudgeGivesUp \/ \E ids \in SUBSET Ids : JudgeDecides(ids)
ClusterCommits == CommitKeepSeparate \/ CommitMerge \/ ClusterFails
RunStep ==
  Extraction \/ CommitDirectly \/ NullCentroid \/ LookupNeighbors \/ JudgeAnswers
    \/ ClusterCommits

Next ==
  \/ \E e \in Events : AppendEvent(e)
  \/ StartRun
  \/ EmptyRun
  \/ RunStep
  \/ SearchLoadsIndex
  \/ SaveObservation
  \/ \E r \in memory : BackfillEmbeds(r)
  \/ BackfillEnds
  \/ Crash \/ CrashInDirectCommit \/ CrashBeforeClear

Spec == Init /\ [][Next]_vars

\* Promise reactions run. Nothing makes a call of the compressor or the judge end:
\* a prompt has a timeout, the handshake before it has none (createAcpSession).
Continues == CommitDirectly \/ NullCentroid \/ LookupNeighbors \/ ClusterCommits

FairSpec == Spec /\ WF_vars(Continues)

-----------------------------------------------------------------------------
(* Properties. *)

\* Every event ever appended is still in the buffer, or named by a record as a
\* source, unless the compressor found nothing in its batch or a merge cited no
\* candidate of it: through failed clusters, fallbacks, merges and deaths.
EventsAccounted ==
  appended \subseteq pending \cup Sources(memory) \cup skipped \cup uncited

\* Short of a death of the daemon no batch is committed twice: whatever clusters
\* fail, a buffer that is kept for another run has no record yet.
BatchCommittedOnce ==
  crashes = 0 /\ phase = "idle" => Sources(memory) \cap pending = {}

\* A merge deletes what it replaces in the same transaction, and never merges
\* a record that is already gone: no two records stand for one candidate, and
\* ids stay unique.
CoveredOnce ==
  \A r, s \in memory : r # s => r.id # s.id /\ r.covers \cap s.covers = {}

\* Whatever clusters fail, merge or are merged into, and whoever commits them, a
\* candidate has one record (commitWrites, processCluster, the run's last step).
BatchConsistent == TypeOK /\ BatchCommittedOnce /\ CoveredOnce

\* The cached index is exactly the embedded records, whatever clusters,
\* fallbacks, the backfill worker and searches did since it was built.
IndexIsFresh == cached => index = Embedded(memory)

\* A neighbour the judge is asked about is still there when its merge commits.
NeighborsExist == neighbors \subseteq memory

\* What a cluster finds as neighbours through the cache is what the database
\* holds, from the look-up to the merge (getOrLoad, invalidate).
NeighborsAreCurrent == IndexIsFresh /\ NeighborsExist

\* The breaker is open from the configured number of consecutive failures on.
BreakerTrips ==
  breaker.consecutiveFailures >= MaxConsecutiveFailures => breaker.open

\* docs/architecture/extraction.mdx: a project whose judge is sick uses direct
\* commit for exactly one run, then tries the judge again.
OneFallbackRun == fallbacks <= 1

\* The breaker of the judge opens in time and lets go after one run, though
\* recordFailure, recordSuccess and onRunComplete are called from three places.
JudgeBreakerWorks == BreakerTrips /\ OneFallbackRun

\* No step, merges included, makes the store forget where it learned something.
ProvenanceKept == [][Sources(memory) \subseteq Sources(memory')]_vars

\* A run ends, whatever compressor and judge answer and whichever cluster fails,
\* unless one of its calls never does: retries, skipped clusters and fallbacks
\* neither go on for ever nor leave it anywhere between two calls.
OnlyCallsHoldRuns ==
  \/ phase # "idle" ~> phase = "idle"
  \/ <>[](phase = "extracting")
  \/ <>[](phase = "judging")

-----------------------------------------------------------------------------
(* What the documentation says, and the code does not do. *)

\* docs/architecture/extraction.mdx: the sources of a summary are the union of
\* those of the cluster members and the merged neighbours.
MergeKeepsClusterSources ==
  appended \subseteq pending \cup Sources(memory) \cup skipped

\* docs/architecture/extraction.mdx: the breaker opens on the third consecutive
\* judge failure, a failure being a timeout or garbage after the retry budget.
OpensOnRepeatedDefeat ==
  [][~breaker.open /\ breaker'.open => defeats' >= MaxConsecutiveFailures]_vars
=============================================================================
