------------------------ MODULE MemoryServicesProofs ------------------------
(***************************************************************************)
(* Theorems about MemoryServices, for any number of records, namespaces,   *)
(* searches and deaths, and any batch size and failure limit.              *)
(*                                                                         *)
(* The vector cache is right about the database only because every build   *)
(* that is still under way is either right too, or has seen its epoch end, *)
(* or is about to: MemoryInv says so of builds as CacheFresh says it of    *)
(* installed indexes, and follows each search from its begin to its answer.*)
(***************************************************************************)
EXTENDS MemoryServices, FiniteSetTheorems, FunctionTheorems, SequenceTheorems,
        WellFoundedInduction, TLAPS

-----------------------------------------------------------------------------
(* Least and greatest elements, and the oldest records of a table.         *)

LEMMA LeastExists ==
  ASSUME NEW T \in SUBSET Nat, T # {}
  PROVE  \E n \in T : \A m \in T : n <= m
<1> DEFINE Smaller == {pair \in Nat \X Nat : pair[1] < pair[2]}
<1>1. IsWellFoundedOn(Smaller, Nat)
  BY NatLessThanWellFounded, Zenon DEF OpToRel
<1>2. \A m, n \in Nat : m < n => <<m, n>> \in Smaller
  OBVIOUS
<1> HIDE DEF Smaller
<1>3. PICK n \in T : \A m \in T : ~(<<m, n>> \in Smaller)
  BY <1>1, WFMin
<1>4. \A m \in T : m \in Nat /\ n \in Nat /\ ~(m < n)
  BY <1>2, <1>3
<1>5. \A m \in T : n <= m
  BY <1>4
<1> QED BY <1>5

LEMMA MinIsMember ==
  ASSUME NEW T \in SUBSET Nat, T # {}
  PROVE  Min(T) \in T
BY LeastExists DEF Min

LEMMA GreatestExists ==
  ASSUME NEW S \in SUBSET Nat, IsFiniteSet(S), S # {}
  PROVE  \E n \in S : \A m \in S : m <= n
<1> DEFINE Unbounded(U) ==
      /\ IsFiniteSet(U) /\ U # {}
      /\ ~\E n \in U : \A m \in U : m <= n
<1> DEFINE Sizes == {n \in Nat : \E U \in SUBSET Nat : Unbounded(U) /\ Cardinality(U) = n}
<1> SUFFICES ASSUME Unbounded(S) PROVE FALSE
  OBVIOUS
<1>1. Sizes # {}
  BY FS_CardinalityType
<1>2. PICK least \in Sizes : \A n \in Sizes : least <= n
  BY <1>1, LeastExists
<1>3. PICK U \in SUBSET Nat : Unbounded(U) /\ Cardinality(U) = least
  BY <1>2
<1>4. PICK x \in U : TRUE
  BY <1>3
<1>5. /\ IsFiniteSet(U \ {x})
      /\ Cardinality(U \ {x}) = least - 1
      /\ least \in Nat
  BY <1>3, <1>4, FS_RemoveElement
<1>6. Cardinality(U \ {x}) \in Nat
  BY <1>5, FS_CardinalityType
<1>7. ~Unbounded(U \ {x})
  <2>1. U \ {x} \in SUBSET Nat /\ least - 1 \in Nat /\ ~(least <= least - 1)
    BY <1>5, <1>6
  <2> QED BY <1>2, <1>5, <2>1
<1>8. CASE U \ {x} = {}
  <2>1. \A m \in U : m <= x
    BY <1>8, <1>4
  <2> QED BY <2>1, <1>3, <1>4
<1>9. CASE U \ {x} # {}
  <2>1. PICK y \in U \ {x} : \A m \in U \ {x} : m <= y
    BY <1>5, <1>7, <1>9
  <2>2. CASE x <= y
    BY <2>1, <2>2, <1>3
  <2>3. CASE y <= x
    BY <2>1, <2>3, <1>3, <1>4
  <2> QED BY <2>1, <2>2, <2>3, <1>4
<1> QED BY <1>8, <1>9

\* A batch of the backfill is no larger than its LIMIT.
LEMMA OldestIsBounded ==
  ASSUME NEW ids \in SUBSET Nat, IsFiniteSet(ids), NEW limit \in Nat
  PROVE  /\ Oldest(ids, limit) \subseteq ids
         /\ Cardinality(Oldest(ids, limit)) <= limit
<1> DEFINE B == Oldest(ids, limit)
<1>1. B \subseteq ids
  BY DEF Oldest
<1>2. IsFiniteSet(B) /\ Cardinality(B) \in Nat
  BY <1>1, FS_Subset, FS_CardinalityType
<1>3. ASSUME Cardinality(B) > limit
      PROVE  FALSE
  <2>1. B # {}
    BY <1>3, FS_EmptySet
  <2>2. PICK m \in B : \A n \in B : n <= m
    BY <1>1, <1>2, <2>1, GreatestExists
  <2> DEFINE before == {older \in ids : older < m}
  <2>3. IsFiniteSet(before) /\ B \ {m} \subseteq before
    <3>1. IsFiniteSet(before)
      BY FS_Subset
    <3>2. \A n \in B \ {m} : n \in ids /\ n \in Nat /\ m \in Nat /\ n <= m /\ n # m
      BY <1>1, <2>2
    <3>3. \A n \in B \ {m} : n \in ids /\ n < m
      BY <3>2
    <3> QED BY <3>1, <3>3
  <2>4. Cardinality(B \ {m}) <= Cardinality(before)
    BY <2>3, FS_Subset
  <2>5. Cardinality(B \ {m}) = Cardinality(B) - 1
    BY <1>2, <2>2, FS_RemoveElement
  <2>6. Cardinality(before) < limit
    BY <2>2 DEF Oldest
  <2>7. Cardinality(before) \in Nat
    BY <2>3, FS_CardinalityType
  <2> QED BY <1>2, <1>3, <2>4, <2>5, <2>6, <2>7
<1> QED BY <1>1, <1>2, <1>3

-----------------------------------------------------------------------------
(* The inductive invariant.                                                *)

SearchRecord ==
  [pc : {"idle", "embedding", "filling", "done"}, ns : Namespaces,
   lexical : SUBSET Ids, built : SUBSET Ids, semantic : BOOLEAN, sameEpoch : BOOLEAN,
   response : {"none", "pending", "empty", "results"}, settled : SUBSET Ids, dead : SUBSET Ids]
RunRecord ==
  [pc : {"idle", "embedding", "committing", "storing", "dropping", "updating", "dropping again"},
   id : Ids \cup {0}, embedded : BOOLEAN]
BackfillRecord ==
  [pc : {"off", "top", "record", "embedding", "dropping", "paused", "sleeping", "ended"},
   batch : SUBSET Ids, failures : 0 .. CircuitBreakerFailures,
   state : {"idle", "running", "paused", "stopped"}, stopped : BOOLEAN]

\* The promise chain holds a caller once: whoever waits does not call again.
EmbedderInv ==
  /\ readiness \in {"loading", "ready", "failed"}
  /\ disposed \in BOOLEAN
  /\ tail \in Seq(Callers)
  /\ \A i, j \in 1 .. Len(tail) : tail[i] = tail[j] => i = j
  /\ abandoned \in 0 .. MaxAbandoned
  /\ answer \in [Callers -> {"none", "vector", "error"}]

ServicesInv ==
  /\ db \in Database /\ gone \in SUBSET Ids
  /\ cache \in [Namespaces -> (SUBSET Ids) \cup {NoIndex}]
  /\ search \in [Searchers -> SearchRecord]
  /\ run \in RunRecord
  /\ backfill \in BackfillRecord /\ Cardinality(backfill.batch) <= BatchSize
  /\ closing \in {"up", "receiver", "backfill", "draining", "closed"}
  /\ crashes \in 0 .. MaxCrashes
  /\ readiness = "loading" => backfill.pc = "off"

\* A merged record never comes back, and the record a run is about to commit
\* is new.
DatabaseInv ==
  /\ DatabaseConsistent
  /\ gone \cap db.records = {}
  /\ run.pc \in {"embedding", "committing", "storing"} => run.id \in Ids \ (db.records \cup gone)

\* A build whose epoch still holds would be installed.
Installable(s, ns) == search[s].pc = "filling" /\ search[s].sameEpoch /\ search[s].ns = ns

\* What a search could get as its index: what is cached, or will be.
MayBeIndex(ns) ==
  {index \in SUBSET Ids : \/ index = cache[ns]
                          \/ \E s \in Searchers : Installable(s, ns) /\ index = search[s].built}

\* Each of them is that of the database, unless its end is near.
CacheInv ==
  \A ns \in Namespaces : \A index \in MayBeIndex(ns) :
    index = ListEmbeddings(db, ns) \/ InvalidationPending(ns)

\* An index that is good enough for search s: it has what was stored when the
\* search began and has not been merged away since, and nothing dead by then.
Serves(index, s) ==
  /\ search[s].settled \subseteq index \cup gone
  /\ index \cap search[s].dead = {}

SearchInv ==
  \A s \in Searchers :
    /\ search[s].dead \subseteq gone
    /\ search[s].lexical \cap search[s].dead = {}
    /\ search[s].built \cap search[s].dead = {}
    /\ search[s].semantic => search[s].settled \subseteq search[s].built \cup gone
    /\ search[s].pc = "embedding" =>
         /\ search[s].settled \subseteq ListEmbeddings(db, search[s].ns) \cup gone
         /\ ~search[s].semantic /\ search[s].built = {}
         /\ \A ns \in Namespaces : \A index \in MayBeIndex(ns) :
              search[s].ns = ns => Serves(index, s)

MemoryInv == EmbedderInv /\ ServicesInv /\ DatabaseInv /\ CacheInv /\ SearchInv

-----------------------------------------------------------------------------
(* The embedder.                                                           *)

LEMMA TailIsBounded ==
  ASSUME NEW q \in Seq(Callers), \A i, j \in 1 .. Len(q) : q[i] = q[j] => i = j
  PROVE  Len(q) <= Cardinality(Callers)
<1>1. q \in Injection(1 .. Len(q), Callers)
  BY DEF Injection, IsInjective
<1>2. Cardinality(1 .. Len(q)) = Len(q)
  BY FS_Interval
<1> QED BY <1>1, <1>2, FS_Injection, CallersAssumption

EmbedderReset ==
  /\ readiness' = "loading" /\ disposed' = FALSE /\ tail' = <<>> /\ abandoned' = 0
  /\ answer' = [c \in Callers |-> "none"]

EmbedderStep ==
  \/ \E outcome \in {"ready", "failed"} : Load(outcome)
  \/ \E c \in Callers : Embed(c)
  \/ \E outcome \in {"vector", "error"} : InferenceEnds(outcome)
  \/ InferenceTimesOut \/ AbandonedInferenceEnds
  \/ \E c \in Callers, outcome \in {"vector", "error"} : Take(c, outcome)
  \/ Dispose \/ EmbedderReset \/ UNCHANGED embedderVars

LEMMA ReleaseStep ==
  ASSUME EmbedderInv, tail # <<>>, NEW outcome \in {"vector", "error"}, Release(outcome),
         abandoned' \in 0 .. MaxAbandoned
  PROVE  EmbedderInv'
<1>1. Head(tail) \in Callers /\ tail' \in Seq(Callers)
  BY DEF EmbedderInv, Release
<1>2. \A i \in 1 .. Len(tail') : tail'[i] = tail[i + 1] /\ i + 1 \in 1 .. Len(tail)
  BY DEF EmbedderInv, Release
<1>3. \A i, j \in 1 .. Len(tail') : tail'[i] = tail'[j] => i = j
  BY <1>2 DEF EmbedderInv
<1> QED BY <1>1, <1>3 DEF EmbedderInv, Release

LEMMA EmbedderKept ==
  ASSUME EmbedderInv, EmbedderStep
  PROVE  EmbedderInv'
<1>1. ASSUME NEW outcome \in {"ready", "failed"}, Load(outcome) PROVE EmbedderInv'
  BY <1>1 DEF EmbedderInv, Load
<1>2. ASSUME NEW c \in Callers, Embed(c) PROVE EmbedderInv'
  <2>1. CASE UNCHANGED tail
    BY <1>2, <2>1 DEF EmbedderInv, Embed
  <2>2. CASE tail' = Append(tail, c) /\ ~Waiting(c)
    <3>1. \A i \in 1 .. Len(tail) : tail[i] # c
      BY <2>2 DEF EmbedderInv, Waiting, ToSet
    <3>2. tail' \in Seq(Callers) /\ Len(tail') = Len(tail) + 1
      BY <2>2 DEF EmbedderInv
    <3>3. \A i \in 1 .. Len(tail') : tail'[i] = IF i = Len(tail) + 1 THEN c ELSE tail[i]
      BY <2>2 DEF EmbedderInv
    <3>4. \A i, j \in 1 .. Len(tail') : tail'[i] = tail'[j] => i = j
      BY <3>1, <3>2, <3>3 DEF EmbedderInv
    <3> QED BY <1>2, <2>2, <3>2, <3>4 DEF EmbedderInv, Embed
  <2> QED BY <1>2, <2>1, <2>2 DEF Embed
<1>3. ASSUME NEW outcome \in {"vector", "error"}, InferenceEnds(outcome) PROVE EmbedderInv'
  BY <1>3, ReleaseStep DEF InferenceEnds, EmbedderInv
<1>4. CASE InferenceTimesOut
  BY <1>4, ReleaseStep, MaxAbandonedAssumption DEF InferenceTimesOut, EmbedderInv
<1>5. CASE AbandonedInferenceEnds
  BY <1>5, MaxAbandonedAssumption DEF EmbedderInv, AbandonedInferenceEnds
<1>6. ASSUME NEW c \in Callers, NEW outcome \in {"vector", "error"}, Take(c, outcome) PROVE EmbedderInv'
  BY <1>6 DEF EmbedderInv, Take
<1>7. CASE Dispose
  BY <1>7 DEF EmbedderInv, Dispose
<1>8. CASE EmbedderReset
  <2>1. tail' \in Seq(Callers) /\ Len(tail') = 0
    BY <1>8 DEF EmbedderReset
  <2>2. \A i, j \in 1 .. Len(tail') : FALSE
    BY <2>1
  <2>3. answer' \in [Callers -> {"none", "vector", "error"}]
    BY <1>8 DEF EmbedderReset
  <2>4. /\ readiness' \in {"loading", "ready", "failed"} /\ disposed' \in BOOLEAN
        /\ abandoned' \in 0 .. MaxAbandoned
    <3>1. readiness' = "loading" /\ disposed' = FALSE /\ abandoned' = 0
      BY <1>8, Zenon DEF EmbedderReset
    <3>2. disposed' \in BOOLEAN
      BY <3>1, Zenon
    <3> QED BY <3>1, <3>2, MaxAbandonedAssumption
  <2> QED BY <2>1, <2>2, <2>3, <2>4 DEF EmbedderInv
<1>9. CASE UNCHANGED embedderVars
  BY <1>9 DEF EmbedderInv, embedderVars
<1> QED BY <1>1, <1>2, <1>3, <1>4, <1>5, <1>6, <1>7, <1>8, <1>9 DEF EmbedderStep

SearchStep(s) ==
  \/ \E ns \in Namespaces, matching \in Queries, blank \in BOOLEAN : SearchBegins(s, ns, matching, blank)
  \/ SearchFallsBack(s) \/ SearchHits(s) \/ SearchMisses(s) \/ FillReturns(s)
  \/ BudgetExpires(s) \/ RequestEnds(s)

\* Whatever a service does, the embedder sees one of its own operations.
LEMMA ServicesUseTheEmbedder ==
  ASSUME [Next]_vars
  PROVE  EmbedderStep
<1>1. ASSUME NEW outcome \in {"ready", "failed"}, ModelLoads(outcome) PROVE EmbedderStep
  BY <1>1 DEF ModelLoads, EmbedderStep
<1>2. CASE EmbedderSteps
  BY <1>2 DEF EmbedderSteps, EmbedderStep
<1>3. CASE Searching
  <2> SUFFICES ASSUME NEW s \in Searchers, SearchStep(s) PROVE EmbedderStep
    BY <1>3 DEF Searching, SearchStep
  <2>1. s \in Callers
    BY CallersHere
  <2>2. ASSUME NEW ns \in Namespaces, NEW matching \in Queries, NEW blank \in BOOLEAN,
               SearchBegins(s, ns, matching, blank)
        PROVE  Embed(s) \/ UNCHANGED embedderVars
    BY <2>2 DEF SearchBegins
  <2>3. CASE SearchFallsBack(s) \/ SearchHits(s) \/ SearchMisses(s)
    BY <2>1, <2>3 DEF SearchFallsBack, SearchHits, SearchMisses, EmbedderStep
  <2>4. CASE FillReturns(s) \/ BudgetExpires(s) \/ RequestEnds(s)
    BY <2>4 DEF FillReturns, BudgetExpires, RequestEnds, EmbedderStep
  <2> QED BY <2>1, <2>2, <2>3, <2>4 DEF SearchStep, EmbedderStep
<1>4. CASE Writing
  BY <1>4, CallersHere DEF Writing, RunEmbeds, SaveMemory, RunResumes, RunCommits, RunStores,
     RunUpdates, RunInvalidates, RunRefused, EmbedderStep, embedderVars
<1>5. CASE Backfilling
  BY <1>5, CallersHere DEF Backfilling, BackfillLists, BackfillNext, BackfillBatchEnds,
     BackfillWrites, BackfillInvalidates, BackfillFails, BackfillWakes, EmbedderStep, embedderVars
<1>6. CASE Closing
  BY <1>6 DEF Closing, CloseBegins, ReceiverCloses, BackfillStops, CollectorCloses, EmbedderStep, embedderVars
<1>7. CASE Restart
  BY <1>7 DEF Restart, EmbedderReset, EmbedderStep
<1>8. CASE UNCHANGED vars
  BY <1>8 DEF vars, EmbedderStep, embedderVars
<1> QED BY <1>1, <1>2, <1>3, <1>4, <1>5, <1>6, <1>7, <1>8 DEF Next

-----------------------------------------------------------------------------
(* The database operations.                                                *)

LEMMA InsertionStep ==
  ASSUME NEW d \in Database, NEW id \in Ids \ d.records
  PROVE  InsertRecord(d, id) =
           [records |-> d.records \cup {id}, fts |-> d.fts \cup {id}, vectors |-> d.vectors]
BY DEF Database, InsertRecord

LEMMA EmbeddingStep ==
  ASSUME NEW d \in Database, NEW id
  PROVE  UpdateEmbedding(d, id) =
           [records |-> d.records, fts |-> d.fts, vectors |-> d.vectors \cup ({id} \cap d.records)]
BY DEF Database, UpdateEmbedding

LEMMA TransactionStep ==
  ASSUME NEW d \in Database, NEW id \in Ids \ d.records, NEW dead \in SUBSET d.records
  PROVE  /\ DeleteRecords(InsertRecord(d, id), dead) =
              [records |-> (d.records \cup {id}) \ dead, fts |-> (d.fts \cup {id}) \ dead,
               vectors |-> d.vectors \ dead]
         /\ UpdateEmbedding(DeleteRecords(InsertRecord(d, id), dead), id) =
              [records |-> (d.records \cup {id}) \ dead, fts |-> (d.fts \cup {id}) \ dead,
               vectors |-> (d.vectors \ dead) \cup {id}]
<1> DEFINE merged == DeleteRecords(InsertRecord(d, id), dead)
<1>1. InsertRecord(d, id) = [records |-> d.records \cup {id}, fts |-> d.fts \cup {id}, vectors |-> d.vectors]
  BY InsertionStep
<1>2. merged = [records |-> (d.records \cup {id}) \ dead, fts |-> (d.fts \cup {id}) \ dead,
                vectors |-> d.vectors \ dead]
  BY <1>1 DEF DeleteRecords
<1>3. merged \in Database /\ id \in merged.records
  BY <1>2 DEF Database
<1>4. UpdateEmbedding(merged, id) =
        [records |-> merged.records, fts |-> merged.fts, vectors |-> merged.vectors \cup {id}]
  BY <1>3, EmbeddingStep
<1> HIDE DEF merged
<1>5. UpdateEmbedding(merged, id) =
        [records |-> (d.records \cup {id}) \ dead, fts |-> (d.fts \cup {id}) \ dead,
         vectors |-> (d.vectors \ dead) \cup {id}]
  BY <1>2, <1>4
<1> QED BY <1>2, <1>5 DEF merged

\* The commit of a run, with or without its vector.
CommitStep(dead) ==
  db' \in {[records |-> (db.records \cup {run.id}) \ dead, fts |-> (db.fts \cup {run.id}) \ dead,
            vectors |-> (db.vectors \ dead) \cup new] : new \in {{}, {run.id}}}

LEMMA CommitStepHolds ==
  ASSUME db \in Database, NEW dead \in SUBSET db.records, run.id \in Ids \ db.records, RunCommits(dead)
  PROVE  CommitStep(dead)
<1> DEFINE merged == DeleteRecords(InsertRecord(db, run.id), dead)
<1>1. db' \in {merged, UpdateEmbedding(merged, run.id)}
  BY DEF RunCommits, Transaction
<1>2. merged = [records |-> (db.records \cup {run.id}) \ dead, fts |-> (db.fts \cup {run.id}) \ dead,
                vectors |-> (db.vectors \ dead) \cup {}]
  <2>1. (db.vectors \ dead) \cup {} = db.vectors \ dead
    OBVIOUS
  <2>2. merged = [records |-> (db.records \cup {run.id}) \ dead, fts |-> (db.fts \cup {run.id}) \ dead,
                  vectors |-> db.vectors \ dead]
    BY TransactionStep
  <2> HIDE DEF merged
  <2> QED BY <2>1, <2>2, Zenon
<1>3. UpdateEmbedding(merged, run.id) =
        [records |-> (db.records \cup {run.id}) \ dead, fts |-> (db.fts \cup {run.id}) \ dead,
         vectors |-> (db.vectors \ dead) \cup {run.id}]
  BY TransactionStep
<1> HIDE DEF merged
<1> QED BY <1>1, <1>2, <1>3, Zenon DEF CommitStep

-----------------------------------------------------------------------------
(* The shapes of steps, seen from the database, the cache and the searches. *)

SamePending == \A ns \in Namespaces : InvalidationPending(ns)' = InvalidationPending(ns)

\* Nothing these are about changes, but perhaps a run goes on to its commit.
RunPrepares ==
  \/ \E id \in FreshIds : RunEmbeds(id)
  \/ \E outcome \in {"vector", "error"}, next \in {"committing", "storing"} : RunResumes(outcome, next)
  \/ RunRefused

Calm == UNCHANGED <<db, gone, cache, search>> /\ SamePending /\ (UNCHANGED run \/ RunPrepares)

Write ==
  \/ \E id \in FreshIds : SaveMemory(id)
  \/ \E dead \in SUBSET db.records : RunCommits(dead)
  \/ RunStores \/ RunUpdates \/ BackfillWrites

Drop == RunInvalidates \/ BackfillInvalidates

LEMMA CalmBackfill ==
  ASSUME ServicesInv,
         BackfillLists \/ BackfillNext \/ BackfillBatchEnds \/ BackfillFails \/ BackfillWakes
  PROVE  Calm
<1>1. UNCHANGED <<db, gone, cache, search, run>>
  BY DEF BackfillLists, BackfillNext, BackfillBatchEnds, BackfillFails, BackfillWakes, Backfills
<1>2. backfill.pc # "dropping"
  BY DEF BackfillLists, BackfillNext, BackfillBatchEnds, BackfillFails, BackfillWakes
<1>3. backfill \in BackfillRecord
  BY DEF ServicesInv
<1>4. backfill'.pc # "dropping"
  <2>1. Ended(backfill).pc # "dropping" /\ Woken(backfill).pc # "dropping"
        /\ AfterFailure(backfill).pc # "dropping"
    BY <1>3, Zenon DEF Ended, Woken, AfterFailure, BackfillRecord
  <2>2. CASE BackfillLists
    BY <1>3, <2>1, <2>2 DEF BackfillLists, Backfills, BackfillRecord
  <2>3. CASE BackfillNext
    BY <1>3, <2>3 DEF BackfillNext, Backfills, BackfillRecord
  <2>4. CASE BackfillBatchEnds
    BY <1>3, <2>1, <2>4 DEF BackfillBatchEnds, Backfills, BackfillRecord
  <2>5. CASE BackfillFails \/ BackfillWakes
    BY <2>1, <2>5 DEF BackfillFails, BackfillWakes, Backfills
  <2> QED BY <2>2, <2>3, <2>4, <2>5
<1> QED BY <1>1, <1>2, <1>4 DEF Calm, SamePending, InvalidationPending

LEMMA StepShapes ==
  ASSUME ServicesInv, [Next]_vars
  PROVE  Calm \/ (\E s \in Searchers : SearchStep(s)) \/ Write \/ Drop \/ Restart
<1>1. ASSUME UNCHANGED <<db, gone, cache, search, run, backfill>> PROVE Calm
  BY <1>1 DEF Calm, SamePending, InvalidationPending
<1>2. ASSUME NEW outcome \in {"ready", "failed"}, ModelLoads(outcome) PROVE Calm
  <2>1. UNCHANGED <<db, gone, cache, search, run>>
    BY <1>2 DEF ModelLoads
  <2>2. backfill.pc # "dropping" /\ backfill'.pc # "dropping"
    BY <1>2 DEF ModelLoads, Load, BackfillOff, ServicesInv
  <2> QED BY <2>1, <2>2 DEF Calm, SamePending, InvalidationPending
<1>3. CASE EmbedderSteps
  BY <1>1, <1>3 DEF EmbedderSteps, serviceVars
<1>4. CASE Searching
  BY <1>4 DEF Searching, SearchStep
<1>5. CASE Writing
  <2>1. ASSUME RunPrepares PROVE Calm
    <3>1. UNCHANGED <<db, gone, cache, search, backfill>>
      BY <2>1 DEF RunPrepares, RunEmbeds, RunResumes, RunRefused, RunUnchanged
    <3>2. run.pc \notin {"dropping", "dropping again"} /\ run'.pc \notin {"dropping", "dropping again"}
      <4>1. CASE \E id \in FreshIds : RunEmbeds(id)
        BY <4>1 DEF RunEmbeds, NoRun
      <4>2. ASSUME NEW outcome \in {"vector", "error"}, NEW next \in {"committing", "storing"},
                   RunResumes(outcome, next)
            PROVE  run.pc = "embedding" /\ run'.pc = next
        BY <4>2 DEF RunResumes, ServicesInv, RunRecord
      <4>3. CASE RunRefused
        BY <4>3 DEF RunRefused, NoRun
      <4> QED BY <2>1, <4>1, <4>2, <4>3 DEF RunPrepares
    <3> QED BY <2>1, <3>1, <3>2 DEF Calm, SamePending, InvalidationPending
  <2> QED BY <1>5, <2>1 DEF Writing, RunPrepares, Write, Drop
<1>6. CASE Backfilling
  BY <1>6, CalmBackfill DEF Backfilling, Write, Drop
<1>7. CASE Closing
  <2>1. UNCHANGED <<db, gone, cache, search, run>>
    BY <1>7 DEF Closing, CloseBegins, ReceiverCloses, BackfillStops, CollectorCloses
  <2>2. backfill'.pc = "dropping" <=> backfill.pc = "dropping"
    BY <1>7 DEF Closing, CloseBegins, ReceiverCloses, BackfillStops, CollectorCloses,
       StopRequested, Woken, Ended, ServicesInv, BackfillRecord
  <2>3. backfill.pc = "dropping" => backfill'.batch = backfill.batch
    BY <1>7 DEF Closing, CloseBegins, ReceiverCloses, BackfillStops, CollectorCloses,
       StopRequested, ServicesInv, BackfillRecord
  <2> QED BY <2>1, <2>2, <2>3 DEF Calm, SamePending, InvalidationPending
<1>8. CASE UNCHANGED vars
  BY <1>1, <1>8 DEF vars, serviceVars
<1> QED BY <1>2, <1>3, <1>4, <1>5, <1>6, <1>7, <1>8 DEF Next

-----------------------------------------------------------------------------
(* What a search may change, and to what.                                  *)

LEMMA QueriesAreIds ==
  ASSUME NEW d \in Database, NEW ns
  PROVE  /\ ListEmbeddings(d, ns) \in SUBSET Ids
         /\ ListEmbeddings(d, ns) \subseteq d.vectors
         /\ \A matching : SearchLexical(d, ns, matching) \in SUBSET Ids
                           /\ SearchLexical(d, ns, matching) \subseteq d.records
BY DEF Database, ListEmbeddings, SearchLexical, InNamespace

LEMMA NoSearchTyped == NoSearch \in SearchRecord
<1>1. (CHOOSE ns \in Namespaces : TRUE) \in Namespaces
  BY NamespaceOfAssumption
<1> QED BY <1>1 DEF NoSearch, SearchRecord

LEMMA SearchesTyped ==
  ASSUME ServicesInv, NEW s \in Searchers, NEW step \in SearchRecord
  PROVE  /\ Searches(s, step) => search' \in [Searchers -> SearchRecord] /\ search'[s] = step
         /\ Finish(s, step) =>
              /\ search' \in [Searchers -> SearchRecord]
              /\ search'[s] = [step EXCEPT !.pc = "done",
                                  !.response = IF @ = "pending" THEN "results" ELSE @]
         /\ Searches(s, step) \/ Finish(s, step) =>
              \A t \in Searchers \ {s} : search'[t] = search[t]
<1>1. [step EXCEPT !.pc = "done", !.response = IF @ = "pending" THEN "results" ELSE @] \in SearchRecord
  BY DEF SearchRecord
<1> QED BY <1>1 DEF Searches, Finish, ServicesInv

\* The record a search becomes when it begins.
Begun(ns, matching) ==
  [NoSearch EXCEPT !.pc = "embedding", !.ns = ns, !.lexical = SearchLexical(db, ns, matching),
     !.response = "pending",
     !.settled = IF InvalidationPending(ns) THEN {} ELSE ListEmbeddings(db, ns),
     !.dead = IF InvalidationPending(ns) THEN {} ELSE gone]

LEMMA BegunFields ==
  ASSUME NEW ns \in Namespaces, NEW matching
  PROVE  /\ Begun(ns, matching).pc = "embedding" /\ Begun(ns, matching).ns = ns
         /\ Begun(ns, matching).lexical = SearchLexical(db, ns, matching)
         /\ Begun(ns, matching).built = {} /\ Begun(ns, matching).semantic = FALSE
         /\ Begun(ns, matching).settled = IF InvalidationPending(ns) THEN {} ELSE ListEmbeddings(db, ns)
         /\ Begun(ns, matching).dead = IF InvalidationPending(ns) THEN {} ELSE gone
BY DEF Begun, NoSearch

\* What is left of a search that ends: all of its results.
Ending(s, step) ==
  /\ search'[s].pc = "done"
  /\ search'[s].lexical = step.lexical /\ search'[s].built = step.built
  /\ search'[s].semantic = step.semantic
  /\ search'[s].settled = step.settled /\ search'[s].dead = step.dead

LEMMA FinishedFields ==
  ASSUME ServicesInv, NEW s \in Searchers, NEW step \in SearchRecord, Finish(s, step)
  PROVE  Ending(s, step)
<1>1. search'[s] = [step EXCEPT !.pc = "done", !.response = IF @ = "pending" THEN "results" ELSE @]
  BY SearchesTyped
<1> QED BY <1>1 DEF Ending, SearchRecord

LEMMA BeginStep ==
  ASSUME ServicesInv, NEW s \in Searchers, NEW ns \in Namespaces, NEW matching, NEW blank,
         SearchBegins(s, ns, matching, blank)
  PROVE  /\ Begun(ns, matching) \in SearchRecord
         /\ Finish(s, Begun(ns, matching)) \/ Searches(s, Begun(ns, matching))
         /\ UNCHANGED <<db, gone, cache, run, backfill, closing, crashes, readiness>>
<1>1. SearchLexical(db, ns, matching) \in SUBSET Ids /\ ListEmbeddings(db, ns) \in SUBSET Ids
  BY QueriesAreIds DEF ServicesInv
<1>2. gone \in SUBSET Ids
  BY DEF ServicesInv
<1>3. Begun(ns, matching) \in SearchRecord
  BY <1>1, <1>2, NoSearchTyped DEF Begun, SearchRecord
<1> QED BY <1>3 DEF SearchBegins, Begun, Embed, embedderVars

\* What the index of a search is when its vector stage begins.
Hit(s) == [search[s] EXCEPT !.semantic = TRUE, !.built = cache[search[s].ns]]
Miss(s) == [search[s] EXCEPT !.pc = "filling", !.semantic = TRUE,
              !.built = ListEmbeddings(db, search[s].ns) \cap ListMemoryRecords(db, search[s].ns)]

LEMMA SearchStepTyped ==
  ASSUME ServicesInv, NEW s \in Searchers, SearchStep(s)
  PROVE  /\ search' \in [Searchers -> SearchRecord]
         /\ \A t \in Searchers \ {s} : search'[t] = search[t]
         /\ cache' \in [Namespaces -> (SUBSET Ids) \cup {NoIndex}]
         /\ UNCHANGED <<db, gone, run, backfill, closing, crashes, readiness>>
<1>0. search[s] \in SearchRecord /\ cache \in [Namespaces -> (SUBSET Ids) \cup {NoIndex}]
  BY DEF ServicesInv
<1>1. ASSUME NEW ns \in Namespaces, NEW matching \in Queries, NEW blank \in BOOLEAN,
             SearchBegins(s, ns, matching, blank)
      PROVE  /\ search' \in [Searchers -> SearchRecord]
             /\ \A t \in Searchers \ {s} : search'[t] = search[t]
             /\ UNCHANGED <<db, gone, cache, run, backfill, closing, crashes, readiness>>
  BY <1>1, BeginStep, SearchesTyped
<1>2. CASE SearchFallsBack(s)
  BY <1>0, <1>2, SearchesTyped DEF SearchFallsBack, Take
<1>3. CASE SearchHits(s)
  <2>1. Hit(s) \in SearchRecord
    BY <1>0, <1>3 DEF SearchHits, Hit, SearchRecord
  <2> QED BY <1>0, <1>3, <2>1, SearchesTyped DEF SearchHits, Hit, Take
<1>4. CASE SearchMisses(s)
  <2>1. Miss(s) \in SearchRecord
    BY <1>0, <1>4, QueriesAreIds DEF SearchMisses, Miss, SearchRecord, ServicesInv
  <2> QED BY <1>0, <1>4, <2>1, SearchesTyped DEF SearchMisses, Miss, Take
<1>5. CASE FillReturns(s)
  <2>1. cache' \in [Namespaces -> (SUBSET Ids) \cup {NoIndex}]
    BY <1>0, <1>5 DEF FillReturns, Install, SearchRecord
  <2> QED BY <1>0, <1>5, <2>1, SearchesTyped DEF FillReturns, embedderVars
<1>6. CASE BudgetExpires(s)
  <2>1. [search[s] EXCEPT !.response = "empty"] \in SearchRecord
    BY <1>0 DEF SearchRecord
  <2> QED BY <1>0, <1>6, <2>1, SearchesTyped DEF BudgetExpires, embedderVars
<1>7. CASE RequestEnds(s)
  BY <1>0, <1>7, NoSearchTyped, SearchesTyped DEF RequestEnds, embedderVars
<1> QED BY <1>0, <1>1, <1>2, <1>3, <1>4, <1>5, <1>6, <1>7 DEF SearchStep

LEMMA InvalidateStep ==
  ASSUME ServicesInv, NEW ns, Invalidate(ns)
  PROVE  /\ search' \in [Searchers -> SearchRecord]
         /\ cache' \in [Namespaces -> (SUBSET Ids) \cup {NoIndex}]
<1>1. cache' \in [Namespaces -> (SUBSET Ids) \cup {NoIndex}]
  BY DEF ServicesInv, Invalidate
<1>2. \A s \in Searchers : search[s] \in SearchRecord /\ [search[s] EXCEPT !.sameEpoch = FALSE] \in SearchRecord
  BY DEF ServicesInv, SearchRecord
<1> QED BY <1>1, <1>2 DEF Invalidate

-----------------------------------------------------------------------------
(* Types.                                                                  *)

\* A batch may lose records; the rest of the record stays in range.
LEMMA EndedTyped ==
  ASSUME NEW b \in BackfillRecord, Cardinality(b.batch) <= BatchSize
  PROVE  /\ Ended(b) \in BackfillRecord
         /\ Cardinality(Ended(b).batch) <= BatchSize
<1>1. Ended(b) \in BackfillRecord /\ Ended(b).batch = {}
  BY DEF Ended, BackfillRecord
<1> QED BY <1>1, FS_EmptySet, BackfillAssumption

LEMMA SmallerBatch ==
  ASSUME NEW batch \in SUBSET Ids, Cardinality(batch) <= BatchSize, NEW id
  PROVE  Cardinality(batch \ {id}) <= BatchSize
<1>1. IsFiniteSet(batch)
  BY IdsAssumption, FS_Subset
<1>2. Cardinality(batch \ {id}) <= Cardinality(batch)
  BY <1>1, FS_Subset
<1>3. Cardinality(batch \ {id}) \in Nat /\ Cardinality(batch) \in Nat /\ BatchSize \in Nat
  BY <1>1, FS_RemoveElement, FS_CardinalityType, BackfillAssumption
<1> QED BY <1>2, <1>3

LEMMA WokenTyped ==
  ASSUME NEW b \in BackfillRecord, Cardinality(b.batch) <= BatchSize
  PROVE  /\ Woken(b) \in BackfillRecord
         /\ Cardinality(Woken(b).batch) <= BatchSize
<1>1. Cardinality(b.batch \ {Min(b.batch)}) <= BatchSize
  BY SmallerBatch DEF BackfillRecord
<1> DEFINE next == [b EXCEPT !.pc = "record", !.batch = @ \ {Min(@)}, !.failures = 0, !.state = "running"]
<1>2. next \in BackfillRecord /\ next.batch = b.batch \ {Min(b.batch)}
  <2>1. 0 \in 0 .. CircuitBreakerFailures
    BY BackfillAssumption
  <2>2. b.batch \ {Min(b.batch)} \in SUBSET Ids
    BY DEF BackfillRecord
  <2> QED BY <2>1, <2>2 DEF BackfillRecord
<1>3. [b EXCEPT !.pc = "top"] \in BackfillRecord /\ [b EXCEPT !.pc = "top"].batch = b.batch
  BY DEF BackfillRecord
<1>4. Woken(b) \in {[b EXCEPT !.pc = "top"], Ended(b), next}
  BY DEF Woken
<1> HIDE DEF next
<1> QED BY <1>1, <1>2, <1>3, <1>4, EndedTyped

LEMMA AfterFailureTyped ==
  ASSUME NEW b \in BackfillRecord, Cardinality(b.batch) <= BatchSize
  PROVE  /\ AfterFailure(b) \in BackfillRecord
         /\ Cardinality(AfterFailure(b).batch) <= BatchSize
<1>1. Cardinality(b.batch \ {Min(b.batch)}) <= BatchSize
  BY SmallerBatch DEF BackfillRecord
<1>2. b.failures \in Nat /\ CircuitBreakerFailures \in Nat
  BY BackfillAssumption DEF BackfillRecord
<1>3. CircuitBreakerFailures \in 0 .. CircuitBreakerFailures
  BY <1>2
<1>4. ~(b.failures + 1 >= CircuitBreakerFailures) => b.failures + 1 \in 0 .. CircuitBreakerFailures
  BY <1>2
<1> QED BY <1>1, <1>3, <1>4 DEF AfterFailure, BackfillRecord

LEMMA StopRequestedTyped ==
  ASSUME NEW b \in BackfillRecord, Cardinality(b.batch) <= BatchSize
  PROVE  /\ StopRequested(b) \in BackfillRecord
         /\ Cardinality(StopRequested(b).batch) <= BatchSize
<1> DEFINE flagged == [b EXCEPT !.stopped = TRUE]
<1>1. flagged \in BackfillRecord /\ Cardinality(flagged.batch) <= BatchSize
  BY DEF BackfillRecord
<1>2. Woken(flagged) \in BackfillRecord /\ Cardinality(Woken(flagged).batch) <= BatchSize
  BY <1>1, WokenTyped
<1>3. [flagged EXCEPT !.state = "stopped"] \in BackfillRecord
      /\ [flagged EXCEPT !.state = "stopped"].batch = flagged.batch
  BY <1>1 DEF BackfillRecord
<1>4. StopRequested(b) \in {[flagged EXCEPT !.state = "stopped"], Woken(flagged), flagged}
  BY DEF StopRequested
<1> HIDE DEF flagged
<1> QED BY <1>1, <1>2, <1>3, <1>4

BackfillTyped == backfill' \in BackfillRecord /\ Cardinality(backfill'.batch) <= BatchSize

LEMMA BackfillOffTyped ==
  /\ BackfillOff \in BackfillRecord /\ Cardinality(BackfillOff.batch) <= BatchSize
  /\ [BackfillOff EXCEPT !.pc = "top"] \in BackfillRecord
<1>1. 0 \in 0 .. CircuitBreakerFailures /\ 0 <= BatchSize
  BY BackfillAssumption
<1>2. BackfillOff \in BackfillRecord /\ BackfillOff.batch = {}
  BY <1>1 DEF BackfillOff, BackfillRecord
<1> QED BY <1>1, <1>2, FS_EmptySet DEF BackfillRecord

LEMMA BackfillingTyped ==
  ASSUME ServicesInv, Backfilling
  PROVE  BackfillTyped
<1>0. backfill \in BackfillRecord /\ Cardinality(backfill.batch) <= BatchSize
  BY DEF ServicesInv
<1>1. CASE BackfillLists
  <2> DEFINE batch == ListRecordsWithoutEmbedding(db, BatchSize)
  <2>1. IsFiniteSet(db.records \ db.vectors) /\ db.records \ db.vectors \in SUBSET Ids
    BY IdsAssumption, FS_Subset DEF ServicesInv, Database
  <2>2. batch \in SUBSET Ids /\ Cardinality(batch) <= BatchSize
    BY <2>1, OldestIsBounded, IdsAssumption, BackfillAssumption DEF ListRecordsWithoutEmbedding
  <2> HIDE DEF batch
  <2>3. [backfill EXCEPT !.pc = "record", !.batch = batch, !.state = "running"] \in BackfillRecord
    BY <1>0, <2>2 DEF BackfillRecord
  <2>4. backfill' \in {Ended(backfill), [backfill EXCEPT !.pc = "record", !.batch = batch, !.state = "running"]}
    BY <1>1 DEF BackfillLists, Backfills, batch
  <2>5. [backfill EXCEPT !.pc = "record", !.batch = batch, !.state = "running"].batch = batch
    BY <1>0 DEF BackfillRecord
  <2> QED BY <1>0, <2>2, <2>3, <2>4, <2>5, EndedTyped DEF BackfillTyped
<1>2. CASE BackfillNext
  BY <1>0, <1>2 DEF BackfillNext, Backfills, BackfillTyped, BackfillRecord
<1>3. CASE BackfillBatchEnds
  <2>1. /\ [backfill EXCEPT !.pc = "sleeping"] \in BackfillRecord
        /\ [backfill EXCEPT !.pc = "sleeping"].batch = backfill.batch
    BY <1>0 DEF BackfillRecord
  <2> QED BY <1>0, <1>3, <2>1, EndedTyped DEF BackfillBatchEnds, Backfills, BackfillTyped
<1>4. CASE BackfillWrites
  BY <1>0, <1>4 DEF BackfillWrites, Backfills, BackfillTyped, BackfillRecord
<1>5. CASE BackfillInvalidates
  <2>1. Cardinality(backfill.batch \ {Min(backfill.batch)}) <= BatchSize
    BY <1>0, SmallerBatch DEF BackfillRecord
  <2>2. 0 \in 0 .. CircuitBreakerFailures
    BY BackfillAssumption
  <2> QED BY <1>0, <1>5, <2>1, <2>2 DEF BackfillInvalidates, Backfills, BackfillTyped, BackfillRecord
<1>6. CASE BackfillFails
  BY <1>0, <1>6, AfterFailureTyped DEF BackfillFails, Backfills, BackfillTyped
<1>7. CASE BackfillWakes
  BY <1>0, <1>7, WokenTyped DEF BackfillWakes, Backfills, BackfillTyped
<1> QED BY <1>1, <1>2, <1>3, <1>4, <1>5, <1>6, <1>7 DEF Backfilling

LEMMA RunTyped ==
  ASSUME ServicesInv, Writing
  PROVE  run' \in RunRecord
<1>0. run \in RunRecord /\ NoRun \in RunRecord
  BY DEF ServicesInv, NoRun, RunRecord
<1>1. ASSUME NEW id \in FreshIds, RunEmbeds(id) PROVE run' \in RunRecord
  BY <1>0, <1>1 DEF RunEmbeds, NoRun, RunRecord, FreshIds
<1>2. ASSUME NEW outcome \in {"vector", "error"}, NEW next \in {"committing", "storing"}, RunResumes(outcome, next)
      PROVE  run' \in RunRecord
  BY <1>0, <1>2 DEF RunResumes, RunRecord
<1>3. CASE RunStores \/ RunUpdates \/ \E dead \in SUBSET db.records : RunCommits(dead)
  BY <1>0, <1>3 DEF RunStores, RunUpdates, RunCommits, RunRecord
<1>4. CASE RunInvalidates \/ RunRefused
  BY <1>0, <1>4 DEF RunInvalidates, RunRefused, RunRecord
<1>5. ASSUME NEW id \in FreshIds, SaveMemory(id) PROVE run' \in RunRecord
  BY <1>0, <1>5 DEF SaveMemory
<1> QED BY <1>1, <1>2, <1>3, <1>4, <1>5 DEF Writing

LEMMA DatabaseTyped ==
  ASSUME ServicesInv, DatabaseInv, Write
  PROVE  /\ db' \in Database /\ gone' \in SUBSET Ids
         /\ UNCHANGED <<cache, search, closing, crashes, readiness>>
<1>0. db \in Database /\ gone \in SUBSET Ids /\ run \in RunRecord
  BY DEF ServicesInv
<1>1. ASSUME NEW id \in FreshIds, SaveMemory(id)
      PROVE  db' \in Database /\ UNCHANGED <<gone, cache, search, closing, crashes, readiness>>
  BY <1>0, <1>1, InsertionStep DEF SaveMemory, FreshIds, RunUnchanged, embedderVars, Database
<1>2. ASSUME NEW dead \in SUBSET db.records, RunCommits(dead)
      PROVE  /\ db' \in Database /\ gone' \in SUBSET Ids
             /\ UNCHANGED <<cache, search, closing, crashes, readiness>>
  <2>1. run.id \in Ids \ db.records /\ run.embedded \in BOOLEAN
    BY <1>0, <1>2 DEF RunCommits, DatabaseInv, RunRecord
  <2>2. CommitStep(dead)
    BY <1>0, <1>2, <2>1, CommitStepHolds
  <2>3. db' \in Database
    BY <1>0, <2>1, <2>2 DEF CommitStep, Database
  <2> QED BY <1>0, <1>2, <2>3 DEF RunCommits, RunUnchanged, embedderVars, Database
<1>3. CASE RunStores
  <2>1. run.id \in Ids \ db.records
    BY <1>3 DEF RunStores, DatabaseInv
  <2> QED BY <1>0, <1>3, <2>1, InsertionStep DEF RunStores, RunUnchanged, embedderVars, Database
<1>4. CASE RunUpdates
  <2>1. UpdateEmbedding(db, run.id) \in Database
    BY <1>0, EmbeddingStep DEF Database
  <2> QED BY <1>0, <1>4, <2>1 DEF RunUpdates, RunUnchanged, embedderVars
<1>5. CASE BackfillWrites
  BY <1>0, <1>5, EmbeddingStep DEF BackfillWrites, Backfills, Take, Database
<1> QED BY <1>0, <1>1, <1>2, <1>3, <1>4, <1>5 DEF Write

LEMMA ServicesKept ==
  ASSUME ServicesInv, DatabaseInv, [Next]_vars
  PROVE  ServicesInv'
<1>1. ASSUME NEW outcome \in {"ready", "failed"}, ModelLoads(outcome) PROVE ServicesInv'
  BY <1>1, BackfillOffTyped DEF ModelLoads, Load, ServicesInv
<1>2. CASE EmbedderSteps
  <2>1. UNCHANGED readiness
    BY <1>2 DEF EmbedderSteps, InferenceEnds, InferenceTimesOut, AbandonedInferenceEnds, Release
  <2> QED BY <1>2, <2>1 DEF EmbedderSteps, serviceVars, ServicesInv
<1>3. ASSUME NEW s \in Searchers, SearchStep(s) PROVE ServicesInv'
  BY <1>3, SearchStepTyped DEF ServicesInv
<1>4. CASE Writing
  <2>1. run' \in RunRecord
    BY <1>4, RunTyped
  <2>2. CASE RunPrepares
    BY <2>1, <2>2 DEF RunPrepares, RunEmbeds, RunResumes, RunRefused, RunUnchanged, Embed, Take,
       embedderVars, ServicesInv
  <2>3. CASE RunInvalidates
    BY <2>1, <2>3, InvalidateStep DEF RunInvalidates, embedderVars, ServicesInv
  <2>4. CASE Write /\ UNCHANGED backfill
    BY <2>1, <2>4, DatabaseTyped DEF ServicesInv
  <2> QED BY <1>4, <2>2, <2>3, <2>4 DEF Writing, RunPrepares, Write, SaveMemory, RunCommits, RunStores,
          RunUpdates, RunUnchanged
<1>5. CASE Backfilling
  <2>1. BackfillTyped /\ UNCHANGED <<run, closing, crashes>>
    BY <1>5, BackfillingTyped DEF Backfilling, BackfillLists, BackfillNext, BackfillBatchEnds, BackfillWrites,
       BackfillInvalidates, BackfillFails, BackfillWakes, Backfills
  <2>2. UNCHANGED readiness /\ backfill.pc # "off"
    BY <1>5 DEF Backfilling, BackfillLists, BackfillNext, BackfillBatchEnds, BackfillWrites,
       BackfillInvalidates, BackfillFails, BackfillWakes, Embed, Take, embedderVars
  <2>3. CASE BackfillWrites
    BY <2>1, <2>2, <2>3, DatabaseTyped DEF ServicesInv, BackfillTyped, Write
  <2>4. CASE BackfillInvalidates
    BY <2>1, <2>2, <2>4, InvalidateStep DEF ServicesInv, BackfillTyped, BackfillInvalidates, Backfills
  <2>5. CASE BackfillLists \/ BackfillNext \/ BackfillBatchEnds \/ BackfillFails \/ BackfillWakes
    BY <2>1, <2>2, <2>5, CalmBackfill DEF ServicesInv, BackfillTyped, Calm
  <2> QED BY <1>5, <2>3, <2>4, <2>5 DEF Backfilling
<1>6. CASE Closing
  <2>1. UNCHANGED <<db, gone, cache, search, run, crashes, readiness>>
    BY <1>6 DEF Closing, CloseBegins, ReceiverCloses, BackfillStops, CollectorCloses, Dispose, embedderVars
  <2>2. closing' \in {"up", "receiver", "backfill", "draining", "closed"}
    BY <1>6 DEF Closing, CloseBegins, ReceiverCloses, BackfillStops, CollectorCloses
  <2>3. BackfillTyped /\ (backfill.pc = "off" => backfill'.pc = "off")
    <3>1. CASE ReceiverCloses
      <4>1. backfill.pc = "off" => StopRequested(backfill).pc = "off"
        BY DEF StopRequested, ServicesInv, BackfillRecord
      <4> QED BY <3>1, <4>1, StopRequestedTyped DEF ReceiverCloses, ServicesInv, BackfillTyped
    <3>2. CASE BackfillStops
      BY <3>2 DEF BackfillStops, ServicesInv, BackfillTyped, BackfillRecord
    <3>3. CASE UNCHANGED backfill
      BY <3>3 DEF ServicesInv, BackfillTyped
    <3> QED BY <1>6, <3>1, <3>2, <3>3 DEF Closing, CloseBegins, CollectorCloses
  <2> QED BY <2>1, <2>2, <2>3 DEF ServicesInv, BackfillTyped
<1>7. CASE Restart
  <2>1. crashes' \in 0 .. MaxCrashes
    BY <1>7, CrashesAssumption DEF Restart, ServicesInv
  <2>2. search' \in [Searchers -> SearchRecord] /\ cache' \in [Namespaces -> (SUBSET Ids) \cup {NoIndex}]
    BY <1>7, NoSearchTyped DEF Restart
  <2>3. NoRun \in RunRecord /\ BackfillOff.pc = "off"
    BY DEF NoRun, RunRecord, BackfillOff
  <2>4. /\ run' = NoRun /\ backfill' = BackfillOff /\ closing' = "up"
        /\ UNCHANGED <<db, gone>>
    BY <1>7 DEF Restart
  <2> QED BY <2>1, <2>2, <2>3, <2>4, BackfillOffTyped DEF ServicesInv
<1>8. CASE UNCHANGED vars
  BY <1>8 DEF vars, embedderVars, serviceVars, ServicesInv
<1> QED BY <1>1, <1>2, <1>3, <1>4, <1>5, <1>6, <1>7, <1>8 DEF Next, Searching, SearchStep

-----------------------------------------------------------------------------
(* The database.                                                           *)

\* What any write does to the vectors: it takes none away but of records it
\* merges, and what it changes in a namespace is about to be made known.
WriteIsAnnounced ==
  /\ gone \subseteq gone'
  /\ \A ns \in Namespaces :
       /\ ListEmbeddings(db, ns) \subseteq ListEmbeddings(db', ns) \cup gone'
       /\ ListEmbeddings(db', ns) = ListEmbeddings(db, ns) \/ InvalidationPending(ns)'
       /\ InvalidationPending(ns) => InvalidationPending(ns)'

LEMMA WriteStep ==
  ASSUME ServicesInv, DatabaseInv, Write
  PROVE  DatabaseInv' /\ WriteIsAnnounced
<1>0. db \in Database /\ gone \in SUBSET Ids /\ run \in RunRecord /\ backfill \in BackfillRecord
  BY DEF ServicesInv
<1>1. ASSUME NEW id \in FreshIds, SaveMemory(id)
      PROVE  DatabaseInv' /\ WriteIsAnnounced
  <2>1. /\ id \in Ids /\ id \notin db.records /\ id \notin gone /\ id # run.id
        /\ UNCHANGED <<gone, run, backfill>>
        /\ db' = [records |-> db.records \cup {id}, fts |-> db.fts \cup {id}, vectors |-> db.vectors]
    BY <1>0, <1>1, InsertionStep DEF SaveMemory, FreshIds, RunUnchanged
  <2>2. DatabaseInv'
    BY <2>1 DEF DatabaseInv, DatabaseConsistent, IndexesAgree
  <2> QED BY <2>1, <2>2 DEF WriteIsAnnounced, ListEmbeddings, InNamespace, InvalidationPending
<1>2. ASSUME NEW dead \in SUBSET db.records, RunCommits(dead)
      PROVE  DatabaseInv' /\ WriteIsAnnounced
  <2>1. /\ run.pc = "committing" /\ run.id \in Ids \ db.records /\ run.id \notin gone
        /\ run.embedded \in BOOLEAN
        /\ \A id \in dead : NamespaceOf[id] = NamespaceOf[run.id]
        /\ gone' = gone \cup dead /\ UNCHANGED backfill
    BY <1>0, <1>2 DEF RunCommits, DatabaseInv, RunRecord, RunUnchanged, InNamespace
  <2>2. PICK new \in {{}, {run.id}} :
          /\ db'.records = (db.records \cup {run.id}) \ dead
          /\ db'.fts = (db.fts \cup {run.id}) \ dead
          /\ db'.vectors = (db.vectors \ dead) \cup new
    BY <1>0, <1>2, <2>1, CommitStepHolds DEF CommitStep
  <2>3. run'.pc = "dropping again" /\ run'.id = run.id
    BY <1>0, <1>2 DEF RunCommits, RunRecord
  <2>4. DatabaseInv'
    <3>1. /\ db.fts = db.records /\ db.vectors \subseteq db.records /\ gone \cap db.records = {}
          /\ run.id \notin dead
      BY <2>1 DEF DatabaseInv, DatabaseConsistent, IndexesAgree
    <3>2. db'.fts = db'.records /\ gone' \cap db'.records = {}
      BY <2>1, <2>2, <3>1
    <3>3. db'.vectors \subseteq db'.records
      BY <2>1, <2>2, <3>1
    <3> QED BY <2>3, <3>2, <3>3 DEF DatabaseInv, DatabaseConsistent, IndexesAgree
  <2>5. \A ns : InvalidationPending(ns) => InvalidationPending(ns)'
    BY <2>1, <2>3 DEF InvalidationPending
  <2>6. \A ns : ns = NamespaceOf[run.id] => InvalidationPending(ns)'
    BY <2>3 DEF InvalidationPending
  <2>7. \A ns : ListEmbeddings(db, ns) \subseteq ListEmbeddings(db', ns) \cup gone'
    BY <2>1, <2>2 DEF ListEmbeddings, InNamespace
  <2>8. \A ns : ns # NamespaceOf[run.id] => ListEmbeddings(db', ns) = ListEmbeddings(db, ns)
    BY <2>1, <2>2 DEF ListEmbeddings, InNamespace
  <2> QED BY <2>1, <2>4, <2>5, <2>6, <2>7, <2>8 DEF WriteIsAnnounced
<1>3. CASE RunStores
  <2>1. /\ run.pc = "storing" /\ run'.pc = "dropping" /\ run.id \in Ids \ db.records /\ run.id \notin gone
        /\ UNCHANGED <<gone, backfill>>
    BY <1>0, <1>3 DEF RunStores, DatabaseInv, RunRecord, RunUnchanged
  <2>2. db' = [records |-> db.records \cup {run.id}, fts |-> db.fts \cup {run.id}, vectors |-> db.vectors]
    BY <1>0, <1>3, <2>1, InsertionStep DEF RunStores
  <2>3. DatabaseInv'
    BY <2>1, <2>2 DEF DatabaseInv, DatabaseConsistent, IndexesAgree
  <2> QED BY <2>1, <2>2, <2>3 DEF WriteIsAnnounced, ListEmbeddings, InNamespace, InvalidationPending
<1>4. CASE RunUpdates
  <2>1. /\ run.pc = "updating" /\ run'.pc = "dropping again" /\ run'.id = run.id
        /\ UNCHANGED <<gone, backfill>>
    BY <1>0, <1>4 DEF RunUpdates, RunRecord, RunUnchanged
  <2>2. db' = [records |-> db.records, fts |-> db.fts, vectors |-> db.vectors \cup ({run.id} \cap db.records)]
    BY <1>0, <1>4, EmbeddingStep DEF RunUpdates
  <2>3. DatabaseInv'
    BY <2>1, <2>2 DEF DatabaseInv, DatabaseConsistent, IndexesAgree
  <2> QED BY <2>1, <2>2, <2>3 DEF WriteIsAnnounced, ListEmbeddings, InNamespace, InvalidationPending
<1>5. CASE BackfillWrites
  <2> DEFINE id == Min(backfill.batch)
  <2>1. /\ backfill.pc = "embedding" /\ backfill'.pc = "dropping" /\ backfill'.batch = backfill.batch
        /\ UNCHANGED <<gone, run>>
    BY <1>0, <1>5 DEF BackfillWrites, Backfills, BackfillRecord
  <2>2. db' = [records |-> db.records, fts |-> db.fts, vectors |-> db.vectors \cup ({id} \cap db.records)]
    BY <1>0, <1>5, EmbeddingStep DEF BackfillWrites
  <2>3. \A ns : ns = NamespaceOf[id] => InvalidationPending(ns)'
    BY <2>1 DEF InvalidationPending
  <2>4. \A ns : InvalidationPending(ns) => InvalidationPending(ns)'
    BY <2>1 DEF InvalidationPending
  <2> HIDE DEF id
  <2>5. DatabaseInv'
    BY <2>1, <2>2 DEF DatabaseInv, DatabaseConsistent, IndexesAgree
  <2> QED BY <2>1, <2>2, <2>3, <2>4, <2>5 DEF WriteIsAnnounced, ListEmbeddings, InNamespace
<1> QED BY <1>1, <1>2, <1>3, <1>4, <1>5 DEF Write

LEMMA DatabaseKept ==
  ASSUME ServicesInv, DatabaseInv, [Next]_vars
  PROVE  DatabaseInv'
<1>1. ASSUME UNCHANGED <<db, gone>>,
             UNCHANGED run \/ run'.pc \notin {"embedding", "committing", "storing"}
      PROVE  DatabaseInv'
  BY <1>1 DEF DatabaseInv, DatabaseConsistent
<1>2. CASE Calm
  <2>1. ASSUME NEW id \in FreshIds, RunEmbeds(id) PROVE DatabaseInv'
    BY <1>2, <2>1 DEF Calm, RunEmbeds, NoRun, FreshIds, DatabaseInv, DatabaseConsistent
  <2>2. ASSUME NEW outcome \in {"vector", "error"}, NEW next \in {"committing", "storing"}, RunResumes(outcome, next)
        PROVE  DatabaseInv'
    BY <1>2, <2>2 DEF Calm, RunResumes, DatabaseInv, DatabaseConsistent, ServicesInv, RunRecord
  <2>3. CASE RunRefused
    BY <1>1, <1>2, <2>3 DEF Calm, RunRefused, NoRun
  <2> QED BY <1>1, <1>2, <2>1, <2>2, <2>3 DEF Calm, RunPrepares
<1>3. ASSUME NEW s \in Searchers, SearchStep(s) PROVE DatabaseInv'
  BY <1>1, <1>3, SearchStepTyped
<1>4. CASE Write
  BY <1>4, WriteStep
<1>5. CASE RunInvalidates
  BY <1>1, <1>5 DEF RunInvalidates, NoRun, ServicesInv, RunRecord
<1>6. CASE BackfillInvalidates
  BY <1>1, <1>6 DEF BackfillInvalidates, Backfills
<1>7. CASE Restart
  BY <1>1, <1>7 DEF Restart, NoRun
<1> QED BY <1>2, <1>3, <1>4, <1>5, <1>6, <1>7, StepShapes DEF Drop

-----------------------------------------------------------------------------
(* The cache.                                                              *)

\* While nothing is written, the only index that may appear is the one of the
\* database as it is.
LEMMA IndexesOfSearch ==
  ASSUME ServicesInv, DatabaseInv, NEW s \in Searchers, SearchStep(s), NEW ns \in Namespaces
  PROVE  MayBeIndex(ns)' \subseteq MayBeIndex(ns) \cup {ListEmbeddings(db, ns)}
<1>0. search \in [Searchers -> SearchRecord] /\ search[s] \in SearchRecord
  BY DEF ServicesInv
<1>1. \A t \in Searchers \ {s} : search'[t] = search[t]
  BY SearchStepTyped
<1>2. ASSUME UNCHANGED cache,
             search'[s].pc # "filling" \/ search'[s].built = ListEmbeddings(db, search'[s].ns) \/ UNCHANGED search
      PROVE  MayBeIndex(ns)' \subseteq MayBeIndex(ns) \cup {ListEmbeddings(db, ns)}
  BY <1>1, <1>2 DEF MayBeIndex, Installable
<1>3. ASSUME NEW project \in Namespaces, NEW matching \in Queries, NEW blank \in BOOLEAN,
             SearchBegins(s, project, matching, blank)
      PROVE  UNCHANGED cache /\ search'[s].pc # "filling"
  <2>1. Begun(project, matching) \in SearchRecord /\ Begun(project, matching).pc = "embedding"
        /\ (Finish(s, Begun(project, matching)) \/ Searches(s, Begun(project, matching)))
    BY <1>3, BeginStep, BegunFields
  <2>2. search'[s].pc \in {"embedding", "done"}
    <3>1. CASE Finish(s, Begun(project, matching))
      BY <2>1, <3>1, FinishedFields DEF Ending
    <3>2. CASE Searches(s, Begun(project, matching))
      <4>1. search'[s] = Begun(project, matching)
        BY <2>1, <3>2, SearchesTyped
      <4> QED BY <2>1, <4>1
    <3> QED BY <2>1, <3>1, <3>2
  <2> QED BY <1>3, <2>2, BeginStep
<1>4. CASE SearchFallsBack(s) \/ SearchHits(s)
  <2>1. search'[s].pc = "done"
    <3>1. CASE SearchFallsBack(s)
      BY <1>0, <3>1, FinishedFields DEF SearchFallsBack, Ending
    <3>2. CASE SearchHits(s)
      <4>1. Hit(s) \in SearchRecord
        BY <1>0, <3>2 DEF ServicesInv, SearchHits, Hit, SearchRecord
      <4> QED BY <3>2, <4>1, FinishedFields DEF SearchHits, Hit, Ending
    <3> QED BY <1>4, <3>1, <3>2
  <2> QED BY <1>2, <1>4, <2>1 DEF SearchFallsBack, SearchHits
<1>5. CASE SearchMisses(s)
  <2>1. search'[s] = Miss(s)
    BY <1>0, <1>5 DEF SearchMisses, Searches, Miss
  <2>2. search'[s].ns = search[s].ns
        /\ search'[s].built = ListEmbeddings(db, search[s].ns) \cap ListMemoryRecords(db, search[s].ns)
    BY <1>0, <2>1 DEF Miss, SearchRecord
  <2>3. search'[s].built = ListEmbeddings(db, search'[s].ns)
    BY <2>2 DEF ListEmbeddings, ListMemoryRecords, InNamespace, DatabaseInv, DatabaseConsistent, IndexesAgree
  <2> QED BY <1>2, <1>5, <2>3 DEF SearchMisses
<1>6. CASE FillReturns(s)
  <2>1. search'[s].pc = "done" /\ search[s].pc = "filling"
    BY <1>0, <1>6 DEF FillReturns, Finish, Searches, SearchRecord
  <2>2. cache' = cache \/ (search[s].sameEpoch /\ cache' = [cache EXCEPT ![search[s].ns] = search[s].built])
    BY <1>6 DEF FillReturns, Install
  <2>3. cache'[ns] = cache[ns] \/ (Installable(s, ns) /\ cache'[ns] = search[s].built)
    BY <2>1, <2>2 DEF Installable, ServicesInv
  <2> QED BY <1>1, <2>1, <2>3 DEF MayBeIndex, Installable
<1>7. CASE BudgetExpires(s)
  <2>1. search'[s] = [search[s] EXCEPT !.response = "empty"]
    BY <1>0, <1>7 DEF BudgetExpires, Searches
  <2>2. \A t \in Searchers : /\ search'[t].pc = search[t].pc /\ search'[t].ns = search[t].ns
                             /\ search'[t].built = search[t].built
                             /\ search'[t].sameEpoch = search[t].sameEpoch
    BY <1>0, <1>1, <2>1 DEF SearchRecord
  <2> QED BY <1>7, <2>2 DEF BudgetExpires, MayBeIndex, Installable
<1>8. CASE RequestEnds(s)
  <2>1. search'[s].pc # "filling"
    BY <1>0, <1>8 DEF RequestEnds, Searches, NoSearch
  <2> QED BY <1>2, <1>8, <2>1 DEF RequestEnds
<1> QED BY <1>2, <1>3, <1>4, <1>5, <1>6, <1>7, <1>8 DEF SearchStep

LEMMA IndexesAfterDrop ==
  ASSUME ServicesInv, NEW dropped, Invalidate(dropped)
  PROVE  /\ dropped \in Namespaces => MayBeIndex(dropped)' = {}
         /\ \A ns \in Namespaces : MayBeIndex(ns)' \subseteq MayBeIndex(ns)
         /\ \A t \in Searchers :
              search'[t] \in {search[t], [search[t] EXCEPT !.sameEpoch = FALSE]}
<1>1. \A ns \in Namespaces : cache'[ns] = IF ns = dropped THEN NoIndex ELSE cache[ns]
  BY DEF Invalidate, ServicesInv
<1>2. \A t \in Searchers :
        /\ search'[t] \in {search[t], [search[t] EXCEPT !.sameEpoch = FALSE]}
        /\ search[t].ns = dropped /\ search[t].pc = "filling" =>
             search'[t] = [search[t] EXCEPT !.sameEpoch = FALSE]
  BY DEF Invalidate
<1>3. \A t \in Searchers : search[t] \in SearchRecord
  BY DEF ServicesInv
<1>4. \A t \in Searchers, ns \in Namespaces :
        Installable(t, ns)' => ns # dropped /\ Installable(t, ns) /\ search'[t].built = search[t].built
  BY <1>2, <1>3 DEF Installable, SearchRecord
<1>5. \A ns \in Namespaces : MayBeIndex(ns)' \subseteq MayBeIndex(ns)
  BY <1>1, <1>4, RecordsAssumption DEF MayBeIndex
<1>6. dropped \in Namespaces => MayBeIndex(dropped)' = {}
  BY <1>1, <1>4, RecordsAssumption DEF MayBeIndex
<1> QED BY <1>2, <1>5, <1>6

LEMMA IndexesAfterRestart ==
  ASSUME Restart, NEW ns \in Namespaces
  PROVE  MayBeIndex(ns)' = {}
BY RecordsAssumption DEF Restart, MayBeIndex, Installable, NoSearch

LEMMA SameIndexes ==
  ASSUME UNCHANGED <<cache, search>>, NEW ns
  PROVE  MayBeIndex(ns)' = MayBeIndex(ns)
BY DEF MayBeIndex, Installable

\* An invalidation that was announced is made, and no other one is given up.
LEMMA DropStep ==
  ASSUME ServicesInv, DatabaseInv, Drop
  PROVE  \E dropped :
           /\ Invalidate(dropped)
           /\ \A ns \in Namespaces \ {dropped} : InvalidationPending(ns) => InvalidationPending(ns)'
           /\ UNCHANGED <<db, gone>>
<1>1. CASE RunInvalidates
  <2>1. \A ns \in Namespaces \ {NamespaceOf[run.id]} : InvalidationPending(ns) => InvalidationPending(ns)'
    BY <1>1 DEF RunInvalidates, InvalidationPending
  <2> QED BY <1>1, <2>1 DEF RunInvalidates
<1>2. CASE BackfillInvalidates
  <2>1. \A ns \in Namespaces \ {NamespaceOf[Min(backfill.batch)]} :
          InvalidationPending(ns) => InvalidationPending(ns)'
    BY <1>2 DEF BackfillInvalidates, Backfills, InvalidationPending
  <2> QED BY <1>2, <2>1 DEF BackfillInvalidates, Backfills
<1> QED BY <1>1, <1>2 DEF Drop

LEMMA CacheKept ==
  ASSUME ServicesInv, DatabaseInv, CacheInv, [Next]_vars
  PROVE  CacheInv'
<1>1. CASE Calm
  BY <1>1, SameIndexes DEF Calm, SamePending, CacheInv
<1>2. ASSUME NEW s \in Searchers, SearchStep(s) PROVE CacheInv'
  <2>1. UNCHANGED <<db, run, backfill>>
    BY <1>2, SearchStepTyped
  <2> QED BY <1>2, <2>1, IndexesOfSearch DEF CacheInv, InvalidationPending
<1>3. CASE Write
  BY <1>3, WriteStep, DatabaseTyped, SameIndexes DEF WriteIsAnnounced, CacheInv
<1>4. CASE Drop
  <2>1. PICK dropped :
          /\ Invalidate(dropped)
          /\ \A ns \in Namespaces \ {dropped} : InvalidationPending(ns) => InvalidationPending(ns)'
          /\ UNCHANGED <<db, gone>>
    BY <1>4, DropStep
  <2> QED BY <2>1, IndexesAfterDrop DEF CacheInv
<1>5. CASE Restart
  BY <1>5, IndexesAfterRestart DEF CacheInv
<1> QED BY <1>1, <1>2, <1>3, <1>4, <1>5, StepShapes

-----------------------------------------------------------------------------
(* The searches.                                                           *)

\* What SearchInv says of one search.
SearchIsSound(s) ==
  /\ search[s].dead \subseteq gone
  /\ search[s].lexical \cap search[s].dead = {}
  /\ search[s].built \cap search[s].dead = {}
  /\ search[s].semantic => search[s].settled \subseteq search[s].built \cup gone
  /\ search[s].pc = "embedding" =>
       /\ search[s].settled \subseteq ListEmbeddings(db, search[s].ns) \cup gone
       /\ ~search[s].semantic /\ search[s].built = {}
       /\ \A ns \in Namespaces : \A index \in MayBeIndex(ns) :
              search[s].ns = ns => Serves(index, s)

LEMMA DatabaseServes ==
  ASSUME ServicesInv, DatabaseInv, NEW s \in Searchers, NEW ns,
         search[s].dead \subseteq gone, search[s].settled \subseteq ListEmbeddings(db, ns) \cup gone
  PROVE  Serves(ListEmbeddings(db, ns), s)
<1>1. ListEmbeddings(db, ns) \subseteq db.records /\ gone \cap db.records = {}
  BY DEF DatabaseInv, DatabaseConsistent, IndexesAgree, ListEmbeddings, InNamespace
<1> QED BY <1>1 DEF Serves

\* A search that takes no step of its own stays sound, whatever others do.
LEMMA BystanderStaysSound ==
  ASSUME ServicesInv, DatabaseInv, NEW s \in Searchers, SearchIsSound(s),
         search[s] \in SearchRecord,
         search'[s] \in {search[s], [search[s] EXCEPT !.sameEpoch = FALSE]},
         gone \subseteq gone',
         \A ns \in Namespaces :
           /\ ListEmbeddings(db, ns) \subseteq ListEmbeddings(db', ns) \cup gone'
           /\ MayBeIndex(ns)' \subseteq MayBeIndex(ns) \cup {ListEmbeddings(db, ns)}
  PROVE  SearchIsSound(s)'
<1>1. /\ search'[s].pc = search[s].pc /\ search'[s].ns = search[s].ns
      /\ search'[s].lexical = search[s].lexical /\ search'[s].built = search[s].built
      /\ search'[s].semantic = search[s].semantic
      /\ search'[s].settled = search[s].settled /\ search'[s].dead = search[s].dead
      /\ search[s].ns \in Namespaces
  BY DEF SearchRecord
<1>2. ASSUME search'[s].pc = "embedding", NEW ns \in Namespaces, NEW index \in MayBeIndex(ns)', search'[s].ns = ns
      PROVE  Serves(index, s)'
  <2>1. search[s].pc = "embedding" /\ search[s].ns = ns
    BY <1>1, <1>2
  <2>2. CASE index \in MayBeIndex(ns)
    <3>1. Serves(index, s)
      BY <2>1, <2>2 DEF SearchIsSound
    <3> QED BY <1>1, <3>1 DEF Serves
  <2>3. CASE index = ListEmbeddings(db, ns)
    <3>1. Serves(index, s)
      BY <2>1, <2>3, DatabaseServes DEF SearchIsSound
    <3> QED BY <1>1, <3>1 DEF Serves
  <2> QED BY <2>2, <2>3
<1>3. /\ search'[s].dead \subseteq gone'
      /\ search'[s].lexical \cap search'[s].dead = {}
      /\ search'[s].built \cap search'[s].dead = {}
      /\ search'[s].semantic => search'[s].settled \subseteq search'[s].built \cup gone'
  BY <1>1 DEF SearchIsSound
<1>4. search'[s].pc = "embedding" =>
        /\ search'[s].settled \subseteq ListEmbeddings(db', search'[s].ns) \cup gone'
        /\ ~search'[s].semantic /\ search'[s].built = {}
  BY <1>1 DEF SearchIsSound
<1> QED BY <1>2, <1>3, <1>4, Zenon DEF SearchIsSound

LEMMA EndingIsSound ==
  ASSUME NEW s \in Searchers, NEW step, Ending(s, step), UNCHANGED gone,
         step.dead \subseteq gone,
         step.lexical \cap step.dead = {},
         step.built \cap step.dead = {},
         step.semantic => step.settled \subseteq step.built \cup gone
  PROVE  SearchIsSound(s)'
<1>1. search'[s].pc # "embedding"
  BY DEF Ending
<1> QED BY <1>1 DEF Ending, SearchIsSound

\* The begin of a search fixes what it will be measured by.
LEMMA BeginIsSound ==
  ASSUME ServicesInv, DatabaseInv, CacheInv, NEW s \in Searchers, NEW ns \in Namespaces,
         NEW matching \in Queries, NEW blank \in BOOLEAN, SearchBegins(s, ns, matching, blank),
         SearchStep(s)
  PROVE  SearchIsSound(s)'
<1> DEFINE begun == Begun(ns, matching)
<1>1. begun \in SearchRecord /\ (Finish(s, begun) \/ Searches(s, begun)) /\ UNCHANGED <<db, gone>>
  BY BeginStep
<1>2. /\ begun.pc = "embedding" /\ begun.ns = ns
      /\ begun.lexical = SearchLexical(db, ns, matching)
      /\ begun.built = {} /\ begun.semantic = FALSE
      /\ begun.settled = IF InvalidationPending(ns) THEN {} ELSE ListEmbeddings(db, ns)
      /\ begun.dead = IF InvalidationPending(ns) THEN {} ELSE gone
  BY BegunFields
<1> HIDE DEF begun
<1>3. begun.dead \subseteq gone /\ begun.settled \subseteq ListEmbeddings(db, ns)
  BY <1>2
<1>4. begun.lexical \cap begun.dead = {}
  <2>1. begun.lexical \subseteq db.records /\ gone \cap db.records = {}
    BY <1>2, QueriesAreIds DEF ServicesInv, DatabaseInv
  <2> QED BY <1>3, <2>1
<1>5. CASE Finish(s, begun)
  <2>1. Ending(s, begun)
    BY <1>1, <1>5, FinishedFields
  <2> QED BY <1>1, <1>2, <1>3, <1>4, <2>1, EndingIsSound
<1>6. CASE Searches(s, begun)
  <2>1. search'[s] = begun
    BY <1>1, <1>6, SearchesTyped
  <2>2. ASSUME NEW index \in MayBeIndex(ns)' PROVE Serves(index, s)'
    <3>1. index \in MayBeIndex(ns) \/ index = ListEmbeddings(db, ns)
      BY <2>2, IndexesOfSearch
    <3>2. index = ListEmbeddings(db, ns) \/ InvalidationPending(ns)
      BY <3>1 DEF CacheInv
    <3>3. begun.settled \subseteq index /\ index \cap begun.dead = {}
      <4>1. CASE InvalidationPending(ns)
        BY <1>2, <4>1
      <4>2. CASE index = ListEmbeddings(db, ns) /\ ~InvalidationPending(ns)
        <5>1. ListEmbeddings(db, ns) \subseteq db.records /\ gone \cap db.records = {}
          BY DEF DatabaseInv, DatabaseConsistent, IndexesAgree, ListEmbeddings, InNamespace
        <5> QED BY <1>2, <4>2, <5>1
      <4> QED BY <3>2, <4>1, <4>2
    <3> QED BY <2>1, <3>3 DEF Serves
  <2>3. /\ search'[s].dead \subseteq gone'
        /\ search'[s].lexical \cap search'[s].dead = {}
        /\ search'[s].built \cap search'[s].dead = {}
        /\ ~search'[s].semantic /\ search'[s].built = {}
        /\ search'[s].ns = ns
        /\ search'[s].settled \subseteq ListEmbeddings(db', ns) \cup gone'
    BY <1>1, <1>2, <1>3, <1>4, <2>1
  <2> QED BY <2>2, <2>3 DEF SearchIsSound
<1> QED BY <1>1, <1>5, <1>6

LEMMA OwnStepIsSound ==
  ASSUME ServicesInv, DatabaseInv, CacheInv, NEW s \in Searchers, SearchIsSound(s), SearchStep(s)
  PROVE  SearchIsSound(s)'
<1>0. search[s] \in SearchRecord /\ search[s].ns \in Namespaces /\ UNCHANGED <<db, gone>>
  BY SearchStepTyped DEF ServicesInv, SearchRecord
<1>1. ASSUME NEW ns \in Namespaces, NEW matching \in Queries, NEW blank \in BOOLEAN,
             SearchBegins(s, ns, matching, blank)
      PROVE  SearchIsSound(s)'
  BY <1>1, BeginIsSound
<1>2. CASE SearchFallsBack(s) \/ FillReturns(s)
  <2>1. Ending(s, search[s])
    BY <1>0, <1>2, FinishedFields DEF SearchFallsBack, FillReturns
  <2> QED BY <1>0, <2>1, EndingIsSound DEF SearchIsSound
<1>3. CASE SearchHits(s)
  <2>1. Hit(s) \in SearchRecord /\ cache[search[s].ns] \in MayBeIndex(search[s].ns)
    BY <1>0, <1>3 DEF ServicesInv, SearchHits, Hit, SearchRecord, MayBeIndex
  <2>2. Serves(cache[search[s].ns], s)
    BY <1>0, <1>3, <2>1 DEF SearchIsSound, SearchHits
  <2>3. Ending(s, Hit(s))
    BY <1>0, <1>3, <2>1, FinishedFields DEF SearchHits, Hit
  <2>4. /\ Hit(s).dead = search[s].dead /\ Hit(s).lexical = search[s].lexical
        /\ Hit(s).settled = search[s].settled /\ Hit(s).built = cache[search[s].ns]
    BY <1>0 DEF Hit, SearchRecord
  <2> QED BY <1>0, <2>2, <2>3, <2>4, EndingIsSound DEF SearchIsSound, Serves
<1>4. CASE SearchMisses(s)
  <2>1. search'[s] = Miss(s)
    BY <1>0, <1>4 DEF SearchMisses, Searches, Miss, ServicesInv
  <2>2. /\ Miss(s).pc = "filling" /\ Miss(s).dead = search[s].dead /\ Miss(s).lexical = search[s].lexical
        /\ Miss(s).settled = search[s].settled
        /\ Miss(s).built = ListEmbeddings(db, search[s].ns) \cap ListMemoryRecords(db, search[s].ns)
    BY <1>0 DEF Miss, SearchRecord
  <2>3. Miss(s).built = ListEmbeddings(db, search[s].ns)
    BY <2>2 DEF ListEmbeddings, ListMemoryRecords, InNamespace, DatabaseInv, DatabaseConsistent, IndexesAgree
  <2>4. Serves(ListEmbeddings(db, search[s].ns), s)
    BY <1>4, DatabaseServes DEF SearchIsSound, SearchMisses
  <2> QED BY <1>0, <2>1, <2>2, <2>3, <2>4 DEF SearchIsSound, Serves
<1>5. CASE BudgetExpires(s)
  <2>1. search'[s] = [search[s] EXCEPT !.response = "empty"]
    BY <1>5 DEF BudgetExpires, Searches, ServicesInv
  <2>2. /\ search'[s].pc = search[s].pc /\ search'[s].ns = search[s].ns
        /\ search'[s].lexical = search[s].lexical /\ search'[s].built = search[s].built
        /\ search'[s].semantic = search[s].semantic
        /\ search'[s].settled = search[s].settled /\ search'[s].dead = search[s].dead
    BY <1>0, <2>1 DEF SearchRecord
  <2>3. ASSUME search'[s].pc = "embedding", NEW ns \in Namespaces, NEW index \in MayBeIndex(ns)',
               search'[s].ns = ns
        PROVE  Serves(index, s)'
    <3>1. index \in MayBeIndex(ns) \/ index = ListEmbeddings(db, ns)
      BY <2>3, IndexesOfSearch
    <3>2. Serves(index, s)
      BY <2>2, <2>3, <3>1, DatabaseServes DEF SearchIsSound
    <3> QED BY <1>0, <2>2, <3>2 DEF Serves
  <2>4. /\ search'[s].dead \subseteq gone'
        /\ search'[s].lexical \cap search'[s].dead = {}
        /\ search'[s].built \cap search'[s].dead = {}
        /\ search'[s].semantic => search'[s].settled \subseteq search'[s].built \cup gone'
    BY <1>0, <2>2 DEF SearchIsSound
  <2>5. search'[s].pc = "embedding" =>
          /\ search'[s].settled \subseteq ListEmbeddings(db', search'[s].ns) \cup gone'
          /\ ~search'[s].semantic /\ search'[s].built = {}
    BY <1>0, <2>2 DEF SearchIsSound
  <2> QED BY <2>3, <2>4, <2>5, Zenon DEF SearchIsSound
<1>6. CASE RequestEnds(s)
  <2>1. search'[s] = NoSearch
    BY <1>6 DEF RequestEnds, Searches, ServicesInv
  <2> QED BY <2>1 DEF NoSearch, SearchIsSound
<1> QED BY <1>1, <1>2, <1>3, <1>4, <1>5, <1>6 DEF SearchStep

LEMMA SearchKept ==
  ASSUME ServicesInv, DatabaseInv, CacheInv, SearchInv, [Next]_vars
  PROVE  SearchInv'
<1> SUFFICES ASSUME NEW t \in Searchers PROVE SearchIsSound(t)'
  BY DEF SearchInv, SearchIsSound
<1>0. SearchIsSound(t) /\ search[t] \in SearchRecord
  BY DEF SearchInv, SearchIsSound, ServicesInv
<1>1. CASE Calm
  BY <1>0, <1>1, BystanderStaysSound, SameIndexes DEF Calm
<1>2. ASSUME NEW s \in Searchers, SearchStep(s) PROVE SearchIsSound(t)'
  <2>1. CASE s = t
    BY <1>0, <1>2, <2>1, OwnStepIsSound
  <2>2. CASE s # t
    BY <1>0, <1>2, <2>2, SearchStepTyped, IndexesOfSearch, BystanderStaysSound
  <2> QED BY <2>1, <2>2
<1>3. CASE Write
  BY <1>0, <1>3, WriteStep, DatabaseTyped, SameIndexes, BystanderStaysSound DEF WriteIsAnnounced
<1>4. CASE Drop
  <2>1. PICK dropped : Invalidate(dropped) /\ UNCHANGED <<db, gone>>
    BY <1>4, DropStep
  <2> QED BY <1>0, <2>1, IndexesAfterDrop, BystanderStaysSound
<1>5. CASE Restart
  <2>1. search'[t] = NoSearch
    BY <1>5 DEF Restart
  <2> QED BY <2>1 DEF NoSearch, SearchIsSound
<1> QED BY <1>1, <1>2, <1>3, <1>4, <1>5, StepShapes

-----------------------------------------------------------------------------
(* The theorems.                                                           *)

LEMMA MemoryInvInit == Init => MemoryInv
<1> SUFFICES ASSUME Init PROVE MemoryInv
  OBVIOUS
<1>1. EmbedderInv
  <2>1. tail \in Seq(Callers) /\ Len(tail) = 0 /\ answer \in [Callers -> {"none", "vector", "error"}]
    BY DEF Init, EmbedderInit
  <2>2. \A i, j \in 1 .. Len(tail) : FALSE
    BY <2>1
  <2>3. readiness = "loading" /\ disposed = FALSE /\ abandoned = 0
    BY Zenon DEF Init, EmbedderInit
  <2>4. disposed \in BOOLEAN
    BY <2>3, Zenon
  <2> QED BY <2>1, <2>2, <2>3, <2>4, MaxAbandonedAssumption DEF EmbedderInv
<1>2. db = [records |-> OldRecords, fts |-> OldRecords, vectors |-> {}]
  BY DEF Init, EmptyDatabase
<1>3. ServicesInv
  <2>1. db \in Database /\ gone = {}
    BY <1>2, RecordsAssumption DEF Init, Database
  <2>2. search \in [Searchers -> SearchRecord] /\ cache \in [Namespaces -> (SUBSET Ids) \cup {NoIndex}]
    BY NoSearchTyped DEF Init
  <2>3. NoRun \in RunRecord /\ BackfillOff.pc = "off"
    BY DEF NoRun, RunRecord, BackfillOff
  <2>4. 0 \in 0 .. MaxCrashes
    BY CrashesAssumption
  <2> QED BY <2>1, <2>2, <2>3, <2>4, BackfillOffTyped DEF Init, ServicesInv
<1>4. DatabaseInv
  <2>1. gone = {} /\ run.pc = "idle"
    BY DEF Init, NoRun
  <2> QED BY <1>2, <2>1 DEF DatabaseInv, DatabaseConsistent, IndexesAgree
<1>5. \A ns \in Namespaces : MayBeIndex(ns) = {}
  BY RecordsAssumption DEF Init, MayBeIndex, Installable, NoSearch
<1>6. CacheInv
  BY <1>5 DEF CacheInv
<1>7. SearchInv
  BY DEF Init, SearchInv, NoSearch
<1> QED BY <1>1, <1>3, <1>4, <1>6, <1>7 DEF MemoryInv

LEMMA MemoryInvStep == MemoryInv /\ [Next]_vars => MemoryInv'
BY ServicesUseTheEmbedder, EmbedderKept, ServicesKept, DatabaseKept, CacheKept, SearchKept DEF MemoryInv

\* The inductive invariant, on which the theorems below rest.
THEOREM MemoryInvariant == Spec => []MemoryInv
<1>1. Init => MemoryInv
  BY MemoryInvInit
<1>2. MemoryInv /\ [Next]_vars => MemoryInv'
  BY MemoryInvStep
<1> QED BY <1>1, <1>2, PTL DEF Spec

\* Whatever merges, saves, backfill writes and direct commits do in which
\* order, the full-text table lists exactly the records, no vector outlives
\* its record, and every service's own state stays in range.
THEOREM StateStaysConsistent == Spec => []StateConsistent
<1>1. MemoryInv => StateConsistent
  <2> SUFFICES ASSUME MemoryInv PROVE StateConsistent
    OBVIOUS
  <2>1. EmbedderTypeOK
    BY TailIsBounded DEF MemoryInv, EmbedderInv, EmbedderTypeOK
  <2>2. \A s \in Searchers :
          /\ search[s].pc \in {"idle", "embedding", "filling", "done"}
          /\ search[s].response \in {"none", "pending", "empty", "results"}
          /\ search[s].lexical \cup search[s].built \subseteq Ids
    BY DEF MemoryInv, ServicesInv, SearchRecord
  <2>3. /\ run.pc \in {"idle", "embedding", "committing", "storing", "dropping", "updating", "dropping again"}
        /\ run.id \in Ids \cup {0} /\ run.embedded \in BOOLEAN
    BY DEF MemoryInv, ServicesInv, RunRecord
  <2>4. /\ backfill.pc \in {"off", "top", "record", "embedding", "dropping", "paused", "sleeping", "ended"}
        /\ backfill.batch \subseteq Ids /\ Cardinality(backfill.batch) <= BatchSize
        /\ backfill.failures \in 0 .. CircuitBreakerFailures
        /\ backfill.state \in {"idle", "running", "paused", "stopped"}
    BY DEF MemoryInv, ServicesInv, BackfillRecord
  <2> QED BY <2>1, <2>2, <2>3, <2>4 DEF MemoryInv, ServicesInv, DatabaseInv, StateConsistent, MemoryTypeOK
<1> QED BY <1>1, MemoryInvariant, PTL

\* A cached index is that of the database, or the write that outdated it is
\* about to drop it: no build that began before a write survives it.
THEOREM CacheStaysFresh == Spec => []CacheFresh
<1>1. MemoryInv => CacheFresh
  <2> SUFFICES ASSUME MemoryInv, NEW ns \in Namespaces, cache[ns] # NoIndex
               PROVE  cache[ns] = ListEmbeddings(db, ns) \/ InvalidationPending(ns)
    BY DEF CacheFresh
  <2>1. cache[ns] \in MayBeIndex(ns)
    BY DEF MemoryInv, ServicesInv, MayBeIndex
  <2> QED BY <2>1 DEF MemoryInv, CacheInv
<1> QED BY <1>1, MemoryInvariant, PTL

\* With writes at every await of a search, its vector stage misses nothing that
\* was stored when it began, and it returns nothing that was deleted by then.
THEOREM SearchStaysCurrent == Spec => []SearchIsCurrent
<1>1. MemoryInv => SearchIsCurrent
  BY DEF MemoryInv, SearchInv, SearchIsCurrent, SearchSeesStored, NothingResurrected, Result
<1> QED BY <1>1, MemoryInvariant, PTL

\* Only the backfill puts the backfill on the promise chain, and not once it is
\* to stop.
LEMMA TailShapes ==
  ASSUME [Next]_vars, backfill.stopped
  PROVE  \/ tail' \in {tail, <<>>}
         \/ tail # <<>> /\ tail' = Tail(tail)
         \/ \E c \in Callers : c # "backfill" /\ tail' = Append(tail, c)
<1> DEFINE Shapes ==
         \/ tail' \in {tail, <<>>}
         \/ tail # <<>> /\ tail' = Tail(tail)
         \/ \E c \in Callers : c # "backfill" /\ tail' = Append(tail, c)
<1>1. ASSUME NEW c \in Callers, c # "backfill", Embed(c) PROVE Shapes
  BY <1>1 DEF Embed
<1>2. ASSUME UNCHANGED tail PROVE Shapes
  BY <1>2
<1>3. ASSUME NEW outcome \in {"ready", "failed"}, ModelLoads(outcome) PROVE Shapes
  BY <1>2, <1>3 DEF ModelLoads, Load
<1>4. CASE EmbedderSteps
  BY <1>4 DEF EmbedderSteps, InferenceEnds, InferenceTimesOut, AbandonedInferenceEnds, Release
<1>5. ASSUME NEW s \in Searchers, SearchStep(s) PROVE Shapes
  <2>1. s \in Callers /\ s # "backfill"
    BY CallersHere
  <2>2. ASSUME NEW ns \in Namespaces, NEW matching \in Queries, NEW blank \in BOOLEAN,
               SearchBegins(s, ns, matching, blank)
        PROVE  Embed(s) \/ UNCHANGED tail
    BY <2>2 DEF SearchBegins, embedderVars
  <2>3. CASE SearchFallsBack(s) \/ SearchHits(s) \/ SearchMisses(s)
    BY <1>2, <2>3 DEF SearchFallsBack, SearchHits, SearchMisses, Take
  <2>4. CASE FillReturns(s) \/ BudgetExpires(s) \/ RequestEnds(s)
    BY <1>2, <2>4 DEF FillReturns, BudgetExpires, RequestEnds, embedderVars
  <2> QED BY <1>1, <1>2, <1>5, <2>1, <2>2, <2>3, <2>4 DEF SearchStep
<1>6. CASE Writing
  <2>1. "run" \in Callers
    BY CallersHere
  <2>2. ASSUME NEW id \in FreshIds, RunEmbeds(id) PROVE Shapes
    BY <1>1, <2>1, <2>2 DEF RunEmbeds
  <2>3. ASSUME ~\E id \in FreshIds : RunEmbeds(id) PROVE UNCHANGED tail
    BY <1>6, <2>3 DEF Writing, SaveMemory, RunResumes, RunCommits, RunStores, RunUpdates,
       RunInvalidates, RunRefused, Take, embedderVars
  <2> QED BY <1>2, <2>2, <2>3
<1>7. CASE Backfilling
  <2>1. UNCHANGED tail
    BY <1>7 DEF Backfilling, BackfillLists, BackfillNext, BackfillBatchEnds, BackfillWrites,
       BackfillInvalidates, BackfillFails, BackfillWakes, Take, embedderVars
  <2> QED BY <1>2, <2>1
<1>8. CASE Closing
  <2>1. UNCHANGED tail
    BY <1>8 DEF Closing, CloseBegins, ReceiverCloses, BackfillStops, CollectorCloses, Dispose, embedderVars
  <2> QED BY <1>2, <2>1
<1>9. CASE Restart
  BY <1>9 DEF Restart
<1>10. CASE UNCHANGED vars
  BY <1>2, <1>10 DEF vars, embedderVars
<1> QED BY <1>3, <1>4, <1>5, <1>6, <1>7, <1>8, <1>9, <1>10 DEF Next, Searching, SearchStep

\* Once stop() was called the backfill begins no further embedding, whatever the
\* others ask of the embedder.
THEOREM NothingEmbeddedAfterStop == Spec => NoEmbedAfterStop
<1>1. MemoryInv /\ [Next]_vars =>
        [backfill.stopped /\ ~Waiting("backfill") => ~Waiting("backfill")']_vars
  <2> SUFFICES ASSUME MemoryInv, [Next]_vars, backfill.stopped, ~Waiting("backfill")
               PROVE  ~Waiting("backfill")'
    OBVIOUS
  <2>0. tail \in Seq(Callers) /\ \A i \in 1 .. Len(tail) : tail[i] # "backfill"
    BY DEF MemoryInv, EmbedderInv, Waiting, ToSet
  <2>1. ASSUME \A i \in 1 .. Len(tail') : tail'[i] # "backfill", tail' \in Seq(Callers)
        PROVE  ~Waiting("backfill")'
    BY <2>1 DEF Waiting, ToSet
  <2>2. CASE tail' = <<>>
    BY <2>1, <2>2
  <2>3. CASE tail' = tail
    BY <2>0, <2>1, <2>3
  <2>4. CASE tail # <<>> /\ tail' = Tail(tail)
    <3>1. tail' \in Seq(Callers) /\ \A i \in 1 .. Len(tail') : tail'[i] = tail[i + 1] /\ i + 1 \in 1 .. Len(tail)
      BY <2>0, <2>4
    <3> QED BY <2>0, <2>1, <3>1
  <2>5. ASSUME NEW c \in Callers, c # "backfill", tail' = Append(tail, c)
        PROVE  ~Waiting("backfill")'
    <3>1. tail' \in Seq(Callers) /\ \A i \in 1 .. Len(tail') : tail'[i] = c \/ (i \in 1 .. Len(tail) /\ tail'[i] = tail[i])
      BY <2>0, <2>5
    <3> QED BY <2>0, <2>1, <2>5, <3>1
  <2> QED BY <2>2, <2>3, <2>4, <2>5, TailShapes
<1> QED BY <1>1, MemoryInvariant, PTL DEF Spec, NoEmbedAfterStop
=============================================================================
