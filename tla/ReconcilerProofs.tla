-------------------------- MODULE ReconcilerProofs --------------------------
(***************************************************************************)
(* Theorems about Reconciler, for any number of events, record ids,        *)
(* candidates, neighbours, judge failures and deaths.                      *)
(*                                                                         *)
(* No single handler keeps a batch from being lost or committed twice: the *)
(* clusters a run has not settled yet, the records it has committed, and   *)
(* the flag that decides about the buffer must agree between any two of    *)
(* its steps, and with what the backfill, searches and saves do meanwhile. *)
(* ReconcilerInv says how.                                                 *)
(***************************************************************************)
EXTENDS Reconciler, FiniteSetTheorems, SequenceTheorems, TLAPS

\* Where the run is, and what it has in hand there.
PhaseInv ==
  /\ phase \in {"idle", "extracting"} <=> clusters = <<>>
  /\ phase \in {"idle", "extracting"} => ~anyCommitted
  /\ phase \notin {"judging", "separating", "merging"} => neighbors = {}
  /\ phase = "merging" => cited \subseteq IdsOf(Head(clusters).members \cup neighbors)

\* The members of the clusters still to be settled: candidates of this batch,
\* each of them in one cluster and in no record yet.
MembersInv ==
  \A i \in 1 .. Len(clusters) :
    /\ clusters[i].members # {}
    /\ \A m \in clusters[i].members :
         /\ m.sources = pending /\ m.covers = {m.id}
         /\ m.id \notin IdsOf(memory) \cup Covers(memory)
         /\ \A j \in 1 .. Len(clusters) : \A n \in clusters[j].members :
              m.id = n.id => i = j /\ m = n

\* What the records know of the events. Only while a run commits may a record
\* name an event that is still in the buffer.
SourcesInv ==
  /\ pending \cup Sources(memory) \subseteq appended
  /\ anyCommitted => pending \subseteq Sources(memory) \cup uncited
  /\ crashes = 0 /\ phase # "committing" /\ ~anyCommitted => Sources(memory) \cap pending = {}

\* After a run that bypassed the judge the breaker is closed until a run that
\* asks the judge again opens it.
FallbackInv ==
  fallbacks >= 1 =>
    /\ fallbacks = 1 /\ ~openAtStart
    /\ breaker.open => phase \in {"clustering", "judging", "separating", "merging"}

RecordsInv == MembersInv /\ CoveredOnce

\* A neighbour has an embedding: the backfill leaves it alone.
NeighborsInv == IndexIsFresh /\ neighbors \subseteq Embedded(memory)

BreakerInv == BreakerTrips /\ FallbackInv

ReconcilerInv ==
  /\ TypeOK /\ PhaseInv
  /\ RecordsInv
  /\ SourcesInv /\ EventsAccounted
  /\ NeighborsInv /\ BreakerInv

-----------------------------------------------------------------------------
(* The shapes of steps. *)

\* A cluster is settled and the next one taken up; or it was the last one, and
\* the buffer is cleared, or kept.
GoesOn ==
  /\ Len(clusters) > 1 /\ clusters' = Tail(clusters)
  /\ phase' = "clustering" /\ neighbors' = {} /\ failedAttempts' = 0 /\ cited' = {}
  /\ UNCHANGED <<pending, breaker, openAtStart, anyJudgeFailure, fallbacks, defeats>>

Clears ==
  /\ Len(clusters) = 1 /\ pending' = {} /\ fallbacks' = 0 /\ Idle
  /\ breaker' = OnRunComplete(breaker, anyJudgeFailure)
  /\ defeats' \in {defeats, 0}

Keeps ==
  /\ Len(clusters) = 1 /\ UNCHANGED pending /\ fallbacks' = 0 /\ Idle
  /\ breaker' = OnRunComplete(breaker, anyJudgeFailure)
  /\ defeats' \in {defeats, 0}

LEMMA SettleCommits ==
  ASSUME Settle(TRUE)
  PROVE  (GoesOn /\ anyCommitted' = TRUE) \/ Clears
<1>1. CASE Len(clusters) > 1 /\ NextCluster(Tail(clusters), anyCommitted \/ TRUE)
  BY <1>1 DEF NextCluster, GoesOn
<1>2. CASE Len(clusters) = 1 /\ EndOfRun(anyCommitted \/ TRUE) /\ fallbacks' = 0
  BY <1>2 DEF EndOfRun, Complete, Clears
<1> QED BY <1>1, <1>2 DEF Settle

LEMMA SettleFails ==
  ASSUME Settle(FALSE), anyCommitted \in BOOLEAN
  PROVE  \/ GoesOn /\ UNCHANGED anyCommitted
         \/ anyCommitted /\ Clears
         \/ ~anyCommitted /\ Keeps
<1>1. CASE Len(clusters) > 1 /\ NextCluster(Tail(clusters), anyCommitted \/ FALSE)
  BY <1>1 DEF NextCluster, GoesOn
<1>2. CASE Len(clusters) = 1 /\ EndOfRun(anyCommitted \/ FALSE) /\ fallbacks' = 0
  BY <1>2 DEF EndOfRun, Complete, Clears, Keeps
<1> QED BY <1>1, <1>2 DEF Settle

\* The part of the state an end or a continuation of a run sets.
RunOK ==
  /\ pending \subseteq Events
  /\ breaker \in [consecutiveFailures : Nat, open : BOOLEAN]
  /\ phase \in Phase /\ openAtStart \in BOOLEAN
  /\ clusters \in Seq(Cluster)
  /\ neighbors \subseteq Record
  /\ failedAttempts \in 0 .. JudgeAttempts - 1
  /\ cited \subseteq Ids
  /\ anyCommitted \in BOOLEAN /\ anyJudgeFailure \in BOOLEAN
  /\ fallbacks \in Nat /\ defeats \in Nat

LEMMA OnRunCompleteTyped ==
  ASSUME TypeOK
  PROVE  /\ OnRunComplete(breaker, anyJudgeFailure) \in [consecutiveFailures : Nat, open : BOOLEAN]
         /\ OnRunComplete(breaker, FALSE) = [consecutiveFailures |-> 0, open |-> FALSE]
BY DEF TypeOK, OnRunComplete

LEMMA IdleIsTyped ==
  ASSUME Idle, pending' \subseteq Events, fallbacks' \in Nat, defeats' \in Nat,
         breaker' \in [consecutiveFailures : Nat, open : BOOLEAN]
  PROVE  RunOK' /\ PhaseInv'
<1>1. clusters' \in Seq(Cluster) /\ clusters' = <<>>
  BY DEF Idle
<1>2. openAtStart' \in BOOLEAN /\ anyCommitted' \in BOOLEAN /\ anyJudgeFailure' \in BOOLEAN
  BY Zenon DEF Idle
<1>3. phase' = "idle" /\ neighbors' = {} /\ failedAttempts' = 0 /\ cited' = {} /\ ~anyCommitted'
  BY Zenon DEF Idle
<1> QED BY <1>1, <1>2, <1>3 DEF RunOK, PhaseInv, Phase, JudgeAttempts

LEMMA SettledIsTyped ==
  ASSUME TypeOK, (GoesOn /\ anyCommitted' \in BOOLEAN) \/ Clears \/ Keeps
  PROVE  RunOK' /\ PhaseInv'
<1>1. CASE GoesOn /\ anyCommitted' \in BOOLEAN
  <2>1. clusters' \in Seq(Cluster) /\ clusters' # <<>>
    <3>1. clusters \in Seq(Cluster) /\ Len(clusters) > 1 /\ clusters' = Tail(clusters)
      BY <1>1 DEF TypeOK, GoesOn
    <3>2. clusters' \in Seq(Cluster) /\ Len(clusters') # 0
      BY <3>1
    <3> QED BY <3>2
  <2>2. /\ phase' = "clustering" /\ neighbors' = {} /\ failedAttempts' = 0 /\ cited' = {}
        /\ UNCHANGED <<pending, breaker, openAtStart, anyJudgeFailure, fallbacks, defeats>>
    BY <1>1 DEF GoesOn
  <2> QED BY <1>1, <2>1, <2>2 DEF TypeOK, RunOK, PhaseInv, Phase, JudgeAttempts
<1>2. CASE Clears
  <2>0. /\ Idle /\ fallbacks' = 0 /\ defeats' \in {defeats, 0}
        /\ pending' \in {pending, {}}
    BY <1>2, Zenon DEF Clears
  <2>1. pending' \subseteq Events /\ fallbacks' \in Nat /\ defeats' \in Nat
    BY <2>0 DEF TypeOK
  <2>2. breaker' \in [consecutiveFailures : Nat, open : BOOLEAN]
    BY <1>2, OnRunCompleteTyped DEF Clears
  <2> QED BY <2>0, <2>1, <2>2, IdleIsTyped
<1>3. CASE Keeps
  <2>0. /\ Idle /\ fallbacks' = 0 /\ defeats' \in {defeats, 0}
        /\ pending' \in {pending, {}}
    BY <1>3, Zenon DEF Keeps
  <2>1. pending' \subseteq Events /\ fallbacks' \in Nat /\ defeats' \in Nat
    BY <2>0 DEF TypeOK
  <2>2. breaker' \in [consecutiveFailures : Nat, open : BOOLEAN]
    BY <1>3, OnRunCompleteTyped DEF Keeps
  <2> QED BY <2>0, <2>1, <2>2, IdleIsTyped
<1> QED BY <1>1, <1>2, <1>3

StoreOK ==
  /\ memory \subseteq Record /\ cached \in BOOLEAN /\ index \subseteq Record
  /\ backfilling \in BOOLEAN /\ crashes \in Nat
  /\ appended \cup skipped \cup uncited \subseteq Events

LEMMA TypeSplits == TypeOK <=> RunOK /\ StoreOK
BY DEF TypeOK, RunOK, StoreOK

-----------------------------------------------------------------------------
(* The clusters of a batch. *)

\* One candidate per id, and all of them name the whole batch.
LEMMA CandidatesAreUnique ==
  ASSUME NEW ids \in SUBSET Ids, NEW candidates \in Candidates(ids), pending \subseteq Events
  PROVE  /\ candidates \subseteq Record
         /\ \A c \in candidates : c.id \in ids /\ c.sources = pending /\ c.covers = {c.id}
         /\ \A i \in ids : \E c \in candidates : c.id = i
         /\ \A c, d \in candidates : c.id = d.id => c = d
<1> DEFINE Candidate(i, e) == [id |-> i, sources |-> pending, embedded |-> e, covers |-> {i}]
<1> DEFINE Of(i) == {c \in candidates : c.id = i}
<1>1. \A c \in candidates : \E i \in ids, e \in BOOLEAN : c = Candidate(i, e)
  BY DEF Candidates
<1>2. \A i \in ids : Cardinality(Of(i)) = 1
  BY DEF Candidates
<1>3. ASSUME NEW i \in ids PROVE \E x : Of(i) = {x}
  <2>1. PICK few : few = {Candidate(i, TRUE)} \cup {Candidate(i, FALSE)}
    OBVIOUS
  <2>2. \A x, y : IsFiniteSet({x} \cup {y})
    BY FS_Singleton, FS_AddElement
  <2>3. IsFiniteSet(few)
    BY <2>1, <2>2
  <2>4. ASSUME NEW c \in Of(i) PROVE c \in few
    <3>1. PICK k \in ids, e \in BOOLEAN : c = Candidate(k, e)
      BY <1>1
    <3>2. c.id = k /\ c.id = i
      BY <3>1
    <3>3. c = Candidate(i, e)
      BY <3>1, <3>2
    <3>4. e = TRUE \/ e = FALSE
      BY Zenon
    <3> HIDE DEF Candidate
    <3> QED BY <2>1, <3>3, <3>4, Zenon
  <2>5. IsFiniteSet(Of(i))
    BY <2>3, <2>4, FS_Subset
  <2> HIDE DEF Of
  <2> QED BY <1>2, <2>5, FS_Singleton
<1>4. \A c \in candidates : c.id \in ids /\ c.sources = pending /\ c.covers = {c.id} /\ c \in Record
  BY <1>1 DEF Record
<1>5. \A i \in ids : \E c \in candidates : c.id = i
  BY <1>3
<1>6. \A c, d \in candidates : c.id = d.id => c = d
  <2> SUFFICES ASSUME NEW c \in candidates, NEW d \in candidates, c.id = d.id PROVE c = d
    OBVIOUS
  <2>1. PICK x : Of(c.id) = {x}
    BY <1>3, <1>4
  <2> QED BY <2>1
<1> QED BY <1>4, <1>5, <1>6

\* Clusters that partition what they hold of the candidates.
SoundClusters(cs, ids) ==
  /\ cs \in Seq(Cluster) /\ cs # <<>>
  /\ \A i \in 1 .. Len(cs) :
       /\ cs[i].members # {}
       /\ \A m \in cs[i].members :
            /\ m.id \in ids /\ m.sources = pending /\ m.covers = {m.id}
            /\ \A j \in 1 .. Len(cs) : \A n \in cs[j].members : m.id = n.id => i = j /\ m = n

LEMMA ClusteringsAreSound ==
  ASSUME NEW ids \in SUBSET Ids, ids # {}, pending \subseteq Events,
         NEW candidates \in Candidates(ids), NEW cs \in Clusterings(candidates)
  PROVE  SoundClusters(cs, ids)
<1>1. /\ candidates \subseteq Record
      /\ \A c \in candidates : c.id \in ids /\ c.sources = pending /\ c.covers = {c.id}
      /\ \A i \in ids : \E c \in candidates : c.id = i
      /\ \A c, d \in candidates : c.id = d.id => c = d
  BY CandidatesAreUnique
<1>2. IdsOf(candidates) = ids
  BY <1>1 DEF IdsOf
<1>3. PICK root \in Forests(candidates) :
        \E order \in Increasing({root[i] : i \in IdsOf(candidates)}) :
          cs = [k \in DOMAIN order |-> ClusterOf(candidates, root, order[k])]
  BY DEF Clusterings
<1> DEFINE roots == {root[i] : i \in ids}
<1>4. PICK order \in Increasing(roots) : cs = [k \in DOMAIN order |-> ClusterOf(candidates, root, order[k])]
  BY <1>2, <1>3
<1>5. root \in [ids -> ids] /\ \A i \in ids : root[root[i]] = root[i]
  BY <1>2, <1>3 DEF Forests
<1>6. roots \subseteq ids /\ roots # {}
  BY <1>5
<1>7. IsFiniteSet(roots)
  BY <1>6, FS_Subset, ReconcilerAssumption
<1>8. Cardinality(roots) \in Nat /\ Cardinality(roots) # 0
  BY <1>6, <1>7, FS_CardinalityType, FS_EmptySet
<1> HIDE DEF roots
<1>9. /\ order \in [1 .. Cardinality(roots) -> roots]
      /\ \A i, j \in 1 .. Cardinality(roots) : i < j => order[i] < order[j]
  BY <1>4 DEF Increasing
<1>10. \A i, j \in 1 .. Cardinality(roots) : order[i] = order[j] => i = j
  <2>1. \A i \in 1 .. Cardinality(roots) : order[i] \in Nat
    BY <1>6, <1>9, ReconcilerAssumption
  <2> QED BY <1>8, <1>9, <2>1
<1>11. \A k \in 1 .. Cardinality(roots) :
         /\ cs[k].members = {c \in candidates : root[c.id] = order[k]}
         /\ cs[k] \in Cluster
  BY <1>1, <1>4, <1>9 DEF ClusterOf, Cluster
<1>12. cs \in Seq(Cluster) /\ Len(cs) = Cardinality(roots)
  BY <1>4, <1>8, <1>9, <1>11
<1>13. ASSUME NEW i \in 1 .. Len(cs)
       PROVE  /\ cs[i].members # {}
              /\ \A m \in cs[i].members :
                   /\ m.id \in ids /\ m.sources = pending /\ m.covers = {m.id}
                   /\ \A j \in 1 .. Len(cs) : \A n \in cs[j].members : m.id = n.id => i = j /\ m = n
  <2>1. i \in 1 .. Cardinality(roots)
    BY <1>12
  <2>2. PICK r \in ids : order[i] = root[r]
    BY <1>9, <2>1 DEF roots
  <2>3. order[i] \in ids /\ root[order[i]] = order[i]
    BY <1>5, <2>2
  <2>4. cs[i].members # {}
    BY <1>1, <1>11, <2>1, <2>3
  <2>5. ASSUME NEW m \in cs[i].members, NEW j \in 1 .. Len(cs), NEW n \in cs[j].members, m.id = n.id
        PROVE  i = j /\ m = n
    <3>1. j \in 1 .. Cardinality(roots)
      BY <1>12
    <3>2. m \in candidates /\ n \in candidates /\ root[m.id] = order[i] /\ root[n.id] = order[j]
      BY <1>11, <2>1, <3>1
    <3> QED BY <1>1, <1>10, <2>1, <2>5, <3>1, <3>2
  <2> QED BY <1>1, <1>11, <2>1, <2>4, <2>5
<1>14. cs # <<>>
  BY <1>8, <1>12
<1> QED BY <1>12, <1>13, <1>14 DEF SoundClusters

LEMMA ExtractionStep ==
  ASSUME TypeOK, NEW n \in Nat \ {0}, Extracts(n)
  PROVE  /\ \E ids \in SUBSET FreshIds : SoundClusters(clusters', ids)
         /\ phase = "extracting"
         /\ \/ phase' = "committing" /\ Fallback
            \/ phase' = "clustering" /\ ~Fallback
         /\ UNCHANGED <<pending, memory, cache, breaker, openAtStart, neighbors,
                        failedAttempts, cited, anyCommitted, anyJudgeFailure, life, history>>
<1>1. PICK ids \in SUBSET FreshIds :
        /\ Cardinality(ids) = n
        /\ \E candidates \in Candidates(ids) :
             IF Fallback
             THEN phase' = "committing" /\ clusters' \in Singletons(candidates)
             ELSE phase' = "clustering" /\ clusters' \in Clusterings(candidates)
  BY DEF Extracts
<1>2. ids \in SUBSET Ids /\ ids # {}
  BY <1>1, FS_EmptySet DEF FreshIds
<1>3. PICK candidates \in Candidates(ids) :
        IF Fallback
        THEN phase' = "committing" /\ clusters' \in Singletons(candidates)
        ELSE phase' = "clustering" /\ clusters' \in Clusterings(candidates)
  BY <1>1
<1>4. clusters' \in Clusterings(candidates)
  BY <1>3 DEF Singletons
<1>5. SoundClusters(clusters', ids)
  BY <1>2, <1>4, ClusteringsAreSound DEF TypeOK
<1> QED BY <1>3, <1>5 DEF Extracts

-----------------------------------------------------------------------------
(* Types and phases. *)

RunOKAndPhase == RunOK' /\ PhaseInv'

LEMMA RunUntouched ==
  ASSUME TypeOK, PhaseInv, UNCHANGED <<pending, breaker, run, fallbacks, defeats>>
  PROVE  RunOKAndPhase
BY DEF run, TypeOK, RunOK, PhaseInv, RunOKAndPhase

LEMMA NewRecordsTyped ==
  ASSUME TypeOK, PhaseInv
  PROVE  /\ clusters # <<>> =>
              /\ Head(clusters).members \subseteq Record
              /\ {[c EXCEPT !.embedded = FALSE] : c \in Head(clusters).members} \subseteq Record
         /\ \A id \in Ids, embeds \in BOOLEAN :
              clusters # <<>> => Summary(id, embeds) \in Record
<1>1. ASSUME clusters # <<>> PROVE Head(clusters) \in Cluster
  BY <1>1 DEF TypeOK
<1>2. ASSUME clusters # <<>> PROVE Head(clusters).members \subseteq Record
  BY <1>1, <1>2 DEF Cluster
<1>3. ASSUME clusters # <<>>
      PROVE  {[c EXCEPT !.embedded = FALSE] : c \in Head(clusters).members} \subseteq Record
  BY <1>2, <1>3 DEF Record
<1>4. ASSUME clusters # <<>>, NEW id \in Ids, NEW embeds \in BOOLEAN PROVE Summary(id, embeds) \in Record
  <2>1. MergedMembers \subseteq Record
    BY <1>2, <1>4 DEF MergedMembers, TypeOK
  <2>2. Covers(MergedMembers) \subseteq Ids /\ Sources(MergedMembers) \subseteq Events
    BY <2>1 DEF Covers, Sources, Record
  <2> QED BY <2>2 DEF Summary, Record
<1> QED BY <1>2, <1>3, <1>4

LEMMA MergeTyped ==
  ASSUME TypeOK, PhaseInv, clusters # <<>>, Merge
  PROVE  memory' \subseteq Record
BY NewRecordsTyped DEF Merge, FreshIds, TypeOK

LEMMA TypesKept ==
  ASSUME TypeOK, PhaseInv, [Next]_vars
  PROVE  TypeOK' /\ PhaseInv'
<1> SUFFICES RunOKAndPhase /\ StoreOK'
  BY TypeSplits, PTL DEF RunOKAndPhase
<1>1. ASSUME NEW e \in Events, AppendEvent(e) PROVE RunOKAndPhase /\ StoreOK'
  <2>1. UNCHANGED run /\ pending' \subseteq Events /\ appended' \subseteq Events
        /\ UNCHANGED <<memory, cache, breaker, life, skipped, uncited, fallbacks, defeats>>
    BY <1>1 DEF AppendEvent, TypeOK
  <2> QED BY <2>1 DEF run, cache, life, TypeOK, RunOK, StoreOK, PhaseInv, RunOKAndPhase
<1>2. CASE StartRun
  <2>1. openAtStart' \in BOOLEAN
    BY <1>2 DEF StartRun, TypeOK
  <2>2. phase = "idle" /\ phase' = "extracting"
    BY <1>2 DEF StartRun
  <2>3. StoreOK'
    BY <1>2 DEF StartRun, cache, life, history, TypeOK, StoreOK
  <2>4. UNCHANGED <<pending, breaker, clusters, neighbors, failedAttempts, cited, anyCommitted,
                    anyJudgeFailure, fallbacks, defeats>>
    BY <1>2 DEF StartRun, history
  <2> QED BY <2>1, <2>2, <2>3, <2>4 DEF TypeOK, RunOK, PhaseInv, Phase, RunOKAndPhase
<1>3. CASE EmptyRun
  <2>1. Idle /\ pending' = {} /\ fallbacks' = 0 /\ defeats' = 0
        /\ breaker' = [consecutiveFailures |-> 0, open |-> FALSE]
    BY <1>3, OnRunCompleteTyped DEF EmptyRun, Complete
  <2>2. StoreOK'
    BY <1>3 DEF EmptyRun, cache, life, TypeOK, StoreOK
  <2> QED BY <2>1, <2>2, IdleIsTyped DEF RunOKAndPhase
<1>4. CASE ExtractionFails \/ ExtractsNothing
  <2>1. CASE ExtractionFails
    BY <2>1, IdleIsTyped DEF ExtractionFails, cache, life, history, TypeOK, StoreOK, RunOKAndPhase
  <2>2. CASE ExtractsNothing
    <3>1. Idle /\ pending' = {} /\ fallbacks' = 0 /\ defeats' = 0
          /\ breaker' = [consecutiveFailures |-> 0, open |-> FALSE]
      BY <2>2, OnRunCompleteTyped DEF ExtractsNothing, Complete
    <3>2. StoreOK'
      BY <2>2 DEF ExtractsNothing, cache, life, TypeOK, StoreOK
    <3> QED BY <3>1, <3>2, IdleIsTyped DEF RunOKAndPhase
  <2> QED BY <1>4, <2>1, <2>2
<1>5. ASSUME NEW n \in 1 .. MaxCandidates, Extracts(n) PROVE RunOKAndPhase /\ StoreOK'
  <2>1. PICK ids \in SUBSET FreshIds : SoundClusters(clusters', ids)
    BY <1>5, ExtractionStep
  <2>2. /\ phase = "extracting" /\ phase' \in {"committing", "clustering"}
        /\ UNCHANGED <<pending, memory, cache, breaker, openAtStart, neighbors,
                       failedAttempts, cited, anyCommitted, anyJudgeFailure, life, history>>
    BY <1>5, ExtractionStep
  <2>3. clusters' \in Seq(Cluster) /\ clusters' # <<>>
    BY <2>1 DEF SoundClusters
  <2> QED BY <2>2, <2>3 DEF cache, life, history, TypeOK, RunOK, StoreOK, PhaseInv, Phase, RunOKAndPhase
<1>6. CASE CommitDirectly
  <2>0. clusters # <<>> /\ clusters \in Seq(Cluster) /\ phase = "committing" /\ neighbors = {}
    BY <1>6 DEF CommitDirectly, PhaseInv, TypeOK
  <2>1. memory' \subseteq Record
    BY <1>6, <2>0, NewRecordsTyped DEF CommitDirectly, TypeOK
  <2>2. StoreOK'
    BY <1>6, <2>1 DEF CommitDirectly, DropIndex, life, TypeOK, StoreOK
  <2>3. CASE Len(clusters) > 1 /\ clusters' = Tail(clusters)
             /\ UNCHANGED <<pending, breaker, phase, openAtStart, neighbors, failedAttempts,
                            cited, anyCommitted, anyJudgeFailure, fallbacks, defeats>>
    <3>1. clusters' \in Seq(Cluster) /\ Len(clusters') # 0
      BY <2>0, <2>3
    <3>2. clusters' # <<>>
      BY <3>1
    <3> QED BY <2>0, <2>2, <2>3, <3>1, <3>2 DEF TypeOK, RunOK, PhaseInv, RunOKAndPhase
  <2>4. CASE Complete(FALSE) /\ fallbacks' = IF openAtStart THEN fallbacks + 1 ELSE 0
    <3>1. Idle /\ pending' = {} /\ defeats' = 0
          /\ breaker' = [consecutiveFailures |-> 0, open |-> FALSE]
      BY <2>4, OnRunCompleteTyped DEF Complete
    <3>2. fallbacks' \in Nat
      BY <2>4 DEF TypeOK
    <3> QED BY <2>2, <3>1, <3>2, IdleIsTyped DEF RunOKAndPhase
  <2> QED BY <1>6, <2>3, <2>4 DEF CommitDirectly
<1>7. CASE NullCentroid
  <2>1. phase = "clustering" /\ phase' = "separating"
        /\ UNCHANGED <<pending, memory, cache, breaker, openAtStart, clusters, neighbors,
                 failedAttempts, cited, anyCommitted, anyJudgeFailure, life, history>>
    BY <1>7 DEF NullCentroid
  <2> QED BY <2>1 DEF cache, life, history, TypeOK, RunOK, StoreOK, PhaseInv, Phase, RunOKAndPhase
<1>8. CASE LookupNeighbors
  <2>1. /\ phase = "clustering" /\ phase' \in {"separating", "judging"}
        /\ cached' = TRUE /\ index' \subseteq Record /\ neighbors' \subseteq index'
        /\ UNCHANGED <<pending, memory, breaker, openAtStart, clusters, failedAttempts,
                 cited, anyCommitted, anyJudgeFailure, life, history>>
    BY <1>8 DEF LookupNeighbors, LoadIndex, TypeOK, Embedded
  <2> QED BY <2>1 DEF life, history, TypeOK, RunOK, StoreOK, PhaseInv, Phase, RunOKAndPhase
<1>9. CASE JudgeGarbles \/ JudgeGivesUp
  <2>1. CASE JudgeGarbles
    <3>1. failedAttempts' \in 0 .. JudgeAttempts - 1
      BY <2>1 DEF JudgeGarbles, TypeOK, JudgeAttempts
    <3>2. UNCHANGED <<pending, memory, cache, breaker, phase, openAtStart, clusters, neighbors,
                 cited, anyCommitted, anyJudgeFailure, life, history>>
      BY <2>1 DEF JudgeGarbles
    <3> QED BY <3>1, <3>2 DEF cache, life, history, TypeOK, RunOK, StoreOK, PhaseInv, RunOKAndPhase
  <2>2. CASE JudgeGivesUp
    <3>1. breaker' \in [consecutiveFailures : Nat, open : BOOLEAN]
      BY <2>2 DEF JudgeGivesUp, RecordFailures, TypeOK, JudgeAttempts
    <3>2. /\ phase = "judging" /\ phase' = "separating" /\ anyJudgeFailure' = TRUE
          /\ defeats' = defeats + 1 /\ failedAttempts' = 0
          /\ UNCHANGED <<pending, memory, cache, openAtStart, clusters, neighbors, cited,
                 anyCommitted, life, appended, skipped, uncited, fallbacks>>
      BY <2>2 DEF JudgeGivesUp
    <3>3. anyJudgeFailure' \in BOOLEAN
      BY <3>2, Zenon
    <3>4. StoreOK'
      BY <3>2 DEF cache, life, TypeOK, StoreOK
    <3>5. PhaseInv'
      BY <3>2 DEF PhaseInv
    <3>6. /\ phase' = "separating" /\ defeats' = defeats + 1 /\ failedAttempts' = 0
          /\ UNCHANGED <<pending, openAtStart, clusters, neighbors, cited, anyCommitted, fallbacks>>
      BY <3>2
    <3>7. RunOK'
      BY <3>1, <3>3, <3>6 DEF TypeOK, RunOK, Phase, JudgeAttempts
    <3> QED BY <3>4, <3>5, <3>7 DEF RunOKAndPhase
  <2> QED BY <1>9, <2>1, <2>2
<1>10. ASSUME NEW ids \in SUBSET Ids, JudgeDecides(ids) PROVE RunOKAndPhase /\ StoreOK'
  <2>1. breaker' \in [consecutiveFailures : Nat, open : BOOLEAN]
    BY <1>10 DEF JudgeDecides, RecordFailures, RecordSuccess, TypeOK, JudgeAttempts
  <2>2. /\ phase = "judging" /\ phase' \in {"separating", "merging"}
        /\ anyJudgeFailure' \in BOOLEAN
        /\ defeats' = 0 /\ failedAttempts' = 0
        /\ cited' = ids /\ ids \subseteq IdsOf(Head(clusters).members \cup neighbors)
        /\ UNCHANGED <<pending, memory, cache, openAtStart, clusters, neighbors,
                 anyCommitted, life, appended, skipped, uncited, fallbacks>>
    BY <1>10 DEF JudgeDecides, TypeOK
  <2>3. StoreOK'
    BY <2>2 DEF cache, life, TypeOK, StoreOK
  <2>4. PhaseInv'
    BY <2>2 DEF PhaseInv
  <2>5. RunOK'
    BY <2>1, <2>2 DEF TypeOK, RunOK, Phase, JudgeAttempts
  <2> QED BY <2>3, <2>4, <2>5 DEF RunOKAndPhase
<1>11. CASE CommitKeepSeparate
  <2>1. clusters # <<>>
    BY <1>11 DEF CommitKeepSeparate, PhaseInv
  <2>2. memory' \subseteq Record
    BY <1>11, <2>1, NewRecordsTyped DEF CommitKeepSeparate, TypeOK
  <2>3. StoreOK'
    BY <1>11, <2>2 DEF CommitKeepSeparate, DropIndex, life, TypeOK, StoreOK
  <2> QED BY <1>11, <2>3, SettleCommits, SettledIsTyped DEF CommitKeepSeparate, RunOKAndPhase
<1>12. CASE CommitMerge
  <2>1. clusters # <<>>
    BY <1>12 DEF CommitMerge, PhaseInv
  <2>2. memory' \subseteq Record
    BY <1>12, <2>1, MergeTyped DEF CommitMerge
  <2>3. uncited' \subseteq Events
    BY <1>12 DEF CommitMerge, TypeOK
  <2>4. StoreOK'
    BY <1>12, <2>2, <2>3 DEF CommitMerge, DropIndex, life, TypeOK, StoreOK
  <2> QED BY <1>12, <2>4, SettleCommits, SettledIsTyped DEF CommitMerge, RunOKAndPhase
<1>13. CASE ClusterFails
  <2>1. StoreOK'
    BY <1>13 DEF ClusterFails, cache, life, TypeOK, StoreOK
  <2>2. Settle(FALSE) /\ anyCommitted \in BOOLEAN
    BY <1>13 DEF ClusterFails, TypeOK
  <2>3. (GoesOn /\ anyCommitted' \in BOOLEAN) \/ Clears \/ Keeps
    BY <2>2, SettleFails
  <2> QED BY <2>1, <2>3, SettledIsTyped DEF RunOKAndPhase
<1>14. CASE SearchLoadsIndex \/ SaveObservation \/ BackfillEnds \/ \E r \in memory : BackfillEmbeds(r)
  <2>1. RunOKAndPhase
    BY <1>14, RunUntouched DEF SearchLoadsIndex, SaveObservation, BackfillEnds, BackfillEmbeds, history
  <2>2. CASE SearchLoadsIndex
    BY <2>1, <2>2 DEF SearchLoadsIndex, LoadIndex, Embedded, life, history, TypeOK, StoreOK
  <2>3. CASE SaveObservation
    <3>0. PICK id \in FreshIds :
            memory' = memory \cup {[id |-> id, sources |-> {}, embedded |-> FALSE, covers |-> {id}]}
      BY <2>3 DEF SaveObservation
    <3>1. memory' \subseteq Record
      <4>1. id \in Ids /\ FALSE \in BOOLEAN
        BY Zenon DEF FreshIds
      <4>2. [id |-> id, sources |-> {}, embedded |-> FALSE, covers |-> {id}] \in Record
        BY <4>1 DEF Record
      <4> QED BY <3>0, <4>2 DEF TypeOK
    <3> QED BY <2>1, <2>3, <3>1 DEF SaveObservation, cache, life, history, TypeOK, StoreOK
  <2>4. CASE BackfillEnds
    BY <2>1, <2>4 DEF BackfillEnds, cache, history, TypeOK, StoreOK
  <2>5. ASSUME NEW r \in memory, BackfillEmbeds(r) PROVE StoreOK'
    <3>1. memory' \subseteq Record
      BY <2>5 DEF BackfillEmbeds, Record, TypeOK
    <3> QED BY <2>5, <3>1 DEF BackfillEmbeds, DropIndex, life, history, TypeOK, StoreOK
  <2> QED BY <1>14, <2>1, <2>2, <2>3, <2>4, <2>5
<1>15. CASE Crash \/ CrashInDirectCommit \/ CrashBeforeClear
  <2>0. Die
    BY <1>15 DEF Crash, CrashInDirectCommit, CrashBeforeClear
  <2>1. RunOKAndPhase
    BY <2>0, IdleIsTyped DEF Die, TypeOK, RunOKAndPhase
  <2>2. memory' \subseteq Record
    <3>1. CASE Crash
      BY <3>1 DEF Crash, TypeOK
    <3>2. CASE CrashInDirectCommit
      BY <3>2, NewRecordsTyped DEF CrashInDirectCommit, TypeOK, PhaseInv
    <3>3. CASE CrashBeforeClear
      BY <3>3, NewRecordsTyped, MergeTyped DEF CrashBeforeClear, TypeOK, PhaseInv
    <3> QED BY <1>15, <3>1, <3>2, <3>3
  <2>3. cached' \in BOOLEAN /\ backfilling' \in BOOLEAN
    BY <2>0, Zenon DEF Die
  <2>4. index' = {} /\ crashes' \in Nat /\ UNCHANGED <<appended, skipped, uncited>>
    BY <2>0 DEF Die, TypeOK
  <2>5. StoreOK'
    BY <2>2, <2>3, <2>4 DEF TypeOK, StoreOK
  <2> QED BY <2>1, <2>5
<1>16. CASE UNCHANGED vars
  BY <1>16, RunUntouched DEF vars, run, cache, life, history, TypeOK, StoreOK
<1> QED
  BY <1>1, <1>2, <1>3, <1>4, <1>5, <1>6, <1>7, <1>8, <1>9, <1>10, <1>11, <1>12, <1>13, <1>14, <1>15, <1>16
  DEF Next, RunStep, Extraction, JudgeAnswers, ClusterCommits
-----------------------------------------------------------------------------
(* What a step does to the records. *)

Taken == IdsOf(memory) \cup Covers(memory)

\* The records of a batch about to be stored.
NewRecords(records) ==
  /\ records # {}
  /\ \A m \in records :
       /\ m.sources = pending /\ m.covers = {m.id} /\ m.id \notin Taken
       /\ \A n \in records : m.id = n.id => m = n

\* The records name the events they named, and every id in use is still the same
\* candidate's, but for new ones.
Rests ==
  /\ CoveredOnce'
  /\ Sources(memory') = Sources(memory)
  /\ Taken' \subseteq Taken \cup FreshIds

\* The current cluster becomes records, or part of one.
Absorbs ==
  /\ CoveredOnce'
  /\ Sources(memory) \subseteq Sources(memory')
  /\ Sources(memory') \subseteq Sources(memory) \cup pending
  /\ Taken' \subseteq Taken \cup FreshIds \cup IdsOf(Head(clusters).members)

LEMMA UnchangedRests ==
  ASSUME CoveredOnce, memory' = memory
  PROVE  Rests
BY DEF Rests, CoveredOnce, Taken

LEMMA HeadIsNew ==
  ASSUME TypeOK, MembersInv, clusters # <<>>
  PROVE  /\ NewRecords(Head(clusters).members)
         /\ NewRecords({[c EXCEPT !.embedded = FALSE] : c \in Head(clusters).members})
         /\ IdsOf({[c EXCEPT !.embedded = FALSE] : c \in Head(clusters).members})
              = IdsOf(Head(clusters).members)
<1> DEFINE members == Head(clusters).members
<1> DEFINE stripped == {[c EXCEPT !.embedded = FALSE] : c \in members}
<1>1. clusters \in Seq(Cluster) /\ Head(clusters) = clusters[1] /\ 1 \in 1 .. Len(clusters)
  BY DEF TypeOK
<1>2. members \subseteq Record
  <2>1. clusters[1] \in Cluster
    BY <1>1
  <2>2. clusters[1].members \subseteq Record
    BY <2>1 DEF Cluster
  <2> QED BY <1>1, <2>2
<1>3. /\ members # {}
      /\ \A m \in members :
           /\ m.sources = pending /\ m.covers = {m.id} /\ m.id \notin Taken
           /\ \A n \in members : m.id = n.id => m = n
  BY <1>1 DEF MembersInv, Taken
<1>4. \A s \in stripped : \E c \in members :
         s = [c EXCEPT !.embedded = FALSE] /\ s.id = c.id /\ s.sources = c.sources /\ s.covers = c.covers
  BY <1>2 DEF Record
<1>5. NewRecords(members)
  BY <1>3 DEF NewRecords
<1>6. \A c \in members : \E s \in stripped : s.id = c.id
  <2> SUFFICES ASSUME NEW c \in members PROVE \E s \in stripped : s.id = c.id
    OBVIOUS
  <2>1. [c EXCEPT !.embedded = FALSE].id = c.id
    BY <1>2 DEF Record
  <2>2. [c EXCEPT !.embedded = FALSE] \in stripped
    BY Zenon
  <2> QED BY <2>1, <2>2, Zenon
<1>7. stripped # {}
  BY <1>3, <1>6
<1> HIDE DEF members, stripped
<1>8. \A s, t \in stripped : s.id = t.id => s = t
  <2> SUFFICES ASSUME NEW s \in stripped, NEW t \in stripped, s.id = t.id PROVE s = t
    OBVIOUS
  <2>1. PICK c \in members : s = [c EXCEPT !.embedded = FALSE] /\ s.id = c.id
    BY <1>4
  <2>2. PICK d \in members : t = [d EXCEPT !.embedded = FALSE] /\ t.id = d.id
    BY <1>4
  <2>3. c = d
    BY <1>3, <2>1, <2>2
  <2> QED BY <2>1, <2>2, <2>3
<1>9. NewRecords(stripped)
  BY <1>3, <1>4, <1>7, <1>8 DEF NewRecords
<1>10. IdsOf(stripped) = IdsOf(members)
  BY <1>4, <1>6 DEF IdsOf
<1> QED BY <1>5, <1>9, <1>10 DEF members, stripped

LEMMA CommitAbsorbs ==
  ASSUME CoveredOnce, NEW records, NewRecords(records), memory' = memory \cup records
  PROVE  /\ CoveredOnce'
         /\ Sources(memory') = Sources(memory) \cup pending
         /\ Taken' = Taken \cup IdsOf(records)
<1>1. CoveredOnce'
  <2> SUFFICES ASSUME NEW r \in memory', NEW s \in memory', r # s
               PROVE  r.id # s.id /\ r.covers \cap s.covers = {}
    BY DEF CoveredOnce
  <2>1. CASE r \in memory /\ s \in memory
    BY <2>1 DEF CoveredOnce
  <2>2. ASSUME NEW x \in memory, NEW y \in records
        PROVE  x.id # y.id /\ x.covers \cap y.covers = {}
    BY <2>2 DEF NewRecords, Taken, IdsOf, Covers
  <2>3. CASE r \in records /\ s \in records
    BY <2>3 DEF NewRecords
  <2> QED BY <2>1, <2>2, <2>3
<1>2. Sources(memory') = Sources(memory) \cup pending
  BY DEF Sources, NewRecords
<1>3. Covers(records) = IdsOf(records)
  BY DEF Covers, IdsOf, NewRecords
<1>4. Taken' = Taken \cup IdsOf(records)
  BY <1>3 DEF Taken, IdsOf, Covers
<1> QED BY <1>1, <1>2, <1>4

\* What the judge decided to merge: the records that are deleted are the neighbours
\* among them, and none is of the cluster.
LEMMA MergeAbsorbs ==
  ASSUME TypeOK, MembersInv, CoveredOnce, neighbors \subseteq memory, clusters # <<>>,
         cited \subseteq IdsOf(Head(clusters).members \cup neighbors), Merge
  PROVE  /\ Absorbs
         /\ (\E c \in Head(clusters).members : c.id \in cited) => pending \subseteq Sources(memory')
<1> DEFINE members == Head(clusters).members
<1>1. NewRecords(members)
  BY HeadIsNew
<1>2. PICK id \in FreshIds, e \in BOOLEAN : memory' = (memory \ DeletedRecords) \cup {Summary(id, e)}
  BY DEF Merge
<1>3. PICK summary : summary = Summary(id, e)
  OBVIOUS
<1>4. /\ summary.id = id /\ summary.covers = Covers(MergedMembers)
      /\ summary.sources = Sources(MergedMembers)
  BY <1>3 DEF Summary
<1>5. memory' = (memory \ DeletedRecords) \cup {summary}
  BY <1>2, <1>3
<1>6. id \notin Taken
  BY DEF FreshIds, InHand, Taken, IdsOf, Covers
<1>7. DeletedRecords \subseteq MergedMembers
  <2> SUFFICES ASSUME NEW d \in memory, d.id \in cited PROVE d \in MergedMembers
    BY DEF DeletedRecords
  <2>1. PICK r \in members \cup neighbors : r.id = d.id
    BY DEF IdsOf
  <2>2. r \notin members
    BY <1>1, <2>1 DEF NewRecords, Taken, IdsOf
  <2>3. r = d
    BY <2>1, <2>2 DEF CoveredOnce
  <2> QED BY <2>1, <2>2, <2>3 DEF MergedMembers
<1>8. MergedMembers \subseteq members \cup neighbors
  BY DEF MergedMembers
<1> HIDE DEF members
<1>9. \A r \in memory \ DeletedRecords : r.id # id /\ r.covers \cap summary.covers = {}
  <2> SUFFICES ASSUME NEW r \in memory \ DeletedRecords PROVE r.id # id /\ r.covers \cap summary.covers = {}
    OBVIOUS
  <2>1. r.id # id
    BY <1>6 DEF Taken, IdsOf
  <2>2. ASSUME NEW q \in MergedMembers PROVE r.covers \cap q.covers = {}
    <3>1. CASE q \in members
      BY <1>1, <3>1 DEF NewRecords, Taken, Covers
    <3>2. CASE q \in neighbors
      <4>1. q.id \in cited /\ r.id \notin cited /\ q \in memory
        BY <3>2 DEF MergedMembers, DeletedRecords
      <4>2. q # r
        BY <4>1
      <4> QED BY <4>1, <4>2 DEF CoveredOnce
    <3> QED BY <1>8, <3>1, <3>2
  <2>3. summary.covers = UNION {q.covers : q \in MergedMembers}
    BY <1>4 DEF Covers
  <2> QED BY <2>1, <2>2, <2>3
<1>10. CoveredOnce'
  <2> SUFFICES ASSUME NEW r \in memory', NEW s \in memory', r # s
               PROVE  r.id # s.id /\ r.covers \cap s.covers = {}
    BY DEF CoveredOnce
  <2>1. CASE r \in memory \ DeletedRecords /\ s \in memory \ DeletedRecords
    BY <2>1 DEF CoveredOnce
  <2>2. CASE r = summary \/ s = summary
    BY <1>4, <1>5, <1>9, <2>2
  <2> QED BY <1>5, <2>1, <2>2
<1>11. Sources(memory) \subseteq Sources(memory')
  BY <1>4, <1>5, <1>7 DEF Sources
<1>12. \A q \in MergedMembers : q.sources \subseteq Sources(memory) \cup pending
  BY <1>1, <1>8 DEF NewRecords, Sources
<1>13. Sources(memory') \subseteq Sources(memory) \cup pending
  BY <1>4, <1>5, <1>12 DEF Sources
<1>14. Covers(MergedMembers) \subseteq Taken \cup IdsOf(members)
  BY <1>1, <1>8 DEF NewRecords, Covers, Taken, IdsOf
<1>15. Taken' \subseteq Taken \cup FreshIds \cup IdsOf(members)
  BY <1>4, <1>5, <1>14 DEF Taken, Covers, IdsOf
<1>16. ASSUME NEW c \in members, c.id \in cited PROVE pending \subseteq Sources(memory')
  <2>1. c \in MergedMembers /\ c.sources = pending
    BY <1>1, <1>16 DEF MergedMembers, NewRecords, members
  <2> QED BY <1>4, <1>5, <2>1 DEF Sources
<1> QED BY <1>10, <1>11, <1>13, <1>15, <1>16 DEF Absorbs, members

LEMMA SavedMemoryRests ==
  ASSUME TypeOK, CoveredOnce, SaveObservation
  PROVE  Rests
<1>0. PICK id \in FreshIds :
        memory' = memory \cup {[id |-> id, sources |-> {}, embedded |-> FALSE, covers |-> {id}]}
  BY DEF SaveObservation
<1>1. PICK o : o = [id |-> id, sources |-> {}, embedded |-> FALSE, covers |-> {id}]
  OBVIOUS
<1>2. o.id = id /\ o.sources = {} /\ o.covers = {id}
  BY <1>1
<1>3. id \notin Taken
  BY DEF FreshIds, InHand, Taken, IdsOf, Covers
<1>4. memory' = memory \cup {o}
  BY <1>0, <1>1
<1>5. \A r \in memory : r.id # id /\ id \notin r.covers
  BY <1>3 DEF Taken, IdsOf, Covers
<1>6. CoveredOnce'
  BY <1>2, <1>4, <1>5 DEF CoveredOnce
<1>7. Sources(memory') = Sources(memory)
  BY <1>2, <1>4 DEF Sources
<1>8. Taken' \subseteq Taken \cup FreshIds
  BY <1>2, <1>4 DEF Taken, IdsOf, Covers
<1> QED BY <1>6, <1>7, <1>8 DEF Rests

LEMMA BackfillRests ==
  ASSUME TypeOK, CoveredOnce, NEW r \in memory, BackfillEmbeds(r)
  PROVE  Rests
<1>1. PICK s : s = [r EXCEPT !.embedded = TRUE]
  OBVIOUS
<1>2. s.id = r.id /\ s.sources = r.sources /\ s.covers = r.covers
  BY <1>1 DEF TypeOK, Record
<1>3. memory' = (memory \ {r}) \cup {s}
  BY <1>1 DEF BackfillEmbeds
<1>4. CoveredOnce'
  BY <1>2, <1>3 DEF CoveredOnce
<1>5. Sources(memory') = Sources(memory)
  BY <1>2, <1>3 DEF Sources
<1>6. Taken' \subseteq Taken \cup FreshIds
  BY <1>2, <1>3 DEF Taken, IdsOf, Covers
<1> QED BY <1>4, <1>5, <1>6 DEF Rests

-----------------------------------------------------------------------------
(* The shapes of steps, as the records of a batch see them. *)

\* Whatever happens between two commits, and beside them.
Works ==
  /\ UNCHANGED <<pending, clusters, anyCommitted, appended, skipped, uncited, crashes>>
  /\ phase = "committing" <=> phase' = "committing"
  /\ Rests

\* An event arrives between two runs.
Grows ==
  /\ clusters = <<>> /\ ~anyCommitted /\ phase = "idle"
  /\ UNCHANGED <<memory, clusters, anyCommitted, phase, skipped, uncited, crashes>>
  /\ \E e \in Events \ appended : appended' = appended \cup {e} /\ pending' = pending \cup {e}

\* The batch becomes clusters.
Divides ==
  /\ \E ids \in SUBSET FreshIds : SoundClusters(clusters', ids)
  /\ ~anyCommitted /\ phase = "extracting"
  /\ UNCHANGED <<memory, pending, anyCommitted, appended, skipped, uncited, crashes>>

\* A cluster that is not the last one is settled.
Proceeds ==
  /\ Len(clusters) > 1 /\ clusters' = Tail(clusters)
  /\ UNCHANGED <<pending, appended, skipped, crashes>>
  /\ uncited \subseteq uncited'
  /\ Rests \/ Absorbs
  /\ \/ anyCommitted' /\ pending \subseteq Sources(memory') \cup uncited'
     \/ UNCHANGED anyCommitted /\ phase' = "committing"
     \/ UNCHANGED <<anyCommitted, memory>> /\ phase # "committing"

\* The run ends, and the buffer is cleared.
Clearing ==
  /\ clusters' = <<>> /\ pending' = {} /\ ~anyCommitted'
  /\ UNCHANGED <<appended, crashes>>
  /\ uncited \subseteq uncited' /\ skipped \subseteq skipped'
  /\ Rests \/ Absorbs
  /\ pending \subseteq Sources(memory') \cup uncited' \cup skipped'

\* The run ends without a record, and the buffer is kept.
Keeping ==
  /\ clusters' = <<>> /\ ~anyCommitted /\ ~anyCommitted' /\ phase # "committing"
  /\ UNCHANGED <<memory, pending, appended, skipped, uncited, crashes>>

\* The daemon dies, perhaps with a commit just done.
Dies ==
  /\ clusters' = <<>> /\ ~anyCommitted' /\ crashes' # 0
  /\ UNCHANGED <<pending, appended, skipped, uncited>>
  /\ Rests \/ Absorbs

LEMMA CommitShape ==
  ASSUME Absorbs, Settle(TRUE), pending \subseteq Sources(memory') \cup uncited',
         UNCHANGED <<life, appended, skipped>>, uncited \subseteq uncited'
  PROVE  Proceeds \/ Clearing
<1>1. CASE GoesOn /\ anyCommitted' = TRUE
  BY <1>1 DEF GoesOn, Proceeds, life
<1>2. CASE Clears
  BY <1>2 DEF Clears, Idle, Clearing, life
<1> QED BY <1>1, <1>2, SettleCommits

LEMMA HeadAbsorbed ==
  ASSUME TypeOK, MembersInv, CoveredOnce, clusters # <<>>,
         \/ memory' = memory \cup Head(clusters).members
         \/ memory' = memory \cup {[c EXCEPT !.embedded = FALSE] : c \in Head(clusters).members}
  PROVE  Absorbs /\ pending \subseteq Sources(memory')
<1>1. CASE memory' = memory \cup Head(clusters).members
  BY <1>1, HeadIsNew, CommitAbsorbs DEF Absorbs
<1>2. CASE memory' = memory \cup {[c EXCEPT !.embedded = FALSE] : c \in Head(clusters).members}
  <2>1. PICK records : records = {[c EXCEPT !.embedded = FALSE] : c \in Head(clusters).members}
    OBVIOUS
  <2>2. NewRecords(records) /\ IdsOf(records) = IdsOf(Head(clusters).members)
    BY <2>1, HeadIsNew
  <2>3. memory' = memory \cup records
    BY <1>2, <2>1
  <2> QED BY <2>2, <2>3, CommitAbsorbs DEF Absorbs
<1> QED BY <1>1, <1>2

BatchInv == PhaseInv /\ RecordsInv /\ SourcesInv /\ neighbors \subseteq memory

LEMMA StepShapes ==
  ASSUME TypeOK, BatchInv, [Next]_vars
  PROVE  Works \/ Grows \/ Divides \/ Proceeds \/ Clearing \/ Keeping \/ Dies
<1> USE DEF BatchInv, RecordsInv
<1>1. ASSUME NEW e \in Events, AppendEvent(e) PROVE Grows
  <2>1. phase = "idle" /\ e \notin appended /\ appended' = appended \cup {e}
        /\ pending' = pending \cup {e} /\ UNCHANGED <<memory, run, life, skipped, uncited>>
    BY <1>1 DEF AppendEvent
  <2>2. clusters = <<>> /\ ~anyCommitted
    BY <2>1 DEF PhaseInv
  <2> QED BY <2>1, <2>2 DEF Grows, run, life
<1>2. CASE StartRun \/ NullCentroid \/ LookupNeighbors \/ JudgeGarbles \/ JudgeGivesUp
           \/ SearchLoadsIndex \/ BackfillEnds \/ UNCHANGED vars \/ \E ids \in SUBSET Ids : JudgeDecides(ids)
  <2>1. memory' = memory /\ UNCHANGED <<pending, clusters, anyCommitted, appended, skipped, uncited, crashes>>
        /\ (phase = "committing" <=> phase' = "committing")
    BY <1>2 DEF StartRun, NullCentroid, LookupNeighbors, JudgeGarbles, JudgeGivesUp, SearchLoadsIndex,
         BackfillEnds, JudgeDecides, vars, run, life, history
  <2> QED BY <2>1, UnchangedRests DEF Works
<1>3. CASE SaveObservation
  <2>1. Rests
    BY <1>3, SavedMemoryRests
  <2> QED BY <1>3, <2>1 DEF SaveObservation, run, life, history, Works
<1>4. ASSUME NEW r \in memory, BackfillEmbeds(r) PROVE Works
  <2>1. Rests
    BY <1>4, BackfillRests
  <2> QED BY <1>4, <2>1 DEF BackfillEmbeds, run, life, history, Works
<1>5. CASE EmptyRun \/ ExtractsNothing
  <2>1. memory' = memory /\ clusters' = <<>> /\ pending' = {} /\ anyCommitted' = FALSE
        /\ UNCHANGED <<appended, crashes>> /\ uncited' = uncited
        /\ skipped' = skipped \cup pending
    BY <1>5 DEF EmptyRun, ExtractsNothing, Complete, Idle, life
  <2> QED BY <2>1, UnchangedRests DEF Clearing
<1>6. CASE ExtractionFails
  BY <1>6 DEF ExtractionFails, Idle, life, history, Keeping, PhaseInv
<1>7. ASSUME NEW n \in 1 .. MaxCandidates, Extracts(n) PROVE Divides
  <2>1. \E ids \in SUBSET FreshIds : SoundClusters(clusters', ids)
    BY <1>7, ExtractionStep
  <2>2. phase = "extracting" /\ UNCHANGED <<pending, memory, anyCommitted, life, history>>
    BY <1>7, ExtractionStep
  <2> QED BY <2>1, <2>2 DEF Divides, life, history, PhaseInv
<1>8. CASE CommitDirectly
  <2>1. clusters # <<>> /\ memory' = memory \cup Head(clusters).members
        /\ UNCHANGED <<life, appended, skipped, uncited>> /\ phase = "committing"
    BY <1>8 DEF CommitDirectly, PhaseInv
  <2>2. Absorbs /\ pending \subseteq Sources(memory')
    BY <2>1, HeadAbsorbed
  <2>3. \/ Len(clusters) > 1 /\ clusters' = Tail(clusters) /\ UNCHANGED <<pending, phase, anyCommitted>>
        \/ Complete(FALSE)
    BY <1>8 DEF CommitDirectly
  <2> QED BY <2>1, <2>2, <2>3 DEF Complete, Idle, life, Proceeds, Clearing
<1>9. CASE CommitKeepSeparate
  <2>1. clusters # <<>> /\ memory' = memory \cup Head(clusters).members
    BY <1>9 DEF CommitKeepSeparate, PhaseInv
  <2>2. Absorbs /\ pending \subseteq Sources(memory')
    BY <2>1, HeadAbsorbed
  <2>3. Settle(TRUE) /\ UNCHANGED <<life, appended, skipped, uncited>>
    BY <1>9 DEF CommitKeepSeparate
  <2> QED BY <2>2, <2>3, CommitShape
<1>10. CASE CommitMerge
  <2>1. clusters # <<>> /\ Merge /\ cited \subseteq IdsOf(Head(clusters).members \cup neighbors)
    BY <1>10 DEF CommitMerge, PhaseInv
  <2>2. /\ Absorbs
        /\ (\E c \in Head(clusters).members : c.id \in cited) => pending \subseteq Sources(memory')
    BY <2>1, MergeAbsorbs
  <2>3. /\ Settle(TRUE) /\ UNCHANGED <<life, appended, skipped>>
        /\ uncited' = IF \E c \in Head(clusters).members : c.id \in cited
                      THEN uncited ELSE uncited \cup pending
    BY <1>10 DEF CommitMerge
  <2>4. pending \subseteq Sources(memory') \cup uncited' /\ uncited \subseteq uncited'
    BY <2>2, <2>3
  <2> QED BY <2>2, <2>3, <2>4, CommitShape
<1>11. CASE ClusterFails
  <2>1. /\ Settle(FALSE) /\ memory' = memory /\ phase # "committing"
        /\ UNCHANGED <<life, appended, skipped, uncited>>
    BY <1>11 DEF ClusterFails
  <2>2. Rests
    BY <2>1, UnchangedRests
  <2>3. anyCommitted \in BOOLEAN
    BY DEF TypeOK
  <2>4. CASE GoesOn /\ UNCHANGED anyCommitted
    BY <2>1, <2>2, <2>4 DEF GoesOn, Proceeds, life
  <2>5. CASE anyCommitted /\ Clears
    <3>1. pending \subseteq Sources(memory') \cup uncited'
      BY <2>1, <2>5 DEF SourcesInv
    <3> QED BY <2>1, <2>2, <2>5, <3>1 DEF Clears, Idle, Clearing, life
  <2>6. CASE ~anyCommitted /\ Keeps
    BY <2>1, <2>6 DEF Keeps, Idle, Keeping, life
  <2> QED BY <2>1, <2>3, <2>4, <2>5, <2>6, SettleFails
<1>12. CASE Crash \/ CrashInDirectCommit \/ CrashBeforeClear
  <2>1. Die
    BY <1>12 DEF Crash, CrashInDirectCommit, CrashBeforeClear
  <2>2. clusters' = <<>> /\ ~anyCommitted' /\ crashes' # 0 /\ UNCHANGED <<pending, appended, skipped, uncited>>
    BY <2>1 DEF Die, Idle, TypeOK
  <2>3. Rests \/ Absorbs
    <3>1. CASE Crash
      BY <3>1, UnchangedRests DEF Crash
    <3>2. CASE CrashInDirectCommit
      BY <3>2, HeadAbsorbed DEF CrashInDirectCommit, PhaseInv
    <3>3. CASE CrashBeforeClear
      <4>1. CASE phase \in {"committing", "separating"} /\ memory' = memory \cup Head(clusters).members
        BY <4>1, HeadAbsorbed DEF PhaseInv
      <4>2. CASE phase = "merging" /\ Merge
        BY <4>2, MergeAbsorbs DEF PhaseInv
      <4> QED BY <3>3, <4>1, <4>2 DEF CrashBeforeClear
    <3> QED BY <1>12, <3>1, <3>2, <3>3
  <2> QED BY <2>2, <2>3 DEF Dies
<1> QED
  BY <1>1, <1>2, <1>3, <1>4, <1>5, <1>6, <1>7, <1>8, <1>9, <1>10, <1>11, <1>12
  DEF Next, RunStep, Extraction, JudgeAnswers, ClusterCommits

-----------------------------------------------------------------------------
(* Every candidate in one cluster or one record. *)

LEMMA MembersAreInHand ==
  ASSUME TypeOK, NEW i \in 1 .. Len(clusters), NEW m \in clusters[i].members
  PROVE  m.id \in Ids /\ m.id \notin FreshIds
<1>1. clusters \in Seq(Cluster)
  BY DEF TypeOK
<1>2. clusters[i] \in Cluster /\ DOMAIN clusters = 1 .. Len(clusters)
  BY <1>1
<1>3. m \in Record
  BY <1>2 DEF Cluster
<1>4. m \in InHand
  BY <1>2 DEF InHand
<1>5. m.id \in IdsOf(InHand)
  BY <1>4 DEF IdsOf
<1> QED BY <1>3, <1>5 DEF FreshIds, Record

LEMMA MembersStay ==
  ASSUME TypeOK, MembersInv, UNCHANGED <<clusters, pending>>,
         Taken' \subseteq Taken \cup FreshIds
  PROVE  MembersInv'
<1> SUFFICES ASSUME NEW i \in 1 .. Len(clusters), NEW m \in clusters[i].members
             PROVE  m.id \notin Taken'
  BY DEF MembersInv, Taken
<1>1. m.id \notin Taken
  BY DEF MembersInv, Taken
<1> QED BY <1>1, MembersAreInHand

LEMMA MembersMoveUp ==
  ASSUME TypeOK, MembersInv, Len(clusters) > 1, clusters' = Tail(clusters), UNCHANGED pending,
         Taken' \subseteq Taken \cup FreshIds \cup IdsOf(Head(clusters).members)
  PROVE  MembersInv'
<1>1. clusters \in Seq(Cluster) /\ Head(clusters) = clusters[1] /\ Len(clusters) \in Nat
  BY DEF TypeOK
<1>2. Len(clusters') = Len(clusters) - 1 /\ \A i \in 1 .. Len(clusters') : clusters'[i] = clusters[i + 1]
  BY <1>1
<1>3. \A i \in 1 .. Len(clusters') : i + 1 \in 1 .. Len(clusters) /\ i + 1 # 1
  BY <1>1, <1>2
<1>4. ASSUME NEW i \in 1 .. Len(clusters')
      PROVE  /\ clusters'[i].members # {}
             /\ \A m \in clusters'[i].members :
                  /\ m.sources = pending /\ m.covers = {m.id} /\ m.id \notin Taken'
                  /\ \A j \in 1 .. Len(clusters') : \A n \in clusters'[j].members :
                       m.id = n.id => i = j /\ m = n
  <2>1. i + 1 \in 1 .. Len(clusters) /\ clusters'[i] = clusters[i + 1] /\ i + 1 # 1
    BY <1>2, <1>3
  <2>2. clusters'[i].members # {}
    BY <2>1 DEF MembersInv
  <2>3. ASSUME NEW m \in clusters[i + 1].members
        PROVE  m.sources = pending /\ m.covers = {m.id} /\ m.id \notin Taken'
    <3>1. m.sources = pending /\ m.covers = {m.id} /\ m.id \notin Taken
      BY <2>1 DEF MembersInv, Taken
    <3>2. m.id \notin FreshIds
      BY <2>1, MembersAreInHand
    <3>3. m.id \notin IdsOf(Head(clusters).members)
      <4>1. 1 \in 1 .. Len(clusters)
        BY <1>1
      <4>2. \A n \in clusters[1].members : m.id # n.id
        BY <2>1, <4>1 DEF MembersInv
      <4> QED BY <1>1, <4>2 DEF IdsOf
    <3> QED BY <3>1, <3>2, <3>3
  <2>4. ASSUME NEW m \in clusters[i + 1].members, NEW j \in 1 .. Len(clusters'),
               NEW n \in clusters'[j].members, m.id = n.id
        PROVE  i = j /\ m = n
    <3>1. j + 1 \in 1 .. Len(clusters) /\ n \in clusters[j + 1].members
      BY <1>2, <1>3
    <3>2. i + 1 = j + 1 /\ m = n
      BY <2>1, <2>4, <3>1 DEF MembersInv
    <3> QED BY <3>2
  <2> QED BY <2>1, <2>2, <2>3, <2>4
<1> QED BY <1>4 DEF MembersInv, Taken

LEMMA RecordsKept ==
  ASSUME TypeOK, BatchInv, TypeOK', [Next]_vars
  PROVE  RecordsInv'
<1> USE DEF BatchInv
<1>1. CASE Works
  BY <1>1, MembersStay DEF Works, Rests, RecordsInv
<1>2. CASE Grows
  BY <1>2 DEF Grows, RecordsInv, MembersInv, CoveredOnce
<1>3. CASE Divides
  <2>1. PICK ids \in SUBSET FreshIds : SoundClusters(clusters', ids)
    BY <1>3 DEF Divides
  <2>2. UNCHANGED <<memory, pending>>
    BY <1>3 DEF Divides
  <2>3. \A x \in ids : x \notin IdsOf(memory) \cup Covers(memory)
    BY DEF FreshIds, InHand, IdsOf, Covers
  <2>4. MembersInv'
    BY <2>1, <2>2, <2>3 DEF MembersInv, SoundClusters
  <2> QED BY <2>2, <2>4 DEF RecordsInv, CoveredOnce
<1>4. CASE Proceeds
  <2>1. Taken' \subseteq Taken \cup FreshIds \cup IdsOf(Head(clusters).members) /\ CoveredOnce'
    BY <1>4 DEF Proceeds, Rests, Absorbs
  <2> QED BY <1>4, <2>1, MembersMoveUp DEF Proceeds, RecordsInv
<1>5. CASE Clearing \/ Keeping \/ Dies
  <2>1. clusters' = <<>>
    BY <1>5 DEF Clearing, Keeping, Dies
  <2>2. CoveredOnce'
    BY <1>5 DEF Clearing, Keeping, Dies, Rests, Absorbs, RecordsInv, CoveredOnce
  <2> QED BY <2>1, <2>2 DEF RecordsInv, MembersInv
<1> QED BY <1>1, <1>2, <1>3, <1>4, <1>5, StepShapes

-----------------------------------------------------------------------------
(* Every event in the buffer or in a record. *)

\* A step that stores nothing of the batch, or the current cluster.
LEMMA SourcesGrow ==
  ASSUME Rests \/ Absorbs
  PROVE  Sources(memory) \subseteq Sources(memory') /\ Sources(memory') \subseteq Sources(memory) \cup pending
BY DEF Rests, Absorbs

LEMMA SourcesKept ==
  ASSUME TypeOK, BatchInv, EventsAccounted, [Next]_vars
  PROVE  /\ SourcesInv' /\ EventsAccounted'
         /\ Sources(memory) \subseteq Sources(memory')
<1> USE DEF BatchInv
<1>1. CASE Works
  <2>1. /\ UNCHANGED <<pending, anyCommitted, appended, skipped, uncited, crashes>>
        /\ phase = "committing" <=> phase' = "committing"
        /\ Sources(memory') = Sources(memory)
    BY <1>1 DEF Works, Rests
  <2> QED BY <2>1 DEF SourcesInv, EventsAccounted
<1>2. CASE Grows
  <2>1. PICK e \in Events \ appended : appended' = appended \cup {e} /\ pending' = pending \cup {e}
    BY <1>2 DEF Grows
  <2>2. /\ ~anyCommitted /\ UNCHANGED <<memory, anyCommitted, phase, skipped, uncited, crashes>>
        /\ phase = "idle"
    BY <1>2 DEF Grows
  <2>3. e \notin Sources(memory)
    BY <2>1 DEF SourcesInv
  <2>4. SourcesInv'
    BY <2>1, <2>2, <2>3 DEF SourcesInv
  <2>5. EventsAccounted'
    BY <2>1, <2>2 DEF EventsAccounted
  <2> QED BY <2>2, <2>4, <2>5
<1>3. CASE Divides
  <2>1. /\ ~anyCommitted /\ phase = "extracting"
        /\ UNCHANGED <<memory, pending, anyCommitted, appended, skipped, uncited, crashes>>
    BY <1>3 DEF Divides
  <2> QED BY <2>1 DEF SourcesInv, EventsAccounted
<1>4. CASE Proceeds
  <2>1. /\ UNCHANGED <<pending, appended, skipped, crashes>> /\ uncited \subseteq uncited'
        /\ Rests \/ Absorbs
    BY <1>4 DEF Proceeds
  <2>2. /\ Sources(memory) \subseteq Sources(memory')
        /\ Sources(memory') \subseteq Sources(memory) \cup pending
    BY <2>1, SourcesGrow
  <2>3. \/ anyCommitted' /\ pending \subseteq Sources(memory') \cup uncited'
        \/ UNCHANGED anyCommitted /\ phase' = "committing"
        \/ UNCHANGED <<anyCommitted, memory>> /\ phase # "committing"
    BY <1>4 DEF Proceeds
  <2>4. SourcesInv'
    BY <2>1, <2>2, <2>3 DEF SourcesInv
  <2>5. EventsAccounted'
    BY <2>1, <2>2 DEF EventsAccounted
  <2> QED BY <2>2, <2>4, <2>5
<1>5. CASE Clearing
  <2>1. /\ pending' = {} /\ ~anyCommitted' /\ UNCHANGED <<appended, crashes>>
        /\ uncited \subseteq uncited' /\ skipped \subseteq skipped'
        /\ Rests \/ Absorbs
        /\ pending \subseteq Sources(memory') \cup uncited' \cup skipped'
    BY <1>5 DEF Clearing
  <2>2. /\ Sources(memory) \subseteq Sources(memory')
        /\ Sources(memory') \subseteq Sources(memory) \cup pending
    BY <2>1, SourcesGrow
  <2>3. SourcesInv'
    BY <2>1, <2>2 DEF SourcesInv
  <2>4. EventsAccounted'
    BY <2>1, <2>2 DEF EventsAccounted
  <2> QED BY <2>2, <2>3, <2>4
<1>6. CASE Keeping
  BY <1>6 DEF Keeping, SourcesInv, EventsAccounted
<1>7. CASE Dies
  <2>1. /\ ~anyCommitted' /\ crashes' # 0
        /\ UNCHANGED <<pending, appended, skipped, uncited>>
        /\ Rests \/ Absorbs
    BY <1>7 DEF Dies
  <2>2. /\ Sources(memory) \subseteq Sources(memory')
        /\ Sources(memory') \subseteq Sources(memory) \cup pending
    BY <2>1, SourcesGrow
  <2>3. SourcesInv' /\ EventsAccounted'
    BY <2>1, <2>2 DEF SourcesInv, EventsAccounted
  <2> QED BY <2>2, <2>3
<1> QED BY <1>1, <1>2, <1>3, <1>4, <1>5, <1>6, <1>7, StepShapes

-----------------------------------------------------------------------------
(* The vector cache and the neighbours it finds. *)

LEMMA NeighborsKept ==
  ASSUME TypeOK, TypeOK', PhaseInv', NeighborsInv, [Next]_vars
  PROVE  NeighborsInv'
<1>1. CASE /\ UNCHANGED memory
           /\ UNCHANGED cache \/ DropIndex
           /\ neighbors' \subseteq neighbors
  BY <1>1 DEF cache, DropIndex, NeighborsInv, IndexIsFresh
<1>2. CASE DropIndex /\ neighbors' = {}
  BY <1>2 DEF DropIndex, NeighborsInv, IndexIsFresh
<1>3. ASSUME LoadIndex, UNCHANGED memory PROVE index' = Embedded(memory')
  BY <1>3 DEF LoadIndex, NeighborsInv, IndexIsFresh
<1>4. CASE LookupNeighbors
  BY <1>3, <1>4 DEF LookupNeighbors, NeighborsInv, IndexIsFresh
<1>5. CASE SearchLoadsIndex
  BY <1>3, <1>5 DEF SearchLoadsIndex, run, NeighborsInv, IndexIsFresh
<1>6. CASE SaveObservation
  <2>0. PICK id \in FreshIds :
          memory' = memory \cup {[id |-> id, sources |-> {}, embedded |-> FALSE, covers |-> {id}]}
    BY <1>6 DEF SaveObservation
  <2>1. PICK o : o = [id |-> id, sources |-> {}, embedded |-> FALSE, covers |-> {id}]
    OBVIOUS
  <2>2. ~o.embedded
    BY <2>1
  <2>3. memory' = memory \cup {o}
    BY <2>0, <2>1
  <2>4. Embedded(memory') = Embedded(memory)
    BY <2>2, <2>3 DEF Embedded
  <2> QED BY <1>6, <2>4 DEF SaveObservation, cache, run, NeighborsInv, IndexIsFresh
<1>7. ASSUME NEW r \in memory, BackfillEmbeds(r) PROVE NeighborsInv'
  <2>1. Embedded(memory) \subseteq Embedded(memory')
    BY <1>7 DEF BackfillEmbeds, Embedded
  <2> QED BY <1>7, <2>1 DEF BackfillEmbeds, DropIndex, run, NeighborsInv, IndexIsFresh
<1>8. CASE CommitDirectly \/ CommitKeepSeparate \/ CommitMerge
  <2>1. DropIndex
    BY <1>8 DEF CommitDirectly, CommitKeepSeparate, CommitMerge
  <2>2. phase' \notin {"judging", "separating", "merging"}
    <3>1. CASE CommitDirectly
      BY <3>1 DEF CommitDirectly, Complete, Idle
    <3>2. CASE CommitKeepSeparate \/ CommitMerge
      <4>1. GoesOn \/ Clears
        BY <3>2, SettleCommits DEF CommitKeepSeparate, CommitMerge
      <4> QED BY <4>1 DEF GoesOn, Clears, Idle
    <3> QED BY <1>8, <3>1, <3>2
  <2>3. neighbors' = {}
    BY <2>2 DEF PhaseInv
  <2> QED BY <1>2, <2>1, <2>3
<1>9. CASE ClusterFails
  <2>1. Settle(FALSE) /\ UNCHANGED <<memory, cache>> /\ anyCommitted \in BOOLEAN
    BY <1>9 DEF ClusterFails, TypeOK
  <2>2. GoesOn \/ Clears \/ Keeps
    BY <2>1, SettleFails
  <2>3. neighbors' = {}
    BY <2>2 DEF GoesOn, Clears, Keeps, Idle
  <2> QED BY <1>1, <2>1, <2>3
<1>10. CASE Crash \/ CrashInDirectCommit \/ CrashBeforeClear
  <2>1. Die
    BY <1>10 DEF Crash, CrashInDirectCommit, CrashBeforeClear
  <2>2. DropIndex /\ neighbors' = {}
    BY <2>1 DEF Die, DropIndex, Idle
  <2> QED BY <1>2, <2>2
<1>11. ASSUME NEW e \in Events, AppendEvent(e) PROVE NeighborsInv'
  BY <1>1, <1>11 DEF AppendEvent, run
<1>12. CASE EmptyRun \/ ExtractionFails \/ ExtractsNothing
  <2>1. UNCHANGED <<memory, cache>> /\ neighbors' = {}
    BY <1>12 DEF EmptyRun, ExtractionFails, ExtractsNothing, Complete, Idle
  <2> QED BY <1>1, <2>1
<1>13. ASSUME NEW n \in 1 .. MaxCandidates, Extracts(n) PROVE NeighborsInv'
  <2>1. UNCHANGED <<memory, cache, neighbors>>
    BY <1>13 DEF Extracts
  <2> QED BY <1>1, <2>1
<1>14. CASE StartRun \/ NullCentroid \/ JudgeGarbles \/ JudgeGivesUp \/ BackfillEnds \/ UNCHANGED vars
            \/ \E ids \in SUBSET Ids : JudgeDecides(ids)
  <2>1. UNCHANGED <<memory, cache, neighbors>>
    BY <1>14 DEF StartRun, NullCentroid, JudgeGarbles, JudgeGivesUp, BackfillEnds, vars, run, JudgeDecides
  <2> QED BY <1>1, <2>1
<1> QED
  BY <1>4, <1>5, <1>6, <1>7, <1>8, <1>9, <1>10, <1>11, <1>12, <1>13, <1>14
  DEF Next, RunStep, Extraction, JudgeAnswers, ClusterCommits

-----------------------------------------------------------------------------
(* The judge breaker. *)

ClusterPhases == {"clustering", "judging", "separating", "merging"}

LEMMA EndKeepsBreaker ==
  ASSUME TypeOK, BreakerInv, Idle, fallbacks' = 0,
         \/ UNCHANGED breaker
         \/ breaker' = OnRunComplete(breaker, anyJudgeFailure)
         \/ breaker' = [consecutiveFailures |-> 0, open |-> FALSE]
  PROVE  BreakerInv'
<1>1. BreakerTrips'
  BY ReconcilerAssumption DEF OnRunComplete, BreakerInv, BreakerTrips
<1>2. FallbackInv'
  BY DEF FallbackInv
<1> QED BY <1>1, <1>2 DEF BreakerInv

LEMMA BreakerKept ==
  ASSUME TypeOK, PhaseInv, BreakerInv, [Next]_vars
  PROVE  BreakerInv'
<1>1. ASSUME UNCHANGED <<breaker, fallbacks, openAtStart>>,
             phase' = phase \/ phase' \in ClusterPhases \/ phase' = "extracting"
                \/ phase' = "committing" \/ phase' = "idle",
             phase \in ClusterPhases => phase' \in ClusterPhases
      PROVE  BreakerInv'
  BY <1>1 DEF BreakerInv, BreakerTrips, FallbackInv, ClusterPhases
<1>2. ASSUME NEW e \in Events, AppendEvent(e) PROVE BreakerInv'
  BY <1>1, <1>2 DEF AppendEvent, run
<1>3. CASE StartRun
  <2>1. phase = "idle" /\ phase' = "extracting" /\ openAtStart' = breaker.open /\ UNCHANGED <<breaker, fallbacks>>
    BY <1>3 DEF StartRun, history
  <2>2. BreakerTrips'
    BY <2>1 DEF BreakerInv, BreakerTrips
  <2>3. FallbackInv'
    BY <2>1 DEF BreakerInv, FallbackInv
  <2> QED BY <2>2, <2>3 DEF BreakerInv
<1>4. CASE EmptyRun \/ ExtractsNothing
  BY <1>4, EndKeepsBreaker, OnRunCompleteTyped DEF EmptyRun, ExtractsNothing, Complete
<1>5. CASE ExtractionFails
  <2>1. phase = "extracting" /\ phase' = "idle" /\ openAtStart' = FALSE /\ UNCHANGED <<breaker, fallbacks>>
    BY <1>5 DEF ExtractionFails, Idle, history
  <2> QED BY <2>1 DEF BreakerInv, BreakerTrips, FallbackInv
<1>6. ASSUME NEW n \in 1 .. MaxCandidates, Extracts(n) PROVE BreakerInv'
  <2>1. /\ phase = "extracting" /\ phase' \in {"committing", "clustering"}
        /\ UNCHANGED <<breaker, openAtStart, fallbacks>>
    BY <1>6, ExtractionStep DEF history
  <2> QED BY <1>1, <2>1 DEF ClusterPhases
<1>7. CASE CommitDirectly
  <2>1. phase = "committing" /\ (\/ UNCHANGED <<breaker, phase, openAtStart, fallbacks>>
                                 \/ Complete(FALSE) /\ fallbacks' = IF openAtStart THEN fallbacks + 1 ELSE 0)
    BY <1>7 DEF CommitDirectly
  <2>2. CASE UNCHANGED <<breaker, phase, openAtStart, fallbacks>>
    BY <1>1, <2>1, <2>2
  <2>3. CASE Complete(FALSE) /\ fallbacks' = IF openAtStart THEN fallbacks + 1 ELSE 0
    <3>1. breaker' = [consecutiveFailures |-> 0, open |-> FALSE] /\ Idle
      BY <2>3, OnRunCompleteTyped DEF Complete
    <3>2. fallbacks' <= 1
      BY <2>3 DEF BreakerInv, FallbackInv, TypeOK
    <3>3. fallbacks' \in Nat
      BY <2>3 DEF TypeOK
    <3>4. BreakerTrips'
      BY <3>1, ReconcilerAssumption DEF BreakerTrips
    <3>5. openAtStart' = FALSE /\ ~breaker'.open
      BY <3>1 DEF Idle
    <3>6. FallbackInv'
      BY <3>2, <3>3, <3>5 DEF FallbackInv
    <3> QED BY <3>4, <3>6 DEF BreakerInv
  <2> QED BY <2>1, <2>2, <2>3
<1>8. CASE NullCentroid \/ LookupNeighbors \/ JudgeGarbles
  <2>1. /\ phase \in ClusterPhases /\ phase' \in ClusterPhases
        /\ UNCHANGED <<breaker, openAtStart, fallbacks>>
    BY <1>8 DEF NullCentroid, LookupNeighbors, JudgeGarbles, history, ClusterPhases
  <2> QED BY <1>1, <2>1
<1>9. CASE JudgeGivesUp \/ \E ids \in SUBSET Ids : JudgeDecides(ids)
  <2>1. /\ phase = "judging" /\ phase' \in ClusterPhases /\ UNCHANGED <<openAtStart, fallbacks>>
        /\ \/ breaker' = RecordFailures(breaker, failedAttempts + 1)
           \/ breaker' = RecordSuccess(RecordFailures(breaker, failedAttempts))
    BY <1>9 DEF JudgeGivesUp, JudgeDecides, ClusterPhases
  <2>2. breaker.consecutiveFailures \in Nat /\ failedAttempts \in Nat
    BY DEF TypeOK, JudgeAttempts
  <2>3. BreakerTrips'
    <3>1. CASE breaker' = RecordFailures(breaker, failedAttempts + 1)
      <4>1. breaker' = [consecutiveFailures |-> breaker.consecutiveFailures + failedAttempts + 1,
                        open |-> breaker.open \/ breaker.consecutiveFailures + failedAttempts + 1
                                                   >= MaxConsecutiveFailures]
        BY <2>2, <3>1 DEF RecordFailures
      <4> QED BY <4>1 DEF BreakerTrips
    <3>2. CASE breaker' = RecordSuccess(RecordFailures(breaker, failedAttempts))
      <4>1. breaker'.consecutiveFailures = 0
        BY <3>2 DEF RecordFailures, RecordSuccess
      <4> QED BY <4>1, ReconcilerAssumption DEF BreakerTrips
    <3> QED BY <2>1, <3>1, <3>2
  <2>4. FallbackInv'
    BY <2>1 DEF BreakerInv, FallbackInv, ClusterPhases
  <2> QED BY <2>3, <2>4 DEF BreakerInv
<1>10. CASE CommitKeepSeparate \/ CommitMerge \/ ClusterFails
  <2>1. phase \in ClusterPhases
    BY <1>10 DEF CommitKeepSeparate, CommitMerge, ClusterFails, ClusterPhases
  <2>2. GoesOn \/ Clears \/ Keeps
    BY <1>10, SettleCommits, SettleFails DEF CommitKeepSeparate, CommitMerge, ClusterFails, TypeOK
  <2>3. CASE GoesOn
    BY <1>1, <2>1, <2>3 DEF GoesOn, ClusterPhases
  <2>4. CASE Clears \/ Keeps
    BY <2>4, EndKeepsBreaker DEF Clears, Keeps
  <2> QED BY <2>2, <2>3, <2>4
<1>11. CASE SearchLoadsIndex \/ SaveObservation \/ BackfillEnds \/ UNCHANGED vars \/ \E r \in memory : BackfillEmbeds(r)
  <2>1. UNCHANGED <<breaker, phase, openAtStart, fallbacks>>
    BY <1>11 DEF SearchLoadsIndex, SaveObservation, BackfillEnds, BackfillEmbeds, vars, run, history
  <2> QED BY <1>1, <2>1
<1>12. CASE Crash \/ CrashInDirectCommit \/ CrashBeforeClear
  <2>1. Die
    BY <1>12 DEF Crash, CrashInDirectCommit, CrashBeforeClear
  <2> QED BY <2>1, EndKeepsBreaker DEF Die
<1> QED
  BY <1>2, <1>3, <1>4, <1>5, <1>6, <1>7, <1>8, <1>9, <1>10, <1>11, <1>12
  DEF Next, RunStep, Extraction, JudgeAnswers, ClusterCommits

-----------------------------------------------------------------------------
(* The theorems. *)

LEMMA InitialStateIsSound ==
  ASSUME Init
  PROVE  ReconcilerInv
<1>1. TypeOK
  <2>1. clusters \in Seq(Cluster) /\ breaker \in [consecutiveFailures : Nat, open : BOOLEAN]
    BY DEF Init
  <2>2. cached \in BOOLEAN /\ openAtStart \in BOOLEAN /\ anyCommitted \in BOOLEAN
        /\ anyJudgeFailure \in BOOLEAN /\ backfilling \in BOOLEAN
    BY Zenon DEF Init
  <2>3. /\ pending = {} /\ memory = {} /\ index = {} /\ phase = "idle" /\ neighbors = {} /\ failedAttempts = 0
        /\ cited = {} /\ crashes = 0 /\ appended = {} /\ skipped = {} /\ uncited = {}
        /\ fallbacks = 0 /\ defeats = 0
    BY DEF Init
  <2> QED BY <2>1, <2>2, <2>3 DEF TypeOK, Phase, JudgeAttempts
<1>2. PhaseInv
  BY DEF Init, PhaseInv
<1>3. RecordsInv
  BY DEF Init, RecordsInv, MembersInv, CoveredOnce
<1>4. SourcesInv /\ EventsAccounted
  BY DEF Init, SourcesInv, EventsAccounted, Sources
<1>5. NeighborsInv
  BY DEF Init, NeighborsInv, IndexIsFresh
<1>6. BreakerInv
  BY ReconcilerAssumption DEF Init, BreakerInv, BreakerTrips, FallbackInv
<1> QED BY <1>1, <1>2, <1>3, <1>4, <1>5, <1>6 DEF ReconcilerInv

LEMMA StepKeepsInvariant ==
  ASSUME ReconcilerInv, [Next]_vars
  PROVE  ReconcilerInv' /\ Sources(memory) \subseteq Sources(memory')
<1>1. TypeOK /\ PhaseInv /\ BatchInv /\ EventsAccounted /\ NeighborsInv /\ BreakerInv
  BY DEF ReconcilerInv, BatchInv, NeighborsInv, Embedded
<1>2. TypeOK' /\ PhaseInv'
  BY <1>1, TypesKept
<1>3. RecordsInv'
  BY <1>1, <1>2, RecordsKept
<1>4. SourcesInv' /\ EventsAccounted' /\ Sources(memory) \subseteq Sources(memory')
  BY <1>1, SourcesKept
<1>5. NeighborsInv'
  BY <1>1, <1>2, NeighborsKept
<1>6. BreakerInv'
  BY <1>1, BreakerKept
<1> QED BY <1>2, <1>3, <1>4, <1>5, <1>6 DEF ReconcilerInv

\* The inductive invariant holds throughout: the clusters in hand, the records,
\* the buffer and the two flags agree between any two steps of any run.
THEOREM ReconcilerInvariant == Spec => []ReconcilerInv
<1>1. Init => ReconcilerInv
  BY InitialStateIsSound
<1>2. ReconcilerInv /\ [Next]_vars => ReconcilerInv'
  BY StepKeepsInvariant
<1> QED BY <1>1, <1>2, PTL DEF Spec

\* No event is lost: through failed clusters, fallbacks, merges and deaths of the
\* daemon each stays in the buffer until a record names it, or its batch is given up.
THEOREM EventsStayAccounted == Spec => []EventsAccounted
<1>1. ReconcilerInv => EventsAccounted
  BY DEF ReconcilerInv
<1> QED BY <1>1, ReconcilerInvariant, PTL

\* A batch is committed once, and a candidate has one record (commitWrites,
\* processCluster, and the end of the run).
THEOREM BatchStaysConsistent == Spec => []BatchConsistent
<1>1. ReconcilerInv => BatchConsistent
  BY DEF ReconcilerInv, PhaseInv, RecordsInv, SourcesInv, BatchConsistent, BatchCommittedOnce
<1> QED BY <1>1, ReconcilerInvariant, PTL

\* The index serves what the database holds, and a neighbour is still there when
\* its merge commits (getOrLoad, invalidate).
THEOREM NeighborsStayCurrent == Spec => []NeighborsAreCurrent
<1>1. ReconcilerInv => NeighborsAreCurrent
  BY DEF ReconcilerInv, NeighborsInv, NeighborsAreCurrent, NeighborsExist, Embedded
<1> QED BY <1>1, ReconcilerInvariant, PTL

\* The judge breaker opens in time, and bypasses the judge for one run at a time
\* (recordFailure, recordSuccess, onRunComplete).
THEOREM BreakerWorks == Spec => []JudgeBreakerWorks
<1>1. ReconcilerInv => JudgeBreakerWorks
  BY DEF ReconcilerInv, BreakerInv, FallbackInv, TypeOK, JudgeBreakerWorks, OneFallbackRun
<1> QED BY <1>1, ReconcilerInvariant, PTL

\* No step forgets where the store learned something: what a merge deletes is
\* what it merged (reconciler.ts, the transaction of a merge).
THEOREM ProvenanceStays == Spec => ProvenanceKept
<1>1. ReconcilerInv /\ [Next]_vars => Sources(memory) \subseteq Sources(memory')
  BY StepKeepsInvariant
<1>2. ReconcilerInv /\ [Next]_vars => [Sources(memory) \subseteq Sources(memory')]_vars
  BY <1>1
<1> QED BY <1>2, ReconcilerInvariant, PTL DEF Spec, ProvenanceKept
=============================================================================
