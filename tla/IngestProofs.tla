----------------------------- MODULE IngestProofs -----------------------------
(***************************************************************************)
(* Theorems about Ingest, for any number of requests, events, slots, posts *)
(* and deaths of the daemon.                                               *)
(*                                                                         *)
(* Dedup and the extraction stage meet in one step only, Stored without a  *)
(* buffer; the invariant has a part for each.                              *)
(***************************************************************************)
EXTENDS Ingest, SequenceTheorems, FiniteSetTheorems, TLAPS

(* The posts. *)

RequestRecord == [pc : {"idle", "storing", "buffering", "answering"}, event : Events \cup {NoEvent}]

\* The requests that are on their way with e.
Tries(e) == {r \in Requests : request[r].event = e}

EachOnce(s) == \A i, j \in 1 .. Len(s) : s[i] = s[j] => i = j

PostsTyped ==
  /\ useBuffer \in BOOLEAN
  /\ seen \in Seq(Events)
  /\ Len(seen) <= DedupMaxSize
  /\ EachOnce(seen)
  /\ request \in [Requests -> RequestRecord]
  /\ events \subseteq Events
  /\ appended \in [Events -> Nat]
  /\ posts \in 0 .. MaxPosts
  /\ since \in [Events -> SUBSET Events]
  /\ pushedOut \subseteq Events
  /\ crashes \in 0 .. MaxCrashes

\* No event is handed on more often than it was posted.
TriesInv ==
  /\ \A r \in Requests : request[r].pc = "idle" <=> request[r].event = NoEvent
  /\ \A r \in Requests : request[r].pc = "buffering" => useBuffer
  /\ \A e \in Events : /\ IsFiniteSet(Tries(e)) /\ IsFiniteSet(since[e])
                       /\ appended[e] + Cardinality(Tries(e)) <= posts

\* Before the first restart, an event that was not pushed out is handed on once or
\* on its way once, and dedup has it, or has since taken as many as it can hold.
Once(e) ==
  /\ appended[e] <= 1
  /\ appended[e] = 1 => Tries(e) = {}
  /\ \A r, q \in Tries(e) : r = q
  /\ appended[e] = 1 \/ Tries(e) # {} => e \in ToSet(seen) \/ Cardinality(since[e]) >= DedupMaxSize

\* What stands behind an id was taken after it.
InOrder == \A i, j \in 1 .. Len(seen) : i < j => seen[j] \in since[seen[i]]

DedupInv ==
  /\ InOrder
  /\ SeenIsStored
  /\ \A e \in Events : crashes = 0 => e \in pushedOut \/ Once(e)

-----------------------------------------------------------------------------
(* The stage. *)

StageTyped ==
  /\ SessionTypeOK
  /\ drain \in {"none", "waiting", "drained", "timed out"}
  /\ queue \in Seq(Events) /\ Len(queue) <= QueueDepth
  /\ task \in [Slots -> [event : Events \cup {NoEvent}, attempt : 0 .. MaxRetries,
                         pc : {"idle", "calling", "storing"}]]

\* A slot has a session while it calls, and then only.
SlotsInv ==
  /\ \A k \in Slots : InUse(k) <=> task[k].pc = "calling"
  /\ \A k \in Slots : Idle(k) <=> task[k].pc = "idle"

StageOK == StageTyped /\ SlotsInv /\ NoIdleSlot /\ DrainedIsIdle /\ NoOrphans

-----------------------------------------------------------------------------
PostsOK == PostsTyped /\ TriesInv /\ DedupInv

\* drain() is called when the server has closed.
DrainIsLast == drain # "none" => \A r \in Requests : request[r] = NoRequest

IngestInv == PostsOK /\ StageOK /\ DrainIsLast

-----------------------------------------------------------------------------
(* Which slots tryRunNext() fills. *)

LEMMA MinOfTwo ==
  ASSUME NEW a \in Nat, NEW b \in Nat
  PROVE  Min({a, b}) = IF a <= b THEN a ELSE b
<1>1. \E x \in {a, b} : \A y \in {a, b} : x =< y
  BY SMT
<1>2. Min({a, b}) \in {a, b} /\ \A y \in {a, b} : Min({a, b}) =< y
  BY <1>1 DEF Min
<1> QED BY <1>2

\* A finite set has subsets of each size up to its own.
LEMMA SubsetOfSize ==
  ASSUME NEW S, IsFiniteSet(S), NEW m \in Nat, m <= Cardinality(S)
  PROVE  \E T \in SUBSET S : Cardinality(T) = m
<1>1. Cardinality(S) \in Nat /\ ExistsBijection(1 .. Cardinality(S), S)
  BY FS_CardinalityType
<1>2. PICK f \in Bijection(1 .. Cardinality(S), S) : TRUE
  BY <1>1 DEF ExistsBijection
<1>3. f \in [1 .. Cardinality(S) -> S] /\ \A i, j \in 1 .. Cardinality(S) : f[i] = f[j] => i = j
  BY <1>2 DEF Bijection, Injection, IsInjective
<1> DEFINE T == {f[i] : i \in 1 .. m}
           g == [i \in 1 .. m |-> f[i]]
<1>4. 1 .. m \subseteq 1 .. Cardinality(S)
  BY <1>1
<1>5. T \in SUBSET S
  BY <1>3, <1>4
<1>6. g \in [1 .. m -> T] /\ \A i, j \in 1 .. m : g[i] = g[j] => i = j
  BY <1>3, <1>4
<1>7. \A t \in T : \E i \in 1 .. m : g[i] = t
  OBVIOUS
<1>8. g \in Bijection(1 .. m, T)
  BY <1>6, <1>7 DEF Bijection, Injection, Surjection, IsInjective
<1>9. Cardinality(T) = m
  BY <1>8, FS_CountingElements DEF ExistsBijection
<1> QED BY <1>5, <1>9

LEMMA SequenceOfSet ==
  ASSUME NEW S, IsFiniteSet(S)
  PROVE  /\ SetToSeq(S) \in [1 .. Cardinality(S) -> S]
         /\ Cardinality(S) \in Nat
         /\ \A x \in S : \E i \in 1 .. Cardinality(S) : SetToSeq(S)[i] = x
<1>1. Cardinality(S) \in Nat /\ ExistsBijection(1 .. Cardinality(S), S)
  BY FS_CardinalityType
<1>2. \E f \in [1 .. Cardinality(S) -> S] : IsInjective(f)
  BY <1>1 DEF ExistsBijection, Bijection, Injection
<1>3. SetToSeq(S) \in [1 .. Cardinality(S) -> S] /\ IsInjective(SetToSeq(S))
  BY <1>2 DEF SetToSeq
<1>4. IsFiniteSet(1 .. Cardinality(S)) /\ Cardinality(1 .. Cardinality(S)) = Cardinality(S)
  BY <1>1, FS_Interval
<1>5. SetToSeq(S) \in Injection(1 .. Cardinality(S), S)
  BY <1>3 DEF Injection
<1>6. SetToSeq(S) \in Surjection(1 .. Cardinality(S), S)
  BY <1>4, <1>5, FS_Injection
<1> QED BY <1>1, <1>3, <1>6 DEF Surjection

LEMMA StartedIs ==
  ASSUME NEW free \in SUBSET Slots, NEW q \in Seq(Events), NEW started, started = SetToSeq(Starts(q, free))
  PROVE  /\ ToSet(started) \subseteq free
         /\ Len(started) \in Nat /\ Len(started) <= Len(q)
         /\ \A k \in ToSet(started) : \E i \in 1 .. Len(started) : started[i] = k
         /\ Len(started) < Len(q) => ToSet(started) = free
<1> DEFINE m == Min({Len(q), Cardinality(free)})
           ks == Starts(q, free)
<1>1. IsFiniteSet(free) /\ Cardinality(free) \in Nat /\ Len(q) \in Nat
  BY FS_Subset, FS_CardinalityType, SlotsAssumption
<1>2. m \in Nat /\ m <= Len(q) /\ m <= Cardinality(free) /\ (m < Len(q) => m = Cardinality(free))
  BY <1>1, MinOfTwo
<1>3. ks \in SUBSET free /\ Cardinality(ks) = m
  <2>1. \E T \in SUBSET free : Cardinality(T) = m
    BY <1>1, <1>2, SubsetOfSize
  <2> QED BY <2>1 DEF Starts
<1> HIDE DEF m, ks
<1>4. IsFiniteSet(ks)
  BY <1>1, <1>3, FS_Subset
<1>5. started \in [1 .. m -> ks] /\ \A x \in ks : \E i \in 1 .. m : started[i] = x
  BY <1>2, <1>3, <1>4, SequenceOfSet DEF ks
<1>6. Len(started) = m /\ DOMAIN started = 1 .. m
  BY <1>2, <1>5
<1>7. ToSet(started) = ks
  BY <1>5, <1>6 DEF ToSet
<1>8. m < Len(q) => ks = free
  BY <1>1, <1>2, <1>3, FS_Subset
<1> QED BY <1>2, <1>3, <1>5, <1>6, <1>7, <1>8

TaskRecord == [event : Events \cup {NoEvent}, attempt : 0 .. MaxRetries, pc : {"idle", "calling", "storing"}]

\* tryRunNext() fills free slots from the front of the queue, until there is no
\* free slot or no event.
LEMMA TryRunNextDoes ==
  ASSUME StageTyped, NEW q \in Seq(Events), Len(q) <= QueueDepth, NEW over \in SUBSET Slots,
         NEW how, TryRunNext(q, over, how)
  PROVE  \E started \in SUBSET ({k \in Slots : Idle(k)} \cup over) :
           /\ queue' \in Seq(Events) /\ Len(queue') <= QueueDepth
           /\ queue' # <<>> => started = {k \in Slots : Idle(k)} \cup over
           /\ task' \in [Slots -> TaskRecord]
           /\ \A k \in started : task'[k].pc = "calling" /\ task'[k].event \in Events
           /\ \A k \in over \ started : task'[k] = NoTask
           /\ \A k \in Slots \ (over \cup started) : task'[k] = task[k]
           /\ Create(started, over, how)
<1> DEFINE free == {k \in Slots : Idle(k)} \cup over
<1>0. PICK f \in SUBSET Slots : f = free
  OBVIOUS
<1>1. PICK s : s = SetToSeq(Starts(q, free))
  OBVIOUS
<1>2. /\ ToSet(s) \in SUBSET free
      /\ Len(s) \in Nat /\ Len(s) <= Len(q)
      /\ \A k \in ToSet(s) : \E i \in 1 .. Len(s) : s[i] = k
      /\ Len(s) < Len(q) => ToSet(s) = free
  <2> HIDE DEF free
  <2>1. s = SetToSeq(Starts(q, f))
    BY <1>0, <1>1
  <2>2. /\ ToSet(s) \subseteq f
        /\ Len(s) \in Nat /\ Len(s) <= Len(q)
        /\ \A k \in ToSet(s) : \E i \in 1 .. Len(s) : s[i] = k
        /\ Len(s) < Len(q) => ToSet(s) = f
    BY <2>1, StartedIs, Zenon
  <2> QED BY <1>0, <2>2
<1>3. /\ queue' = SubSeq(q, Len(s) + 1, Len(q))
      /\ task' = [k \in Slots |->
                    IF k \in ToSet(s)
                    THEN [event |-> q[CHOOSE i \in 1 .. Len(s) : s[i] = k], attempt |-> 1, pc |-> "calling"]
                    ELSE IF k \in over THEN NoTask ELSE task[k]]
      /\ Create(ToSet(s), over, how)
  BY <1>1 DEF TryRunNext
<1> HIDE DEF free
<1>4. queue' \in Seq(Events) /\ Len(queue') <= QueueDepth /\ (queue' # <<>> => Len(s) < Len(q))
  BY <1>2, <1>3, IngestAssumption
<1>5. ASSUME NEW k \in ToSet(s)
      PROVE  [event |-> q[CHOOSE i \in 1 .. Len(s) : s[i] = k], attempt |-> 1, pc |-> "calling"] \in TaskRecord
             /\ q[CHOOSE i \in 1 .. Len(s) : s[i] = k] \in Events
  <2>1. PICK i \in 1 .. Len(s) : i = (CHOOSE n \in 1 .. Len(s) : s[n] = k)
    BY <1>2, <1>5
  <2>2. q[i] \in Events
    BY <1>2
  <2>3. 1 \in 0 .. MaxRetries
    BY IngestAssumption
  <2> QED BY <2>1, <2>2, <2>3 DEF TaskRecord
<1>6. NoTask \in TaskRecord
  BY IngestAssumption DEF NoTask, TaskRecord
<1>7. task' \in [Slots -> TaskRecord]
  BY <1>3, <1>5, <1>6 DEF StageTyped, TaskRecord
<1>8. \A k \in ToSet(s) : task'[k].pc = "calling" /\ task'[k].event \in Events
  <2>1. ToSet(s) \subseteq Slots
    BY <1>2 DEF free
  <2> QED BY <1>3, <1>5, <2>1
<1>9. /\ \A k \in over \ ToSet(s) : task'[k] = NoTask
      /\ \A k \in Slots \ (over \cup ToSet(s)) : task'[k] = task[k]
  BY <1>3
<1> QED BY <1>2, <1>3, <1>4, <1>7, <1>8, <1>9 DEF free

-----------------------------------------------------------------------------
(* The children. *)

\* Sessions end and begin; a child is left to its kill timer, or has exited.
LEMMA SessionsMove ==
  ASSUME StageTyped, NoOrphans, NEW started \in SUBSET Slots, NEW over \in SUBSET Slots, NEW how,
         Create(started, over, how), \A k \in started : k \in over \/ ~InUse(k),
         \/ /\ how = "none" /\ UNCHANGED lingering
            /\ \A k \in over : ~InUse(k)
         \/ /\ how \in {"answered", "refused", "late", "exited"} /\ Destroy(how)
            /\ \E k \in over : over = {k} /\ InUse(k)
  PROVE  /\ SessionTypeOK' /\ NoOrphans'
         /\ \A k \in Slots : InUse(k)' <=> k \in started \/ (InUse(k) /\ k \notin over)
<1> DEFINE U == {k \in Slots : InUse(k)}
<1>1. IsFiniteSet(U) /\ IsFiniteSet(started) /\ IsFiniteSet(U \ over)
  BY FS_Subset, SlotsAssumption
<1>2. Cardinality(U) \in Nat /\ Cardinality(started) \in Nat /\ Cardinality(U \ over) \in Nat
  BY <1>1, FS_CardinalityType
<1>3. session' = [s \in Slots |-> IF s \in started THEN "handshaking" ELSE IF s \in over THEN "none" ELSE session[s]]
      /\ alive' = alive + Cardinality(started) - (IF how = "exited" THEN 1 ELSE 0)
  BY DEF Create
<1>4. \A k \in Slots : InUse(k)' <=> k \in started \/ (InUse(k) /\ k \notin over)
  BY <1>3 DEF InUse
<1>5. {k \in Slots : InUse(k)}' = (U \ over) \cup started
  BY <1>4
<1>6. Cardinality((U \ over) \cup started) = Cardinality(U \ over) + Cardinality(started)
  <2>1. (U \ over) \cap started = {}
    OBVIOUS
  <2>2. Cardinality((U \ over) \cup started)
          = Cardinality(U \ over) + Cardinality(started) - Cardinality((U \ over) \cap started)
    BY <1>1, FS_Union
  <2> QED BY <1>2, <2>1, <2>2, FS_EmptySet
<1>7. session' \in [Slots -> {"none", "handshaking", "prompting"}]
  BY <1>3 DEF StageTyped, SessionTypeOK
<1>8. alive = Cardinality(U) + lingering /\ lingering \in 0 .. MaxLingering /\ MaxLingering \in Nat
  BY MaxLingeringAssumption DEF NoOrphans, StageTyped, SessionTypeOK
<1>9. CASE how = "none" /\ UNCHANGED lingering /\ \A k \in over : ~InUse(k)
  <2>1. U \ over = U
    BY <1>9
  <2>2. alive' = Cardinality((U \ over) \cup started) + lingering'
    <3>1. alive' = alive + Cardinality(started)
      BY <1>2, <1>3, <1>8, <1>9
    <3> QED BY <1>2, <1>6, <1>8, <1>9, <2>1, <3>1
  <2> QED BY <1>2, <1>4, <1>5, <1>6, <1>7, <1>8, <1>9, <2>2 DEF SessionTypeOK, NoOrphans
<1>10. ASSUME how \in {"answered", "refused", "late", "exited"}, Destroy(how),
              NEW k \in over, over = {k}, InUse(k)
       PROVE  SessionTypeOK' /\ NoOrphans'
  <2>1. U \ over = U \ {k} /\ k \in U
    BY <1>10
  <2>2. Cardinality(U \ over) = Cardinality(U) - 1
    BY <1>1, <2>1, FS_RemoveElement
  <2>3. lingering' \in 0 .. MaxLingering /\ lingering' = lingering + (IF how = "exited" THEN 0 ELSE 1)
    BY <1>8, <1>10 DEF Destroy
  <2>4. alive' = Cardinality((U \ over) \cup started) + lingering'
    BY <1>2, <1>3, <1>6, <1>8, <2>2, <2>3
  <2> QED BY <1>2, <1>4, <1>5, <1>6, <1>7, <1>8, <2>3, <2>4 DEF SessionTypeOK, NoOrphans
<1> QED BY <1>4, <1>9, <1>10

-----------------------------------------------------------------------------
(* The stage. *)

LEMMA EnqueueKeeps ==
  ASSUME StageOK, NEW e \in Events, drain = "none", Enqueue(e)
  PROVE  StageOK' /\ UNCHANGED drain
<1>1. UNCHANGED <<lingering, drain>>
  BY DEF Enqueue
<1>2. PICK q \in Seq(Events) : Len(q) <= QueueDepth /\ TryRunNext(q, {}, "none")
  <2>1. queue \in Seq(Events) /\ Len(queue) <= QueueDepth /\ QueueDepth \in Nat \ {0}
    BY IngestAssumption DEF StageOK, StageTyped
  <2>2. CASE Len(queue) >= QueueDepth
    <3>1. queue # <<>>
      BY <2>1, <2>2
    <3>2. Append(Tail(queue), e) \in Seq(Events) /\ Len(Append(Tail(queue), e)) <= QueueDepth
      BY <2>1, <3>1
    <3> QED BY <2>2, <3>2 DEF Enqueue
  <2>3. CASE ~(Len(queue) >= QueueDepth)
    <3>1. Append(queue, e) \in Seq(Events) /\ Len(Append(queue, e)) <= QueueDepth
      BY <2>1, <2>3
    <3> QED BY <2>3, <3>1 DEF Enqueue
  <2> QED BY <2>2, <2>3
<1>3. PICK started \in SUBSET {k \in Slots : Idle(k)} :
        /\ queue' \in Seq(Events) /\ Len(queue') <= QueueDepth
        /\ queue' # <<>> => started = {k \in Slots : Idle(k)}
        /\ task' \in [Slots -> TaskRecord]
        /\ \A k \in started : task'[k].pc = "calling" /\ task'[k].event \in Events
        /\ \A k \in Slots \ started : task'[k] = task[k]
        /\ Create(started, {}, "none")
  <2>1. \E started \in SUBSET ({k \in Slots : Idle(k)} \cup {}) :
          /\ queue' \in Seq(Events) /\ Len(queue') <= QueueDepth
          /\ queue' # <<>> => started = {k \in Slots : Idle(k)} \cup {}
          /\ task' \in [Slots -> TaskRecord]
          /\ \A k \in started : task'[k].pc = "calling" /\ task'[k].event \in Events
          /\ \A k \in {} \ started : task'[k] = NoTask
          /\ \A k \in Slots \ ({} \cup started) : task'[k] = task[k]
          /\ Create(started, {}, "none")
    <3>1. {} \in SUBSET Slots
      OBVIOUS
    <3> QED BY <1>2, <3>1, TryRunNextDoes DEF StageOK
  <2> QED BY <2>1
<1>4. \A k \in started : ~InUse(k)
  BY <1>3 DEF StageOK, SlotsInv
<1>5. /\ SessionTypeOK' /\ NoOrphans'
      /\ \A k \in Slots : InUse(k)' <=> k \in started \/ InUse(k)
  BY <1>1, <1>3, <1>4, SessionsMove DEF StageOK
<1>6. StageTyped'
  BY <1>1, <1>3, <1>5 DEF StageOK, StageTyped, TaskRecord
<1>7. SlotsInv'
  BY <1>3, <1>5, IngestAssumption DEF StageOK, SlotsInv, Idle
<1>8. NoIdleSlot'
  BY <1>3, <1>7, IngestAssumption DEF NoIdleSlot, Active, Idle
<1>9. DrainedIsIdle'
  BY <1>1 DEF DrainedIsIdle
<1> QED BY <1>1, <1>5, <1>6, <1>7, <1>8, <1>9 DEF StageOK

LEMMA FinishKeeps ==
  ASSUME StageOK, NEW k \in Slots, NEW how, Finish(k, how),
         \/ how = "none" /\ UNCHANGED lingering /\ task[k].pc = "storing"
         \/ how \in {"answered", "refused", "late", "exited"} /\ InUse(k)
  PROVE  StageOK' /\ drain' \in {drain, "drained"} /\ (drain = "none" => drain' = "none")
<1>1. /\ TryRunNext(queue, {k}, how) /\ Destroy(how)
      /\ drain' = NotifyDrain({j \in Slots : task'[j].event # NoEvent})
  BY DEF Finish
<1>2. queue \in Seq(Events) /\ Len(queue) <= QueueDepth
  BY DEF StageOK, StageTyped
<1>3. PICK started \in SUBSET ({j \in Slots : Idle(j)} \cup {k}) :
        /\ queue' \in Seq(Events) /\ Len(queue') <= QueueDepth
        /\ queue' # <<>> => started = {j \in Slots : Idle(j)} \cup {k}
        /\ task' \in [Slots -> TaskRecord]
        /\ \A j \in started : task'[j].pc = "calling" /\ task'[j].event \in Events
        /\ \A j \in {k} \ started : task'[j] = NoTask
        /\ \A j \in Slots \ ({k} \cup started) : task'[j] = task[j]
        /\ Create(started, {k}, how)
  <2>1. {k} \in SUBSET Slots
    OBVIOUS
  <2> QED BY <1>1, <1>2, <2>1, TryRunNextDoes DEF StageOK
<1>4. \A j \in started : j \in {k} \/ ~InUse(j)
  BY <1>3 DEF StageOK, SlotsInv
<1>5. /\ SessionTypeOK' /\ NoOrphans'
      /\ \A j \in Slots : InUse(j)' <=> j \in started \/ (InUse(j) /\ j \notin {k})
  <2>1. started \in SUBSET Slots /\ {k} \in SUBSET Slots
    BY <1>3
  <2>2. \/ /\ how = "none" /\ UNCHANGED lingering
           /\ \A j \in {k} : ~InUse(j)
        \/ /\ how \in {"answered", "refused", "late", "exited"} /\ Destroy(how)
           /\ \E j \in {k} : {k} = {j} /\ InUse(j)
    BY <1>1 DEF StageOK, SlotsInv
  <2> QED BY <1>3, <1>4, <2>1, <2>2, SessionsMove DEF StageOK
<1>6. ~Idle(k) /\ drain # "drained"
  BY DEF StageOK, SlotsInv, DrainedIsIdle, Active
<1>7. drain' = drain \/ (drain = "waiting" /\ drain' = "drained" /\ queue' = <<>> /\ {j \in Slots : task'[j].event # NoEvent} = {})
  BY <1>1 DEF NotifyDrain
<1>8. StageTyped'
  <2>1. drain' \in {"none", "waiting", "drained", "timed out"}
    BY <1>7 DEF StageOK, StageTyped
  <2> QED BY <1>3, <1>5, <2>1 DEF StageTyped, TaskRecord
<1>9. SlotsInv'
  <2>1. ASSUME NEW j \in Slots PROVE (InUse(j)' <=> task'[j].pc = "calling") /\ (Idle(j)' <=> task'[j].pc = "idle")
    <3>1. CASE j \in started
      BY <1>3, <1>5, <3>1, IngestAssumption DEF Idle
    <3>2. CASE j = k /\ j \notin started
      BY <1>3, <1>5, <3>2 DEF Idle, NoTask
    <3>3. CASE j # k /\ j \notin started
      BY <1>3, <1>5, <3>3 DEF StageOK, SlotsInv, Idle
    <3> QED BY <3>1, <3>2, <3>3
  <2> QED BY <2>1 DEF SlotsInv
<1>10. NoIdleSlot'
  BY <1>3, IngestAssumption DEF NoIdleSlot, Active, Idle
<1>11. DrainedIsIdle'
  BY <1>6, <1>7 DEF DrainedIsIdle, Active, Idle
<1> QED BY <1>5, <1>6, <1>7, <1>8, <1>9, <1>10, <1>11 DEF StageOK

\* An attempt that does not end the extraction: the slot stays taken.
LEMMA AttemptKeeps ==
  ASSUME StageOK, NEW k \in Slots, NEW how \in {"answered", "refused", "late", "exited"},
         NEW started \in SUBSET {k}, InUse(k), Destroy(how), Create(started, {k}, how),
         NEW t \in TaskRecord, task' = [task EXCEPT ![k] = t], t.event = task[k].event,
         t.pc = IF k \in started THEN "calling" ELSE "storing",
         UNCHANGED <<queue, drain>>
  PROVE  StageOK'
<1>1. /\ SessionTypeOK' /\ NoOrphans'
      /\ \A j \in Slots : InUse(j)' <=> j \in started \/ (InUse(j) /\ j \notin {k})
  <2>1. started \in SUBSET Slots /\ {k} \in SUBSET Slots
    OBVIOUS
  <2>2. \A j \in started : j \in {k} \/ ~InUse(j)
    OBVIOUS
  <2>3. \E j \in {k} : {k} = {j} /\ InUse(j)
    OBVIOUS
  <2> QED BY <2>1, <2>2, <2>3, SessionsMove DEF StageOK
<1>2. task' \in [Slots -> TaskRecord] /\ task'[k] = t /\ \A j \in Slots \ {k} : task'[j] = task[j]
  BY DEF StageOK, StageTyped, TaskRecord
<1>3. StageTyped'
  BY <1>1, <1>2 DEF StageOK, StageTyped, TaskRecord
<1>4. \A j \in Slots : Idle(j)' <=> Idle(j)
  BY <1>2 DEF Idle
<1>5. SlotsInv'
  <2>1. ASSUME NEW j \in Slots PROVE (InUse(j)' <=> task'[j].pc = "calling") /\ (Idle(j)' <=> task'[j].pc = "idle")
    <3>1. CASE j = k
      <4>1. ~Idle(k)
        BY DEF StageOK, SlotsInv
      <4> QED BY <1>1, <1>2, <1>4, <3>1, <4>1
    <3>2. CASE j # k
      BY <1>1, <1>2, <1>4, <3>2 DEF StageOK, SlotsInv
    <3> QED BY <3>1, <3>2
  <2> QED BY <2>1 DEF SlotsInv
<1>6. NoIdleSlot' /\ DrainedIsIdle'
  BY <1>4 DEF StageOK, NoIdleSlot, DrainedIsIdle, Active
<1> QED BY <1>1, <1>3, <1>5, <1>6 DEF StageOK

LEMMA ExtractionKeeps ==
  ASSUME StageOK, NEW k \in Slots, Extraction(k)
  PROVE  StageOK' /\ (drain = "none" => drain' = "none") /\ UNCHANGED ingestVars
<1>1. task[k] \in TaskRecord /\ (InUse(k) <=> task[k].pc = "calling") /\ (Idle(k) <=> task[k].pc = "idle")
  BY DEF StageOK, StageTyped, SlotsInv, TaskRecord
<1>2. ASSUME NEW how \in {"answered", "refused", "late", "exited"}, CanEnd(k, how), Finish(k, how)
      PROVE  StageOK' /\ (drain = "none" => drain' = "none") /\ UNCHANGED ingestVars
  <2>1. InUse(k)
    BY <1>2 DEF CanEnd, InUse
  <2> QED BY <1>2, <2>1, FinishKeeps DEF Finish
<1>3. CASE AttemptSkips(k)
  BY <1>2, <1>3 DEF AttemptSkips
<1>4. CASE StoresRecords(k)
  <2>1. UNCHANGED lingering /\ Finish(k, "none") /\ task[k].pc = "storing"
    BY <1>4 DEF StoresRecords, Finish, Destroy
  <2> QED BY <2>1, FinishKeeps DEF Finish
<1>5. CASE AttemptYields(k)
  <2>1. InUse(k) /\ Destroy("answered") /\ Create({}, {k}, "answered") /\ UNCHANGED <<queue, drain, ingestVars>>
    BY <1>5 DEF AttemptYields, CanEnd, InUse
  <2>2. PICK t : t = [task[k] EXCEPT !.pc = "storing"]
    OBVIOUS
  <2>3. t \in TaskRecord /\ t.event = task[k].event /\ t.pc = "storing"
    BY <1>1, <2>2 DEF TaskRecord
  <2>4. task' = [task EXCEPT ![k] = t]
    BY <1>5, <2>2 DEF AttemptYields
  <2>5. {} \in SUBSET {k} /\ k \notin {}
    OBVIOUS
  <2>6. StageOK'
    BY <2>1, <2>3, <2>4, <2>5, AttemptKeeps
  <2> QED BY <2>1, <2>6
<1>6. ASSUME NEW how \in {"answered", "refused", "late", "exited"}, AttemptRetried(k, how)
      PROVE  StageOK' /\ (drain = "none" => drain' = "none") /\ UNCHANGED ingestVars
  <2>1. InUse(k) /\ Destroy(how) /\ Create({k}, {k}, how) /\ UNCHANGED <<queue, drain, ingestVars>>
        /\ task[k].attempt < MaxRetries /\ task' = [task EXCEPT ![k].attempt = @ + 1]
    BY <1>6 DEF AttemptRetried, CanEnd, InUse
  <2>2. task[k].attempt + 1 \in 0 .. MaxRetries
    BY <1>1, <2>1, IngestAssumption DEF TaskRecord
  <2>3. PICK t : t = [task[k] EXCEPT !.attempt = task[k].attempt + 1]
    OBVIOUS
  <2>4. t \in TaskRecord /\ t.event = task[k].event /\ t.pc = "calling"
    BY <1>1, <2>1, <2>2, <2>3 DEF TaskRecord
  <2>5. task' = [task EXCEPT ![k] = t]
    BY <2>1, <2>3
  <2>6. {k} \in SUBSET {k} /\ k \in {k}
    OBVIOUS
  <2>7. StageOK'
    BY <2>1, <2>4, <2>5, <2>6, AttemptKeeps
  <2> QED BY <2>1, <2>7
<1>7. ASSUME NEW how \in {"answered", "refused", "late", "exited"}, AttemptsExhausted(k, how)
      PROVE  StageOK' /\ (drain = "none" => drain' = "none") /\ UNCHANGED ingestVars
  BY <1>2, <1>7 DEF AttemptsExhausted
<1> QED BY <1>3, <1>4, <1>5, <1>6, <1>7 DEF Extraction, AttemptFails

LEMMA HandshakeKeeps ==
  ASSUME StageOK, NEW k \in Slots, HandshakeAnswers(k), UNCHANGED stageVars
  PROVE  StageOK'
<1>1. session' \in [Slots -> {"none", "handshaking", "prompting"}] /\ UNCHANGED <<alive, lingering, queue, task, drain>>
  BY DEF HandshakeAnswers, StageOK, StageTyped, SessionTypeOK, stageVars
<1>2. \A j \in Slots : InUse(j)' <=> InUse(j)
  BY DEF HandshakeAnswers, StageOK, StageTyped, SessionTypeOK, InUse
<1>3. {j \in Slots : InUse(j)}' = {j \in Slots : InUse(j)}
  BY <1>2
<1>4. NoOrphans' /\ SessionTypeOK'
  BY <1>1, <1>3 DEF StageOK, StageTyped, SessionTypeOK, NoOrphans
<1>5. StageTyped'
  BY <1>1, <1>4 DEF StageOK, StageTyped
<1>6. SlotsInv' /\ NoIdleSlot' /\ DrainedIsIdle'
  BY <1>1, <1>2 DEF StageOK, SlotsInv, NoIdleSlot, DrainedIsIdle, Active, Idle
<1> QED BY <1>4, <1>5, <1>6 DEF StageOK

LEMMA ExitKeeps ==
  ASSUME StageOK, LingeringExits, UNCHANGED stageVars
  PROVE  StageOK'
<1>1. /\ UNCHANGED <<session, queue, task, drain>>
      /\ lingering > 0 /\ lingering' = lingering - 1 /\ alive' = alive - 1
  BY DEF LingeringExits, stageVars
<1>2. {j \in Slots : InUse(j)}' = {j \in Slots : InUse(j)}
  BY <1>1 DEF InUse
<1>3. Cardinality({j \in Slots : InUse(j)}) \in Nat
  BY FS_Subset, FS_CardinalityType, SlotsAssumption
<1>4. alive \in Nat /\ lingering \in 0 .. MaxLingering /\ alive = Cardinality({j \in Slots : InUse(j)}) + lingering
  BY DEF StageOK, StageTyped, SessionTypeOK, NoOrphans
<1>5. alive' \in Nat /\ lingering' \in 0 .. MaxLingering /\ alive' = Cardinality({j \in Slots : InUse(j)}) + lingering'
  BY <1>1, <1>3, <1>4, MaxLingeringAssumption
<1>6. NoOrphans' /\ SessionTypeOK'
  BY <1>1, <1>2, <1>5 DEF StageOK, StageTyped, SessionTypeOK, NoOrphans
<1>7. StageTyped' /\ SlotsInv' /\ NoIdleSlot' /\ DrainedIsIdle'
  BY <1>1, <1>6 DEF StageOK, StageTyped, SlotsInv, NoIdleSlot, DrainedIsIdle, Active, Idle, InUse
<1> QED BY <1>6, <1>7 DEF StageOK

LEMMA StageRests ==
  ASSUME StageOK, UNCHANGED <<sessionVars, queue, task>>,
         drain' \in {"none", "waiting", "drained", "timed out"},
         drain' = "drained" => drain = "drained" \/ (Active = {} /\ queue = <<>>)
  PROVE  StageOK'
<1>1. UNCHANGED <<session, alive, lingering, queue, task>>
  BY DEF sessionVars
<1>2. {j \in Slots : InUse(j)}' = {j \in Slots : InUse(j)} /\ Active' = Active
  BY <1>1 DEF InUse, Active, Idle
<1>3. NoOrphans' /\ SessionTypeOK'
  BY <1>1, <1>2 DEF StageOK, StageTyped, SessionTypeOK, NoOrphans
<1> QED BY <1>1, <1>2, <1>3 DEF StageOK, StageTyped, SlotsInv, NoIdleSlot, DrainedIsIdle, Idle, InUse

\* A daemon that has just begun.
LEMMA StageBegins ==
  ASSUME queue' = <<>>, drain' = "none", task' = [k \in Slots |-> NoTask],
         session' = [k \in Slots |-> "none"], alive' = 0, lingering' = 0
  PROVE  StageOK'
<1>1. {j \in Slots : InUse(j)}' = {}
  BY DEF InUse
<1>2. SessionTypeOK' /\ NoOrphans'
  BY <1>1, FS_EmptySet, MaxLingeringAssumption DEF SessionTypeOK, NoOrphans
<1>3. NoTask \in TaskRecord
  BY IngestAssumption DEF NoTask, TaskRecord
<1>4. StageTyped'
  BY <1>2, <1>3, IngestAssumption DEF StageTyped, TaskRecord
<1> QED BY <1>2, <1>4 DEF StageOK, SlotsInv, NoIdleSlot, DrainedIsIdle, Active, Idle, InUse, NoTask

-----------------------------------------------------------------------------
(* Dedup. *)

LEMMA ToSetIs ==
  ASSUME NEW S, NEW s \in Seq(S)
  PROVE  ToSet(s) = {s[i] : i \in 1 .. Len(s)} /\ DOMAIN s = 1 .. Len(s) /\ Len(s) \in Nat
BY DEF ToSet

LEMMA ToSetOfIds == \A s \in Seq(Events) : ToSet(s) = {s[i] : i \in 1 .. Len(s)}
BY ToSetIs

\* As many ids as places, where each id is there once.
LEMMA DistinctIds ==
  ASSUME NEW S, NEW s \in Seq(S), EachOnce(s)
  PROVE  IsFiniteSet(ToSet(s)) /\ Cardinality(ToSet(s)) = Len(s)
<1>1. s \in [1 .. Len(s) -> ToSet(s)] /\ Len(s) \in Nat
  BY ToSetIs
<1>2. \A x \in ToSet(s) : \E i \in 1 .. Len(s) : s[i] = x
  BY ToSetIs
<1>3. s \in Bijection(1 .. Len(s), ToSet(s))
  BY <1>1, <1>2 DEF EachOnce, Bijection, Injection, Surjection, IsInjective
<1>4. ExistsBijection(1 .. Len(s), ToSet(s))
  BY <1>3 DEF ExistsBijection
<1> QED BY <1>1, <1>4, FS_CountingElements, FS_NatBijection

\* The oldest id makes room.
LEMMA EvictIs ==
  ASSUME NEW s \in Seq(Events), Len(s) <= DedupMaxSize
  PROVE  \E shift \in {0, 1} :
           /\ Evict(s) \in Seq(Events)
           /\ Len(Evict(s)) = Len(s) - shift /\ Len(Evict(s)) < DedupMaxSize
           /\ \A i \in 1 .. Len(Evict(s)) : i + shift \in 1 .. Len(s) /\ Evict(s)[i] = s[i + shift]
           /\ shift = 1 => Len(s) = DedupMaxSize
<1>1. Len(s) \in Nat /\ DedupMaxSize \in Nat \ {0}
  BY IngestAssumption
<1>2. CASE Len(s) >= DedupMaxSize
  <2>1. Evict(s) = Tail(s) /\ s # <<>>
    BY <1>1, <1>2 DEF Evict
  <2>2. /\ Tail(s) \in Seq(Events) /\ Len(Tail(s)) = Len(s) - 1
        /\ \A i \in 1 .. Len(Tail(s)) : Tail(s)[i] = s[i + 1]
    BY <2>1, HeadTailProperties
  <2>3. \A i \in 1 .. Len(s) - 1 : i + 1 \in 1 .. Len(s)
    BY <1>1
  <2>4. Len(s) = DedupMaxSize /\ Len(s) - 1 < DedupMaxSize
    BY <1>1, <1>2
  <2> QED BY <2>1, <2>2, <2>3, <2>4
<1>3. CASE ~(Len(s) >= DedupMaxSize)
  <2>1. Evict(s) = s
    BY <1>3 DEF Evict
  <2>2. \A i \in 1 .. Len(s) : i + 0 \in 1 .. Len(s) /\ s[i] = s[i + 0]
    BY <1>1
  <2>3. Len(s) = Len(s) - 0 /\ Len(s) < DedupMaxSize
    BY <1>1, <1>3
  <2>4. PICK shift \in {0, 1} : shift = 0
    OBVIOUS
  <2>5. /\ Evict(s) \in Seq(Events)
        /\ Len(Evict(s)) = Len(s) - shift /\ Len(Evict(s)) < DedupMaxSize
        /\ \A i \in 1 .. Len(Evict(s)) : i + shift \in 1 .. Len(s) /\ Evict(s)[i] = s[i + shift]
        /\ shift = 1 => Len(s) = DedupMaxSize
    BY <2>1, <2>2, <2>3, <2>4
  <2> QED BY <2>5
<1> QED BY <1>2, <1>3

\* t is s with e taken, the oldest evicted if it was full.
IsTaken(t, s, e) ==
  /\ t \in Seq(Events) /\ Len(t) <= DedupMaxSize /\ EachOnce(t)
  /\ ToSet(t) \subseteq ToSet(s) \cup {e} /\ e \in ToSet(t)
  /\ \E shift \in {0, 1} :
       /\ Len(t) = Len(s) - shift + 1 /\ t[Len(t)] = e
       /\ \A i \in 1 .. Len(t) - 1 : i + shift \in 1 .. Len(s) /\ t[i] = s[i + shift]
       /\ shift = 1 => Len(s) = DedupMaxSize

\* A new id is taken, at the end.
LEMMA TakenIs ==
  ASSUME NEW s \in Seq(Events), Len(s) <= DedupMaxSize, EachOnce(s),
         NEW e \in Events, e \notin ToSet(s), NEW t, t = Append(Evict(s), e)
  PROVE  IsTaken(t, s, e)
<1>1. Len(s) \in Nat /\ DedupMaxSize \in Nat \ {0} /\ ToSet(s) = {s[i] : i \in 1 .. Len(s)}
  BY IngestAssumption, ToSetIs
<1>2. PICK shift \in {0, 1}, v \in Seq(Events) :
        /\ v = Evict(s)
        /\ Len(v) = Len(s) - shift /\ Len(v) < DedupMaxSize
        /\ \A i \in 1 .. Len(v) : i + shift \in 1 .. Len(s) /\ v[i] = s[i + shift]
        /\ shift = 1 => Len(s) = DedupMaxSize
  BY EvictIs
<1>3. /\ t \in Seq(Events) /\ Len(t) = Len(v) + 1 /\ Len(v) \in Nat
      /\ t[Len(v) + 1] = e
      /\ \A i \in 1 .. Len(v) : t[i] = v[i]
  BY <1>2, AppendProperties
<1>4. \A i \in 1 .. Len(v) : t[i] = s[i + shift] /\ i + shift \in 1 .. Len(s) /\ t[i] \in ToSet(s)
  BY <1>1, <1>2, <1>3
<1>5. \A i \in 1 .. Len(t) : i \in 1 .. Len(v) \/ i = Len(v) + 1
  BY <1>3
<1>6. EachOnce(t)
  <2>1. ASSUME NEW i \in 1 .. Len(v), NEW j \in 1 .. Len(v), t[i] = t[j] PROVE i = j
    <3>1. i + shift = j + shift
      BY <1>4, <2>1 DEF EachOnce
    <3> QED BY <1>2, <3>1
  <2> QED BY <1>3, <1>4, <1>5, <2>1 DEF EachOnce
<1>7. ToSet(t) = {t[i] : i \in 1 .. Len(t)}
  <2>1. t \in Seq(Events)
    BY <1>3
  <2> QED BY <2>1, ToSetOfIds, Zenon
<1>8. Len(t) - 1 = Len(v) /\ Len(t) \in 1 .. Len(t)
  BY <1>3
<1>9. ToSet(t) \subseteq ToSet(s) \cup {e} /\ e \in ToSet(t)
  BY <1>3, <1>4, <1>5, <1>7, <1>8
<1>10. Len(t) = Len(s) - shift + 1 /\ Len(t) <= DedupMaxSize
  BY <1>1, <1>2, <1>3
<1> QED BY <1>2, <1>3, <1>4, <1>6, <1>8, <1>9, <1>10 DEF IsTaken

\* The place p is taken out of s.
LEMMA RemoveAtIs ==
  ASSUME NEW s \in Seq(Events), NEW p \in 1 .. Len(s), NEW t, t = RemoveAt(s, p)
  PROVE  /\ t \in Seq(Events) /\ Len(t) = Len(s) - 1
         /\ \A i \in 1 .. Len(t) : /\ i < p => t[i] = s[i]
                                   /\ i >= p => t[i] = s[i + 1]
<1>1. Len(s) \in Nat /\ p \in Nat
  OBVIOUS
<1>2. PICK a \in Seq(Events) : /\ a = SubSeq(s, 1, p - 1) /\ Len(a) = p - 1
                               /\ \A i \in 1 .. p - 1 : a[i] = s[i]
  <2>1. \A i \in 1 .. p - 1 : s[i] \in Events
    BY <1>1
  <2>2. /\ SubSeq(s, 1, p - 1) \in Seq(Events)
        /\ Len(SubSeq(s, 1, p - 1)) = IF 1 <= p - 1 THEN p - 1 - 1 + 1 ELSE 0
        /\ \A i \in 1 .. p - 1 - 1 + 1 : SubSeq(s, 1, p - 1)[i] = s[1 + i - 1]
    BY <1>1, <2>1, SubSeqProperties
  <2>3. p - 1 - 1 + 1 = p - 1 /\ \A i \in 1 .. p - 1 : 1 + i - 1 = i
    BY <1>1
  <2>4. Len(SubSeq(s, 1, p - 1)) = p - 1
    BY <1>1, <2>2
  <2> QED BY <2>2, <2>3, <2>4
<1>3. PICK b \in Seq(Events) : /\ b = SubSeq(s, p + 1, Len(s)) /\ Len(b) = Len(s) - p
                               /\ \A i \in 1 .. Len(s) - p : b[i] = s[p + i]
  <2>1. \A i \in p + 1 .. Len(s) : s[i] \in Events
    BY <1>1
  <2>2. /\ SubSeq(s, p + 1, Len(s)) \in Seq(Events)
        /\ Len(SubSeq(s, p + 1, Len(s))) = IF p + 1 <= Len(s) THEN Len(s) - (p + 1) + 1 ELSE 0
        /\ \A i \in 1 .. Len(s) - (p + 1) + 1 : SubSeq(s, p + 1, Len(s))[i] = s[p + 1 + i - 1]
    BY <1>1, <2>1, SubSeqProperties
  <2>3. Len(s) - (p + 1) + 1 = Len(s) - p /\ \A i \in 1 .. Len(s) - p : p + 1 + i - 1 = p + i
    BY <1>1
  <2>4. Len(SubSeq(s, p + 1, Len(s))) = Len(s) - p
    BY <1>1, <2>2
  <2> QED BY <2>2, <2>3, <2>4
<1>4. t = a \o b
  BY <1>2, <1>3 DEF RemoveAt
<1>5. /\ t \in Seq(Events) /\ Len(t) = Len(a) + Len(b)
      /\ \A i \in 1 .. Len(a) + Len(b) : t[i] = IF i <= Len(a) THEN a[i] ELSE b[i - Len(a)]
  BY <1>4, ConcatProperties
<1>6. Len(t) = Len(s) - 1
  BY <1>1, <1>2, <1>3, <1>5
<1>7. ASSUME NEW i \in 1 .. Len(t), i < p PROVE t[i] = s[i]
  <2>1. i <= Len(a) /\ i \in 1 .. p - 1 /\ i \in 1 .. Len(a) + Len(b)
    BY <1>1, <1>2, <1>5, <1>7
  <2> QED BY <1>2, <1>5, <2>1
<1>8. ASSUME NEW i \in 1 .. Len(t), i >= p PROVE t[i] = s[i + 1]
  <2>1. Len(a) = p - 1 /\ Len(b) = Len(s) - p /\ i \in Nat /\ i <= Len(s) - 1
    BY <1>1, <1>2, <1>3, <1>6, <1>8
  <2>2. ~(i <= Len(a)) /\ i \in 1 .. Len(a) + Len(b)
    BY <1>1, <1>8, <2>1
  <2>3. i - Len(a) \in 1 .. Len(s) - p /\ p + (i - Len(a)) = i + 1
    BY <1>1, <1>8, <2>1
  <2> QED BY <1>3, <1>5, <2>2, <2>3
<1> QED BY <1>5, <1>6, <1>7, <1>8

\* t is s without e.
IsWithout(t, s, e) ==
  /\ t \in Seq(Events) /\ Len(t) <= Len(s) /\ EachOnce(t)
  /\ ToSet(t) = ToSet(s) \ {e}
  /\ \A i, j \in 1 .. Len(t) : i < j => \E x, y \in 1 .. Len(s) : x < y /\ t[i] = s[x] /\ t[j] = s[y]

\* An id is forgotten; the others stay, in their order.
LEMMA ForgottenIs ==
  ASSUME NEW s \in Seq(Events), EachOnce(s), NEW p \in 1 .. Len(s), NEW t, t = RemoveAt(s, p)
  PROVE  IsWithout(t, s, s[p])
<1>1. /\ t \in Seq(Events) /\ Len(t) = Len(s) - 1
      /\ \A i \in 1 .. Len(t) : /\ i < p => t[i] = s[i]
                                /\ i >= p => t[i] = s[i + 1]
  BY RemoveAtIs
<1>2. Len(s) \in Nat /\ p \in Nat /\ ToSet(s) = {s[i] : i \in 1 .. Len(s)} /\ ToSet(t) = {t[i] : i \in 1 .. Len(t)}
  BY <1>1, ToSetIs
<1> DEFINE from == [i \in 1 .. Len(t) |-> IF i < p THEN i ELSE i + 1]
<1>3. \A i \in 1 .. Len(t) : from[i] \in 1 .. Len(s) /\ from[i] # p /\ t[i] = s[from[i]]
  BY <1>1, <1>2
<1>4. \A i, j \in 1 .. Len(t) : (from[i] = from[j] => i = j) /\ (i < j => from[i] < from[j])
  BY <1>1, <1>2
<1>5. ASSUME NEW j \in 1 .. Len(s), j # p PROVE \E i \in 1 .. Len(t) : from[i] = j
  <2>1. CASE j < p
    <3>1. j \in 1 .. Len(t) /\ from[j] = j
      BY <1>1, <1>2, <2>1
    <3> QED BY <3>1
  <2>2. CASE j > p
    <3>1. j - 1 \in 1 .. Len(t) /\ from[j - 1] = j
      BY <1>1, <1>2, <2>2
    <3> QED BY <3>1
  <2> QED BY <1>2, <1>5, <2>1, <2>2
<1> HIDE DEF from
<1>6. EachOnce(t)
  BY <1>3, <1>4 DEF EachOnce
<1>7. ToSet(t) = ToSet(s) \ {s[p]}
  <2>1. ASSUME NEW i \in 1 .. Len(t) PROVE t[i] \in ToSet(s) /\ t[i] # s[p]
    BY <1>2, <1>3, <2>1 DEF EachOnce
  <2>2. ASSUME NEW j \in 1 .. Len(s), s[j] # s[p] PROVE s[j] \in ToSet(t)
    <3>1. PICK i \in 1 .. Len(t) : from[i] = j
      BY <1>5, <2>2
    <3> QED BY <1>2, <1>3, <3>1
  <2> QED BY <1>2, <2>1, <2>2
<1>8. Len(t) <= Len(s)
  BY <1>1, <1>2
<1>9. ASSUME NEW i \in 1 .. Len(t), NEW j \in 1 .. Len(t), i < j
      PROVE  \E x, y \in 1 .. Len(s) : x < y /\ t[i] = s[x] /\ t[j] = s[y]
  BY <1>3, <1>4, <1>9
<1> QED BY <1>1, <1>6, <1>7, <1>8, <1>9 DEF IsWithout

-----------------------------------------------------------------------------
(* The posts. *)

\* A request lets go of its event, or keeps it.
LEMMA TriesChange ==
  ASSUME PostsTyped, TriesInv, NEW r \in Requests, NEW q \in RequestRecord,
         request' = [request EXCEPT ![r] = q]
  PROVE  /\ request' \in [Requests -> RequestRecord] /\ request'[r] = q
         /\ \A o \in Requests \ {r} : request'[o] = request[o]
         /\ \A x \in Events : x # q.event /\ x # request[r].event => Tries(x)' = Tries(x)
         /\ q.event = request[r].event => \A x \in Events : Tries(x)' = Tries(x)
         /\ q.event = NoEvent => \A x \in Events : Tries(x)' = Tries(x) \ {r}
         /\ request[r].event = NoEvent => \A x \in Events : x = q.event => Tries(x)' = Tries(x) \cup {r}
<1>1. /\ request' \in [Requests -> RequestRecord] /\ request'[r] = q
      /\ \A o \in Requests \ {r} : request'[o] = request[o]
  BY DEF PostsTyped
<1> QED BY <1>1, IngestAssumption DEF Tries

LEMMA NoRequestTyped ==
  NoRequest \in RequestRecord /\ NoRequest.pc = "idle" /\ NoRequest.event = NoEvent
BY DEF NoRequest, RequestRecord

\* A request with e ends: e may be handed on with it, or forgotten.
LEMMA AnswerKeeps ==
  ASSUME PostsOK, NEW r \in Requests, NEW e \in Events, request[r].event = e, request[r].pc # "idle",
         Answer(r), UNCHANGED <<useBuffer, posts, since, pushedOut, crashes>>,
         NEW given \in {0, 1}, appended' = [appended EXCEPT ![e] = @ + given],
         \/ seen' = seen /\ events \subseteq events' /\ events' \subseteq Events
            /\ (request[r].pc = "storing" => e \in events')
         \/ given = 0 /\ seen' = Rollback(e) /\ events' = events
  PROVE  PostsOK'
<1>1. PostsTyped /\ TriesInv /\ DedupInv
  BY DEF PostsOK
<1>2. /\ request' \in [Requests -> RequestRecord] /\ request'[r] = NoRequest
      /\ \A o \in Requests \ {r} : request'[o] = request[o]
      /\ \A x \in Events : Tries(x)' = Tries(x) \ {r}
  BY <1>1, TriesChange, NoRequestTyped DEF Answer
<1>3. r \in Tries(e) /\ \A x \in Events : x # e => r \notin Tries(x)
  BY DEF Tries
<1>4. \A x \in Events : appended[x] \in Nat /\ appended'[x] = IF x = e THEN appended[x] + given ELSE appended[x]
  BY <1>1 DEF PostsTyped
<1>5. /\ seen' \in Seq(Events) /\ Len(seen') <= DedupMaxSize /\ EachOnce(seen')
      /\ InOrder'
      /\ \/ seen' = seen /\ events \subseteq events' /\ (request[r].pc = "storing" => e \in events')
         \/ given = 0 /\ ToSet(seen') = ToSet(seen) \ {e} /\ events' = events
  <2>1. seen \in Seq(Events) /\ Len(seen) <= DedupMaxSize /\ EachOnce(seen) /\ InOrder /\ UNCHANGED since
    BY <1>1 DEF PostsTyped, DedupInv
  <2>2. CASE seen' = seen /\ events \subseteq events' /\ (request[r].pc = "storing" => e \in events')
    BY <2>1, <2>2 DEF InOrder
  <2>3. CASE given = 0 /\ seen' = Rollback(e) /\ e \notin ToSet(seen) /\ events' = events
    <3>1. seen' = seen /\ ToSet(seen) = ToSet(seen) \ {e}
      BY <2>3 DEF Rollback
    <3> QED BY <2>1, <2>3, <3>1 DEF InOrder
  <2>4. CASE given = 0 /\ seen' = Rollback(e) /\ e \in ToSet(seen) /\ events' = events
    <3>1. \E i \in DOMAIN seen : seen[i] = e
      BY <2>4 DEF ToSet
    <3>2. PICK p \in 1 .. Len(seen) : seen[p] = e /\ p = CHOOSE i \in DOMAIN seen : seen[i] = e
      BY <2>1, <3>1, ToSetIs
    <3>3. PICK t : t = RemoveAt(seen, p)
      OBVIOUS
    <3>4. seen' = t
      BY <2>4, <3>2, <3>3 DEF Rollback
    <3>5. /\ t \in Seq(Events) /\ Len(t) <= Len(seen) /\ EachOnce(t)
          /\ ToSet(t) = ToSet(seen) \ {e}
          /\ \A i, j \in 1 .. Len(t) : i < j => \E x, y \in 1 .. Len(seen) : x < y /\ t[i] = seen[x] /\ t[j] = seen[y]
      <4>1. IsWithout(t, seen, seen[p])
        BY <2>1, <3>2, <3>3, ForgottenIs, Zenon
      <4> QED BY <3>2, <4>1 DEF IsWithout
    <3>6. InOrder'
      <4>1. SUFFICES ASSUME NEW i \in 1 .. Len(t), NEW j \in 1 .. Len(t), i < j
                     PROVE  t[j] \in since[t[i]]
        BY <2>1, <3>4 DEF InOrder
      <4>2. PICK x, y \in 1 .. Len(seen) : x < y /\ t[i] = seen[x] /\ t[j] = seen[y]
        BY <3>5, <4>1
      <4>3. seen[y] \in since[seen[x]]
        BY <2>1, <4>2 DEF InOrder
      <4> QED BY <4>2, <4>3
    <3>7. Len(t) <= DedupMaxSize
      BY <2>1, <3>5, IngestAssumption
    <3> QED BY <2>4, <3>4, <3>5, <3>6, <3>7
  <2> QED BY <2>2, <2>3, <2>4
<1>6. PostsTyped'
  <2>1. events' \subseteq Events /\ appended' \in [Events -> Nat]
    BY <1>1 DEF PostsTyped
  <2> QED BY <1>1, <1>2, <1>5, <2>1 DEF PostsTyped
<1>7. ASSUME NEW x \in Events
      PROVE  IsFiniteSet(Tries(x))' /\ IsFiniteSet(since[x])' /\ appended'[x] + Cardinality(Tries(x)') <= posts'
  <2>1. IsFiniteSet(Tries(x)) /\ IsFiniteSet(since[x]) /\ appended[x] + Cardinality(Tries(x)) <= posts /\ posts \in Nat
    BY <1>1 DEF TriesInv, PostsTyped
  <2>2. /\ IsFiniteSet(Tries(x) \ {r}) /\ Cardinality(Tries(x)) \in Nat
        /\ Cardinality(Tries(x) \ {r}) = IF r \in Tries(x) THEN Cardinality(Tries(x)) - 1 ELSE Cardinality(Tries(x))
    BY <2>1, FS_RemoveElement, FS_CardinalityType
  <2>3. appended'[x] + Cardinality(Tries(x)') <= posts'
    <3>1. CASE x = e
      <4>1. r \in Tries(x) /\ appended'[x] = appended[x] + given /\ appended[x] \in Nat
        BY <1>3, <1>4, <3>1
      <4>2. Cardinality(Tries(x)') = Cardinality(Tries(x)) - 1
        BY <1>2, <2>2, <4>1
      <4> QED BY <2>1, <2>2, <4>1, <4>2
    <3>2. CASE x # e
      <4>1. r \notin Tries(x) /\ appended'[x] = appended[x]
        BY <1>3, <1>4, <3>2
      <4>2. Cardinality(Tries(x)') = Cardinality(Tries(x))
        BY <1>2, <2>2, <4>1
      <4> QED BY <2>1, <4>1, <4>2
    <3> QED BY <3>1, <3>2
  <2> QED BY <1>2, <2>1, <2>2, <2>3
<1>8. TriesInv'
  <2>1. ASSUME NEW o \in Requests
        PROVE  /\ request'[o].pc = "idle" <=> request'[o].event = NoEvent
               /\ request'[o].pc = "buffering" => useBuffer'
    BY <1>1, <1>2, NoRequestTyped DEF TriesInv
  <2> QED BY <1>7, <2>1 DEF TriesInv
<1>9. SeenIsStored'
  <2>1. ASSUME NEW x \in ToSet(seen'), x \notin events'
        PROVE  \E o \in Requests : request'[o].event = x /\ request'[o].pc = "storing"
    <3>1. x \in ToSet(seen) \ events /\ (x = e => request[r].pc # "storing")
      BY <1>5, <2>1
    <3>2. PICK o \in Requests : request[o].event = x /\ request[o].pc = "storing"
      BY <1>1, <3>1 DEF DedupInv, SeenIsStored
    <3>3. o # r
      BY <3>1, <3>2
    <3> QED BY <1>2, <3>2, <3>3
  <2> QED BY <2>1 DEF SeenIsStored
<1>10. ASSUME NEW x \in Events, crashes' = 0, x \notin pushedOut' PROVE Once(x)'
  <2>1. Once(x) /\ appended[x] \in Nat
    BY <1>1, <1>4, <1>10 DEF DedupInv
  <2>2. CASE x # e
    <3>1. Tries(x)' = Tries(x) /\ appended'[x] = appended[x]
      <4>1. r \notin Tries(x) /\ Tries(x)' = Tries(x) \ {r}
        BY <1>2, <1>3, <2>2
      <4>2. appended'[x] = appended[x]
        BY <1>4, <2>2
      <4> QED BY <4>1, <4>2
    <3>2. x \in ToSet(seen) => x \in ToSet(seen')
      BY <1>5, <2>2
    <3> QED BY <2>1, <3>1, <3>2 DEF Once
  <2>3. CASE x = e
    <3>1. Tries(x)' = {} /\ appended[x] = 0
      BY <1>2, <1>3, <2>1, <2>3 DEF Once
    <3>2. appended'[x] = given
      BY <1>4, <2>3, <3>1
    <3>3. given = 1 => x \in ToSet(seen') \/ Cardinality(since'[x]) >= DedupMaxSize
      BY <1>3, <1>5, <2>1, <2>3 DEF Once
    <3> QED BY <3>1, <3>2, <3>3 DEF Once
  <2> QED BY <2>2, <2>3
<1> QED BY <1>5, <1>6, <1>8, <1>9, <1>10 DEF PostsOK, DedupInv

\* A post of a known id changes nothing but the count.
LEMMA PostOfKnownKeeps ==
  ASSUME PostsOK, posts < MaxPosts, posts' = posts + 1,
         UNCHANGED <<useBuffer, seen, request, events, appended, since, pushedOut, crashes>>
  PROVE  PostsOK'
<1>1. posts \in 0 .. MaxPosts /\ posts' \in 0 .. MaxPosts /\ MaxPosts \in Nat
  BY IngestAssumption DEF PostsOK, PostsTyped
<1>2. PostsTyped'
  BY <1>1 DEF PostsOK, PostsTyped
<1>3. TriesInv'
  <2>1. ASSUME NEW x \in Events
        PROVE  /\ IsFiniteSet(Tries(x))' /\ IsFiniteSet(since[x])'
               /\ appended'[x] + Cardinality(Tries(x)') <= posts'
    <3>1. Tries(x)' = Tries(x)
      BY DEF Tries
    <3>2. /\ IsFiniteSet(Tries(x)) /\ IsFiniteSet(since[x])
          /\ appended[x] + Cardinality(Tries(x)) <= posts
          /\ appended[x] \in Nat
      BY DEF PostsOK, PostsTyped, TriesInv
    <3>3. Cardinality(Tries(x)) \in Nat
      BY <3>2, FS_CardinalityType
    <3> QED BY <1>1, <3>1, <3>2, <3>3
  <2> QED BY <2>1 DEF PostsOK, TriesInv
<1>4. DedupInv'
  BY DEF PostsOK, DedupInv, InOrder, SeenIsStored, Once, Tries
<1> QED BY <1>2, <1>3, <1>4 DEF PostsOK

\* The order of taking, after e was taken.
LEMMA TakenInOrder ==
  ASSUME PostsOK, NEW e \in Events, e \notin ToSet(seen), seen' = Append(Evict(seen), e),
         since' = [x \in Events |-> IF x = e THEN {} ELSE since[x] \cup {e}]
  PROVE  /\ seen' \in Seq(Events) /\ Len(seen') <= DedupMaxSize /\ EachOnce(seen')
         /\ ToSet(seen') \subseteq ToSet(seen) \cup {e} /\ e \in ToSet(seen')
         /\ InOrder'
         /\ \A x \in ToSet(seen) \ ToSet(seen') : Cardinality(since'[x]) >= DedupMaxSize
<1>1. seen \in Seq(Events) /\ Len(seen) <= DedupMaxSize /\ EachOnce(seen) /\ InOrder
      /\ Len(seen) \in Nat /\ ToSet(seen) = {seen[i] : i \in 1 .. Len(seen)}
      /\ since \in [Events -> SUBSET Events] /\ \A x \in Events : IsFiniteSet(since[x])
  BY ToSetIs DEF PostsOK, PostsTyped, DedupInv, TriesInv
<1>2. PICK t : t = Append(Evict(seen), e)
  OBVIOUS
<1>3. /\ t \in Seq(Events) /\ Len(t) <= DedupMaxSize /\ EachOnce(t)
      /\ ToSet(t) \subseteq ToSet(seen) \cup {e} /\ e \in ToSet(t)
      /\ \E shift \in {0, 1} :
           /\ Len(t) = Len(seen) - shift + 1 /\ t[Len(t)] = e
           /\ \A i \in 1 .. Len(t) - 1 : i + shift \in 1 .. Len(seen) /\ t[i] = seen[i + shift]
           /\ shift = 1 => Len(seen) = DedupMaxSize
  <2>1. seen \in Seq(Events) /\ Len(seen) <= DedupMaxSize /\ EachOnce(seen)
    BY <1>1
  <2>2. IsTaken(t, seen, e)
    BY <1>2, <2>1, TakenIs, Zenon
  <2> QED BY <2>2 DEF IsTaken
<1>4. PICK shift \in {0, 1} :
           /\ Len(t) = Len(seen) - shift + 1 /\ t[Len(t)] = e
           /\ \A i \in 1 .. Len(t) - 1 : i + shift \in 1 .. Len(seen) /\ t[i] = seen[i + shift]
           /\ shift = 1 => Len(seen) = DedupMaxSize
  BY <1>3
<1>5. Len(t) \in Nat /\ ToSet(t) = {t[i] : i \in 1 .. Len(t)}
  BY <1>3, ToSetIs
<1>6. \A x \in Events : x # e => since'[x] = since[x] \cup {e} /\ IsFiniteSet(since'[x])
  BY <1>1, FS_AddElement
<1>7. \A i \in 1 .. Len(seen) : seen[i] # e /\ seen[i] \in Events
  BY <1>1
<1>8. ASSUME NEW i \in 1 .. Len(t), NEW j \in 1 .. Len(t), i < j PROVE t[j] \in since'[t[i]]
  <2>1. i \in 1 .. Len(t) - 1
    BY <1>5, <1>8
  <2>2. t[i] = seen[i + shift] /\ i + shift \in 1 .. Len(seen) /\ since'[t[i]] = since[t[i]] \cup {e}
    BY <1>4, <1>6, <1>7, <2>1
  <2>3. CASE j = Len(t)
    BY <1>4, <2>2, <2>3
  <2>4. CASE j # Len(t)
    <3>1. j \in 1 .. Len(t) - 1
      BY <1>5, <2>4
    <3>2. t[j] = seen[j + shift] /\ j + shift \in 1 .. Len(seen) /\ i + shift < j + shift
      BY <1>4, <1>8, <3>1
    <3> QED BY <1>1, <2>2, <3>2 DEF InOrder
  <2> QED BY <2>3, <2>4
<1>9. ASSUME NEW x \in ToSet(seen), x \notin ToSet(t) PROVE Cardinality(since'[x]) >= DedupMaxSize
  <2>1. PICK n \in 1 .. Len(seen) : seen[n] = x
    BY <1>1, <1>9
  <2>2. ~(n > shift)
    <3>1. SUFFICES ASSUME n > shift PROVE FALSE
      OBVIOUS
    <3>2. n - shift \in 1 .. Len(t) - 1 /\ (n - shift) + shift = n /\ n - shift \in 1 .. Len(t)
      BY <1>1, <1>4, <1>5, <3>1
    <3>3. t[n - shift] = x
      BY <1>4, <2>1, <3>2
    <3> QED BY <1>5, <1>9, <3>2, <3>3
  <2>3. n = 1 /\ shift = 1 /\ Len(t) = DedupMaxSize
    BY <1>1, <1>4, <2>2
  <2>4. ASSUME NEW j \in 1 .. Len(t) PROVE t[j] \in since'[x]
    <3>1. since'[x] = since[x] \cup {e}
      BY <1>6, <1>7, <2>1
    <3>2. CASE j = Len(t)
      BY <1>4, <3>1, <3>2
    <3>3. CASE j # Len(t)
      <4>1. j \in 1 .. Len(t) - 1
        BY <1>5, <3>3
      <4>2. t[j] = seen[j + 1] /\ j + 1 \in 1 .. Len(seen) /\ 1 < j + 1
        BY <1>4, <2>3, <4>1
      <4> QED BY <1>1, <2>1, <2>3, <3>1, <4>2 DEF InOrder
    <3> QED BY <3>2, <3>3
  <2>5. ToSet(t) \subseteq since'[x] /\ IsFiniteSet(since'[x])
    BY <1>5, <1>6, <1>7, <2>1, <2>4
  <2>6. IsFiniteSet(ToSet(t)) /\ Cardinality(ToSet(t)) = DedupMaxSize
    BY <1>3, <2>3, DistinctIds
  <2> QED BY <2>5, <2>6, FS_Subset
<1>10. InOrder'
  BY <1>2, <1>8 DEF InOrder
<1> QED BY <1>2, <1>3, <1>9, <1>10

LEMMA PostOfNewKeeps ==
  ASSUME PostsOK, NEW r \in Requests, NEW e \in Events, Post(r, e), e \notin ToSet(seen)
  PROVE  PostsOK'
<1>1. PostsTyped /\ TriesInv /\ DedupInv
  BY DEF PostsOK
<1>2. PICK q : q = [pc |-> "storing", event |-> e]
  OBVIOUS
<1>3. /\ request[r] = NoRequest /\ posts < MaxPosts /\ posts' = posts + 1
      /\ seen' = Append(Evict(seen), e)
      /\ request' = [request EXCEPT ![r] = q]
      /\ since' = [x \in Events |-> IF x = e THEN {} ELSE since[x] \cup {e}]
      /\ pushedOut' = IF Cardinality(since[e]) >= DedupMaxSize THEN pushedOut \cup {e} ELSE pushedOut
      /\ UNCHANGED <<useBuffer, events, appended, crashes>>
  BY <1>2 DEF Post
<1>4. /\ seen' \in Seq(Events) /\ Len(seen') <= DedupMaxSize /\ EachOnce(seen')
      /\ ToSet(seen') \subseteq ToSet(seen) \cup {e} /\ e \in ToSet(seen')
      /\ InOrder'
      /\ \A x \in ToSet(seen) \ ToSet(seen') : Cardinality(since'[x]) >= DedupMaxSize
  BY <1>3, TakenInOrder
<1>5. q \in RequestRecord /\ q.pc = "storing" /\ q.event = e /\ request[r].event = NoEvent /\ request[r].pc = "idle"
  BY <1>2, <1>3 DEF RequestRecord, NoRequest
<1>6. /\ request' \in [Requests -> RequestRecord] /\ request'[r] = q
      /\ \A o \in Requests \ {r} : request'[o] = request[o]
      /\ \A x \in Events : x # e => Tries(x)' = Tries(x)
      /\ Tries(e)' = Tries(e) \cup {r}
  BY <1>1, <1>3, <1>5, TriesChange, IngestAssumption
<1>7. posts \in 0 .. MaxPosts /\ posts' \in 0 .. MaxPosts /\ MaxPosts \in Nat
  BY <1>1, <1>3, IngestAssumption DEF PostsTyped
<1>8. \A x \in Events : /\ IsFiniteSet(Tries(x)) /\ IsFiniteSet(since[x]) /\ appended[x] \in Nat
                        /\ Cardinality(Tries(x)) \in Nat /\ Cardinality(since[x]) \in Nat
                        /\ appended[x] + Cardinality(Tries(x)) <= posts
  BY <1>1, FS_CardinalityType DEF PostsTyped, TriesInv
<1>9. \A x \in Events : since'[x] = IF x = e THEN {} ELSE since[x] \cup {e}
  BY <1>3
<1>10. PostsTyped'
  <2>1. since' \in [Events -> SUBSET Events] /\ pushedOut' \subseteq Events
    BY <1>1, <1>3 DEF PostsTyped
  <2> QED BY <1>1, <1>3, <1>4, <1>6, <1>7, <2>1 DEF PostsTyped
<1>11. ASSUME NEW x \in Events
       PROVE  IsFiniteSet(Tries(x))' /\ IsFiniteSet(since[x])' /\ appended'[x] + Cardinality(Tries(x)') <= posts'
  <2>1. IsFiniteSet(since'[x])
    <3>1. IsFiniteSet(since[x] \cup {e}) /\ IsFiniteSet({})
      BY <1>8, FS_AddElement, FS_EmptySet
    <3>2. since'[x] = {} \/ since'[x] = since[x] \cup {e}
      BY <1>9
    <3> QED BY <3>1, <3>2
  <2>2. IsFiniteSet(Tries(x) \cup {r}) /\ Cardinality(Tries(x) \cup {r}) <= Cardinality(Tries(x)) + 1
    <3>1. PICK T : T = Tries(x)
      OBVIOUS
    <3>2. IsFiniteSet(T) /\ Cardinality(T) \in Nat
      BY <1>8, <3>1
    <3>3. /\ IsFiniteSet(T \cup {r})
          /\ Cardinality(T \cup {r}) = IF r \in T THEN Cardinality(T) ELSE Cardinality(T) + 1
      BY <3>2, FS_AddElement
    <3> QED BY <3>1, <3>2, <3>3
  <2>3. IsFiniteSet(Tries(x))' /\ Cardinality(Tries(x)') <= Cardinality(Tries(x)) + 1
    <3>1. CASE x = e
      BY <1>6, <2>2, <3>1
    <3>2. CASE x # e
      BY <1>6, <1>8, <3>2
    <3> QED BY <3>1, <3>2
  <2>4. Cardinality(Tries(x)') \in Nat
    BY <2>3, FS_CardinalityType
  <2> QED BY <1>3, <1>7, <1>8, <2>1, <2>3, <2>4
<1>12. TriesInv'
  <2>1. ASSUME NEW o \in Requests
        PROVE  /\ request'[o].pc = "idle" <=> request'[o].event = NoEvent
               /\ request'[o].pc = "buffering" => useBuffer'
    BY <1>1, <1>3, <1>5, <1>6, IngestAssumption DEF TriesInv
  <2> QED BY <1>11, <2>1 DEF TriesInv
<1>13. SeenIsStored'
  <2>1. ASSUME NEW x \in ToSet(seen'), x \notin events'
        PROVE  \E o \in Requests : request'[o].event = x /\ request'[o].pc = "storing"
    <3>1. CASE x = e
      BY <1>5, <1>6, <3>1
    <3>2. CASE x # e
      <4>1. x \in ToSet(seen) \ events
        BY <1>3, <1>4, <2>1, <3>2
      <4>2. PICK o \in Requests : request[o].event = x /\ request[o].pc = "storing"
        BY <1>1, <4>1 DEF DedupInv, SeenIsStored
      <4> QED BY <1>5, <1>6, <4>2
    <3> QED BY <3>1, <3>2
  <2> QED BY <2>1 DEF SeenIsStored
<1>14. ASSUME NEW x \in Events, crashes' = 0, x \notin pushedOut' PROVE Once(x)'
  <2>1. Once(x)
    BY <1>1, <1>3, <1>14 DEF DedupInv
  <2>2. CASE x = e
    <3>1. ~(Cardinality(since[e]) >= DedupMaxSize)
      BY <1>3, <1>14, <2>2
    <3>2. appended[e] = 0 /\ Tries(e) = {}
      BY <1>8, <2>1, <2>2, <3>1 DEF Once
    <3>3. Tries(e)' = {r} /\ appended'[e] = 0
      BY <1>3, <1>6, <3>2
    <3> QED BY <1>4, <2>2, <3>3 DEF Once
  <2>3. CASE x # e
    <3>1. Tries(x)' = Tries(x) /\ appended'[x] = appended[x]
      BY <1>3, <1>6, <2>3
    <3>2. ASSUME appended[x] = 1 \/ Tries(x) # {}
          PROVE  x \in ToSet(seen') \/ Cardinality(since'[x]) >= DedupMaxSize
      <4>1. CASE x \in ToSet(seen)
        BY <1>4, <4>1
      <4>2. CASE Cardinality(since[x]) >= DedupMaxSize
        <5>1. since'[x] = since[x] \cup {e} /\ IsFiniteSet(since'[x]) /\ since[x] \subseteq since'[x]
          BY <1>9, <1>11, <2>3
        <5>2. Cardinality(since[x]) <= Cardinality(since'[x]) /\ Cardinality(since'[x]) \in Nat
          BY <5>1, FS_Subset, FS_CardinalityType
        <5> QED BY <1>8, <4>2, <5>2, IngestAssumption
      <4> QED BY <2>1, <3>2, <4>1, <4>2 DEF Once
    <3> QED BY <2>1, <3>1, <3>2 DEF Once
  <2> QED BY <2>2, <2>3
<1> QED BY <1>4, <1>10, <1>12, <1>13, <1>14 DEF PostsOK, DedupInv

LEMMA PostKeeps ==
  ASSUME PostsOK, NEW r \in Requests, NEW e \in Events, Post(r, e)
  PROVE  PostsOK'
<1>1. CASE e \in ToSet(seen)
  BY <1>1, PostOfKnownKeeps DEF Post
<1>2. CASE e \notin ToSet(seen)
  BY <1>2, PostOfNewKeeps
<1> QED BY <1>1, <1>2

\* The event of a request under way.
LEMMA OnItsWay ==
  ASSUME PostsOK, NEW r \in Requests, request[r].pc \in {"storing", "buffering"}
  PROVE  request[r] \in RequestRecord /\ request[r].event \in Events /\ request[r] # NoRequest
<1>1. request[r] \in RequestRecord /\ (request[r].pc = "idle" <=> request[r].event = NoEvent)
  BY DEF PostsOK, PostsTyped, TriesInv
<1> QED BY <1>1 DEF RequestRecord, NoRequest

\* putEvent has stored the event of a request that goes on to the buffer.
LEMMA BufferingKeeps ==
  ASSUME PostsOK, NEW r \in Requests, request[r].pc = "storing", useBuffer,
         events' = events \cup {request[r].event}, At(r, "buffering"),
         UNCHANGED <<useBuffer, seen, appended, posts, since, pushedOut, crashes>>
  PROVE  PostsOK'
<1>1. PostsTyped /\ TriesInv /\ DedupInv /\ request[r] \in RequestRecord /\ request[r].event \in Events
  BY OnItsWay DEF PostsOK
<1>2. PICK q : q = [request[r] EXCEPT !.pc = "buffering"]
  OBVIOUS
<1>3. q \in RequestRecord /\ q.pc = "buffering" /\ q.event = request[r].event /\ request' = [request EXCEPT ![r] = q]
  BY <1>1, <1>2 DEF RequestRecord, At
<1>4. /\ request' \in [Requests -> RequestRecord] /\ request'[r] = q
      /\ \A o \in Requests \ {r} : request'[o] = request[o]
      /\ \A x \in Events : Tries(x)' = Tries(x)
  BY <1>1, <1>3, TriesChange
<1>5. PostsTyped'
  BY <1>1, <1>4 DEF PostsTyped
<1>6. TriesInv'
  <2>1. ASSUME NEW o \in Requests
        PROVE  /\ request'[o].pc = "idle" <=> request'[o].event = NoEvent
               /\ request'[o].pc = "buffering" => useBuffer'
    BY <1>1, <1>3, <1>4 DEF TriesInv
  <2> QED BY <1>1, <1>4, <2>1 DEF TriesInv
<1>7. SeenIsStored'
  <2>1. ASSUME NEW x \in ToSet(seen'), x \notin events'
        PROVE  \E o \in Requests : request'[o].event = x /\ request'[o].pc = "storing"
    <3>1. x \in ToSet(seen) \ events /\ x # request[r].event
      BY <2>1
    <3>2. PICK o \in Requests : request[o].event = x /\ request[o].pc = "storing"
      BY <1>1, <3>1 DEF DedupInv, SeenIsStored
    <3> QED BY <1>4, <3>1, <3>2
  <2> QED BY <2>1 DEF SeenIsStored
<1>8. DedupInv'
  BY <1>1, <1>4, <1>7 DEF DedupInv, InOrder, Once
<1> QED BY <1>5, <1>6, <1>8 DEF PostsOK

\* A post under way goes on, or ends.
LEMMA PostingKeeps ==
  ASSUME PostsOK, StageOK, drain = "none", NEW r \in Requests, Posting(r)
  PROVE  PostsOK' /\ StageOK' /\ drain' = "none"
<1>1. PICK e : e = request[r].event
  OBVIOUS
<1>2. ASSUME request[r].pc \in {"storing", "buffering"}
      PROVE  e \in Events /\ request[r].pc # "idle"
  BY <1>1, <1>2, OnItsWay
<1>3. ASSUME UNCHANGED <<sessionVars, stageVars>> PROVE StageOK' /\ drain' = "none"
  BY <1>3, StageRests DEF stageVars, StageOK, StageTyped
<1>4. appended \in [Events -> Nat] /\ events \subseteq Events /\ useBuffer \in BOOLEAN
  BY DEF PostsOK, PostsTyped
<1>5. CASE Stored(r) /\ useBuffer
  <2>1. PostsOK'
    BY <1>5, BufferingKeeps DEF Stored
  <2> QED BY <1>3, <1>5, <2>1 DEF Stored
<1>6. CASE Stored(r) /\ ~useBuffer
  <2>1. /\ e \in Events /\ request[r].pc # "idle" /\ Answer(r) /\ Enqueue(e)
        /\ UNCHANGED <<useBuffer, seen, posts, since, pushedOut, crashes>>
        /\ appended' = [appended EXCEPT ![e] = @ + 1] /\ events' = events \cup {e}
    BY <1>1, <1>2, <1>6 DEF Stored
  <2>2. PostsOK'
    <3>1. seen' = seen /\ events \subseteq events' /\ events' \subseteq Events
          /\ (request[r].pc = "storing" => e \in events')
      BY <1>4, <2>1
    <3> QED BY <1>1, <2>1, <3>1, AnswerKeeps
  <2>3. StageOK' /\ UNCHANGED drain
    BY <2>1, EnqueueKeeps
  <2> QED BY <2>2, <2>3
<1>7. CASE StoreFails(r)
  <2>1. /\ e \in Events /\ request[r].pc # "idle" /\ Answer(r)
        /\ UNCHANGED <<useBuffer, posts, since, pushedOut, crashes>>
        /\ seen' = Rollback(e) /\ events' = events /\ appended' = appended
    BY <1>1, <1>2, <1>7 DEF StoreFails
  <2>2. appended' = [appended EXCEPT ![e] = @ + 0]
    BY <1>4, <2>1
  <2>3. PostsOK'
    BY <1>1, <2>1, <2>2, AnswerKeeps
  <2> QED BY <1>3, <1>7, <2>3 DEF StoreFails
<1>8. ASSUME NEW done \in BOOLEAN, Buffers(r, done) PROVE PostsOK' /\ StageOK' /\ drain' = "none"
  <2>1. /\ e \in Events /\ request[r].pc = "buffering" /\ Answer(r)
        /\ UNCHANGED <<useBuffer, seen, events, posts, since, pushedOut, crashes>>
        /\ appended' = IF done THEN [appended EXCEPT ![e] = @ + 1] ELSE appended
    BY <1>1, <1>2, <1>8 DEF Buffers
  <2>2. PICK given \in {0, 1} : appended' = [appended EXCEPT ![e] = @ + given]
    <3>1. appended = [appended EXCEPT ![e] = @ + 0]
      BY <1>4, <2>1
    <3> QED BY <2>1, <3>1
  <2>3. PostsOK'
    BY <1>1, <1>4, <2>1, <2>2, AnswerKeeps
  <2> QED BY <1>3, <1>8, <2>3 DEF Buffers
<1> QED BY <1>4, <1>5, <1>6, <1>7, <1>8 DEF Posting

\* A restart forgets dedup and the requests; the history and the tables stay.
LEMMA RestartKeeps ==
  ASSUME PostsOK, Restart
  PROVE  PostsOK' /\ StageOK' /\ drain' = "none"
<1>1. /\ seen' = <<>> /\ drain' = "none" /\ crashes < MaxCrashes /\ crashes' = crashes + 1
      /\ request' = [r \in Requests |-> NoRequest]
      /\ UNCHANGED <<useBuffer, events, appended, posts, since, pushedOut>>
  BY DEF Restart
<1>2. PostsTyped /\ TriesInv
  BY DEF PostsOK
<1>3. seen' \in Seq(Events) /\ Len(seen') = 0 /\ ToSet(seen') = {}
  <2>1. seen' \in Seq(Events) /\ Len(seen') = 0
    BY <1>1
  <2>2. ToSet(seen') = {seen'[i] : i \in 1 .. Len(seen')}
    BY <2>1, ToSetIs
  <2> QED BY <2>1, <2>2
<1>4. crashes' \in 0 .. MaxCrashes /\ crashes' # 0
  BY <1>1, <1>2, IngestAssumption DEF PostsTyped
<1>5. PostsTyped'
  <2>1. EachOnce(seen')
    BY <1>3 DEF EachOnce
  <2>2. request' \in [Requests -> RequestRecord] /\ Len(seen') <= DedupMaxSize
    BY <1>1, <1>3, NoRequestTyped, IngestAssumption
  <2> QED BY <1>1, <1>2, <1>3, <1>4, <2>1, <2>2 DEF PostsTyped
<1>6. \A x \in Events : Tries(x)' = {}
  BY <1>1, NoRequestTyped, IngestAssumption DEF Tries
<1>7. ASSUME NEW x \in Events
      PROVE  IsFiniteSet(Tries(x))' /\ IsFiniteSet(since[x])' /\ appended'[x] + Cardinality(Tries(x)') <= posts'
  <2>1. /\ IsFiniteSet(Tries(x)) /\ IsFiniteSet(since[x]) /\ appended[x] \in Nat /\ posts \in Nat
        /\ appended[x] + Cardinality(Tries(x)) <= posts
    BY <1>2 DEF PostsTyped, TriesInv
  <2>2. Cardinality(Tries(x)) \in Nat
    BY <2>1, FS_CardinalityType
  <2>3. Cardinality({}) = 0 /\ IsFiniteSet({})
    BY FS_EmptySet
  <2>4. IsFiniteSet(Tries(x))' /\ Cardinality(Tries(x)') = 0
    BY <1>6, <2>3
  <2> QED BY <1>1, <2>1, <2>2, <2>4
<1>8. TriesInv'
  <2>1. \A r \in Requests : request'[r].pc = "idle" /\ request'[r].event = NoEvent
    BY <1>1, NoRequestTyped
  <2> QED BY <1>7, <2>1 DEF TriesInv
<1>9. DedupInv'
  BY <1>3, <1>4 DEF DedupInv, InOrder, SeenIsStored
<1>10. StageOK'
  BY StageBegins DEF Restart
<1> QED BY <1>1, <1>5, <1>8, <1>9, <1>10 DEF PostsOK

LEMMA PostsRest ==
  ASSUME PostsOK, UNCHANGED ingestVars
  PROVE  PostsOK'
<1>1. UNCHANGED <<useBuffer, seen, request, events, appended, posts, since, pushedOut, crashes>>
  BY DEF ingestVars
<1>2. \A x \in Events : Tries(x)' = Tries(x)
  BY <1>1 DEF Tries
<1>3. PostsTyped' /\ TriesInv'
  BY <1>1, <1>2 DEF PostsOK, PostsTyped, TriesInv
<1>4. DedupInv'
  BY <1>1, <1>2 DEF PostsOK, DedupInv, InOrder, SeenIsStored, Once
<1> QED BY <1>3, <1>4 DEF PostsOK

-----------------------------------------------------------------------------
LEMMA InitKeeps ==
  ASSUME Init
  PROVE  IngestInv
<1>1. Len(<<>>) = 0 /\ seen = <<>> /\ seen \in Seq(Events)
  BY DEF Init
<1>2. ToSet(seen) = {}
  <2>1. ToSet(seen) = {seen[i] : i \in 1 .. Len(seen)}
    BY <1>1, ToSetOfIds, Zenon
  <2> QED BY <1>1, <2>1
<1>3. Cardinality({}) = 0 /\ IsFiniteSet({})
  BY FS_EmptySet
<1>4. \A x \in Events : Tries(x) = {} /\ since[x] = {} /\ appended[x] = 0
  BY NoRequestTyped, IngestAssumption DEF Init, Tries
<1>5. PostsTyped
  <2>1. EachOnce(seen) /\ Len(seen) <= DedupMaxSize
    BY <1>1, IngestAssumption DEF EachOnce
  <2>2. request \in [Requests -> RequestRecord]
    BY NoRequestTyped DEF Init
  <2>3. posts \in 0 .. MaxPosts /\ crashes \in 0 .. MaxCrashes
    BY IngestAssumption DEF Init
  <2>4. useBuffer \in BOOLEAN /\ pushedOut \subseteq Events /\ events \subseteq Events
    BY Zenon DEF Init
  <2>5. appended \in [Events -> Nat] /\ since \in [Events -> SUBSET Events]
    BY DEF Init
  <2> QED BY <1>1, <2>1, <2>2, <2>3, <2>4, <2>5 DEF PostsTyped
<1>6. TriesInv
  <2>1. \A r \in Requests : request[r].pc = "idle" /\ request[r].event = NoEvent
    BY NoRequestTyped DEF Init
  <2>2. \A x \in Events : appended[x] + Cardinality(Tries(x)) <= posts
    <3>1. ASSUME NEW x \in Events PROVE Cardinality(Tries(x)) = 0
      BY <1>3, <1>4, Zenon
    <3> QED BY <1>4, <3>1 DEF Init
  <2> QED BY <1>3, <1>4, <2>1, <2>2 DEF TriesInv
<1>7. DedupInv
  BY <1>1, <1>2, <1>4 DEF DedupInv, InOrder, SeenIsStored, Once
<1>8. StageOK
  <2>1. {j \in Slots : InUse(j)} = {}
    BY DEF Init, SessionInit, InUse
  <2>2. NoOrphans
    <3>1. Cardinality({k \in Slots : InUse(k)}) = 0
      BY <1>3, <2>1, Zenon
    <3> QED BY <3>1 DEF Init, SessionInit, NoOrphans
  <2>3. NoTask \in TaskRecord /\ NoTask.pc = "idle" /\ NoTask.event = NoEvent
    BY IngestAssumption DEF NoTask, TaskRecord
  <2>4. StageTyped
    BY <2>3, MaxLingeringAssumption, IngestAssumption DEF Init, SessionInit, StageTyped, SessionTypeOK, TaskRecord
  <2>5. SlotsInv
    BY <2>3 DEF Init, SessionInit, SlotsInv, InUse, Idle
  <2> QED BY <2>2, <2>4, <2>5 DEF Init, StageOK, NoIdleSlot, DrainedIsIdle
<1>9. DrainIsLast
  BY DEF Init, DrainIsLast
<1> QED BY <1>5, <1>6, <1>7, <1>8, <1>9 DEF IngestInv, PostsOK

LEMMA StepKeeps ==
  ASSUME IngestInv, [Next]_vars
  PROVE  IngestInv'
<1>1. PostsOK /\ StageOK /\ DrainIsLast
  BY DEF IngestInv
<1>2. ASSUME PostsOK', StageOK', drain' = "none" \/ (drain # "none" /\ UNCHANGED request) PROVE IngestInv'
  BY <1>1, <1>2 DEF IngestInv, DrainIsLast
<1>3. ASSUME UNCHANGED request PROVE drain = "none" \/ (drain # "none" /\ UNCHANGED request)
  BY <1>3
<1>4. ASSUME NEW k \in Slots, Shakes(k) PROVE IngestInv'
  <2>1. PostsOK' /\ StageOK' /\ UNCHANGED <<drain, request>>
    BY <1>1, <1>4, HandshakeKeeps, PostsRest DEF Shakes, stageVars, ingestVars
  <2> QED BY <1>2, <2>1
<1>5. ASSUME NEW k \in Slots, Extraction(k) PROVE IngestInv'
  <2>1. StageOK' /\ (drain = "none" => drain' = "none") /\ UNCHANGED ingestVars
    BY <1>1, <1>5, ExtractionKeeps
  <2>2. PostsOK' /\ UNCHANGED request
    BY <1>1, <2>1, PostsRest DEF ingestVars
  <2> QED BY <1>2, <2>1, <2>2
<1>6. ASSUME NEW r \in Requests, Posting(r) PROVE IngestInv'
  <2>1. request[r].pc \in {"storing", "buffering"}
    BY <1>6 DEF Posting, Stored, StoreFails, Buffers
  <2>2. drain = "none"
    BY <1>1, <2>1, OnItsWay DEF DrainIsLast
  <2> QED BY <1>1, <1>2, <1>6, <2>2, PostingKeeps
<1>7. ASSUME NEW r \in Requests, NEW e \in Events, Post(r, e) PROVE IngestInv'
  <2>1. PostsOK'
    BY <1>1, <1>7, PostKeeps
  <2>2. UNCHANGED <<sessionVars, queue, task, drain>> /\ drain = "none"
    BY <1>7 DEF Post, stageVars
  <2>3. StageOK'
    BY <1>1, <2>2, StageRests
  <2> QED BY <1>2, <2>1, <2>2, <2>3
<1>8. CASE ChildExits
  <2>1. PostsOK' /\ StageOK' /\ UNCHANGED <<drain, request>>
    BY <1>1, <1>8, ExitKeeps, PostsRest DEF ChildExits, stageVars, ingestVars
  <2> QED BY <1>2, <2>1
<1>9. CASE Drain
  <2>1. PostsOK' /\ UNCHANGED request /\ \A r \in Requests : request[r] = NoRequest
    BY <1>1, <1>9, PostsRest DEF Drain, ingestVars
  <2>2. StageOK'
    <3>1. UNCHANGED <<sessionVars, queue, task>>
          /\ drain' = IF Active = {} /\ queue = <<>> THEN "drained" ELSE "waiting"
      BY <1>9 DEF Drain
    <3> QED BY <1>1, <3>1, StageRests
  <2> QED BY <2>1, <2>2 DEF IngestInv, DrainIsLast
<1>10. CASE DrainTimesOut
  <2>1. PostsOK' /\ UNCHANGED request /\ drain # "none"
    BY <1>1, <1>10, PostsRest DEF DrainTimesOut, ingestVars
  <2>2. StageOK'
    BY <1>1, <1>10, StageRests DEF DrainTimesOut
  <2> QED BY <1>2, <2>1, <2>2
<1>11. CASE Restart
  BY <1>1, <1>2, <1>11, RestartKeeps
<1>12. CASE UNCHANGED vars
  <2>1. UNCHANGED <<sessionVars, queue, task, drain>> /\ UNCHANGED ingestVars /\ UNCHANGED request
    BY <1>12 DEF vars, stageVars, ingestVars
  <2>2. PostsOK'
    BY <1>1, <2>1, PostsRest
  <2>3. StageOK'
    BY <1>1, <2>1, StageRests DEF StageOK, StageTyped
  <2> QED BY <1>2, <2>1, <2>2, <2>3
<1> QED BY <1>4, <1>5, <1>6, <1>7, <1>8, <1>9, <1>10, <1>11, <1>12 DEF Next

\* Dedup, the posts under way and the stage stay consistent, whatever posts,
\* resends, evictions, failures, ends of sessions and deaths interleave.
THEOREM IngestInvariant == Spec => []IngestInv
<1>1. Init => IngestInv
  BY InitKeeps
<1>2. IngestInv /\ [Next]_vars => IngestInv'
  BY StepKeeps
<1> QED BY <1>1, <1>2, PTL DEF Spec

\* Dedup turns away no event the daemon does not have or is about to have, and
\* lets none through twice before a restart or DedupMaxSize others (process(),
\* rollback() and the eviction of the dedup set).
THEOREM DedupStaysHarmless == Spec => []DedupIsHarmless
<1>1. IngestInv => DedupIsHarmless
  <2>1. SUFFICES ASSUME IngestInv PROVE DedupIsHarmless
    OBVIOUS
  <2>2. SeenIsStored
    BY <2>1 DEF IngestInv, PostsOK, DedupInv
  <2>3. ASSUME NEW e \in Events, appended[e] > 1, crashes <= 0, e \notin pushedOut PROVE FALSE
    <3>1. crashes \in Nat /\ appended[e] \in Nat
      BY <2>1, IngestAssumption DEF IngestInv, PostsOK, PostsTyped
    <3>2. crashes = 0 => Once(e)
      BY <2>1, <2>3 DEF IngestInv, PostsOK, DedupInv
    <3> QED BY <2>3, <3>1, <3>2 DEF Once
  <2>4. crashes \in Nat
    BY <2>1, IngestAssumption DEF IngestInv, PostsOK, PostsTyped
  <2> QED BY <2>2, <2>3, <2>4 DEF DedupIsHarmless, NoEarlyRepeat
<1> QED BY <1>1, IngestInvariant, PTL

\* The stage's slots, queue and drain agree, and every child that runs has a slot
\* or has been told to go (createExtractionStage() and createAcpSession()).
THEOREM StageStaysSound == Spec => []StageIsSound
<1>1. IngestInv => StageIsSound
  <2>1. SUFFICES ASSUME IngestInv PROVE StageIsSound
    OBVIOUS
  <2>2. PostsTyped /\ TriesInv /\ StageTyped /\ NoIdleSlot /\ DrainedIsIdle /\ NoOrphans
    BY <2>1 DEF IngestInv, PostsOK, StageOK
  <2>3. IsInjective(seen)
    <3>1. DOMAIN seen = 1 .. Len(seen)
      BY <2>2 DEF PostsTyped
    <3> QED BY <2>2, <3>1 DEF PostsTyped, EachOnce, IsInjective
  <2>4. appended \in [Events -> 0 .. MaxPosts]
    <3>1. ASSUME NEW e \in Events PROVE appended[e] \in 0 .. MaxPosts
      <4>1. /\ appended[e] \in Nat /\ posts \in 0 .. MaxPosts /\ MaxPosts \in Nat
            /\ IsFiniteSet(Tries(e)) /\ appended[e] + Cardinality(Tries(e)) <= posts
        BY <2>2, IngestAssumption DEF PostsTyped, TriesInv
      <4>2. Cardinality(Tries(e)) \in Nat
        BY <4>1, FS_CardinalityType
      <4> QED BY <4>1, <4>2
    <3> QED BY <2>2, <3>1 DEF PostsTyped
  <2>5. IngestTypeOK
    BY <2>2, <2>3, <2>4, Zenon DEF IngestTypeOK, PostsTyped, StageTyped, RequestRecord
  <2> QED BY <2>2, <2>5 DEF StageIsSound
<1> QED BY <1>1, IngestInvariant, PTL
===============================================================================
