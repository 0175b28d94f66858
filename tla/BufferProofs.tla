------------------------------ MODULE BufferProofs ---------------------------
(***************************************************************************)
(* Theorems about BufferPipeline and about BufferCompaction, for any       *)
(* number of projects, events, slots, crashes and deaths, any thresholds   *)
(* and any length of the answers.                                          *)
(*                                                                         *)
(* No safety property here is inductive by itself: activeCount stays a     *)
(* natural number only because a run that gives up a slot held one, which  *)
(* holds because in-flight flags, runs and the wait queue agree. IInv      *)
(* collects these facts; the properties of BufferPipeline follow from it.  *)
(*                                                                         *)
(* IInv does not carry over to BufferCompaction: its ceiling and its       *)
(* account of losses are what compaction weakens.  What carries over are   *)
(* the lemmas about semaphore, flags, watcher and breaker.                 *)
(***************************************************************************)
EXTENDS BufferCompaction, SequenceTheorems, FiniteSetTheorems, TLAPS

PipelineType ==
  /\ activeCount \in Nat
  /\ waitQueue \in Seq(Projects)
  /\ phase \in [Projects -> Phase]
  /\ snapshot \in [Projects -> SUBSET Events]
  /\ anyCommitted \in [Projects -> BOOLEAN]

Slots == PipelineType /\ SlotsAccounted

-----------------------------------------------------------------------------
(* The semaphore. *)

\* Acquiring a slot, or a place in the queue, for a project without a run.
LEMMA AcquirePreservesSlots ==
  ASSUME NEW p \in Projects, Slots, phase[p] = "none", AcquireSemaphore(p)
  PROVE  /\ Slots'
         /\ phase'[p] \in {"waiting", "granted"}
         /\ phase'[p] = "granted" => waitQueue = <<>>
         /\ \A q \in Projects \ {p} : phase'[q] = phase[q]
<1> USE ThresholdAssumption
<1>f. /\ IsFiniteSet(SlotHolders)
      /\ p \notin SlotHolders
  <2>1. SlotHolders \subseteq Projects
    BY DEF SlotHolders
  <2> QED BY <2>1, FS_Subset, ProjectsAssumption DEF SlotHolders, HoldsSlot
<1>t. UNCHANGED <<snapshot, anyCommitted>>
  BY DEF AcquireSemaphore
<1>1. CASE /\ activeCount < ExtractionConcurrency
           /\ activeCount' = activeCount + 1
           /\ phase' = [phase EXCEPT ![p] = "granted"]
           /\ UNCHANGED waitQueue
  <2>1. PipelineType'
    BY <1>1, <1>t DEF Slots, PipelineType, Phase
  <2>2. /\ phase'[p] = "granted"
        /\ \A q \in Projects \ {p} : phase'[q] = phase[q]
    BY <1>1 DEF Slots, PipelineType
  <2>3. SlotHolders' = SlotHolders \cup {p}
    BY <2>2 DEF SlotHolders, HoldsSlot
  <2>4. activeCount' = Cardinality(SlotHolders')
    BY <1>1, <1>f, <2>3, FS_AddElement DEF Slots, SlotsAccounted
  <2>5. \A q \in Projects :
           phase'[q] = "waiting" <=> phase[q] = "waiting"
    BY <2>2
  <2>6. waitQueue = <<>>
    BY <1>1 DEF Slots, SlotsAccounted, PipelineType
  <2>7. SlotsAccounted'
    BY <1>1, <2>4, <2>5, <2>6 DEF Slots, SlotsAccounted, PipelineType
  <2> QED BY <2>1, <2>2, <2>6, <2>7 DEF Slots
<1>2. CASE /\ activeCount >= ExtractionConcurrency
           /\ waitQueue' = Append(waitQueue, p)
           /\ phase' = [phase EXCEPT ![p] = "waiting"]
           /\ UNCHANGED activeCount
  <2>1. /\ waitQueue' \in Seq(Projects)
        /\ Len(waitQueue') = Len(waitQueue) + 1
        /\ DOMAIN waitQueue' = 1 .. Len(waitQueue) + 1
        /\ DOMAIN waitQueue = 1 .. Len(waitQueue)
        /\ Len(waitQueue) \in Nat
        /\ \A i \in 1 .. Len(waitQueue) : waitQueue'[i] = waitQueue[i]
        /\ waitQueue'[Len(waitQueue) + 1] = p
    BY <1>2 DEF Slots, PipelineType
  <2>2. PipelineType'
    BY <1>2, <1>t, <2>1 DEF Slots, PipelineType, Phase
  <2>3. /\ phase'[p] = "waiting"
        /\ \A q \in Projects \ {p} : phase'[q] = phase[q]
    BY <1>2 DEF Slots, PipelineType
  <2>4. SlotHolders' = SlotHolders
    BY <2>3 DEF SlotHolders, HoldsSlot
  <2>5. \A i \in 1 .. Len(waitQueue) : waitQueue[i] # p
    BY <2>1 DEF Slots, SlotsAccounted
  <2>6. \A i, j \in DOMAIN waitQueue' : waitQueue'[i] = waitQueue'[j] => i = j
    BY <2>1, <2>5 DEF Slots, SlotsAccounted
  <2>7. ASSUME NEW q \in Projects
        PROVE  phase'[q] = "waiting"
                 <=> \E i \in DOMAIN waitQueue' : waitQueue'[i] = q
    <3>1. CASE q = p
      BY <3>1, <2>1, <2>3
    <3>2. CASE q # p
      <4>1. phase[q] = "waiting"
              <=> \E i \in 1 .. Len(waitQueue) : waitQueue[i] = q
        BY <2>1 DEF Slots, SlotsAccounted
      <4> QED BY <3>2, <4>1, <2>1, <2>3
    <3> QED BY <3>1, <3>2
  <2>8. SlotsAccounted'
    BY <1>2, <2>4, <2>6, <2>7 DEF Slots, SlotsAccounted, PipelineType
  <2> QED BY <2>2, <2>3, <2>8 DEF Slots
<1> QED BY <1>1, <1>2 DEF AcquireSemaphore

\* Giving up a slot: it is returned, or passed to the oldest waiter.
LEMMA ReleasePreservesSlots ==
  ASSUME NEW p \in Projects, Slots, HoldsSlot(p), ReleaseSemaphore(p)
  PROVE  /\ Slots'
         /\ phase'[p] = "none"
         /\ \A q \in Projects \ {p} :
              \/ phase'[q] = phase[q]
              \/ phase[q] = "waiting" /\ phase'[q] = "granted"
<1> USE ThresholdAssumption
<1>f. /\ IsFiniteSet(SlotHolders)
      /\ p \in SlotHolders
  <2>1. SlotHolders \subseteq Projects
    BY DEF SlotHolders
  <2> QED BY <2>1, FS_Subset, ProjectsAssumption DEF SlotHolders
<1>t. /\ snapshot' \in [Projects -> SUBSET Events]
      /\ anyCommitted' \in [Projects -> BOOLEAN]
  BY DEF ReleaseSemaphore, Slots, PipelineType
<1>1. CASE /\ waitQueue # <<>>
           /\ waitQueue' = Tail(waitQueue)
           /\ phase' = [phase EXCEPT ![p] = "none", ![Head(waitQueue)] = "granted"]
           /\ UNCHANGED activeCount
  <2> DEFINE h == Head(waitQueue)
  <2>1. /\ h \in Projects
        /\ Len(waitQueue) \in Nat \ {0}
        /\ h = waitQueue[1]
        /\ DOMAIN waitQueue = 1 .. Len(waitQueue)
        /\ waitQueue' \in Seq(Projects)
        /\ DOMAIN waitQueue' = 1 .. Len(waitQueue) - 1
        /\ \A i \in 1 .. Len(waitQueue) - 1 : waitQueue'[i] = waitQueue[i + 1]
    BY <1>1, HeadTailProperties, EmptySeq, LenProperties DEF Slots, PipelineType
  <2>2. phase[h] = "waiting"
    BY <2>1 DEF Slots, SlotsAccounted
  <2>3. h # p
    BY <2>2 DEF HoldsSlot
  <2>4. /\ phase' \in [Projects -> Phase]
        /\ phase'[p] = "none"
        /\ phase'[h] = "granted"
        /\ \A q \in Projects \ {p, h} : phase'[q] = phase[q]
    BY <1>1, <2>1, <2>3 DEF Slots, PipelineType, Phase
  <2> HIDE DEF h
  <2>5. SlotHolders' = (SlotHolders \ {p}) \cup {h}
    BY <2>1, <2>3, <2>4 DEF SlotHolders, HoldsSlot
  <2>6. /\ h \notin SlotHolders \ {p}
        /\ IsFiniteSet(SlotHolders \ {p})
        /\ Cardinality(SlotHolders \ {p}) = Cardinality(SlotHolders) - 1
    BY <1>f, <2>2, FS_RemoveElement DEF SlotHolders, HoldsSlot
  <2>7. Cardinality(SlotHolders') = Cardinality(SlotHolders)
    <3>1. Cardinality(SlotHolders') = Cardinality(SlotHolders \ {p}) + 1
      BY <2>5, <2>6, FS_AddElement
    <3>2. Cardinality(SlotHolders) \in Nat
      BY <1>f, FS_CardinalityType
    <3> QED BY <3>1, <3>2, <2>6
  <2>8. ASSUME NEW i \in DOMAIN waitQueue', NEW j \in DOMAIN waitQueue',
               waitQueue'[i] = waitQueue'[j]
        PROVE  i = j
    <3>1. i + 1 \in DOMAIN waitQueue /\ j + 1 \in DOMAIN waitQueue
      BY <2>1
    <3>2. waitQueue[i + 1] = waitQueue[j + 1]
      BY <2>1, <2>8
    <3>3. i + 1 = j + 1
      BY <3>1, <3>2 DEF Slots, SlotsAccounted
    <3> QED BY <3>3, <2>1
  <2>9. ASSUME NEW q \in Projects
        PROVE  phase'[q] = "waiting"
                 <=> \E i \in DOMAIN waitQueue' : waitQueue'[i] = q
    <3>1. CASE q = h
      <4>1. \A i \in 1 .. Len(waitQueue) - 1 : waitQueue[i + 1] # waitQueue[1]
        BY <2>1 DEF Slots, SlotsAccounted
      <4> QED BY <3>1, <4>1, <2>1, <2>4
    <3>2. CASE q = p
      <4>1. \A i \in 1 .. Len(waitQueue) : waitQueue[i] # p
        BY <2>1 DEF Slots, SlotsAccounted, HoldsSlot
      <4> QED BY <3>2, <4>1, <2>1, <2>4
    <3>3. CASE q # h /\ q # p
      <4>1. phase[q] = "waiting"
              <=> \E i \in 1 .. Len(waitQueue) : waitQueue[i] = q
        BY <2>1 DEF Slots, SlotsAccounted
      <4>2. ASSUME NEW i \in 1 .. Len(waitQueue), waitQueue[i] = q
            PROVE  \E j \in DOMAIN waitQueue' : waitQueue'[j] = q
        <5>1. i - 1 \in 1 .. Len(waitQueue) - 1 /\ (i - 1) + 1 = i
          BY <4>2, <3>3, <2>1
        <5> QED BY <5>1, <4>2, <2>1
      <4>3. ASSUME NEW i \in DOMAIN waitQueue', waitQueue'[i] = q
            PROVE  \E j \in 1 .. Len(waitQueue) : waitQueue[j] = q
        <5>1. i + 1 \in 1 .. Len(waitQueue)
          BY <2>1
        <5> QED BY <5>1, <4>3, <2>1
      <4> QED BY <3>3, <4>1, <4>2, <4>3, <2>4
    <3> QED BY <3>1, <3>2, <3>3
  <2>10. Slots'
    BY <1>1, <1>t, <2>1, <2>4, <2>7, <2>8, <2>9
    DEF Slots, SlotsAccounted, PipelineType
  <2> QED BY <2>1, <2>2, <2>4, <2>10
<1>2. CASE /\ waitQueue = <<>>
           /\ phase' = [phase EXCEPT ![p] = "none"]
           /\ activeCount' = activeCount - 1
           /\ UNCHANGED waitQueue
  <2>1. /\ phase' \in [Projects -> Phase]
        /\ phase'[p] = "none"
        /\ \A q \in Projects \ {p} : phase'[q] = phase[q]
    BY <1>2 DEF Slots, PipelineType, Phase
  <2>2. SlotHolders' = SlotHolders \ {p}
    BY <2>1 DEF SlotHolders, HoldsSlot
  <2>3. /\ Cardinality(SlotHolders') = Cardinality(SlotHolders) - 1
        /\ Cardinality(SlotHolders') \in Nat
    BY <1>f, <2>2, FS_RemoveElement, FS_CardinalityType
  <2>4. activeCount' \in Nat /\ activeCount' <= ExtractionConcurrency
    BY <1>2, <2>3 DEF Slots, PipelineType, SlotsAccounted
  <2>5. \A q \in Projects :
           phase'[q] = "waiting" <=> phase[q] = "waiting" /\ q # p
    BY <2>1
  <2>6. phase[p] # "waiting"
    BY DEF HoldsSlot
  <2>7. Slots'
    BY <1>2, <1>t, <2>1, <2>3, <2>4, <2>5, <2>6
    DEF Slots, SlotsAccounted, PipelineType
  <2> QED BY <2>1, <2>7
<1> QED BY <1>1, <1>2 DEF ReleaseSemaphore

-----------------------------------------------------------------------------
(* Flags and runs. *)

FlagsAndSlots ==
  /\ Slots
  /\ extractionInFlight \in [Projects -> BOOLEAN]
  /\ InFlightMatchesRun

\* The extraction trigger, whether it fires or is suppressed.
LEMMA FirePreservesFlags ==
  ASSUME NEW p \in Projects, FlagsAndSlots, FireExtraction(p)
  PROVE  /\ FlagsAndSlots'
         /\ CanFire(p) => extractionInFlight'[p]
         /\ extractionInFlight[p] => extractionInFlight'[p]
         /\ UNCHANGED <<snapshot, anyCommitted>>
         /\ ~CanFire(p) => phase'[p] = phase[p]
         /\ \/ phase'[p] = phase[p]
            \/ phase[p] = "none" /\ phase'[p] \in {"waiting", "granted"}
         /\ \A q \in Projects \ {p} :
              /\ extractionInFlight'[q] = extractionInFlight[q]
              /\ phase'[q] = phase[q]
<1>1. CASE /\ CanFire(p)
           /\ extractionInFlight' = [extractionInFlight EXCEPT ![p] = TRUE]
           /\ AcquireSemaphore(p)
  <2>1. phase[p] = "none"
    BY <1>1 DEF CanFire, FlagsAndSlots, InFlightMatchesRun
  <2>2. /\ Slots'
        /\ phase'[p] \in {"waiting", "granted"}
        /\ \A q \in Projects \ {p} : phase'[q] = phase[q]
        /\ UNCHANGED <<snapshot, anyCommitted>>
    BY <1>1, <2>1, AcquirePreservesSlots DEF FlagsAndSlots, AcquireSemaphore
  <2>3. /\ extractionInFlight' \in [Projects -> BOOLEAN]
        /\ extractionInFlight'[p]
        /\ \A q \in Projects \ {p} : extractionInFlight'[q] = extractionInFlight[q]
    BY <1>1 DEF FlagsAndSlots
  <2>4. InFlightMatchesRun'
    BY <2>2, <2>3 DEF FlagsAndSlots, InFlightMatchesRun
  <2> QED BY <1>1, <2>1, <2>2, <2>3, <2>4 DEF FlagsAndSlots
<1>2. CASE ~CanFire(p) /\ UNCHANGED <<extractionInFlight, pipeline>>
  BY <1>2 DEF FlagsAndSlots, Slots, PipelineType, SlotsAccounted, SlotHolders,
              HoldsSlot, InFlightMatchesRun, pipeline
<1> QED BY <1>1, <1>2 DEF FireExtraction

\* The end of a run, with either result.
LEMMA FinishPreservesFlags ==
  ASSUME NEW p \in Projects, FlagsAndSlots, HoldsSlot(p), ReleaseSemaphore(p),
         extractionInFlight' = [extractionInFlight EXCEPT ![p] = FALSE]
  PROVE  /\ FlagsAndSlots'
         /\ ~extractionInFlight'[p]
         /\ phase'[p] = "none"
         /\ \A q \in Projects \ {p} :
              /\ extractionInFlight'[q] = extractionInFlight[q]
              /\ \/ phase'[q] = phase[q]
                 \/ phase[q] = "waiting" /\ phase'[q] = "granted"
<1>1. /\ Slots'
      /\ phase'[p] = "none"
      /\ \A q \in Projects \ {p} :
           \/ phase'[q] = phase[q]
           \/ phase[q] = "waiting" /\ phase'[q] = "granted"
  BY ReleasePreservesSlots DEF FlagsAndSlots
<1>2. /\ extractionInFlight' \in [Projects -> BOOLEAN]
      /\ ~extractionInFlight'[p]
      /\ \A q \in Projects \ {p} : extractionInFlight'[q] = extractionInFlight[q]
  BY DEF FlagsAndSlots
<1>3. InFlightMatchesRun'
  BY <1>1, <1>2 DEF FlagsAndSlots, InFlightMatchesRun
<1> QED BY <1>1, <1>2, <1>3 DEF FlagsAndSlots

\* A run moves on without giving up its slot.
LEMMA PhaseChangePreservesFlags ==
  ASSUME NEW p \in Projects, FlagsAndSlots, HoldsSlot(p),
         NEW ph \in {"extracting", "reconciling"},
         phase' = [phase EXCEPT ![p] = ph],
         snapshot' \in [Projects -> SUBSET Events],
         UNCHANGED <<activeCount, waitQueue, anyCommitted, extractionInFlight>>
  PROVE  FlagsAndSlots'
<1>1. /\ phase' \in [Projects -> Phase]
      /\ phase'[p] = ph
      /\ \A q \in Projects \ {p} : phase'[q] = phase[q]
  BY DEF FlagsAndSlots, Slots, PipelineType, Phase
<1>2. SlotHolders' = SlotHolders
  BY <1>1 DEF SlotHolders, HoldsSlot
<1>3. \A q \in Projects : phase'[q] = "waiting" <=> phase[q] = "waiting"
  BY <1>1 DEF HoldsSlot
<1>4. \A q \in Projects : phase'[q] = "none" <=> phase[q] = "none"
  BY <1>1 DEF HoldsSlot
<1>5. SlotsAccounted'
  BY <1>2, <1>3 DEF FlagsAndSlots, Slots, SlotsAccounted
<1>6. PipelineType'
  BY <1>1 DEF FlagsAndSlots, Slots, PipelineType
<1> QED BY <1>4, <1>5, <1>6 DEF FlagsAndSlots, Slots, InFlightMatchesRun

\* The death of the daemon empties everything it held in memory.
LEMMA GoDownResets ==
  ASSUME GoDown, crashes \in Nat
  PROVE  /\ FlagsAndSlots'
         /\ bytes' \in [Projects -> Nat]
         /\ idleTimer' \in [Projects -> BOOLEAN]
         /\ consecutiveFailures' \in [Projects -> Nat]
         /\ extractionDisabled' \in [Projects -> BOOLEAN]
         /\ mode' = "down" /\ toArm' = {} /\ crashes' \in Nat
         /\ \A q \in Projects :
              /\ bytes'[q] = 0
              /\ ~idleTimer'[q]
              /\ ~extractionInFlight'[q]
              /\ consecutiveFailures'[q] = 0
              /\ ~extractionDisabled'[q]
              /\ phase'[q] = "none"
              /\ ~anyCommitted'[q]
<1>1. /\ activeCount' = 0
      /\ waitQueue' = <<>>
      /\ \A q \in Projects : phase'[q] = "none"
  BY DEF GoDown
<1>2. SlotHolders' = {}
  BY <1>1 DEF SlotHolders, HoldsSlot
<1>3. SlotsAccounted'
  BY <1>1, <1>2, FS_EmptySet, ThresholdAssumption DEF SlotsAccounted
<1>4. PipelineType'
  BY <1>1 DEF GoDown, PipelineType, Phase
<1>5. InFlightMatchesRun' /\ extractionInFlight' \in [Projects -> BOOLEAN]
  BY <1>1 DEF GoDown, InFlightMatchesRun
<1> QED BY <1>3, <1>4, <1>5, <1>1 DEF GoDown, FlagsAndSlots, Slots

-----------------------------------------------------------------------------
(* The inductive invariant. *)

\* Memory is empty while the daemon is down, and a project that the start-up
\* scan has yet to visit still has its initial watcher state.
FreshUntilArmed ==
  /\ toArm # {} => mode = "arming"
  /\ \A p \in Projects :
       mode = "down" \/ p \in toArm =>
         /\ bytes[p] = 0
         /\ ~idleTimer[p]
         /\ ~extractionInFlight[p]
         /\ consecutiveFailures[p] = 0

\* Once the start-up scan has read the size of a file, the fragments the counter
\* does not know of are those of appends that failed since.
UnseenAreFailed ==
  \A p \in Projects :
    mode = "up" \/ (mode = "arming" /\ p \notin toArm) =>
      fragments[p].unseen <= fragments[p].failed

WatcherInv ==
  /\ FreshUntilArmed
  /\ BytesMatchFile
  /\ HardCeiling
  /\ UnseenAreFailed
  /\ BreakerStops
  /\ NothingForgotten

\* What is in the file of a running project is in the run's snapshot or came
\* later; once a cluster has committed, the snapshot counts as processed.
SnapshotCovers ==
  \A p \in Projects :
    /\ HoldsSnapshot(p) => Contents(lines[p]) \subseteq snapshot[p] \cup late
    /\ anyCommitted[p] => phase[p] = "reconciling" /\ snapshot[p] \subseteq processed

IInv ==
  /\ TypeOK
  /\ InFlightMatchesRun
  /\ SlotsAccounted
  /\ WatcherInv
  /\ SnapshotCovers
  /\ NoLossOutsideRuns

LEMMA TypeGivesFlags ==
  TypeOK /\ InFlightMatchesRun /\ SlotsAccounted => FlagsAndSlots
BY DEF TypeOK, FlagsAndSlots, Slots, PipelineType

\* A new line adds its events, and nothing else changes.
LEMMA AppendContents ==
  ASSUME NEW S, NEW file \in Seq(SUBSET S), NEW line \in SUBSET S
  PROVE  /\ Append(file, line) \in Seq(SUBSET S)
         /\ Len(Append(file, line)) = Len(file) + 1
         /\ Append(file, line) # <<>>
         /\ Contents(Append(file, line)) = Contents(file) \cup line
<1>1. /\ DOMAIN file = 1 .. Len(file)
      /\ Len(file) \in Nat
      /\ DOMAIN Append(file, line) = 1 .. Len(file) + 1
      /\ \A i \in 1 .. Len(file) : Append(file, line)[i] = file[i]
      /\ Append(file, line)[Len(file) + 1] = line
      /\ Append(file, line) \in Seq(SUBSET S)
      /\ Len(Append(file, line)) = Len(file) + 1
  OBVIOUS
<1>2. ASSUME NEW e
      PROVE  e \in Contents(Append(file, line)) <=> e \in Contents(file) \cup line
  <2>1. ASSUME e \in Contents(Append(file, line))
        PROVE  e \in Contents(file) \cup line
    <3>1. PICK i \in 1 .. Len(file) + 1 : e \in Append(file, line)[i]
      BY <2>1, <1>1 DEF Contents
    <3>2. CASE i = Len(file) + 1
      BY <3>1, <3>2, <1>1
    <3>3. CASE i # Len(file) + 1
      <4>1. i \in 1 .. Len(file)
        BY <3>3, <1>1
      <4> QED BY <4>1, <3>1, <1>1 DEF Contents
    <3> QED BY <3>2, <3>3
  <2>2. ASSUME e \in Contents(file)
        PROVE  e \in Contents(Append(file, line))
    <3>1. PICK i \in 1 .. Len(file) : e \in file[i]
      BY <2>2, <1>1 DEF Contents
    <3>2. i \in 1 .. Len(file) + 1 /\ Append(file, line)[i] = file[i]
      BY <1>1
    <3> QED BY <3>1, <3>2, <1>1 DEF Contents
  <2>3. ASSUME e \in line
        PROVE  e \in Contents(Append(file, line))
    <3>1. Len(file) + 1 \in 1 .. Len(file) + 1
      BY <1>1
    <3> QED BY <3>1, <2>3, <1>1 DEF Contents
  <2> QED BY <2>1, <2>2, <2>3
<1>3. Append(file, line) # <<>>
  BY <1>1
<1> QED BY <1>1, <1>2, <1>3

LEMMA ContentsType ==
  ASSUME NEW S, NEW file \in Seq(SUBSET S)
  PROVE  Contents(file) \in SUBSET S
<1>1. \A i \in DOMAIN file : file[i] \in SUBSET S
  OBVIOUS
<1> QED BY <1>1 DEF Contents

LEMMA EmptyContents == Contents(<<>>) = {}
BY DEF Contents

-----------------------------------------------------------------------------
(* What the watcher's three notifications do. *)

WatcherType ==
  /\ bytes \in [Projects -> Nat]
  /\ idleTimer \in [Projects -> BOOLEAN]
  /\ consecutiveFailures \in [Projects -> Nat]
  /\ extractionDisabled \in [Projects -> BOOLEAN]

LEMMA NotifyAppendEffect ==
  ASSUME NEW p \in Projects, NEW n \in Nat, FlagsAndSlots, WatcherType,
         BreakerStops, NotifyAppend(p, n)
  PROVE  /\ FlagsAndSlots' /\ WatcherType' /\ BreakerStops'
         /\ bytes' = [bytes EXCEPT ![p] = @ + n]
         /\ idleTimer' = [idleTimer EXCEPT ![p] = TRUE]
         /\ extractionInFlight[p] => extractionInFlight'[p]
         /\ \/ phase'[p] = phase[p]
            \/ phase[p] = "none" /\ phase'[p] \in {"waiting", "granted"}
         /\ \A q \in Projects \ {p} :
              extractionInFlight'[q] = extractionInFlight[q] /\ phase'[q] = phase[q]
         /\ UNCHANGED <<consecutiveFailures, extractionDisabled, snapshot, anyCommitted>>
<1>1. /\ bytes' = [bytes EXCEPT ![p] = @ + n]
      /\ idleTimer' = [idleTimer EXCEPT ![p] = TRUE]
      /\ UNCHANGED <<consecutiveFailures, extractionDisabled>>
  BY DEF NotifyAppend
<1>2. WatcherType'
  BY <1>1 DEF WatcherType
<1>3. CASE FireExtraction(p)
  <2>1. /\ FlagsAndSlots'
        /\ extractionInFlight[p] => extractionInFlight'[p]
        /\ UNCHANGED <<snapshot, anyCommitted>>
        /\ ~CanFire(p) => phase'[p] = phase[p]
        /\ \/ phase'[p] = phase[p]
           \/ phase[p] = "none" /\ phase'[p] \in {"waiting", "granted"}
        /\ \A q \in Projects \ {p} :
             extractionInFlight'[q] = extractionInFlight[q] /\ phase'[q] = phase[q]
    BY <1>3, FirePreservesFlags
  <2>2. BreakerStops'
    BY <1>1, <2>1 DEF BreakerStops, CanFire
  <2> QED BY <1>1, <1>2, <2>1, <2>2
<1>4. CASE UNCHANGED <<extractionInFlight, pipeline>>
  BY <1>1, <1>2, <1>4
  DEF FlagsAndSlots, Slots, PipelineType, SlotsAccounted, SlotHolders, HoldsSlot,
      InFlightMatchesRun, BreakerStops, pipeline
<1> QED BY <1>3, <1>4 DEF NotifyAppend

LEMMA FinishSuccessEffect ==
  ASSUME NEW p \in Projects, FlagsAndSlots, WatcherType, BreakerStops,
         lines \in [Projects -> Seq(SUBSET Events)], fragments \in [Projects -> Fragments],
         HoldsSlot(p), FinishSuccess(p)
  PROVE  /\ FlagsAndSlots' /\ WatcherType' /\ BreakerStops'
         /\ lines' = [lines EXCEPT ![p] = <<>>]
         /\ fragments' = [fragments EXCEPT ![p] = NoFragments]
         /\ bytes' = [bytes EXCEPT ![p] = 0]
         /\ consecutiveFailures' = [consecutiveFailures EXCEPT ![p] = 0]
         /\ UNCHANGED idleTimer
         /\ phase'[p] = "none"
         /\ snapshot' = [snapshot EXCEPT ![p] = {}]
         /\ anyCommitted' = [anyCommitted EXCEPT ![p] = FALSE]
         /\ \A q \in Projects \ {p} :
              /\ extractionInFlight'[q] = extractionInFlight[q]
              /\ \/ phase'[q] = phase[q]
                 \/ phase[q] = "waiting" /\ phase'[q] = "granted"
<1>1. /\ lines' = [lines EXCEPT ![p] = <<>>]
      /\ fragments' = [fragments EXCEPT ![p] = NoFragments]
      /\ bytes' = [bytes EXCEPT ![p] = 0]
      /\ consecutiveFailures' = [consecutiveFailures EXCEPT ![p] = 0]
      /\ extractionDisabled' = [extractionDisabled EXCEPT ![p] = FALSE]
      /\ extractionInFlight' = [extractionInFlight EXCEPT ![p] = FALSE]
      /\ UNCHANGED idleTimer
      /\ ReleaseSemaphore(p)
      /\ snapshot' = [snapshot EXCEPT ![p] = {}]
      /\ anyCommitted' = [anyCommitted EXCEPT ![p] = FALSE]
  BY DEF FinishSuccess, ClearFile, NotifySuccess, ReleaseSemaphore
<1>2. /\ FlagsAndSlots'
      /\ phase'[p] = "none"
      /\ \A q \in Projects \ {p} :
           /\ extractionInFlight'[q] = extractionInFlight[q]
           /\ \/ phase'[q] = phase[q]
              \/ phase[q] = "waiting" /\ phase'[q] = "granted"
  BY <1>1, FinishPreservesFlags
<1>3. WatcherType'
  BY <1>1 DEF WatcherType
<1>4. ASSUME NEW q \in Projects
      PROVE  /\ extractionDisabled'[q]
                  <=> consecutiveFailures'[q] >= MaxConsecutiveFailures
             /\ extractionDisabled'[q] => phase'[q] = "none"
  <2>1. CASE q = p
    BY <1>1, <1>2, <2>1, ThresholdAssumption DEF WatcherType
  <2>2. CASE q # p
    BY <1>1, <1>2, <2>2 DEF WatcherType, BreakerStops
  <2> QED BY <2>1, <2>2
<1> QED BY <1>1, <1>2, <1>3, <1>4 DEF BreakerStops

LEMMA FinishFailureEffect ==
  ASSUME NEW p \in Projects, FlagsAndSlots, WatcherType, BreakerStops,
         HoldsSlot(p), FinishFailure(p)
  PROVE  /\ FlagsAndSlots' /\ WatcherType' /\ BreakerStops'
         /\ UNCHANGED <<lines, fragments, bytes, idleTimer>>
         /\ consecutiveFailures' = [consecutiveFailures EXCEPT ![p] = @ + 1]
         /\ phase'[p] = "none"
         /\ snapshot' = [snapshot EXCEPT ![p] = {}]
         /\ anyCommitted' = [anyCommitted EXCEPT ![p] = FALSE]
         /\ \A q \in Projects \ {p} :
              /\ extractionInFlight'[q] = extractionInFlight[q]
              /\ \/ phase'[q] = phase[q]
                 \/ phase[q] = "waiting" /\ phase'[q] = "granted"
<1>1. /\ UNCHANGED <<lines, fragments, bytes, idleTimer>>
      /\ consecutiveFailures' = [consecutiveFailures EXCEPT ![p] = @ + 1]
      /\ extractionDisabled' = [extractionDisabled EXCEPT
           ![p] = @ \/ consecutiveFailures[p] + 1 >= MaxConsecutiveFailures]
      /\ extractionInFlight' = [extractionInFlight EXCEPT ![p] = FALSE]
      /\ ReleaseSemaphore(p)
      /\ snapshot' = [snapshot EXCEPT ![p] = {}]
      /\ anyCommitted' = [anyCommitted EXCEPT ![p] = FALSE]
  BY DEF FinishFailure, NotifyFailure, ReleaseSemaphore
<1>2. /\ FlagsAndSlots'
      /\ phase'[p] = "none"
      /\ \A q \in Projects \ {p} :
           /\ extractionInFlight'[q] = extractionInFlight[q]
           /\ \/ phase'[q] = phase[q]
              \/ phase[q] = "waiting" /\ phase'[q] = "granted"
  BY <1>1, FinishPreservesFlags
<1>3. WatcherType'
  <2>1. \A q \in Projects : extractionDisabled'[q] \in BOOLEAN
    BY <1>1 DEF WatcherType
  <2> QED BY <1>1, <2>1 DEF WatcherType
<1>4. ASSUME NEW q \in Projects
      PROVE  /\ extractionDisabled'[q]
                  <=> consecutiveFailures'[q] >= MaxConsecutiveFailures
             /\ extractionDisabled'[q] => phase'[q] = "none"
  <2>1. CASE q = p
    <3>1. ~extractionDisabled[p]
      BY DEF BreakerStops, HoldsSlot
    <3> QED BY <1>1, <1>2, <2>1, <3>1 DEF WatcherType
  <2>2. CASE q # p
    BY <1>1, <1>2, <2>2 DEF WatcherType, BreakerStops
  <2> QED BY <2>1, <2>2
<1> QED BY <1>1, <1>2, <1>3, <1>4 DEF BreakerStops

-----------------------------------------------------------------------------
(* The invariant holds initially, and every step preserves it. *)

LEMMA IInvInit == Init => IInv
<1> SUFFICES ASSUME Init PROVE IInv
  OBVIOUS
<1>1. TypeOK
  BY DEF Init, TypeOK, Phase, Fragments, NoFragments
<1>2. InFlightMatchesRun
  BY DEF Init, InFlightMatchesRun
<1>3. SlotsAccounted
  <2>1. SlotHolders = {}
    BY DEF Init, SlotHolders, HoldsSlot
  <2> QED BY <2>1, FS_EmptySet, ThresholdAssumption DEF Init, SlotsAccounted
<1>4. WatcherInv
  BY ThresholdAssumption
  DEF Init, WatcherInv, FreshUntilArmed, BytesMatchFile, HardCeiling, UnseenAreFailed,
      FileSize, NoFragments, BreakerStops, NothingForgotten
<1>5. SnapshotCovers /\ NoLossOutsideRuns
  BY DEF Init, SnapshotCovers, HoldsSnapshot, NoLossOutsideRuns
<1> QED BY <1>1, <1>2, <1>3, <1>4, <1>5 DEF IInv

\* The facts every step starts from.
LEMMA IInvFacts ==
  IInv => /\ FlagsAndSlots /\ WatcherType /\ BreakerStops
          /\ lines \in [Projects -> Seq(SUBSET Events)]
          /\ fragments \in [Projects -> Fragments]
BY TypeGivesFlags DEF IInv, WatcherInv, WatcherType, TypeOK

(***************************************************************************)
(* A file and its counter. Sized gives the ranges; Measured is what        *)
(* BytesMatchFile and UnseenAreFailed say of a project that is armed,      *)
(* Within what HardCeiling says of it.                                     *)
(***************************************************************************)
Sized(p) ==
  /\ Len(lines[p]) \in Nat /\ bytes[p] \in Nat /\ fragments[p].units \in Nat
  /\ fragments[p].unseen \in Nat /\ fragments[p].failed \in Nat

Measured(p) ==
  /\ bytes[p] + fragments[p].unseen = FileSize(p)
  /\ fragments[p].unseen <= fragments[p].failed

Within(p) == FileSize(p) <= BufferMaxBytes + fragments[p].failed

\* The gate lets one unit more into a file that is measured.
LEMMA RoomForOne ==
  ASSUME NEW counted \in Nat, NEW unseen \in Nat, NEW failed \in Nat, NEW max \in Nat,
         counted + 1 <= max, unseen <= failed
  PROVE  (counted + unseen) + 1 <= max + failed
OBVIOUS

LEMMA SizesTyped ==
  ASSUME IInv, NEW p \in Projects
  PROVE  Sized(p) /\ Within(p)
<1>1. Len(lines[p]) \in Nat /\ bytes[p] \in Nat /\ fragments[p] \in Fragments
  <2>1. PICK file \in Seq(SUBSET Events) : file = lines[p]
    BY IInvFacts
  <2> QED BY <2>1, IInvFacts DEF WatcherType
<1>2. Sized(p)
  BY <1>1 DEF Sized, Fragments
<1> QED BY <1>2 DEF IInv, WatcherInv, HardCeiling, Within

LEMMA IInvMeasures ==
  ASSUME IInv, mode = "up"
  PROVE  \A p \in Projects : Sized(p) /\ Measured(p) /\ Within(p)
BY SizesTyped DEF IInv, WatcherInv, BytesMatchFile, UnseenAreFailed, Measured

LEMMA MeasuresSuffice ==
  ASSUME \A p \in Projects : Measured(p)' /\ Within(p)'
  PROVE  BytesMatchFile' /\ HardCeiling' /\ UnseenAreFailed'
BY DEF Measured, Within, BytesMatchFile, HardCeiling, UnseenAreFailed

\* A fragment is one unit more in the file, unknown to the counter.
LEMMA FragmentEffect ==
  ASSUME IInv, NEW p \in Projects, NEW failed \in Nat, AppendFragment(p, failed)
  PROVE  /\ fragments' \in [Projects -> Fragments]
         /\ fragments'[p].units = fragments[p].units + 1
         /\ fragments'[p].unseen = fragments[p].unseen + 1
         /\ fragments'[p].failed = fragments[p].failed + failed
         /\ \A q \in Projects \ {p} : fragments'[q] = fragments[q]
         /\ UNCHANGED lines
<1>1. fragments \in [Projects -> Fragments]
  BY IInvFacts
<1>2. /\ fragments' = [fragments EXCEPT
           ![p] = [open |-> TRUE, units |-> fragments[p].units + 1,
                   unseen |-> fragments[p].unseen + 1, failed |-> fragments[p].failed + failed]]
      /\ UNCHANGED lines
  BY DEF AppendFragment
<1>3. [open |-> TRUE, units |-> fragments[p].units + 1, unseen |-> fragments[p].unseen + 1,
       failed |-> fragments[p].failed + failed] \in Fragments
  BY <1>1 DEF Fragments
<1> QED BY <1>1, <1>2, <1>3

\* Posting.
LEMMA PostBufferedStep ==
  ASSUME IInv, NEW p \in Projects, NEW e \in Events, PostBuffered(p, e)
  PROVE  IInv'
<1>1. /\ lines' = [lines EXCEPT ![p] = Append(@, IF Torn(p) THEN {} ELSE {e})]
      /\ fragments' = [fragments EXCEPT ![p] = [@ EXCEPT !.open = FALSE]]
      /\ NotifyAppend(p, 1)
      /\ stored' = stored \cup {e}
      /\ buffered' = buffered \cup {e}
      /\ late' = IF HoldsSnapshot(p) THEN late \cup {e} ELSE late
      /\ glued' = IF Torn(p) THEN glued \cup {e} ELSE glued
      /\ bytes[p] + 1 <= BufferMaxBytes
      /\ mode = "up"
      /\ UNCHANGED <<processed, mode, toArm, crashes, reprocessed>>
  BY IInvFacts, ThresholdAssumption
  DEF PostBuffered, Posting, Quiescent, AppendLine, WouldExceedCeiling, process,
      WatcherType
<1>2. /\ FlagsAndSlots' /\ WatcherType' /\ BreakerStops'
      /\ bytes' = [bytes EXCEPT ![p] = @ + 1]
      /\ idleTimer' = [idleTimer EXCEPT ![p] = TRUE]
      /\ \/ phase'[p] = phase[p]
         \/ phase[p] = "none" /\ phase'[p] \in {"waiting", "granted"}
      /\ \A q \in Projects \ {p} :
           extractionInFlight'[q] = extractionInFlight[q] /\ phase'[q] = phase[q]
      /\ UNCHANGED <<consecutiveFailures, snapshot, anyCommitted>>
  BY <1>1, NotifyAppendEffect, IInvFacts
<1> DEFINE line == IF Torn(p) THEN {} ELSE {e}
<1>3. /\ line \in SUBSET Events
      /\ lines' \in [Projects -> Seq(SUBSET Events)]
      /\ lines'[p] = Append(lines[p], line)
      /\ Len(lines'[p]) = Len(lines[p]) + 1
      /\ Contents(lines'[p]) = Contents(lines[p]) \cup line
      /\ \A q \in Projects \ {p} : lines'[q] = lines[q]
  <2>1. lines[p] \in Seq(SUBSET Events) /\ line \in SUBSET Events
    BY IInvFacts
  <2>3. lines' = [lines EXCEPT ![p] = Append(lines[p], line)]
    BY <1>1, IInvFacts
  <2> HIDE DEF line
  <2>2. /\ Append(lines[p], line) \in Seq(SUBSET Events)
        /\ Len(Append(lines[p], line)) = Len(lines[p]) + 1
        /\ Contents(Append(lines[p], line)) = Contents(lines[p]) \cup line
    BY <2>1, AppendContents, SMTT(30)
  <2> QED BY <2>1, <2>2, <2>3, IInvFacts
<1>f. /\ fragments' \in [Projects -> Fragments]
      /\ \A q \in Projects : /\ fragments'[q].units = fragments[q].units
                            /\ fragments'[q].unseen = fragments[q].unseen
                            /\ fragments'[q].failed = fragments[q].failed
  BY <1>1, IInvFacts DEF Fragments
<1>4. TypeOK'
  BY <1>1, <1>2, <1>3, <1>f
  DEF IInv, TypeOK, FlagsAndSlots, Slots, PipelineType, WatcherType
<1>5. FreshUntilArmed' /\ BytesMatchFile' /\ HardCeiling' /\ UnseenAreFailed'
  <2>1. toArm = {}
    BY <1>1 DEF IInv, WatcherInv, FreshUntilArmed
  <2>2. Sized(p) /\ \A q \in Projects : Measured(q) /\ Within(q)
    BY <1>1, IInvMeasures
  <2>3. FreshUntilArmed'
    BY <1>1, <2>1 DEF FreshUntilArmed
  <2>4. \A q \in Projects : Measured(q)' /\ Within(q)'
    <3>1. Measured(p)' /\ Within(p)'
      <4>1. bytes'[p] = bytes[p] + 1
        BY <1>2, IInvFacts DEF WatcherType
      <4>2. /\ bytes[p] + 1 <= BufferMaxBytes
            /\ Len(lines'[p]) = Len(lines[p]) + 1
            /\ fragments'[p].units = fragments[p].units
            /\ fragments'[p].unseen = fragments[p].unseen
            /\ fragments'[p].failed = fragments[p].failed
        BY <1>1, <1>3, <1>f
      <4>3. Sized(p) /\ Measured(p)
        BY <2>2
      <4>4. /\ FileSize(p)' = FileSize(p) + 1
            /\ FileSize(p) \in Nat
        BY <4>2, <4>3, SMTT(60) DEF Sized, FileSize
      <4>5. Measured(p)'
        BY <4>1, <4>2, <4>3, <4>4, SMTT(60) DEF Sized, Measured
      <4>6. Within(p)'
        <5>1. /\ bytes[p] \in Nat /\ fragments[p].unseen \in Nat /\ fragments[p].failed \in Nat
              /\ BufferMaxBytes \in Nat /\ fragments[p].unseen <= fragments[p].failed
          BY <4>3, ThresholdAssumption DEF Sized, Measured
        <5>2. (bytes[p] + fragments[p].unseen) + 1 <= BufferMaxBytes + fragments[p].failed
          BY <4>2, <5>1, RoomForOne
        <5> QED BY <4>2, <4>3, <4>4, <5>2 DEF Measured, Within
      <4> QED BY <4>5, <4>6
    <3>2. ASSUME NEW q \in Projects, q # p PROVE Measured(q)' /\ Within(q)'
      <4>1. bytes'[q] = bytes[q]
        BY <1>2, <3>2, IInvFacts DEF WatcherType
      <4> QED BY <1>3, <1>f, <2>2, <3>2, <4>1 DEF Measured, Within, FileSize
    <3> QED BY <3>1, <3>2
  <2> QED BY <2>3, <2>4, MeasuresSuffice
<1>6. NothingForgotten'
  BY <1>1, <1>2, <1>3, IInvFacts DEF IInv, WatcherInv, NothingForgotten, WatcherType
<1>7. SnapshotCovers'
  <2> SUFFICES ASSUME NEW q \in Projects
               PROVE  /\ HoldsSnapshot(q)' =>
                           Contents(lines'[q]) \subseteq snapshot'[q] \cup late'
                      /\ anyCommitted'[q] =>
                           phase'[q] = "reconciling" /\ snapshot'[q] \subseteq processed'
    BY DEF SnapshotCovers
  <2>1. HoldsSnapshot(q)' => HoldsSnapshot(q)
    BY <1>2 DEF HoldsSnapshot
  <2>2. HoldsSnapshot(q) => Contents(lines[q]) \subseteq snapshot[q] \cup late
    BY DEF IInv, SnapshotCovers
  <2>3. HoldsSnapshot(q)' => Contents(lines'[q]) \subseteq snapshot'[q] \cup late'
    BY <1>1, <1>2, <1>3, <2>1, <2>2
  <2>4. anyCommitted'[q] => phase'[q] = "reconciling" /\ snapshot'[q] \subseteq processed'
    BY <1>1, <1>2 DEF IInv, SnapshotCovers
  <2> QED BY <2>3, <2>4
<1>8. NoLossOutsideRuns'
  <2> SUFFICES ASSUME NEW f \in buffered', f \notin late', f \notin glued'
               PROVE  InBuffer(f)' \/ f \in processed'
    BY DEF NoLossOutsideRuns
  <2>1. CASE f = e
    <3>1. line = {e}
      BY <1>1, <2>1
    <3> QED BY <3>1, <1>3, <2>1 DEF InBuffer
  <2>2. CASE f # e
    <3>1. InBuffer(f) \/ f \in processed
      BY <1>1, <2>2 DEF IInv, NoLossOutsideRuns
    <3>2. \A q \in Projects : Contents(lines[q]) \subseteq Contents(lines'[q])
      BY <1>3
    <3> QED BY <1>1, <3>1, <3>2 DEF InBuffer
  <2> QED BY <2>1, <2>2
<1> QED BY <1>2, <1>4, <1>5, <1>6, <1>7, <1>8
    DEF IInv, WatcherInv, FlagsAndSlots, Slots

\* A post that leaves the lines of the buffer and the watcher alone.
LEMMA PostSkippedStep ==
  ASSUME IInv, NEW p \in Projects, NEW e \in Events,
         PostSkipped(p, e) \/ PostWriteFails(p, e)
  PROVE  IInv'
<1>1. /\ stored' \in SUBSET Events
      /\ mode = "up"
      /\ UNCHANGED <<lines, processed, watcher, pipeline, process, history>>
  <2>1. stored' \in SUBSET Events /\ mode = "up"
    BY DEF PostSkipped, PostWriteFails, Posting, Quiescent, IInv, TypeOK
  <2> QED BY <2>1 DEF PostSkipped, PostWriteFails, AppendFragment
<1>2. \A q \in Projects : Sized(q) /\ Measured(q) /\ Within(q)
  BY IInvMeasures DEF PostSkipped, PostWriteFails, Posting, Quiescent
<1>3. fragments' \in [Projects -> Fragments] /\ \A q \in Projects : Measured(q)' /\ Within(q)'
  <2>1. CASE UNCHANGED fragments
    BY <1>1, <1>2, <2>1, IInvFacts DEF Measured, Within, FileSize, watcher
  <2>2. CASE AppendFragment(p, 1) /\ ~WouldExceedCeiling(p)
    <3>1. /\ fragments' \in [Projects -> Fragments]
          /\ fragments'[p].units = fragments[p].units + 1
          /\ fragments'[p].unseen = fragments[p].unseen + 1
          /\ fragments'[p].failed = fragments[p].failed + 1
          /\ \A q \in Projects \ {p} : fragments'[q] = fragments[q]
      BY <2>2, FragmentEffect
    <3>2. UNCHANGED <<lines, bytes>>
      BY <1>1 DEF watcher
    <3>3. Measured(p)' /\ Within(p)'
      <4>1. Sized(p) /\ Measured(p) /\ Within(p)
        BY <1>2
      <4>2. /\ fragments'[p].units = fragments[p].units + 1
            /\ fragments'[p].unseen = fragments[p].unseen + 1
            /\ fragments'[p].failed = fragments[p].failed + 1
        BY <3>1
      <4>3. /\ FileSize(p)' = FileSize(p) + 1
            /\ FileSize(p) \in Nat
        BY <3>2, <4>1, <4>2, SMTT(60) DEF Sized, FileSize
      <4>4. Measured(p)'
        BY <3>2, <4>1, <4>2, <4>3, SMTT(60) DEF Sized, Measured
      <4>5. Within(p)'
        BY <4>1, <4>2, <4>3, ThresholdAssumption, SMTT(60) DEF Sized, Within
      <4> QED BY <4>4, <4>5
    <3>4. \A q \in Projects \ {p} : Measured(q)' /\ Within(q)'
      BY <1>2, <3>1, <3>2 DEF Measured, Within, FileSize
    <3> QED BY <3>1, <3>3, <3>4
  <2> QED BY <2>1, <2>2 DEF PostSkipped, PostWriteFails
<1>4. TypeOK'
  BY <1>1, <1>3 DEF IInv, TypeOK, watcher, pipeline, process, history
<1>5. InFlightMatchesRun' /\ SlotsAccounted'
  BY <1>1 DEF IInv, InFlightMatchesRun, SlotsAccounted, SlotHolders, HoldsSlot,
              watcher, pipeline
<1>6. WatcherInv'
  <2>1. FreshUntilArmed' /\ BreakerStops' /\ NothingForgotten'
    BY <1>1 DEF IInv, WatcherInv, FreshUntilArmed, BreakerStops, NothingForgotten,
                watcher, pipeline, process
  <2> QED BY <1>3, <2>1, MeasuresSuffice DEF WatcherInv
<1>7. SnapshotCovers' /\ NoLossOutsideRuns'
  BY <1>1 DEF IInv, SnapshotCovers, HoldsSnapshot, NoLossOutsideRuns, InBuffer,
              pipeline, history
<1> QED BY <1>4, <1>5, <1>6, <1>7 DEF IInv

\* A run may start, or a timer be consumed by a run already under way.
LEMMA IdleTimerFiresStep ==
  ASSUME IInv, NEW p \in Projects, IdleTimerFires(p)
  PROVE  IInv'
<1>1. /\ FlagsAndSlots'
      /\ CanFire(p) => extractionInFlight'[p]
      /\ extractionInFlight[p] => extractionInFlight'[p]
      /\ ~CanFire(p) => phase'[p] = phase[p]
      /\ \/ phase'[p] = phase[p]
         \/ phase[p] = "none" /\ phase'[p] \in {"waiting", "granted"}
      /\ \A q \in Projects \ {p} :
           extractionInFlight'[q] = extractionInFlight[q] /\ phase'[q] = phase[q]
      /\ UNCHANGED <<snapshot, anyCommitted>>
  BY FirePreservesFlags, IInvFacts DEF IdleTimerFires
<1>2. /\ mode = "up" /\ idleTimer[p]
      /\ idleTimer' = [idleTimer EXCEPT ![p] = FALSE]
      /\ UNCHANGED <<lines, fragments, stored, processed, bytes, consecutiveFailures,
                     extractionDisabled, mode, toArm, crashes, history>>
  BY DEF IdleTimerFires, Quiescent, durable, process
<1>3. WatcherType'
  BY <1>2, IInvFacts DEF WatcherType
<1>4. TypeOK'
  BY <1>1, <1>2, <1>3
  DEF IInv, TypeOK, FlagsAndSlots, Slots, PipelineType, WatcherType, history
<1>5. FreshUntilArmed' /\ BytesMatchFile' /\ HardCeiling' /\ UnseenAreFailed'
  BY <1>2, ThresholdAssumption
  DEF IInv, WatcherInv, FreshUntilArmed, BytesMatchFile, HardCeiling, UnseenAreFailed, FileSize
<1>6. BreakerStops'
  BY <1>1, <1>2 DEF IInv, WatcherInv, BreakerStops, CanFire
<1>7. NothingForgotten'
  <2> SUFFICES ASSUME NEW q \in Projects,
                      lines'[q] # <<>>, ~idleTimer'[q], ~extractionInFlight'[q]
               PROVE  consecutiveFailures'[q] > 0
    BY <1>2 DEF NothingForgotten
  <2>1. CASE q = p
    <3>1. extractionDisabled[p]
      BY <1>1, <2>1 DEF CanFire
    <3> QED BY <3>1, <2>1, <1>2, IInvFacts, ThresholdAssumption
            DEF BreakerStops, WatcherType
  <2>2. CASE q # p
    BY <2>2, <1>1, <1>2, IInvFacts
    DEF IInv, WatcherInv, NothingForgotten, FreshUntilArmed, WatcherType
  <2> QED BY <2>1, <2>2
<1>8. SnapshotCovers'
  BY <1>1, <1>2 DEF IInv, SnapshotCovers, HoldsSnapshot, history
<1>9. NoLossOutsideRuns'
  BY <1>2 DEF IInv, NoLossOutsideRuns, InBuffer, history
<1> QED BY <1>1, <1>4, <1>5, <1>6, <1>7, <1>8, <1>9
    DEF IInv, WatcherInv, FlagsAndSlots, Slots

\* A run ends in success: the file goes, and all of it is processed or late.
LEMMA SuccessStep ==
  ASSUME IInv, NEW p \in Projects, HoldsSlot(p), FinishSuccess(p), mode # "down",
         UNCHANGED <<stored, process, buffered, late, glued>>,
         processed' \in SUBSET Events, reprocessed' \in SUBSET Events,
         processed \subseteq processed',
         Contents(lines[p]) \subseteq processed' \cup late
  PROVE  IInv'
<1>1. /\ FlagsAndSlots' /\ WatcherType' /\ BreakerStops'
      /\ lines' = [lines EXCEPT ![p] = <<>>]
      /\ fragments' = [fragments EXCEPT ![p] = NoFragments]
      /\ bytes' = [bytes EXCEPT ![p] = 0]
      /\ consecutiveFailures' = [consecutiveFailures EXCEPT ![p] = 0]
      /\ UNCHANGED idleTimer
      /\ phase'[p] = "none"
      /\ snapshot' = [snapshot EXCEPT ![p] = {}]
      /\ anyCommitted' = [anyCommitted EXCEPT ![p] = FALSE]
      /\ \A q \in Projects \ {p} :
           /\ extractionInFlight'[q] = extractionInFlight[q]
           /\ \/ phase'[q] = phase[q]
              \/ phase[q] = "waiting" /\ phase'[q] = "granted"
  BY FinishSuccessEffect, IInvFacts
<1>2. /\ extractionInFlight[p]
      /\ p \notin toArm
  BY DEF IInv, InFlightMatchesRun, HoldsSlot, WatcherInv, FreshUntilArmed
<1>3. /\ lines' \in [Projects -> Seq(SUBSET Events)]
      /\ lines'[p] = <<>> /\ Len(lines'[p]) = 0 /\ Contents(lines'[p]) = {}
      /\ \A q \in Projects \ {p} : lines'[q] = lines[q]
  <2>1. <<>> \in Seq(SUBSET Events) /\ Len(<<>>) = 0
    OBVIOUS
  <2>2. lines'[p] = <<>> /\ \A q \in Projects \ {p} : lines'[q] = lines[q]
    BY <1>1, IInvFacts
  <2>3. lines' \in [Projects -> Seq(SUBSET Events)]
    BY <1>1, <2>1, IInvFacts
  <2> QED BY <2>1, <2>2, <2>3, EmptyContents
<1>f. /\ fragments' \in [Projects -> Fragments]
      /\ fragments'[p] = NoFragments
      /\ \A q \in Projects \ {p} : fragments'[q] = fragments[q]
  <2>1. NoFragments \in Fragments
    BY DEF NoFragments, Fragments
  <2> QED BY <1>1, <2>1, IInvFacts
<1>4. TypeOK'
  BY <1>1, <1>3, <1>f DEF IInv, TypeOK, FlagsAndSlots, Slots, PipelineType, WatcherType, process
<1>5. FreshUntilArmed' /\ NothingForgotten'
  BY <1>1, <1>2, <1>3, IInvFacts
  DEF IInv, WatcherInv, FreshUntilArmed, NothingForgotten, process, WatcherType
<1>6. BytesMatchFile' /\ HardCeiling' /\ UnseenAreFailed'
  <2>1. /\ FileSize(p)' = 0 /\ bytes'[p] = 0
        /\ fragments'[p].unseen = 0 /\ fragments'[p].failed = 0
    BY <1>1, <1>3, <1>f, IInvFacts DEF FileSize, NoFragments, WatcherType
  <2>2. /\ UNCHANGED <<mode, toArm>>
        /\ \A q \in Projects \ {p} : /\ FileSize(q)' = FileSize(q) /\ bytes'[q] = bytes[q]
                                      /\ fragments'[q] = fragments[q]
    BY <1>1, <1>3, <1>f, IInvFacts DEF FileSize, WatcherType, process
  <2>3. BytesMatchFile' /\ UnseenAreFailed'
    BY <2>1, <2>2 DEF IInv, WatcherInv, BytesMatchFile, UnseenAreFailed
  <2>4. HardCeiling'
    BY <2>1, <2>2, ThresholdAssumption DEF IInv, WatcherInv, HardCeiling
  <2> QED BY <2>3, <2>4
<1>7. SnapshotCovers'
  <2> SUFFICES ASSUME NEW q \in Projects
               PROVE  /\ HoldsSnapshot(q)' =>
                           Contents(lines'[q]) \subseteq snapshot'[q] \cup late'
                      /\ anyCommitted'[q] =>
                           phase'[q] = "reconciling" /\ snapshot'[q] \subseteq processed'
    BY DEF SnapshotCovers
  <2>1. CASE q = p
    BY <2>1, <1>1, <1>3 DEF HoldsSnapshot, IInv, TypeOK
  <2>2. CASE q # p
    <3>1. /\ lines'[q] = lines[q] /\ snapshot'[q] = snapshot[q]
          /\ anyCommitted'[q] = anyCommitted[q]
          /\ HoldsSnapshot(q)' => HoldsSnapshot(q)
          /\ phase[q] = "reconciling" => phase'[q] = "reconciling"
      BY <2>2, <1>1, <1>3 DEF HoldsSnapshot, IInv, TypeOK
    <3> QED BY <3>1 DEF IInv, SnapshotCovers
  <2> QED BY <2>1, <2>2
<1>8. NoLossOutsideRuns'
  <2> SUFFICES ASSUME NEW f \in buffered, f \notin late, f \notin glued,
                      f \notin processed'
               PROVE  InBuffer(f)'
    BY DEF NoLossOutsideRuns
  <2>1. PICK q \in Projects : f \in Contents(lines[q])
    BY DEF IInv, NoLossOutsideRuns, InBuffer
  <2>2. q # p
    BY <2>1
  <2> QED BY <2>1, <2>2, <1>3 DEF InBuffer
<1> QED BY <1>1, <1>4, <1>5, <1>6, <1>7, <1>8
    DEF IInv, WatcherInv, FlagsAndSlots, Slots

\* A run ends in failure: the file stays.
LEMMA FailureStep ==
  ASSUME IInv, NEW p \in Projects, HoldsSlot(p), FinishFailure(p), mode # "down",
         UNCHANGED <<stored, processed, process, history>>
  PROVE  IInv'
<1>1. /\ FlagsAndSlots' /\ WatcherType' /\ BreakerStops'
      /\ UNCHANGED <<lines, fragments, bytes, idleTimer>>
      /\ consecutiveFailures' = [consecutiveFailures EXCEPT ![p] = @ + 1]
      /\ phase'[p] = "none"
      /\ snapshot' = [snapshot EXCEPT ![p] = {}]
      /\ anyCommitted' = [anyCommitted EXCEPT ![p] = FALSE]
      /\ \A q \in Projects \ {p} :
           /\ extractionInFlight'[q] = extractionInFlight[q]
           /\ \/ phase'[q] = phase[q]
              \/ phase[q] = "waiting" /\ phase'[q] = "granted"
  BY FinishFailureEffect, IInvFacts
<1>2. /\ extractionInFlight[p]
      /\ p \notin toArm
  BY DEF IInv, InFlightMatchesRun, HoldsSlot, WatcherInv, FreshUntilArmed
<1>3. TypeOK'
  BY <1>1
  DEF IInv, TypeOK, FlagsAndSlots, Slots, PipelineType, WatcherType, process, history
<1>4. FreshUntilArmed' /\ NothingForgotten'
  <2>1. /\ consecutiveFailures'[p] > 0
        /\ \A q \in Projects \ {p} : consecutiveFailures'[q] = consecutiveFailures[q]
    BY <1>1, IInvFacts DEF WatcherType
  <2>2. FreshUntilArmed'
    BY <1>1, <1>2, <2>1 DEF IInv, WatcherInv, FreshUntilArmed, process
  <2>3. NothingForgotten'
    BY <1>1, <2>1 DEF IInv, WatcherInv, NothingForgotten, process
  <2> QED BY <2>2, <2>3
<1>5. BytesMatchFile' /\ HardCeiling' /\ UnseenAreFailed'
  BY <1>1 DEF IInv, WatcherInv, BytesMatchFile, HardCeiling, UnseenAreFailed, FileSize, process
<1>6. SnapshotCovers'
  <2> SUFFICES ASSUME NEW q \in Projects
               PROVE  /\ HoldsSnapshot(q)' =>
                           Contents(lines'[q]) \subseteq snapshot'[q] \cup late'
                      /\ anyCommitted'[q] =>
                           phase'[q] = "reconciling" /\ snapshot'[q] \subseteq processed'
    BY DEF SnapshotCovers
  <2>1. CASE q = p
    BY <2>1, <1>1 DEF HoldsSnapshot, IInv, TypeOK
  <2>2. CASE q # p
    <3>1. /\ lines'[q] = lines[q] /\ snapshot'[q] = snapshot[q]
          /\ anyCommitted'[q] = anyCommitted[q]
          /\ HoldsSnapshot(q)' => HoldsSnapshot(q)
          /\ phase[q] = "reconciling" => phase'[q] = "reconciling"
      BY <2>2, <1>1 DEF HoldsSnapshot, IInv, TypeOK
    <3> QED BY <3>1 DEF IInv, SnapshotCovers, history
  <2> QED BY <2>1, <2>2
<1>7. NoLossOutsideRuns'
  BY <1>1 DEF IInv, NoLossOutsideRuns, InBuffer, history
<1> QED BY <1>1, <1>3, <1>4, <1>5, <1>6, <1>7
    DEF IInv, WatcherInv, FlagsAndSlots, Slots

\* The daemon dies; meanwhile a line may have reached a file, or records the
\* store.
LEMMA DownStep ==
  ASSUME IInv, GoDown,
         lines' \in [Projects -> Seq(SUBSET Events)],
         fragments' \in [Projects -> Fragments],
         stored' \in SUBSET Events, processed' \in SUBSET Events,
         reprocessed' \in SUBSET Events, processed \subseteq processed',
         UNCHANGED <<buffered, late, glued>>,
         \A q \in Projects : /\ Contents(lines[q]) \subseteq Contents(lines'[q])
                             /\ Within(q)'
  PROVE  IInv'
<1>1. /\ FlagsAndSlots' /\ WatcherType'
      /\ mode' = "down" /\ toArm' = {} /\ crashes' \in Nat
      /\ \A q \in Projects :
           /\ bytes'[q] = 0
           /\ ~idleTimer'[q]
           /\ ~extractionInFlight'[q]
           /\ consecutiveFailures'[q] = 0
           /\ ~extractionDisabled'[q]
           /\ phase'[q] = "none"
           /\ ~anyCommitted'[q]
  BY GoDownResets DEF IInv, TypeOK, WatcherType
<1>2. TypeOK'
  BY <1>1 DEF IInv, TypeOK, FlagsAndSlots, Slots, PipelineType, WatcherType
<1>3. WatcherInv'
  <2>1. /\ FreshUntilArmed' /\ BytesMatchFile' /\ UnseenAreFailed'
        /\ BreakerStops' /\ NothingForgotten'
    BY <1>1, ThresholdAssumption
    DEF FreshUntilArmed, BytesMatchFile, UnseenAreFailed, BreakerStops, NothingForgotten
  <2>2. HardCeiling'
    BY DEF HardCeiling, Within
  <2> QED BY <2>1, <2>2 DEF WatcherInv
<1>4. SnapshotCovers'
  BY <1>1 DEF SnapshotCovers, HoldsSnapshot
<1>5. NoLossOutsideRuns'
  BY DEF IInv, NoLossOutsideRuns, InBuffer
<1> QED BY <1>1, <1>2, <1>3, <1>4, <1>5 DEF IInv, FlagsAndSlots, Slots

LEMMA ProcessType ==
  ASSUME NEW p \in Projects, TypeOK, Process(snapshot[p])
  PROVE  /\ processed' = processed \cup snapshot[p]
         /\ processed' \in SUBSET Events
         /\ reprocessed' \in SUBSET Events
BY DEF Process, TypeOK

\* A run reads its file, and ends at once if nothing in it can be parsed.
LEMMA TakeSnapshotStep ==
  ASSUME IInv, NEW p \in Projects, TakeSnapshot(p)
  PROVE  IInv'
<1>1. CASE Contents(lines[p]) = {} /\ FinishSuccess(p)
  <2>1. /\ UNCHANGED <<stored, processed, process, history>>
        /\ HoldsSlot(p) /\ mode # "down"
    BY DEF TakeSnapshot, HoldsSlot
  <2>2. processed' \in SUBSET Events /\ reprocessed' \in SUBSET Events
    BY <2>1 DEF IInv, TypeOK, history
  <2> QED BY <1>1, <2>1, <2>2, SuccessStep DEF history
<1>2. CASE /\ phase' = [phase EXCEPT ![p] = "extracting"]
           /\ snapshot' = [snapshot EXCEPT ![p] = Contents(lines[p])]
           /\ UNCHANGED <<lines, fragments, watcher, activeCount, waitQueue, anyCommitted>>
  <2>1. /\ UNCHANGED <<stored, processed, process, history>>
        /\ HoldsSlot(p) /\ mode # "down" /\ phase[p] = "granted"
    BY DEF TakeSnapshot, HoldsSlot
  <2>2. snapshot' \in [Projects -> SUBSET Events]
    <3>1. Contents(lines[p]) \in SUBSET Events
      BY IInvFacts, ContentsType
    <3> QED BY <1>2, <3>1 DEF IInv, TypeOK
  <2>3. FlagsAndSlots'
    BY <1>2, <2>1, <2>2, IInvFacts, PhaseChangePreservesFlags DEF watcher
  <2>4. /\ phase'[p] = "extracting"
        /\ snapshot'[p] = Contents(lines[p])
        /\ \A q \in Projects \ {p} : phase'[q] = phase[q] /\ snapshot'[q] = snapshot[q]
    BY <1>2 DEF IInv, TypeOK
  <2>5. TypeOK'
    BY <1>2, <2>1, <2>3
    DEF IInv, TypeOK, FlagsAndSlots, Slots, PipelineType, watcher, process, history
  <2>6. WatcherInv'
    <3>1. BreakerStops'
      BY <1>2, <2>1, <2>4 DEF IInv, WatcherInv, BreakerStops, watcher
    <3> QED BY <3>1, <1>2, <2>1 DEF IInv, WatcherInv, FreshUntilArmed, BytesMatchFile,
               HardCeiling, UnseenAreFailed, FileSize, NothingForgotten, watcher, process
  <2>7. SnapshotCovers'
    <3> SUFFICES ASSUME NEW q \in Projects
                 PROVE  /\ HoldsSnapshot(q)' =>
                             Contents(lines'[q]) \subseteq snapshot'[q] \cup late'
                        /\ anyCommitted'[q] =>
                             phase'[q] = "reconciling" /\ snapshot'[q] \subseteq processed'
      BY DEF SnapshotCovers
    <3>1. CASE q = p
      BY <3>1, <1>2, <2>1, <2>4 DEF IInv, SnapshotCovers
    <3>2. CASE q # p
      BY <3>2, <1>2, <2>1, <2>4 DEF IInv, SnapshotCovers, HoldsSnapshot, history
    <3> QED BY <3>1, <3>2
  <2>8. NoLossOutsideRuns'
    BY <1>2, <2>1 DEF IInv, NoLossOutsideRuns, InBuffer, history
  <2> QED BY <2>3, <2>5, <2>6, <2>7, <2>8 DEF IInv, FlagsAndSlots, Slots
<1> QED BY <1>1, <1>2 DEF TakeSnapshot

\* The compressor answers.
LEMMA AnswersStep ==
  ASSUME IInv, NEW p \in Projects, Answers(p)
  PROVE  IInv'
<1>0. HoldsSlot(p) /\ HoldsSnapshot(p) /\ phase[p] = "extracting" /\ mode # "down"
  BY DEF Answers, ExtractionFails, ExtractionCompletes, ReconciliationStarts,
         HoldsSlot, HoldsSnapshot, Quiescent
<1>1. CASE ExtractionFails(p)
  BY <1>0, <1>1, FailureStep DEF ExtractionFails
<1>2. CASE ExtractionCompletes(p)
  <2>1. /\ processed' = processed \cup snapshot[p]
        /\ processed' \in SUBSET Events /\ reprocessed' \in SUBSET Events
    BY <1>2, ProcessType DEF ExtractionCompletes, IInv
  <2>2. Contents(lines[p]) \subseteq processed' \cup late
    BY <1>0, <2>1 DEF IInv, SnapshotCovers
  <2> QED BY <1>0, <1>2, <2>1, <2>2, SuccessStep DEF ExtractionCompletes
<1>3. CASE ReconciliationStarts(p)
  <2>1. /\ phase' = [phase EXCEPT ![p] = "reconciling"]
        /\ UNCHANGED <<lines, fragments, stored, processed, watcher, activeCount,
                       waitQueue, snapshot, anyCommitted, process, history>>
    BY <1>3 DEF ReconciliationStarts, durable
  <2>2. snapshot' \in [Projects -> SUBSET Events]
    BY <2>1 DEF IInv, TypeOK
  <2>3. FlagsAndSlots'
    BY <1>0, <2>1, <2>2, IInvFacts, PhaseChangePreservesFlags DEF watcher
  <2>4. /\ phase'[p] = "reconciling"
        /\ \A q \in Projects \ {p} : phase'[q] = phase[q]
    BY <2>1 DEF IInv, TypeOK
  <2>5. TypeOK'
    BY <2>1, <2>3
    DEF IInv, TypeOK, FlagsAndSlots, Slots, PipelineType, watcher, process, history
  <2>6. WatcherInv'
    <3>1. BreakerStops'
      BY <1>0, <2>1, <2>4 DEF IInv, WatcherInv, BreakerStops, watcher
    <3> QED BY <3>1, <2>1 DEF IInv, WatcherInv, FreshUntilArmed, BytesMatchFile,
               HardCeiling, UnseenAreFailed, FileSize, NothingForgotten, watcher, process
  <2>7. SnapshotCovers'
    BY <1>0, <2>1, <2>4 DEF IInv, SnapshotCovers, HoldsSnapshot, history
  <2>8. NoLossOutsideRuns'
    BY <2>1 DEF IInv, NoLossOutsideRuns, InBuffer, history
  <2> QED BY <2>3, <2>5, <2>6, <2>7, <2>8 DEF IInv, FlagsAndSlots, Slots
<1> QED BY <1>1, <1>2, <1>3 DEF Answers

\* A cluster that is not the last settles.
LEMMA ClusterSettlesStep ==
  ASSUME IInv, NEW p \in Projects, NEW commits \in BOOLEAN, ClusterSettles(p, commits)
  PROVE  IInv'
<1>1. /\ phase[p] = "reconciling"
      /\ anyCommitted' = [anyCommitted EXCEPT ![p] = @ \/ commits]
      /\ UNCHANGED <<lines, fragments, stored, watcher, activeCount, waitQueue, phase,
                     snapshot, process, buffered, late, glued>>
  BY DEF ClusterSettles
<1>2. /\ processed' \in SUBSET Events /\ reprocessed' \in SUBSET Events
      /\ processed \subseteq processed'
      /\ commits /\ ~anyCommitted[p] => snapshot[p] \subseteq processed'
  BY ProcessType DEF ClusterSettles, IInv, TypeOK
<1>3. /\ anyCommitted'[p] => anyCommitted[p] \/ commits
      /\ anyCommitted' \in [Projects -> BOOLEAN]
      /\ \A q \in Projects \ {p} : anyCommitted'[q] = anyCommitted[q]
  <2>1. anyCommitted \in [Projects -> BOOLEAN]
    BY DEF IInv, TypeOK
  <2> QED BY <1>1, <2>1
<1>4. TypeOK'
  BY <1>1, <1>2, <1>3 DEF IInv, TypeOK, watcher, process
<1>5. InFlightMatchesRun' /\ SlotsAccounted'
  BY <1>1 DEF IInv, InFlightMatchesRun, SlotsAccounted, SlotHolders, HoldsSlot, watcher
<1>6. WatcherInv'
  BY <1>1 DEF IInv, WatcherInv, FreshUntilArmed, BytesMatchFile, HardCeiling,
              UnseenAreFailed, FileSize,
              BreakerStops, NothingForgotten, watcher, process
<1>7. SnapshotCovers'
  <2> SUFFICES ASSUME NEW q \in Projects
               PROVE  /\ HoldsSnapshot(q)' =>
                           Contents(lines'[q]) \subseteq snapshot'[q] \cup late'
                      /\ anyCommitted'[q] =>
                           phase'[q] = "reconciling" /\ snapshot'[q] \subseteq processed'
    BY DEF SnapshotCovers
  <2>1. CASE q = p
    BY <2>1, <1>1, <1>2, <1>3 DEF IInv, SnapshotCovers, HoldsSnapshot
  <2>2. CASE q # p
    BY <2>2, <1>1, <1>2, <1>3 DEF IInv, SnapshotCovers, HoldsSnapshot
  <2> QED BY <2>1, <2>2
<1>8. NoLossOutsideRuns'
  BY <1>1, <1>2 DEF IInv, NoLossOutsideRuns, InBuffer
<1> QED BY <1>4, <1>5, <1>6, <1>7, <1>8 DEF IInv

\* The last cluster settles.
LEMMA LastClusterSettlesStep ==
  ASSUME IInv, NEW p \in Projects, NEW commits \in BOOLEAN,
         LastClusterSettles(p, commits)
  PROVE  IInv'
<1>0. HoldsSlot(p) /\ HoldsSnapshot(p) /\ mode # "down"
  BY DEF LastClusterSettles, HoldsSlot, HoldsSnapshot, Quiescent
<1>1. CASE commits \/ anyCommitted[p]
  <2>1. /\ processed' \in SUBSET Events /\ reprocessed' \in SUBSET Events
        /\ processed \subseteq processed'
        /\ snapshot[p] \subseteq processed'
    BY <1>1, ProcessType DEF LastClusterSettles, IInv, TypeOK, SnapshotCovers
  <2>2. Contents(lines[p]) \subseteq processed' \cup late
    BY <1>0, <2>1 DEF IInv, SnapshotCovers
  <2>3. FinishSuccess(p) /\ UNCHANGED <<stored, process, buffered, late, glued>>
    BY <1>1 DEF LastClusterSettles
  <2> QED BY <1>0, <2>1, <2>2, <2>3, SuccessStep
<1>2. CASE ~(commits \/ anyCommitted[p])
  BY <1>0, <1>2, FailureStep DEF LastClusterSettles, history
<1> QED BY <1>1, <1>2

\* The daemon dies between two callbacks, or in the middle of one.
LEMMA CrashStep ==
  ASSUME IInv, Crash
  PROVE  IInv'
<1>1. UNCHANGED <<lines, fragments>>
  BY DEF Crash, durable
<1>2. \A q \in Projects : Within(q)'
  BY <1>1, SizesTyped DEF Within, FileSize
<1> QED BY <1>2, DownStep DEF Crash, durable, history, IInv, TypeOK

LEMMA CrashInCommitStep ==
  ASSUME IInv, NEW p \in Projects, CrashInCommit(p)
  PROVE  IInv'
<1>1. UNCHANGED <<lines, fragments>>
  BY DEF CrashInCommit
<1>2. \A q \in Projects : Within(q)'
  BY <1>1, SizesTyped DEF Within, FileSize
<1>3. /\ processed' \in SUBSET Events /\ reprocessed' \in SUBSET Events
      /\ processed \subseteq processed'
  BY ProcessType DEF CrashInCommit, IInv
<1> QED BY <1>2, <1>3, DownStep DEF CrashInCommit, IInv, TypeOK

LEMMA CrashInPostStep ==
  ASSUME IInv, NEW p \in Projects, NEW e \in Events, CrashInPost(p, e)
  PROVE  IInv'
<1>1. /\ bytes[p] + 1 <= BufferMaxBytes
      /\ \A q \in Projects : Sized(q) /\ Measured(q) /\ Within(q)
  <2>1. mode = "up" /\ ~(bytes[p] + 1 > BufferMaxBytes)
    BY DEF CrashInPost, Posting, Quiescent, WouldExceedCeiling
  <2> QED BY <2>1, IInvMeasures, ThresholdAssumption DEF Sized
<1>2. /\ GoDown
      /\ stored' \in SUBSET Events
      /\ UNCHANGED <<processed, history>>
      /\ processed' \in SUBSET Events /\ reprocessed' \in SUBSET Events
  BY DEF CrashInPost, Posting, IInv, TypeOK, history
<1>3. CASE UNCHANGED <<lines, fragments>>
  <2>1. \A q \in Projects : Within(q)'
    BY <1>1, <1>3 DEF Within, FileSize
  <2> QED BY <1>2, <1>3, <2>1, IInvFacts, DownStep DEF history
<1>4. CASE AppendFragment(p, 0)
  <2>1. /\ fragments' \in [Projects -> Fragments]
        /\ fragments'[p].units = fragments[p].units + 1
        /\ fragments'[p].failed = fragments[p].failed + 0
        /\ \A q \in Projects \ {p} : fragments'[q] = fragments[q]
        /\ UNCHANGED lines
    BY <1>4, FragmentEffect
  <2>2. Within(p)'
    <3>1. Sized(p) /\ Measured(p) /\ bytes[p] + 1 <= BufferMaxBytes
      BY <1>1
    <3>2. /\ fragments'[p].units = fragments[p].units + 1
          /\ fragments'[p].failed = fragments[p].failed + 0
          /\ lines'[p] = lines[p]
      BY <2>1
    <3> QED
      <4>a. FileSize(p)' = FileSize(p) + 1 /\ fragments'[p].failed = fragments[p].failed
        BY <3>1, <3>2, SMTT(30) DEF Sized, FileSize
      <4>b. (bytes[p] + fragments[p].unseen) + 1 <= BufferMaxBytes + fragments[p].failed
        <5>1. /\ bytes[p] \in Nat /\ fragments[p].unseen \in Nat /\ fragments[p].failed \in Nat
              /\ fragments[p].unseen <= fragments[p].failed /\ bytes[p] + 1 <= BufferMaxBytes
          BY Zenon, <3>1 DEF Sized, Measured
        <5>2. BufferMaxBytes \in Nat
          BY ThresholdAssumption
        <5> QED BY Zenon, <5>1, <5>2, RoomForOne
      <4>c. FileSize(p) + 1 <= BufferMaxBytes + fragments[p].failed
        BY Zenon, <3>1, <4>b DEF Measured
      <4> QED BY Zenon, <4>a, <4>c DEF Within
  <2>3. \A q \in Projects \ {p} : Within(q)'
    BY <1>1, <2>1 DEF Within, FileSize
  <2> QED BY <1>2, <2>1, <2>2, <2>3, IInvFacts, DownStep DEF history
<1>5. CASE AppendLine(p, {e})
  <2> DEFINE line == IF Torn(p) THEN {} ELSE {e}
  <2>1. lines[p] \in Seq(SUBSET Events) /\ line \in SUBSET Events
    BY IInvFacts
  <2>2. /\ lines' = [lines EXCEPT ![p] = Append(lines[p], line)]
        /\ fragments' \in [Projects -> Fragments]
        /\ \A q \in Projects : /\ fragments'[q].units = fragments[q].units
                              /\ fragments'[q].failed = fragments[q].failed
    BY <1>5, IInvFacts DEF AppendLine, Fragments
  <2> HIDE DEF line
  <2>3. /\ Append(lines[p], line) \in Seq(SUBSET Events)
        /\ Len(Append(lines[p], line)) = Len(lines[p]) + 1
        /\ Contents(Append(lines[p], line)) = Contents(lines[p]) \cup line
    BY <2>1, AppendContents, SMTT(30)
  <2>4. /\ lines' \in [Projects -> Seq(SUBSET Events)]
        /\ Len(lines'[p]) = Len(lines[p]) + 1
        /\ Contents(lines'[p]) = Contents(lines[p]) \cup line
        /\ \A q \in Projects \ {p} : lines'[q] = lines[q]
    BY <2>1, <2>2, <2>3, IInvFacts
  <2>5. Within(p)'
    <3>1. Sized(p) /\ Measured(p) /\ bytes[p] + 1 <= BufferMaxBytes
      BY <1>1
    <3>2. /\ fragments'[p].units = fragments[p].units
          /\ fragments'[p].failed = fragments[p].failed
          /\ Len(lines'[p]) = Len(lines[p]) + 1
      BY <2>2, <2>4
    <3> QED
      <4>a. FileSize(p)' = FileSize(p) + 1 /\ fragments'[p].failed = fragments[p].failed
        BY <3>1, <3>2, SMTT(30) DEF Sized, FileSize
      <4>b. (bytes[p] + fragments[p].unseen) + 1 <= BufferMaxBytes + fragments[p].failed
        <5>1. /\ bytes[p] \in Nat /\ fragments[p].unseen \in Nat /\ fragments[p].failed \in Nat
              /\ fragments[p].unseen <= fragments[p].failed /\ bytes[p] + 1 <= BufferMaxBytes
          BY Zenon, <3>1 DEF Sized, Measured
        <5>2. BufferMaxBytes \in Nat
          BY ThresholdAssumption
        <5> QED BY Zenon, <5>1, <5>2, RoomForOne
      <4>c. FileSize(p) + 1 <= BufferMaxBytes + fragments[p].failed
        BY Zenon, <3>1, <4>b DEF Measured
      <4> QED BY Zenon, <4>a, <4>c DEF Within
  <2>6. \A q \in Projects : Contents(lines[q]) \subseteq Contents(lines'[q]) /\ Within(q)'
    <3>1. ASSUME NEW q \in Projects, q # p PROVE Within(q)'
      BY <1>1, <2>2, <2>4, <3>1 DEF Within, FileSize
    <3> QED BY <2>4, <2>5, <3>1
  <2> QED BY <1>2, <2>2, <2>4, <2>6, DownStep DEF history
<1> QED BY <1>3, <1>4, <1>5 DEF CrashInPost

\* The start-up scan begins.
LEMMA RestartStep ==
  ASSUME IInv, Restart
  PROVE  IInv'
<1>1. /\ mode = "down" /\ mode' = "arming" /\ toArm' = Projects
      /\ UNCHANGED <<durable, watcher, pipeline, crashes, history>>
  BY DEF Restart
<1>2. TypeOK'
  BY <1>1 DEF IInv, TypeOK, durable, watcher, pipeline, history
<1>3. InFlightMatchesRun' /\ SlotsAccounted'
  BY <1>1 DEF IInv, InFlightMatchesRun, SlotsAccounted, SlotHolders, HoldsSlot,
              watcher, pipeline
<1>4. WatcherInv'
  BY <1>1 DEF IInv, WatcherInv, FreshUntilArmed, BytesMatchFile, HardCeiling,
              UnseenAreFailed, FileSize,
              BreakerStops, NothingForgotten, watcher, pipeline, durable
<1>5. SnapshotCovers' /\ NoLossOutsideRuns'
  BY <1>1 DEF IInv, SnapshotCovers, HoldsSnapshot, NoLossOutsideRuns, InBuffer,
              pipeline, history, durable
<1> QED BY <1>2, <1>3, <1>4, <1>5 DEF IInv

\* The start-up scan visits a project.
LEMMA ArmStep ==
  ASSUME IInv, NEW p \in Projects, Arm(p)
  PROVE  IInv'
<1>1. /\ mode = "arming" /\ p \in toArm
      /\ toArm' = toArm \ {p}
      /\ mode' \in {"up", "arming"}
      /\ toArm' # {} => mode' = "arming"
      /\ mode' = "up" => toArm' = {}
      /\ fragments' = [fragments EXCEPT ![p] = [@ EXCEPT !.unseen = 0]]
      /\ UNCHANGED <<lines, stored, processed, crashes, history>>
  BY DEF Arm
<1>f. /\ fragments' \in [Projects -> Fragments]
      /\ fragments'[p].unseen = 0
      /\ \A q \in Projects \ {p} : fragments'[q] = fragments[q]
      /\ \A q \in Projects : FileSize(q)' = FileSize(q) /\ fragments'[q].failed = fragments[q].failed
  <2>1. fragments' \in [Projects -> Fragments] /\ fragments'[p] = [fragments[p] EXCEPT !.unseen = 0]
    BY <1>1, IInvFacts DEF Fragments
  <2>2. /\ fragments'[p].unseen = 0 /\ fragments'[p].units = fragments[p].units
        /\ fragments'[p].failed = fragments[p].failed
    BY <2>1, IInvFacts DEF Fragments
  <2>3. \A q \in Projects \ {p} : fragments'[q] = fragments[q]
    BY <1>1, IInvFacts
  <2> QED BY <1>1, <2>1, <2>2, <2>3 DEF FileSize
<1>2. /\ bytes[p] = 0 /\ ~idleTimer[p] /\ ~extractionInFlight[p]
      /\ FileSize(p) \in Nat /\ Len(lines[p]) \in Nat /\ fragments[p].units \in Nat
  BY <1>1, SizesTyped DEF Sized, FileSize, IInv, WatcherInv, FreshUntilArmed
<1>3. /\ FlagsAndSlots' /\ WatcherType' /\ BreakerStops'
      /\ bytes'[p] = FileSize(p)
      /\ idleTimer'[p] \/ lines[p] = <<>>
      /\ \A q \in Projects \ {p} :
           /\ bytes'[q] = bytes[q]
           /\ idleTimer'[q] = idleTimer[q]
           /\ extractionInFlight'[q] = extractionInFlight[q]
           /\ phase'[q] = phase[q]
      /\ \/ phase'[p] = phase[p]
         \/ phase[p] = "none" /\ phase'[p] \in {"waiting", "granted"}
      /\ UNCHANGED <<consecutiveFailures, snapshot, anyCommitted>>
  <2>1. CASE NotifyAppend(p, FileSize(p))
    <3>1. /\ FlagsAndSlots' /\ WatcherType' /\ BreakerStops'
          /\ bytes' = [bytes EXCEPT ![p] = @ + FileSize(p)]
          /\ idleTimer' = [idleTimer EXCEPT ![p] = TRUE]
          /\ \A q \in Projects \ {p} :
               extractionInFlight'[q] = extractionInFlight[q] /\ phase'[q] = phase[q]
          /\ \/ phase'[p] = phase[p]
             \/ phase[p] = "none" /\ phase'[p] \in {"waiting", "granted"}
          /\ UNCHANGED <<consecutiveFailures, snapshot, anyCommitted>>
      BY <1>2, <2>1, NotifyAppendEffect, IInvFacts
    <3>2. bytes'[p] = FileSize(p) /\ idleTimer'[p]
      BY <1>2, <3>1, IInvFacts DEF WatcherType
    <3>3. \A q \in Projects \ {p} : bytes'[q] = bytes[q] /\ idleTimer'[q] = idleTimer[q]
      BY <3>1, IInvFacts DEF WatcherType
    <3> QED BY <3>1, <3>2, <3>3
  <2>2. CASE ~(FileSize(p) > 0) /\ UNCHANGED <<watcher, pipeline>>
    <3>1. FileSize(p) = 0 /\ lines[p] = <<>>
      <4>1. FileSize(p) = 0 /\ Len(lines[p]) = 0
        BY <1>2, <2>2 DEF FileSize
      <4>2. lines[p] \in Seq(SUBSET Events)
        BY IInvFacts
      <4> QED BY <4>1, <4>2, EmptySeq
    <3>2. FlagsAndSlots' /\ WatcherType' /\ BreakerStops'
      BY <2>2, IInvFacts
      DEF FlagsAndSlots, Slots, PipelineType, SlotsAccounted, SlotHolders, HoldsSlot,
          InFlightMatchesRun, BreakerStops, WatcherType, watcher, pipeline
    <3> QED BY <1>2, <2>2, <3>1, <3>2 DEF watcher, pipeline
  <2> QED BY <2>1, <2>2 DEF Arm
<1>4. TypeOK'
  BY <1>1, <1>3, <1>f
  DEF IInv, TypeOK, FlagsAndSlots, Slots, PipelineType, WatcherType, history
<1>5. FreshUntilArmed'
  BY <1>1, <1>3 DEF IInv, WatcherInv, FreshUntilArmed
<1>6. BytesMatchFile' /\ HardCeiling' /\ UnseenAreFailed'
  <2>1. bytes'[p] + fragments'[p].unseen = FileSize(p)' /\ fragments'[p].unseen <= fragments'[p].failed
    BY <1>2, <1>3, <1>f, SizesTyped DEF Sized
  <2>2. \A q \in Projects : mode' = "up" \/ (mode' = "arming" /\ q \notin toArm') =>
                             q = p \/ q \notin toArm
    BY <1>1
  <2>3. BytesMatchFile' /\ UnseenAreFailed'
    BY <1>1, <1>3, <1>f, <2>1, <2>2 DEF IInv, WatcherInv, BytesMatchFile, UnseenAreFailed
  <2>4. HardCeiling'
    BY <1>f DEF IInv, WatcherInv, HardCeiling
  <2> QED BY <2>3, <2>4
<1>7. NothingForgotten'
  BY <1>1, <1>3 DEF IInv, WatcherInv, NothingForgotten
<1>8. SnapshotCovers'
  BY <1>1, <1>3 DEF IInv, SnapshotCovers, HoldsSnapshot, history
<1>9. NoLossOutsideRuns'
  BY <1>1 DEF IInv, NoLossOutsideRuns, InBuffer, history
<1> QED BY <1>3, <1>4, <1>5, <1>6, <1>7, <1>8, <1>9
    DEF IInv, WatcherInv, FlagsAndSlots, Slots

LEMMA StutterStep ==
  ASSUME IInv, UNCHANGED vars
  PROVE  IInv'
<1> USE DEF vars, durable, watcher, pipeline, process, history
<1>1. TypeOK'
  BY DEF IInv, TypeOK
<1>2. InFlightMatchesRun' /\ SlotsAccounted'
  BY DEF IInv, InFlightMatchesRun, SlotsAccounted, SlotHolders, HoldsSlot
<1>3. WatcherInv'
  BY DEF IInv, WatcherInv, FreshUntilArmed, BytesMatchFile, HardCeiling, UnseenAreFailed, FileSize,
         BreakerStops, NothingForgotten
<1>4. SnapshotCovers' /\ NoLossOutsideRuns'
  BY DEF IInv, SnapshotCovers, HoldsSnapshot, NoLossOutsideRuns, InBuffer
<1> QED BY <1>1, <1>2, <1>3, <1>4 DEF IInv

LEMMA IInvStep == IInv /\ [Next]_vars => IInv'
<1> SUFFICES ASSUME IInv, [Next]_vars
             PROVE  IInv'
  OBVIOUS
<1>1. ASSUME NEW p \in Projects, NEW e \in Events, Post(p, e)
      PROVE  IInv'
  BY <1>1, PostSkippedStep, PostBufferedStep DEF Post
<1>2. ASSUME NEW p \in Projects, NEW e \in Events, CrashInPost(p, e)
      PROVE  IInv'
  BY <1>2, CrashInPostStep
<1>3. ASSUME NEW p \in Projects, IdleTimerFires(p)
      PROVE  IInv'
  BY <1>3, IdleTimerFiresStep
<1>4. ASSUME NEW p \in Projects, RunStep(p)
      PROVE  IInv'
  BY <1>4, TakeSnapshotStep, AnswersStep, ClusterSettlesStep, LastClusterSettlesStep
  DEF RunStep, Settles
<1>5. ASSUME NEW p \in Projects, CrashInCommit(p)
      PROVE  IInv'
  BY <1>5, CrashInCommitStep
<1>6. ASSUME NEW p \in Projects, Arm(p)
      PROVE  IInv'
  BY <1>6, ArmStep
<1> QED BY <1>1, <1>2, <1>3, <1>4, <1>5, <1>6, CrashStep, RestartStep, StutterStep
    DEF Next

\* The inductive invariant of the buffer pipeline.
THEOREM Invariant == Spec => []IInv
BY IInvInit, IInvStep, PTL DEF Spec

-----------------------------------------------------------------------------
(* The properties. *)

\* Every variable keeps its type; for activeCount, which is decremented, and
\* waitQueue, whose head is taken, this needs the whole accounting of slots.
THEOREM TypeCorrect == Spec => []TypeOK
<1>1. IInv => TypeOK
  BY DEF IInv
<1> QED BY Invariant, <1>1, PTL

\* The in-flight flag of a project is up exactly while a run of it is active.
THEOREM InFlightCorrect == Spec => []InFlightMatchesRun
<1>1. IInv => InFlightMatchesRun
  BY DEF IInv
<1> QED BY Invariant, <1>1, PTL

\* The semaphore counts its holders, respects the limit, queues each waiting
\* run once and keeps nobody waiting while a slot is free.
THEOREM SemaphoreCorrect == Spec => []SlotsAccounted
<1>1. IInv => SlotsAccounted
  BY DEF IInv
<1> QED BY Invariant, <1>1, PTL

\* For any sequence of posts, failed writes, runs, crashes and restarts, the
\* watcher's byte counter lacks the fragments that failed appends left in the
\* file since the last run or start-up scan, and differs from it in nothing else.
THEOREM CounterCorrect == Spec => []BytesMatchFile
<1>1. IInv => BytesMatchFile
  BY DEF IInv, WatcherInv
<1> QED BY Invariant, <1>1, PTL

\* A buffer file outgrows bufferMaxBytes by the fragments of failed appends in it
\* and by nothing else: not by lines, not by what a death or a restart leaves.
THEOREM CeilingHolds == Spec => []HardCeiling
<1>1. IInv => HardCeiling
  BY DEF IInv, WatcherInv
<1> QED BY Invariant, <1>1, PTL

\* The breaker is open exactly from MaxConsecutiveFailures failures on, and no
\* run of the project is left behind it.
THEOREM BreakerCorrect == Spec => []BreakerStops
<1>1. IInv => BreakerStops
  BY DEF IInv, WatcherInv
<1> QED BY Invariant, <1>1, PTL

\* A buffer with entries always has an armed timer or a run, or its last run
\* failed.
THEOREM NoBufferForgotten == Spec => []NothingForgotten
<1>1. IInv => NothingForgotten
  BY DEF IInv, WatcherInv
<1> QED BY Invariant, <1>1, PTL

\* An appended event stays in its buffer until a batch covers it, whatever
\* fails, except in the two windows the property names.
THEOREM NoEventLost == Spec => []NoLossOutsideRuns
<1>1. IInv => NoLossOutsideRuns
  BY DEF IInv
<1> QED BY Invariant, <1>1, PTL

-----------------------------------------------------------------------------
(* The action properties. *)

LEMMA FireNeverBarges ==
  ASSUME FlagsAndSlots, NEW p \in Projects, FireExtraction(p),
         NEW q \in Projects, phase[q] = "none", phase'[q] = "granted"
  PROVE  waitQueue = <<>>
<1>1. p = q
  BY FirePreservesFlags
<1>2. AcquireSemaphore(p)
  BY DEF FireExtraction, pipeline
<1> QED BY <1>1, <1>2, AcquirePreservesSlots DEF FlagsAndSlots

LEMMA NoBargingStep ==
  ASSUME IInv, [Next]_vars,
         NEW q \in Projects, phase[q] = "none", phase'[q] = "granted"
  PROVE  waitQueue = <<>>
<1>1. ASSUME NEW p \in Projects, FireExtraction(p)
      PROVE  waitQueue = <<>>
  BY <1>1, FireNeverBarges, IInvFacts
<1>2. ASSUME NEW p \in Projects, HoldsSlot(p), ReleaseSemaphore(p)
      PROVE  FALSE
  <2>1. phase[p] # "none"
    BY <1>2 DEF HoldsSlot
  <2> QED BY <1>2, <2>1, ReleasePreservesSlots, IInvFacts DEF FlagsAndSlots
<1>3. ASSUME NEW p \in Projects, NEW ph, ph # "granted",
             phase' = [phase EXCEPT ![p] = ph]
      PROVE  FALSE
  <2>1. phase'[q] = phase[q] \/ phase'[q] = ph
    BY <1>3 DEF IInv, TypeOK
  <2> QED BY <1>3, <2>1
<1>4. phase' # phase
  OBVIOUS
<1>5. ASSUME NEW p \in Projects, NEW e \in Events, Post(p, e) \/ CrashInPost(p, e)
      PROVE  waitQueue = <<>>
  <2>1. ~GoDown
    BY DEF GoDown
  <2>2. FireExtraction(p)
    BY <1>4, <1>5, <2>1
    DEF Post, PostSkipped, PostBuffered, PostWriteFails, CrashInPost, NotifyAppend,
        pipeline
  <2> QED BY <1>1, <2>2
<1>6. ASSUME NEW p \in Projects, IdleTimerFires(p)
      PROVE  waitQueue = <<>>
  BY <1>1, <1>6 DEF IdleTimerFires
<1>7. ASSUME NEW p \in Projects, RunStep(p)
      PROVE  FALSE
  <2>1. CASE TakeSnapshot(p)
    BY <1>2, <1>3, <2>1 DEF TakeSnapshot, FinishSuccess, HoldsSlot
  <2>2. CASE Answers(p)
    BY <1>2, <1>3, <2>2
    DEF Answers, ExtractionFails, ExtractionCompletes, ReconciliationStarts,
        FinishSuccess, FinishFailure, HoldsSlot
  <2>3. CASE \E commits \in BOOLEAN : ClusterSettles(p, commits)
    BY <1>4, <2>3 DEF ClusterSettles
  <2>4. CASE Settles(p)
    BY <1>2, <2>4 DEF Settles, LastClusterSettles, FinishSuccess, FinishFailure, HoldsSlot
  <2> QED BY <1>7, <2>1, <2>2, <2>3, <2>4 DEF RunStep
<1>8. CASE (\E p \in Projects : CrashInCommit(p)) \/ Crash
  BY <1>8 DEF CrashInCommit, Crash, GoDown
<1>9. CASE Restart \/ UNCHANGED vars
  BY <1>4, <1>9 DEF Restart, vars, pipeline
<1>10. ASSUME NEW p \in Projects, Arm(p)
       PROVE  waitQueue = <<>>
  BY <1>1, <1>4, <1>10 DEF Arm, NotifyAppend, pipeline
<1> QED BY <1>5, <1>6, <1>7, <1>8, <1>9, <1>10 DEF Next

\* A run that starts never overtakes one that waits for a slot.
THEOREM NobodyBarges == Spec => NoBarging
<1>1. IInv /\ [Next]_vars => [NobodyOvertakes]_vars
  BY NoBargingStep DEF NobodyOvertakes
<1> QED BY Invariant, <1>1, PTL DEF Spec, NoBarging

LEMMA BreakerIsFinalStep ==
  ASSUME IInv, [Next]_vars, NEW q \in Projects, extractionDisabled[q], mode' # "down"
  PROVE  extractionDisabled'[q]
<1>0. /\ extractionDisabled \in [Projects -> BOOLEAN]
      /\ phase[q] = "none"
  BY DEF IInv, TypeOK, WatcherInv, BreakerStops
<1>1. ASSUME NEW p \in Projects, HoldsSlot(p), FinishSuccess(p) \/ FinishFailure(p)
      PROVE  extractionDisabled'[q]
  <2>1. p # q
    BY <1>0, <1>1 DEF HoldsSlot
  <2> QED BY <1>0, <1>1, <2>1
      DEF FinishSuccess, FinishFailure, NotifySuccess, NotifyFailure
<1>2. CASE UNCHANGED extractionDisabled
  BY <1>2
<1>3. ASSUME NEW p \in Projects, NEW e \in Events, Post(p, e) \/ CrashInPost(p, e)
      PROVE  UNCHANGED extractionDisabled
  BY <1>3 DEF Post, PostSkipped, PostBuffered, PostWriteFails, CrashInPost,
              NotifyAppend, GoDown, watcher
<1>4. ASSUME NEW p \in Projects, RunStep(p)
      PROVE  extractionDisabled'[q]
  <2>1. CASE TakeSnapshot(p)
    BY <1>1, <1>2, <2>1 DEF TakeSnapshot, HoldsSlot, watcher
  <2>2. CASE Answers(p)
    BY <1>1, <1>2, <2>2
    DEF Answers, ExtractionFails, ExtractionCompletes, ReconciliationStarts,
        HoldsSlot, watcher
  <2>3. CASE \E commits \in BOOLEAN : ClusterSettles(p, commits)
    BY <1>2, <2>3 DEF ClusterSettles, watcher
  <2>4. CASE Settles(p)
    BY <1>1, <2>4 DEF Settles, LastClusterSettles, HoldsSlot
  <2> QED BY <1>4, <2>1, <2>2, <2>3, <2>4 DEF RunStep
<1>5. ASSUME NEW p \in Projects, IdleTimerFires(p) \/ CrashInCommit(p) \/ Arm(p)
      PROVE  UNCHANGED extractionDisabled
  BY <1>5 DEF IdleTimerFires, CrashInCommit, GoDown, Arm, NotifyAppend, watcher
<1>6. CASE Crash \/ Restart \/ UNCHANGED vars
  BY <1>2, <1>6 DEF Crash, GoDown, Restart, vars, watcher
<1> QED BY <1>2, <1>3, <1>4, <1>5, <1>6 DEF Next

\* A tripped breaker stays open until the daemon dies.
THEOREM BreakerNeverResets == Spec => BreakerIsFinal
<1>1. IInv /\ [Next]_vars => [StaysDisabled]_vars
  BY BreakerIsFinalStep DEF StaysDisabled
<1> QED BY Invariant, <1>1, PTL DEF Spec, BreakerIsFinal

-----------------------------------------------------------------------------
(* The properties as the runs check them. *)

\* The counter that the POST handler consults and the ceiling it guards: both are
\* off by the fragments of failed appends, and by nothing else.
THEOREM CeilingCorrect == Spec => []CeilingIsKept
  BY CounterCorrect, CeilingHolds, PTL DEF CeilingIsKept

\* Slots and queue of the semaphore add up, and the queue is served in order.
THEOREM SemaphoreIsFair == Spec => SlotsAreFair
  BY SemaphoreCorrect, NobodyBarges, PTL DEF SlotsAreFair, NoBarging

\* The extraction breaker opens in time, stops every run, and stays open.
THEOREM BreakerIsSafe == Spec => BreakerHolds
  BY BreakerCorrect, BreakerNeverResets, PTL DEF BreakerHolds, BreakerIsFinal

(***************************************************************************)
(* The buffer pipeline implements the event ledger: every step of a post,  *)
(* a run, a death or a restart is, through the mapping Ledger, a step of   *)
(* EventLedger or leaves the ledger alone.                                 *)
(*                                                                         *)
(* IInv says what a file may lose. That a batch waits when it is covered,  *)
(* and was not covered before, needs more: LedgerInv, which ties the       *)
(* files, the snapshots of the runs and the set of processed events        *)
(* together.                                                               *)
(***************************************************************************)

\* Only stored events reach a file, each of them one file only; a run's
\* snapshot is still in the file; and as long as the daemon has not died, a
\* file holds processed events only while the run that processed them lasts.
LedgerInv ==
  /\ processed \subseteq stored
  /\ \A p \in Projects : Contents(lines[p]) \subseteq stored
  /\ \A p, q \in Projects : p # q => Contents(lines[p]) \cap Contents(lines[q]) = {}
  /\ \A p \in Projects : HoldsSnapshot(p) => snapshot[p] \subseteq Contents(lines[p])
  /\ crashes = 0 =>
       \A p \in Projects : anyCommitted[p] \/ Contents(lines[p]) \cap processed = {}

LedgerStep == [Ledger!LedgerNext]_(Ledger!ledger)

LEMMA LedgerInvInit == Init => LedgerInv
BY EmptyContents DEF Init, LedgerInv, HoldsSnapshot

LEMMA LedgerInitHolds == Init => Ledger!LedgerInit
BY EmptyContents DEF Init, Ledger!LedgerInit, InSomeBuffer

-----------------------------------------------------------------------------
(* The shapes of steps, seen from the ledger. *)

\* No run takes a snapshot or forgets that it has committed.
RunsGoOn ==
  \A q \in Projects :
    /\ HoldsSnapshot(q)' => HoldsSnapshot(q) /\ snapshot'[q] = snapshot[q]
    /\ anyCommitted[q] => anyCommitted'[q]

AllRunsDie == crashes' > 0 /\ \A q \in Projects : ~HoldsSnapshot(q)'

Undisturbed == AllRunsDie \/ (crashes' = crashes /\ RunsGoOn)

LEMMA GoDownKillsRuns ==
  ASSUME GoDown, crashes \in Nat
  PROVE  AllRunsDie /\ Undisturbed
BY DEF GoDown, AllRunsDie, Undisturbed, HoldsSnapshot

\* An event is stored, and perhaps its line reaches the file of p.
LEMMA ArrivalStep ==
  ASSUME IInv, LedgerInv, NEW p \in Projects, NEW e \in Events, e \notin stored,
         stored' = stored \cup {e},
         UNCHANGED <<processed, reprocessed>>,
         late' \cup glued' \in {late \cup glued, late \cup glued \cup {e}},
         Contents(lines'[p]) \in {Contents(lines[p]), Contents(lines[p]) \cup {e}},
         \A q \in Projects \ {p} : Contents(lines'[q]) = Contents(lines[q]),
         Undisturbed
  PROVE  LedgerInv' /\ LedgerStep
<1>1. Ledger!Arrive(e)
  <2>1. InSomeBuffer' \in {InSomeBuffer, InSomeBuffer \cup {e}}
    BY DEF InSomeBuffer
  <2>2. crashes > 0 => crashes' > 0
    BY DEF Undisturbed, AllRunsDie
  <2> QED BY <2>1, <2>2 DEF Ledger!Arrive
<1>2. LedgerInv'
  BY DEF LedgerInv, Undisturbed, AllRunsDie, RunsGoOn
<1> QED BY <1>1, <1>2 DEF LedgerStep, Ledger!LedgerNext

\* Nothing the ledger knows of changes, unless the daemon dies.
LEMMA QuietStep ==
  ASSUME IInv, LedgerInv, UNCHANGED <<lines, stored, processed, reprocessed, late, glued>>,
         Undisturbed
  PROVE  LedgerInv' /\ LedgerStep
<1>1. LedgerInv'
  BY DEF LedgerInv, Undisturbed, AllRunsDie, RunsGoOn
<1>2. UNCHANGED <<InSomeBuffer, late \cup glued>>
  BY DEF InSomeBuffer
<1>3. ASSUME AllRunsDie
      PROVE  LedgerStep
  BY <1>2, <1>3 DEF LedgerStep, Ledger!LedgerNext, AllRunsDie
<1>4. ASSUME crashes' = crashes
      PROVE  LedgerStep
  BY <1>2, <1>4 DEF LedgerStep, Ledger!ledger
<1> QED BY <1>1, <1>3, <1>4 DEF Undisturbed

\* A batch is covered: it waits, and is covered for the first time.
LEMMA CoverStep ==
  ASSUME IInv, LedgerInv, NEW p \in Projects, HoldsSnapshot(p), ~anyCommitted[p],
         Process(snapshot[p]), UNCHANGED <<stored, late, glued>>,
         crashes > 0 => crashes' > 0,
         InSomeBuffer' \subseteq InSomeBuffer,
         InSomeBuffer \ InSomeBuffer' \subseteq processed' \cup late
  PROVE  LedgerStep
<1>1. /\ snapshot[p] \in SUBSET Events
      /\ snapshot[p] \subseteq Contents(lines[p])
      /\ crashes \in Nat
  BY DEF IInv, TypeOK, LedgerInv
<1>2. snapshot[p] \subseteq InSomeBuffer
  BY <1>1 DEF InSomeBuffer
<1>3. snapshot[p] \cap processed # {} => crashes > 0
  BY <1>1 DEF LedgerInv
<1>4. Ledger!Cover(snapshot[p])
  BY <1>2, <1>3 DEF Ledger!Cover, Process
<1>5. Ledger!Leave
  BY DEF Ledger!Leave
<1> QED BY <1>1, <1>4, <1>5 DEF LedgerStep, Ledger!LedgerNext

\* A run that has processed its batch ends: its file goes.
LEMMA ClearStep ==
  ASSUME IInv, LedgerInv, NEW p \in Projects, HoldsSlot(p), FinishSuccess(p),
         UNCHANGED <<stored, process, late, glued>>
  PROVE  /\ Contents(lines'[p]) = {}
         /\ \A q \in Projects \ {p} : Contents(lines'[q]) = Contents(lines[q])
         /\ InSomeBuffer' \subseteq InSomeBuffer
         /\ InSomeBuffer \ InSomeBuffer' \subseteq Contents(lines[p])
         /\ crashes' = crashes
         /\ ~HoldsSnapshot(p)'
         /\ \A q \in Projects \ {p} :
              /\ HoldsSnapshot(q)' => HoldsSnapshot(q) /\ snapshot'[q] = snapshot[q]
              /\ anyCommitted'[q] = anyCommitted[q]
<1>1. /\ lines' = [lines EXCEPT ![p] = <<>>]
      /\ phase'[p] = "none"
      /\ snapshot' = [snapshot EXCEPT ![p] = {}]
      /\ anyCommitted' = [anyCommitted EXCEPT ![p] = FALSE]
      /\ \A q \in Projects \ {p} :
           phase'[q] = phase[q] \/ (phase[q] = "waiting" /\ phase'[q] = "granted")
  BY FinishSuccessEffect, IInvFacts
<1>2. /\ Contents(lines'[p]) = {}
      /\ \A q \in Projects \ {p} : Contents(lines'[q]) = Contents(lines[q])
  BY <1>1, EmptyContents, IInvFacts
<1>3. /\ InSomeBuffer' \subseteq InSomeBuffer
      /\ InSomeBuffer \ InSomeBuffer' \subseteq Contents(lines[p])
  BY <1>2 DEF InSomeBuffer
<1>4. /\ ~HoldsSnapshot(p)'
      /\ \A q \in Projects \ {p} :
           /\ HoldsSnapshot(q)' => HoldsSnapshot(q) /\ snapshot'[q] = snapshot[q]
           /\ anyCommitted'[q] = anyCommitted[q]
  BY <1>1 DEF HoldsSnapshot, IInv, TypeOK
<1> QED BY <1>2, <1>3, <1>4 DEF process

\* A run succeeds, with a batch it has just processed or processed before.
LEMMA SuccessLedgerStep ==
  ASSUME IInv, LedgerInv, NEW p \in Projects, HoldsSnapshot(p), FinishSuccess(p),
         UNCHANGED <<stored, process, late, glued>>,
         IF anyCommitted[p] THEN UNCHANGED <<processed, reprocessed>>
                            ELSE Process(snapshot[p])
  PROVE  LedgerInv' /\ LedgerStep
<1>0. HoldsSlot(p)
  BY DEF HoldsSnapshot, HoldsSlot
<1>1. /\ Contents(lines'[p]) = {}
      /\ \A q \in Projects \ {p} : Contents(lines'[q]) = Contents(lines[q])
      /\ InSomeBuffer' \subseteq InSomeBuffer
      /\ InSomeBuffer \ InSomeBuffer' \subseteq Contents(lines[p])
      /\ crashes' = crashes
      /\ ~HoldsSnapshot(p)'
      /\ \A q \in Projects \ {p} :
           /\ HoldsSnapshot(q)' => HoldsSnapshot(q) /\ snapshot'[q] = snapshot[q]
           /\ anyCommitted'[q] = anyCommitted[q]
  BY <1>0, ClearStep
<1>2. processed' = processed \cup snapshot[p]
  BY DEF Process, IInv, SnapshotCovers
<1>3. Contents(lines[p]) \subseteq processed' \cup late
  BY <1>2 DEF IInv, SnapshotCovers
<1>4. LedgerInv'
  BY <1>1, <1>2 DEF LedgerInv
<1>5. ASSUME anyCommitted[p]
      PROVE  LedgerStep
  <2>1. Ledger!Leave
    BY <1>1, <1>3 DEF Ledger!Leave
  <2> QED BY <1>1, <1>5, <2>1 DEF LedgerStep, Ledger!LedgerNext
<1>6. ASSUME ~anyCommitted[p]
      PROVE  LedgerStep
  BY <1>1, <1>3, <1>6, CoverStep
<1> QED BY <1>4, <1>5, <1>6

\* A run ends in failure, and nothing of the ledger changes.
LEMMA FailureLedgerStep ==
  ASSUME IInv, LedgerInv, NEW p \in Projects, HoldsSlot(p), FinishFailure(p),
         ~anyCommitted[p], UNCHANGED <<stored, processed, process, history>>
  PROVE  LedgerInv' /\ LedgerStep
<1>1. /\ UNCHANGED lines
      /\ phase'[p] = "none"
      /\ snapshot' = [snapshot EXCEPT ![p] = {}]
      /\ anyCommitted' = [anyCommitted EXCEPT ![p] = FALSE]
      /\ \A q \in Projects \ {p} :
           phase'[q] = phase[q] \/ (phase[q] = "waiting" /\ phase'[q] = "granted")
  BY FinishFailureEffect, IInvFacts
<1>2. RunsGoOn
  BY <1>1 DEF RunsGoOn, HoldsSnapshot, IInv, TypeOK
<1> QED BY <1>1, <1>2, QuietStep DEF Undisturbed, process, history

-----------------------------------------------------------------------------
(* The steps of the pipeline. *)

LEMMA PostLedgerStep ==
  ASSUME IInv, LedgerInv, NEW p \in Projects, NEW e \in Events, Post(p, e)
  PROVE  LedgerInv' /\ LedgerStep
<1>1. e \notin stored /\ stored' = stored \cup {e}
  BY DEF Post, PostSkipped, PostBuffered, PostWriteFails, Posting
<1>2. CASE PostSkipped(p, e) \/ PostWriteFails(p, e)
  <2>1. /\ UNCHANGED <<lines, processed, pipeline, process, history>>
    BY <1>2 DEF PostSkipped, PostWriteFails, AppendFragment
  <2>2. Undisturbed
    BY <2>1 DEF Undisturbed, RunsGoOn, HoldsSnapshot, pipeline, process
  <2> QED BY <1>1, <2>1, <2>2, ArrivalStep DEF history
<1>3. CASE PostBuffered(p, e)
  <2> DEFINE line == IF Torn(p) THEN {} ELSE {e}
  <2>1. /\ lines' = [lines EXCEPT ![p] = Append(lines[p], line)]
        /\ NotifyAppend(p, 1)
        /\ late' \cup glued' \in {late \cup glued, late \cup glued \cup {e}}
        /\ UNCHANGED <<processed, reprocessed, crashes>>
    BY <1>3, IInvFacts DEF PostBuffered, AppendLine, process
  <2>2. lines[p] \in Seq(SUBSET Events) /\ line \in SUBSET {e} /\ line \in SUBSET Events
    BY IInvFacts
  <2> HIDE DEF line
  <2>3. Contents(Append(lines[p], line)) = Contents(lines[p]) \cup line
    BY <2>2, AppendContents, SMTT(30)
  <2>4. /\ Contents(lines'[p]) = Contents(lines[p]) \cup line
        /\ \A q \in Projects \ {p} : Contents(lines'[q]) = Contents(lines[q])
    BY <2>1, <2>3, IInvFacts
  <2>5. RunsGoOn
    BY <2>1, NotifyAppendEffect, IInvFacts DEF RunsGoOn, HoldsSnapshot
  <2>6. Contents(lines'[p]) \in {Contents(lines[p]), Contents(lines[p]) \cup {e}}
    BY <2>2, <2>4
  <2> QED BY <1>1, <2>1, <2>4, <2>5, <2>6, ArrivalStep DEF Undisturbed
<1> QED BY <1>2, <1>3 DEF Post

LEMMA CrashInPostLedgerStep ==
  ASSUME IInv, LedgerInv, NEW p \in Projects, NEW e \in Events, CrashInPost(p, e)
  PROVE  LedgerInv' /\ LedgerStep
<1>1. /\ e \notin stored /\ stored' = stored \cup {e}
      /\ UNCHANGED <<processed, reprocessed, late, glued>>
      /\ Undisturbed
  BY GoDownKillsRuns DEF CrashInPost, Posting, history, IInv, TypeOK
<1>2. CASE UNCHANGED lines
  BY <1>1, <1>2, ArrivalStep
<1>3. CASE AppendLine(p, {e})
  <2> DEFINE line == IF Torn(p) THEN {} ELSE {e}
  <2>1. lines' = [lines EXCEPT ![p] = Append(lines[p], line)]
    BY <1>3, IInvFacts DEF AppendLine
  <2>2. lines[p] \in Seq(SUBSET Events) /\ line \in SUBSET {e} /\ line \in SUBSET Events
    BY IInvFacts
  <2> HIDE DEF line
  <2>3. Contents(Append(lines[p], line)) = Contents(lines[p]) \cup line
    BY <2>2, AppendContents, SMTT(30)
  <2>4. /\ Contents(lines'[p]) = Contents(lines[p]) \cup line
        /\ \A q \in Projects \ {p} : Contents(lines'[q]) = Contents(lines[q])
    BY <2>1, <2>3, IInvFacts
  <2>5. Contents(lines'[p]) \in {Contents(lines[p]), Contents(lines[p]) \cup {e}}
    BY <2>2, <2>4
  <2> QED BY <1>1, <2>4, <2>5, ArrivalStep
<1> QED BY <1>2, <1>3 DEF CrashInPost, AppendFragment

LEMMA TakeSnapshotLedgerStep ==
  ASSUME IInv, LedgerInv, NEW p \in Projects, TakeSnapshot(p)
  PROVE  LedgerInv' /\ LedgerStep
<1>0. /\ phase[p] = "granted" /\ HoldsSlot(p)
      /\ UNCHANGED <<stored, processed, process, history>>
  BY DEF TakeSnapshot, HoldsSlot
<1>1. CASE Contents(lines[p]) = {} /\ FinishSuccess(p)
  <2>1. /\ Contents(lines'[p]) = {}
        /\ \A q \in Projects \ {p} : Contents(lines'[q]) = Contents(lines[q])
        /\ InSomeBuffer' \subseteq InSomeBuffer
        /\ InSomeBuffer \ InSomeBuffer' \subseteq Contents(lines[p])
        /\ crashes' = crashes
        /\ ~HoldsSnapshot(p)'
        /\ \A q \in Projects \ {p} :
             /\ HoldsSnapshot(q)' => HoldsSnapshot(q) /\ snapshot'[q] = snapshot[q]
             /\ anyCommitted'[q] = anyCommitted[q]
    BY <1>0, <1>1, ClearStep DEF history
  <2>2. LedgerInv'
    BY <1>0, <1>1, <2>1 DEF LedgerInv
  <2>3. Ledger!Leave
    BY <1>1, <2>1 DEF Ledger!Leave
  <2> QED BY <1>0, <2>1, <2>2, <2>3 DEF LedgerStep, Ledger!LedgerNext, history
<1>2. CASE /\ phase' = [phase EXCEPT ![p] = "extracting"]
           /\ snapshot' = [snapshot EXCEPT ![p] = Contents(lines[p])]
           /\ UNCHANGED <<lines, fragments, watcher, activeCount, waitQueue, anyCommitted>>
  <2>1. /\ snapshot'[p] = Contents(lines[p])
        /\ \A q \in Projects \ {p} :
             (HoldsSnapshot(q)' <=> HoldsSnapshot(q)) /\ snapshot'[q] = snapshot[q]
    BY <1>2 DEF HoldsSnapshot, IInv, TypeOK
  <2>2. LedgerInv'
    BY <1>0, <1>2, <2>1 DEF LedgerInv, process
  <2>3. UNCHANGED Ledger!ledger
    BY <1>0, <1>2 DEF Ledger!ledger, InSomeBuffer, process, history
  <2> QED BY <2>2, <2>3 DEF LedgerStep
<1> QED BY <1>1, <1>2 DEF TakeSnapshot

LEMMA AnswersLedgerStep ==
  ASSUME IInv, LedgerInv, NEW p \in Projects, Answers(p)
  PROVE  LedgerInv' /\ LedgerStep
<1>0. HoldsSlot(p) /\ HoldsSnapshot(p) /\ phase[p] = "extracting" /\ ~anyCommitted[p]
  BY DEF Answers, ExtractionFails, ExtractionCompletes, ReconciliationStarts,
         HoldsSlot, HoldsSnapshot, IInv, SnapshotCovers
<1>1. CASE ExtractionFails(p)
  BY <1>0, <1>1, FailureLedgerStep DEF ExtractionFails
<1>2. CASE ExtractionCompletes(p)
  BY <1>0, <1>2, SuccessLedgerStep DEF ExtractionCompletes
<1>3. CASE ReconciliationStarts(p)
  <2>1. RunsGoOn
    BY <1>0, <1>3 DEF ReconciliationStarts, RunsGoOn, HoldsSnapshot, IInv, TypeOK
  <2> QED BY <1>3, <2>1, QuietStep
      DEF ReconciliationStarts, Undisturbed, durable, process, history
<1> QED BY <1>1, <1>2, <1>3 DEF Answers

LEMMA ClusterSettlesLedgerStep ==
  ASSUME IInv, LedgerInv, NEW p \in Projects, NEW commits \in BOOLEAN,
         ClusterSettles(p, commits)
  PROVE  LedgerInv' /\ LedgerStep
<1>1. /\ HoldsSnapshot(p)
      /\ anyCommitted' = [anyCommitted EXCEPT ![p] = @ \/ commits]
      /\ UNCHANGED <<lines, stored, phase, snapshot, crashes, late, glued>>
  BY DEF ClusterSettles, HoldsSnapshot, process
<1>2. RunsGoOn
  BY <1>1 DEF RunsGoOn, HoldsSnapshot, IInv, TypeOK
<1>3. CASE commits /\ ~anyCommitted[p] /\ Process(snapshot[p])
  <2>1. UNCHANGED InSomeBuffer
    BY <1>1 DEF InSomeBuffer
  <2>2. LedgerStep
    BY <1>1, <1>3, <2>1, CoverStep
  <2>3. /\ anyCommitted'[p]
        /\ \A q \in Projects \ {p} : anyCommitted'[q] = anyCommitted[q]
    BY <1>1, <1>3 DEF IInv, TypeOK
  <2>4. LedgerInv'
    BY <1>1, <1>2, <1>3, <2>3 DEF LedgerInv, Process, RunsGoOn
  <2> QED BY <2>2, <2>4
<1>4. CASE UNCHANGED <<processed, reprocessed>>
  BY <1>1, <1>2, <1>4, QuietStep DEF Undisturbed
<1> QED BY <1>3, <1>4 DEF ClusterSettles

LEMMA LastClusterSettlesLedgerStep ==
  ASSUME IInv, LedgerInv, NEW p \in Projects, NEW commits \in BOOLEAN,
         LastClusterSettles(p, commits)
  PROVE  LedgerInv' /\ LedgerStep
<1>1. /\ HoldsSlot(p) /\ HoldsSnapshot(p)
      /\ UNCHANGED <<stored, process, buffered, late, glued>>
  BY DEF LastClusterSettles, HoldsSlot, HoldsSnapshot
<1>2. CASE commits \/ anyCommitted[p]
  BY <1>1, <1>2, SuccessLedgerStep DEF LastClusterSettles
<1>3. CASE ~(commits \/ anyCommitted[p])
  BY <1>1, <1>3, FailureLedgerStep DEF LastClusterSettles, history
<1> QED BY <1>2, <1>3

LEMMA DeathLedgerStep ==
  ASSUME IInv, LedgerInv, Crash \/ \E p \in Projects : CrashInCommit(p)
  PROVE  LedgerInv' /\ LedgerStep
<1>1. CASE Crash
  BY <1>1, GoDownKillsRuns, QuietStep DEF Crash, durable, history, IInv, TypeOK
<1>2. ASSUME NEW p \in Projects, CrashInCommit(p)
      PROVE  LedgerInv' /\ LedgerStep
  <2>1. /\ AllRunsDie
        /\ HoldsSnapshot(p) /\ ~anyCommitted[p] /\ Process(snapshot[p])
        /\ UNCHANGED <<lines, stored, late, glued>>
    BY <1>2, GoDownKillsRuns DEF CrashInCommit, IInv, TypeOK
  <2>2. LedgerInv'
    BY <2>1 DEF LedgerInv, AllRunsDie, Process
  <2>3. UNCHANGED InSomeBuffer
    BY <2>1 DEF InSomeBuffer
  <2> QED BY <2>1, <2>2, <2>3, CoverStep DEF AllRunsDie
<1> QED BY <1>1, <1>2

\* The steps that touch neither file nor database.
LEMMA WatcherLedgerStep ==
  ASSUME IInv, LedgerInv,
         \/ \E p \in Projects : IdleTimerFires(p) \/ Arm(p)
         \/ Restart
         \/ UNCHANGED vars
  PROVE  LedgerInv' /\ LedgerStep
<1>1. ASSUME NEW p \in Projects, IdleTimerFires(p)
      PROVE  RunsGoOn /\ UNCHANGED <<durable, process, history>>
  BY <1>1, FirePreservesFlags, IInvFacts
  DEF IdleTimerFires, RunsGoOn, HoldsSnapshot
<1>2. ASSUME NEW p \in Projects, Arm(p)
      PROVE  RunsGoOn /\ UNCHANGED <<lines, stored, processed, crashes, history>>
  <2>1. CASE NotifyAppend(p, FileSize(p))
    <3>1. FileSize(p) \in Nat
      BY SizesTyped DEF Sized, FileSize
    <3>2. RunsGoOn
      BY <2>1, <3>1, NotifyAppendEffect, IInvFacts DEF RunsGoOn, HoldsSnapshot
    <3> QED BY <1>2, <3>2 DEF Arm
  <2>2. CASE UNCHANGED <<watcher, pipeline>>
    BY <1>2, <2>2 DEF Arm, RunsGoOn, HoldsSnapshot, pipeline
  <2> QED BY <1>2, <2>1, <2>2 DEF Arm
<1>3. CASE Restart \/ UNCHANGED vars
  <2>1. RunsGoOn /\ UNCHANGED <<durable, crashes, history>>
    BY <1>3 DEF Restart, vars, process, pipeline, RunsGoOn, HoldsSnapshot
  <2> QED BY <2>1, QuietStep DEF durable, history, Undisturbed
<1> QED BY <1>1, <1>2, <1>3, QuietStep DEF durable, process, history, Undisturbed

LEMMA LedgerNextStep ==
  ASSUME IInv, LedgerInv, [Next]_vars
  PROVE  LedgerInv' /\ LedgerStep
<1>1. ASSUME NEW p \in Projects, RunStep(p)
      PROVE  LedgerInv' /\ LedgerStep
  BY <1>1, TakeSnapshotLedgerStep, AnswersLedgerStep, ClusterSettlesLedgerStep,
     LastClusterSettlesLedgerStep DEF RunStep, Settles
<1> QED BY <1>1, PostLedgerStep, CrashInPostLedgerStep, DeathLedgerStep,
           WatcherLedgerStep DEF Next

\* What ties files, snapshots and processed events together.
THEOREM LedgerInvariant == Spec => []LedgerInv
<1>1. IInv /\ LedgerInv /\ [Next]_vars => LedgerInv'
  BY LedgerNextStep
<1> QED BY LedgerInvInit, <1>1, Invariant, PTL DEF Spec

\* The pipeline implements the event ledger: an event that was stored is never
\* forgotten, one that waits in a buffer waits until a batch covers it, and no
\* batch covers it twice, outside the bad moments that the ledger names.
THEOREM PipelineKeepsLedger == Spec => LedgerKept
<1>1. IInv /\ LedgerInv /\ [Next]_vars => [Ledger!LedgerNext]_(Ledger!ledger)
  BY LedgerNextStep DEF LedgerStep
<1> QED BY LedgerInitHolds, <1>1, Invariant, LedgerInvariant, PTL
    DEF Spec, LedgerKept, Ledger!LedgerSpec

(*---------------------------------------------------------------------------*)
(* Compaction                                                               *)
(*---------------------------------------------------------------------------*)

\* Without fragments the counter says how many lines the file has.
CountedLines ==
  \A p \in Projects :
    mode = "up" \/ (mode = "arming" /\ p \notin toArm) => bytes[p] = Len(lines[p])

\* The part of the pipeline that compaction leaves as it is.
PipelineInv ==
  /\ TypeOK /\ InFlightMatchesRun /\ SlotsAccounted /\ BreakerStops
  /\ FreshUntilArmed /\ CountedLines
  /\ \A p \in Projects : fragments[p] = NoFragments

-----------------------------------------------------------------------------
(* The worker. *)

\* What a file may grow to.
Fits(n) ==
  \/ n <= BufferMaxBytes
  \/ /\ CompactionSizeThreshold + 1 <= BufferMaxBytes
     /\ n + CompactionSizeThreshold + 1 <= BufferMaxBytes + MaxSummaryLines

WorkerTyped ==
  /\ compactionInFlight \in [Projects -> BOOLEAN]
  /\ compactPhase \in [Projects -> {"idle", "summarizing", "evicting"}]
  /\ modelFailures \in [Projects -> 0 .. MaxConsecutiveModelFailures]
  /\ source \in Seq(SUBSET Events)
  /\ sinceOffset \in Nat

\* A compaction has a batch that is worth it, and a model that is not given up.
\* Nothing is appended past the ceiling beside it.
Works(p) ==
  /\ mode # "down" /\ p \notin toArm
  /\ sinceOffset = Len(source)
  /\ Len(source) > CompactionSizeThreshold /\ Fits(Len(source))
  /\ compactPhase[p] = "summarizing" => modelFailures[p] < MaxConsecutiveModelFailures
  /\ Len(lines[p]) <= Len(source) \/ Len(lines[p]) <= BufferMaxBytes

WorkerInv ==
  /\ WorkerTyped /\ GuardsAgree
  /\ \A p \in Projects : Compacting(p) => Works(p)
  /\ \A p \in Projects : Fits(Len(lines[p]))
  /\ stale \in BOOLEAN /\ (stale => WorkerBusy)

-----------------------------------------------------------------------------
(* What is in the files. *)

BeginsWith(file, head) ==
  /\ Len(head) <= Len(file)
  /\ \A i \in 1 .. Len(head) : file[i] = head[i]

\* Until a run deletes the file, the batch is its beginning; from then on the
\* batch is done with, and the file holds what came since.
SourceInv ==
  \A p \in Projects :
    Compacting(p) =>
      /\ Contents(source) \subseteq stored
      /\ ~stale => BeginsWith(lines[p], source)
      /\ stale => /\ Contents(source) \subseteq processed \cup late
                  /\ Contents(lines[p]) \subseteq exposed

RunsInv ==
  \A p \in Projects :
    /\ HoldsSnapshot(p) => Contents(lines[p]) \subseteq snapshot[p] \cup late \cup processed
    /\ ~HoldsSnapshot(p) => snapshot[p] = {}
    /\ anyCommitted[p] => phase[p] = "reconciling" /\ snapshot[p] \subseteq processed

Held(p) == Contents(lines[p]) \cup snapshot[p]

StoredInv ==
  /\ processed \subseteq stored
  /\ \A p \in Projects : Held(p) \subseteq stored

\* Before the first death and the first replace that puts a batch back, an event
\* is in one place.
Clean ==
  /\ reprocessed = {}
  /\ \A p, q \in Projects : p # q => Held(p) \cap Held(q) = {}
  /\ \A p \in Projects : ~anyCommitted[p] => Held(p) \cap processed = {}

HistoryTyped ==
  /\ staleReplaced \in BOOLEAN /\ exposed \subseteq Events /\ evicted \subseteq Events

FilesInv ==
  /\ HistoryTyped /\ SourceInv /\ RunsInv /\ StoredInv
  /\ NoLossOutsideOverlap
  /\ crashes = 0 /\ ~staleReplaced => Clean

CInv == PipelineInv /\ WorkerInv /\ FilesInv

-----------------------------------------------------------------------------
(* The pipeline. *)

\* The lemmas about the pipeline apply.
LEMMA PipelineFacts ==
  PipelineInv => /\ FlagsAndSlots /\ WatcherType /\ BreakerStops
                 /\ lines \in [Projects -> Seq(SUBSET Events)]
                 /\ fragments \in [Projects -> Fragments]
BY TypeGivesFlags DEF PipelineInv, WatcherType, TypeOK

\* PipelineInv after a step, from its parts.
LEMMA PipelineFrom ==
  ASSUME FlagsAndSlots', WatcherType', BreakerStops', FreshUntilArmed', CountedLines',
         PipelineInv, lines' \in [Projects -> Seq(SUBSET Events)], UNCHANGED fragments,
         stored' \in SUBSET Events, processed' \in SUBSET Events, reprocessed' \in SUBSET Events,
         buffered' \in SUBSET Events, late' \in SUBSET Events, glued' \in SUBSET Events,
         mode' \in {"up", "down", "arming"}, toArm' \in SUBSET Projects, crashes' \in Nat
  PROVE  PipelineInv'
<1>1. TypeOK'
  BY DEF PipelineInv, TypeOK, FlagsAndSlots, Slots, PipelineType, WatcherType
<1> QED BY <1>1 DEF PipelineInv, FlagsAndSlots, Slots

\* What the files and the process are, as PipelineInv knows it.
LEMMA PipelineTypes ==
  PipelineInv =>
    /\ stored \in SUBSET Events /\ processed \in SUBSET Events /\ reprocessed \in SUBSET Events
    /\ buffered \in SUBSET Events /\ late \in SUBSET Events /\ glued \in SUBSET Events
    /\ mode \in {"up", "down", "arming"} /\ toArm \in SUBSET Projects /\ crashes \in Nat
    /\ snapshot \in [Projects -> SUBSET Events] /\ anyCommitted \in [Projects -> BOOLEAN]
    /\ bytes \in [Projects -> Nat]
    /\ \A p \in Projects : /\ lines[p] \in Seq(SUBSET Events) /\ Len(lines[p]) \in Nat
                           /\ Contents(lines[p]) \in SUBSET Events
<1>1. ASSUME PipelineInv, NEW p \in Projects
      PROVE  lines[p] \in Seq(SUBSET Events) /\ Len(lines[p]) \in Nat /\ Contents(lines[p]) \in SUBSET Events
  <2>1. PICK file \in Seq(SUBSET Events) : file = lines[p]
    BY <1>1 DEF PipelineInv, TypeOK
  <2>2. Contents(file) \in SUBSET Events /\ Len(file) \in Nat
    BY ContentsType
  <2> QED BY <2>1, <2>2
<1>2. PipelineInv => TypeOK
  BY DEF PipelineInv
<1> QED BY <1>1, <1>2 DEF TypeOK

\* The runs of the others.
Others(p) ==
  \A q \in Projects \ {p} :
    /\ lines'[q] = lines[q] /\ snapshot'[q] = snapshot[q] /\ anyCommitted'[q] = anyCommitted[q]
    /\ HoldsSnapshot(q)' <=> HoldsSnapshot(q)
    /\ phase[q] = "reconciling" => phase'[q] = "reconciling"

\* A run of p waits, goes on, or fails.
Rests(p) ==
  /\ UNCHANGED <<lines, processed, reprocessed>>
  /\ \/ /\ HoldsSnapshot(p)' <=> HoldsSnapshot(p)
        /\ snapshot'[p] = snapshot[p] /\ anyCommitted'[p] = anyCommitted[p]
        /\ phase[p] = "reconciling" => phase'[p] = "reconciling"
     \/ /\ ~HoldsSnapshot(p)' /\ snapshot'[p] = {}
        /\ ~anyCommitted[p] /\ ~anyCommitted'[p]

\* It reads the file.
Takes(p) ==
  /\ UNCHANGED <<lines, processed, reprocessed>>
  /\ HoldsSnapshot(p)' /\ snapshot'[p] = Contents(lines[p])
  /\ ~anyCommitted[p] /\ ~anyCommitted'[p]

\* A cluster of it commits, the first or a further one.
Commits(p) ==
  /\ UNCHANGED lines
  /\ HoldsSnapshot(p) /\ phase'[p] = "reconciling"
  /\ snapshot'[p] = snapshot[p] /\ anyCommitted'[p]
  /\ IF anyCommitted[p] THEN UNCHANGED <<processed, reprocessed>> ELSE Process(snapshot[p])

\* It succeeds, if only because there was nothing to read.
Succeeds(p) ==
  /\ lines' = [lines EXCEPT ![p] = <<>>]
  /\ ~HoldsSnapshot(p)' /\ snapshot'[p] = {} /\ ~anyCommitted'[p]
  /\ \/ /\ UNCHANGED <<processed, reprocessed>>
        /\ Contents(lines[p]) = {} \/ (HoldsSnapshot(p) /\ anyCommitted[p])
     \/ Process(snapshot[p]) /\ HoldsSnapshot(p) /\ ~anyCommitted[p]

RunKeeps(p) ==
  /\ PipelineInv'
  /\ UNCHANGED <<stored, process, buffered, late, glued>>
  /\ Others(p)
  /\ Rests(p) \/ Takes(p) \/ Commits(p) \/ Succeeds(p)

\* A run that succeeds deletes its file and lets the next one in.
LEMMA RunSucceeds ==
  ASSUME PipelineInv, NEW p \in Projects, HoldsSlot(p), FinishSuccess(p), mode # "down",
         UNCHANGED <<stored, process, buffered, late, glued, fragments>>,
         processed' \in SUBSET Events, reprocessed' \in SUBSET Events
  PROVE  /\ PipelineInv' /\ Others(p)
         /\ lines' = [lines EXCEPT ![p] = <<>>]
         /\ ~HoldsSnapshot(p)' /\ snapshot'[p] = {} /\ ~anyCommitted'[p]
<1>1. /\ FlagsAndSlots' /\ WatcherType' /\ BreakerStops'
      /\ lines' = [lines EXCEPT ![p] = <<>>]
      /\ bytes' = [bytes EXCEPT ![p] = 0]
      /\ consecutiveFailures' = [consecutiveFailures EXCEPT ![p] = 0]
      /\ UNCHANGED idleTimer
      /\ phase'[p] = "none"
      /\ snapshot' = [snapshot EXCEPT ![p] = {}]
      /\ anyCommitted' = [anyCommitted EXCEPT ![p] = FALSE]
      /\ \A q \in Projects \ {p} :
           /\ extractionInFlight'[q] = extractionInFlight[q]
           /\ \/ phase'[q] = phase[q]
              \/ phase[q] = "waiting" /\ phase'[q] = "granted"
  BY FinishSuccessEffect, PipelineFacts
<1>2. extractionInFlight[p] /\ p \notin toArm
  BY DEF PipelineInv, InFlightMatchesRun, HoldsSlot, FreshUntilArmed
<1>3. /\ lines' \in [Projects -> Seq(SUBSET Events)]
      /\ lines'[p] = <<>> /\ Len(lines'[p]) = 0
      /\ \A q \in Projects \ {p} : lines'[q] = lines[q]
  <2>1. <<>> \in Seq(SUBSET Events) /\ Len(<<>>) = 0
    OBVIOUS
  <2>2. lines'[p] = <<>> /\ \A q \in Projects \ {p} : lines'[q] = lines[q]
    BY <1>1, PipelineFacts
  <2>3. lines' \in [Projects -> Seq(SUBSET Events)]
    BY <1>1, <2>1, PipelineFacts
  <2> QED BY <2>1, <2>2, <2>3
<1>4. FreshUntilArmed'
  BY <1>1, <1>2, PipelineFacts DEF PipelineInv, FreshUntilArmed, process, WatcherType
<1>5. CountedLines'
  BY <1>1, <1>3, PipelineFacts DEF PipelineInv, CountedLines, process, WatcherType
<1>6. PipelineInv'
  BY <1>1, <1>3, <1>4, <1>5, PipelineFrom, PipelineTypes DEF process
<1>7. /\ snapshot'[p] = {} /\ ~anyCommitted'[p]
      /\ \A q \in Projects \ {p} : snapshot'[q] = snapshot[q] /\ anyCommitted'[q] = anyCommitted[q]
  BY <1>1, PipelineTypes
<1>8. Others(p)
  BY <1>1, <1>3, <1>7 DEF Others, HoldsSnapshot
<1> QED BY <1>1, <1>6, <1>7, <1>8 DEF HoldsSnapshot

\* A run that fails leaves its file.
LEMMA RunFails ==
  ASSUME PipelineInv, NEW p \in Projects, HoldsSlot(p), FinishFailure(p), mode # "down",
         UNCHANGED <<stored, processed, process, history>>
  PROVE  /\ PipelineInv' /\ Others(p)
         /\ UNCHANGED lines
         /\ ~HoldsSnapshot(p)' /\ snapshot'[p] = {} /\ ~anyCommitted'[p]
<1>1. /\ FlagsAndSlots' /\ WatcherType' /\ BreakerStops'
      /\ UNCHANGED <<lines, fragments, bytes, idleTimer>>
      /\ consecutiveFailures' = [consecutiveFailures EXCEPT ![p] = @ + 1]
      /\ phase'[p] = "none"
      /\ snapshot' = [snapshot EXCEPT ![p] = {}]
      /\ anyCommitted' = [anyCommitted EXCEPT ![p] = FALSE]
      /\ \A q \in Projects \ {p} :
           /\ extractionInFlight'[q] = extractionInFlight[q]
           /\ \/ phase'[q] = phase[q]
              \/ phase[q] = "waiting" /\ phase'[q] = "granted"
  BY FinishFailureEffect, PipelineFacts
<1>2. extractionInFlight[p] /\ p \notin toArm
  BY DEF PipelineInv, InFlightMatchesRun, HoldsSlot, FreshUntilArmed
<1>3. \A q \in Projects \ {p} : consecutiveFailures'[q] = consecutiveFailures[q]
  BY <1>1, PipelineFacts DEF WatcherType
<1>4. FreshUntilArmed'
  BY <1>1, <1>2, <1>3 DEF PipelineInv, FreshUntilArmed, process
<1>5. CountedLines'
  BY <1>1 DEF PipelineInv, CountedLines, process
<1>6. PipelineInv'
  BY <1>1, <1>4, <1>5, PipelineFrom, PipelineTypes, PipelineFacts DEF process, history
<1>7. /\ snapshot'[p] = {} /\ ~anyCommitted'[p]
      /\ \A q \in Projects \ {p} : snapshot'[q] = snapshot[q] /\ anyCommitted'[q] = anyCommitted[q]
  BY <1>1, PipelineTypes
<1>8. Others(p)
  BY <1>1, <1>7 DEF Others, HoldsSnapshot
<1> QED BY <1>1, <1>6, <1>7, <1>8 DEF HoldsSnapshot

\* A step of a run, or the idle timer's.
LEMMA RunBesideKeeps ==
  ASSUME PipelineInv, RunsInv, NEW p \in Projects, IdleTimerFires(p) \/ RunStep(p), UNCHANGED fragments
  PROVE  RunKeeps(p)
<1>1. /\ FlagsAndSlots /\ WatcherType /\ BreakerStops
      /\ snapshot \in [Projects -> SUBSET Events] /\ anyCommitted \in [Projects -> BOOLEAN]
      /\ phase \in [Projects -> Phase]
  BY PipelineFacts, PipelineTypes DEF PipelineInv, TypeOK
<1>2. phase[p] # "reconciling" => ~anyCommitted[p]
  BY DEF RunsInv
<1>3. ASSUME Process(snapshot[p]) PROVE processed' \in SUBSET Events /\ reprocessed' \in SUBSET Events
  BY <1>3, ProcessType DEF PipelineInv
<1>4. CASE IdleTimerFires(p)
  <2>1. /\ FlagsAndSlots'
        /\ CanFire(p) => extractionInFlight'[p]
        /\ extractionInFlight[p] => extractionInFlight'[p]
        /\ ~CanFire(p) => phase'[p] = phase[p]
        /\ \/ phase'[p] = phase[p]
           \/ phase[p] = "none" /\ phase'[p] \in {"waiting", "granted"}
        /\ \A q \in Projects \ {p} :
             extractionInFlight'[q] = extractionInFlight[q] /\ phase'[q] = phase[q]
        /\ UNCHANGED <<snapshot, anyCommitted>>
    BY <1>1, <1>4, FirePreservesFlags DEF IdleTimerFires
  <2>2. /\ mode = "up" /\ idleTimer[p]
        /\ idleTimer' = [idleTimer EXCEPT ![p] = FALSE]
        /\ UNCHANGED <<lines, fragments, stored, processed, bytes, consecutiveFailures,
                       extractionDisabled, mode, toArm, crashes, history>>
    BY <1>4 DEF IdleTimerFires, Quiescent, durable, process
  <2>3. WatcherType' /\ BreakerStops'
    BY <1>1, <2>1, <2>2 DEF WatcherType, BreakerStops, CanFire
  <2>4. FreshUntilArmed' /\ CountedLines'
    BY <2>2 DEF PipelineInv, FreshUntilArmed, CountedLines
  <2>5. PipelineInv'
    BY <2>1, <2>2, <2>3, <2>4, PipelineFrom, PipelineTypes, PipelineFacts DEF history
  <2>6. Others(p) /\ Rests(p)
    BY <2>1, <2>2 DEF Others, Rests, HoldsSnapshot, history
  <2> QED BY <2>2, <2>5, <2>6 DEF RunKeeps, process, history
<1>5. CASE TakeSnapshot(p) /\ FinishSuccess(p) /\ Contents(lines[p]) = {}
  <2>1. UNCHANGED <<stored, processed, process, history>> /\ HoldsSlot(p) /\ mode # "down"
    BY <1>5 DEF TakeSnapshot, HoldsSlot
  <2>2. /\ PipelineInv' /\ Others(p)
        /\ lines' = [lines EXCEPT ![p] = <<>>]
        /\ ~HoldsSnapshot(p)' /\ snapshot'[p] = {} /\ ~anyCommitted'[p]
    BY <1>5, <2>1, RunSucceeds, PipelineTypes DEF history
  <2>3. Succeeds(p)
    BY <1>5, <2>1, <2>2 DEF Succeeds, history
  <2> QED BY <2>1, <2>2, <2>3 DEF RunKeeps, history
<1>6. ASSUME NEW ph \in {"extracting", "reconciling"}, HoldsSlot(p),
             phase' = [phase EXCEPT ![p] = ph], snapshot' \in [Projects -> SUBSET Events],
             \A q \in Projects \ {p} : snapshot'[q] = snapshot[q],
             UNCHANGED <<lines, fragments, stored, processed, watcher, activeCount, waitQueue, anyCommitted, process, history>>
      PROVE  PipelineInv' /\ Others(p) /\ phase'[p] = ph
  <2>1. FlagsAndSlots'
    BY <1>1, <1>6, PhaseChangePreservesFlags DEF watcher
  <2>2. phase'[p] = ph /\ \A q \in Projects \ {p} : phase'[q] = phase[q]
    BY <1>1, <1>6
  <2>3. extractionInFlight[p] /\ ~extractionDisabled[p]
    BY <1>6 DEF PipelineInv, InFlightMatchesRun, BreakerStops, HoldsSlot
  <2>4. WatcherType' /\ BreakerStops'
    BY <1>1, <1>6, <2>2, <2>3 DEF WatcherType, BreakerStops, watcher
  <2>5. FreshUntilArmed' /\ CountedLines'
    BY <1>6 DEF PipelineInv, FreshUntilArmed, CountedLines, watcher, process
  <2>6. PipelineInv'
    BY <1>6, <2>1, <2>4, <2>5, PipelineFrom, PipelineTypes, PipelineFacts DEF process, history
  <2>7. Others(p)
    BY <1>6, <2>2 DEF Others, HoldsSnapshot
  <2> QED BY <2>2, <2>6, <2>7
<1>7. CASE TakeSnapshot(p) /\ Contents(lines[p]) # {}
  <2>1. /\ phase[p] = "granted" /\ phase' = [phase EXCEPT ![p] = "extracting"]
        /\ snapshot' = [snapshot EXCEPT ![p] = Contents(lines[p])]
        /\ UNCHANGED <<lines, fragments, stored, processed, watcher, activeCount, waitQueue, anyCommitted, process, history>>
    BY <1>7 DEF TakeSnapshot
  <2>2. /\ snapshot' \in [Projects -> SUBSET Events]
        /\ snapshot'[p] = Contents(lines[p])
        /\ \A q \in Projects \ {p} : snapshot'[q] = snapshot[q]
    BY <1>1, <2>1, PipelineTypes
  <2>3. PipelineInv' /\ Others(p) /\ phase'[p] = "extracting"
    BY <1>6, <2>1, <2>2 DEF HoldsSlot
  <2>4. Takes(p)
    BY <1>2, <2>1, <2>2, <2>3 DEF Takes, HoldsSnapshot, history
  <2> QED BY <2>1, <2>3, <2>4 DEF RunKeeps, process, history
<1>8. CASE ReconciliationStarts(p)
  <2>1. /\ phase[p] = "extracting" /\ phase' = [phase EXCEPT ![p] = "reconciling"]
        /\ UNCHANGED <<lines, fragments, stored, processed, watcher, activeCount, waitQueue, snapshot, anyCommitted, process, history>>
    BY <1>8 DEF ReconciliationStarts, durable
  <2>2. PipelineInv' /\ Others(p) /\ phase'[p] = "reconciling"
    BY <1>1, <1>6, <2>1 DEF HoldsSlot
  <2>3. Rests(p)
    BY <2>1, <2>2 DEF Rests, HoldsSnapshot, history
  <2> QED BY <2>1, <2>2, <2>3 DEF RunKeeps, process, history
<1>9. ASSUME FinishFailure(p), HoldsSnapshot(p), mode # "down", ~anyCommitted[p],
             UNCHANGED <<stored, processed, process, history>>
      PROVE  RunKeeps(p)
  <2>1. HoldsSlot(p)
    BY <1>9 DEF HoldsSlot, HoldsSnapshot
  <2>2. /\ PipelineInv' /\ Others(p)
        /\ UNCHANGED lines
        /\ ~HoldsSnapshot(p)' /\ snapshot'[p] = {} /\ ~anyCommitted'[p]
    BY <1>9, <2>1, RunFails
  <2>3. Rests(p)
    BY <1>9, <2>2 DEF Rests, history
  <2> QED BY <1>9, <2>2, <2>3 DEF RunKeeps, history
<1>10. ASSUME FinishSuccess(p), HoldsSnapshot(p), mode # "down",
              UNCHANGED <<stored, process, buffered, late, glued>>,
              IF anyCommitted[p] THEN UNCHANGED <<processed, reprocessed>> ELSE Process(snapshot[p])
       PROVE  RunKeeps(p)
  <2>1. HoldsSlot(p)
    BY <1>10 DEF HoldsSlot, HoldsSnapshot
  <2>2. processed' \in SUBSET Events /\ reprocessed' \in SUBSET Events
    BY <1>3, <1>10, PipelineTypes
  <2>3. /\ PipelineInv' /\ Others(p)
        /\ lines' = [lines EXCEPT ![p] = <<>>]
        /\ ~HoldsSnapshot(p)' /\ snapshot'[p] = {} /\ ~anyCommitted'[p]
    BY <1>10, <2>1, <2>2, RunSucceeds
  <2>4. Succeeds(p)
    BY <1>10, <2>3 DEF Succeeds
  <2> QED BY <1>10, <2>3, <2>4 DEF RunKeeps
<1>11. CASE ExtractionFails(p)
  <2>1. /\ FinishFailure(p) /\ HoldsSnapshot(p) /\ mode # "down" /\ ~anyCommitted[p]
        /\ UNCHANGED <<stored, processed, process, history>>
    BY <1>2, <1>11 DEF ExtractionFails, Quiescent, HoldsSnapshot
  <2> QED BY <1>9, <2>1
<1>12. CASE ExtractionCompletes(p)
  <2>1. /\ FinishSuccess(p) /\ HoldsSnapshot(p) /\ mode # "down" /\ ~anyCommitted[p]
        /\ Process(snapshot[p]) /\ UNCHANGED <<stored, process, buffered, late, glued>>
    BY <1>2, <1>12 DEF ExtractionCompletes, Quiescent, HoldsSnapshot
  <2> QED BY <1>10, <2>1
<1>13. ASSUME NEW commits \in BOOLEAN, ClusterSettles(p, commits) PROVE RunKeeps(p)
  <2>1. /\ phase[p] = "reconciling"
        /\ anyCommitted' = [anyCommitted EXCEPT ![p] = @ \/ commits]
        /\ IF commits /\ ~anyCommitted[p] THEN Process(snapshot[p]) ELSE UNCHANGED <<processed, reprocessed>>
        /\ UNCHANGED <<lines, fragments, stored, watcher, activeCount, waitQueue, phase,
                       snapshot, process, buffered, late, glued>>
    BY <1>13 DEF ClusterSettles
  <2>2. /\ anyCommitted' \in [Projects -> BOOLEAN]
        /\ anyCommitted'[p] <=> (anyCommitted[p] \/ commits)
        /\ \A q \in Projects \ {p} : anyCommitted'[q] = anyCommitted[q]
    BY <1>1, <2>1, Zenon
  <2>3. processed' \in SUBSET Events /\ reprocessed' \in SUBSET Events
    BY <1>3, <2>1, PipelineTypes
  <2>4. FlagsAndSlots' /\ WatcherType' /\ BreakerStops' /\ FreshUntilArmed' /\ CountedLines'
    BY <1>1, <2>1, <2>2
    DEF FlagsAndSlots, Slots, PipelineType, SlotsAccounted, SlotHolders, HoldsSlot, InFlightMatchesRun,
        WatcherType, BreakerStops, PipelineInv, FreshUntilArmed, CountedLines, watcher, process
  <2>5. PipelineInv'
    BY <2>1, <2>3, <2>4, PipelineFrom, PipelineTypes, PipelineFacts DEF process
  <2>6. Others(p)
    BY <2>1, <2>2 DEF Others, HoldsSnapshot
  <2>7. Rests(p) \/ Commits(p)
    <3>1. CASE anyCommitted'[p]
      <4>1. IF anyCommitted[p] THEN UNCHANGED <<processed, reprocessed>> ELSE Process(snapshot[p])
        BY <2>1, <2>2, <3>1
      <4> QED BY <2>1, <3>1, <4>1 DEF Commits, HoldsSnapshot
    <3>2. CASE ~anyCommitted'[p]
      <4>1. ~anyCommitted[p] /\ ~commits
        BY <2>2, <3>2
      <4>2. anyCommitted'[p] = anyCommitted[p]
        BY <1>1, <2>2, <3>2, <4>1
      <4> QED BY <2>1, <4>1, <4>2 DEF Rests, HoldsSnapshot
    <3> QED BY <3>1, <3>2
  <2> QED BY <2>1, <2>5, <2>6, <2>7 DEF RunKeeps
<1>14. ASSUME NEW commits \in BOOLEAN, LastClusterSettles(p, commits) PROVE RunKeeps(p)
  <2>1. /\ HoldsSnapshot(p) /\ mode # "down"
        /\ IF commits /\ ~anyCommitted[p] THEN Process(snapshot[p]) ELSE UNCHANGED <<processed, reprocessed>>
        /\ IF commits \/ anyCommitted[p] THEN FinishSuccess(p) ELSE FinishFailure(p)
        /\ UNCHANGED <<stored, process, buffered, late, glued>>
    BY <1>14 DEF LastClusterSettles, Quiescent, HoldsSnapshot
  <2>2. CASE commits \/ anyCommitted[p]
    BY <1>10, <2>1, <2>2
  <2>3. CASE ~commits /\ ~anyCommitted[p]
    BY <1>9, <2>1, <2>3 DEF history
  <2> QED BY <2>2, <2>3
<1> QED BY <1>4, <1>5, <1>7, <1>8, <1>11, <1>12, <1>13, <1>14 DEF RunStep, Answers, Settles, TakeSnapshot

-----------------------------------------------------------------------------
(* Files as sequences of lines. *)

\* Contents, element by element.
LEMMA ContentsHas ==
  ASSUME NEW file \in Seq(SUBSET Events)
  PROVE  \A x : x \in Contents(file) <=> \E i \in 1 .. Len(file) : x \in file[i]
<1>1. DOMAIN file = 1 .. Len(file)
  OBVIOUS
<1> QED BY <1>1, Zenon DEF Contents

\* A batch that has just been read is the whole file.
LEMMA BeginsItself ==
  ASSUME NEW file \in Seq(SUBSET Events)
  PROVE  BeginsWith(file, file)
<1>1. Len(file) \in Nat
  OBVIOUS
<1> QED BY <1>1 DEF BeginsWith

\* What a file begins with is in it.
LEMMA BeginsContents ==
  ASSUME NEW file \in Seq(SUBSET Events), NEW head \in Seq(SUBSET Events), BeginsWith(file, head)
  PROVE  Contents(head) \subseteq Contents(file)
<1>1. SUFFICES ASSUME NEW x \in Contents(head) PROVE x \in Contents(file)
  OBVIOUS
<1>2. PICK i \in 1 .. Len(head) : x \in head[i]
  BY <1>1, ContentsHas
<1>3. i \in 1 .. Len(file) /\ file[i] = head[i]
  BY <1>2 DEF BeginsWith
<1> QED BY <1>2, <1>3, ContentsHas

\* An append leaves the beginning as it is.
LEMMA BeginsAppended ==
  ASSUME NEW file \in Seq(SUBSET Events), NEW head \in Seq(SUBSET Events), BeginsWith(file, head),
         NEW line \in SUBSET Events
  PROVE  BeginsWith(Append(file, line), head)
BY DEF BeginsWith

\* The new file of a replace: the new entries, then what lies behind the offset.
IsReplaced(t, n, file, offset) ==
  /\ t \in Seq(SUBSET Events)
  /\ Len(t) = Len(n) + (IF Len(file) > offset THEN Len(file) - offset ELSE 0)
  /\ Contents(t) \subseteq Contents(n) \cup Contents(file)
  /\ \A x : x \in Contents(n) => x \in Contents(t)
  /\ \A j \in 1 .. Len(file) : j > offset => file[j] \subseteq Contents(t)

IsJoined(t, n, c) ==
  /\ Len(t) = Len(n) + Len(c) /\ Len(n) \in Nat /\ Len(c) \in Nat
  /\ \A i \in 1 .. Len(n) : i \in 1 .. Len(t) /\ t[i] = n[i]
  /\ \A j \in 1 .. Len(c) : Len(n) + j \in 1 .. Len(t) /\ t[Len(n) + j] = c[j]

\* Concatenation, line by line.
LEMMA JoinedIs ==
  ASSUME NEW S, NEW n \in Seq(S), NEW c \in Seq(S), NEW t, t = n \o c
  PROVE  t \in Seq(S) /\ IsJoined(t, n, c)
<1>1. Len(n) \in Nat /\ Len(c) \in Nat /\ t \in Seq(S) /\ Len(t) = Len(n) + Len(c)
  OBVIOUS
<1>2. ASSUME NEW i \in 1 .. Len(n) PROVE i \in 1 .. Len(t) /\ t[i] = n[i]
  BY <1>1
<1>3. ASSUME NEW j \in 1 .. Len(c) PROVE Len(n) + j \in 1 .. Len(t) /\ t[Len(n) + j] = c[j]
  BY <1>1
<1> QED BY <1>1, <1>2, <1>3 DEF IsJoined

\* What replace writes is such a file.
LEMMA ReplacedIs ==
  ASSUME NEW n \in Seq(SUBSET Events), NEW file \in Seq(SUBSET Events), NEW offset \in Nat
  PROVE  IsReplaced(n \o SubSeq(file, offset + 1, Len(file)), n, file, offset)
<1>1. PICK c : c = SubSeq(file, offset + 1, Len(file))
  OBVIOUS
<1>2. /\ c \in Seq(SUBSET Events)
      /\ Len(c) = IF Len(file) > offset THEN Len(file) - offset ELSE 0
      /\ \A i \in 1 .. Len(c) : c[i] = file[offset + i] /\ offset + i \in 1 .. Len(file)
  BY <1>1
<1>3. PICK t : t = n \o c
  OBVIOUS
<1>4. /\ t \in Seq(SUBSET Events) /\ Len(t) = Len(n) + Len(c) /\ Len(n) \in Nat /\ Len(c) \in Nat
      /\ \A i \in 1 .. Len(n) : i \in 1 .. Len(t) /\ t[i] = n[i]
      /\ \A j \in 1 .. Len(c) : Len(n) + j \in 1 .. Len(t) /\ t[Len(n) + j] = c[j]
  <2>1. t \in Seq(SUBSET Events) /\ IsJoined(t, n, c)
    BY <1>2, <1>3, JoinedIs, Zenon
  <2> QED BY <2>1 DEF IsJoined
<1>5. Contents(t) \subseteq Contents(n) \cup Contents(file)
  <2>1. SUFFICES ASSUME NEW x \in Contents(t) PROVE x \in Contents(n) \cup Contents(file)
    OBVIOUS
  <2>2. PICK i \in 1 .. Len(t) : x \in t[i]
    BY <1>4, <2>1, ContentsHas
  <2>3. CASE i <= Len(n)
    <3>1. i \in 1 .. Len(n) /\ x \in n[i]
      BY <1>4, <2>2, <2>3
    <3> QED BY <3>1, ContentsHas
  <2>4. CASE i > Len(n)
    <3>1. PICK j \in 1 .. Len(c) : i = Len(n) + j
      <4>1. i \in Nat /\ i <= Len(n) + Len(c) /\ Len(n) \in Nat /\ Len(c) \in Nat
        BY <1>4, <2>2
      <4>2. i - Len(n) \in 1 .. Len(c) /\ i = Len(n) + (i - Len(n))
        BY <2>4, <4>1
      <4> QED BY <4>2
    <3>2. offset + j \in 1 .. Len(file) /\ x \in file[offset + j]
      BY <1>2, <1>4, <2>2, <3>1
    <3> QED BY <3>2, ContentsHas
  <2> QED BY <1>4, <2>2, <2>3, <2>4
<1>6. ASSUME NEW x \in Contents(n) PROVE x \in Contents(t)
  <2>1. PICK i \in 1 .. Len(n) : x \in n[i]
    BY <1>6, ContentsHas
  <2>2. i \in 1 .. Len(t) /\ t[i] = n[i]
    BY <1>4, <2>1
  <2> QED BY <1>4, <2>1, <2>2, ContentsHas
<1>7. ASSUME NEW j \in 1 .. Len(file), j > offset PROVE file[j] \subseteq Contents(t)
  <2>1. PICK i \in 1 .. Len(c) : i = j - offset
    BY <1>2, <1>7
  <2>2. c[i] = file[j]
    BY <1>2, <1>7, <2>1
  <2>3. Len(n) + i \in 1 .. Len(t) /\ t[Len(n) + i] = c[i]
    BY <1>4
  <2>4. SUFFICES ASSUME NEW x \in file[j] PROVE x \in Contents(t)
    OBVIOUS
  <2> QED BY <1>4, <2>2, <2>3, ContentsHas
<1>8. IsReplaced(t, n, file, offset)
  BY <1>2, <1>4, <1>5, <1>6, <1>7 DEF IsReplaced
<1> QED BY <1>1, <1>3, <1>8

\* Nothing is lost between the batch and what lies behind it.
LEMMA ReplacedLoses ==
  ASSUME NEW file \in Seq(SUBSET Events), NEW head \in Seq(SUBSET Events), BeginsWith(file, head),
         NEW n, NEW t, IsReplaced(t, n, file, Len(head))
  PROVE  Contents(file) \subseteq Contents(head) \cup Contents(t)
<1>1. SUFFICES ASSUME NEW x \in Contents(file), x \notin Contents(t) PROVE x \in Contents(head)
  OBVIOUS
<1>2. PICK i \in 1 .. Len(file) : x \in file[i]
  BY <1>1, ContentsHas
<1>3. i \in 1 .. Len(head)
  BY <1>1, <1>2 DEF IsReplaced
<1>4. x \in head[i]
  BY <1>2, <1>3 DEF BeginsWith
<1> QED BY <1>3, <1>4, ContentsHas

\* A replace does not grow a file past what it may grow to: the answer is at
\* most MaxSummaryLines long, the batch is longer than the threshold, and what was
\* appended meanwhile passed the gate.
LEMMA ReplacedFits ==
  ASSUME NEW s \in Nat, NEW l \in Nat, NEW n \in Nat, s > CompactionSizeThreshold, Fits(s),
         l <= s \/ l <= BufferMaxBytes, n <= s \/ n <= MaxSummaryLines
  PROVE  Fits(n + (IF l > s THEN l - s ELSE 0))
BY CompactionAssumption, ThresholdAssumption DEF Fits

-----------------------------------------------------------------------------
(* The trigger. *)

\* Nothing changes, or p's compaction begins with the file as it is.
Begins(p) ==
  /\ ~WorkerBusy
  /\ compactPhase'[p] # "idle"
  /\ \A q \in Projects \ {p} : compactPhase'[q] = "idle"
  /\ source' = lines'[p] /\ sinceOffset' = Len(source')
  /\ Len(source') > CompactionSizeThreshold
  /\ compactPhase'[p] = "summarizing" => modelFailures'[p] < MaxConsecutiveModelFailures

\* The trigger keeps the flags in step.
LEMMA FireKeeps ==
  ASSUME WorkerTyped, GuardsAgree, NEW p \in Projects, FireCompaction(p),
         bytes'[p] = Len(lines'[p]), lines'[p] \in Seq(SUBSET Events), Len(lines'[p]) \in Nat
  PROVE  WorkerTyped' /\ GuardsAgree' /\ (UNCHANGED worker \/ Begins(p))
<1>1. CASE UNCHANGED worker
  BY <1>1 DEF worker, WorkerTyped, GuardsAgree, Compacting
<1>2. CASE /\ bytes'[p] > CompactionSizeThreshold
           /\ ~compactionInFlight[p]
           /\ ~WorkerBusy
           /\ compactionInFlight' = [compactionInFlight EXCEPT ![p] = TRUE]
           /\ compactPhase' = [compactPhase EXCEPT
                ![p] = IF modelFailures[p] >= MaxConsecutiveModelFailures
                       THEN "evicting" ELSE "summarizing"]
           /\ source' = lines'[p]
           /\ sinceOffset' = Len(lines'[p])
           /\ UNCHANGED modelFailures
  <2>1. /\ compactionInFlight' \in [Projects -> BOOLEAN] /\ compactionInFlight'[p]
        /\ \A q \in Projects \ {p} : compactionInFlight'[q] = compactionInFlight[q]
    BY <1>2 DEF WorkerTyped
  <2>2. PICK ph \in {"evicting", "summarizing"} :
          /\ ph = IF modelFailures[p] >= MaxConsecutiveModelFailures THEN "evicting" ELSE "summarizing"
          /\ compactPhase' = [compactPhase EXCEPT ![p] = ph]
    BY <1>2
  <2>3. /\ compactPhase' \in [Projects -> {"idle", "summarizing", "evicting"}] /\ compactPhase'[p] = ph
        /\ \A q \in Projects \ {p} : compactPhase'[q] = compactPhase[q] /\ compactPhase[q] = "idle"
    BY <1>2, <2>2 DEF WorkerTyped, WorkerBusy, Compacting
  <2>4. ph = "summarizing" => modelFailures'[p] < MaxConsecutiveModelFailures
    BY <1>2, <2>2, CompactionAssumption DEF WorkerTyped
  <2>5. WorkerTyped'
    BY <1>2, <2>1, <2>3 DEF WorkerTyped
  <2>6. GuardsAgree'
    BY <2>1, <2>2, <2>3 DEF GuardsAgree, Compacting
  <2>7. Begins(p)
    BY <1>2, <2>2, <2>3, <2>4 DEF Begins
  <2> QED BY <2>5, <2>6, <2>7
<1> QED BY <1>1, <1>2 DEF FireCompaction

-----------------------------------------------------------------------------
(* A step of a run beside the worker. *)

\* What a run does to its file.
LEMMA RunOfFile ==
  ASSUME PipelineInv, RunsInv, NEW p \in Projects, RunKeeps(p)
  PROVE  /\ processed \subseteq processed' /\ processed' \subseteq processed \cup snapshot[p]
         /\ \A q \in Projects \ {p} : lines'[q] = lines[q]
         /\ \/ lines'[p] = lines[p]
            \/ lines'[p] = <<>> /\ Contents(lines[p]) \subseteq processed' \cup late
<1>1. UNCHANGED late /\ (HoldsSnapshot(p) => Contents(lines[p]) \subseteq snapshot[p] \cup late \cup processed)
  BY DEF RunKeeps, RunsInv
<1>2. anyCommitted[p] => snapshot[p] \subseteq processed
  BY DEF RunsInv
<1>3. \A q \in Projects \ {p} : lines'[q] = lines[q]
  BY DEF RunKeeps, Others
<1>4. CASE Rests(p) \/ Takes(p)
  BY <1>3, <1>4 DEF Rests, Takes
<1>5. CASE Commits(p)
  BY <1>3, <1>5 DEF Commits, Process
<1>6. CASE Succeeds(p)
  <2>1. lines'[p] = <<>>
    BY <1>6, PipelineFacts DEF Succeeds
  <2>2. CASE UNCHANGED <<processed, reprocessed>> /\ (Contents(lines[p]) = {} \/ (HoldsSnapshot(p) /\ anyCommitted[p]))
    BY <1>1, <1>2, <1>3, <2>1, <2>2
  <2>3. CASE Process(snapshot[p]) /\ HoldsSnapshot(p)
    BY <1>1, <1>3, <2>1, <2>3 DEF Process
  <2> QED BY <1>6, <2>2, <2>3 DEF Succeeds
<1> QED BY <1>4, <1>5, <1>6 DEF RunKeeps

\* A run changes nothing of the worker, and only shortens files.
LEMMA RunWorker ==
  ASSUME PipelineInv, RunsInv, WorkerInv, NEW p \in Projects, RunKeeps(p),
         stale' = (stale \/ Overtaken(p)), UNCHANGED worker
  PROVE  WorkerInv'
<1>1. /\ \A q \in Projects : lines'[q] = lines[q] \/ lines'[q] = <<>>
      /\ UNCHANGED <<mode, toArm>>
  BY RunOfFile DEF RunKeeps, process
<1>2. WorkerTyped' /\ GuardsAgree'
  BY DEF WorkerInv, WorkerTyped, GuardsAgree, Compacting, worker
<1>3. ASSUME NEW q \in Projects
      PROVE  Len(lines'[q]) = Len(lines[q]) \/ Len(lines'[q]) = 0
  <2>1. Len(<<>>) = 0
    OBVIOUS
  <2> QED BY <1>1, <2>1
<1>4. ASSUME NEW q \in Projects, Compacting(q)' PROVE Works(q)'
  <2>1. Compacting(q) /\ Works(q)
    BY <1>4 DEF Compacting, worker, WorkerInv
  <2>2. Len(lines'[q]) <= Len(source) \/ Len(lines'[q]) <= BufferMaxBytes
    BY <1>3, <2>1, ThresholdAssumption DEF Works
  <2> QED BY <1>1, <2>1, <2>2 DEF Works, worker, Fits
<1>5. ASSUME NEW q \in Projects PROVE Fits(Len(lines'[q]))
  <2>1. Fits(Len(lines[q])) /\ Fits(0)
    BY ThresholdAssumption DEF WorkerInv, Fits
  <2> QED BY <1>3, <2>1
<1>6. stale' \in BOOLEAN /\ (stale' => WorkerBusy')
  <2>1. WorkerBusy' <=> WorkerBusy
    BY DEF WorkerBusy, Compacting, worker
  <2>2. Overtaken(p) => WorkerBusy
    BY DEF Overtaken, WorkerBusy
  <2>3. stale' \in BOOLEAN
    BY Zenon
  <2> QED BY <2>1, <2>2, <2>3 DEF WorkerInv
<1>7. \A q \in Projects : Fits(Len(lines[q]))'
  BY <1>5 DEF Fits
<1> QED BY <1>2, <1>4, <1>6, <1>7 DEF WorkerInv

\* The batch stays the beginning of the file, until a run deletes it.
LEMMA RunSource ==
  ASSUME PipelineInv, FilesInv, WorkerInv, NEW p \in Projects, RunKeeps(p),
         stale' = (stale \/ Overtaken(p)), UNCHANGED <<worker, overlap>>
  PROVE  SourceInv'
<1>1. RunsInv /\ SourceInv /\ UNCHANGED <<stored, late, exposed, source, compactPhase>>
  BY DEF FilesInv, RunKeeps, worker, overlap
<1>2. SUFFICES ASSUME NEW q \in Projects, Compacting(q)
               PROVE  /\ Contents(source) \subseteq stored
                      /\ ~stale' => BeginsWith(lines'[q], source)
                      /\ stale' => /\ Contents(source) \subseteq processed' \cup late
                                   /\ Contents(lines'[q]) \subseteq exposed
  BY <1>1 DEF SourceInv, Compacting, BeginsWith, Contents
<1>3. /\ Contents(source) \subseteq stored
      /\ ~stale => BeginsWith(lines[q], source)
      /\ stale => /\ Contents(source) \subseteq processed \cup late
                  /\ Contents(lines[q]) \subseteq exposed
  BY <1>1, <1>2 DEF SourceInv
<1>4. /\ processed \subseteq processed'
      /\ q # p => lines'[q] = lines[q]
      /\ \/ lines'[p] = lines[p]
         \/ lines'[p] = <<>> /\ Contents(lines[p]) \subseteq processed' \cup late
  BY <1>1, RunOfFile
<1>5. Contents(lines'[q]) \subseteq Contents(lines[q])
  BY <1>4, EmptyContents
<1>6. ASSUME ~stale' PROVE BeginsWith(lines'[q], source)
  <2>1. ~stale /\ (q = p => lines[q] = <<>> \/ lines'[q] # <<>>)
    BY <1>2, <1>6 DEF Overtaken
  <2>2. lines'[q] = lines[q]
    BY <1>4, <2>1
  <2> QED BY <1>3, <2>1, <2>2
<1>7. ASSUME stale' PROVE Contents(source) \subseteq processed' \cup late /\ Contents(lines'[q]) \subseteq exposed
  <2>1. CASE stale
    BY <1>3, <1>4, <1>5, <2>1
  <2>2. CASE ~stale
    <3>1. Overtaken(p)
      BY <1>7, <2>2
    <3>2. q = p
      BY <1>2, <3>1 DEF Overtaken, WorkerInv, GuardsAgree
    <3>3. lines'[q] = <<>> /\ lines[q] # <<>>
      BY <3>1, <3>2 DEF Overtaken
    <3>4. Contents(lines[q]) \subseteq processed' \cup late
      BY <1>4, <3>2, <3>3
    <3>5. Contents(source) \subseteq Contents(lines[q])
      <4>1. lines[q] \in Seq(SUBSET Events) /\ source \in Seq(SUBSET Events)
        BY PipelineTypes DEF WorkerInv, WorkerTyped
      <4> QED BY <1>3, <2>2, <4>1, BeginsContents
    <3> QED BY <3>3, <3>4, <3>5, EmptyContents
  <2> QED BY <2>1, <2>2
<1> QED BY <1>3, <1>6, <1>7

\* A run keeps what it knows of its file.
LEMMA RunRuns ==
  ASSUME PipelineInv, FilesInv, NEW p \in Projects, RunKeeps(p)
  PROVE  RunsInv'
<1>1. RunsInv /\ UNCHANGED late
  BY DEF FilesInv, RunKeeps
<1>2. processed \subseteq processed'
  BY <1>1, RunOfFile
<1>3. SUFFICES ASSUME NEW q \in Projects
               PROVE  /\ HoldsSnapshot(q)' => Contents(lines'[q]) \subseteq snapshot'[q] \cup late \cup processed'
                      /\ ~HoldsSnapshot(q)' => snapshot'[q] = {}
                      /\ anyCommitted'[q] => phase'[q] = "reconciling" /\ snapshot'[q] \subseteq processed'
  BY <1>1 DEF RunsInv, HoldsSnapshot, Contents
<1>4. /\ HoldsSnapshot(q) => Contents(lines[q]) \subseteq snapshot[q] \cup late \cup processed
      /\ ~HoldsSnapshot(q) => snapshot[q] = {}
      /\ anyCommitted[q] => phase[q] = "reconciling" /\ snapshot[q] \subseteq processed
  BY <1>1 DEF RunsInv
<1>5. CASE q # p
  <2>1. /\ lines'[q] = lines[q] /\ snapshot'[q] = snapshot[q] /\ anyCommitted'[q] = anyCommitted[q]
        /\ HoldsSnapshot(q)' <=> HoldsSnapshot(q)
        /\ phase[q] = "reconciling" => phase'[q] = "reconciling"
    BY <1>5 DEF RunKeeps, Others
  <2> QED BY <1>2, <1>4, <2>1
<1>6. CASE q = p
  <2>1. CASE Rests(p)
    BY <1>4, <1>6, <2>1 DEF Rests
  <2>2. CASE Takes(p)
    BY <1>4, <1>6, <2>2 DEF Takes
  <2>3. CASE Commits(p)
    <3>1. snapshot[p] \subseteq processed'
      BY <1>4, <1>6, <2>3 DEF Commits, Process
    <3>2. HoldsSnapshot(p)'
      BY <2>3 DEF Commits, HoldsSnapshot
    <3> QED BY <1>2, <1>4, <1>6, <2>3, <3>1, <3>2 DEF Commits
  <2>4. CASE Succeeds(p)
    BY <1>6, <2>4 DEF Succeeds
  <2> QED BY <2>1, <2>2, <2>3, <2>4 DEF RunKeeps
<1> QED BY <1>5, <1>6

\* A run adds nothing to what it holds.
LEMMA RunHolds ==
  ASSUME PipelineInv, FilesInv, NEW p \in Projects, RunKeeps(p), NEW q \in Projects
  PROVE  Held(q)' \subseteq Held(q)
<1>1. CASE q # p
  BY <1>1 DEF RunKeeps, Others, Held
<1>2. CASE q = p
  <2>1. CASE Rests(p) \/ Takes(p) \/ Commits(p)
    BY <1>2, <2>1 DEF Rests, Takes, Commits, Held
  <2>2. CASE Succeeds(p)
    <3>1. lines'[p] = <<>> /\ snapshot'[p] = {}
      BY <2>2, PipelineFacts DEF Succeeds
    <3> QED BY <1>2, <3>1, EmptyContents DEF Held
  <2> QED BY <2>1, <2>2 DEF RunKeeps
<1> QED BY <1>1, <1>2

\* A run covers an event once.
LEMMA RunClean ==
  ASSUME PipelineInv, FilesInv, NEW p \in Projects, RunKeeps(p), Clean
  PROVE  Clean'
<1>1. RunsInv /\ processed' \subseteq processed \cup snapshot[p]
  BY RunOfFile DEF FilesInv
<1>2. /\ reprocessed = {}
      /\ \A q, o \in Projects : q # o => Held(q) \cap Held(o) = {}
      /\ \A q \in Projects : ~anyCommitted[q] => Held(q) \cap processed = {}
  BY DEF Clean
<1>3. \A q \in Projects : Held(q)' \subseteq Held(q)
  BY RunHolds
<1>4. snapshot[p] \subseteq Held(p)
  BY DEF Held
<1>5. reprocessed' = {}
  <2>1. UNCHANGED reprocessed \/ (Process(snapshot[p]) /\ ~anyCommitted[p])
    BY DEF RunKeeps, Rests, Takes, Commits, Succeeds
  <2> QED BY <1>2, <1>4, <2>1 DEF Process
<1>6. \A q, o \in Projects : q # o => Held(q)' \cap Held(o)' = {}
  BY <1>2, <1>3
<1>7. ASSUME NEW q \in Projects, ~anyCommitted'[q] PROVE Held(q)' \cap processed' = {}
  <2>1. CASE q # p
    <3>1. Held(q) \cap processed = {}
      BY <1>2, <1>7, <2>1 DEF RunKeeps, Others
    <3>2. Held(q) \cap Held(p) = {}
      BY <1>2, <2>1
    <3> QED BY <1>1, <1>3, <1>4, <3>1, <3>2
  <2>2. CASE q = p
    <3>1. CASE Rests(p) \/ Takes(p)
      <4>1. ~anyCommitted[p] /\ UNCHANGED processed
        BY <1>7, <2>2, <3>1 DEF Rests, Takes
      <4> QED BY <1>2, <1>3, <2>2, <4>1
    <3>2. CASE Commits(p)
      BY <1>7, <2>2, <3>2 DEF Commits
    <3>3. CASE Succeeds(p)
      <4>1. lines'[p] = <<>> /\ snapshot'[p] = {}
        BY <3>3, PipelineFacts DEF Succeeds
      <4> QED BY <2>2, <4>1, EmptyContents DEF Held
    <3> QED BY <3>1, <3>2, <3>3 DEF RunKeeps
  <2> QED BY <2>1, <2>2
<1> QED BY <1>5, <1>6, <1>7 DEF Clean

\* All of it.
LEMMA RunBesideStep ==
  ASSUME CInv, NEW p \in Projects, RunBeside(p), UNCHANGED fragments
  PROVE  CInv'
<1>1. /\ PipelineInv /\ WorkerInv /\ FilesInv /\ RunsInv
      /\ IdleTimerFires(p) \/ RunStep(p)
      /\ stale' = (stale \/ Overtaken(p)) /\ UNCHANGED <<worker, overlap>>
  BY DEF CInv, FilesInv, RunBeside
<1>2. RunKeeps(p)
  BY <1>1, RunBesideKeeps
<1>3. PipelineInv' /\ WorkerInv' /\ SourceInv' /\ RunsInv'
  BY <1>1, <1>2, RunWorker, RunSource, RunRuns DEF RunKeeps
<1>4. /\ \A q \in Projects : Held(q)' \subseteq Held(q)
      /\ processed \subseteq processed' /\ processed' \subseteq processed \cup snapshot[p]
      /\ UNCHANGED <<stored, late, buffered, crashes>>
  BY <1>1, <1>2, RunHolds, RunOfFile DEF RunKeeps, process
<1>5. HistoryTyped'
  BY <1>1 DEF overlap, FilesInv, HistoryTyped
<1>6. StoredInv'
  <2>1. processed \subseteq stored /\ \A q \in Projects : Held(q) \subseteq stored
    BY <1>1 DEF FilesInv, StoredInv
  <2>2. snapshot[p] \subseteq Held(p)
    BY DEF Held
  <2>3. processed' \subseteq stored'
    BY <1>4, <2>1, <2>2
  <2>4. \A q \in Projects : Held(q)' \subseteq stored'
    BY <1>4, <2>1
  <2> QED BY <2>3, <2>4 DEF StoredInv
<1>7. NoLossOutsideOverlap'
  <2>1. SUFFICES ASSUME NEW e \in buffered \ (late \cup evicted \cup exposed), e \notin processed'
                 PROVE  \E q \in Projects : e \in Contents(lines'[q])
    BY <1>1, <1>4 DEF NoLossOutsideOverlap, InBuffer, overlap
  <2>2. PICK q \in Projects : e \in Contents(lines[q])
    BY <1>1, <1>4, <2>1 DEF FilesInv, NoLossOutsideOverlap, InBuffer
  <2>3. lines'[q] = lines[q]
    BY <1>1, <1>2, <2>1, <2>2, RunOfFile
  <2> QED BY <2>2, <2>3
<1>8. (crashes = 0 /\ ~staleReplaced => Clean)'
  BY <1>1, <1>2, <1>4, RunClean DEF FilesInv, overlap
<1> QED BY <1>3, <1>5, <1>6, <1>7, <1>8 DEF CInv, FilesInv

-----------------------------------------------------------------------------
(* A post, or the start-up scan, beside the worker. *)

\* What a post that is buffered does to the pipeline.
Buffers(p, e) ==
  /\ PipelineInv'
  /\ e \notin stored /\ stored' = stored \cup {e}
  /\ lines'[p] = Append(lines[p], {e}) /\ Contents(lines'[p]) = Contents(lines[p]) \cup {e}
  /\ Len(lines'[p]) = Len(lines[p]) + 1 /\ Len(lines'[p]) <= BufferMaxBytes
  /\ \A q \in Projects \ {p} : lines'[q] = lines[q]
  /\ mode = "up" /\ toArm = {} /\ bytes'[p] = Len(lines'[p])
  /\ buffered' = buffered \cup {e}
  /\ late' = IF HoldsSnapshot(p) THEN late \cup {e} ELSE late
  /\ \A q \in Projects : /\ HoldsSnapshot(q)' <=> HoldsSnapshot(q)
                         /\ phase[q] = "reconciling" => phase'[q] = "reconciling"
  /\ UNCHANGED <<processed, reprocessed, snapshot, anyCommitted, process>>

\* A post that is buffered is such a step.
LEMMA PostBuffers ==
  ASSUME PipelineInv, NEW p \in Projects, NEW e \in Events, PostBuffered(p, e), UNCHANGED fragments
  PROVE  Buffers(p, e)
<1>1. /\ ~Torn(p) /\ bytes[p] \in Nat
      /\ lines[p] \in Seq(SUBSET Events) /\ Len(lines[p]) \in Nat /\ {e} \in SUBSET Events
  BY PipelineTypes DEF PipelineInv, Torn, NoFragments
<1>2. /\ lines' = [lines EXCEPT ![p] = Append(lines[p], {e})]
      /\ NotifyAppend(p, 1)
      /\ e \notin stored /\ stored' = stored \cup {e}
      /\ buffered' = buffered \cup {e}
      /\ late' = IF HoldsSnapshot(p) THEN late \cup {e} ELSE late
      /\ bytes[p] + 1 <= BufferMaxBytes
      /\ mode = "up"
      /\ UNCHANGED <<processed, process, reprocessed, glued>>
  BY <1>1, ThresholdAssumption DEF PostBuffered, Posting, Quiescent, AppendLine, WouldExceedCeiling
<1>3. /\ FlagsAndSlots' /\ WatcherType' /\ BreakerStops'
      /\ bytes' = [bytes EXCEPT ![p] = @ + 1]
      /\ \/ phase'[p] = phase[p]
         \/ phase[p] = "none" /\ phase'[p] \in {"waiting", "granted"}
      /\ \A q \in Projects \ {p} : phase'[q] = phase[q]
      /\ UNCHANGED <<snapshot, anyCommitted>>
  BY <1>2, NotifyAppendEffect, PipelineFacts
<1>4. toArm = {} /\ bytes[p] = Len(lines[p])
  BY <1>2 DEF PipelineInv, FreshUntilArmed, CountedLines
<1>5. /\ Append(lines[p], {e}) \in Seq(SUBSET Events)
      /\ Len(Append(lines[p], {e})) = Len(lines[p]) + 1
      /\ Contents(Append(lines[p], {e})) = Contents(lines[p]) \cup {e}
  BY <1>1, AppendContents, SMTT(30)
<1>6. /\ lines' \in [Projects -> Seq(SUBSET Events)]
      /\ lines'[p] = Append(lines[p], {e})
      /\ \A q \in Projects \ {p} : lines'[q] = lines[q]
  BY <1>2, <1>5, PipelineFacts
<1>7. bytes'[p] = bytes[p] + 1 /\ \A q \in Projects \ {p} : bytes'[q] = bytes[q]
  BY <1>3, PipelineTypes
<1>8. FreshUntilArmed'
  BY <1>2, <1>4 DEF FreshUntilArmed, process
<1>9. CountedLines'
  BY <1>2, <1>4, <1>5, <1>6, <1>7 DEF PipelineInv, CountedLines, process
<1>10. PipelineInv'
  <2>1. stored' \in SUBSET Events /\ buffered' \in SUBSET Events /\ late' \in SUBSET Events
    BY <1>2, PipelineTypes
  <2> QED BY <1>2, <1>3, <1>6, <1>8, <1>9, <2>1, PipelineFrom, PipelineTypes DEF process
<1>11. \A q \in Projects : /\ HoldsSnapshot(q)' <=> HoldsSnapshot(q)
                           /\ phase[q] = "reconciling" => phase'[q] = "reconciling"
  BY <1>3 DEF HoldsSnapshot
<1>12. Contents(lines'[p]) = Contents(lines[p]) \cup {e} /\ Len(lines'[p]) = Len(lines[p]) + 1
  BY <1>5, <1>6
<1> QED BY <1>2, <1>3, <1>4, <1>6, <1>7, <1>10, <1>11, <1>12 DEF Buffers

\* It leaves the worker alone, or starts it.
LEMMA PostWorker ==
  ASSUME PipelineInv, WorkerInv, NEW p \in Projects, NEW e \in Events, Buffers(p, e), FireCompaction(p),
         UNCHANGED stale
  PROVE  WorkerInv' /\ (UNCHANGED worker \/ Begins(p))
<1>1. lines'[p] \in Seq(SUBSET Events) /\ Len(lines'[p]) \in Nat
  <2>1. {e} \in SUBSET Events /\ lines[p] \in Seq(SUBSET Events)
    BY PipelineTypes
  <2> QED BY <2>1, AppendContents, PipelineTypes DEF Buffers
<1>2. WorkerTyped' /\ GuardsAgree' /\ (UNCHANGED worker \/ Begins(p))
  BY <1>1, FireKeeps DEF WorkerInv, Buffers
<1>3. UNCHANGED <<mode, toArm>> /\ mode = "up" /\ toArm = {}
  BY DEF Buffers, process
<1>4. ASSUME NEW q \in Projects PROVE Fits(Len(lines'[q]))
  BY DEF WorkerInv, Buffers, Fits
<1>5. \A q \in Projects : Fits(Len(lines[q]))'
  BY <1>4 DEF Fits
<1>6. CASE UNCHANGED worker
  <2>1. ASSUME NEW q \in Projects, Compacting(q)' PROVE Works(q)'
    <3>1. Compacting(q) /\ Works(q)
      BY <1>6, <2>1 DEF Compacting, worker, WorkerInv
    <3>2. Len(lines'[q]) <= Len(source) \/ Len(lines'[q]) <= BufferMaxBytes
      BY <3>1 DEF Works, Buffers
    <3> QED BY <1>3, <1>6, <3>1, <3>2 DEF Works, worker, Fits
  <2>2. stale' \in BOOLEAN /\ (stale' => WorkerBusy')
    BY <1>6 DEF WorkerInv, WorkerBusy, Compacting, worker
  <2> QED BY <1>2, <1>5, <1>6, <2>1, <2>2 DEF WorkerInv
<1>7. CASE Begins(p)
  <2>1. ASSUME NEW q \in Projects, Compacting(q)' PROVE Works(q)'
    <3>1. q = p
      BY <1>7, <2>1 DEF Begins, Compacting
    <3>2. Fits(Len(source')) /\ Len(lines'[p]) <= Len(source')
      BY <1>1, <1>4, <1>7 DEF Begins
    <3> QED BY <1>3, <1>7, <3>1, <3>2 DEF Works, Begins, Fits
  <2>2. stale' \in BOOLEAN /\ ~stale'
    BY <1>7 DEF WorkerInv, Begins
  <2> QED BY <1>2, <1>5, <1>7, <2>1, <2>2 DEF WorkerInv
<1> QED BY <1>2, <1>6, <1>7

\* The new line comes behind the batch.
LEMMA PostSource ==
  ASSUME PipelineInv, WorkerInv, FilesInv, NEW p \in Projects, NEW e \in Events, Buffers(p, e),
         UNCHANGED worker \/ Begins(p),
         exposed' = IF stale /\ Compacting(p) THEN exposed \cup {e} ELSE exposed,
         UNCHANGED stale
  PROVE  SourceInv'
<1>1. /\ SourceInv /\ StoredInv /\ UNCHANGED processed /\ stored \subseteq stored'
      /\ late \subseteq late' /\ exposed \subseteq exposed'
  BY DEF FilesInv, Buffers
<1>2. SUFFICES ASSUME NEW q \in Projects, Compacting(q)'
               PROVE  /\ Contents(source') \subseteq stored'
                      /\ ~stale => BeginsWith(lines'[q], source')
                      /\ stale => /\ Contents(source') \subseteq processed \cup late'
                                  /\ Contents(lines'[q]) \subseteq exposed'
  BY <1>1 DEF SourceInv, Compacting, BeginsWith, Contents
<1>3. CASE UNCHANGED worker
  <2>1. Compacting(q) /\ source' = source
    BY <1>2, <1>3 DEF Compacting, worker
  <2>2. /\ Contents(source) \subseteq stored
        /\ ~stale => BeginsWith(lines[q], source)
        /\ stale => /\ Contents(source) \subseteq processed \cup late
                    /\ Contents(lines[q]) \subseteq exposed
    BY <1>1, <2>1 DEF SourceInv
  <2>3. ~stale => BeginsWith(lines'[q], source)
    <3>1. lines[q] \in Seq(SUBSET Events) /\ source \in Seq(SUBSET Events) /\ {e} \in SUBSET Events
      BY PipelineTypes DEF WorkerInv, WorkerTyped
    <3>2. ~stale => BeginsWith(Append(lines[q], {e}), source)
      BY <2>2, <3>1, BeginsAppended
    <3> QED BY <2>2, <3>2 DEF Buffers
  <2>4. stale => Contents(lines'[q]) \subseteq exposed'
    BY <1>1, <2>1, <2>2 DEF Buffers
  <2> QED BY <1>1, <2>1, <2>2, <2>3, <2>4
<1>4. CASE Begins(p)
  <2>1. q = p /\ ~stale /\ source' = lines'[p]
    BY <1>2, <1>4 DEF Begins, Compacting, WorkerInv
  <2>2. lines'[p] \in Seq(SUBSET Events)
    BY PipelineTypes, AppendContents DEF Buffers
  <2>3. BeginsWith(lines'[p], lines'[p])
    BY <2>2, BeginsItself
  <2>4. Contents(lines'[p]) \subseteq stored'
    BY <1>1 DEF StoredInv, Held, Buffers
  <2> QED BY <2>1, <2>3, <2>4
<1> QED BY <1>3, <1>4

\* All of it: the event is new, so it is in this one place.
LEMMA PostBufferedBeside ==
  ASSUME CInv, NEW p \in Projects, NEW e \in Events, PostBuffered(p, e), FireCompaction(p), UNCHANGED fragments,
         exposed' = IF stale /\ Compacting(p) THEN exposed \cup {e} ELSE exposed,
         UNCHANGED <<stale, staleReplaced, evicted>>
  PROVE  CInv'
<1>1. PipelineInv /\ WorkerInv /\ FilesInv /\ Buffers(p, e)
  BY PostBuffers DEF CInv
<1>2. PipelineInv' /\ WorkerInv' /\ SourceInv'
  BY <1>1, PostWorker, PostSource DEF Buffers
<1>3. /\ e \notin stored /\ stored' = stored \cup {e}
      /\ Contents(lines'[p]) = Contents(lines[p]) \cup {e}
      /\ \A q \in Projects \ {p} : lines'[q] = lines[q]
      /\ buffered' = buffered \cup {e}
      /\ late' = IF HoldsSnapshot(p) THEN late \cup {e} ELSE late
      /\ \A q \in Projects : /\ HoldsSnapshot(q)' <=> HoldsSnapshot(q)
                             /\ phase[q] = "reconciling" => phase'[q] = "reconciling"
      /\ UNCHANGED <<processed, reprocessed, snapshot, anyCommitted, crashes>>
  BY <1>1 DEF Buffers, process
<1>4. HistoryTyped'
  BY <1>1 DEF FilesInv, HistoryTyped
<1>5. RunsInv'
  <2>1. SUFFICES ASSUME NEW q \in Projects
                 PROVE  /\ HoldsSnapshot(q) => Contents(lines'[q]) \subseteq snapshot[q] \cup late' \cup processed
                        /\ ~HoldsSnapshot(q) => snapshot[q] = {}
                        /\ anyCommitted[q] => phase'[q] = "reconciling" /\ snapshot[q] \subseteq processed
    BY <1>3 DEF RunsInv
  <2>2. /\ HoldsSnapshot(q) => Contents(lines[q]) \subseteq snapshot[q] \cup late \cup processed
        /\ ~HoldsSnapshot(q) => snapshot[q] = {}
        /\ anyCommitted[q] => phase[q] = "reconciling" /\ snapshot[q] \subseteq processed
    BY <1>1 DEF FilesInv, RunsInv
  <2>3. CASE q = p
    BY <1>3, <2>2, <2>3
  <2>4. CASE q # p
    BY <1>3, <2>2, <2>4
  <2> QED BY <2>3, <2>4
<1>6. Held(p)' = Held(p) \cup {e} /\ \A q \in Projects \ {p} : Held(q)' = Held(q)
  BY <1>3 DEF Held
<1>7. StoredInv'
  <2>1. processed \subseteq stored /\ \A q \in Projects : Held(q) \subseteq stored
    BY <1>1 DEF FilesInv, StoredInv
  <2>2. \A q \in Projects : Held(q)' \subseteq stored'
    BY <1>3, <1>6, <2>1
  <2> QED BY <1>3, <2>1, <2>2 DEF StoredInv
<1>8. NoLossOutsideOverlap'
  <2>1. SUFFICES ASSUME NEW x \in buffered' \ (late' \cup evicted \cup exposed'), x \notin processed
                 PROVE  \E q \in Projects : x \in Contents(lines'[q])
    BY <1>3 DEF NoLossOutsideOverlap, InBuffer
  <2>2. CASE x = e
    BY <1>3, <2>2
  <2>3. CASE x # e
    <3>1. PICK q \in Projects : x \in Contents(lines[q])
      BY <1>1, <1>3, <2>1, <2>3 DEF FilesInv, NoLossOutsideOverlap, InBuffer
    <3> QED BY <1>3, <3>1
  <2> QED BY <2>2, <2>3
<1>9. ASSUME Clean PROVE Clean'
  <2>1. /\ reprocessed = {}
        /\ \A q, o \in Projects : q # o => Held(q) \cap Held(o) = {}
        /\ \A q \in Projects : ~anyCommitted[q] => Held(q) \cap processed = {}
    BY <1>9 DEF Clean
  <2>2. e \notin processed /\ \A q \in Projects : e \notin Held(q)
    BY <1>1, <1>3 DEF FilesInv, StoredInv
  <2>3. \A q, o \in Projects : q # o => Held(q)' \cap Held(o)' = {}
    BY <1>6, <2>1, <2>2
  <2>4. \A q \in Projects : ~anyCommitted[q] => Held(q)' \cap processed = {}
    BY <1>6, <2>1, <2>2
  <2> QED BY <1>3, <2>1, <2>3, <2>4 DEF Clean
<1>10. (crashes = 0 /\ ~staleReplaced => Clean)'
  BY <1>1, <1>3, <1>9 DEF FilesInv
<1> QED BY <1>2, <1>4, <1>5, <1>7, <1>8, <1>10 DEF CInv, FilesInv

\* A post that reaches no file.
LEMMA PostLeftOutBeside ==
  ASSUME CInv, NEW p \in Projects, NEW e \in Events, PostSkipped(p, e) \/ PostWriteFails(p, e),
         UNCHANGED fragments, UNCHANGED worker,
         exposed' = IF stale /\ Compacting(p) THEN exposed \cup {e} ELSE exposed,
         UNCHANGED <<stale, staleReplaced, evicted>>
  PROVE  CInv'
<1>1. PipelineInv /\ WorkerInv /\ FilesInv
  BY DEF CInv
<1>2. /\ stored' = stored \cup {e} /\ exposed \subseteq exposed' /\ exposed' \subseteq Events
      /\ UNCHANGED <<lines, processed, watcher, pipeline, process, history>>
  BY <1>1 DEF PostSkipped, PostWriteFails, AppendFragment, Posting, FilesInv, HistoryTyped
<1>3. PipelineInv'
  <2>1. FlagsAndSlots' /\ WatcherType' /\ BreakerStops' /\ FreshUntilArmed' /\ CountedLines'
    BY <1>1, <1>2, PipelineFacts
    DEF FlagsAndSlots, Slots, PipelineType, SlotsAccounted, SlotHolders, HoldsSlot, InFlightMatchesRun,
        WatcherType, BreakerStops, PipelineInv, FreshUntilArmed, CountedLines, watcher, pipeline, process
  <2>2. stored' \in SUBSET Events
    BY <1>1, <1>2, PipelineTypes
  <2> QED BY <1>1, <1>2, <2>1, <2>2, PipelineFrom, PipelineTypes, PipelineFacts DEF process, history
<1>4. WorkerInv'
  BY <1>1, <1>2 DEF WorkerInv, WorkerTyped, GuardsAgree, WorkerBusy, Compacting, Works, Fits, worker, process
<1>5. SourceInv' /\ RunsInv'
  BY <1>1, <1>2 DEF FilesInv, SourceInv, RunsInv, HoldsSnapshot, Compacting, BeginsWith, Contents,
                    worker, pipeline, history
<1>6. StoredInv'
  <2>1. \A q \in Projects : Held(q)' = Held(q)
    BY <1>2 DEF Held, pipeline
  <2> QED BY <1>1, <1>2, <2>1 DEF FilesInv, StoredInv
<1>7. HistoryTyped' /\ NoLossOutsideOverlap'
  BY <1>1, <1>2 DEF FilesInv, HistoryTyped, NoLossOutsideOverlap, InBuffer, Contents, history
<1>8. (crashes = 0 /\ ~staleReplaced => Clean)'
  BY <1>1, <1>2 DEF FilesInv, Clean, Held, Contents, pipeline, history, process
<1> QED BY <1>3, <1>4, <1>5, <1>6, <1>7, <1>8 DEF CInv, FilesInv

\* Every post.
LEMMA PostBesideStep ==
  ASSUME CInv, NEW p \in Projects, NEW e \in Events, PostBeside(p, e), UNCHANGED fragments
  PROVE  CInv'
BY PostBufferedBeside, PostLeftOutBeside DEF PostBeside

\* What a visit of the start-up scan does to the pipeline.
Arms(p) ==
  /\ PipelineInv'
  /\ p \in toArm /\ mode = "arming" /\ mode' # "down"
  /\ toArm' = toArm \ {p} /\ bytes'[p] = Len(lines'[p])
  /\ \A q \in Projects : /\ HoldsSnapshot(q)' <=> HoldsSnapshot(q)
                         /\ phase[q] = "reconciling" => phase'[q] = "reconciling"
  /\ UNCHANGED <<lines, stored, processed, snapshot, anyCommitted, crashes, history>>

\* A visit of the scan is such a step.
LEMMA ArmArms ==
  ASSUME PipelineInv, NEW p \in Projects, Arm(p), UNCHANGED fragments
  PROVE  Arms(p)
<1>1. /\ mode = "arming" /\ p \in toArm
      /\ toArm' = toArm \ {p}
      /\ mode' \in {"up", "arming"}
      /\ toArm' # {} => mode' = "arming"
      /\ mode' = "up" => toArm' = {}
      /\ UNCHANGED <<durable, crashes, history>>
  BY DEF Arm, durable
<1>2. bytes[p] = 0 /\ Len(lines[p]) \in Nat /\ FileSize(p) = Len(lines[p])
  <2>1. Len(lines[p]) \in Nat /\ fragments[p].units = 0
    BY PipelineTypes DEF PipelineInv, NoFragments
  <2> QED BY <1>1, <2>1 DEF PipelineInv, FreshUntilArmed, FileSize
<1>3. /\ FlagsAndSlots' /\ WatcherType' /\ BreakerStops'
      /\ bytes'[p] = Len(lines[p])
      /\ \A q \in Projects \ {p} :
           /\ bytes'[q] = bytes[q]
           /\ idleTimer'[q] = idleTimer[q]
           /\ extractionInFlight'[q] = extractionInFlight[q]
           /\ phase'[q] = phase[q]
      /\ \/ phase'[p] = phase[p]
         \/ phase[p] = "none" /\ phase'[p] \in {"waiting", "granted"}
      /\ UNCHANGED <<consecutiveFailures, snapshot, anyCommitted>>
  <2>1. CASE NotifyAppend(p, Len(lines[p]))
    <3>1. /\ FlagsAndSlots' /\ WatcherType' /\ BreakerStops'
          /\ bytes' = [bytes EXCEPT ![p] = @ + Len(lines[p])]
          /\ idleTimer' = [idleTimer EXCEPT ![p] = TRUE]
          /\ \A q \in Projects \ {p} :
               extractionInFlight'[q] = extractionInFlight[q] /\ phase'[q] = phase[q]
          /\ \/ phase'[p] = phase[p]
             \/ phase[p] = "none" /\ phase'[p] \in {"waiting", "granted"}
          /\ UNCHANGED <<consecutiveFailures, snapshot, anyCommitted>>
      BY <1>2, <2>1, NotifyAppendEffect, PipelineFacts
    <3>2. bytes'[p] = Len(lines[p])
      BY <1>2, <3>1, PipelineFacts DEF WatcherType
    <3>3. \A q \in Projects \ {p} : bytes'[q] = bytes[q] /\ idleTimer'[q] = idleTimer[q]
      BY <3>1, PipelineFacts DEF WatcherType
    <3> QED BY <3>1, <3>2, <3>3
  <2>2. CASE lines[p] = <<>> /\ UNCHANGED <<watcher, pipeline>>
    <3>1. Len(lines[p]) = 0
      BY <2>2
    <3>2. FlagsAndSlots' /\ WatcherType' /\ BreakerStops'
      BY <2>2, PipelineFacts
      DEF FlagsAndSlots, Slots, PipelineType, SlotsAccounted, SlotHolders, HoldsSlot,
          InFlightMatchesRun, BreakerStops, WatcherType, watcher, pipeline
    <3> QED BY <1>2, <2>2, <3>1, <3>2 DEF watcher, pipeline
  <2>3. Len(lines[p]) <= 0 => lines[p] = <<>>
    BY PipelineTypes
  <2> QED BY <1>2, <2>1, <2>2, <2>3 DEF Arm
<1>4. FreshUntilArmed'
  BY <1>1, <1>3 DEF PipelineInv, FreshUntilArmed
<1>5. CountedLines'
  BY <1>1, <1>3 DEF PipelineInv, CountedLines, durable
<1>6. PipelineInv'
  <2>1. /\ mode' \in {"up", "down", "arming"} /\ toArm' \in SUBSET Projects
        /\ UNCHANGED <<lines, fragments, stored, processed>>
    BY <1>1, PipelineTypes DEF durable
  <2> QED BY <1>1, <1>3, <1>4, <1>5, <2>1, PipelineFrom, PipelineTypes, PipelineFacts DEF history
<1>7. \A q \in Projects : /\ HoldsSnapshot(q)' <=> HoldsSnapshot(q)
                          /\ phase[q] = "reconciling" => phase'[q] = "reconciling"
  BY <1>3 DEF HoldsSnapshot
<1> QED BY <1>1, <1>3, <1>6, <1>7 DEF Arms, durable

\* It leaves the worker alone, or starts it.
LEMMA ArmBesideStep ==
  ASSUME CInv, NEW p \in Projects, ArmBeside(p), UNCHANGED fragments
  PROVE  CInv'
<1>1. /\ PipelineInv /\ WorkerInv /\ FilesInv /\ Arms(p)
      /\ FireCompaction(p) \/ UNCHANGED worker
      /\ UNCHANGED <<stale, overlap>>
  BY ArmArms DEF CInv, ArmBeside
<1>2. /\ PipelineInv' /\ UNCHANGED <<lines, stored, processed, snapshot, anyCommitted, crashes, history>>
      /\ mode # "down" /\ mode' # "down" /\ toArm' = toArm \ {p}
      /\ lines[p] \in Seq(SUBSET Events) /\ Len(lines[p]) \in Nat /\ bytes'[p] = Len(lines'[p])
      /\ UNCHANGED <<stale, staleReplaced, exposed, evicted>>
  BY <1>1, PipelineTypes DEF Arms, overlap
<1>3. WorkerTyped' /\ GuardsAgree' /\ (UNCHANGED worker \/ Begins(p))
  <2>1. CASE UNCHANGED worker
    BY <1>1, <2>1 DEF WorkerInv, WorkerTyped, GuardsAgree, Compacting, worker
  <2>2. CASE FireCompaction(p)
    BY <1>1, <1>2, <2>2, FireKeeps DEF WorkerInv
  <2> QED BY <1>1, <2>1, <2>2
<1>4. ASSUME NEW q \in Projects, Compacting(q)' PROVE Works(q)'
  <2>1. CASE UNCHANGED worker
    BY <1>1, <1>2, <1>4, <2>1 DEF Compacting, WorkerInv, Works, worker, Fits
  <2>2. CASE Begins(p)
    <3>1. q = p /\ source' = lines[p]
      BY <1>2, <1>4, <2>2 DEF Begins, Compacting
    <3>2. Fits(Len(lines[p]))
      BY <1>1 DEF WorkerInv
    <3> QED BY <1>2, <2>2, <3>1, <3>2 DEF Works, Begins, Fits
  <2> QED BY <1>3, <2>1, <2>2
<1>5. stale' \in BOOLEAN /\ (stale' => WorkerBusy')
  <2>1. CASE UNCHANGED worker
    BY <1>1, <1>2, <2>1 DEF WorkerInv, WorkerBusy, Compacting, worker
  <2>2. CASE Begins(p)
    BY <1>1, <1>2, <2>2 DEF WorkerInv, Begins
  <2> QED BY <1>3, <2>1, <2>2
<1>6. WorkerInv'
  <2>1. \A q \in Projects : Fits(Len(lines[q]))'
    BY <1>1, <1>2 DEF WorkerInv, Fits
  <2> QED BY <1>3, <1>4, <1>5, <2>1 DEF WorkerInv
<1>7. SourceInv'
  <2>1. CASE UNCHANGED worker
    BY <1>1, <1>2, <2>1 DEF FilesInv, SourceInv, Compacting, BeginsWith, Contents, worker, history
  <2>2. CASE Begins(p)
    <3>1. SUFFICES ASSUME NEW q \in Projects, Compacting(q)'
                   PROVE  Contents(source') \subseteq stored /\ BeginsWith(lines'[q], source')
      BY <1>1, <1>2, <2>2 DEF SourceInv, Begins, WorkerInv, Compacting, BeginsWith, Contents
    <3>2. q = p /\ source' = lines[p] /\ lines' = lines
      BY <1>2, <2>2, <3>1 DEF Begins, Compacting
    <3>3. BeginsWith(lines[p], lines[p]) /\ Contents(lines[p]) \subseteq stored
      BY <1>1, <1>2, BeginsItself DEF FilesInv, StoredInv, Held
    <3> QED BY <3>2, <3>3
  <2> QED BY <1>3, <2>1, <2>2
<1>8. RunsInv'
  BY <1>1, <1>2 DEF FilesInv, RunsInv, Arms, Contents, history
<1>9. HistoryTyped' /\ StoredInv' /\ NoLossOutsideOverlap'
  BY <1>1, <1>2 DEF FilesInv, HistoryTyped, StoredInv, Held, NoLossOutsideOverlap, InBuffer, Contents, history
<1>10. (crashes = 0 /\ ~staleReplaced => Clean)'
  BY <1>1, <1>2 DEF FilesInv, Clean, Held, Contents, history
<1> QED BY <1>2, <1>6, <1>7, <1>8, <1>9, <1>10 DEF CInv, FilesInv

-----------------------------------------------------------------------------
(* The worker's own steps. *)

\* What replace leaves alone.
Untouched ==
  UNCHANGED <<exposed, fragments, stored, processed, idleTimer, extractionInFlight,
              consecutiveFailures, extractionDisabled, pipeline, process, history>>

\* After the release nothing is being compacted.
LEMMA ReleaseEnds ==
  ASSUME WorkerInv, NEW p \in Projects, Compacting(p), ReleaseGuard(p),
         modelFailures' \in [Projects -> 0 .. MaxConsecutiveModelFailures],
         \A q \in Projects : Fits(Len(lines'[q]))
  PROVE  WorkerInv' /\ ~stale' /\ \A q \in Projects : ~Compacting(q)'
<1>1. /\ compactionInFlight' \in [Projects -> BOOLEAN] /\ ~compactionInFlight'[p]
      /\ compactPhase' \in [Projects -> {"idle", "summarizing", "evicting"}] /\ compactPhase'[p] = "idle"
      /\ \A q \in Projects \ {p} : /\ compactionInFlight'[q] = compactionInFlight[q]
                                   /\ compactPhase'[q] = compactPhase[q] /\ compactPhase[q] = "idle"
      /\ source' = <<>> /\ sinceOffset' = 0 /\ stale' = FALSE
  BY DEF ReleaseGuard, WorkerInv, WorkerTyped, GuardsAgree, Compacting
<1>2. \A q \in Projects : ~Compacting(q)' /\ ~compactionInFlight'[q]
  BY <1>1 DEF Compacting, WorkerInv, GuardsAgree
<1>3. WorkerTyped'
  BY <1>1 DEF WorkerTyped
<1>4. GuardsAgree'
  BY <1>2 DEF GuardsAgree, Compacting
<1>5. \A q \in Projects : Fits(Len(lines[q]))'
  BY DEF Fits
<1> QED BY <1>1, <1>2, <1>3, <1>4, <1>5 DEF WorkerInv

\* No file, or no write: the compaction is over and nothing else has changed.
LEMMA ReplaceFailsKeeps ==
  ASSUME CInv, NEW p \in Projects, Compacting(p), ReplaceFails, ReleaseGuard(p), Untouched,
         modelFailures' \in [Projects -> 0 .. MaxConsecutiveModelFailures], UNCHANGED evicted
  PROVE  CInv'
<1>1. PipelineInv /\ WorkerInv /\ FilesInv
  BY DEF CInv
<1>2. UNCHANGED <<lines, bytes, staleReplaced, exposed, fragments, stored, processed, idleTimer, extractionInFlight,
                  consecutiveFailures, extractionDisabled, pipeline, process, history, evicted>>
  BY DEF ReplaceFails, Untouched
<1>3. \A q \in Projects : Fits(Len(lines'[q]))
  BY <1>1, <1>2 DEF WorkerInv
<1>4. WorkerInv' /\ ~stale' /\ \A q \in Projects : ~Compacting(q)'
  BY <1>1, <1>3, ReleaseEnds
<1>5. PipelineInv'
  <2>1. FlagsAndSlots' /\ WatcherType' /\ BreakerStops' /\ FreshUntilArmed' /\ CountedLines'
    BY <1>1, <1>2, PipelineFacts
    DEF FlagsAndSlots, Slots, PipelineType, SlotsAccounted, SlotHolders, HoldsSlot, InFlightMatchesRun,
        WatcherType, BreakerStops, PipelineInv, FreshUntilArmed, CountedLines, pipeline, process
  <2> QED BY <1>1, <1>2, <2>1, PipelineFrom, PipelineTypes, PipelineFacts DEF process, history
<1>6. SourceInv'
  BY <1>4 DEF SourceInv
<1>7. RunsInv' /\ StoredInv' /\ HistoryTyped' /\ NoLossOutsideOverlap'
  BY <1>1, <1>2 DEF FilesInv, RunsInv, HoldsSnapshot, StoredInv, Held, HistoryTyped, NoLossOutsideOverlap,
                    InBuffer, Contents, pipeline, history
<1>8. (crashes = 0 /\ ~staleReplaced => Clean)'
  BY <1>1, <1>2 DEF FilesInv, Clean, Held, Contents, pipeline, process, history
<1> QED BY <1>4, <1>5, <1>6, <1>7, <1>8 DEF CInv, FilesInv

\* The entries that replace a batch.
Replaces(n) ==
  /\ n \in Seq(SUBSET Events) /\ Len(n) \in Nat
  /\ Len(n) <= Len(source) \/ Len(n) <= MaxSummaryLines
  /\ Contents(n) \subseteq Contents(source)

\* The new file, beside the old one.
Rewrites(p, n) ==
  /\ lines' \in [Projects -> Seq(SUBSET Events)] /\ Len(lines'[p]) \in Nat
  /\ \A q \in Projects \ {p} : lines'[q] = lines[q]
  /\ \A q \in Projects : Fits(Len(lines'[q]))
  /\ Contents(lines'[p]) \subseteq stored
  /\ Contents(lines'[p]) \subseteq Contents(lines[p]) \cup processed \cup late
  /\ ~stale => Contents(lines'[p]) \subseteq Contents(lines[p])
  /\ Contents(lines[p]) \subseteq Contents(lines'[p]) \cup exposed \cup (Contents(source) \ Contents(n))

\* The new entries and the catch-up make such a file.
LEMMA ReplacedRewrites ==
  ASSUME CInv, NEW p \in Projects, Compacting(p), NEW n, Replaces(n),
         lines' = [lines EXCEPT ![p] = n \o CatchUp(p)]
  PROVE  Rewrites(p, n)
<1>1. PipelineInv /\ WorkerInv /\ FilesInv
  BY DEF CInv
<1>2. Works(p) /\ source \in Seq(SUBSET Events) /\ Len(source) \in Nat /\ sinceOffset = Len(source)
  BY <1>1 DEF WorkerInv, WorkerTyped, Works
<1>3. /\ lines \in [Projects -> Seq(SUBSET Events)] /\ lines[p] \in Seq(SUBSET Events)
      /\ Len(lines[p]) \in Nat
  BY <1>1, PipelineFacts, PipelineTypes
<1>4. PICK t : t = n \o CatchUp(p)
  OBVIOUS
<1>5. IsReplaced(t, n, lines[p], Len(source))
  <2>1. t = n \o SubSeq(lines[p], Len(source) + 1, Len(lines[p]))
    BY <1>2, <1>4 DEF CatchUp
  <2>2. n \in Seq(SUBSET Events)
    BY DEF Replaces
  <2> QED BY <1>2, <1>3, <2>1, <2>2, ReplacedIs
<1>6. t \in Seq(SUBSET Events)
  BY <1>5 DEF IsReplaced
<1>7. /\ lines' \in [Projects -> Seq(SUBSET Events)] /\ lines'[p] = t
      /\ \A q \in Projects \ {p} : lines'[q] = lines[q]
  BY <1>3, <1>4, <1>6
<1>8. Fits(Len(t)) /\ Len(t) \in Nat
  <2>1. Fits(Len(n) + (IF Len(lines[p]) > Len(source) THEN Len(lines[p]) - Len(source) ELSE 0))
    BY <1>2, <1>3, ReplacedFits DEF Works, Replaces
  <2> QED BY <1>2, <1>3, <1>5, <2>1 DEF IsReplaced, Replaces
<1>9. \A q \in Projects : Fits(Len(lines'[q]))
  BY <1>1, <1>7, <1>8 DEF WorkerInv
<1>10. Contents(t) \subseteq Contents(source) \cup Contents(lines[p])
  BY <1>5 DEF IsReplaced, Replaces
<1>11. /\ Contents(source) \subseteq stored
       /\ ~stale => BeginsWith(lines[p], source)
       /\ stale => /\ Contents(source) \subseteq processed \cup late
                   /\ Contents(lines[p]) \subseteq exposed
  BY <1>1 DEF FilesInv, SourceInv
<1>12. ~stale => Contents(source) \subseteq Contents(lines[p])
  BY <1>2, <1>3, <1>11, BeginsContents
<1>13. Contents(lines[p]) \subseteq stored
  BY <1>1 DEF FilesInv, StoredInv, Held
<1>14. Contents(lines[p]) \subseteq Contents(t) \cup exposed \cup (Contents(source) \ Contents(n))
  <2>1. CASE stale
    BY <1>11, <2>1
  <2>2. CASE ~stale
    <3>1. Contents(lines[p]) \subseteq Contents(source) \cup Contents(t)
      BY <1>2, <1>3, <1>5, <1>11, <2>2, ReplacedLoses
    <3>2. Contents(n) \subseteq Contents(t)
      BY <1>5 DEF IsReplaced
    <3> QED BY <3>1, <3>2
  <2> QED BY <2>1, <2>2
<1>15. /\ Contents(t) \subseteq stored
       /\ Contents(t) \subseteq Contents(lines[p]) \cup processed \cup late
       /\ ~stale => Contents(t) \subseteq Contents(lines[p])
  BY <1>10, <1>11, <1>12, <1>13
<1> QED BY <1>7, <1>8, <1>9, <1>14, <1>15 DEF Rewrites

\* A replace keeps the invariant, whatever it replaces the batch by.
LEMMA ReplacedKeeps ==
  ASSUME CInv, NEW p \in Projects, Compacting(p), NEW n, Replaces(n), Replaced(p, n), ReleaseGuard(p), Untouched,
         modelFailures' \in [Projects -> 0 .. MaxConsecutiveModelFailures],
         evicted \subseteq evicted', evicted' \subseteq Events,
         Contents(source) \ Contents(n) \subseteq evicted'
  PROVE  CInv'
<1>1. /\ PipelineInv /\ WorkerInv /\ FilesInv
      /\ UNCHANGED <<exposed, fragments, stored, processed, idleTimer, extractionInFlight,
                     consecutiveFailures, extractionDisabled, pipeline, process, history>>
      /\ staleReplaced' = (staleReplaced \/ stale)
  BY DEF CInv, Untouched, Replaced
<1>2. /\ lines' \in [Projects -> Seq(SUBSET Events)] /\ Len(lines'[p]) \in Nat
      /\ \A q \in Projects \ {p} : lines'[q] = lines[q]
      /\ \A q \in Projects : Fits(Len(lines'[q]))
      /\ Contents(lines'[p]) \subseteq stored
      /\ Contents(lines'[p]) \subseteq Contents(lines[p]) \cup processed \cup late
      /\ ~stale => Contents(lines'[p]) \subseteq Contents(lines[p])
      /\ Contents(lines[p]) \subseteq Contents(lines'[p]) \cup exposed \cup (Contents(source) \ Contents(n))
  BY ReplacedRewrites DEF Replaced, Rewrites
<1>3. /\ bytes' \in [Projects -> Nat] /\ bytes'[p] = Len(lines'[p])
      /\ \A q \in Projects \ {p} : bytes'[q] = bytes[q]
  <2>1. PICK t : t = n \o CatchUp(p)
    OBVIOUS
  <2>2. lines' = [lines EXCEPT ![p] = t] /\ bytes' = [bytes EXCEPT ![p] = Len(t)]
    BY <2>1 DEF Replaced
  <2>3. lines'[p] = t
    BY <1>1, <2>2, PipelineFacts
  <2>4. Len(t) \in Nat
    BY <1>2, <2>3
  <2> QED BY <1>1, <2>2, <2>3, <2>4, PipelineTypes
<1>4. WorkerInv' /\ ~stale' /\ \A q \in Projects : ~Compacting(q)'
  BY <1>1, <1>2, ReleaseEnds
<1>5. PipelineInv'
  <2>1. FlagsAndSlots'
    BY <1>1, PipelineFacts
    DEF FlagsAndSlots, Slots, PipelineType, SlotsAccounted, SlotHolders, HoldsSlot, InFlightMatchesRun, pipeline
  <2>2. WatcherType' /\ BreakerStops'
    BY <1>1, <1>3, PipelineFacts DEF WatcherType, BreakerStops, pipeline
  <2>3. p \notin toArm /\ mode # "down"
    BY <1>1 DEF WorkerInv, Works
  <2>4. FreshUntilArmed'
    BY <1>1, <1>3, <2>3 DEF PipelineInv, FreshUntilArmed, process
  <2>5. CountedLines'
    BY <1>1, <1>2, <1>3 DEF PipelineInv, CountedLines, process
  <2> QED BY <1>1, <1>2, <2>1, <2>2, <2>4, <2>5, PipelineFrom, PipelineTypes DEF process, history
<1>6. SourceInv' /\ HistoryTyped'
  BY <1>1, <1>4 DEF SourceInv, FilesInv, HistoryTyped, WorkerInv
<1>7. RunsInv'
  <2>1. SUFFICES ASSUME NEW q \in Projects
                 PROVE  HoldsSnapshot(q) => Contents(lines'[q]) \subseteq snapshot[q] \cup late \cup processed
    BY <1>1 DEF FilesInv, RunsInv, HoldsSnapshot, Contents, pipeline, history
  <2>2. HoldsSnapshot(q) => Contents(lines[q]) \subseteq snapshot[q] \cup late \cup processed
    BY <1>1 DEF FilesInv, RunsInv
  <2>3. CASE q = p
    BY <1>2, <2>2, <2>3
  <2>4. CASE q # p
    BY <1>2, <2>2, <2>4
  <2> QED BY <2>3, <2>4
<1>8. \A q \in Projects : snapshot'[q] = snapshot[q] /\ anyCommitted'[q] = anyCommitted[q]
  BY <1>1 DEF pipeline
<1>9. StoredInv'
  <2>1. processed \subseteq stored /\ \A q \in Projects : Held(q) \subseteq stored
    BY <1>1 DEF FilesInv, StoredInv
  <2>2. ASSUME NEW q \in Projects PROVE Held(q)' \subseteq stored
    <3>1. CASE q = p
      BY <1>2, <1>8, <2>1, <3>1 DEF Held
    <3>2. CASE q # p
      BY <1>2, <1>8, <2>1, <3>2 DEF Held
    <3> QED BY <3>1, <3>2
  <2> QED BY <1>1, <2>1, <2>2 DEF StoredInv
<1>10. NoLossOutsideOverlap'
  <2>1. SUFFICES ASSUME NEW e \in buffered \ (late \cup evicted' \cup exposed), e \notin processed
                 PROVE  \E q \in Projects : e \in Contents(lines'[q])
    BY <1>1 DEF NoLossOutsideOverlap, InBuffer, history
  <2>2. PICK q \in Projects : e \in Contents(lines[q])
    BY <1>1, <2>1 DEF FilesInv, NoLossOutsideOverlap, InBuffer
  <2>3. e \in Contents(lines'[q])
    BY <1>2, <2>1, <2>2
  <2> QED BY <2>3
<1>11. ASSUME crashes' = 0, ~staleReplaced' PROVE Clean'
  <2>1. ~stale /\ Clean
    BY <1>1, <1>11 DEF FilesInv, process
  <2>2. \A q \in Projects : Held(q)' \subseteq Held(q)
    BY <1>2, <1>8, <2>1 DEF Held
  <2>3. /\ reprocessed = {}
        /\ \A q, o \in Projects : q # o => Held(q) \cap Held(o) = {}
        /\ \A q \in Projects : ~anyCommitted[q] => Held(q) \cap processed = {}
    BY <2>1 DEF Clean
  <2>4. \A q, o \in Projects : q # o => Held(q)' \cap Held(o)' = {}
    BY <2>2, <2>3
  <2>5. \A q \in Projects : ~anyCommitted'[q] => Held(q)' \cap processed = {}
    BY <1>8, <2>2, <2>3
  <2> QED BY <1>1, <2>3, <2>4, <2>5 DEF Clean, history
<1> QED BY <1>4, <1>5, <1>6, <1>7, <1>9, <1>10, <1>11 DEF CInv, FilesInv

\* The answer of the model: some lines, each of which stands for the whole batch.
LEMMA SummaryReplaces ==
  ASSUME WorkerInv, NEW k \in 1 .. MaxSummaryLines, NEW n, n = [i \in 1 .. k |-> Contents(source)]
  PROVE  Replaces(n) /\ Contents(source) \ Contents(n) = {}
<1>1. k \in Nat /\ k >= 1 /\ k <= MaxSummaryLines
  BY CompactionAssumption
<1>2. PICK c : c = Contents(source)
  OBVIOUS
<1>3. c \in SUBSET Events
  BY <1>2, ContentsType DEF WorkerInv, WorkerTyped
<1>4. n = [i \in 1 .. k |-> c]
  BY <1>2
<1>5. n \in Seq(SUBSET Events) /\ Len(n) = k /\ \A i \in 1 .. k : n[i] = c
  BY <1>1, <1>3, <1>4
<1>6. Contents(n) = c
  <2>1. ASSUME NEW x \in Contents(n) PROVE x \in c
    BY <1>5, <2>1, ContentsHas
  <2>2. ASSUME NEW x \in c PROVE x \in Contents(n)
    <3>1. 1 \in 1 .. Len(n) /\ x \in n[1]
      BY <1>1, <1>5, <2>2
    <3> QED BY <1>5, <3>1, ContentsHas
  <2> QED BY <2>1, <2>2
<1> QED BY <1>1, <1>2, <1>5, <1>6 DEF Replaces

\* What an eviction keeps is part of the batch, and not longer.
LEMMA EvictionReplaces ==
  ASSUME WorkerInv, NEW p \in Projects, Compacting(p), NEW n \in Evictions(source)
  PROVE  Replaces(n)
<1>1. source \in Seq(SUBSET Events) /\ Len(source) \in Nat /\ Len(source) > 0
  BY CompactionAssumption DEF WorkerInv, WorkerTyped, Works
<1>2. PICK c : c = KeepCount(source)
  OBVIOUS
<1>3. c \in Nat /\ c <= Len(source)
  BY <1>1, <1>2 DEF KeepCount
<1>4. PICK newest \in Injection(1 .. c, DOMAIN source) : n = [i \in 1 .. c |-> source[newest[i]]]
  BY <1>2 DEF Evictions
<1>5. \A i \in 1 .. c : newest[i] \in 1 .. Len(source)
  BY <1>1, <1>4 DEF Injection
<1>6. \A i \in 1 .. c : source[newest[i]] \in SUBSET Events
  BY <1>1, <1>5
<1>7. n \in Seq(SUBSET Events) /\ Len(n) = c /\ \A i \in 1 .. c : n[i] = source[newest[i]]
  BY <1>3, <1>4, <1>6
<1>8. ASSUME NEW x \in Contents(n) PROVE x \in Contents(source)
  <2>1. PICK i \in 1 .. c : x \in n[i]
    BY <1>7, <1>8, ContentsHas
  <2>2. newest[i] \in 1 .. Len(source) /\ x \in source[newest[i]]
    BY <1>5, <1>7, <2>1
  <2> QED BY <1>1, <2>2, ContentsHas
<1> QED BY <1>3, <1>7, <1>8 DEF Replaces

\* The model answers.
LEMMA ModelSummarizesStep ==
  ASSUME CInv, NEW p \in Projects, ModelSummarizes(p)
  PROVE  CInv'
<1>1. /\ Compacting(p) /\ ReleaseGuard(p) /\ Untouched /\ UNCHANGED evicted
      /\ WorkerInv /\ modelFailures \in [Projects -> 0 .. MaxConsecutiveModelFailures]
      /\ evicted \subseteq Events
  BY DEF ModelSummarizes, Compacting, Untouched, CInv, WorkerInv, WorkerTyped, FilesInv, HistoryTyped
<1>2. CASE ReplaceFails /\ UNCHANGED modelFailures
  BY <1>1, <1>2, ReplaceFailsKeeps
<1>3. ASSUME NEW k \in 1 .. MaxSummaryLines, Replaced(p, [i \in 1 .. k |-> Contents(source)]),
             modelFailures' = [modelFailures EXCEPT ![p] = 0]
      PROVE  CInv'
  <2>1. PICK n : n = [i \in 1 .. k |-> Contents(source)]
    OBVIOUS
  <2>2. Replaces(n) /\ Contents(source) \ Contents(n) = {}
    BY <1>1, <2>1, SummaryReplaces
  <2>3. Replaced(p, n)
    BY <1>3, <2>1
  <2>4. modelFailures' \in [Projects -> 0 .. MaxConsecutiveModelFailures]
    BY <1>1, <1>3, CompactionAssumption
  <2> QED BY <1>1, <2>2, <2>3, <2>4, ReplacedKeeps
<1> QED BY <1>2, <1>3 DEF ModelSummarizes

\* An eviction, after a failure of the model or without asking it.
LEMMA EvictStep ==
  ASSUME CInv, NEW p \in Projects, Compacting(p), EvictAndReplace(p),
         modelFailures' \in [Projects -> 0 .. MaxConsecutiveModelFailures]
  PROVE  CInv'
<1>1. /\ ReleaseGuard(p) /\ Untouched /\ WorkerInv /\ FilesInv
  BY DEF EvictAndReplace, Untouched, CInv
<1>2. CASE ReplaceFails /\ UNCHANGED evicted
  BY <1>1, <1>2, ReplaceFailsKeeps
<1>3. ASSUME NEW n \in Evictions(source), Replaced(p, n),
             evicted' = evicted \cup (Contents(source) \ Contents(n))
      PROVE  CInv'
  <2>1. Replaces(n)
    BY <1>1, EvictionReplaces
  <2>2. Contents(source) \in SUBSET Events
    BY <1>1, ContentsType DEF WorkerInv, WorkerTyped
  <2>3. evicted \subseteq evicted' /\ evicted' \subseteq Events /\ Contents(source) \ Contents(n) \subseteq evicted'
    BY <1>1, <1>3, <2>2 DEF FilesInv, HistoryTyped
  <2> QED BY <1>1, <1>3, <2>1, <2>3, ReplacedKeeps
<1> QED BY <1>2, <1>3 DEF EvictAndReplace

\* Every step of the worker.
LEMMA CompactStep ==
  ASSUME CInv, NEW p \in Projects, Compact(p)
  PROVE  CInv'
<1>1. WorkerInv /\ modelFailures \in [Projects -> 0 .. MaxConsecutiveModelFailures]
  BY DEF CInv, WorkerInv, WorkerTyped
<1>2. CASE ModelSummarizes(p)
  BY <1>2, ModelSummarizesStep
<1>3. CASE ModelFails(p)
  <2>1. Compacting(p) /\ EvictAndReplace(p) /\ modelFailures' = [modelFailures EXCEPT ![p] = @ + 1]
    BY <1>3 DEF ModelFails, Compacting
  <2>2. modelFailures[p] < MaxConsecutiveModelFailures
    BY <1>1, <1>3, <2>1 DEF WorkerInv, Works, ModelFails
  <2>3. modelFailures' \in [Projects -> 0 .. MaxConsecutiveModelFailures]
    BY <1>1, <2>1, <2>2, CompactionAssumption
  <2> QED BY <2>1, <2>3, EvictStep
<1>4. CASE EvictAtOnce(p)
  <2>1. Compacting(p) /\ EvictAndReplace(p) /\ UNCHANGED modelFailures
    BY <1>4 DEF EvictAtOnce, Compacting
  <2> QED BY <1>1, <2>1, EvictStep
<1> QED BY <1>2, <1>3, <1>4 DEF Compact

-----------------------------------------------------------------------------
(* Deaths and restarts. *)

\* The daemon dies: the files stay, or one of them changes as it was about to.
LEMMA DownKeeps ==
  ASSUME CInv, GoDown, WorkerReset, UNCHANGED fragments,
         lines' \in [Projects -> Seq(SUBSET Events)],
         \A q \in Projects : /\ Fits(Len(lines'[q]))
                             /\ Contents(lines'[q]) \subseteq stored'
                             /\ Contents(lines[q]) \subseteq
                                  Contents(lines'[q]) \cup evicted' \cup exposed',
         stored \subseteq stored', stored' \subseteq Events,
         processed \subseteq processed', processed' \subseteq stored', reprocessed' \subseteq Events,
         UNCHANGED <<buffered, late, glued, exposed, evicted>>, staleReplaced' \in BOOLEAN
  PROVE  CInv'
<1>1. PipelineInv /\ WorkerInv /\ FilesInv /\ crashes \in Nat
  BY PipelineTypes DEF CInv
<1>2. /\ FlagsAndSlots'
      /\ bytes' \in [Projects -> Nat]
      /\ idleTimer' \in [Projects -> BOOLEAN]
      /\ consecutiveFailures' \in [Projects -> Nat]
      /\ extractionDisabled' \in [Projects -> BOOLEAN]
      /\ mode' = "down" /\ toArm' = {} /\ crashes' \in Nat
      /\ \A q \in Projects :
           /\ bytes'[q] = 0
           /\ ~idleTimer'[q]
           /\ ~extractionInFlight'[q]
           /\ consecutiveFailures'[q] = 0
           /\ ~extractionDisabled'[q]
           /\ phase'[q] = "none"
           /\ ~anyCommitted'[q]
  BY <1>1, GoDownResets
<1>3. crashes' = crashes + 1 /\ \A q \in Projects : snapshot'[q] = {}
  BY DEF GoDown
<1>4. WatcherType' /\ BreakerStops' /\ FreshUntilArmed' /\ CountedLines'
  <2>1. WatcherType' /\ FreshUntilArmed' /\ CountedLines'
    BY <1>2 DEF WatcherType, FreshUntilArmed, CountedLines
  <2>2. BreakerStops'
    BY <1>2, ThresholdAssumption DEF BreakerStops
  <2> QED BY <2>1, <2>2
<1>5. PipelineInv'
  <2>1. /\ stored' \in SUBSET Events /\ processed' \in SUBSET Events /\ reprocessed' \in SUBSET Events
        /\ buffered' \in SUBSET Events /\ late' \in SUBSET Events /\ glued' \in SUBSET Events
    BY <1>1, PipelineTypes
  <2> QED BY <1>1, <1>2, <1>4, <2>1, PipelineFrom
<1>6. \A q \in Projects : ~compactionInFlight'[q] /\ ~Compacting(q)'
  BY DEF WorkerReset, Compacting
<1>7. WorkerTyped'
  BY CompactionAssumption DEF WorkerReset, WorkerTyped
<1>8. WorkerInv'
  <2>1. GuardsAgree'
    BY <1>6 DEF GuardsAgree, Compacting
  <2>2. \A q \in Projects : Fits(Len(lines[q]))'
    BY DEF Fits
  <2>3. stale' = FALSE
    BY DEF WorkerReset
  <2> QED BY <1>6, <1>7, <2>1, <2>2, <2>3 DEF WorkerInv
<1>9. SourceInv'
  BY <1>6 DEF SourceInv
<1>10. RunsInv'
  <2>1. \A q \in Projects : ~HoldsSnapshot(q)'
    BY <1>2 DEF HoldsSnapshot
  <2> QED BY <1>2, <1>3, <2>1 DEF RunsInv
<1>11. StoredInv'
  <2>1. \A q \in Projects : Held(q)' \subseteq stored'
    BY <1>3 DEF Held
  <2> QED BY <2>1 DEF StoredInv
<1>12. HistoryTyped'
  BY <1>1 DEF FilesInv, HistoryTyped
<1>13. NoLossOutsideOverlap'
  <2>1. SUFFICES ASSUME NEW e \in buffered \ (late \cup evicted \cup exposed), e \notin processed'
                 PROVE  \E q \in Projects : e \in Contents(lines'[q])
    BY DEF NoLossOutsideOverlap, InBuffer
  <2>2. PICK q \in Projects : e \in Contents(lines[q])
    BY <1>1, <2>1 DEF FilesInv, NoLossOutsideOverlap, InBuffer
  <2>3. e \in Contents(lines'[q])
    BY <2>1, <2>2
  <2> QED BY <2>3
<1>14. crashes' # 0
  BY <1>1, <1>3
<1> QED BY <1>5, <1>8, <1>9, <1>10, <1>11, <1>12, <1>13, <1>14 DEF CInv, FilesInv

\* The three deaths of the pipeline.
LEMMA DeathStep ==
  ASSUME CInv, DeathBeside, UNCHANGED fragments
  PROVE  CInv'
<1>1. /\ PipelineInv /\ WorkerInv /\ FilesInv /\ WorkerReset
      /\ UNCHANGED <<staleReplaced, exposed, evicted>> /\ staleReplaced \in BOOLEAN
  BY DEF CInv, DeathBeside, overlap, FilesInv, HistoryTyped
<1>2. /\ lines \in [Projects -> Seq(SUBSET Events)]
      /\ stored \subseteq Events /\ processed \subseteq stored /\ reprocessed \subseteq Events
      /\ \A q \in Projects : /\ Fits(Len(lines[q])) /\ Contents(lines[q]) \subseteq stored
                             /\ snapshot[q] \subseteq stored
                             /\ lines[q] \in Seq(SUBSET Events) /\ Len(lines[q]) \in Nat
  BY <1>1, PipelineFacts, PipelineTypes DEF WorkerInv, FilesInv, StoredInv, Held
<1>3. CASE Crash
  BY <1>1, <1>2, <1>3, DownKeeps DEF Crash, durable, history
<1>4. ASSUME NEW p \in Projects, NEW e \in Events, CrashInPost(p, e) PROVE CInv'
  <2>1. /\ GoDown /\ stored' = stored \cup {e} /\ UNCHANGED <<processed, history>>
        /\ mode = "up" /\ ~(bytes[p] + 1 > BufferMaxBytes)
        /\ UNCHANGED lines \/ AppendLine(p, {e})
    BY <1>4 DEF CrashInPost, Posting, Quiescent, WouldExceedCeiling, AppendFragment
  <2>2. CASE UNCHANGED lines
    <3>1. stored \subseteq stored' /\ stored' \subseteq Events /\ processed' \subseteq stored'
      BY <1>2, <2>1
    <3> QED BY <1>1, <1>2, <2>1, <2>2, <3>1, DownKeeps DEF history
  <2>3. CASE AppendLine(p, {e})
    <3>1. /\ ~Torn(p) /\ {e} \in SUBSET Events /\ bytes[p] = Len(lines[p])
          /\ lines[p] \in Seq(SUBSET Events) /\ Len(lines[p]) \in Nat
      BY <1>1, <1>2, <2>1 DEF PipelineInv, CountedLines, Torn, NoFragments
    <3>2. lines' = [lines EXCEPT ![p] = Append(lines[p], {e})]
      BY <2>3, <3>1 DEF AppendLine
    <3>3. /\ Append(lines[p], {e}) \in Seq(SUBSET Events)
          /\ Len(Append(lines[p], {e})) = Len(lines[p]) + 1
          /\ Contents(Append(lines[p], {e})) = Contents(lines[p]) \cup {e}
      <4>1. lines[p] \in Seq(SUBSET Events) /\ {e} \in SUBSET Events
        BY <3>1
      <4> QED BY <4>1, AppendContents, SMTT(60)
    <3>4. /\ lines' \in [Projects -> Seq(SUBSET Events)]
          /\ lines'[p] = Append(lines[p], {e})
          /\ \A q \in Projects \ {p} : lines'[q] = lines[q]
      BY <1>2, <3>2, <3>3
    <3>5. /\ Contents(lines'[p]) = Contents(lines[p]) \cup {e}
          /\ Fits(Len(lines'[p]))
      <4>1. Contents(lines'[p]) = Contents(lines[p]) \cup {e} /\ Len(lines'[p]) = Len(lines[p]) + 1
        BY <3>3, <3>4
      <4>2. Len(lines'[p]) <= BufferMaxBytes
        BY <2>1, <3>1, <4>1, ThresholdAssumption
      <4> QED BY <4>1, <4>2 DEF Fits
    <3>6. \A q \in Projects : /\ Fits(Len(lines'[q]))
                              /\ Contents(lines'[q]) \subseteq stored'
                              /\ Contents(lines[q]) \subseteq Contents(lines'[q]) \cup evicted' \cup exposed'
      BY <1>2, <2>1, <3>4, <3>5
    <3>7. stored \subseteq stored' /\ stored' \subseteq Events /\ processed' \subseteq stored'
      BY <1>2, <2>1
    <3> QED BY <1>1, <1>2, <2>1, <3>4, <3>6, <3>7, DownKeeps DEF history
  <2> QED BY <2>1, <2>2, <2>3
<1>5. ASSUME NEW p \in Projects, CrashInCommit(p) PROVE CInv'
  <2>1. GoDown /\ Process(snapshot[p]) /\ UNCHANGED <<lines, stored, buffered, late, glued>>
    BY <1>5 DEF CrashInCommit
  <2>2. processed \subseteq processed' /\ processed' \subseteq stored /\ reprocessed' \subseteq Events
    BY <1>2, <2>1 DEF Process
  <2> QED BY <1>1, <1>2, <2>1, <2>2, DownKeeps
<1> QED BY <1>3, <1>4, <1>5 DEF DeathBeside

\* A death between the rename and the answer to the watcher.
LEMMA CrashAfterRenameStep ==
  ASSUME CInv, NEW p \in Projects, CrashAfterRename(p)
  PROVE  CInv'
<1>1. /\ PipelineInv /\ WorkerInv /\ FilesInv /\ Compacting(p)
      /\ GoDown /\ WorkerReset /\ UNCHANGED <<fragments, stored, processed, history, exposed, evicted>>
      /\ staleReplaced' = (staleReplaced \/ stale)
  BY DEF CInv, CrashAfterRename, Compacting
<1>2. PICK k \in 1 .. MaxSummaryLines :
        lines' = [lines EXCEPT ![p] = [i \in 1 .. k |-> Contents(source)] \o CatchUp(p)]
  BY DEF CrashAfterRename
<1>3. PICK n : n = [i \in 1 .. k |-> Contents(source)]
  OBVIOUS
<1>4. Replaces(n) /\ Contents(source) \ Contents(n) = {}
  BY <1>1, <1>3, SummaryReplaces
<1>5. Rewrites(p, n)
  BY <1>1, <1>2, <1>3, <1>4, ReplacedRewrites
<1>6. /\ stored \subseteq Events /\ processed \subseteq stored /\ reprocessed \subseteq Events
      /\ \A q \in Projects : Contents(lines[q]) \subseteq stored
  BY <1>1, PipelineTypes DEF FilesInv, StoredInv, Held
<1>7. \A q \in Projects : /\ Fits(Len(lines'[q]))
                          /\ Contents(lines'[q]) \subseteq stored'
                          /\ Contents(lines[q]) \subseteq Contents(lines'[q]) \cup evicted' \cup exposed'
  BY <1>1, <1>4, <1>5, <1>6 DEF Rewrites
<1>8. staleReplaced' \in BOOLEAN
  BY <1>1, Zenon
<1> QED BY <1>1, <1>5, <1>6, <1>7, <1>8, DownKeeps DEF Rewrites, history

\* The start-up scan begins.
LEMMA RestartBesideStep ==
  ASSUME CInv, Restart, UNCHANGED compaction
  PROVE  CInv'
<1>1. PipelineInv /\ WorkerInv /\ FilesInv
  BY DEF CInv
<1>2. /\ mode = "down" /\ mode' = "arming" /\ toArm' = Projects
      /\ UNCHANGED <<lines, fragments, stored, processed, watcher, pipeline, crashes, history>>
      /\ UNCHANGED <<worker, stale, staleReplaced, exposed, evicted>>
  BY DEF Restart, durable, compaction, overlap
<1>3. PipelineInv'
  <2>1. FlagsAndSlots' /\ WatcherType' /\ BreakerStops' /\ FreshUntilArmed' /\ CountedLines'
    BY <1>1, <1>2, PipelineFacts
    DEF FlagsAndSlots, Slots, PipelineType, SlotsAccounted, SlotHolders, HoldsSlot, InFlightMatchesRun,
        WatcherType, BreakerStops, PipelineInv, FreshUntilArmed, CountedLines, watcher, pipeline
  <2> QED BY <1>1, <1>2, <2>1, PipelineFrom, PipelineTypes, PipelineFacts DEF history
<1>4. \A p \in Projects : ~Compacting(p) /\ ~Compacting(p)'
  BY <1>1, <1>2 DEF WorkerInv, Works, Compacting, worker
<1>5. WorkerInv'
  BY <1>1, <1>2, <1>4 DEF WorkerInv, WorkerTyped, GuardsAgree, WorkerBusy, Compacting, Fits, worker
<1>6. SourceInv'
  BY <1>4 DEF SourceInv
<1>7. RunsInv' /\ StoredInv' /\ HistoryTyped' /\ NoLossOutsideOverlap'
  BY <1>1, <1>2 DEF FilesInv, RunsInv, HoldsSnapshot, StoredInv, Held, HistoryTyped, NoLossOutsideOverlap,
                    InBuffer, Contents, pipeline, history
<1>8. (crashes = 0 /\ ~staleReplaced => Clean)'
  BY <1>1, <1>2 DEF FilesInv, Clean, Held, Contents, pipeline, history
<1> QED BY <1>3, <1>5, <1>6, <1>7, <1>8 DEF CInv, FilesInv

\* Nothing happens.
LEMMA RestStep ==
  ASSUME CInv, UNCHANGED allVars
  PROVE  CInv'
<1>1. PipelineInv /\ WorkerInv /\ FilesInv
  BY DEF CInv
<1>2. UNCHANGED <<durable, watcher, pipeline, process, history, worker, stale, overlap>>
  BY DEF allVars, vars, compaction
<1>3. PipelineInv'
  <2>1. FlagsAndSlots' /\ WatcherType' /\ BreakerStops' /\ FreshUntilArmed' /\ CountedLines'
    BY <1>1, <1>2, PipelineFacts
    DEF FlagsAndSlots, Slots, PipelineType, SlotsAccounted, SlotHolders, HoldsSlot, InFlightMatchesRun,
        WatcherType, BreakerStops, PipelineInv, FreshUntilArmed, CountedLines, durable, watcher, pipeline, process
  <2> QED BY <1>1, <1>2, <2>1, PipelineFrom, PipelineTypes, PipelineFacts DEF durable, process, history
<1>4. WorkerInv'
  BY <1>1, <1>2 DEF WorkerInv, WorkerTyped, GuardsAgree, WorkerBusy, Compacting, Works, Fits, worker, process, durable
<1>5. SourceInv' /\ RunsInv'
  BY <1>1, <1>2 DEF FilesInv, SourceInv, RunsInv, HoldsSnapshot, Compacting, BeginsWith, Contents,
                    worker, overlap, durable, pipeline, history
<1>6. StoredInv' /\ HistoryTyped' /\ NoLossOutsideOverlap'
  BY <1>1, <1>2 DEF FilesInv, StoredInv, Held, HistoryTyped, NoLossOutsideOverlap, InBuffer, Contents,
                    overlap, durable, pipeline, history
<1>7. (crashes = 0 /\ ~staleReplaced => Clean)'
  BY <1>1, <1>2 DEF FilesInv, Clean, Held, Contents, durable, pipeline, process, history, overlap
<1> QED BY <1>3, <1>4, <1>5, <1>6, <1>7 DEF CInv, FilesInv

-----------------------------------------------------------------------------
(* The theorems. *)

\* The invariant holds at the start.
LEMMA CInvInit == CompactionInit => CInv
<1> SUFFICES ASSUME CompactionInit PROVE CInv
  OBVIOUS
<1>1. TypeOK /\ InFlightMatchesRun /\ SlotsAccounted /\ BreakerStops /\ FreshUntilArmed
  <2>1. Init
    BY DEF CompactionInit
  <2> QED BY <2>1, IInvInit DEF IInv, WatcherInv
<1>2. PipelineInv
  <2>1. CountedLines /\ \A p \in Projects : fragments[p] = NoFragments
    BY DEF CompactionInit, Init, CountedLines
  <2> QED BY <1>1, <2>1 DEF PipelineInv
<1>3. \A p \in Projects : lines[p] = <<>> /\ snapshot[p] = {} /\ phase[p] = "none" /\ ~anyCommitted[p]
  BY DEF CompactionInit, Init
<1>4. \A p \in Projects : ~Compacting(p) /\ ~compactionInFlight[p]
  BY DEF CompactionInit, Compacting
<1>5. WorkerInv
  <2>1. WorkerTyped
    BY CompactionAssumption DEF CompactionInit, WorkerTyped
  <2>2. \A p \in Projects : Fits(Len(lines[p]))
    BY <1>3, ThresholdAssumption DEF Fits
  <2>3. stale = FALSE
    BY DEF CompactionInit
  <2> QED BY <1>4, <2>1, <2>2, <2>3 DEF WorkerInv, GuardsAgree
<1>6. \A p \in Projects : Contents(lines[p]) = {} /\ Held(p) = {}
  BY <1>3, EmptyContents DEF Held
<1>7. SourceInv /\ RunsInv /\ StoredInv /\ HistoryTyped /\ NoLossOutsideOverlap
  BY <1>3, <1>4, <1>6 DEF SourceInv, RunsInv, HoldsSnapshot, StoredInv, HistoryTyped, NoLossOutsideOverlap,
                          CompactionInit, Init
<1>8. Clean
  BY <1>6 DEF Clean, CompactionInit, Init
<1> QED BY <1>2, <1>5, <1>7, <1>8 DEF CInv, FilesInv

\* Every step keeps it.
LEMMA CInvStep == CInv /\ [CompactionNext]_allVars => CInv'
<1> SUFFICES ASSUME CInv, [CompactionNext]_allVars PROVE CInv'
  OBVIOUS
<1>1. ASSUME NEW p \in Projects, NEW e \in Events, PostBeside(p, e), UNCHANGED fragments PROVE CInv'
  BY <1>1, PostBesideStep
<1>2. ASSUME NEW p \in Projects, RunBeside(p) \/ ArmBeside(p), UNCHANGED fragments PROVE CInv'
  BY <1>2, RunBesideStep, ArmBesideStep
<1>3. ASSUME NEW p \in Projects, Compact(p) \/ CrashAfterRename(p) PROVE CInv'
  BY <1>3, CompactStep, CrashAfterRenameStep
<1>4. CASE DeathBeside /\ UNCHANGED fragments
  BY <1>4, DeathStep
<1>5. CASE Restart /\ UNCHANGED compaction
  BY <1>5, RestartBesideStep
<1>6. CASE UNCHANGED allVars
  BY <1>6, RestStep
<1> QED BY <1>1, <1>2, <1>3, <1>4, <1>5, <1>6 DEF CompactionNext

\* The inductive invariant of the pipeline with its compaction worker.
THEOREM CompactionInvariant == CompactionSpec => []CInv
BY CInvInit, CInvStep, PTL DEF CompactionSpec

\* The flag of the watcher and the guard of the worker agree, one project at a
\* time, whatever is posted, run, replaced, killed or restarted meanwhile.
THEOREM WorkerStaysConsistent == CompactionSpec => []WorkerConsistent
<1>1. CInv => WorkerConsistent
  BY DEF CInv, PipelineInv, WorkerInv, WorkerTyped, FilesInv, HistoryTyped, WorkerConsistent, CompactionTypeOK
<1> QED BY <1>1, CompactionInvariant, PTL

\* The counter follows the file through every replace, and the file exceeds the
\* ceiling by no more than one answer of the model.
THEOREM CeilingStaysNearlyKept == CompactionSpec => []CeilingIsNearlyKept
<1>1. CInv => CeilingIsNearlyKept
  <2> SUFFICES ASSUME CInv PROVE CeilingIsNearlyKept
    OBVIOUS
  <2>1. \A p \in Projects : Fits(Len(lines[p]))
    BY DEF CInv, WorkerInv
  <2>2. \A p \in Projects : Len(lines[p]) \in Nat /\ bytes[p] \in Nat
    BY PipelineTypes DEF CInv
  <2>3. CeilingOvershoot
    BY <2>1, <2>2, CompactionAssumption, ThresholdAssumption DEF CeilingOvershoot, Fits
  <2>4. BytesMatchFile
    <3>1. \A p \in Projects : fragments[p].units = 0 /\ fragments[p].unseen = 0
      BY DEF CInv, PipelineInv, NoFragments
    <3>2. CountedLines
      BY DEF CInv, PipelineInv
    <3> QED BY <2>2, <3>1, <3>2 DEF BytesMatchFile, CountedLines, FileSize
  <2> QED BY <2>3, <2>4 DEF CeilingIsNearlyKept
<1> QED BY <1>1, CompactionInvariant, PTL

\* Only the moments that are named make the pipeline lose an event, or process
\* it twice, with the worker on.
THEOREM OnlyOverlapsDoHarm == CompactionSpec => []OnlyOverlapsHarm
<1>1. CInv => OnlyOverlapsHarm
  <2> SUFFICES ASSUME CInv PROVE OnlyOverlapsHarm
    OBVIOUS
  <2>1. FilesInv /\ crashes \in Nat
    BY PipelineTypes DEF CInv
  <2>2. RepeatsNeedOverlap
    BY <2>1 DEF FilesInv, Clean, RepeatsNeedOverlap
  <2> QED BY <2>1, <2>2 DEF FilesInv, OnlyOverlapsHarm
<1> QED BY <1>1, CompactionInvariant, PTL
=============================================================================
