--------------------------- MODULE BufferPipeline ---------------------------
(***************************************************************************)
(* The core of the collector daemon: events posted by the shims are stored *)
(* in SQLite, appended to one NDJSON buffer file per project, and handed,  *)
(* batch by batch, to the ingestion pipeline, which turns a snapshot of    *)
(* the file into memory records and then deletes the file.                 *)
(*                                                                         *)
(*   collector/pipeline/index.ts     process(): the POST handler           *)
(*   collector/buffer/store.ts       the buffer files                      *)
(*   collector/buffer/watcher.ts     triggers, byte counter, breaker       *)
(*   collector/ingestion/index.ts    runs, semaphore, clear discipline     *)
(*   collector/index.ts              wiring, re-arming at start-up         *)
(*                                                                         *)
(* Granularity. The daemon is one Node process: storage and file calls are *)
(* synchronous, so a callback and every promise reaction it resolves run   *)
(* to completion before the next callback. One action is one such          *)
(* macrotask, except that the first step of a run that has just been given *)
(* a slot (phase "granted") is an action of its own; Quiescent keeps every *)
(* other callback out until it has been taken. A kill, on the contrary,    *)
(* can fall between any two system calls.                                  *)
(*                                                                         *)
(* Data. A line of a buffer file is the set of events it stands for: {e}   *)
(* for the projection of event e, {} for a line that JSON.parse rejects.   *)
(* Every line counts one byte unit, and so does the fragment that an       *)
(* append leaves when it fails or is cut short: it is in the file, and in  *)
(* what statSync says of it. A fragment is taken to be unparseable: only   *)
(* one that lacks nothing but its newline would still parse, until the     *)
(* next append. Compaction is off, as by default; module BufferCompaction  *)
(* adds it. Which clusters and records a batch produces, and the judge     *)
(* breaker, are in module Reconciler: here a run may take either commit    *)
(* path.                                                                   *)
(***************************************************************************)
EXTENDS Naturals, Sequences, FiniteSets

CONSTANTS
  Projects,                 \* project ids, one buffer file each
  Events,                   \* events the shims may post, each at most once
  ExtractionSizeThreshold,  \* byte units at which extraction fires (>=)
  BufferMaxBytes,           \* hard ceiling on the counted size (>)
  MaxConsecutiveFailures,   \* failed runs that trip the breaker (>=)
  ExtractionConcurrency,    \* semaphore slots shared by all projects
  MaxCrashes                \* bound: how often the daemon may die

ASSUME ProjectsAssumption == IsFiniteSet(Projects)
ASSUME ThresholdAssumption ==
  /\ ExtractionSizeThreshold \in Nat \ {0}
  /\ BufferMaxBytes \in Nat \ {0}
  /\ MaxConsecutiveFailures \in Nat \ {0}
  /\ ExtractionConcurrency \in Nat \ {0}
  /\ MaxCrashes \in Nat

VARIABLES
  \* durable: survives the death of the daemon
  lines,       \* lines[p]: the complete lines of p's buffer.ndjson (<<>>: no file)
  fragments,   \* fragments[p]: what failed and interrupted appends left in it
  stored,      \* events with a row in SQLite's events table
  processed,   \* events covered by a batch that committed, or had nothing to keep
  \* watcher: in-memory state per project
  bytes,                \* currentBytes
  idleTimer,            \* an idle timer is armed
  extractionInFlight,
  consecutiveFailures,
  extractionDisabled,
  \* ingestion pipeline: in-memory
  activeCount,  \* semaphore slots taken
  waitQueue,    \* projects whose run waits for a slot, oldest first
  phase,        \* phase[p]: where p's doRun activation is, "none" without one
  snapshot,     \* the events of its snapshot of the file
  anyCommitted, \* whether one of its clusters has committed
  \* the process
  mode,         \* "up", "down", or "arming" (start-up scan of the buffers)
  toArm,        \* projects the start-up scan has yet to visit
  crashes,      \* how often the daemon died
  \* history, read by properties only
  buffered,     \* events whose append completed
  late,         \* those appended while a run of their project held a snapshot
  glued,        \* those appended behind a torn fragment
  reprocessed   \* events covered by more than one committed batch

durable == <<lines, fragments, stored, processed>>
watcher == <<bytes, idleTimer, extractionInFlight, consecutiveFailures,
             extractionDisabled>>
pipeline == <<activeCount, waitQueue, phase, snapshot, anyCommitted>>
process == <<mode, toArm, crashes>>
history == <<buffered, late, glued, reprocessed>>
vars == <<durable, watcher, pipeline, process, history>>

(***************************************************************************)
(* Phases of doRun: waiting for a slot; slot granted, snapshot not yet     *)
(* read; compressor called; candidates extracted, clusters being settled.  *)
(***************************************************************************)
Phase == {"none", "waiting", "granted", "extracting", "reconciling"}

HoldsSlot(p) == phase[p] \in {"granted", "extracting", "reconciling"}
HoldsSnapshot(p) == phase[p] \in {"extracting", "reconciling"}

(***************************************************************************)
(* Fragments of one file: whether it ends in one, so that the next line is *)
(* glued to it; their byte units; those of them the byte counter does not  *)
(* know of; and, read by properties only, those of appends that failed     *)
(* while the daemon lived on.                                              *)
(***************************************************************************)
Fragments == [open : BOOLEAN, units : Nat, unseen : Nat, failed : Nat]
NoFragments == [open |-> FALSE, units |-> 0, unseen |-> 0, failed |-> 0]

TypeOK ==
  /\ lines \in [Projects -> Seq(SUBSET Events)]
  /\ fragments \in [Projects -> Fragments]
  /\ stored \subseteq Events
  /\ processed \subseteq Events
  /\ bytes \in [Projects -> Nat]
  /\ idleTimer \in [Projects -> BOOLEAN]
  /\ extractionInFlight \in [Projects -> BOOLEAN]
  /\ consecutiveFailures \in [Projects -> Nat]
  /\ extractionDisabled \in [Projects -> BOOLEAN]
  /\ activeCount \in Nat
  /\ waitQueue \in Seq(Projects)
  /\ phase \in [Projects -> Phase]
  /\ snapshot \in [Projects -> SUBSET Events]
  /\ anyCommitted \in [Projects -> BOOLEAN]
  /\ mode \in {"up", "down", "arming"}
  /\ toArm \subseteq Projects
  /\ crashes \in Nat
  /\ buffered \subseteq Events
  /\ late \subseteq Events
  /\ glued \subseteq Events
  /\ reprocessed \subseteq Events

-----------------------------------------------------------------------------
(* The buffer file. *)

Contents(file) == UNION {file[i] : i \in DOMAIN file}

\* What statSync says of it.
FileSize(p) == Len(lines[p]) + fragments[p].units

Torn(p) == fragments[p].open

\* append: a line behind a fragment is glued to it and cannot be parsed.
AppendLine(p, line) ==
  /\ lines' = [lines EXCEPT ![p] = Append(@, IF Torn(p) THEN {} ELSE line)]
  /\ fragments' = [fragments EXCEPT ![p] = [@ EXCEPT !.open = FALSE]]

\* append, of which only the first part reaches the file.
AppendFragment(p, failed) ==
  /\ fragments' = [fragments EXCEPT
       ![p] = [open |-> TRUE, units |-> @.units + 1, unseen |-> @.unseen + 1,
               failed |-> @.failed + failed]]
  /\ UNCHANGED lines

ClearFile(p) ==
  /\ lines' = [lines EXCEPT ![p] = <<>>]
  /\ fragments' = [fragments EXCEPT ![p] = NoFragments]

-----------------------------------------------------------------------------
(* The semaphore and the extraction trigger. *)

Quiescent == mode = "up" /\ \A p \in Projects : phase[p] # "granted"

AcquireSemaphore(p) ==
  /\ \/ /\ activeCount < ExtractionConcurrency
        /\ activeCount' = activeCount + 1
        /\ phase' = [phase EXCEPT ![p] = "granted"]
        /\ UNCHANGED waitQueue
     \/ /\ activeCount >= ExtractionConcurrency
        /\ waitQueue' = Append(waitQueue, p)
        /\ phase' = [phase EXCEPT ![p] = "waiting"]
        /\ UNCHANGED activeCount
  /\ UNCHANGED <<snapshot, anyCommitted>>

\* Variant: the slot is handed over and counted as returned as well.
ReleaseSemaphoreTwice(p) ==
  /\ \/ /\ waitQueue # <<>>
        /\ waitQueue' = Tail(waitQueue)
        /\ phase' = [phase EXCEPT ![p] = "none", ![Head(waitQueue)] = "granted"]
     \/ /\ waitQueue = <<>>
        /\ phase' = [phase EXCEPT ![p] = "none"]
        /\ UNCHANGED waitQueue
  /\ activeCount' = activeCount - 1
  /\ snapshot' = [snapshot EXCEPT ![p] = {}]
  /\ anyCommitted' = [anyCommitted EXCEPT ![p] = FALSE]

\* Variant: the slot is returned and no waiter is woken.
ReleaseSemaphoreWakesNobody(p) ==
  /\ phase' = [phase EXCEPT ![p] = "none"]
  /\ activeCount' = activeCount - 1
  /\ snapshot' = [snapshot EXCEPT ![p] = {}]
  /\ anyCommitted' = [anyCommitted EXCEPT ![p] = FALSE]
  /\ UNCHANGED waitQueue

\* The slot passes to the oldest waiter, or is returned.
ReleaseSemaphore(p) ==
  /\ \/ /\ waitQueue # <<>>
        /\ waitQueue' = Tail(waitQueue)
        /\ phase' = [phase EXCEPT ![p] = "none", ![Head(waitQueue)] = "granted"]
        /\ UNCHANGED activeCount
     \/ /\ waitQueue = <<>>
        /\ phase' = [phase EXCEPT ![p] = "none"]
        /\ activeCount' = activeCount - 1
        /\ UNCHANGED waitQueue
  /\ snapshot' = [snapshot EXCEPT ![p] = {}]
  /\ anyCommitted' = [anyCommitted EXCEPT ![p] = FALSE]

\* Variant: the breaker is not asked.
CanFireWhileDisabled(p) == ~extractionInFlight[p]

CanFire(p) == ~extractionInFlight[p] /\ ~extractionDisabled[p]

FireExtraction(p) ==
  \/ /\ CanFire(p)
     /\ extractionInFlight' = [extractionInFlight EXCEPT ![p] = TRUE]
     /\ AcquireSemaphore(p)
  \/ /\ ~CanFire(p)
     /\ UNCHANGED <<extractionInFlight, pipeline>>

\* Variant: an armed idle timer is reset, a timer is never armed.
NotifyAppendArmsNothing(p, appended) ==
  /\ bytes' = [bytes EXCEPT ![p] = @ + appended]
  /\ IF bytes'[p] >= ExtractionSizeThreshold
     THEN FireExtraction(p)
     ELSE UNCHANGED <<extractionInFlight, pipeline>>
  /\ UNCHANGED <<idleTimer, consecutiveFailures, extractionDisabled>>

NotifyAppend(p, appended) ==
  /\ bytes' = [bytes EXCEPT ![p] = @ + appended]
  /\ idleTimer' = [idleTimer EXCEPT ![p] = TRUE]
  /\ IF bytes'[p] >= ExtractionSizeThreshold
     THEN FireExtraction(p)
     ELSE UNCHANGED <<extractionInFlight, pipeline>>
  /\ UNCHANGED <<consecutiveFailures, extractionDisabled>>

\* Variant: the byte counter survives the file.
NotifySuccessKeepsBytes(p) ==
  /\ extractionInFlight' = [extractionInFlight EXCEPT ![p] = FALSE]
  /\ consecutiveFailures' = [consecutiveFailures EXCEPT ![p] = 0]
  /\ extractionDisabled' = [extractionDisabled EXCEPT ![p] = FALSE]
  /\ UNCHANGED <<bytes, idleTimer>>

NotifySuccess(p) ==
  /\ extractionInFlight' = [extractionInFlight EXCEPT ![p] = FALSE]
  /\ consecutiveFailures' = [consecutiveFailures EXCEPT ![p] = 0]
  /\ extractionDisabled' = [extractionDisabled EXCEPT ![p] = FALSE]
  /\ bytes' = [bytes EXCEPT ![p] = 0]
  /\ UNCHANGED idleTimer

\* Variant: the in-flight flag is lowered on success only.
NotifyFailureKeepsFlag(p) ==
  /\ consecutiveFailures' = [consecutiveFailures EXCEPT ![p] = @ + 1]
  /\ extractionDisabled' = [extractionDisabled EXCEPT
       ![p] = @ \/ consecutiveFailures[p] + 1 >= MaxConsecutiveFailures]
  /\ UNCHANGED <<extractionInFlight, bytes, idleTimer>>

NotifyFailure(p) ==
  /\ extractionInFlight' = [extractionInFlight EXCEPT ![p] = FALSE]
  /\ consecutiveFailures' = [consecutiveFailures EXCEPT ![p] = @ + 1]
  /\ extractionDisabled' = [extractionDisabled EXCEPT
       ![p] = @ \/ consecutiveFailures[p] + 1 >= MaxConsecutiveFailures]
  /\ UNCHANGED <<bytes, idleTimer>>

-----------------------------------------------------------------------------
(* Posting an event: process() behind POST /v1/events. *)

WouldExceedCeiling(p) == bytes[p] + 1 > BufferMaxBytes

Posting(e) == Quiescent /\ e \notin stored /\ stored' = stored \cup {e}

\* Over the ceiling the event is stored but not buffered.
PostSkipped(p, e) ==
  /\ Posting(e)
  /\ WouldExceedCeiling(p)
  /\ UNCHANGED <<lines, fragments, processed, watcher, pipeline, process, history>>

PostBuffered(p, e) ==
  /\ Posting(e)
  /\ ~WouldExceedCeiling(p)
  /\ AppendLine(p, {e})
  /\ NotifyAppend(p, 1)
  /\ buffered' = buffered \cup {e}
  /\ late' = IF HoldsSnapshot(p) THEN late \cup {e} ELSE late
  /\ glued' = IF Torn(p) THEN glued \cup {e} ELSE glued
  /\ UNCHANGED <<processed, process, reprocessed>>

\* appendFileSync throws (disk full): the error is swallowed, the watcher is
\* not told, and part of the line may have reached the file.
PostWriteFails(p, e) ==
  /\ Posting(e)
  /\ ~WouldExceedCeiling(p)
  /\ AppendFragment(p, 1) \/ UNCHANGED <<lines, fragments>>
  /\ UNCHANGED <<processed, watcher, pipeline, process, history>>

-----------------------------------------------------------------------------
(* A run: doRun of the ingestion pipeline. *)

IdleTimerFires(p) ==
  /\ Quiescent
  /\ idleTimer[p]
  /\ idleTimer' = [idleTimer EXCEPT ![p] = FALSE]
  /\ FireExtraction(p)
  /\ UNCHANGED <<durable, bytes, consecutiveFailures, extractionDisabled,
                 process, history>>

\* Variant: the run is reported a success and the file stays.
FinishSuccessKeepsFile(p) ==
  /\ NotifySuccess(p)
  /\ ReleaseSemaphore(p)
  /\ UNCHANGED <<lines, fragments>>

FinishSuccess(p) ==
  /\ ClearFile(p)
  /\ NotifySuccess(p)
  /\ ReleaseSemaphore(p)

\* Variant: the file is deleted after a failed run too.
FinishFailureClears(p) ==
  /\ ClearFile(p)
  /\ NotifyFailure(p)
  /\ ReleaseSemaphore(p)

FinishFailure(p) ==
  /\ NotifyFailure(p)
  /\ ReleaseSemaphore(p)
  /\ UNCHANGED <<lines, fragments>>

\* A batch covering the events of snap is done with.
Process(snap) ==
  /\ processed' = processed \cup snap
  /\ reprocessed' = reprocessed \cup (processed \cap snap)

\* First step of a run that holds a slot: read the file.
TakeSnapshot(p) ==
  /\ mode # "down"
  /\ phase[p] = "granted"
  /\ IF Contents(lines[p]) = {}
     THEN FinishSuccess(p)
     ELSE /\ phase' = [phase EXCEPT ![p] = "extracting"]
          /\ snapshot' = [snapshot EXCEPT ![p] = Contents(lines[p])]
          /\ UNCHANGED <<lines, fragments, watcher, activeCount, waitQueue, anyCommitted>>
  /\ UNCHANGED <<stored, processed, process, history>>

\* The compressor timed out, crashed or answered garbage on every attempt.
ExtractionFails(p) ==
  /\ Quiescent
  /\ phase[p] = "extracting"
  /\ FinishFailure(p)
  /\ UNCHANGED <<stored, processed, process, history>>

\* No candidates, or the direct-commit path: all in one macrotask.
ExtractionCompletes(p) ==
  /\ Quiescent
  /\ phase[p] = "extracting"
  /\ Process(snapshot[p])
  /\ FinishSuccess(p)
  /\ UNCHANGED <<stored, process, buffered, late, glued>>

\* Candidates, and reconciliation applies.
ReconciliationStarts(p) ==
  /\ Quiescent
  /\ phase[p] = "extracting"
  /\ phase' = [phase EXCEPT ![p] = "reconciling"]
  /\ UNCHANGED <<durable, watcher, activeCount, waitQueue, snapshot, anyCommitted,
                 process, history>>

\* One cluster of several commits, or fails and is skipped. Every record names
\* all events of the snapshot as its sources, whichever cluster it comes from.
ClusterSettles(p, commits) ==
  /\ Quiescent
  /\ phase[p] = "reconciling"
  /\ anyCommitted' = [anyCommitted EXCEPT ![p] = @ \/ commits]
  /\ IF commits /\ ~anyCommitted[p]
     THEN Process(snapshot[p])
     ELSE UNCHANGED <<processed, reprocessed>>
  /\ UNCHANGED <<lines, fragments, stored, watcher, activeCount, waitQueue, phase,
                 snapshot, process, buffered, late, glued>>

\* The last cluster settles; the run succeeds if any cluster committed.
LastClusterSettles(p, commits) ==
  /\ Quiescent
  /\ phase[p] = "reconciling"
  /\ IF commits /\ ~anyCommitted[p]
     THEN Process(snapshot[p])
     ELSE UNCHANGED <<processed, reprocessed>>
  /\ IF commits \/ anyCommitted[p] THEN FinishSuccess(p) ELSE FinishFailure(p)
  /\ UNCHANGED <<stored, process, buffered, late, glued>>

-----------------------------------------------------------------------------
(* Death and restart of the daemon. *)

GoDown ==
  /\ mode # "down"
  /\ crashes < MaxCrashes
  /\ crashes' = crashes + 1
  /\ mode' = "down"
  /\ toArm' = {}
  /\ bytes' = [p \in Projects |-> 0]
  /\ idleTimer' = [p \in Projects |-> FALSE]
  /\ extractionInFlight' = [p \in Projects |-> FALSE]
  /\ consecutiveFailures' = [p \in Projects |-> 0]
  /\ extractionDisabled' = [p \in Projects |-> FALSE]
  /\ activeCount' = 0
  /\ waitQueue' = <<>>
  /\ phase' = [p \in Projects |-> "none"]
  /\ snapshot' = [p \in Projects |-> {}]
  /\ anyCommitted' = [p \in Projects |-> FALSE]

Crash == GoDown /\ UNCHANGED <<durable, history>>

\* The daemon dies inside process(), after putEvent: nothing, a fragment or
\* the whole line reached the buffer file.
CrashInPost(p, e) ==
  /\ Posting(e)
  /\ ~WouldExceedCeiling(p)
  /\ GoDown
  /\ \/ UNCHANGED <<lines, fragments>>
     \/ AppendFragment(p, 0)
     \/ AppendLine(p, {e})
  /\ UNCHANGED <<processed, history>>

\* The daemon dies after records were written and before the file was deleted.
\* Besides a kill, a throw there ends the process: doRun rejects, and run()
\* leaves the promise of its finally() without a handler.
CrashInCommit(p) ==
  /\ Quiescent
  /\ HoldsSnapshot(p)
  /\ ~anyCommitted[p]
  /\ Process(snapshot[p])
  /\ GoDown
  /\ UNCHANGED <<lines, fragments, stored, buffered, late, glued>>

Restart ==
  /\ mode = "down"
  /\ mode' = "arming"
  /\ toArm' = Projects
  /\ UNCHANGED <<durable, watcher, pipeline, crashes, history>>

\* Start-up scan: a non-empty file counts as an append of its whole size, the
\* fragments in it included.
Arm(p) ==
  /\ mode = "arming"
  /\ p \in toArm
  /\ \A q \in Projects : phase[q] # "granted"
  /\ toArm' = toArm \ {p}
  /\ mode' = IF toArm' = {} THEN "up" ELSE "arming"
  /\ IF FileSize(p) > 0
     THEN NotifyAppend(p, FileSize(p))
     ELSE UNCHANGED <<watcher, pipeline>>
  /\ fragments' = [fragments EXCEPT ![p] = [@ EXCEPT !.unseen = 0]]
  /\ UNCHANGED <<lines, stored, processed, crashes, history>>

-----------------------------------------------------------------------------
Init ==
  /\ lines = [p \in Projects |-> <<>>]
  /\ fragments = [p \in Projects |-> NoFragments]
  /\ stored = {}
  /\ processed = {}
  /\ bytes = [p \in Projects |-> 0]
  /\ idleTimer = [p \in Projects |-> FALSE]
  /\ extractionInFlight = [p \in Projects |-> FALSE]
  /\ consecutiveFailures = [p \in Projects |-> 0]
  /\ extractionDisabled = [p \in Projects |-> FALSE]
  /\ activeCount = 0
  /\ waitQueue = <<>>
  /\ phase = [p \in Projects |-> "none"]
  /\ snapshot = [p \in Projects |-> {}]
  /\ anyCommitted = [p \in Projects |-> FALSE]
  /\ mode = "up"
  /\ toArm = {}
  /\ crashes = 0
  /\ buffered = {}
  /\ late = {}
  /\ glued = {}
  /\ reprocessed = {}

Post(p, e) == PostSkipped(p, e) \/ PostBuffered(p, e) \/ PostWriteFails(p, e)

\* What the end of a model call lets a run do, if it ends: a prompt has a timeout,
\* the handshake before it has none (createAcpSession).
Settles(p) == \E commits \in BOOLEAN : LastClusterSettles(p, commits)
Answers(p) ==
  \/ ExtractionFails(p)
  \/ ExtractionCompletes(p)
  \/ ReconciliationStarts(p)

RunStep(p) ==
  \/ TakeSnapshot(p)
  \/ Answers(p)
  \/ \E commits \in BOOLEAN : ClusterSettles(p, commits)
  \/ Settles(p)

Next ==
  \/ \E p \in Projects, e \in Events : Post(p, e) \/ CrashInPost(p, e)
  \/ \E p \in Projects : IdleTimerFires(p) \/ RunStep(p) \/ CrashInCommit(p)
  \/ Crash
  \/ Restart
  \/ \E p \in Projects : Arm(p)

Spec == Init /\ [][Next]_vars

-----------------------------------------------------------------------------
(* Safety. *)

\* The watcher's in-flight flag (watcher.ts, fireExtraction and
\* notifyExtractionResult) is raised exactly while doRun is active for the
\* project: never leaked, which would wedge the project, and never dropped
\* early, which would let two runs share a file.
InFlightMatchesRun ==
  \A p \in Projects : extractionInFlight[p] <=> phase[p] # "none"

SlotHolders == {p \in Projects : HoldsSlot(p)}

\* The semaphore (ingestion/index.ts, acquireSemaphore and releaseSemaphore)
\* counts the runs that hold a slot and never exceeds the limit; the queue
\* holds each waiting run once, and nobody waits while a slot is free.
SlotsAccounted ==
  /\ activeCount = Cardinality(SlotHolders)
  /\ activeCount <= ExtractionConcurrency
  /\ waitQueue # <<>> => activeCount = ExtractionConcurrency
  /\ \A i, j \in DOMAIN waitQueue : waitQueue[i] = waitQueue[j] => i = j
  /\ \A p \in Projects :
       phase[p] = "waiting" <=> \E i \in DOMAIN waitQueue : waitQueue[i] = p

\* The watcher's byte counter follows the file it never looks at, through runs,
\* deaths and restarts: it lacks what appends that failed have left there since
\* the start-up scan (process() tells the watcher of a write that succeeded
\* only), and nothing else, so a run or a restart puts it right.
BytesMatchFile ==
  \A p \in Projects :
    mode = "up" \/ (mode = "arming" /\ p \notin toArm) =>
      bytes[p] + fragments[p].unseen = FileSize(p)

\* A buffer file outgrows bufferMaxBytes by the fragments of failed appends that
\* are still in it, and by nothing else, across restarts too, although the gate
\* (wouldExceedCeiling) consults the counter and not the file. The fragment of an
\* append cut short by a death does not count: the gate had let a whole line pass.
HardCeiling ==
  \A p \in Projects : FileSize(p) <= BufferMaxBytes + fragments[p].failed

\* The gate of the POST handler works on a counter, the promise is about a file:
\* what sets them apart is exactly the failed appends, through every run, failed
\* write, death and restart.
CeilingIsKept == BytesMatchFile /\ HardCeiling

\* The extraction breaker is open exactly from the configured number of
\* consecutive failures on, and no run of the project is left behind it.
BreakerStops ==
  \A p \in Projects :
    /\ extractionDisabled[p] <=> consecutiveFailures[p] >= MaxConsecutiveFailures
    /\ extractionDisabled[p] => phase[p] = "none"

\* A buffer with entries is never forgotten: its idle timer is armed, a run of
\* the project is under way, or the last run failed (and only an append or a
\* restart tries again, as nothing re-arms the timer after a failure).
NothingForgotten ==
  \A p \in Projects :
    \/ lines[p] = <<>>
    \/ idleTimer[p]
    \/ extractionInFlight[p]
    \/ consecutiveFailures[p] > 0
    \/ mode = "down"
    \/ p \in toArm

InBuffer(e) == \E p \in Projects : e \in Contents(lines[p])

\* An appended event stays in its buffer until a batch covers it, through
\* failed runs, tripped breakers, crashes and restarts, unless it was appended
\* while a run held an older snapshot (clear() deletes it with the file) or
\* behind a torn fragment.
NoLossOutsideRuns ==
  \A e \in buffered \ (late \cup glued) : InBuffer(e) \/ e \in processed

-----------------------------------------------------------------------------
(* Action properties. *)

\* A tripped breaker stays open as long as the daemon lives: the reset in
\* notifyExtractionResult needs a run, and fireExtraction starts none.
StaysDisabled ==
  \A p \in Projects : extractionDisabled[p] /\ mode' # "down" => extractionDisabled'[p]
BreakerIsFinal == [][StaysDisabled]_vars

\* A run that starts never overtakes one that waits for a slot.
NobodyOvertakes ==
  \A p \in Projects : phase[p] = "none" /\ phase'[p] = "granted" => waitQueue = <<>>
NoBarging == [][NobodyOvertakes]_vars

\* The semaphore (acquireSemaphore, releaseSemaphore): slots and queue add up
\* after every step, and the queue is served in order.
SlotsAreFair == [][SlotsAccounted' /\ NobodyOvertakes]_vars

\* The breaker (notifyExtractionResult, fireExtraction): open exactly from the
\* last allowed failure on, with no run behind it, and open for good.
BreakerHolds == [][BreakerStops' /\ StaysDisabled]_vars

-----------------------------------------------------------------------------
(* What the pipeline implements. *)

InSomeBuffer == UNION {Contents(lines[p]) : p \in Projects}

Ledger == INSTANCE EventLedger WITH
  kept <- stored,
  waiting <- InSomeBuffer,
  done <- processed,
  again <- reprocessed,
  exposed <- late \cup glued,
  died <- crashes > 0

\* Files, counters, slots and restarts keep the promise of EventLedger: every
\* step of the POST handler, of a run, of a death or a restart is a step of the
\* ledger or changes nothing of it. So an event is lost, or covered twice, at the
\* bad moments the ledger names only.
LedgerKept == Ledger!LedgerSpec

-----------------------------------------------------------------------------
(* What the documentation says, and the code does not do. *)

\* docs/concepts/event-buffer.mdx: an appended event is ingested eventually, so
\* it stays in the buffer until then. (A line glued to a fragment is set aside.)
BufferKeepsWaitingEvents ==
  \A e \in buffered \ glued : InBuffer(e) \/ e \in processed

\* pipeline/index.ts: the watcher is told after the write, so that a failed append
\* leaves no stale byte count there.
CountIsNeverStale == \A p \in Projects : mode = "up" => bytes[p] = FileSize(p)

\* docs/concepts/event-buffer.mdx: a partial write corrupts its own line only.
\* (Events appended during a run are set aside.)
TornWriteHarmsNoOther ==
  \A e \in buffered \ late : InBuffer(e) \/ e \in processed

\* ingestion/index.ts: after a run in which nothing committed, the next idle
\* flush retries.
FailedRunIsRetried ==
  \A p \in Projects :
    consecutiveFailures[p] > 0 /\ ~extractionDisabled[p]
      ~> extractionInFlight[p] \/ mode = "down"
=============================================================================
