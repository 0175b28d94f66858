-------------------------- MODULE BufferCompaction --------------------------
(***************************************************************************)
(* The buffer pipeline with the compaction worker switched on: when the    *)
(* counted size of a buffer crosses a second threshold, its entries are    *)
(* summarised by a model, or halved when the model fails, and the file is  *)
(* replaced by the result plus whatever was appended meanwhile.            *)
(*                                                                         *)
(*   collector/buffer/compaction.ts   the worker                           *)
(*   collector/buffer/store.ts        replace(): catch-up and rename       *)
(*   collector/buffer/watcher.ts      the trigger and its flag             *)
(*   collector/index.ts               wiring                               *)
(*                                                                         *)
(* Extraction and compaction share the file, the byte counter and nothing  *)
(* else: neither looks at the other's flag.                                *)
(*                                                                         *)
(* As in BufferPipeline a line is the set of events it stands for; the     *)
(* line of a summary stands for every event of the batch it summarises.    *)
(* Failed and interrupted writes are left out here (UNCHANGED fragments),  *)
(* so every line parses and byte offsets fall between lines.               *)
(***************************************************************************)
EXTENDS BufferPipeline, Functions

CONSTANTS
  CompactionSizeThreshold,      \* byte units above which compaction fires (>)
  MaxConsecutiveModelFailures,  \* failed model calls before eviction only (>=)
  MaxSummaryLines               \* bound: entries a model may answer with

ASSUME CompactionAssumption ==
  /\ CompactionSizeThreshold \in Nat
  /\ MaxConsecutiveModelFailures \in Nat \ {0}
  /\ MaxSummaryLines \in Nat \ {0}

VARIABLES
  compactionInFlight,  \* the watcher's flag, per project
  compactPhase,        \* where compact() is, per project
  modelFailures,       \* the worker's count of consecutive failures
  source,              \* entries of the snapshot being compacted
  sinceOffset,         \* S0: size of the file when it was taken
  \* history, read by properties only
  stale,          \* the file was deleted since S0 was taken
  staleReplaced,  \* a replace went ahead all the same
  exposed,        \* events appended while stale
  evicted         \* events dropped by an eviction

worker == <<compactionInFlight, compactPhase, modelFailures, source, sinceOffset>>
overlap == <<staleReplaced, exposed, evicted>>
compaction == <<worker, stale, overlap>>
allVars == <<vars, compaction>>

CompactionTypeOK ==
  /\ TypeOK
  /\ compactionInFlight \in [Projects -> BOOLEAN]
  /\ compactPhase \in [Projects -> {"idle", "summarizing", "evicting"}]
  /\ modelFailures \in [Projects -> 0 .. MaxConsecutiveModelFailures]
  /\ source \in Seq(SUBSET Events)
  /\ sinceOffset \in Nat
  /\ stale \in BOOLEAN
  /\ staleReplaced \in BOOLEAN
  /\ exposed \subseteq Events
  /\ evicted \subseteq Events

-----------------------------------------------------------------------------
(* The trigger. *)

Compacting(p) == compactPhase[p] # "idle"

\* The worker serves one project at a time.
WorkerBusy == \E p \in Projects : Compacting(p)

\* Variant: a trigger the worker rejects leaves the watcher's flag up.
FireCompactionKeepsRejectedFlag(p) ==
  /\ compactionInFlight' = [compactionInFlight EXCEPT
       ![p] = @ \/ bytes'[p] > CompactionSizeThreshold]
  /\ IF bytes'[p] > CompactionSizeThreshold /\ ~compactionInFlight[p] /\ ~WorkerBusy
     THEN /\ compactPhase' = [compactPhase EXCEPT
               ![p] = IF modelFailures[p] >= MaxConsecutiveModelFailures
                      THEN "evicting" ELSE "summarizing"]
          /\ source' = lines'[p]
          /\ sinceOffset' = Len(lines'[p])
     ELSE UNCHANGED <<compactPhase, source, sinceOffset>>
  /\ UNCHANGED modelFailures

\* After an append: the snapshot is read at once. A rejected trigger leaves no
\* trace (compact() lowers the flag that fireCompaction has just raised).
FireCompaction(p) ==
  \/ /\ bytes'[p] > CompactionSizeThreshold
     /\ ~compactionInFlight[p]
     /\ ~WorkerBusy
     /\ compactionInFlight' = [compactionInFlight EXCEPT ![p] = TRUE]
     /\ compactPhase' = [compactPhase EXCEPT
          ![p] = IF modelFailures[p] >= MaxConsecutiveModelFailures
                 THEN "evicting" ELSE "summarizing"]
     /\ source' = lines'[p]
     /\ sinceOffset' = Len(lines'[p])
     /\ UNCHANGED modelFailures
  \/ /\ \/ bytes'[p] <= CompactionSizeThreshold
        \/ compactionInFlight[p]
        \/ WorkerBusy
     /\ UNCHANGED worker

-----------------------------------------------------------------------------
(* replace(): new entries plus catch-up. *)

\* Variant: the catch-up window is empty.
CatchUpNothing(p) == <<>>

\* What lies behind the offset, if the file still reaches that far.
CatchUp(p) == SubSeq(lines[p], sinceOffset + 1, Len(lines[p]))

\* Variant: the caught-up lines are written and not counted.
ReplacedCountsNewOnly(p, newEntries) ==
  /\ lines[p] # <<>>
  /\ lines' = [lines EXCEPT ![p] = newEntries \o CatchUp(p)]
  /\ bytes' = [bytes EXCEPT ![p] = Len(newEntries)]
  /\ staleReplaced' = (staleReplaced \/ stale)

\* notifyCompactionResult(true) takes over the size that was written.
Replaced(p, newEntries) ==
  /\ lines[p] # <<>>
  /\ lines' = [lines EXCEPT ![p] = newEntries \o CatchUp(p)]
  /\ bytes' = [bytes EXCEPT ![p] = Len(newEntries \o CatchUp(p))]
  /\ staleReplaced' = (staleReplaced \/ stale)

\* No file any more, no flockSync in this Node, a full disk: nothing changes.
ReplaceFails == UNCHANGED <<lines, bytes, staleReplaced>>

-----------------------------------------------------------------------------
(* The worker. *)

\* With either result the flag and the guard are lowered.
ReleaseGuard(p) ==
  /\ compactionInFlight' = [compactionInFlight EXCEPT ![p] = FALSE]
  /\ compactPhase' = [compactPhase EXCEPT ![p] = "idle"]
  /\ source' = <<>>
  /\ sinceOffset' = 0
  /\ stale' = FALSE

KeepCount(entries) == (Len(entries) + 1) \div 2

\* deterministicEviction: the newest half, newest first. Timestamps are the
\* shims', so that may be any half, in any order.
Evictions(entries) ==
  {[i \in 1 .. KeepCount(entries) |-> entries[newest[i]]] :
     newest \in Injection(1 .. KeepCount(entries), DOMAIN entries)}

EvictAndReplace(p) ==
  /\ \/ \E kept \in Evictions(source) :
          /\ Replaced(p, kept)
          /\ evicted' = evicted \cup (Contents(source) \ Contents(kept))
     \/ ReplaceFails /\ UNCHANGED evicted
  /\ ReleaseGuard(p)
  /\ UNCHANGED <<exposed, fragments, stored, processed, idleTimer, extractionInFlight,
                 consecutiveFailures, extractionDisabled, pipeline, process, history>>

\* The model answers with summaries; only a replace that succeeds resets the
\* count of failures.
ModelSummarizes(p) ==
  /\ Quiescent
  /\ compactPhase[p] = "summarizing"
  /\ \/ \E k \in 1 .. MaxSummaryLines :
          /\ Replaced(p, [i \in 1 .. k |-> Contents(source)])
          /\ modelFailures' = [modelFailures EXCEPT ![p] = 0]
     \/ ReplaceFails /\ UNCHANGED modelFailures
  /\ ReleaseGuard(p)
  /\ UNCHANGED <<exposed, evicted, fragments, stored, processed, idleTimer,
                 extractionInFlight, consecutiveFailures, extractionDisabled,
                 pipeline, process, history>>

ModelFails(p) ==
  /\ Quiescent
  /\ compactPhase[p] = "summarizing"
  /\ modelFailures' = [modelFailures EXCEPT ![p] = @ + 1]
  /\ EvictAndReplace(p)

\* Too many failures: no model call, all in the macrotask of the append.
EvictAtOnce(p) ==
  /\ Quiescent
  /\ compactPhase[p] = "evicting"
  /\ UNCHANGED modelFailures
  /\ EvictAndReplace(p)

-----------------------------------------------------------------------------
(* The actions of BufferPipeline, seen from here. *)

\* No eviction is pending: other callbacks may run.
Calm == \A p \in Projects : compactPhase[p] # "evicting"

\* A run that succeeds deletes the file under a compaction of its project.
Overtaken(p) == Compacting(p) /\ lines[p] # <<>> /\ lines'[p] = <<>>

RunBeside(p) ==
  /\ IdleTimerFires(p) \/ RunStep(p)
  /\ Calm \/ TakeSnapshot(p)
  /\ stale' = (stale \/ Overtaken(p))
  /\ UNCHANGED <<worker, overlap>>

PostBeside(p, e) ==
  /\ Calm
  /\ \/ PostBuffered(p, e) /\ FireCompaction(p)
     \/ (PostSkipped(p, e) \/ PostWriteFails(p, e)) /\ UNCHANGED worker
  /\ exposed' = IF stale /\ Compacting(p) THEN exposed \cup {e} ELSE exposed
  /\ UNCHANGED <<stale, staleReplaced, evicted>>

ArmBeside(p) ==
  /\ Calm
  /\ Arm(p)
  /\ IF lines[p] # <<>> THEN FireCompaction(p) ELSE UNCHANGED worker
  /\ UNCHANGED <<stale, overlap>>

\* The worker's state dies with the daemon; a rename is atomic, so a kill finds
\* the file before or after it.
WorkerReset ==
  /\ compactionInFlight' = [p \in Projects |-> FALSE]
  /\ compactPhase' = [p \in Projects |-> "idle"]
  /\ modelFailures' = [p \in Projects |-> 0]
  /\ source' = <<>>
  /\ sinceOffset' = 0
  /\ stale' = FALSE

DeathBeside ==
  /\ \/ Crash
     \/ Calm /\ \E p \in Projects, e \in Events : CrashInPost(p, e)
     \/ Calm /\ \E p \in Projects : CrashInCommit(p)
  /\ WorkerReset
  /\ UNCHANGED overlap

CrashAfterRename(p) ==
  /\ Quiescent
  /\ compactPhase[p] = "summarizing"
  /\ lines[p] # <<>>
  /\ \E k \in 1 .. MaxSummaryLines :
       lines' = [lines EXCEPT ![p] = [i \in 1 .. k |-> Contents(source)] \o CatchUp(p)]
  /\ staleReplaced' = (staleReplaced \/ stale)
  /\ GoDown
  /\ WorkerReset
  /\ UNCHANGED <<fragments, stored, processed, history, exposed, evicted>>

CompactionInit ==
  /\ Init
  /\ compactionInFlight = [p \in Projects |-> FALSE]
  /\ compactPhase = [p \in Projects |-> "idle"]
  /\ modelFailures = [p \in Projects |-> 0]
  /\ source = <<>>
  /\ sinceOffset = 0
  /\ stale = FALSE
  /\ staleReplaced = FALSE
  /\ exposed = {}
  /\ evicted = {}

Compact(p) == ModelSummarizes(p) \/ ModelFails(p) \/ EvictAtOnce(p)

CompactionNext ==
  /\ UNCHANGED fragments
  /\ \/ \E p \in Projects, e \in Events : PostBeside(p, e)
     \/ \E p \in Projects : RunBeside(p) \/ ArmBeside(p)
     \/ \E p \in Projects : Compact(p) \/ CrashAfterRename(p)
     \/ DeathBeside
     \/ Restart /\ UNCHANGED compaction

CompactionSpec == CompactionInit /\ [][CompactionNext]_allVars

\* Fairness. Timers fire, promise reactions run, an eviction ends in its own
\* macrotask, and the start-up scan goes on. Nothing makes a model call end, as
\* the handshake of createAcpSession has no timeout, and nothing makes a shim
\* post, the daemon crash, or anyone restart it.
CompactionFairSpec ==
  /\ CompactionSpec
  /\ \A p \in Projects : /\ WF_allVars(RunBeside(p) /\ IdleTimerFires(p))
                         /\ WF_allVars(RunBeside(p) /\ TakeSnapshot(p))
                         /\ WF_allVars(ArmBeside(p))
                         /\ WF_allVars(EvictAtOnce(p))

-----------------------------------------------------------------------------
(* Properties. *)

\* The watcher's compactionInFlight and the worker's guard are two flags in two
\* modules: they agree, and at most one project is compacted at a time, also
\* after rejected triggers and failed replaces.
GuardsAgree ==
  /\ \A p \in Projects : compactionInFlight[p] <=> Compacting(p)
  /\ \A p, q \in Projects : Compacting(p) /\ Compacting(q) => p = q

\* What the watcher and the worker keep about compactions (compactionInFlight,
\* the guard, the failures, the snapshot) stays in range and agrees.
WorkerConsistent == CompactionTypeOK /\ GuardsAgree

\* With compaction the ceiling is no longer hard: a summary may be longer than
\* what it summarises. The file exceeds it by no more than one answer of the
\* model beyond the least input that starts a compaction.
CeilingOvershoot ==
  \A p \in Projects :
    \/ Len(lines[p]) <= BufferMaxBytes
    \/ Len(lines[p]) + CompactionSizeThreshold + 1 <= BufferMaxBytes + MaxSummaryLines

\* The counter follows the file through every replace, whose size the watcher is
\* told (notifyCompactionResult), and the gate that trusts it keeps the file
\* within one answer of the ceiling.
CeilingIsNearlyKept == BytesMatchFile /\ CeilingOvershoot

\* Compaction by itself loses nothing but what an eviction drops: for any other
\* event to vanish, a run must delete the file between S0 and the replace, and
\* the event be appended to the new file before the replace.
NoLossOutsideOverlap ==
  \A e \in buffered \ (late \cup evicted \cup exposed) : InBuffer(e) \/ e \in processed

\* Events are processed twice only after a death of the daemon, or after a
\* replace has put a batch back that a run had just cleared.
RepeatsNeedOverlap == reprocessed # {} => crashes > 0 \/ staleReplaced

\* Runs, appends, replaces and deaths in any order: only the bad moments that
\* are named make the pipeline lose an event or process it twice.
OnlyOverlapsHarm == NoLossOutsideOverlap /\ RepeatsNeedOverlap

\* A run in its calls of the compressor and the judge, or in the queue while all
\* slots are taken by such runs.
HeldByCalls(p) ==
  \/ HoldsSnapshot(p)
  \/ /\ phase[p] = "waiting"
     /\ Cardinality({q \in Projects : HoldsSnapshot(q)}) = ExtractionConcurrency

\* A run ends, and its project is free for the next, unless a model call of its
\* own never ends, or one call for each slot it could get. A call of the compaction
\* worker that never ends holds up no run, nor does a lost hand-over of a slot.
OnlyCallsHoldRuns ==
  \A p \in Projects :
    (extractionInFlight[p] ~> ~extractionInFlight[p]) \/ <>[]HeldByCalls(p)

\* docs/architecture/compaction.mdx: the atomic replace with catch-up handles
\* the overlap of extraction and compaction. (Events that extraction's own
\* clear() deletes, or an eviction drops, are set aside.)
OverlapHandled ==
  \A e \in buffered \ (late \cup evicted) : InBuffer(e) \/ e \in processed

\* An event appended while no run held a snapshot is eventually covered by a
\* batch, also after a restart (watcher.ts, start: every buffer found is armed),
\* unless the daemon dies, a run of its project fails, an eviction drops it, a
\* stale replace throws the append away, or model calls that never end hold its
\* project's run for good.
BufferedIsProcessed ==
  \A p \in Projects, e \in Events :
    \/ e \in Contents(lines[p]) \ late
         ~> \/ e \in processed \cup evicted \cup exposed
            \/ mode = "down"
            \/ consecutiveFailures[p] > 0
    \/ <>[]HeldByCalls(p)
=============================================================================
