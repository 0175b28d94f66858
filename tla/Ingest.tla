-------------------------------- MODULE Ingest --------------------------------
(***************************************************************************)
(* What POST /v1/events does: the receiver (receiver/index.ts), the dedup, *)
(* scrub and storage steps of the pipeline (pipeline/index.ts), and, when  *)
(* no buffer is configured, the extraction stage with its queue, its       *)
(* concurrency and its retried ACP sessions.  The other way on, from the   *)
(* append to the buffer, is BufferPipeline; here only how often each event *)
(* is appended is kept.                                                    *)
(*                                                                         *)
(* The dedup set is a sequence of ids, oldest first (a Map keeps insertion *)
(* order).  It lives in memory; events and buffers survive a restart.      *)
(***************************************************************************)
EXTENDS AcpSession, Sequences, SequencesExt, FiniteSetsExt

CONSTANTS
    Requests,      \* HTTP requests under way at once
    Events,        \* event ids clients post, possibly again
    DedupMaxSize,  \* dedupMaxSize
    QueueDepth,    \* extractionQueueDepth
    MaxRetries,    \* attempts of invokeCompressor
    MaxPosts,      \* bound: posts in all
    MaxCrashes,    \* bound: deaths of the daemon
    NoEvent        \* stands for no event

ASSUME IngestAssumption ==
    /\ DedupMaxSize \in Nat \ {0} /\ QueueDepth \in Nat \ {0} /\ MaxRetries \in Nat \ {0}
    /\ MaxPosts \in Nat /\ MaxCrashes \in Nat /\ NoEvent \notin Events

VARIABLES
    useBuffer,   \* the two ways createPipeline can be set up
    seen,        \* the dedup set
    request,     \* what each request is at, and its event
    events,      \* the events table
    appended,    \* how often each event was appended to the buffer
    queue,       \* the extraction stage's queue
    task,        \* what each of its slots works on, and the attempt
    drain,       \* a call of drain(), once requests are over
    \* history, read by properties only
    posts,       \* how many there were
    since,       \* ids dedup took since it last took this one
    pushedOut,   \* events dedup took again after at least DedupMaxSize others
    crashes

stageVars == <<queue, task, drain>>
ingestVars == <<useBuffer, seen, request, events, appended, posts, since, pushedOut, crashes>>
vars == <<sessionVars, stageVars, ingestVars>>

NoRequest == [pc |-> "idle", event |-> NoEvent]
NoTask == [event |-> NoEvent, attempt |-> 0, pc |-> "idle"]

IngestTypeOK ==
    /\ SessionTypeOK
    /\ useBuffer \in BOOLEAN /\ drain \in {"none", "waiting", "drained", "timed out"}
    /\ seen \in Seq(Events) /\ Len(seen) <= DedupMaxSize /\ IsInjective(seen)
    /\ request \in [Requests -> [pc : {"idle", "storing", "buffering", "answering"}, event : Events \cup {NoEvent}]]
    /\ events \subseteq Events /\ appended \in [Events -> 0 .. MaxPosts]
    /\ queue \in Seq(Events) /\ Len(queue) <= QueueDepth
    /\ task \in [Slots -> [event : Events \cup {NoEvent}, attempt : 0 .. MaxRetries,
                           pc : {"idle", "calling", "storing"}]]
    /\ posts \in 0 .. MaxPosts /\ since \in [Events -> SUBSET Events]
    /\ pushedOut \subseteq Events /\ crashes \in 0 .. MaxCrashes

-----------------------------------------------------------------------------
(* The extraction stage.                                                   *)

Idle(k) == task[k].event = NoEvent
Active == {k \in Slots : ~Idle(k)}

\* The slots tryRunNext() fills: as many as are free and as there are events.
Starts(q, free) ==
    CHOOSE ks \in SUBSET free : Cardinality(ks) = Min({Len(q), Cardinality(free)})

\* tryRunNext() with this queue, after slot `over` (if any) has ended: events
\* leave the front of the queue, each with a first attempt of its own.
TryRunNext(q, over, how) ==
    LET free == {k \in Slots : Idle(k)} \cup over
        started == SetToSeq(Starts(q, free))
    IN  /\ queue' = SubSeq(q, Len(started) + 1, Len(q))
        /\ task' = [k \in Slots |->
                      IF k \in ToSet(started)
                      THEN [event |-> q[CHOOSE i \in 1 .. Len(started) : started[i] = k], attempt |-> 1, pc |-> "calling"]
                      ELSE IF k \in over THEN NoTask ELSE task[k]]
        /\ Create(ToSet(started), over, how)

\* notifyDrain(), after tryRunNext() has left these slots active.
NotifyDrain(active) == IF drain = "waiting" /\ active = {} /\ queue' = <<>> THEN "drained" ELSE drain

\* A full queue drops its oldest event; tryRunNext() follows.
Enqueue(e) ==
    /\ TryRunNext(Append(IF Len(queue) >= QueueDepth THEN Tail(queue) ELSE queue, e), {}, "none")
    /\ UNCHANGED <<lingering, drain>>

\* runExtraction() is over, one way or another: the slot is free for the next.
Finish(k, how) ==
    /\ TryRunNext(queue, {k}, how)
    /\ Destroy(how)
    /\ drain' = NotifyDrain({j \in Slots : task'[j].event # NoEvent})
    /\ UNCHANGED ingestVars

\* The compressor declined, with no text or <skip/>: no record.
AttemptSkips(k) == CanEnd(k, "answered") /\ Finish(k, "answered")

\* The answer holds records.
AttemptYields(k) ==
    /\ CanEnd(k, "answered")
    /\ Destroy("answered") /\ Create({}, {k}, "answered")
    /\ task' = [task EXCEPT ![k].pc = "storing"]
    /\ UNCHANGED <<queue, drain, ingestVars>>

\* Mutated form: attempts are not counted.
AttemptRepeated(k, how) ==
    /\ CanEnd(k, how) /\ task[k].attempt < MaxRetries
    /\ Destroy(how) /\ Create({k}, {k}, how)
    /\ UNCHANGED <<stageVars, ingestVars>>

\* The call failed, or the answer was prose or held no valid record: again, in a
\* fresh session, while attempts are left.
AttemptRetried(k, how) ==
    /\ CanEnd(k, how) /\ task[k].attempt < MaxRetries
    /\ Destroy(how) /\ Create({k}, {k}, how)
    /\ task' = [task EXCEPT ![k].attempt = @ + 1]
    /\ UNCHANGED <<queue, drain, ingestVars>>

AttemptsExhausted(k, how) ==
    /\ CanEnd(k, how) /\ task[k].attempt = MaxRetries
    /\ Finish(k, how)

\* The records are written one by one, up to the last or the first that is
\* refused; an error is logged and goes no further.
StoresRecords(k) == task[k].pc = "storing" /\ Finish(k, "none")

\* drain(): at once when nothing is pending, else by notifyDrain or the timer.
Drain ==
    /\ drain = "none" /\ \A r \in Requests : request[r] = NoRequest
    /\ drain' = IF Active = {} /\ queue = <<>> THEN "drained" ELSE "waiting"
    /\ UNCHANGED <<sessionVars, queue, task, ingestVars>>

DrainTimesOut ==
    /\ drain = "waiting"
    /\ drain' = "timed out"
    /\ UNCHANGED <<sessionVars, queue, task, ingestVars>>

-----------------------------------------------------------------------------
(* Posts.                                                                  *)

\* The oldest id makes room.
Evict(ids) == IF Len(ids) >= DedupMaxSize THEN Tail(ids) ELSE ids

\* Mutated form: a failed post is remembered all the same.
RollbackNothing(e) == seen

\* rollback(): the id is forgotten.
Rollback(e) ==
    IF e \in ToSet(seen) THEN RemoveAt(seen, CHOOSE i \in DOMAIN seen : seen[i] = e) ELSE seen

At(r, pc) == request' = [request EXCEPT ![r].pc = pc]
Answer(r) == request' = [request EXCEPT ![r] = NoRequest]

\* The head of process(), up to the answer for a known id or the call of
\* putEvent.  Posts that fail the checks before it change nothing.
Post(r, e) ==
    /\ drain = "none" /\ request[r] = NoRequest /\ posts < MaxPosts
    /\ posts' = posts + 1
    /\ IF e \in ToSet(seen)
       THEN UNCHANGED <<seen, request, since, pushedOut>>
       ELSE /\ seen' = Append(Evict(seen), e)
            /\ request' = [request EXCEPT ![r] = [pc |-> "storing", event |-> e]]
            /\ since' = [x \in Events |-> IF x = e THEN {} ELSE since[x] \cup {e}]
            /\ pushedOut' = IF Cardinality(since[e]) >= DedupMaxSize THEN pushedOut \cup {e} ELSE pushedOut
    /\ UNCHANGED <<sessionVars, stageVars, useBuffer, events, appended, crashes>>

\* putEvent has stored the event (or found it stored): on to the buffer, or into
\* the queue.
Stored(r) ==
    LET e == request[r].event
    IN  /\ request[r].pc = "storing"
        /\ events' = events \cup {e}
        /\ IF useBuffer
           THEN At(r, "buffering") /\ UNCHANGED <<sessionVars, stageVars, appended>>
           ELSE Answer(r) /\ Enqueue(e) /\ appended' = [appended EXCEPT ![e] = @ + 1]
        /\ UNCHANGED <<useBuffer, seen, posts, since, pushedOut, crashes>>

\* putEvent has thrown: roll back, and a 500.
StoreFails(r) ==
    /\ request[r].pc = "storing"
    /\ seen' = Rollback(request[r].event)
    /\ Answer(r)
    /\ UNCHANGED <<sessionVars, stageVars, useBuffer, events, appended, posts, since, pushedOut, crashes>>

\* The append to the buffer; a buffer at its ceiling, or an error, is passed over.
Buffers(r, done) ==
    /\ request[r].pc = "buffering"
    /\ appended' = IF done THEN [appended EXCEPT ![request[r].event] = @ + 1] ELSE appended
    /\ Answer(r)
    /\ UNCHANGED <<sessionVars, stageVars, useBuffer, seen, events, posts, since, pushedOut, crashes>>

\* The daemon dies and starts again; children without a parent end by themselves.
Restart ==
    /\ crashes < MaxCrashes
    /\ crashes' = crashes + 1
    /\ seen' = <<>> /\ queue' = <<>> /\ drain' = "none"
    /\ request' = [r \in Requests |-> NoRequest] /\ task' = [k \in Slots |-> NoTask]
    /\ session' = [k \in Slots |-> "none"]
    /\ alive' = 0 /\ lingering' = 0
    /\ UNCHANGED <<useBuffer, events, appended, posts, since, pushedOut>>

-----------------------------------------------------------------------------
Init ==
    /\ SessionInit
    /\ useBuffer \in BOOLEAN
    /\ seen = <<>> /\ queue = <<>> /\ drain = "none"
    /\ request = [r \in Requests |-> NoRequest] /\ task = [k \in Slots |-> NoTask]
    /\ events = {} /\ appended = [e \in Events |-> 0]
    /\ posts = 0 /\ since = [e \in Events |-> {}] /\ pushedOut = {}
    /\ crashes = 0

Shakes(k) == HandshakeAnswers(k) /\ UNCHANGED <<stageVars, ingestVars>>
ChildExits == LingeringExits /\ UNCHANGED <<stageVars, ingestVars>>

AttemptFails(k, how) == AttemptRetried(k, how) \/ AttemptsExhausted(k, how)

Extraction(k) ==
    \/ AttemptSkips(k) \/ AttemptYields(k) \/ StoresRecords(k)
    \/ \E how \in {"answered", "refused", "late", "exited"} : AttemptFails(k, how)

Posting(r) ==
    Stored(r) \/ StoreFails(r) \/ \E done \in BOOLEAN : Buffers(r, done)

Next ==
    \/ \E k \in Slots : Shakes(k) \/ Extraction(k)
    \/ \E r \in Requests : Posting(r) \/ \E e \in Events : Post(r, e)
    \/ ChildExits \/ Drain \/ DrainTimesOut \/ Restart

Spec == Init /\ [][Next]_vars

\* Promise reactions run, prompts end by their timer if not before, and a child
\* told to go goes, by SIGKILL if not before.
GoesOn(k) == AttemptFails(k, "late") \/ StoresRecords(k)

PatientSpec == Spec /\ WF_vars(ChildExits) /\ \A k \in Slots : WF_vars(GoesOn(k))

\* ... and kiro-cli answers the handshake.
FairSpec == Spec /\ WF_vars(ChildExits) /\ \A k \in Slots : WF_vars(Shakes(k) \/ GoesOn(k))

-----------------------------------------------------------------------------
(* Properties.                                                             *)

\* An id dedup would turn away is stored, or a request is about to store it: no
\* failed post, however it interleaves with resends and evictions, makes the
\* daemon refuse an event it does not have.
SeenIsStored ==
    \A e \in ToSet(seen) \ events :
        \E r \in Requests : request[r].event = e /\ request[r].pc = "storing"

\* An event is handed on twice only after a restart, or after at least
\* DedupMaxSize other ids were taken since: concurrent posts of one id,
\* rollbacks and evictions included.
NoEarlyRepeat ==
    \A e \in Events : appended[e] > 1 => crashes > 0 \/ e \in pushedOut

\* Dedup can be trusted in both directions while posts, resends, rollbacks and
\* evictions interleave at the awaits of process().
DedupIsHarmless == SeenIsStored /\ NoEarlyRepeat

\* No event waits while a slot is free.
NoIdleSlot == queue # <<>> => Active = Slots

\* drain() that reports an empty stage tells the truth.
DrainedIsIdle == drain = "drained" => Active = {} /\ queue = <<>>

\* The legacy stage: its slots, queue and drain, and no child process without a
\* slot that will destroy it, however sessions end (AcpSession).
StageIsSound == IngestTypeOK /\ NoIdleSlot /\ DrainedIsIdle /\ NoOrphans

\* Every event handed to the stage leaves it: extracted, given up or dropped.
InStage(e) == e \in ToSet(queue) \/ \E k \in Slots : task[k].event = e
ExtractionEnds == \A e \in Events : InStage(e) ~> ~InStage(e)
===============================================================================
