------------------------------- MODULE Embedder -------------------------------
(***************************************************************************)
(* The ONNX embedder (collector/embedding/onnx-embedder.ts).               *)
(*                                                                         *)
(* The daemon has one model session and several callers: runs that embed   *)
(* candidates and summaries, the backfill worker, and searches that embed  *)
(* the query.  embed() chains every call on the promise `tail`, so calls   *)
(* start in the order they were made; a call that takes longer than        *)
(* perCallTimeoutMs is rejected and the chain moves on, while the native   *)
(* inference it started keeps running, since nothing can stop it.          *)
(*                                                                         *)
(* The vector itself is abstracted: a call ends with a vector or an error. *)
(***************************************************************************)
EXTENDS Naturals, Sequences, FiniteSets, SequencesExt

CONSTANTS
    Callers,       \* the parts of the daemon that call embed(), one call at a time each
    MaxAbandoned   \* bound: native inferences that may be left running at once

ASSUME CallersAssumption == IsFiniteSet(Callers)
ASSUME MaxAbandonedAssumption == MaxAbandoned \in Nat

VARIABLES
    readiness,   \* readyPromise, isReadyFlag, loadError: "loading", "ready" or "failed"
    disposed,    \* extractor was dropped by dispose()
    tail,        \* callers whose run hangs on the promise chain; the first is inferring
    abandoned,   \* native inferences whose caller was rejected by the timeout
    answer       \* what each caller's last embed() came to, until it is taken

embedderVars == <<readiness, disposed, tail, abandoned, answer>>

EmbedderTypeOK ==
    /\ readiness \in {"loading", "ready", "failed"}
    /\ disposed \in BOOLEAN
    /\ tail \in Seq(Callers) /\ Len(tail) <= Cardinality(Callers)
    /\ abandoned \in 0 .. MaxAbandoned
    /\ answer \in [Callers -> {"none", "vector", "error"}]

EmbedderInit ==
    /\ readiness = "loading"
    /\ disposed = FALSE
    /\ tail = <<>>
    /\ abandoned = 0
    /\ answer = [c \in Callers |-> "none"]

Waiting(c) == c \in ToSet(tail)
IsReady == readiness = "ready"

\* load(), awaited by startCollector: the one promise either way for good.
Load(outcome) ==
    /\ readiness = "loading"
    /\ readiness' = outcome
    /\ UNCHANGED <<disposed, tail, abandoned, answer>>

\* embed(): rejected when the model is not loaded or was disposed of, chained
\* on `tail` otherwise.
Embed(c) ==
    /\ ~Waiting(c) /\ answer[c] = "none"
    /\ IF IsReady /\ ~disposed
       THEN tail' = Append(tail, c) /\ UNCHANGED answer
       ELSE answer' = [answer EXCEPT ![c] = "error"] /\ UNCHANGED tail
    /\ UNCHANGED <<readiness, disposed, abandoned>>

\* The oldest call leaves the chain with an outcome; `run.catch` lets the
\* next one call the native pipeline whatever the outcome was.
Release(outcome) ==
    /\ answer' = [answer EXCEPT ![Head(tail)] = outcome]
    /\ tail' = Tail(tail)
    /\ UNCHANGED <<readiness, disposed>>

\* The native call answers in time: a vector of the right length, or a
\* failure of the model or of the length check.
InferenceEnds(outcome) ==
    /\ tail # <<>>
    /\ Release(outcome)
    /\ UNCHANGED abandoned

\* withTimeout() rejects the caller; the native call goes on.
InferenceTimesOut ==
    /\ tail # <<>> /\ abandoned < MaxAbandoned
    /\ Release("error")
    /\ abandoned' = abandoned + 1

\* A native call nobody waits for ends.
AbandonedInferenceEnds ==
    /\ abandoned > 0
    /\ abandoned' = abandoned - 1
    /\ UNCHANGED <<readiness, disposed, tail, answer>>

\* The caller resumes with its answer.
Take(c, outcome) ==
    /\ answer[c] = outcome
    /\ answer' = [answer EXCEPT ![c] = "none"]
    /\ UNCHANGED <<readiness, disposed, tail, abandoned>>

\* dispose(): the handle is dropped, isReady() stays as it was.
Dispose ==
    /\ disposed' = TRUE
    /\ UNCHANGED <<readiness, tail, abandoned, answer>>

-----------------------------------------------------------------------------
\* What onnx-embedder.ts says of the gate: the pipeline sees one invocation at
\* a time regardless of how many callers race.
OneInference == abandoned + (IF tail # <<>> THEN 1 ELSE 0) <= 1
===============================================================================
