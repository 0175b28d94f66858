------------------------------ MODULE AcpSession ------------------------------
(***************************************************************************)
(* Sessions with `kiro-cli acp` child processes                            *)
(* (collector/pipeline/acp-client.ts): spawn, the handshake of             *)
(* initialize and newSession, one prompt with its streamed answer and its  *)
(* timeout, and destroy() with SIGTERM, then SIGKILL two seconds later.    *)
(*                                                                         *)
(* A caller has one session at a time; the child of a destroyed session    *)
(* lives on until a signal ends it, beside the next session of the same    *)
(* caller.  What the caller does with an answer follows in the same step.  *)
(***************************************************************************)
EXTENDS Naturals, FiniteSets

CONSTANTS
    Slots,         \* callers that hold a session
    MaxLingering   \* bound: destroyed children that may be alive at once

ASSUME SlotsAssumption == IsFiniteSet(Slots)
ASSUME MaxLingeringAssumption == MaxLingering \in Nat

VARIABLES
    session,    \* what each caller's session is at
    alive,      \* children that run
    lingering   \* those of them sent SIGTERM, their kill timer armed

sessionVars == <<session, alive, lingering>>

SessionTypeOK ==
    /\ session \in [Slots -> {"none", "handshaking", "prompting"}]
    /\ alive \in Nat /\ lingering \in 0 .. MaxLingering

SessionInit ==
    /\ session = [k \in Slots |-> "none"]
    /\ alive = 0 /\ lingering = 0

InUse(k) == session[k] # "none"

\* initialize and newSession answer; sendPrompt() follows at once.  Neither has
\* a timeout: the race is with the end of the child only.
HandshakeAnswers(k) ==
    /\ session[k] = "handshaking"
    /\ session' = [session EXCEPT ![k] = "prompting"]
    /\ UNCHANGED <<alive, lingering>>

\* How a session ends: "answered", the turn is over; "refused", the agent
\* rejects a step; "late", the prompt's timer fires; "exited", the child could
\* not be spawned or exits, and childFailed wins the race.
CanEnd(k, how) ==
    \/ how \in {"answered", "late"} /\ session[k] = "prompting"
    \/ how \in {"refused", "exited"} /\ InUse(k)

\* Mutated form: the child of an answered prompt is left alone.
DestroyUnlessAnswered(how) ==
    IF how \in {"refused", "late"} THEN lingering < MaxLingering /\ lingering' = lingering + 1 ELSE UNCHANGED lingering

\* destroy() by the timer, the failed handshake or the caller's finally: SIGTERM
\* to a child that still runs, SIGKILL two seconds later; a second call finds
\* the timer armed.
Destroy(how) ==
    IF how \in {"answered", "refused", "late"}
    THEN lingering < MaxLingering /\ lingering' = lingering + 1
    ELSE UNCHANGED lingering

\* createAcpSession() for the callers `started`, after the sessions of the
\* callers `over` ended: a child is spawned for each and asked to initialize.
Create(started, over, how) ==
    /\ session' = [s \in Slots |-> IF s \in started THEN "handshaking" ELSE IF s \in over THEN "none" ELSE session[s]]
    /\ alive' = alive + Cardinality(started) - (IF how = "exited" THEN 1 ELSE 0)

\* A signal has ended a destroyed child.
LingeringExits ==
    /\ lingering > 0
    /\ lingering' = lingering - 1 /\ alive' = alive - 1
    /\ UNCHANGED session

-----------------------------------------------------------------------------
\* Every child that runs is one a session still talks to, or one that was told
\* to go: whatever attempt fails at whatever point, none is left behind.
NoOrphans == alive = Cardinality({k \in Slots : InUse(k)}) + lingering
===============================================================================
