----------------------------- MODULE EventLedger -----------------------------
(* What the collector promises of an event, whatever files, counters, slots   *)
(* and processes it takes: once it is stored it is never forgotten by the     *)
(* database; once it waits in a buffer it waits until a batch covers it; it   *)
(* is covered once, unless the daemon has died.  The promise has one hole,    *)
(* which is named: an event that comes at a bad moment is exposed, and may    *)
(* stop waiting without having been covered.                                  *)
EXTENDS FiniteSets

CONSTANT Events

VARIABLES kept,     \* events in the database
          waiting,  \* events some buffer holds
          done,     \* events some batch has covered
          again,    \* events more than one batch has covered
          exposed,  \* events that came at a bad moment
          died      \* whether the daemon has died

ledger == <<kept, waiting, done, again, exposed, died>>

LedgerInit == kept = {} /\ waiting = {} /\ done = {} /\ again = {} /\ exposed = {} /\ ~died

\* A new event is stored.  It waits, or is left out (over the ceiling, no write,
\* a death in between, a line that cannot be read).
Arrive(e) ==
  /\ e \notin kept
  /\ kept' = kept \cup {e}
  /\ waiting' \in {waiting, waiting \cup {e}}
  /\ exposed' \in {exposed, exposed \cup {e}}
  /\ (died => died')
  /\ UNCHANGED <<done, again>>

\* A batch covers the events it was made of, all at once.
Cover(batch) ==
  /\ batch \subseteq waiting
  /\ batch \cap done # {} => died
  /\ done' = done \cup batch
  /\ again' = again \cup (batch \cap done)
  /\ (died => died')
  /\ UNCHANGED <<kept, exposed>>

\* Nobody waits in vain: who stops waiting is covered, or exposed.
Leave ==
  /\ waiting' \subseteq waiting
  /\ waiting \ waiting' \subseteq done' \cup exposed

LedgerNext ==
  \/ \E e \in Events : Arrive(e)
  \/ \E batch \in SUBSET Events : Cover(batch) /\ Leave
  \/ Leave /\ UNCHANGED <<kept, done, again, exposed, died>>
  \/ died' /\ UNCHANGED <<kept, waiting, done, again, exposed>>

LedgerSpec == LedgerInit /\ [][LedgerNext]_ledger
=============================================================================
