------------------------- MODULE MCBufferCompaction -------------------------
(* Instances of BufferCompaction for TLC. *)
EXTENDS BufferCompaction, TLC

\* Projects and events are interchangeable. Used by the safety run only.
Symmetry == Permutations(Projects) \cup Permutations(Events)
=============================================================================
