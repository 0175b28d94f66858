-------------------------- MODULE MCBufferPipeline --------------------------
(* Instances of BufferPipeline for TLC. *)
EXTENDS BufferPipeline, TLC

\* Projects and events are interchangeable: no operator of BufferPipeline
\* picks one over another. Used by the safety runs only.
Symmetry == Permutations(Projects) \cup Permutations(Events)
=============================================================================
