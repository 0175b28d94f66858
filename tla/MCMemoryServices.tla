--------------------------- MODULE MCMemoryServices ---------------------------
(* A small instance: every record belongs to the one project.              *)
EXTENDS MemoryServices

MCNamespaceOf == [id \in Ids |-> "project"]
===============================================================================
