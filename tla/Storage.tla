------------------------------- MODULE Storage --------------------------------
(***************************************************************************)
(* The SQLite storage backend (collector/storage/sqlite): what its         *)
(* operations do to the database, and what its queries return.             *)
(*                                                                         *)
(* A database holds the events table, the memory_records table, the FTS    *)
(* table kept beside it by explicit statements (no trigger), and the       *)
(* embedding column, here the set of records where it is not NULL.  A      *)
(* record is its id; ids are numbers that grow with created_at.  Payloads  *)
(* are left out: no statement but the full-text match looks at them.       *)
(*                                                                         *)
(* better-sqlite3 is synchronous, so each operation is one step of the     *)
(* modules that use it.  A failed operation is the value Refused.          *)
(***************************************************************************)
EXTENDS Naturals, FiniteSets

CONSTANTS
    Ids,          \* record ids, in order of creation
    Namespaces,
    NamespaceOf   \* the namespace each record is written under

ASSUME IdsAssumption == Ids \subseteq Nat /\ IsFiniteSet(Ids)
ASSUME NamespaceOfAssumption ==
    Namespaces # {} /\ NamespaceOf \in [Ids -> Namespaces]

Database == [records : SUBSET Ids, fts : SUBSET Ids, vectors : SUBSET Ids]
EmptyDatabase == [records |-> {}, fts |-> {}, vectors |-> {}]
Refused == [records |-> {}, fts |-> {}, vectors |-> {}, refused |-> TRUE]

\* INSERT INTO memory_records and memory_records_fts: the primary key refuses
\* a second row.
InsertRecord(d, id) ==
    IF id \in d.records
    THEN Refused
    ELSE [d EXCEPT !.records = @ \cup {id}, !.fts = @ \cup {id}]

\* Mutated form: an upsert, which brings the vector of a deleted row back.
UpsertEmbedding(d, id) == [d EXCEPT !.vectors = @ \cup {id}]

\* UPDATE memory_records SET embedding: no row, no effect.
UpdateEmbedding(d, id) ==
    [d EXCEPT !.vectors = IF id \in d.records THEN @ \cup {id} ELSE @]

\* deleteOneRecordInTxn for each id: the FTS row, the embedding, the row; each
\* a no-op when it is not there.
DeleteRecords(d, ids) ==
    [records |-> d.records \ ids, fts |-> d.fts \ ids, vectors |-> d.vectors \ ids]

\* db.transaction around the statements of a commit: the new record, the
\* deletion of those it replaces, its vector.  When the insert throws, nothing
\* of it has happened.
Transaction(d, id, dead, embedded) ==
    IF id \in d.records
    THEN d
    ELSE LET merged == DeleteRecords(InsertRecord(d, id), dead)
         IN  IF embedded THEN UpdateEmbedding(merged, id) ELSE merged

-----------------------------------------------------------------------------
(* Queries.                                                                *)

InNamespace(ids, ns) == {id \in ids : NamespaceOf[id] = ns}

\* listEmbeddings(ns): rows of exactly this namespace that have a vector.
ListEmbeddings(d, ns) == InNamespace(d.vectors, ns)

\* listMemoryRecords(ns): the records the cache joins its vectors with.
ListMemoryRecords(d, ns) == InNamespace(d.records, ns)

\* ORDER BY created_at LIMIT: those with fewer than `limit` older ones.
Oldest(ids, limit) == {id \in ids : Cardinality({older \in ids : older < id}) < limit}

\* listRecordsWithoutEmbedding(null, limit): oldest first.
ListRecordsWithoutEmbedding(d, limit) == Oldest(d.records \ d.vectors, limit)

\* searchMemoryRecordsLexical: the rows of the namespace that match, found
\* through the FTS table and joined with the record table.
SearchLexical(d, ns, matching) == InNamespace(d.fts \cap d.records \cap matching, ns)

-----------------------------------------------------------------------------
\* The three structures agree: a record can be found, and what can be found or
\* compared is a record.
IndexesAgree(d) == d.fts = d.records /\ d.vectors \subseteq d.records
===============================================================================
