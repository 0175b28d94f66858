------------------------------- MODULE ReadApi -------------------------------
(***************************************************************************)
(* What the collector tells its readers: the listings and statistics of    *)
(* the SQLite backend and the GET handlers of the receiver.                *)
(*                                                                         *)
(*   collector/storage/sqlite/statements.ts   the SELECTs                  *)
(*   collector/storage/sqlite/index.ts        getStats, list...            *)
(*   collector/receiver/index.ts              GET /v1/stats, ...           *)
(*                                                                         *)
(* A database holds rows. An event row has a namespace (ns), a kind and a  *)
(* project path; a memory row a namespace, a type, its concepts, and       *)
(* whether it has an embedding. Ids grow with valid_time and created_at.   *)
(***************************************************************************)
EXTENDS Orders, SequencesExt, FiniteSetsExt

CONSTANTS AllProjects,  \* the namespace parameter is missing
          NoPath,       \* project_path IS NULL
          Missing,      \* a query parameter that is not given
          NotInteger    \* a limit or offset that is no integer

\* WHERE namespace = ?, or no such condition.
InScope(rows, ns) == {r \in rows : ns \in {AllProjects, r.ns}}

\* ORDER BY created_at DESC. Ids stand for the times of creation, taken to differ:
\* the order of rows created at one time is SQLite's choice.
NewestFirst(rows) == Ordered(rows, {p \in rows \X rows : p[1].id > p[2].id})

\* Mutated form: the offset counted from one.
PageFromOne(rows, limit, offset) ==
  LET sorted == NewestFirst(rows)
  IN SubSeq(sorted, offset + 2, Min({offset + 1 + limit, Len(sorted)}))

\* ORDER BY ... DESC LIMIT ? OFFSET ?
Page(rows, limit, offset) ==
  LET sorted == NewestFirst(rows)
  IN SubSeq(sorted, offset + 1, Min({offset + limit, Len(sorted)}))

\* GROUP BY a label, with the count of each; labels without a row are missing.
CountByLabel(rows, label) ==
  [l \in {r[label] : r \in rows} |-> Cardinality({r \in rows : r[label] = l})]

Concepts(rows) == UNION {ToSet(r.concepts) : r \in rows}

\* A namespace has one project, whatever the tables say.
TotalProjects(events, ns) == IF ns = AllProjects THEN Cardinality({e.ns : e \in events}) ELSE 1

GetStats(db, ns) ==
  LET events == InScope(db.events, ns)
      records == InScope(db.records, ns)
  IN [total_events       |-> Cardinality(events),
      total_memories     |-> Cardinality(records),
      total_projects     |-> TotalProjects(events, ns),
      total_concepts     |-> Cardinality(Concepts(records)),
      embeddings_present |-> Cardinality({r \in records : r.embedded}),
      embeddings_missing |-> Cardinality({r \in records : ~r.embedded}),
      event_kinds        |-> CountByLabel(events, "kind"),
      observation_types  |-> CountByLabel(records, "type")]

\* The path of the newest event that has one.
ProjectPath(events) ==
  LET known == {e \in events : e.path # NoPath}
  IN IF known = {} THEN NoPath ELSE (CHOOSE e \in known : \A f \in known : f.id <= e.id).path

\* listProjects: the namespaces of events; the order by size is left out.
ListProjects(db) ==
  {[ns |-> ns,
    project_path |-> ProjectPath(InScope(db.events, ns)),
    event_count  |-> Cardinality(InScope(db.events, ns)),
    memory_count |-> Cardinality(InScope(db.records, ns))] : ns \in {e.ns : e \in db.events}}

ListMemoryRecords(db, ns, limit, offset) ==
  LET records == InScope(db.records, ns)
  IN [items |-> Page(records, limit, offset), total |-> Cardinality(records)]

ListEvents(db, ns, limit) ==
  LET events == InScope(db.events, ns)
  IN [items |-> Page(events, limit, 0), total |-> Cardinality(events)]

-----------------------------------------------------------------------------
(* The handlers.                                                           *)

BadRequest == [status |-> 400]

\* An integer parameter, clamped.
Clamped(raw, default, low, high) ==
  IF raw = Missing THEN default ELSE Max({low, Min({high, raw})})

\* GET /v1/memories. Listing and count are read with no await between.
GetMemories(db, ns, rawLimit, rawOffset, maxLimit) ==
  IF NotInteger \in {rawLimit, rawOffset} THEN BadRequest
  ELSE LET limit == Clamped(rawLimit, Min({100, maxLimit}), 1, maxLimit)
           offset == IF rawOffset = Missing THEN 0 ELSE Max({0, rawOffset})
           list == ListMemoryRecords(db, ns, limit, offset)
       IN [status |-> 200, items |-> list.items, total |-> list.total, limit |-> limit, offset |-> offset]

\* GET /v1/events.
GetEvents(db, ns, rawLimit, maxLimit) ==
  IF rawLimit = NotInteger THEN BadRequest
  ELSE LET list == ListEvents(db, ns, Clamped(rawLimit, Min({50, maxLimit}), 1, maxLimit))
       IN [status |-> 200, items |-> list.items, total |-> list.total]

\* GET /v1/stats awaits getStats, then listProjects: two states of the database.
StatsResponse(earlier, later, ns) ==
  [stats |-> GetStats(earlier, ns), projects |-> ListProjects(later)]

-----------------------------------------------------------------------------
\* The count of projects never promises one that the list beside it lacks.
CountIsCovered(response) == response.stats.total_projects <= Cardinality(response.projects)
=============================================================================
