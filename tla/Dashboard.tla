------------------------------ MODULE Dashboard ------------------------------
(***************************************************************************)
(* The viewer (ui/src): what a poll changes on the page, the points of the *)
(* memory graph, and what a click on one of them opens.                    *)
(*                                                                         *)
(*   App.tsx                  the poll and the selection                   *)
(*   graph/transform.ts       memories and projects to points and links    *)
(*   components/MemoryGraph.tsx, CosmosGraph.tsx, MemoryDetailPanel.tsx    *)
(*                                                                         *)
(* The graph engine gets its points once, when it is mounted; what is      *)
(* fetched later waits for a refresh. Ids such as concept:<ns>:<concept>   *)
(* are the sequence of their parts between colons, and so are namespaces   *)
(* and concepts. Colours, sizes, positions and labels are left out, and so *)
(* is the health indicator.                                                *)
(***************************************************************************)
EXTENDS Orders, SequencesExt

CONSTANT None  \* no memory, no concept, no point: null

(* ------------------------------------------------------------- transform *)

ConceptPoint(m, c) == [kind |-> "concept", of |-> m.ns \o c, ns |-> m.ns, name |-> c]
MemoryPoint(m) == [kind |-> "memory", of |-> <<m.id>>, ns |-> m.ns, name |-> <<>>]
ProjectPoint(ns) == [kind |-> "project", of |-> ns, ns |-> ns, name |-> <<>>]

SortedMemories(memories) ==
  Ordered(ToSet(memories), {p \in ToSet(memories) \X ToSet(memories) : p[1].id < p[2].id})

\* The points of the concepts, memory after memory; seenConcept keeps the first of
\* each id. A place is an index of a memory and one of a concept of it.
ConceptPoints(sorted) ==
  LET places == UNION {{i} \X DOMAIN sorted[i].concepts : i \in DOMAIN sorted}
      point(p) == ConceptPoint(sorted[p[1]], sorted[p[1]].concepts[p[2]])
      before == {q \in places \X places : \/ q[1][1] < q[2][1]
                                          \/ q[1][1] = q[2][1] /\ q[1][2] < q[2][2]}
      first == Ordered({p \in places : \A q \in places : <<q, p>> \in before => point(q).of # point(p).of},
                       before)
  IN [k \in DOMAIN first |-> point(first[k])]

\* The points in the order they are painted; the order of the projects is that of
\* their namespaces, here any fixed one.
Points(memories, projects) ==
  LET sorted == SortedMemories(memories)
  IN ConceptPoints(sorted) \o [i \in DOMAIN sorted |-> MemoryPoint(sorted[i])]
       \o [i \in 1..Cardinality(projects) |-> ProjectPoint(SetToSeq(projects)[i])]

\* Pairs of indices: each memory to its project, when it is listed, and its concepts.
GraphLinks(memories, projects) ==
  LET points == Points(memories, projects)
      Ends(m) == {MemoryPoint(m)} \X
                 ({ProjectPoint(m.ns)} \cup {ConceptPoint(m, c) : c \in ToSet(m.concepts)})
      At(p) == {i \in DOMAIN points : points[i].kind = p.kind /\ points[i].of = p.of}
  IN UNION {At(e[1]) \X At(e[2]) : e \in UNION {Ends(m) : m \in ToSet(memories)}}

(* ------------------------------------------------------------------- App *)
\* stale, point: history. stale: the page has other data than the mounted graph;
\* point: the drawn point whose detail is open, and whether the graph was stale then.
FirstView ==
  [projects |-> {}, tail |-> <<>>, memories |-> <<>>, loading |-> TRUE, failed |-> FALSE,
   graph |-> <<>>, clicked |-> 0, memory |-> None, concept |-> None, point |-> None, stale |-> FALSE]

Mount(v) ==
  [v EXCEPT !.graph = Points(v.memories, v.projects), !.clicked = 0, !.stale = FALSE]

\* MemoryGraph: a placeholder, or the graph, which is mounted only if it is not.
Render(v) ==
  IF v.loading \/ v.failed \/ v.memories = <<>>
  THEN [v EXCEPT !.graph = <<>>, !.clicked = 0]
  ELSE IF v.graph = <<>> THEN Mount(v)
  ELSE [v EXCEPT !.stale = v.graph # Points(v.memories, v.projects)]

\* A section that fails keeps its data; the graph shows an error instead.
ShowStats(v, ok, body) == IF ok THEN Render([v EXCEPT !.projects = {p.ns : p \in body.projects}]) ELSE v
ShowEvents(v, ok, body) == IF ok THEN [v EXCEPT !.tail = body.items] ELSE v
ShowMemories(v, ok, body) ==
  Render([v EXCEPT !.loading = FALSE, !.failed = ~ok, !.memories = IF ok THEN body.items ELSE @])

\* The refresh button changes the key of the graph: another one is mounted.
Refresh(v) == Mount(v)

(* ---------------------------------------------------------------- clicks *)
\* Mutated form: the memory at the index of the point.
FoundByPlace(memories, id) == IF id \in DOMAIN memories THEN memories[id] ELSE None

Found(memories, id) ==
  IF \E m \in ToSet(memories) : m.id = id THEN CHOOSE m \in ToSet(memories) : m.id = id ELSE None

\* handleClick. The concept is what follows the last colon; a project opens nothing.
HandleClick(v, p) ==
  IF p = None THEN [v EXCEPT !.memory = None, !.concept = None]
  ELSE CASE p.kind = "memory"  -> [v EXCEPT !.memory = Found(v.memories, p.of[1]), !.concept = None]
         [] p.kind = "concept" -> [v EXCEPT !.memory = None, !.concept = <<Last(p.of)>>]
         [] p.kind = "project" -> v

PanelIsOpen(v) == v.memory # None \/ v.concept # None

\* onClick of the engine, which hands over an index into the points of the page as
\* it is now; a second click on a point ends the highlight instead.
OnClick(v, i) ==
  LET now == Points(v.memories, v.projects)
      opened == HandleClick(v, IF i \in DOMAIN now THEN now[i] ELSE None)
  IN IF v.clicked = i THEN HandleClick([v EXCEPT !.clicked = 0], None)
     ELSE [opened EXCEPT !.clicked = i,
                         !.point = IF PanelIsOpen(opened) THEN [drawn |-> v.graph[i], stale |-> v.stale] ELSE None]

\* The backdrop covers the graph: it takes the click and only closes the panel.
ClosePanel(v) == [v EXCEPT !.memory = None, !.concept = None, !.point = None]

-----------------------------------------------------------------------------
Opens(v, p) ==
  /\ p.kind # "project"
  /\ p.kind = "memory" => v.memory # None /\ v.memory.id = p.of[1]
  /\ p.kind = "concept" => v.concept = p.name

\* What is open belongs to the point that was clicked, if the graph is not stale
\* and the concept has no colon in it.
FreshClickOpensItsPoint(v) ==
  v.point # None /\ ~v.point.stale /\ Len(v.point.drawn.name) <= 1 => Opens(v, v.point.drawn)

\* Links, and so the clusters of the graph, never cross projects.
LinksStayInProject(v) ==
  LET points == Points(v.memories, v.projects)
  IN \A l \in GraphLinks(v.memories, v.projects) : points[l[1]].ns = points[l[2]].ns
=============================================================================
