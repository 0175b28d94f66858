--------------------------- MODULE Transformations ---------------------------
(* The parts of the program that one actor carries out from start to end: the *)
(* path of a body through the cut and the scrub, the last steps of a hybrid   *)
(* search, the clustering of a batch, the XML of the agents, the choice of a  *)
(* project, the files of init and uninstall, the migrations, and the two who  *)
(* read the tables. A behaviour is one of them: "part" says which, "work" is  *)
(* its state.                                                                 *)
EXTENDS Privacy, Ranking, Clustering, Markup, ProjectRoots, AgentFiles, Schema, ReadApi, Dashboard

CONSTANTS Bodies,       \* bodies a hook may be given
          Budgets,      \* values of maxBodyBytes
          Rankings,     \* rankings a search may find
          Ages,         \* times of creation of what it finds
          MaxLimit,     \* bound: the limits searched with are 1..MaxLimit
          MaxBatch,     \* bound: candidates of one batch
          Batches,      \* batches of events framed for the compressor
          Answers,      \* sequences of records a compressor may answer
          Candidates,   \* sequences of candidates the judge may be shown
          MergeAnswers, \* merges a judge may ask for
          Directories,  \* directories a user may work in
          Homes,        \* values of homedir()
          EventRows,    \* rows the events table may get, by their ids
          RecordRows,   \* rows the memory_records table may get
          ListLimit,    \* the receiver's maximum for a listing of memories
          FetchMultiplier \* fetchDepthMultiplier: each search is asked for limit times this

\* A prompt is one text. A word stands for the place it is at: it is public or private, not both.
ASSUME BodiesAssumption ==
  /\ Budgets \subseteq Nat
  /\ Bodies \subseteq [kind : {"text", "message", "json", "object"}, texts : Seq(Seq(STRING))]
  /\ \A b \in Bodies : /\ b.kind = "text" => Len(b.texts) = 1
                       /\ PrivateWords(b) \cap PublicWords(b) = {}

\* Where a record can stand in a ranking, 0 for nowhere, and what that adds to its score.
Places(limit) == {r \in 0..MaxRank : r <= limit * FetchMultiplier}
PlaceShare(r) == IF r = 0 THEN 0 ELSE Share(r)

\* A ranking lists each record once.
ASSUME SearchAssumption ==
  /\ MaxLimit \in Nat /\ FetchMultiplier \in Nat \ {0}
  /\ Ages \subseteq Int
  /\ \A r \in Rankings : r \in Seq(Int) /\ IsInjective(r) /\ Len(r) <= MaxRank

\* Few records can tie: for each limit no more than limit + 1 have the same score.
ASSUME TiesAssumption ==
  \A limit \in 1..MaxLimit :
    LET places == Places(limit) \X Places(limit)
        score(p) == PlaceShare(p[1]) + PlaceShare(p[2])
    IN \A p \in places : Cardinality({q \in places : score(q) = score(p)}) <= limit + 1

ASSUME BatchAssumption == MaxBatch \in Nat

\* A text is a sequence of words; the type of a record is one word and no tag begins with it.
ASSUME TextsAssumption ==
  /\ Batches \subseteq Seq([input : Seq(STRING), output : Seq(STRING)])
  /\ Answers \subseteq Seq([type : STRING \ {"<"}, title : Seq(STRING), summary : Seq(STRING)])
  /\ Candidates \subseteq Seq([title : Seq(STRING), facts : Seq(Seq(STRING))])
  /\ MergeAnswers \subseteq [ids : Seq(Seq(STRING)), title : Seq(STRING), summary : Seq(STRING),
                             facts : Seq(Seq(STRING))]

\* No home lies in another one.
ASSUME DirectoriesAssumption ==
  /\ Directories \subseteq Seq(Seq(STRING))
  /\ Homes \in Seq(Directories) /\ Homes # <<>>
  /\ \A i, j \in DOMAIN Homes : IsPrefix(Homes[i], Homes[j]) => i = j

\* Concepts are not empty, and no namespace begins with another one: both are
\* what the schemas of the wire admit.
ASSUME TablesAssumption ==
  /\ \A e \in EventRows : e.id \in Nat
  /\ RecordRows \subseteq [id : Nat, ns : Seq(STRING), type : STRING,
                          concepts : Seq(Seq(STRING) \ {<<>>}), embedded : BOOLEAN]
  /\ \A r, s \in RecordRows : IsPrefix(r.ns, s.ns) => r.ns = s.ns
  /\ None \notin RecordRows
  /\ ListLimit \in Nat \ {0}
  /\ Missing \notin Int /\ NotInteger \notin Int /\ Missing # NotInteger

VARIABLES part, work

vars == <<part, work>>

Become(next) == work' = next /\ UNCHANGED part

\* ---------------------------------------------------------- a body's path ---
GivenABody == part = "body" /\ work \in [at : {"hook"}, given : Bodies, maxBytes : Budgets, body : {<<>>}]

HookCuts ==
  /\ part = "body" /\ work.at = "hook"
  /\ Become([work EXCEPT !.at = "sent", !.body = TruncateBody(work.given, work.maxBytes)])

StageScrubs ==
  /\ part = "body" /\ work.at = "sent"
  /\ Become([work EXCEPT !.at = "stored", !.body = Scrub(@)])

\* No private word reaches the store, wherever the cut falls (Privacy).
PrivateWordsStayHome ==
  part = "body" /\ work.at = "stored" => HidesPrivateWords(work.given, work.body)

\* A body that fits keeps every word that is not private (Privacy).
PublicWordsArrive ==
  part = "body" /\ work.at = "stored" => KeepsPublicWords(work.given, work.body, work.maxBytes)

\* A body is cut to the budget, or the budget and a marker (Privacy).
BodiesFit == part = "body" /\ work.at = "sent" => FitsWithMarker(work.body, work.maxBytes)

\* The hook cuts, knowing nothing of tags, and the collector scrubs what is left
\* (truncateBody, scrubPrivateTags): together they neither leak nor lose.
BodiesArrive == PrivateWordsStayHome /\ PublicWordsArrive /\ BodiesFit

\* -------------------------------------------------------- a hybrid search ---
Ids == UNION {ToSet(r) : r \in Rankings}

GivenRankings ==
  /\ part = "search"
  /\ work \in [at : {"ranked"}, lexical : Rankings, vector : Rankings, created : [Ids -> Ages],
               limit : 1..MaxLimit, result : {<<>>}]
  /\ Len(work.lexical) <= work.limit * FetchMultiplier
  /\ Len(work.vector) <= work.limit * FetchMultiplier

Fuses ==
  /\ part = "search" /\ work.at = "ranked"
  /\ Become([work EXCEPT !.at = "fused", !.result = RrfFuse(work.lexical, work.vector, FusionDepth(work.limit))])

Joins ==
  /\ part = "search" /\ work.at = "fused"
  /\ Become([work EXCEPT !.at = "joined",
                         !.result = HybridResult(@, work.lexical, work.vector, work.created, work.limit)])

\* What both searches prefer is returned first (Ranking).
AgreementWins ==
  part = "search" /\ work.at = "joined" => RespectsAgreement(work.lexical, work.vector, work.result)

\* The tie-break by age is not undone by the earlier cut (Ranking).
NewerWins ==
  part = "search" /\ work.at = "joined"
    => NewerFirst(work.lexical, work.vector, work.created, work.result)

\* Cut, tie-break and join leave the order the ranks and ages ask for.
SearchOrderIsRight == AgreementWins /\ NewerWins

\* ------------------------------------------------------------- clustering ---
Pairs(embedded) == {p \in embedded \X embedded : p[1] < p[2]}

GivenCandidates ==
  /\ part = "cluster"
  /\ \E n \in 1..MaxBatch : \E embedded \in SUBSET (1..n) : \E near \in SUBSET Pairs(embedded) :
       work = [n |-> n, embedded |-> embedded, near |-> near, seen |-> {},
               pair |-> <<1, 2>>, forest |-> NoUnions(n)]

ScansPair ==
  /\ part = "cluster" /\ ~ScanEnds(work.n, work.pair)
  /\ Become([work EXCEPT !.forest = Scan(@, work.near, work.pair),
                         !.seen = @ \cup ({work.pair} \cap work.near),
                         !.pair = NextPair(work.n, @)])

\* The forest is right after every pair, not only after the last (Clustering).
ForestFollowsChains == part = "cluster" => ChainsShareRoots(work.forest, work.seen)

\* The judge gets each candidate once, with all its likes (Clustering).
ClustersAreComplete ==
  part = "cluster" /\ ScanEnds(work.n, work.pair)
    => ClustersAreChains(Clusters(work.forest), work.near, work.n, work.embedded)

\* Union-find by rank with path compression is single linkage.
ClusteringIsRight == ForestFollowsChains /\ ClustersAreComplete

\* -------------------------------------------------------- the agents' XML ---
GivenTexts ==
  /\ part = "xml"
  /\ \/ work \in [kind : {"batch"}, given : Batches, out : {<<>>}, done : {FALSE}]
     \/ work \in [kind : {"records"}, given : Answers, out : {<<>>}, done : {FALSE}]
     \/ work \in [kind : {"prompt"}, given : Candidates \X Candidates, out : {<<>>}, done : {FALSE}]
     \/ work \in [kind : {"merge"}, given : MergeAnswers, out : {<<>>}, done : {FALSE}]

Turn(kind, result) ==
  /\ part = "xml" /\ work.kind = kind /\ ~work.done
  /\ Become([work EXCEPT !.out = result, !.done = TRUE])

CompressorIsAsked == Turn("batch", FrameBatch(work.given))
CompressorAnswers ==
  Turn("records", ParseMemoryXml(FlattenSeq([i \in DOMAIN work.given |-> RecordXml(work.given[i])])))
JudgeIsAsked == Turn("prompt", FrameJudgePrompt(work.given[1], work.given[2]))
JudgeAnswers == Turn("merge", ParseJudgeResponse(MergeXml(work.given)))

Turned(kind) == part = "xml" /\ work.kind = kind /\ work.done

\* No event's text opens or closes an element of the batch (Markup).
EventsAreFramed == Turned("batch") => EventsStaySeparate(work.given, work.out)

\* Neither does a candidate's or a neighbour's in the judge's prompt (Markup).
PromptsAreFramed == Turned("prompt") => PromptIsComplete(work.given[1], work.given[2], work.out)

\* An obedient compressor is understood (Markup).
RecordsAreRead == Turned("records") => RecordsComeThrough(work.given, work.out)

\* An obedient judge is understood (Markup).
MergesAreRead == Turned("merge") => MergesAreUnderstood(work.given, work.out)

\* Text goes out through the XML of both agents as it was, and comes back as it
\* was but for the white space around it and the parser's two cuts.
XmlRoundTrips == EventsAreFramed /\ PromptsAreFramed /\ RecordsAreRead /\ MergesAreRead

\* --------------------------------------------------------------- projects ---
\* realpathSync: the homes after the first are links to the first.
RealPath(homes, path) ==
  IF \E i \in DOMAIN homes : IsPrefix(homes[i], path)
  THEN LET h == homes[CHOOSE i \in DOMAIN homes : IsPrefix(homes[i], path)]
       IN homes[1] \o SubSeq(path, Len(h) + 1, Len(path))
  ELSE path

Links == [d \in Directories |-> RealPath(Homes, d)]

GivenHome == part = "project" /\ work \in [home : ToSet(Homes), marked : {{}}]

\* The user, or init itself with a .kiro directory, marks a directory; or a
\* marker is deleted.
MarkerAppears ==
  /\ part = "project"
  /\ \E d \in Directories : Become([work EXCEPT !.marked = @ \cup {Links[d]}])
MarkerGoes == part = "project" /\ \E d \in work.marked : Become([work EXCEPT !.marked = @ \ {d}])

\* Hooks and installer see the same projects at any time (ProjectRoots).
OneProject ==
  part = "project" => HooksAndInstallerAgree(Directories, work.home, Links, work.marked)

\* ------------------------------------------------------ init and uninstall ---
\* mine: projects whose mcp.json has a server of the user; left: projects an
\* init has run in since the last uninstall that succeeded there; cut: where a
\* write of mcp.json was cut short; given up: where it could not be read or written.
\* stays: whether the directory stays when init throws, or when uninstall ends.
GivenFiles ==
  part = "files" /\ work = [files |-> Clean, steps |-> <<>>, here |-> "nowhere", stays |-> FALSE,
                            mine |-> {}, left |-> {}, cut |-> {}, givenUp |-> {}]

Idle == part = "files" /\ work.steps = <<>>

UserWritesMcp ==
  /\ Idle
  /\ \E p \in Projects : \E m \in McpFiles :
       /\ "ours" \notin m.servers
       /\ Become([work EXCEPT !.files.project[p].mcp = m,
                              !.mine = IF "users" \in m.servers THEN @ \cup {p} ELSE @ \ {p},
                              !.cut = @ \ {p}, !.givenUp = @ \ {p}])

InitBegins ==
  /\ Idle
  /\ \E p \in Projects \cup {"nowhere"} :
       Become([work EXCEPT !.steps = InitSteps(p), !.here = p, !.stays = work.files.installed,
                           !.left = @ \cup ({p} \cap Projects)])

\* Without an installed directory nothing at all is done.
UninstallBegins ==
  /\ Idle /\ work.files.installed
  /\ \E p \in Projects \cup {"nowhere"} : \E keepData \in BOOLEAN :
       Become([work EXCEPT !.steps = UninstallSteps(p), !.here = p, !.stays = keepData])

\* The command at work has names as its next step.
NextIn(names) == part = "files" /\ work.steps # <<>> /\ Head(work.steps) \in names

InitGoesOn ==
  /\ NextIn(InitNames)
  /\ \E seeds \in BOOLEAN :
       Become([work EXCEPT !.files = InitStep(@, work.here, Head(work.steps), seeds),
                           !.steps = Tail(@)])

UninstallGoesOn ==
  /\ NextIn(UninstallNames)
  /\ Become([work EXCEPT !.files = UninstallStep(@, work.here, Head(work.steps), work.stays),
                         !.steps = Tail(@),
                         !.left = IF Head(work.steps) = "directoryGone" THEN @ \ {work.here} ELSE @])

\* Either goes on with what it takes mcp.json for.
McpFails ==
  /\ NextIn({"mcp", "entryGone"}) /\ work.files.project[work.here].mcp # NoMcp
  /\ Become([work EXCEPT !.files = McpGivenUp(@, work.here, Head(work.steps)),
                         !.steps = Tail(@), !.givenUp = @ \cup {work.here}])

\* A step throws; or the process is killed, and nothing is cleaned up.
CutHere(after) == IF after = Truncated(work.files, work.here) THEN {work.here} ELSE {}

InitBreaks ==
  /\ NextIn(InitNames)
  /\ \E killed \in BOOLEAN : \E after \in InitCutShort(work.files, work.here, Head(work.steps)) :
       Become([work EXCEPT !.files = IF killed THEN after ELSE InitThrows(after, work.stays),
                           !.steps = <<>>,
                           !.cut = @ \cup (IF Head(work.steps) = "mcp" THEN CutHere(after) ELSE {})])

UninstallBreaks ==
  /\ NextIn(UninstallNames)
  /\ \E after \in UninstallCutShort(work.files, work.here, Head(work.steps)) :
       Become([work EXCEPT !.files = after, !.steps = <<>>,
                           !.cut = @ \cup (IF Head(work.steps) = "entryGone" THEN CutHere(after) ELSE {})])

\* Inits, upgrades, failures in the middle and uninstalls in any project: a
\* server the user has put into mcp.json stays there, unless just a write of that
\* file was cut short, or it could not be read or written (writeMcpConfig, cmdUninstall).
UsersServersStay ==
  part = "files" =>
    \A p \in work.mine \ (work.cut \cup work.givenUp) : "users" \in work.files.project[p].mcp.servers

\* "Remove kiro-learn-memory entry from MCP config (preserve other servers)" (cmdUninstall):
\* whoever is not killed while it writes.
OtherServersArePreserved ==
  part = "files" => \A p \in work.mine \ work.cut : "users" \in work.files.project[p].mcp.servers

\* What an uninstall that succeeded leaves behind lies in other projects, however
\* many before it broke off (cmdUninstall, removeIdeHookFiles).
LeftoversAreElsewhere ==
  part = "files" => \A p \in Projects : HasOurs(work.files.project[p]) => p \in work.left

\* Hooks, init and uninstall agree on what a project is, and none of them takes
\* from a project what it did not put there, or leaves there what it did.
ProjectsAreRespected == OneProject /\ UsersServersStay /\ LeftoversAreElsewhere

\* ------------------------------------------------------------- migrations ---
\* known: how many migrations the running daemon knows, 0 without a daemon.
GivenDatabase == part = "schema" /\ work = [db |-> NoTables, known |-> 0]

DaemonOpens ==
  /\ part = "schema" /\ work.known = 0
  /\ \E k \in Versions : ~Drifted(work.db, k) /\ Become([work EXCEPT !.known = k])

\* A migration that fails ends the daemon, like its death in the middle.
MigratesOne ==
  /\ part = "schema" /\ Pending(work.db, work.known) # {}
  /\ \E dies \in BOOLEAN :
       LET v == NextVersion(work.db, work.known)
           ends == dies \/ UpFails(work.db, v)
       IN Become([db |-> Migrate(work.db, v, ends), known |-> IF ends THEN 0 ELSE work.known])

DaemonCloses ==
  part = "schema" /\ work.known # 0 /\ Pending(work.db, work.known) = {} /\ Become([work EXCEPT !.known = 0])

\* A daemon works on tables that fit its statements (Schema).
DaemonsSchemaFits == part = "schema" => SchemaFits(work.db, work.known)

\* A death in a migration never keeps the next start from it (Schema).
MigrationsGoOn == part = "schema" => NothingBlocks(work.db, work.known)

\* Daemons of different versions, dying in the middle of migrations, take turns
\* with one database file (runMigrations).
SchemaEvolves == DaemonsSchemaFits /\ MigrationsGoOn

\* ------------------------------------------------------------- the tables ---
NoRows == [events |-> {}, records |-> {}]

\* The ingest pipeline stores an event.
StoresEvent(db) ==
  {[db EXCEPT !.events = @ \cup {e}] : e \in {e \in EventRows : e.id = Cardinality(db.events) + 1}}

\* A run stores a record, and may delete others of the project it merged it from.
StoresRecord(db, made) ==
  UNION {{[db EXCEPT !.records = (@ \ merged) \cup {r}] : merged \in SUBSET InScope(db.records, r.ns)} :
            r \in {r \in RecordRows : r.id = made + 1}}

\* A client reads the listing of memories page by page.
GivenReader ==
  /\ part = "pages"
  /\ work \in [db : {NoRows}, made : {0}, at : {"waits"}, limit : 1..ListLimit + 1, offset : {0}, seen : {{}},
               promised : {{}}, merged : {FALSE}]

TableGrows ==
  /\ part = "pages" /\ work.at # "done"
  /\ \E db \in StoresRecord(work.db, work.made) :
       Become([work EXCEPT !.db = db, !.made = @ + 1,
                           !.merged = @ \/ ~(work.db.records \subseteq db.records)])

ReaderBegins ==
  /\ part = "pages" /\ work.at = "waits"
  /\ Become([work EXCEPT !.at = "reads", !.promised = work.db.records, !.merged = FALSE])

ReaderTurns ==
  /\ part = "pages" /\ work.at = "reads"
  /\ LET page == GetMemories(work.db, AllProjects, work.limit, work.offset, ListLimit)
         next == work.offset + page.limit
     IN Become([work EXCEPT !.seen = @ \cup ToSet(page.items), !.offset = next,
                            !.at = IF next >= page.total THEN "done" ELSE "reads"])

\* Records that arrive while a client reads shift the pages, and it sees some twice;
\* but it misses none, unless one was deleted (GET /v1/memories).
PagesMissNothing ==
  part = "pages" /\ work.at = "done" /\ ~work.merged => work.promised \subseteq work.seen

\* ------------------------------------------------------------- the viewer ---
Sections == {"stats", "events", "memories"}
Unasked == [s \in Sections |-> [is |-> "unasked"]]

GivenViewer ==
  part = "view" /\ work = [db |-> NoRows, made |-> 0, poll |-> Unasked, view |-> FirstView]

EventArrives == part = "view" /\ \E db \in StoresEvent(work.db) : Become([work EXCEPT !.db = db])
RecordArrives ==
  /\ part = "view"
  /\ \E db \in StoresRecord(work.db, work.made) : Become([work EXCEPT !.db = db, !.made = @ + 1])

PollBegins ==
  /\ part = "view" /\ work.poll = Unasked
  /\ Become([work EXCEPT !.poll = [s \in Sections |-> [is |-> "asked"]]])

Answer(s, answer) == Become([work EXCEPT !.poll[s] = answer])

\* The receiver answers each request by itself; the one for the stats in two steps.
StatsAreRead ==
  part = "view" /\ work.poll["stats"].is = "asked" /\ Answer("stats", [is |-> "half", db |-> work.db])

Answered(s) ==
  /\ part = "view"
  /\ \/ /\ work.poll[s].is = "half"
        /\ Answer(s, [is |-> "ok", body |-> StatsResponse(work.poll[s].db, work.db, AllProjects)])
     \/ /\ s = "events" /\ work.poll[s].is = "asked"
        /\ Answer(s, [is |-> "ok", body |-> GetEvents(work.db, AllProjects, 50, 200)])
     \/ /\ s = "memories" /\ work.poll[s].is = "asked"
        /\ Answer(s, [is |-> "ok", body |-> GetMemories(work.db, AllProjects, 500, Missing, ListLimit)])

RequestFails(s) ==
  part = "view" /\ work.poll[s].is \in {"asked", "half"} /\ Answer(s, [is |-> "failed"])

\* Promise.allSettled, then section after section.
Shows(s, before, v) ==
  /\ \A t \in Sections : work.poll[t].is \in IF t \in before THEN {"unasked"} ELSE {"ok", "failed"}
  /\ Become([work EXCEPT !.poll[s] = [is |-> "unasked"], !.view = v])

Body(s) == IF work.poll[s].is = "ok" THEN work.poll[s].body ELSE None

PollShows ==
  /\ part = "view"
  /\ \/ Shows("stats", {}, ShowStats(work.view, Body("stats") # None, Body("stats")))
     \/ Shows("events", {"stats"}, ShowEvents(work.view, Body("events") # None, Body("events")))
     \/ Shows("memories", {"stats", "events"},
              ShowMemories(work.view, Body("memories") # None, Body("memories")))

ViewIs(v) == Become([work EXCEPT !.view = v])

Clicks ==
  /\ part = "view" /\ ~PanelIsOpen(work.view)
  /\ \E i \in DOMAIN work.view.graph : ViewIs(OnClick(work.view, i))
Closes == part = "view" /\ PanelIsOpen(work.view) /\ ViewIs(ClosePanel(work.view))
Refreshes ==
  part = "view" /\ work.view.graph # <<>> /\ ~PanelIsOpen(work.view) /\ ViewIs(Refresh(work.view))

\* A click opens the detail of the point that is drawn, as long as no poll has
\* changed the points since (Dashboard, FreshClickOpensItsPoint).
FreshClicksOpenTheirs == part = "view" => FreshClickOpensItsPoint(work.view)

\* "Clicking a memory or concept node in the graph opens a detail panel ... showing
\* the full record" (docs/architecture/viewer.mdx): of that memory, whenever.
ClickedMemoryIsShown ==
  part = "view" /\ work.view.point # None =>
    (work.view.point.drawn.kind = "memory" =>
       work.view.memory # None /\ work.view.memory.id = work.view.point.drawn.of[1])

\* What is drawn never ties two projects together (Dashboard).
GraphKeepsProjectsApart == part = "view" => LinksStayInProject(work.view)

\* An event stored between the two reads of GET /v1/stats adds to the list of
\* projects, never to the count alone (ReadApi).
ProjectsAreListed ==
  part = "view" /\ work.poll["stats"].is = "ok" => CountIsCovered(work.poll["stats"].body)

\* Who reads in several steps while others write is not misled (the listings
\* and statistics of the receiver).
ReadersAreServed == PagesMissNothing /\ ProjectsAreListed

\* Polls, clicks and refreshes in any order (CosmosGraph, MemoryGraph, transform).
ViewIsTrue == FreshClicksOpenTheirs /\ GraphKeepsProjectsApart

\* ------------------------------------------------------------------- spec ---
Init == \/ GivenABody \/ GivenRankings \/ GivenCandidates \/ GivenTexts
        \/ GivenHome \/ GivenFiles \/ GivenDatabase \/ GivenReader \/ GivenViewer

Next == \/ HookCuts \/ StageScrubs
        \/ Fuses \/ Joins
        \/ ScansPair
        \/ CompressorIsAsked \/ CompressorAnswers \/ JudgeIsAsked \/ JudgeAnswers
        \/ MarkerAppears \/ MarkerGoes
        \/ UserWritesMcp \/ InitBegins \/ InitGoesOn \/ InitBreaks \/ McpFails
        \/ UninstallBegins \/ UninstallGoesOn \/ UninstallBreaks
        \/ DaemonOpens \/ MigratesOne \/ DaemonCloses
        \/ TableGrows \/ ReaderBegins \/ ReaderTurns
        \/ EventArrives \/ RecordArrives \/ PollBegins \/ StatsAreRead
        \/ (\E s \in Sections : Answered(s) \/ RequestFails(s)) \/ PollShows
        \/ Clicks \/ Closes \/ Refreshes

Spec == Init /\ [][Next]_vars
=============================================================================
