------------------------ MODULE TransformationsProofs ------------------------
(* Proofs about Transformations: for every value of the constants that its    *)
(* assumptions admit, the schema evolves, the installer respects the users'   *)
(* files as far as its writes do, a paging reader misses nothing, the         *)
(* dashboard shows what was clicked, a directory has one project, the         *)
(* clusters are the connected candidates, the fusion keeps its order, no      *)
(* private word is stored, what the agents are given comes through its XML    *)
(* as it was, and what they answer but for the parser's trimming and cuts.    *)
(* Each part of the state has an invariant of its own: it holds at first, is  *)
(* kept, and gives the property.                                              *)
EXTENDS Transformations, MarkupProofs

(*----------------------------------------------------------------------------*)
(* Each part of the state by its own steps; the schema                        *)
(*----------------------------------------------------------------------------*)

\* Which actions belong to which part.
BodyStep == HookCuts \/ StageScrubs
TextStep == CompressorIsAsked \/ CompressorAnswers \/ JudgeIsAsked \/ JudgeAnswers
SearchStep == Fuses \/ Joins
ProjectStep == MarkerAppears \/ MarkerGoes
FilesStep == \/ UserWritesMcp \/ InitBegins \/ InitGoesOn \/ InitBreaks \/ McpFails
             \/ UninstallBegins \/ UninstallGoesOn \/ UninstallBreaks
SchemaStep == DaemonOpens \/ MigratesOne \/ DaemonCloses
PagesStep == TableGrows \/ ReaderBegins \/ ReaderTurns
ViewStep == \/ EventArrives \/ RecordArrives \/ PollBegins \/ StatsAreRead
            \/ (\E s \in Sections : Answered(s) \/ RequestFails(s)) \/ PollShows
            \/ Clicks \/ Closes \/ Refreshes

\* A behaviour stays with its part, and takes the steps of that part only.
LEMMA EachPartBySteps ==
  ASSUME [Next]_vars
  PROVE  /\ part' = part
         /\ part = "body" => BodyStep \/ work' = work
         /\ part = "xml" => TextStep \/ work' = work
         /\ part = "search" => SearchStep \/ work' = work
         /\ part = "cluster" => ScansPair \/ work' = work
         /\ part = "project" => ProjectStep \/ work' = work
         /\ part = "files" => FilesStep \/ work' = work
         /\ part = "schema" => SchemaStep \/ work' = work
         /\ part = "pages" => PagesStep \/ work' = work
         /\ part = "view" => ViewStep \/ work' = work
<1>0. /\ BodyStep => part = "body" /\ part' = part
      /\ TextStep => part = "xml" /\ part' = part
  BY Zenon DEF BodyStep, HookCuts, StageScrubs, TextStep, CompressorIsAsked, CompressorAnswers, JudgeIsAsked,
        JudgeAnswers, Turn, Become
<1>1. SearchStep => part = "search" /\ part' = part BY DEF SearchStep, Fuses, Joins, Become
<1>2. ScansPair => part = "cluster" /\ part' = part BY DEF ScansPair, Become
<1>3. ProjectStep => part = "project" /\ part' = part
  BY DEF ProjectStep, MarkerAppears, MarkerGoes, Become
<1>4. FilesStep => part = "files" /\ part' = part
  BY Zenon DEF FilesStep, UserWritesMcp, InitBegins, InitGoesOn, InitBreaks, McpFails,
        UninstallBegins, UninstallGoesOn, UninstallBreaks, Idle, NextIn, Become
<1>5. SchemaStep => part = "schema" /\ part' = part
  BY Zenon DEF SchemaStep, DaemonOpens, MigratesOne, DaemonCloses, Become
<1>6. PagesStep => part = "pages" /\ part' = part
  BY Zenon DEF PagesStep, TableGrows, ReaderBegins, ReaderTurns, Become
<1>7. ViewStep => part = "view" /\ part' = part
  BY Zenon DEF ViewStep, EventArrives, RecordArrives, PollBegins, StatsAreRead, Answered, RequestFails,
        PollShows, Clicks, Closes, Refreshes, Shows, Answer, ViewIs, Become
<1>8. \/ BodyStep \/ TextStep
      \/ SearchStep \/ ScansPair \/ ProjectStep \/ FilesStep \/ SchemaStep \/ PagesStep \/ ViewStep
      \/ UNCHANGED vars
  BY Zenon DEF Next, BodyStep, TextStep, SearchStep, ProjectStep, FilesStep, SchemaStep, PagesStep, ViewStep
<1> QED BY <1>0, <1>1, <1>2, <1>3, <1>4, <1>5, <1>6, <1>7, <1>8 DEF vars

-----------------------------------------------------------------------------
\* Tables of the n-th version: what the first n migrations make, one after the other.
TablesOf(n) == [applied |-> [i \in 1..n |-> i], columns |-> ColumnsOf(n), checks |-> TypesOf(n)]

SchemaInv ==
  part = "schema" =>
    /\ work = [db |-> work.db, known |-> work.known]
    /\ work.known \in 0..5
    /\ \E n \in 0..5 : work.db = TablesOf(n) /\ (work.known = 0 \/ n <= work.known)

LEMMA FrontierOfTables == \A n \in 0..5 : Frontier(TablesOf(n)) = n /\ Len(TablesOf(n).applied) = n
<1> TAKE n \in 0..5
<1>1. [i \in 1..n |-> i] \in Seq(Nat) /\ Len([i \in 1..n |-> i]) = n BY DEF TablesOf
<1> QED BY <1>1 DEF Frontier, TablesOf

LEMMA PendingOfTables ==
  \A n \in 0..5, k \in 0..5 :
    /\ Pending(TablesOf(n), k) = n + 1..k
    /\ n < k => NextVersion(TablesOf(n), k) = n + 1
<1> SUFFICES ASSUME NEW n \in 0..5, NEW k \in 0..5
             PROVE /\ Pending(TablesOf(n), k) = n + 1..k
                   /\ n < k => NextVersion(TablesOf(n), k) = n + 1
  OBVIOUS
<1>1. Pending(TablesOf(n), k) = n + 1..k BY FrontierOfTables DEF Pending
<1>2. ASSUME n < k PROVE NextVersion(TablesOf(n), k) = n + 1 BY <1>1, <1>2 DEF NextVersion
<1> QED BY <1>1, <1>2

\* The next migration turns the tables of one version into those of the next, and does not fail.
LEMMA UpGoesOn ==
  ASSUME NEW n \in 0..4
  PROVE  ~UpFails(TablesOf(n), n + 1) /\ Recorded(Up(TablesOf(n), n + 1), n + 1) = TablesOf(n + 1)
<1>1. ~UpFails(TablesOf(n), n + 1) BY DEF UpFails, TablesOf, ColumnsOf
<1>2. ASSUME NEW u, u = Up(TablesOf(n), n + 1)
      PROVE  u = [applied |-> [i \in 1..n |-> i], columns |-> ColumnsOf(n + 1), checks |-> TypesOf(n + 1)]
  <2>1. ASSUME NEW a, NEW c, NEW k, NEW d, d = [applied |-> a, columns |-> c, checks |-> k]
        PROVE  /\ u = Up(d, 1) => u = [applied |-> a, columns |-> c \cup {"facts"}, checks |-> k]
               /\ u = Up(d, 2) => u = [applied |-> a, columns |-> c \cup {"concepts", "type"}, checks |-> FirstTypes]
               /\ u = Up(d, 3) => u = [applied |-> a, columns |-> c \cup {"project_path"}, checks |-> k]
               /\ u = Up(d, 4) => u = [applied |-> a, columns |-> c \cap CopiedColumns, checks |-> AllTypes]
               /\ u = Up(d, 5) => u = [applied |-> a, columns |-> c \cup {"embedding"}, checks |-> k]
    <3>1. ASSUME u = Up(d, 1) PROVE u = [applied |-> a, columns |-> c \cup {"facts"}, checks |-> k]
      BY <2>1, <3>1 DEF Up
    <3>2. ASSUME u = Up(d, 2) PROVE u = [applied |-> a, columns |-> c \cup {"concepts", "type"}, checks |-> FirstTypes]
      <4>1. d.columns = c BY <2>1
      <4>2. u = [d EXCEPT !.columns = d.columns \cup {"concepts", "type"}, !.checks = FirstTypes] BY <3>2 DEF Up
      <4> QED BY <2>1, <4>1, <4>2
    <3>3. ASSUME u = Up(d, 3) PROVE u = [applied |-> a, columns |-> c \cup {"project_path"}, checks |-> k]
      BY <2>1, <3>3 DEF Up
    <3>4. ASSUME u = Up(d, 4) PROVE u = [applied |-> a, columns |-> c \cap CopiedColumns, checks |-> AllTypes]
      <4>1. d.columns = c BY <2>1
      <4>2. u = [d EXCEPT !.columns = d.columns \cap CopiedColumns, !.checks = AllTypes] BY <3>4 DEF Up
      <4> QED BY <2>1, <4>1, <4>2
    <3>5. ASSUME u = Up(d, 5) PROVE u = [applied |-> a, columns |-> c \cup {"embedding"}, checks |-> k]
      BY <2>1, <3>5 DEF Up
    <3> QED BY <3>1, <3>2, <3>3, <3>4, <3>5
  <2> DEFINE a == [i \in 1..n |-> i]
  <2>2. TablesOf(n) = [applied |-> a, columns |-> ColumnsOf(n), checks |-> TypesOf(n)] BY DEF TablesOf
  <2> HIDE DEF a
  <2> SUFFICES u = [applied |-> a, columns |-> ColumnsOf(n + 1), checks |-> TypesOf(n + 1)] BY DEF a
  <2>3. CASE n = 0
    <3>1. ColumnsOf(0) \cup {"facts"} = ColumnsOf(1) /\ TypesOf(0) = TypesOf(1) BY DEF ColumnsOf, TypesOf
    <3>2. u = Up([applied |-> a, columns |-> ColumnsOf(0), checks |-> TypesOf(0)], 1)
      BY <1>2, <2>2, <2>3
    <3>3. u = [applied |-> a, columns |-> ColumnsOf(0) \cup {"facts"}, checks |-> TypesOf(0)]
      BY Zenon, <2>1, <3>2
    <3> QED BY <2>3, <3>1, <3>3
  <2>4. CASE n = 1
    <3>1. ColumnsOf(1) \cup {"concepts", "type"} = ColumnsOf(2) /\ FirstTypes = TypesOf(2) BY DEF ColumnsOf, TypesOf
    <3>2. u = Up([applied |-> a, columns |-> ColumnsOf(1), checks |-> TypesOf(1)], 2)
      BY <1>2, <2>2, <2>4
    <3>3. u = [applied |-> a, columns |-> ColumnsOf(1) \cup {"concepts", "type"}, checks |-> FirstTypes]
      BY Zenon, <2>1, <3>2
    <3> QED BY <2>4, <3>1, <3>3
  <2>5. CASE n = 2
    <3>1. ColumnsOf(2) \cup {"project_path"} = ColumnsOf(3) /\ TypesOf(2) = TypesOf(3) BY DEF ColumnsOf, TypesOf
    <3>2. u = Up([applied |-> a, columns |-> ColumnsOf(2), checks |-> TypesOf(2)], 3)
      BY <1>2, <2>2, <2>5
    <3>3. u = [applied |-> a, columns |-> ColumnsOf(2) \cup {"project_path"}, checks |-> TypesOf(2)]
      BY Zenon, <2>1, <3>2
    <3> QED BY <2>5, <3>1, <3>3
  <2>6. CASE n = 3
    <3>1. ColumnsOf(3) \cap CopiedColumns = ColumnsOf(4) /\ AllTypes = TypesOf(4)
      BY DEF ColumnsOf, TypesOf, CopiedColumns
    <3>2. u = Up([applied |-> a, columns |-> ColumnsOf(3), checks |-> TypesOf(3)], 4)
      BY <1>2, <2>2, <2>6
    <3>3. u = [applied |-> a, columns |-> ColumnsOf(3) \cap CopiedColumns, checks |-> AllTypes]
      BY Zenon, <2>1, <3>2
    <3> QED BY <2>6, <3>1, <3>3
  <2>7. CASE n = 4
    <3>1. ColumnsOf(4) \cup {"embedding"} = ColumnsOf(5) /\ TypesOf(4) = TypesOf(5) BY DEF ColumnsOf, TypesOf
    <3>2. u = Up([applied |-> a, columns |-> ColumnsOf(4), checks |-> TypesOf(4)], 5)
      BY <1>2, <2>2, <2>7
    <3>3. u = [applied |-> a, columns |-> ColumnsOf(4) \cup {"embedding"}, checks |-> TypesOf(4)]
      BY Zenon, <2>1, <3>2
    <3> QED BY <2>7, <3>1, <3>3
  <2> QED BY <2>3, <2>4, <2>5, <2>6, <2>7
<1>3. Append([i \in 1..n |-> i], n + 1) = [i \in 1..(n + 1) |-> i] OBVIOUS
<1>4. ASSUME NEW r, r = Recorded(Up(TablesOf(n), n + 1), n + 1) PROVE r = TablesOf(n + 1)
  <2>1. ASSUME NEW a, NEW c, NEW k, NEW u, u = [applied |-> a, columns |-> c, checks |-> k], r = Recorded(u, n + 1)
        PROVE  r = [applied |-> Append(a, n + 1), columns |-> c, checks |-> k]
    BY <2>1 DEF Recorded
  <2> DEFINE t == Up(TablesOf(n), n + 1)
             a == [i \in 1..n |-> i]
  <2>2. t = [applied |-> a, columns |-> ColumnsOf(n + 1), checks |-> TypesOf(n + 1)] BY Zenon, <1>2
  <2>3. r = Recorded(t, n + 1) BY <1>4
  <2>4. TablesOf(n + 1) = [applied |-> Append(a, n + 1), columns |-> ColumnsOf(n + 1), checks |-> TypesOf(n + 1)]
    BY Zenon, <1>3 DEF TablesOf
  <2> HIDE DEF t, a
  <2>5. r = [applied |-> Append(a, n + 1), columns |-> ColumnsOf(n + 1), checks |-> TypesOf(n + 1)]
    BY Zenon, <2>1, <2>2, <2>3
  <2> QED BY <2>4, <2>5
<1> QED BY <1>1, <1>4

LEMMA SchemaInvKept == SchemaInv /\ [Next]_vars => SchemaInv'
<1> SUFFICES ASSUME SchemaInv, [Next]_vars, part = "schema" PROVE SchemaInv'
  BY EachPartBySteps DEF SchemaInv
<1>1. PICK n \in 0..5 : work.db = TablesOf(n) /\ (work.known = 0 \/ n <= work.known) BY DEF SchemaInv
<1>2. work = [db |-> work.db, known |-> work.known] /\ work.known \in 0..5 BY DEF SchemaInv
<1>3. CASE DaemonOpens
  <2>1. PICK k \in Versions : ~Drifted(work.db, k) /\ work' = [work EXCEPT !.known = k]
    BY <1>3 DEF DaemonOpens, Become
  <2>2. n <= k
    <3>1. Len(work.db.applied) = n BY <1>1, FrontierOfTables
    <3> QED BY <2>1, <3>1 DEF Drifted, Versions
  <2>3. work' = [db |-> TablesOf(n), known |-> k] BY <1>1, <1>2, <2>1
  <2> QED BY <2>2, <2>3 DEF SchemaInv, Versions
<1>4. CASE MigratesOne
  <2>1. n < work.known BY <1>1, <1>2, <1>4, PendingOfTables DEF MigratesOne
  <2>2. NextVersion(work.db, work.known) = n + 1 /\ n \in 0..4 BY <1>1, <1>2, <2>1, PendingOfTables
  <2>3. PICK ends \in BOOLEAN : work' = [db |-> Migrate(work.db, n + 1, ends), known |-> IF ends THEN 0 ELSE work.known]
    <3>1. PICK dies \in BOOLEAN :
            work' = [db |-> Migrate(work.db, n + 1, dies \/ UpFails(work.db, n + 1)),
                     known |-> IF dies \/ UpFails(work.db, n + 1) THEN 0 ELSE work.known]
      BY <1>4, <2>2 DEF MigratesOne, Become
    <3>2. (dies \/ UpFails(work.db, n + 1)) \in BOOLEAN OBVIOUS
    <3> DEFINE ends == dies \/ UpFails(work.db, n + 1)
    <3>3. ends \in BOOLEAN /\ work' = [db |-> Migrate(work.db, n + 1, ends), known |-> IF ends THEN 0 ELSE work.known]
      BY <3>1, <3>2
    <3> HIDE DEF ends
    <3> QED BY <3>3
  <2>4. Migrate(work.db, n + 1, ends) = TablesOf(IF ends THEN n ELSE n + 1)
    BY <1>1, <2>2, UpGoesOn DEF Migrate
  <2> DEFINE m == IF ends THEN n ELSE n + 1
             k == IF ends THEN 0 ELSE work.known
  <2>5. m \in 0..5 /\ k \in 0..5 /\ (k = 0 \/ m <= k) BY <1>2, <2>1, <2>2
  <2>6. work' = [db |-> TablesOf(m), known |-> k] BY <2>3, <2>4
  <2> HIDE DEF m, k
  <2>7. work'.db = TablesOf(m) /\ work'.known = k /\ work' = [db |-> work'.db, known |-> work'.known] BY <2>6
  <2> QED BY <2>5, <2>7 DEF SchemaInv
<1>5. CASE DaemonCloses BY <1>1, <1>2, <1>5 DEF SchemaInv, DaemonCloses, Become
<1>6. CASE work' = work BY <1>1, <1>2, <1>6, EachPartBySteps DEF SchemaInv
<1> QED BY <1>3, <1>4, <1>5, <1>6, EachPartBySteps DEF SchemaStep

LEMMA SchemaInvGives == SchemaInv => SchemaEvolves
<1> SUFFICES ASSUME SchemaInv, part = "schema"
             PROVE SchemaFits(work.db, work.known) /\ NothingBlocks(work.db, work.known)
  BY DEF SchemaEvolves, DaemonsSchemaFits, MigrationsGoOn
<1>1. PICK n \in 0..5 : work.db = TablesOf(n) /\ (work.known = 0 \/ n <= work.known) BY DEF SchemaInv
<1>2. work.known \in 0..5 BY DEF SchemaInv
<1>3. CASE n < work.known
  <2>1. Pending(work.db, work.known) # {} /\ NextVersion(work.db, work.known) = n + 1 /\ n \in 0..4
    BY <1>1, <1>2, <1>3, PendingOfTables
  <2> QED BY <1>1, <2>1, UpGoesOn DEF SchemaFits, NothingBlocks
<1>4. CASE ~(n < work.known)
  <2>1. work.known = 0 \/ work.known = n BY <1>1, <1>2, <1>4
  <2>2. Pending(work.db, work.known) = {} BY <1>1, <1>2, <2>1, PendingOfTables
  <2>3. ColumnsOf(work.known) \subseteq work.db.columns /\ TypesOf(work.known) \subseteq work.db.checks
    BY <1>1, <2>1 DEF TablesOf, ColumnsOf, TypesOf
  <2> QED BY <2>2, <2>3 DEF SchemaFits, NothingBlocks
<1> QED BY <1>3, <1>4

LEMMA SchemaInvAtFirst == Init => SchemaInv
<1> SUFFICES ASSUME Init, part = "schema" PROVE SchemaInv
  BY DEF SchemaInv
<1>1. work = [db |-> NoTables, known |-> 0]
  BY Zenon DEF Init, GivenABody, GivenRankings, GivenCandidates, GivenTexts,
        GivenHome, GivenFiles, GivenDatabase, GivenReader, GivenViewer
<1>2. NoTables = TablesOf(0) BY DEF NoTables, TablesOf, ColumnsOf, TypesOf
<1> QED BY <1>1, <1>2 DEF SchemaInv

(*----------------------------------------------------------------------------*)
(* The files of the installer                                                 *)
(*----------------------------------------------------------------------------*)

ProjectFiles == [agent : BOOLEAN, hooks : SUBSET HookFiles, mcp : McpFiles]
FileSystems == [installed : BOOLEAN, agent : BOOLEAN, workers : BOOLEAN, project : [Projects -> ProjectFiles]]
Somewhere == Projects \cup {"nowhere"}
FilesWork == [files : FileSystems, steps : Seq(InitNames \cup UninstallNames), here : Somewhere, stays : BOOLEAN,
              mine : SUBSET Projects, left : SUBSET Projects, cut : SUBSET Somewhere, givenUp : SUBSET Somewhere]

\* What an uninstall has before it, and what it has made of the files of its project x by then.
RestOfUninstall(steps, x) ==
  \/ steps = <<"agentGone", "workersGone", "agentHereGone", "hooksGone", "entryGone", "directoryGone">>
  \/ steps = <<"workersGone", "agentHereGone", "hooksGone", "entryGone", "directoryGone">>
  \/ steps = <<"agentHereGone", "hooksGone", "entryGone", "directoryGone">>
  \/ steps = <<"hooksGone", "entryGone", "directoryGone">> /\ ~x.agent
  \/ steps = <<"entryGone", "directoryGone">> /\ ~x.agent /\ x.hooks = {}
  \/ steps = <<"directoryGone">> /\ ~HasOurs(x)

\* An init works where something of ours may be left; an uninstall outside any project, or in one.
InitIsOn(steps, here, left) == steps \in Seq(InitNames) /\ (steps # <<>> => {here} \cap Projects \subseteq left)
UninstallIsOn(steps, here, files) ==
  \/ here \notin Projects /\ steps \in Seq(UninstallNames)
  \/ here \in Projects /\ RestOfUninstall(steps, files.project[here])

ServersStay(files, mine, lost) == \A p \in mine \ lost : "users" \in files.project[p].mcp.servers
OursIsLeft(files, left) == \A p \in Projects : HasOurs(files.project[p]) => p \in left

\* The users' servers are still there, and what is ours lies where an init has run since.
FilesTrue(w) ==
  /\ w \in FilesWork
  /\ InitIsOn(w.steps, w.here, w.left) \/ UninstallIsOn(w.steps, w.here, w.files)
  /\ ServersStay(w.files, w.mine, w.cut \cup w.givenUp)
  /\ OursIsLeft(w.files, w.left)

FilesInv == part = "files" => FilesTrue(work)

\* What an mcp.json can be.
LEMMA McpFileIs ==
  ASSUME NEW m \in McpFiles
  PROVE  /\ m = Mcp(m.state, m.servers, m.other)
         /\ m.servers \subseteq {"ours", "users"} /\ m.other \in BOOLEAN
         /\ m.state \in {"none", "broken", Absent, Malformed, "object"}
         /\ m.state # "object" => m.servers = {}
         /\ m.state \in {"none", "broken"} => m.other = FALSE
<1> DEFINE is(s, v, o) == /\ m = Mcp(s, v, o)
                          /\ v \subseteq {"ours", "users"} /\ o \in BOOLEAN
                          /\ s \in {"none", "broken", Absent, Malformed, "object"}
                          /\ s # "object" => v = {}
                          /\ s \in {"none", "broken"} => o = FALSE
<1>1. \E s, v, o : is(s, v, o)
  <2>1. CASE m = NoMcp
    <3>1. is("none", {}, FALSE) BY <2>1 DEF NoMcp
    <3> HIDE DEF is
    <3> QED BY Zenon, <3>1
  <2>2. CASE m = Broken
    <3>1. is("broken", {}, FALSE) BY <2>2 DEF Broken
    <3> HIDE DEF is
    <3> QED BY Zenon, <3>1
  <2>3. CASE \E s \in {Absent, Malformed}, o \in BOOLEAN : m = Mcp(s, {}, o)
    <3>1. PICK s \in {Absent, Malformed}, o \in BOOLEAN : m = Mcp(s, {}, o) BY <2>3
    <3>2. is(s, {}, o) BY <3>1 DEF Absent, Malformed
    <3> QED BY Zenon, <3>2
  <2>4. CASE \E v \in SUBSET {"ours", "users"}, o \in BOOLEAN : m = Mcp("object", v, o)
    <3>1. PICK v \in SUBSET {"ours", "users"}, o \in BOOLEAN : m = Mcp("object", v, o) BY <2>4
    <3>2. is("object", v, o) BY <3>1
    <3> QED BY Zenon, <3>2
  <2>5. \/ m = NoMcp \/ m = Broken
        \/ \E s \in {Absent, Malformed}, o \in BOOLEAN : m = Mcp(s, {}, o)
        \/ \E v \in SUBSET {"ours", "users"}, o \in BOOLEAN : m = Mcp("object", v, o)
    BY DEF McpFiles
  <2> QED BY Zenon, <2>1, <2>2, <2>3, <2>4, <2>5
<1>2. PICK s, v, o : is(s, v, o) BY Zenon, <1>1
<1> QED BY <1>2 DEF Mcp

LEMMA McpFileFrom ==
  /\ NoMcp \in McpFiles /\ Broken \in McpFiles
  /\ \A o \in BOOLEAN : Mcp(Absent, {}, o) \in McpFiles /\ Mcp(Malformed, {}, o) \in McpFiles
  /\ \A v \in SUBSET {"ours", "users"}, o \in BOOLEAN : Mcp("object", v, o) \in McpFiles
<1>1. NoMcp \in McpFiles /\ Broken \in McpFiles BY DEF McpFiles
<1>2. ASSUME NEW o \in BOOLEAN PROVE Mcp(Absent, {}, o) \in McpFiles /\ Mcp(Malformed, {}, o) \in McpFiles
  BY DEF McpFiles
<1>3. ASSUME NEW v \in SUBSET {"ours", "users"}, NEW o \in BOOLEAN PROVE Mcp("object", v, o) \in McpFiles
  BY DEF McpFiles
<1> QED BY <1>1, <1>2, <1>3

LEMMA WrittenMcp ==
  ASSUME NEW m \in McpFiles
  PROVE  WriteMcpConfig(m) \in McpFiles /\ m.servers \subseteq WriteMcpConfig(m).servers
<1>1. CASE m.state \in {"none", "broken"}
  <2>1. WriteMcpConfig(m) = Mcp("object", {"ours"}, FALSE) /\ m.servers = {}
    BY <1>1, McpFileIs DEF WriteMcpConfig
  <2> QED BY <2>1, McpFileFrom
<1>2. CASE m.state \notin {"none", "broken"}
  <2>1. WriteMcpConfig(m) = Mcp("object", m.servers \cup {"ours"}, m.other) BY <1>2 DEF WriteMcpConfig
  <2>2. m.servers \cup {"ours"} \in SUBSET {"ours", "users"} /\ m.other \in BOOLEAN BY McpFileIs
  <2> QED BY <2>1, <2>2, McpFileFrom DEF Mcp
<1> QED BY <1>1, <1>2

LEMMA RemovedMcp ==
  ASSUME NEW m \in McpFiles
  PROVE  RemoveMcpEntry(m) \in McpFiles /\ RemoveMcpEntry(m).servers = m.servers \ {"ours"}
<1> DEFINE servers == m.servers \ {"ours"}
           state == IF m.state = "object" /\ servers # {} THEN "object" ELSE Absent
<1>1. servers \in SUBSET {"ours", "users"} /\ m.other \in BOOLEAN BY McpFileIs
<1>2. state # "object" => servers = {} BY McpFileIs
<1>3. CASE m.state \in {"none", "broken"} \/ (state = Absent /\ ~m.other)
  <2>1. RemoveMcpEntry(m) = NoMcp BY <1>3 DEF RemoveMcpEntry
  <2>2. servers = {} BY <1>2, <1>3, McpFileIs DEF Absent
  <2> QED BY <2>1, <2>2, McpFileFrom DEF NoMcp, Mcp
<1>4. CASE ~(m.state \in {"none", "broken"} \/ (state = Absent /\ ~m.other))
  <2>1. RemoveMcpEntry(m) = Mcp(state, servers, m.other) BY <1>4 DEF RemoveMcpEntry
  <2>2. Mcp(state, servers, m.other) \in McpFiles BY <1>1, <1>2, McpFileFrom
  <2> QED BY <2>1, <2>2 DEF Mcp
<1> QED BY <1>3, <1>4

LEMMA StepsAreNames ==
  ASSUME NEW p
  PROVE  /\ InitSteps(p) \in Seq(InitNames)
         /\ p \notin Projects => UninstallSteps(p) \in Seq(UninstallNames)
         /\ p \in Projects => \A x : RestOfUninstall(UninstallSteps(p), x)
<1>1. /\ <<"layout", "delete", "seed", "write">> \in Seq(InitNames)
      /\ <<"deleteHere", "seedHere", "writeHere">> \in Seq(InitNames)
      /\ <<"workers">> \in Seq(InitNames) /\ <<"hooks", "mcp">> \in Seq(InitNames) /\ <<>> \in Seq(InitNames)
  BY DEF InitNames
<1>2. \A s, t \in Seq(InitNames) : s \o t \in Seq(InitNames) OBVIOUS
<1>3. InitSteps(p) \in Seq(InitNames) BY <1>1, <1>2 DEF InitSteps
<1>4. ASSUME p \notin Projects PROVE UninstallSteps(p) \in Seq(UninstallNames)
  <2>1. UninstallSteps(p) = <<"agentGone", "workersGone", "directoryGone">> BY <1>4 DEF UninstallSteps
  <2>2. <<"agentGone", "workersGone", "directoryGone">> \in Seq(UninstallNames) BY DEF UninstallNames
  <2> QED BY <2>1, <2>2
<1>5. ASSUME p \in Projects PROVE \A x : RestOfUninstall(UninstallSteps(p), x)
  <2>1. UninstallSteps(p) =
          <<"agentGone", "workersGone", "agentHereGone", "hooksGone", "entryGone", "directoryGone">>
    BY <1>5 DEF UninstallSteps
  <2> QED BY Zenon, <2>1 DEF RestOfUninstall
<1> QED BY <1>3, <1>4, <1>5

\* Files that differ from others in those of one project at most.
Edit(f, p, x) == [f EXCEPT !.project[p] = x]

LEMMA EditedFiles ==
  ASSUME NEW f \in FileSystems, NEW p, NEW x, p \in Projects => x \in ProjectFiles
  PROVE  LET g == Edit(f, p, x)
         IN /\ g \in FileSystems
            /\ p \notin Projects => g = f
            /\ p \in Projects => g.project[p] = x
            /\ \A q \in Projects : q # p => g.project[q] = f.project[q]
<1> DEFINE project == [f.project EXCEPT ![p] = x]
           g == Edit(f, p, x)
<1>1. g = [f EXCEPT !.project = project] BY DEF Edit
<1>2. f.project \in [Projects -> ProjectFiles] BY DEF FileSystems
<1>3. CASE p \notin Projects
  <2>1. project = f.project BY <1>2, <1>3
  <2>2. g = f BY <1>1, <2>1 DEF FileSystems
  <2> QED BY <1>3, <2>2
<1>4. CASE p \in Projects
  <2>1. /\ project \in [Projects -> ProjectFiles] /\ project[p] = x
        /\ \A q \in Projects : q # p => project[q] = f.project[q]
    BY <1>2, <1>4
  <2> HIDE DEF project
  <2>2. g \in FileSystems /\ g.project = project BY <1>1, <2>1 DEF FileSystems
  <2> QED BY <1>4, <2>1, <2>2
<1> QED BY <1>3, <1>4

\* Files that are the same in every project.
LEMMA SameProjects ==
  ASSUME NEW f \in FileSystems, NEW b \in BOOLEAN
  PROVE  /\ [f EXCEPT !.installed = b] \in FileSystems /\ [f EXCEPT !.installed = b].project = f.project
         /\ [f EXCEPT !.agent = b] \in FileSystems /\ [f EXCEPT !.agent = b].project = f.project
         /\ [f EXCEPT !.workers = b] \in FileSystems /\ [f EXCEPT !.workers = b].project = f.project
BY DEF FileSystems

LEMMA FilesOfAProject ==
  ASSUME NEW x \in ProjectFiles
  PROVE  x.agent \in BOOLEAN /\ x.hooks \subseteq HookFiles /\ x.mcp \in McpFiles
BY DEF ProjectFiles

LEMMA AgentOfAProject ==
  ASSUME NEW x \in ProjectFiles, NEW b \in BOOLEAN
  PROVE  /\ [x EXCEPT !.agent = b] \in ProjectFiles /\ [x EXCEPT !.agent = b].agent = b
         /\ [x EXCEPT !.agent = b].hooks = x.hooks /\ [x EXCEPT !.agent = b].mcp = x.mcp
BY FilesOfAProject DEF ProjectFiles

LEMMA HooksOfAProject ==
  ASSUME NEW x \in ProjectFiles, NEW h \in SUBSET HookFiles
  PROVE  /\ [x EXCEPT !.hooks = h] \in ProjectFiles /\ [x EXCEPT !.hooks = h].agent = x.agent
         /\ [x EXCEPT !.hooks = h].hooks = h /\ [x EXCEPT !.hooks = h].mcp = x.mcp
BY FilesOfAProject DEF ProjectFiles

LEMMA McpOfAProject ==
  ASSUME NEW x \in ProjectFiles, NEW m \in McpFiles
  PROVE  /\ [x EXCEPT !.mcp = m] \in ProjectFiles /\ [x EXCEPT !.mcp = m].agent = x.agent
         /\ [x EXCEPT !.mcp = m].hooks = x.hooks /\ [x EXCEPT !.mcp = m].mcp = m
BY FilesOfAProject DEF ProjectFiles

\* How files may change in one step: in the project p only, and without loss of the user's servers.
KeepsFiles(f, g, p) ==
  /\ g \in FileSystems
  /\ \A q \in Projects : q # p => g.project[q] = f.project[q]
  /\ p \in Projects /\ "users" \in f.project[p].mcp.servers => "users" \in g.project[p].mcp.servers

LEMMA EditKeeps ==
  ASSUME NEW f \in FileSystems, NEW p, NEW x, p \in Projects => x \in ProjectFiles,
         p \in Projects /\ "users" \in f.project[p].mcp.servers => "users" \in x.mcp.servers
  PROVE  KeepsFiles(f, Edit(f, p, x), p)
<1> DEFINE g == Edit(f, p, x)
<1>1. /\ g \in FileSystems
      /\ p \in Projects => g.project[p] = x
      /\ \A q \in Projects : q # p => g.project[q] = f.project[q]
  BY EditedFiles
<1> HIDE DEF g
<1>2. KeepsFiles(f, g, p) BY <1>1 DEF KeepsFiles
<1> QED BY <1>2 DEF g

LEMMA SameKeeps ==
  ASSUME NEW f \in FileSystems, NEW g \in FileSystems, NEW p, g.project = f.project
  PROVE  KeepsFiles(f, g, p)
BY DEF KeepsFiles

\* A step of init takes nothing of the user's away, and works on its own project only.
LEMMA InitStepKeeps ==
  ASSUME NEW f \in FileSystems, NEW p, NEW step \in InitNames, NEW seeds \in BOOLEAN
  PROVE  KeepsFiles(f, InitStep(f, p, step, seeds), p)
<1> DEFINE old == f.project[p]
           g == InitStep(f, p, step, seeds)
<1>1. p \in Projects => old \in ProjectFiles BY DEF FileSystems
<1>2. CASE step = "layout"
  <2>1. g = [f EXCEPT !.installed = TRUE] BY <1>2 DEF InitStep
  <2> QED BY <2>1, SameProjects, SameKeeps
<1>3. CASE step = "delete"
  <2>1. g = [f EXCEPT !.agent = FALSE] BY <1>3 DEF InitStep
  <2> QED BY <2>1, SameProjects, SameKeeps
<1>4. CASE step = "seed"
  <2>1. g = [f EXCEPT !.agent = seeds] BY <1>4 DEF InitStep
  <2> QED BY <2>1, SameProjects, SameKeeps
<1>5. CASE step = "write"
  <2>1. g = [f EXCEPT !.agent = TRUE] BY <1>5 DEF InitStep
  <2> QED BY <2>1, SameProjects, SameKeeps
<1>6. CASE step = "workers"
  <2>1. g = [f EXCEPT !.workers = TRUE] BY <1>6 DEF InitStep
  <2> QED BY <2>1, SameProjects, SameKeeps
<1>7. CASE step = "deleteHere"
  <2> DEFINE x == [old EXCEPT !.agent = FALSE]
  <2>1. g = Edit(f, p, x) BY <1>7 DEF InitStep, Edit
  <2>2. p \in Projects => x \in ProjectFiles /\ x.mcp = old.mcp BY Zenon, <1>1, AgentOfAProject
  <2> HIDE DEF x
  <2> QED BY <2>1, <2>2, EditKeeps
<1>8. CASE step = "seedHere"
  <2> DEFINE x == [old EXCEPT !.agent = seeds]
  <2>1. g = Edit(f, p, x) BY <1>8 DEF InitStep, Edit
  <2>2. p \in Projects => x \in ProjectFiles /\ x.mcp = old.mcp BY Zenon, <1>1, AgentOfAProject
  <2> HIDE DEF x
  <2> QED BY <2>1, <2>2, EditKeeps
<1>9. CASE step = "writeHere"
  <2> DEFINE x == [old EXCEPT !.agent = TRUE]
  <2>1. g = Edit(f, p, x) BY <1>9 DEF InitStep, Edit
  <2>2. p \in Projects => x \in ProjectFiles /\ x.mcp = old.mcp BY Zenon, <1>1, AgentOfAProject
  <2> HIDE DEF x
  <2> QED BY <2>1, <2>2, EditKeeps
<1>10. CASE step = "hooks"
  <2> DEFINE x == [old EXCEPT !.hooks = HookFiles]
  <2>1. g = Edit(f, p, x) BY <1>10 DEF InitStep, Edit
  <2>2. p \in Projects => x \in ProjectFiles /\ x.mcp = old.mcp BY <1>1, HooksOfAProject
  <2> HIDE DEF x
  <2> QED BY <2>1, <2>2, EditKeeps
<1>11. CASE step = "mcp"
  <2> DEFINE x == [old EXCEPT !.mcp = WriteMcpConfig(old.mcp)]
  <2>1. g = Edit(f, p, x) BY <1>11 DEF InitStep, Edit
  <2>2. p \in Projects => /\ WriteMcpConfig(old.mcp) \in McpFiles
                          /\ old.mcp.servers \subseteq WriteMcpConfig(old.mcp).servers
    BY <1>1, FilesOfAProject, WrittenMcp
  <2>3. p \in Projects => x \in ProjectFiles /\ x.mcp = WriteMcpConfig(old.mcp) BY <1>1, <2>2, McpOfAProject
  <2> HIDE DEF x
  <2>4. p \in Projects /\ "users" \in old.mcp.servers => "users" \in x.mcp.servers BY <2>2, <2>3
  <2> QED BY <2>1, <2>3, <2>4, EditKeeps
<1> QED BY <1>2, <1>3, <1>4, <1>5, <1>6, <1>7, <1>8, <1>9, <1>10, <1>11 DEF InitNames

\* What a write of mcp.json that is cut short leaves is no file of servers, and holds nothing of ours.
LEMMA TruncatedFiles ==
  ASSUME NEW f \in FileSystems, NEW p
  PROVE  /\ Truncated(f, p) \in FileSystems
         /\ \A q \in Projects : /\ q # p => Truncated(f, p).project[q] = f.project[q]
                                /\ HasOurs(Truncated(f, p).project[q]) => HasOurs(f.project[q])
<1> DEFINE x == [f.project[p] EXCEPT !.mcp = Broken]
<1>1. Truncated(f, p) = Edit(f, p, x) BY DEF Truncated, Edit
<1>2. p \in Projects => f.project[p] \in ProjectFiles BY DEF FileSystems
<1>3. p \in Projects => x \in ProjectFiles /\ x.mcp = Broken /\ x.agent = f.project[p].agent /\ x.hooks = f.project[p].hooks
  BY <1>2, McpOfAProject, McpFileFrom
<1> HIDE DEF x
<1>4. p \in Projects => (HasOurs(x) => HasOurs(f.project[p])) BY <1>3 DEF HasOurs, Broken, Mcp
<1> QED BY <1>1, <1>3, <1>4, EditedFiles

LEMMA InitCutShortKeeps ==
  ASSUME NEW f \in FileSystems, NEW p, NEW step \in InitNames, NEW g \in InitCutShort(f, p, step)
  PROVE  KeepsFiles(f, g, p) \/ (step = "mcp" /\ g = Truncated(f, p))
<1>1. CASE g = f BY <1>1, SameKeeps
<1>2. CASE g = InitStep(f, p, step, TRUE) BY <1>2, InitStepKeeps
<1>3. ASSUME step = "hooks", NEW some \in FirstHookFiles, g = [f EXCEPT !.project[p].hooks = @ \cup some]
      PROVE  KeepsFiles(f, g, p)
  <2> DEFINE x == [f.project[p] EXCEPT !.hooks = f.project[p].hooks \cup some]
  <2>1. g = Edit(f, p, x) BY <1>3 DEF Edit
  <2>2. p \in Projects => f.project[p] \in ProjectFiles BY DEF FileSystems
  <2>3. some \subseteq HookFiles BY DEF FirstHookFiles, HookFiles
  <2>4. p \in Projects => x \in ProjectFiles /\ x.mcp = f.project[p].mcp BY <2>2, <2>3, FilesOfAProject, HooksOfAProject
  <2> HIDE DEF x
  <2> QED BY <2>1, <2>4, EditKeeps
<1>4. \/ g = f \/ g = InitStep(f, p, step, TRUE)
      \/ step = "hooks" /\ \E some \in FirstHookFiles : g = [f EXCEPT !.project[p].hooks = @ \cup some]
      \/ step = "mcp" /\ g = Truncated(f, p)
  BY Zenon DEF InitCutShort
<1> QED BY <1>1, <1>2, <1>3, <1>4

\* What a step of uninstall makes of the files of its project x.
Removed(x, step) ==
  CASE step = "agentHereGone" -> [x EXCEPT !.agent = FALSE]
    [] step = "hooksGone" -> [x EXCEPT !.hooks = RemoveIdeHookFiles(x.hooks)]
    [] step = "entryGone" -> [x EXCEPT !.mcp = RemoveMcpEntry(x.mcp)]
    [] OTHER -> x

\* It takes away what it is for, and nothing of the user's.
LEMMA RemovedFiles ==
  ASSUME NEW x \in ProjectFiles, NEW step
  PROVE  LET y == Removed(x, step)
         IN /\ y \in ProjectFiles
            /\ "users" \in x.mcp.servers => "users" \in y.mcp.servers
            /\ HasOurs(y) => HasOurs(x)
            /\ ~x.agent => ~y.agent
            /\ x.hooks = {} => y.hooks = {}
            /\ step = "agentHereGone" => ~y.agent
            /\ step = "hooksGone" => y.hooks = {}
            /\ step = "entryGone" => "ours" \notin y.mcp.servers
<1> SUFFICES ASSUME NEW y, y = Removed(x, step)
             PROVE  /\ y \in ProjectFiles
                    /\ "users" \in x.mcp.servers => "users" \in y.mcp.servers
                    /\ HasOurs(y) => HasOurs(x)
                    /\ ~x.agent => ~y.agent
                    /\ x.hooks = {} => y.hooks = {}
                    /\ step = "agentHereGone" => ~y.agent
                    /\ step = "hooksGone" => y.hooks = {}
                    /\ step = "entryGone" => "ours" \notin y.mcp.servers
  OBVIOUS
<1>1. CASE step = "agentHereGone"
  <2>1. y = [x EXCEPT !.agent = FALSE] BY <1>1 DEF Removed
  <2>2. y \in ProjectFiles /\ y.agent = FALSE /\ y.hooks = x.hooks /\ y.mcp = x.mcp
    BY Zenon, <2>1, AgentOfAProject
  <2> QED BY <1>1, <2>2 DEF HasOurs
<1>2. CASE step = "hooksGone"
  <2>1. RemoveIdeHookFiles(x.hooks) = {} BY FilesOfAProject DEF RemoveIdeHookFiles
  <2>2. y = [x EXCEPT !.hooks = {}] BY <1>2, <2>1 DEF Removed
  <2>3. y \in ProjectFiles /\ y.agent = x.agent /\ y.hooks = {} /\ y.mcp = x.mcp BY <2>2, HooksOfAProject
  <2> QED BY <1>2, <2>3 DEF HasOurs
<1>3. CASE step = "entryGone"
  <2>1. y = [x EXCEPT !.mcp = RemoveMcpEntry(x.mcp)] BY <1>3 DEF Removed
  <2>2. RemoveMcpEntry(x.mcp) \in McpFiles /\ RemoveMcpEntry(x.mcp).servers = x.mcp.servers \ {"ours"}
    BY FilesOfAProject, RemovedMcp
  <2>3. /\ y \in ProjectFiles /\ y.agent = x.agent /\ y.hooks = x.hooks
        /\ y.mcp.servers = x.mcp.servers \ {"ours"}
    BY <2>1, <2>2, McpOfAProject
  <2> QED BY <1>3, <2>3 DEF HasOurs
<1>4. CASE step \notin {"agentHereGone", "hooksGone", "entryGone"}
  <2>1. y = x BY <1>4 DEF Removed
  <2> QED BY <1>4, <2>1
<1> QED BY <1>1, <1>2, <1>3, <1>4

LEMMA UninstallStepRemoves ==
  ASSUME NEW f \in FileSystems, NEW p, NEW step \in UninstallNames, NEW keepData \in BOOLEAN
  PROVE  LET g == UninstallStep(f, p, step, keepData)
         IN /\ KeepsFiles(f, g, p)
            /\ p \in Projects => g.project[p] = Removed(f.project[p], step)
<1> DEFINE old == f.project[p]
           g == UninstallStep(f, p, step, keepData)
<1>1. p \in Projects => old \in ProjectFiles BY DEF FileSystems
<1>2. CASE step \in {"agentGone", "workersGone", "directoryGone"}
  <2>1. g \in FileSystems /\ g.project = f.project
    <3>1. CASE step = "agentGone"
      <4>1. g = [f EXCEPT !.agent = FALSE] BY <3>1 DEF UninstallStep
      <4> QED BY <4>1, SameProjects
    <3>2. CASE step = "workersGone"
      <4>1. g = [f EXCEPT !.workers = FALSE] BY <3>2 DEF UninstallStep
      <4> QED BY <4>1, SameProjects
    <3>3. CASE step = "directoryGone"
      <4>1. g = [f EXCEPT !.installed = keepData] BY <3>3 DEF UninstallStep
      <4> HIDE DEF g
      <4> QED BY Zenon, <4>1, SameProjects
    <3> QED BY <1>2, <3>1, <3>2, <3>3
  <2>2. Removed(old, step) = old BY <1>2 DEF Removed
  <2> QED BY <2>1, <2>2, SameKeeps
<1>3. CASE step \in {"agentHereGone", "hooksGone", "entryGone"}
  <2>1. g = Edit(f, p, Removed(old, step))
    <3>1. CASE step = "agentHereGone" BY <3>1 DEF UninstallStep, Edit, Removed
    <3>2. CASE step = "hooksGone" BY <3>2 DEF UninstallStep, Edit, Removed
    <3>3. CASE step = "entryGone" BY <3>3 DEF UninstallStep, Edit, Removed
    <3> QED BY <1>3, <3>1, <3>2, <3>3
  <2>2. p \in Projects => /\ Removed(old, step) \in ProjectFiles
                          /\ "users" \in old.mcp.servers => "users" \in Removed(old, step).mcp.servers
    BY <1>1, RemovedFiles
  <2> QED BY <2>1, <2>2, EditedFiles, EditKeeps
<1> QED BY <1>2, <1>3 DEF UninstallNames

\* Step by step what is ours goes, and at the end it is gone.
LEMMA RestGoesOn ==
  ASSUME NEW steps, NEW x \in ProjectFiles, RestOfUninstall(steps, x)
  PROVE  LET y == Removed(x, Head(steps))
         IN /\ steps # <<>> /\ Head(steps) \in UninstallNames
            /\ Head(steps) = "directoryGone" => Tail(steps) = <<>> /\ ~HasOurs(y)
            /\ Head(steps) # "directoryGone" => RestOfUninstall(Tail(steps), y)
<1> SUFFICES ASSUME NEW y, y = Removed(x, Head(steps))
             PROVE  /\ steps # <<>> /\ Head(steps) \in UninstallNames
                    /\ Head(steps) = "directoryGone" => Tail(steps) = <<>> /\ ~HasOurs(y)
                    /\ Head(steps) # "directoryGone" => RestOfUninstall(Tail(steps), y)
  OBVIOUS
<1>1. /\ HasOurs(y) => HasOurs(x)
      /\ ~x.agent => ~y.agent
      /\ x.hooks = {} => y.hooks = {}
      /\ Head(steps) = "agentHereGone" => ~y.agent
      /\ Head(steps) = "hooksGone" => y.hooks = {}
      /\ Head(steps) = "entryGone" => "ours" \notin y.mcp.servers
  BY RemovedFiles
<1>2. CASE steps = <<"agentGone", "workersGone", "agentHereGone", "hooksGone", "entryGone", "directoryGone">>
  <2>1. /\ steps # <<>> /\ Head(steps) = "agentGone"
        /\ Tail(steps) = <<"workersGone", "agentHereGone", "hooksGone", "entryGone", "directoryGone">>
    BY <1>2
  <2> QED BY <2>1 DEF RestOfUninstall, UninstallNames
<1>3. CASE steps = <<"workersGone", "agentHereGone", "hooksGone", "entryGone", "directoryGone">>
  <2>1. /\ steps # <<>> /\ Head(steps) = "workersGone"
        /\ Tail(steps) = <<"agentHereGone", "hooksGone", "entryGone", "directoryGone">>
    BY <1>3
  <2> QED BY <2>1 DEF RestOfUninstall, UninstallNames
<1>4. CASE steps = <<"agentHereGone", "hooksGone", "entryGone", "directoryGone">>
  <2>1. /\ steps # <<>> /\ Head(steps) = "agentHereGone"
        /\ Tail(steps) = <<"hooksGone", "entryGone", "directoryGone">>
    BY <1>4
  <2> QED BY <1>1, <2>1 DEF RestOfUninstall, UninstallNames
<1>5. CASE steps = <<"hooksGone", "entryGone", "directoryGone">> /\ ~x.agent
  <2>1. /\ steps # <<>> /\ Head(steps) = "hooksGone" /\ Tail(steps) = <<"entryGone", "directoryGone">>
    BY <1>5
  <2> QED BY <1>1, <1>5, <2>1 DEF RestOfUninstall, UninstallNames
<1>6. CASE steps = <<"entryGone", "directoryGone">> /\ ~x.agent /\ x.hooks = {}
  <2>1. /\ steps # <<>> /\ Head(steps) = "entryGone" /\ Tail(steps) = <<"directoryGone">>
    BY <1>6
  <2>2. ~HasOurs(y) BY <1>1, <1>6, <2>1 DEF HasOurs
  <2> QED BY <2>1, <2>2 DEF RestOfUninstall, UninstallNames
<1>7. CASE steps = <<"directoryGone">> /\ ~HasOurs(x)
  <2>1. steps # <<>> /\ Head(steps) = "directoryGone" /\ Tail(steps) = <<>> BY <1>7
  <2> QED BY <1>1, <1>7, <2>1 DEF UninstallNames
<1> QED BY <1>2, <1>3, <1>4, <1>5, <1>6, <1>7 DEF RestOfUninstall

LEMMA UninstallCutShortKeeps ==
  ASSUME NEW f \in FileSystems, NEW p, NEW step \in UninstallNames, NEW g \in UninstallCutShort(f, p, step)
  PROVE  /\ KeepsFiles(f, g, p) \/ (step = "entryGone" /\ g = Truncated(f, p))
         /\ \A q \in Projects : HasOurs(g.project[q]) => HasOurs(f.project[q])
<1>1. CASE g = f BY <1>1, SameKeeps
<1>2. ASSUME NEW some \in FirstHookFiles, g = [f EXCEPT !.project[p].hooks = @ \ some]
      PROVE  KeepsFiles(f, g, p) /\ \A q \in Projects : HasOurs(g.project[q]) => HasOurs(f.project[q])
  <2> DEFINE x == [f.project[p] EXCEPT !.hooks = f.project[p].hooks \ some]
  <2>1. g = Edit(f, p, x) BY <1>2 DEF Edit
  <2>2. p \in Projects => f.project[p] \in ProjectFiles BY DEF FileSystems
  <2>3. p \in Projects => f.project[p].hooks \ some \in SUBSET HookFiles BY <2>2, FilesOfAProject
  <2>4. p \in Projects => /\ x \in ProjectFiles /\ x.mcp = f.project[p].mcp /\ x.agent = f.project[p].agent
                          /\ x.hooks \subseteq f.project[p].hooks
    BY <2>2, <2>3, HooksOfAProject
  <2> HIDE DEF x
  <2>5. p \in Projects => (HasOurs(x) => HasOurs(f.project[p])) BY <2>4 DEF HasOurs
  <2>6. KeepsFiles(f, g, p) BY <2>1, <2>4, EditKeeps
  <2>7. /\ p \in Projects => g.project[p] = x
        /\ \A q \in Projects : q # p => g.project[q] = f.project[q]
    BY <2>1, <2>4, EditedFiles
  <2> QED BY <2>5, <2>6, <2>7
<1>3. CASE step = "entryGone" /\ g = Truncated(f, p) BY <1>3, TruncatedFiles
<1>4. \/ g = f \/ \E some \in FirstHookFiles : g = [f EXCEPT !.project[p].hooks = @ \ some]
      \/ step = "entryGone" /\ g = Truncated(f, p)
  BY Zenon DEF UninstallCutShort
<1> QED BY <1>1, <1>2, <1>3, <1>4

LEMMA GivenUpFiles ==
  ASSUME NEW f \in FileSystems, NEW p, NEW step
  PROVE  LET g == McpGivenUp(f, p, step)
         IN /\ g \in FileSystems
            /\ \A q \in Projects : q # p => g.project[q] = f.project[q]
            /\ p \in Projects /\ step # "mcp" =>
                 /\ g.project[p].agent = f.project[p].agent /\ g.project[p].hooks = f.project[p].hooks
                 /\ g.project[p].mcp = NoMcp
<1> DEFINE m == IF step = "mcp" THEN WriteMcpConfig(NoMcp) ELSE NoMcp
           x == [f.project[p] EXCEPT !.mcp = m]
           g == McpGivenUp(f, p, step)
<1>1. g = Edit(f, p, x) BY DEF McpGivenUp, Edit
<1>2. m \in McpFiles BY McpFileFrom, WrittenMcp
<1>3. step # "mcp" => m = NoMcp OBVIOUS
<1>4. p \in Projects => f.project[p] \in ProjectFiles BY DEF FileSystems
<1> HIDE DEF m
<1>5. p \in Projects => /\ x \in ProjectFiles /\ x.mcp = m
                        /\ x.agent = f.project[p].agent /\ x.hooks = f.project[p].hooks
  BY <1>2, <1>4, McpOfAProject
<1> HIDE DEF x, g
<1>6. /\ g \in FileSystems
      /\ p \in Projects => g.project[p] = x
      /\ \A q \in Projects : q # p => g.project[q] = f.project[q]
  BY <1>1, <1>5, EditedFiles
<1>7. p \in Projects /\ step # "mcp" => /\ g.project[p].agent = f.project[p].agent
                                        /\ g.project[p].hooks = f.project[p].hooks /\ g.project[p].mcp = NoMcp
  BY <1>3, <1>5, <1>6
<1> QED BY <1>6, <1>7 DEF g

\* When only our entry and the directory are left of an uninstall, the rest of ours is gone.
LEMMA StepsBeforeTheEntry ==
  ASSUME NEW steps, NEW x, RestOfUninstall(steps, x), Head(steps) = "entryGone"
  PROVE  Tail(steps) = <<"directoryGone">> /\ ~x.agent /\ x.hooks = {}
<1>1. steps # <<"agentGone", "workersGone", "agentHereGone", "hooksGone", "entryGone", "directoryGone">>
  OBVIOUS
<1>2. steps # <<"workersGone", "agentHereGone", "hooksGone", "entryGone", "directoryGone">> OBVIOUS
<1>3. steps # <<"agentHereGone", "hooksGone", "entryGone", "directoryGone">> OBVIOUS
<1>4. steps # <<"hooksGone", "entryGone", "directoryGone">> OBVIOUS
<1>5. steps # <<"directoryGone">> OBVIOUS
<1>6. steps = <<"entryGone", "directoryGone">> /\ ~x.agent /\ x.hooks = {}
  BY Zenon, <1>1, <1>2, <1>3, <1>4, <1>5 DEF RestOfUninstall
<1>7. Tail(<<"entryGone", "directoryGone">>) = <<"directoryGone">> OBVIOUS
<1> QED BY <1>6, <1>7

\* Where the change of a step leaves the users' servers.
LEMMA KeptServers ==
  ASSUME NEW f, NEW g, NEW p, NEW mine \in SUBSET Projects, NEW lost, KeepsFiles(f, g, p), ServersStay(f, mine, lost)
  PROVE  ServersStay(g, mine, lost)
BY DEF KeepsFiles, ServersStay

LEMMA TailsOfSteps ==
  ASSUME NEW S, NEW steps \in Seq(S), steps # <<>>
  PROVE  Head(steps) \in S /\ Tail(steps) \in Seq(S)
OBVIOUS

\* Who has a step of init before it is an init; the other is an uninstall.
LEMMA WhoIsAtWork ==
  ASSUME NEW steps \in Seq(InitNames \cup UninstallNames), NEW here, NEW left, NEW files,
         files.project \in [Projects -> ProjectFiles], steps # <<>>,
         InitIsOn(steps, here, left) \/ UninstallIsOn(steps, here, files)
  PROVE  /\ Head(steps) \in InitNames =>
              InitIsOn(steps, here, left) /\ {here} \cap Projects \subseteq left
         /\ Head(steps) \in UninstallNames => UninstallIsOn(steps, here, files)
<1>1. \A n \in InitNames : n \notin UninstallNames BY DEF InitNames, UninstallNames
<1>2. InitIsOn(steps, here, left) => Head(steps) \in InitNames /\ {here} \cap Projects \subseteq left
  BY TailsOfSteps DEF InitIsOn
<1>3. UninstallIsOn(steps, here, files) => Head(steps) \in UninstallNames
  <2>1. CASE here \notin Projects BY <2>1, TailsOfSteps DEF UninstallIsOn
  <2>2. ASSUME here \in Projects, RestOfUninstall(steps, files.project[here])
        PROVE  Head(steps) \in UninstallNames
    BY <2>2, RestGoesOn
  <2> QED BY <2>1, <2>2 DEF UninstallIsOn
<1> QED BY <1>1, <1>2, <1>3

LEMMA FilesInvKept == FilesInv /\ [Next]_vars => FilesInv'
<1> SUFFICES ASSUME FilesTrue(work), [Next]_vars, part = "files" PROVE FilesTrue(work')
  BY EachPartBySteps DEF FilesInv
<1> DEFINE f == work.files
           p == work.here
           step == Head(work.steps)
           lost == work.cut \cup work.givenUp
<1>1. /\ work \in FilesWork /\ f \in FileSystems /\ f.project \in [Projects -> ProjectFiles]
      /\ work.steps \in Seq(InitNames \cup UninstallNames) /\ p \in Somewhere /\ work.stays \in BOOLEAN
      /\ work.mine \in SUBSET Projects /\ work.left \in SUBSET Projects
      /\ work.cut \in SUBSET Somewhere /\ work.givenUp \in SUBSET Somewhere
  BY DEF FilesTrue, FilesWork, FileSystems
<1>2. /\ InitIsOn(work.steps, p, work.left) \/ UninstallIsOn(work.steps, p, f)
      /\ ServersStay(f, work.mine, lost) /\ OursIsLeft(f, work.left)
  BY DEF FilesTrue
<1>3. ASSUME work.steps # <<>>
      PROVE  /\ step \in InitNames => InitIsOn(work.steps, p, work.left) /\ {p} \cap Projects \subseteq work.left
             /\ step \in UninstallNames => UninstallIsOn(work.steps, p, f)
             /\ step \in InitNames \cup UninstallNames
             /\ Tail(work.steps) \in Seq(InitNames \cup UninstallNames)
  BY <1>1, <1>2, <1>3, WhoIsAtWork, TailsOfSteps, Zenon
<1>4. \A left : InitIsOn(<<>>, p, left) /\ <<>> \in Seq(InitNames \cup UninstallNames) BY DEF InitIsOn
<1> HIDE DEF f, p, step, lost
<1>5. CASE UserWritesMcp
  <2>1. PICK q \in Projects, m \in McpFiles :
          /\ "ours" \notin m.servers
          /\ work' = [work EXCEPT !.files.project[q].mcp = m,
                                  !.mine = IF "users" \in m.servers THEN @ \cup {q} ELSE @ \ {q},
                                  !.cut = @ \ {q}, !.givenUp = @ \ {q}]
    BY <1>5 DEF UserWritesMcp, Become
  <2> DEFINE x == [f.project[q] EXCEPT !.mcp = m]
             g == Edit(f, q, x)
             mine == IF "users" \in m.servers THEN work.mine \cup {q} ELSE work.mine \ {q}
             cut == work.cut \ {q}
             givenUp == work.givenUp \ {q}
  <2>2. work' = [work EXCEPT !.files = g, !.mine = mine, !.cut = cut, !.givenUp = givenUp]
    BY <2>1 DEF Edit, f
  <2>3. x \in ProjectFiles /\ x.mcp = m /\ x.agent = f.project[q].agent /\ x.hooks = f.project[q].hooks
    BY <1>1, <2>1, McpOfAProject
  <2> HIDE DEF x
  <2>4. g \in FileSystems /\ g.project[q] = x /\ \A r \in Projects : r # q => g.project[r] = f.project[r]
    BY <1>1, <2>3, EditedFiles
  <2> HIDE DEF g
  <2>5. mine \in SUBSET Projects /\ cut \in SUBSET Somewhere /\ givenUp \in SUBSET Somewhere BY <1>1
  <2>6. ServersStay(g, mine, cut \cup givenUp)
    <3>1. ASSUME NEW r \in mine, r # q, r \notin cut \cup givenUp PROVE "users" \in g.project[r].mcp.servers
      <4>1. r \in work.mine /\ r \notin lost /\ r \in Projects BY <1>1, <3>1 DEF lost
      <4> QED BY <1>2, <2>4, <3>1, <4>1 DEF ServersStay
    <3>2. q \in mine => "users" \in m.servers OBVIOUS
    <3> HIDE DEF mine, cut, givenUp
    <3> QED BY <2>3, <2>4, <3>1, <3>2 DEF ServersStay
  <2>7. OursIsLeft(g, work.left) BY <1>2, <2>1, <2>3, <2>4 DEF OursIsLeft, HasOurs
  <2>8. work.steps = <<>> BY <1>5 DEF UserWritesMcp, Idle
  <2> HIDE DEF mine, cut, givenUp
  <2>9. /\ work' \in FilesWork /\ work'.files = g /\ work'.mine = mine /\ work'.left = work.left
        /\ work'.steps = work.steps /\ work'.here = p /\ work'.cut = cut /\ work'.givenUp = givenUp
    BY <1>1, <2>2, <2>4, <2>5 DEF FilesWork, p
  <2> QED BY <1>4, <2>6, <2>7, <2>8, <2>9 DEF FilesTrue
<1>6. CASE InitBegins
  <2>1. PICK q \in Somewhere :
          work' = [work EXCEPT !.steps = InitSteps(q), !.here = q, !.stays = work.files.installed,
                               !.left = @ \cup ({q} \cap Projects)]
    BY <1>6 DEF InitBegins, Become, Somewhere
  <2> DEFINE left == work.left \cup ({q} \cap Projects)
  <2>2. InitSteps(q) \in Seq(InitNames) /\ work.files.installed \in BOOLEAN
    BY <1>1, StepsAreNames DEF FileSystems, f
  <2>3. InitSteps(q) \in Seq(InitNames \cup UninstallNames)
    BY <2>2
  <2>4. InitIsOn(InitSteps(q), q, left) BY <2>2 DEF InitIsOn
  <2>5. left \in SUBSET Projects BY <1>1
  <2>6. OursIsLeft(f, left) BY <1>2 DEF OursIsLeft
  <2> HIDE DEF left
  <2>7. work' = [work EXCEPT !.steps = InitSteps(q), !.here = q, !.stays = work.files.installed, !.left = left]
    BY <2>1 DEF left
  <2>8. /\ work' \in FilesWork /\ work'.files = f /\ work'.mine = work.mine /\ work'.left = left
        /\ work'.steps = InitSteps(q) /\ work'.here = q /\ work'.cut = work.cut /\ work'.givenUp = work.givenUp
    BY <1>1, <2>2, <2>3, <2>5, <2>7 DEF FilesWork, f
  <2> QED BY <1>2, <2>4, <2>6, <2>8 DEF FilesTrue, lost
<1>7. CASE UninstallBegins
  <2>1. PICK q \in Somewhere, keepData \in BOOLEAN :
          work' = [work EXCEPT !.steps = UninstallSteps(q), !.here = q, !.stays = keepData]
    BY <1>7 DEF UninstallBegins, Become, Somewhere
  <2>2. UninstallIsOn(UninstallSteps(q), q, f) BY StepsAreNames DEF UninstallIsOn
  <2>3. UninstallSteps(q) \in Seq(InitNames \cup UninstallNames)
    <3>1. CASE q \notin Projects
      <4>1. UninstallSteps(q) \in Seq(UninstallNames) BY <3>1, StepsAreNames
      <4> QED BY <4>1
    <3>2. CASE q \in Projects
      <4>1. UninstallSteps(q) =
              <<"agentGone", "workersGone", "agentHereGone", "hooksGone", "entryGone", "directoryGone">>
        BY <3>2 DEF UninstallSteps
      <4>2. <<"agentGone", "workersGone", "agentHereGone", "hooksGone", "entryGone", "directoryGone">>
              \in Seq(InitNames \cup UninstallNames)
        BY DEF UninstallNames
      <4> QED BY <4>1, <4>2
    <3> QED BY <3>1, <3>2
  <2>4. /\ work' \in FilesWork /\ work'.files = f /\ work'.mine = work.mine /\ work'.left = work.left
        /\ work'.steps = UninstallSteps(q) /\ work'.here = q /\ work'.cut = work.cut /\ work'.givenUp = work.givenUp
    BY <1>1, <2>1, <2>3 DEF FilesWork, f
  <2> QED BY <1>2, <2>2, <2>4 DEF FilesTrue, lost
<1>8. CASE InitGoesOn
  <2>1. PICK seeds \in BOOLEAN :
          work' = [work EXCEPT !.files = InitStep(work.files, work.here, Head(work.steps), seeds),
                               !.steps = Tail(work.steps)]
    BY <1>8 DEF InitGoesOn, Become
  <2>2. work.steps # <<>> /\ step \in InitNames BY <1>8 DEF InitGoesOn, NextIn, step
  <2>3. /\ InitIsOn(work.steps, p, work.left) /\ {p} \cap Projects \subseteq work.left
        /\ Tail(work.steps) \in Seq(InitNames \cup UninstallNames)
    BY <1>3, <2>2
  <2> DEFINE g == InitStep(f, p, step, seeds)
  <2>4. KeepsFiles(f, g, p) BY <1>1, <2>2, InitStepKeeps
  <2> HIDE DEF g
  <2>5. ServersStay(g, work.mine, lost) BY <1>1, <1>2, <2>4, KeptServers
  <2>6. OursIsLeft(g, work.left)
    <3>1. p \in Projects => p \in work.left BY <2>3
    <3>2. \A q \in Projects : q # p => g.project[q] = f.project[q] BY Zenon, <2>4 DEF KeepsFiles
    <3> QED BY <1>2, <3>1, <3>2 DEF OursIsLeft
  <2>7. InitIsOn(Tail(work.steps), p, work.left) BY <2>2, <2>3, TailsOfSteps DEF InitIsOn
  <2>8. work' = [work EXCEPT !.files = g, !.steps = Tail(work.steps)] BY <2>1 DEF g, f, p, step
  <2>9. /\ work' \in FilesWork /\ work'.files = g /\ work'.mine = work.mine /\ work'.left = work.left
        /\ work'.steps = Tail(work.steps) /\ work'.here = p /\ work'.cut = work.cut /\ work'.givenUp = work.givenUp
    BY <1>1, <2>3, <2>4, <2>8 DEF FilesWork, KeepsFiles, p
  <2> QED BY <2>5, <2>6, <2>7, <2>9 DEF FilesTrue, lost
<1>9. CASE UninstallGoesOn
  <2>1. work' = [work EXCEPT !.files = UninstallStep(work.files, work.here, Head(work.steps), work.stays),
                             !.steps = Tail(work.steps),
                             !.left = IF Head(work.steps) = "directoryGone" THEN work.left \ {work.here} ELSE work.left]
    BY <1>9 DEF UninstallGoesOn, Become
  <2>2. work.steps # <<>> /\ step \in UninstallNames BY <1>9 DEF UninstallGoesOn, NextIn, step
  <2>3. UninstallIsOn(work.steps, p, f) /\ Tail(work.steps) \in Seq(InitNames \cup UninstallNames) BY <1>3, <2>2
  <2> DEFINE g == UninstallStep(f, p, step, work.stays)
             left == IF step = "directoryGone" THEN work.left \ {p} ELSE work.left
             rest == Tail(work.steps)
  <2>4. KeepsFiles(f, g, p) /\ (p \in Projects => g.project[p] = Removed(f.project[p], step))
    BY <1>1, <2>2, UninstallStepRemoves
  <2>5. work' = [work EXCEPT !.files = g, !.steps = rest, !.left = left] BY <2>1 DEF f, p, step
  <2>6. left \in SUBSET Projects BY <1>1
  <2> HIDE DEF g
  <2>7. ServersStay(g, work.mine, lost) BY <1>1, <1>2, <2>4, KeptServers
  <2>8. (InitIsOn(rest, p, left) \/ UninstallIsOn(rest, p, g)) /\ OursIsLeft(g, left)
    <3>1. CASE p \notin Projects
      <4>1. rest \in Seq(UninstallNames) BY <2>2, <2>3, <3>1, TailsOfSteps DEF UninstallIsOn
      <4>2. OursIsLeft(g, left) BY <1>2, <2>4, <3>1 DEF OursIsLeft, KeepsFiles
      <4> QED BY <3>1, <4>1, <4>2 DEF UninstallIsOn
    <3>2. CASE p \in Projects
      <4> DEFINE x == f.project[p]
                 y == Removed(x, step)
      <4>1. x \in ProjectFiles /\ RestOfUninstall(work.steps, x) BY <1>1, <2>3, <3>2 DEF UninstallIsOn
      <4>2. /\ step = "directoryGone" => rest = <<>> /\ ~HasOurs(y)
            /\ step # "directoryGone" => RestOfUninstall(rest, y)
        BY <4>1, RestGoesOn DEF step
      <4>3. HasOurs(y) => HasOurs(x) BY <4>1, RemovedFiles
      <4>4. g.project[p] = y /\ \A q \in Projects : q # p => g.project[q] = f.project[q]
        BY <2>4, <3>2 DEF KeepsFiles
      <4> HIDE DEF y, rest
      <4>5. CASE step = "directoryGone"
        <5>1. left = work.left \ {p} BY <4>5
        <5>2. OursIsLeft(g, left) BY <1>2, <4>2, <4>4, <4>5, <5>1 DEF OursIsLeft
        <5> QED BY <1>4, <4>2, <4>5, <5>2
      <4>6. CASE step # "directoryGone"
        <5>1. left = work.left BY <4>6
        <5>2. OursIsLeft(g, left) BY <1>2, <4>3, <4>4, <5>1 DEF OursIsLeft
        <5>3. UninstallIsOn(rest, p, g) BY <3>2, <4>2, <4>4, <4>6 DEF UninstallIsOn
        <5> QED BY <5>2, <5>3
      <4> QED BY <4>5, <4>6
    <3> QED BY <3>1, <3>2
  <2> HIDE DEF left
  <2>9. /\ work' \in FilesWork /\ work'.files = g /\ work'.mine = work.mine /\ work'.left = left
        /\ work'.steps = rest /\ work'.here = p /\ work'.cut = work.cut /\ work'.givenUp = work.givenUp
    BY <1>1, <2>3, <2>4, <2>5, <2>6 DEF FilesWork, KeepsFiles, p
  <2> QED BY <2>7, <2>8, <2>9 DEF FilesTrue, lost
<1>10. CASE McpFails
  <2>1. work' = [work EXCEPT !.files = McpGivenUp(work.files, work.here, Head(work.steps)),
                             !.steps = Tail(work.steps), !.givenUp = work.givenUp \cup {work.here}]
    BY <1>10 DEF McpFails, Become
  <2>2. work.steps # <<>> /\ step \in {"mcp", "entryGone"} BY <1>10 DEF McpFails, NextIn, step
  <2> DEFINE g == McpGivenUp(f, p, step)
             givenUp == work.givenUp \cup {p}
             rest == Tail(work.steps)
  <2>3. /\ g \in FileSystems
        /\ \A q \in Projects : q # p => g.project[q] = f.project[q]
        /\ p \in Projects /\ step # "mcp" => /\ g.project[p].agent = f.project[p].agent
                                             /\ g.project[p].hooks = f.project[p].hooks
                                             /\ g.project[p].mcp = NoMcp
    BY <1>1, GivenUpFiles
  <2>4. work' = [work EXCEPT !.files = g, !.steps = rest, !.givenUp = givenUp] BY <2>1 DEF f, p, step
  <2> HIDE DEF g
  <2>5. ServersStay(g, work.mine, work.cut \cup givenUp)
    <3>1. \A q : q \in work.mine \ (work.cut \cup givenUp) => q \in work.mine \ lost /\ q # p /\ q \in Projects
      BY <1>1 DEF lost
    <3> HIDE DEF givenUp
    <3> QED BY <1>2, <2>3, <3>1 DEF ServersStay
  <2>6. givenUp \in SUBSET Somewhere BY <1>1
  <2>7. (InitIsOn(rest, p, work.left) \/ UninstallIsOn(rest, p, g)) /\ OursIsLeft(g, work.left)
    <3>1. CASE step = "mcp"
      <4>1. step \in InitNames BY <3>1 DEF InitNames
      <4>2. InitIsOn(work.steps, p, work.left) /\ {p} \cap Projects \subseteq work.left BY <1>3, <2>2, <4>1
      <4>3. InitIsOn(rest, p, work.left) BY <2>2, <4>2, TailsOfSteps DEF InitIsOn
      <4>4. p \in Projects => p \in work.left BY <4>2
      <4>5. OursIsLeft(g, work.left) BY <1>2, <2>3, <4>4 DEF OursIsLeft
      <4> QED BY <4>3, <4>5
    <3>2. CASE step = "entryGone" /\ p \notin Projects
      <4>1. UninstallIsOn(work.steps, p, f) BY <1>3, <2>2, <3>2 DEF UninstallNames
      <4>2. rest \in Seq(UninstallNames) BY <2>2, <3>2, <4>1, TailsOfSteps DEF UninstallIsOn
      <4>3. OursIsLeft(g, work.left) BY <1>2, <2>3, <3>2 DEF OursIsLeft
      <4> QED BY <3>2, <4>2, <4>3 DEF UninstallIsOn
    <3>3. CASE step = "entryGone" /\ p \in Projects
      <4> DEFINE x == f.project[p]
                 y == g.project[p]
      <4>1. UninstallIsOn(work.steps, p, f) BY <1>3, <2>2, <3>3 DEF UninstallNames
      <4>2. RestOfUninstall(work.steps, x) BY <3>3, <4>1 DEF UninstallIsOn
      <4>3. y.agent = x.agent /\ y.hooks = x.hooks /\ "ours" \notin y.mcp.servers
        BY <2>3, <3>3 DEF NoMcp, Mcp
      <4>4. rest = <<"directoryGone">> /\ ~x.agent /\ x.hooks = {}
        BY <3>3, <4>2, StepsBeforeTheEntry DEF step
      <4>5. ~HasOurs(y) BY <4>3, <4>4 DEF HasOurs
      <4>6. UninstallIsOn(rest, p, g) BY <3>3, <4>4, <4>5 DEF UninstallIsOn, RestOfUninstall
      <4>7. OursIsLeft(g, work.left) BY <1>2, <2>3, <4>5 DEF OursIsLeft
      <4> QED BY <4>6, <4>7
    <3> QED BY <2>2, <3>1, <3>2, <3>3
  <2>8. rest \in Seq(InitNames \cup UninstallNames) BY <1>3, <2>2
  <2> HIDE DEF givenUp, rest
  <2>9. /\ work' \in FilesWork /\ work'.files = g /\ work'.mine = work.mine /\ work'.left = work.left
        /\ work'.steps = rest /\ work'.here = p /\ work'.cut = work.cut /\ work'.givenUp = givenUp
    BY <1>1, <2>3, <2>4, <2>6, <2>8 DEF FilesWork, p
  <2> QED BY <2>5, <2>7, <2>9 DEF FilesTrue
<1>11. CASE InitBreaks
  <2>1. PICK killed \in BOOLEAN, after \in InitCutShort(f, p, step) :
          work' = [work EXCEPT !.files = IF killed THEN after ELSE InitThrows(after, work.stays),
                               !.steps = <<>>,
                               !.cut = work.cut \cup (IF Head(work.steps) = "mcp" THEN CutHere(after) ELSE {})]
    BY <1>11 DEF InitBreaks, Become, f, p, step
  <2>2. work.steps # <<>> /\ step \in InitNames BY <1>11 DEF InitBreaks, NextIn, step
  <2> DEFINE g == IF killed THEN after ELSE InitThrows(after, work.stays)
             cut == work.cut \cup (IF step = "mcp" THEN CutHere(after) ELSE {})
  <2>3. {p} \cap Projects \subseteq work.left BY <1>3, <2>2
  <2>4. KeepsFiles(f, after, p) \/ (step = "mcp" /\ after = Truncated(f, p)) BY <1>1, <2>2, InitCutShortKeeps
  <2>5. after \in FileSystems /\ \A q \in Projects : q # p => after.project[q] = f.project[q]
    BY <1>1, <2>4, TruncatedFiles DEF KeepsFiles
  <2>6. g \in FileSystems /\ g.project = after.project BY <1>1, <2>5, SameProjects DEF InitThrows
  <2>7. cut \in SUBSET Somewhere BY <1>1 DEF CutHere, p
  <2>8. work' = [work EXCEPT !.files = g, !.steps = <<>>, !.cut = cut] BY <2>1 DEF step
  <2>9. ServersStay(g, work.mine, cut \cup work.givenUp)
    <3>1. CASE KeepsFiles(f, after, p)
      <4>1. ServersStay(after, work.mine, lost) BY <1>1, <1>2, <3>1, KeptServers
      <4> QED BY <2>6, <4>1 DEF ServersStay, lost
    <3>2. CASE step = "mcp" /\ after = Truncated(f, p)
      <4>1. cut = work.cut \cup {p} BY <3>2 DEF CutHere, f, p
      <4>2. \A q : q \in work.mine \ (cut \cup work.givenUp) => q \in work.mine \ lost /\ q # p /\ q \in Projects
        BY <1>1, <4>1 DEF lost
      <4> HIDE DEF cut, g
      <4> QED BY <1>2, <2>5, <2>6, <4>2 DEF ServersStay
    <3> QED BY <2>4, <3>1, <3>2
  <2> HIDE DEF g, cut
  <2>10. \A q \in Projects : q # p => g.project[q] = f.project[q] BY <2>5, <2>6
  <2>11. OursIsLeft(g, work.left)
    <3>1. p \in Projects => p \in work.left BY <2>3
    <3> QED BY <1>2, <2>10, <3>1 DEF OursIsLeft
  <2>12. /\ work' \in FilesWork /\ work'.files = g /\ work'.mine = work.mine /\ work'.left = work.left
         /\ work'.steps = <<>> /\ work'.here = p /\ work'.cut = cut /\ work'.givenUp = work.givenUp
    BY <1>1, <1>4, <2>6, <2>7, <2>8 DEF FilesWork, p
  <2> QED BY <1>4, <2>9, <2>11, <2>12 DEF FilesTrue
<1>12. CASE UninstallBreaks
  <2>1. PICK after \in UninstallCutShort(f, p, step) :
          work' = [work EXCEPT !.files = after, !.steps = <<>>,
                               !.cut = work.cut \cup (IF Head(work.steps) = "entryGone" THEN CutHere(after) ELSE {})]
    BY <1>12 DEF UninstallBreaks, Become, f, p, step
  <2>2. work.steps # <<>> /\ step \in UninstallNames BY <1>12 DEF UninstallBreaks, NextIn, step
  <2> DEFINE cut == work.cut \cup (IF step = "entryGone" THEN CutHere(after) ELSE {})
  <2>3. /\ KeepsFiles(f, after, p) \/ (step = "entryGone" /\ after = Truncated(f, p))
        /\ \A q \in Projects : HasOurs(after.project[q]) => HasOurs(f.project[q])
    BY <1>1, <2>2, UninstallCutShortKeeps
  <2>4. after \in FileSystems /\ \A q \in Projects : q # p => after.project[q] = f.project[q]
    BY <1>1, <2>3, TruncatedFiles DEF KeepsFiles
  <2>5. cut \in SUBSET Somewhere BY <1>1 DEF CutHere, p
  <2>6. work' = [work EXCEPT !.files = after, !.steps = <<>>, !.cut = cut] BY <2>1 DEF step
  <2>7. ServersStay(after, work.mine, cut \cup work.givenUp)
    <3>1. CASE KeepsFiles(f, after, p)
      <4>1. ServersStay(after, work.mine, lost) BY <1>1, <1>2, <3>1, KeptServers
      <4> QED BY <4>1 DEF ServersStay, lost
    <3>2. CASE step = "entryGone" /\ after = Truncated(f, p)
      <4>1. cut = work.cut \cup {p} BY <3>2 DEF CutHere, f, p
      <4>2. \A q : q \in work.mine \ (cut \cup work.givenUp) => q \in work.mine \ lost /\ q # p /\ q \in Projects
        BY <1>1, <4>1 DEF lost
      <4> HIDE DEF cut
      <4> QED BY <1>2, <2>4, <4>2 DEF ServersStay
    <3> QED BY <2>3, <3>1, <3>2
  <2> HIDE DEF cut
  <2>8. OursIsLeft(after, work.left) BY <1>2, <2>3 DEF OursIsLeft
  <2>9. /\ work' \in FilesWork /\ work'.files = after /\ work'.mine = work.mine /\ work'.left = work.left
        /\ work'.steps = <<>> /\ work'.here = p /\ work'.cut = cut /\ work'.givenUp = work.givenUp
    BY <1>1, <1>4, <2>4, <2>5, <2>6 DEF FilesWork, p
  <2> QED BY <1>4, <2>7, <2>8, <2>9 DEF FilesTrue
<1>13. CASE work' = work BY <1>13
<1> QED BY <1>5, <1>6, <1>7, <1>8, <1>9, <1>10, <1>11, <1>12, <1>13, EachPartBySteps DEF FilesStep

LEMMA FilesInvAtFirst == Init => FilesInv
<1> SUFFICES ASSUME Init, part = "files" PROVE FilesTrue(work) BY DEF FilesInv
<1>1. work = [files |-> Clean, steps |-> <<>>, here |-> "nowhere", stays |-> FALSE,
              mine |-> {}, left |-> {}, cut |-> {}, givenUp |-> {}]
  BY Zenon DEF Init, GivenABody, GivenRankings, GivenCandidates, GivenTexts,
        GivenHome, GivenFiles, GivenDatabase, GivenReader, GivenViewer
<1>2. Clean \in FileSystems BY McpFileFrom DEF Clean, FileSystems, ProjectFiles
<1>3. work \in FilesWork BY <1>1, <1>2 DEF FilesWork, Somewhere
<1>4. \A p \in Projects : ~HasOurs(Clean.project[p]) BY DEF Clean, HasOurs, NoMcp, Mcp
<1>5. InitIsOn(<<>>, "nowhere", {}) BY DEF InitIsOn
<1> QED BY <1>1, <1>3, <1>4, <1>5 DEF FilesTrue, ServersStay, OursIsLeft

LEMMA FilesInvGives == FilesInv => UsersServersStay /\ LeftoversAreElsewhere
BY DEF FilesInv, FilesTrue, ServersStay, OursIsLeft, UsersServersStay, LeftoversAreElsewhere

(*----------------------------------------------------------------------------*)
(* Rows and pages                                                             *)
(*----------------------------------------------------------------------------*)

-----------------------------------------------------------------------------
\* What the listings rely on: rows of their type, no two with the same id.
RowsTrue(rows) ==
  /\ IsFiniteSet(rows) /\ rows \subseteq RecordRows
  /\ \A r, s \in rows : r.id = s.id => r = s

NewerOrder(rows) == {p \in rows \X rows : p[1].id > p[2].id}
Newer(rows, r) == Cardinality({s \in rows : s.id > r.id})

LEMMA RecordIds == \A r \in RecordRows : r.id \in Nat
BY TablesAssumption

LEMMA NewestFirstLists ==
  ASSUME NEW rows, RowsTrue(rows)
  PROVE  /\ Lists(NewestFirst(rows), rows, NewerOrder(rows))
         /\ \A r \in rows : PlaceIn(rows, NewerOrder(rows), r) = Newer(rows, r) + 1
<1>1. \A r \in rows : r.id \in Nat BY RecordIds DEF RowsTrue
<1>2. TotallyOrders(NewerOrder(rows), rows) BY <1>1 DEF TotallyOrders, NewerOrder, RowsTrue
<1>3. Lists(NewestFirst(rows), rows, NewerOrder(rows))
  BY <1>2, OrderedLists DEF RowsTrue, NewestFirst, NewerOrder
<1>4. ASSUME NEW r \in rows PROVE Before(rows, NewerOrder(rows), r) = {s \in rows : s.id > r.id}
  BY DEF Before, NewerOrder
<1>5. \A r \in rows : PlaceIn(rows, NewerOrder(rows), r) = Newer(rows, r) + 1 BY <1>4 DEF PlaceIn, Newer
<1> QED BY <1>3, <1>5

LEMMA NewerIsCount ==
  ASSUME NEW rows, RowsTrue(rows), NEW r \in rows
  PROVE  Newer(rows, r) \in Nat /\ Newer(rows, r) < Cardinality(rows) /\ Cardinality(rows) \in Nat
<1>1. PlaceIn(rows, NewerOrder(rows), r) \in 1..Cardinality(rows) /\ Cardinality(rows) \in Nat
  BY NewestFirstLists DEF Lists
<1>2. IsFiniteSet({s \in rows : s.id > r.id}) BY FS_Subset DEF RowsTrue
<1>3. Newer(rows, r) \in Nat BY <1>2, FS_CardinalityType DEF Newer
<1> QED BY <1>1, <1>3, NewestFirstLists

\* A page holds exactly the rows whose places it covers.
LEMMA PageHolds ==
  ASSUME NEW rows, RowsTrue(rows), NEW limit \in Nat, NEW offset \in Nat
  PROVE  /\ Page(rows, limit, offset) \in Seq(rows)
         /\ \A r \in rows : offset <= Newer(rows, r) /\ Newer(rows, r) < offset + limit
                              => r \in ToSet(Page(rows, limit, offset))
<1> DEFINE sorted == NewestFirst(rows)
           n == Cardinality(rows)
           last == Min({offset + limit, Len(sorted)})
<1>1. Lists(sorted, rows, NewerOrder(rows)) BY NewestFirstLists
<1>2. sorted \in Seq(rows) /\ Len(sorted) = n /\ n \in Nat BY <1>1, ListHolds DEF Lists
<1>3. last = IF offset + limit <= n THEN offset + limit ELSE n
  <2> HIDE DEF sorted, n
  <2> QED BY <1>2 DEF Min
<1>4. Page(rows, limit, offset) = SubSeq(sorted, offset + 1, last) BY DEF Page
<1> HIDE DEF sorted, last, n
<1>5. last \in Nat /\ last <= Len(sorted) /\ last <= offset + limit BY <1>2, <1>3
<1>6. /\ Page(rows, limit, offset) \in Seq(rows)
      /\ Len(Page(rows, limit, offset)) = IF offset + 1 <= last THEN last - offset ELSE 0
      /\ \A i \in 1..last - offset : Page(rows, limit, offset)[i] = sorted[offset + i]
  BY <1>2, <1>4, <1>5, SMTT(60)
<1>7. ASSUME NEW r \in rows, offset <= Newer(rows, r), Newer(rows, r) < offset + limit
      PROVE  r \in ToSet(Page(rows, limit, offset))
  <2> DEFINE k == Newer(rows, r) + 1
  <2>1. Newer(rows, r) \in Nat /\ k <= n BY NewerIsCount DEF n
  <2>2. sorted[k] = r BY <1>1, NewestFirstLists DEF Lists
  <2>3. k <= last /\ k - offset \in 1..last - offset BY <1>2, <1>3, <1>5, <1>7, <2>1
  <2>4. Page(rows, limit, offset)[k - offset] = r
    <3>1. offset + (k - offset) = k BY <2>1
    <3> QED BY <1>6, <2>2, <2>3, <3>1
  <2>5. DOMAIN Page(rows, limit, offset) = 1..last - offset
    <3>1. offset + 1 <= last BY <1>5, <2>3
    <3> QED BY <1>5, <1>6, <3>1
  <2> QED BY <2>3, <2>4, <2>5 DEF ToSet
<1> QED BY <1>6, <1>7

\* What a record of the promise has to wait for: it is seen once the offset has passed its place.
Seen(w) == \A r \in w.promised : Newer(w.db.records, r) < w.offset => r \in w.seen

PagesTrue(w) ==
  /\ w = [db |-> w.db, made |-> w.made, at |-> w.at, limit |-> w.limit, offset |-> w.offset,
          seen |-> w.seen, promised |-> w.promised, merged |-> w.merged]
  /\ w.made \in Nat /\ w.limit \in 1..ListLimit + 1 /\ w.offset \in Nat
  /\ w.at \in {"waits", "reads", "done"} /\ w.merged \in BOOLEAN
  /\ w.db = [events |-> w.db.events, records |-> w.db.records]
  /\ RowsTrue(w.db.records) /\ \A r \in w.db.records : r.id <= w.made
  /\ w.at = "waits" => w.offset = 0
  /\ w.at # "waits" /\ ~w.merged => w.promised \subseteq w.db.records /\ Seen(w)
  /\ w.at = "done" => Cardinality(w.db.records) <= w.offset

PagesInv == part = "pages" => PagesTrue(work)

\* How the table of records changes when a run stores one.
LEMMA StoredRecord ==
  ASSUME NEW db, NEW made \in Nat, RowsTrue(db.records), \A r \in db.records : r.id <= made,
         db = [events |-> db.events, records |-> db.records],
         NEW next \in StoresRecord(db, made)
  PROVE  /\ next = [events |-> db.events, records |-> next.records]
         /\ RowsTrue(next.records)
         /\ \A r \in next.records : r.id <= made + 1
         /\ \E r \in RecordRows : r.id = made + 1 /\ next.records \subseteq db.records \cup {r}
<1>1. PICK r \in RecordRows, merged \in SUBSET db.records :
        r.id = made + 1 /\ next = [db EXCEPT !.records = (db.records \ merged) \cup {r}]
  BY DEF StoresRecord, InScope
<1> DEFINE rows == (db.records \ merged) \cup {r}
<1>2. next = [events |-> db.events, records |-> rows] BY <1>1
<1>3. IsFiniteSet(rows) BY FS_Difference, FS_AddElement DEF RowsTrue
<1>4. \A x \in db.records : x.id \in Nat BY RecordIds DEF RowsTrue
<1>5. RowsTrue(rows)
  <2>1. rows \subseteq RecordRows BY <1>1 DEF RowsTrue
  <2>2. \A x, y \in rows : x.id = y.id => x = y BY <1>1, <1>4 DEF RowsTrue
  <2> QED BY <1>3, <2>1, <2>2 DEF RowsTrue
<1>6. \A x \in rows : x.id <= made + 1 BY <1>1, <1>4
<1>7. rows \subseteq db.records \cup {r} OBVIOUS
<1> HIDE DEF rows
<1>8. next.records = rows /\ next.events = db.events BY <1>2
<1> QED BY <1>1, <1>2, <1>5, <1>6, <1>7, <1>8

LEMMA MinMaxOfTwo ==
  \A x, y \in Int : /\ Min({x, y}) = IF x <= y THEN x ELSE y
                   /\ Max({x, y}) = IF x >= y THEN x ELSE y
BY DEF Min, Max

\* What a listing of memories returns, whoever asks.
LEMMA ListingOfMemories ==
  ASSUME NEW db, RowsTrue(db.records), NEW raw \in Int, NEW offset, offset \in Nat \/ offset = Missing
  PROVE  LET answer == GetMemories(db, AllProjects, raw, offset, ListLimit)
             from == IF offset = Missing THEN 0 ELSE offset
         IN /\ answer.limit \in Nat \ {0} /\ answer.total = Cardinality(db.records)
            /\ answer.items = Page(db.records, answer.limit, from)
<1> DEFINE limit == Clamped(raw, Min({100, ListLimit}), 1, ListLimit)
           from == IF offset = Missing THEN 0 ELSE Max({0, offset})
           list == ListMemoryRecords(db, AllProjects, limit, from)
           answer == GetMemories(db, AllProjects, raw, offset, ListLimit)
<1>1. NotInteger \notin Int /\ Missing \notin Int /\ Missing # NotInteger /\ ListLimit \in Nat \ {0}
  BY TablesAssumption
<1>2. NotInteger \notin {raw, offset} BY <1>1
<1>3. InScope(db.records, AllProjects) = db.records BY DEF InScope
<1>4. answer = [status |-> 200, items |-> list.items, total |-> list.total, limit |-> limit, offset |-> from]
  BY <1>2 DEF GetMemories
<1>5. list = [items |-> Page(db.records, limit, from), total |-> Cardinality(db.records)]
  BY <1>3 DEF ListMemoryRecords
<1>6. limit \in Nat \ {0}
  <2>1. limit = Max({1, Min({ListLimit, raw})}) BY <1>1 DEF Clamped
  <2> DEFINE least == Min({ListLimit, raw})
  <2>2. least \in Int BY <1>1, MinMaxOfTwo
  <2> HIDE DEF least
  <2>3. Max({1, least}) = IF 1 >= least THEN 1 ELSE least BY <2>2, MinMaxOfTwo
  <2> QED BY <2>1, <2>2, <2>3 DEF least
<1>7. from = IF offset = Missing THEN 0 ELSE offset
  <2>1. CASE offset = Missing BY <2>1
  <2>2. CASE offset # Missing
    <3>1. Max({0, offset}) = offset BY <2>2, MinMaxOfTwo
    <3> QED BY <2>2, <3>1
  <2> QED BY <2>1, <2>2
<1> HIDE DEF limit, from, list, answer
<1> QED BY <1>4, <1>5, <1>6, <1>7 DEF answer

LEMMA PagesInvKept == PagesInv /\ [Next]_vars => PagesInv'
<1> SUFFICES ASSUME PagesTrue(work), [Next]_vars, part = "pages" PROVE PagesTrue(work')
  BY EachPartBySteps DEF PagesInv
<1>1. /\ work = [db |-> work.db, made |-> work.made, at |-> work.at, limit |-> work.limit, offset |-> work.offset,
                 seen |-> work.seen, promised |-> work.promised, merged |-> work.merged]
      /\ work.made \in Nat /\ work.limit \in 1..ListLimit + 1 /\ work.offset \in Nat
      /\ work.at \in {"waits", "reads", "done"} /\ work.merged \in BOOLEAN
      /\ work.db = [events |-> work.db.events, records |-> work.db.records]
      /\ RowsTrue(work.db.records) /\ \A r \in work.db.records : r.id <= work.made
  BY Zenon DEF PagesTrue
<1>2. ListLimit \in Nat BY TablesAssumption
<1>3. CASE TableGrows
  <2>1. PICK db \in StoresRecord(work.db, work.made) :
          work' = [work EXCEPT !.db = db, !.made = @ + 1,
                               !.merged = @ \/ ~(work.db.records \subseteq db.records)]
    BY <1>3 DEF TableGrows, Become
  <2>2. work.at # "done" BY <1>3 DEF TableGrows
  <2>3. /\ db = [events |-> db.events, records |-> db.records]
        /\ RowsTrue(db.records) /\ \A r \in db.records : r.id <= work.made + 1
        /\ \E r \in RecordRows : r.id = work.made + 1 /\ db.records \subseteq work.db.records \cup {r}
    BY <1>1, StoredRecord
  <2> DEFINE merged == work.merged \/ ~(work.db.records \subseteq db.records)
  <2>4. work' = [db |-> db, made |-> work.made + 1, at |-> work.at, limit |-> work.limit, offset |-> work.offset,
                 seen |-> work.seen, promised |-> work.promised, merged |-> merged]
    BY <1>1, <2>1
  <2>5. ASSUME work.at # "waits", ~merged
        PROVE  work.promised \subseteq db.records
               /\ \A r \in work.promised : Newer(db.records, r) < work.offset => r \in work.seen
    <3>1. work.promised \subseteq work.db.records /\ Seen(work) /\ work.db.records \subseteq db.records
      BY <2>5 DEF PagesTrue
    <3>2. ASSUME NEW r \in work.promised, Newer(db.records, r) < work.offset PROVE r \in work.seen
      <4>1. Newer(work.db.records, r) \in Nat /\ Newer(db.records, r) \in Nat BY <1>1, <2>3, <3>1, NewerIsCount
      <4>2. IsFiniteSet({s \in db.records : s.id > r.id}) BY <2>3, FS_Subset DEF RowsTrue
      <4>3. {s \in work.db.records : s.id > r.id} \subseteq {s \in db.records : s.id > r.id} BY <3>1
      <4>4. Newer(work.db.records, r) <= Newer(db.records, r) BY <4>2, <4>3, FS_Subset DEF Newer
      <4> QED BY <1>1, <3>1, <3>2, <4>1, <4>4 DEF Seen
    <3> QED BY <3>1, <3>2
  <2>6. merged \in BOOLEAN BY <1>1
  <2> HIDE DEF merged
  <2>7. /\ work'.db = db /\ work'.made = work.made + 1 /\ work'.at = work.at /\ work'.limit = work.limit
        /\ work'.offset = work.offset /\ work'.seen = work.seen /\ work'.promised = work.promised
        /\ work'.merged = merged
        /\ work' = [db |-> work'.db, made |-> work'.made, at |-> work'.at, limit |-> work'.limit,
                    offset |-> work'.offset, seen |-> work'.seen, promised |-> work'.promised,
                    merged |-> work'.merged]
    BY <2>4
  <2> QED BY <1>1, <2>2, <2>3, <2>5, <2>6, <2>7, SMTT(60) DEF PagesTrue, Seen
<1>4. CASE ReaderBegins
  <2>1. work' = [work EXCEPT !.at = "reads", !.promised = work.db.records, !.merged = FALSE] /\ work.at = "waits"
    BY <1>4 DEF ReaderBegins, Become
  <2>2. /\ work'.db = work.db /\ work'.made = work.made /\ work'.at = "reads" /\ work'.limit = work.limit
        /\ work'.offset = work.offset /\ work'.seen = work.seen /\ work'.promised = work.db.records
        /\ work'.merged = FALSE
        /\ work' = [db |-> work'.db, made |-> work'.made, at |-> work'.at, limit |-> work'.limit,
                    offset |-> work'.offset, seen |-> work'.seen, promised |-> work'.promised,
                    merged |-> work'.merged]
    BY <1>1, <2>1
  <2>3. work.offset = 0 BY <2>1 DEF PagesTrue
  <2>4. \A r \in work.db.records : ~(Newer(work.db.records, r) < 0) BY <1>1, NewerIsCount
  <2> QED BY <1>1, <2>2, <2>3, <2>4 DEF PagesTrue, Seen
<1>5. CASE ReaderTurns
  <2> DEFINE page == GetMemories(work.db, AllProjects, work.limit, work.offset, ListLimit)
             next == work.offset + page.limit
             n == Cardinality(work.db.records)
             at == IF next >= page.total THEN "done" ELSE "reads"
             seen == work.seen \cup ToSet(page.items)
  <2>1. work' = [work EXCEPT !.seen = @ \cup ToSet(page.items), !.offset = next, !.at = at] /\ work.at = "reads"
    BY <1>5 DEF ReaderTurns, Become
  <2>2. /\ page.limit \in Nat \ {0} /\ page.total = n
        /\ page.items = Page(work.db.records, page.limit, work.offset)
    <3>1. work.limit \in Int /\ work.offset # Missing BY <1>1, <1>2, TablesAssumption
    <3> QED BY <1>1, <3>1, ListingOfMemories
  <2> HIDE DEF page
  <2>3. next \in Nat /\ n \in Nat
    <3>1. n \in Nat BY <1>1, FS_CardinalityType DEF RowsTrue
    <3> QED BY <1>1, <2>2, <3>1
  <2>4. at = "done" => n <= next BY <2>2, <2>3
  <2>5. ASSUME ~work.merged
        PROVE  work.promised \subseteq work.db.records
               /\ \A r \in work.promised : Newer(work.db.records, r) < next => r \in seen
    <3>1. work.promised \subseteq work.db.records /\ Seen(work) BY <2>1, <2>5 DEF PagesTrue
    <3>2. ASSUME NEW r \in work.promised, Newer(work.db.records, r) < next PROVE r \in seen
      <4>1. Newer(work.db.records, r) \in Nat BY <1>1, <3>1, NewerIsCount
      <4>2. CASE Newer(work.db.records, r) < work.offset BY <3>1, <4>2 DEF Seen
      <4>3. CASE work.offset <= Newer(work.db.records, r)
        <5>1. r \in ToSet(Page(work.db.records, page.limit, work.offset))
          BY <1>1, <2>2, <3>1, <3>2, <4>3, PageHolds
        <5> QED BY <2>2, <5>1
      <4> QED BY <1>1, <4>1, <4>2, <4>3
    <3> QED BY <3>1, <3>2
  <2>6. at \in {"reads", "done"} OBVIOUS
  <2> HIDE DEF next, n, at
  <2>7. /\ work'.db = work.db /\ work'.made = work.made /\ work'.at = at /\ work'.limit = work.limit
        /\ work'.offset = next /\ work'.seen = seen /\ work'.promised = work.promised
        /\ work'.merged = work.merged
        /\ work' = [db |-> work'.db, made |-> work'.made, at |-> work'.at, limit |-> work'.limit,
                    offset |-> work'.offset, seen |-> work'.seen, promised |-> work'.promised,
                    merged |-> work'.merged]
    BY <1>1, <2>1
  <2> HIDE DEF seen
  <2> QED BY <1>1, <2>3, <2>4, <2>5, <2>6, <2>7 DEF PagesTrue, Seen, n
<1>6. CASE work' = work BY <1>6
<1> QED BY <1>3, <1>4, <1>5, <1>6, EachPartBySteps DEF PagesStep

LEMMA PagesInvAtFirst == Init => PagesInv
<1> SUFFICES ASSUME Init, part = "pages" PROVE PagesTrue(work) BY DEF PagesInv
<1>1. work \in [db : {NoRows}, made : {0}, at : {"waits"}, limit : 1..ListLimit + 1, offset : {0}, seen : {{}},
                promised : {{}}, merged : {FALSE}]
  BY Zenon DEF Init, GivenABody, GivenRankings, GivenCandidates, GivenTexts,
        GivenHome, GivenFiles, GivenDatabase, GivenReader, GivenViewer
<1>2. RowsTrue({}) BY FS_EmptySet DEF RowsTrue
<1>3. ListLimit \in Nat BY TablesAssumption
<1>4. /\ work.db = [events |-> {}, records |-> {}] /\ work.made = 0 /\ work.at = "waits" /\ work.offset = 0
      /\ work.limit \in 1..ListLimit + 1
  BY <1>1 DEF NoRows
<1>9. work.merged \in BOOLEAN
  <2>1. work.merged \in {FALSE} BY <1>1
  <2> QED BY Zenon, <2>1
<1>8. work = [db |-> work.db, made |-> work.made, at |-> work.at, limit |-> work.limit, offset |-> work.offset,
              seen |-> work.seen, promised |-> work.promised, merged |-> work.merged]
  BY <1>1
<1>5. work.db.records = {} /\ work.db = [events |-> work.db.events, records |-> work.db.records] BY <1>4
<1>6. RowsTrue(work.db.records) /\ \A r \in work.db.records : r.id <= work.made BY <1>2, <1>5
<1>7. /\ work.made \in Nat /\ work.limit \in 1..ListLimit + 1 /\ work.offset \in Nat
      /\ work.at \in {"waits", "reads", "done"} /\ work.at = "waits" /\ work.offset = 0 /\ work.at # "done"
  BY <1>3, <1>4
<1> QED BY Zenon, <1>5, <1>6, <1>7, <1>8, <1>9 DEF PagesTrue

LEMMA PagesInvGives == PagesInv => PagesMissNothing
<1> SUFFICES ASSUME PagesTrue(work), work.at = "done", ~work.merged PROVE work.promised \subseteq work.seen
  BY DEF PagesInv, PagesMissNothing
<1>1. work.promised \subseteq work.db.records /\ Seen(work) /\ Cardinality(work.db.records) <= work.offset
      /\ RowsTrue(work.db.records) /\ work.offset \in Nat
  BY DEF PagesTrue
<1>2. \A r \in work.promised : Newer(work.db.records, r) < work.offset BY <1>1, NewerIsCount
<1> QED BY <1>1, <1>2 DEF Seen

(*----------------------------------------------------------------------------*)
(* The dashboard: the graph and what a click opens                            *)
(*----------------------------------------------------------------------------*)

\* The items of a listing: rows, of which no two have the same id.
MemoriesTrue(memories) ==
  /\ memories \in Seq(RecordRows)
  /\ \A m, n \in ToSet(memories) : m.id = n.id => m = n

LEMMA SequenceSetFinite ==
  ASSUME NEW S, NEW s \in Seq(S)
  PROVE  IsFiniteSet(ToSet(s)) /\ ToSet(s) \subseteq S
<1>1. s \in [1..Len(s) -> ToSet(s)] /\ \A x \in ToSet(s) : \E i \in 1..Len(s) : s[i] = x BY DEF ToSet
<1>2. s \in Surjection(1..Len(s), ToSet(s)) BY <1>1 DEF Surjection
<1>3. IsFiniteSet(1..Len(s)) BY FS_Interval
<1> QED BY <1>2, <1>3, FS_Surjection DEF ToSet

LEMMA MemoriesSorted ==
  ASSUME NEW memories, MemoriesTrue(memories)
  PROVE  /\ SortedMemories(memories) \in Seq(ToSet(memories))
         /\ ToSet(SortedMemories(memories)) = ToSet(memories)
<1> DEFINE S == ToSet(memories)
           before == {p \in S \X S : p[1].id < p[2].id}
<1>1. IsFiniteSet(S) /\ S \subseteq RecordRows BY SequenceSetFinite DEF MemoriesTrue
<1>2. \A m \in S : m.id \in Nat BY <1>1, RecordIds
<1>3. TotallyOrders(before, S) BY <1>2 DEF TotallyOrders, MemoriesTrue
<1>4. Lists(SortedMemories(memories), S, before)
  <2> HIDE DEF before
  <2>1. Lists(Ordered(S, before), S, before) BY <1>1, <1>3, OrderedLists
  <2> QED BY <2>1 DEF SortedMemories, before
<1> HIDE DEF before, S
<1>5. SortedMemories(memories) \in Seq(S) /\ ToSet(SortedMemories(memories)) = S BY <1>4, ListHolds
<1> QED BY <1>5 DEF S

\* What a point of the graph can be.
IsPoint(p, memories) ==
  \/ \E m \in ToSet(memories) : \E c \in ToSet(m.concepts) : p = ConceptPoint(m, c)
  \/ \E m \in ToSet(memories) : p = MemoryPoint(m)
  \/ \E ns : p = ProjectPoint(ns)

LEMMA PointKinds ==
  ASSUME NEW memories, NEW p, IsPoint(p, memories)
  PROVE  /\ p.kind \in {"concept", "memory", "project"}
         /\ p.kind = "concept" => \E m \in ToSet(memories) : \E c \in ToSet(m.concepts) : p = ConceptPoint(m, c)
         /\ p.kind = "memory" => \E m \in ToSet(memories) : p = MemoryPoint(m)
         /\ p.kind = "project" => \E ns : p = ProjectPoint(ns)
<1>1. \A m, c : ConceptPoint(m, c).kind = "concept" BY DEF ConceptPoint
<1>2. \A m : MemoryPoint(m).kind = "memory" BY DEF MemoryPoint
<1>3. \A ns : ProjectPoint(ns).kind = "project" BY DEF ProjectPoint
<1>4. \/ p.kind = "concept" /\ \E m \in ToSet(memories) : \E c \in ToSet(m.concepts) : p = ConceptPoint(m, c)
      \/ p.kind = "memory" /\ \E m \in ToSet(memories) : p = MemoryPoint(m)
      \/ p.kind = "project" /\ \E ns : p = ProjectPoint(ns)
  BY <1>1, <1>2, <1>3 DEF IsPoint
<1>5. "concept" # "memory" /\ "concept" # "project" /\ "memory" # "project" OBVIOUS
<1> QED BY Zenon, <1>4, <1>5

LEMMA ConceptPointsAre ==
  ASSUME NEW memories, MemoriesTrue(memories), NEW sorted \in Seq(ToSet(memories))
  PROVE  /\ ConceptPoints(sorted) \in Seq(ToSet(ConceptPoints(sorted)))
         /\ \A p \in ToSet(ConceptPoints(sorted)) : IsPoint(p, memories)
<1> DEFINE columns(i) == {i} \X DOMAIN sorted[i].concepts
           places == UNION {columns(i) : i \in DOMAIN sorted}
           point(p) == ConceptPoint(sorted[p[1]], sorted[p[1]].concepts[p[2]])
           before == {q \in places \X places : \/ q[1][1] < q[2][1]
                                               \/ q[1][1] = q[2][1] /\ q[1][2] < q[2][2]}
           chosen == {p \in places : \A q \in places : <<q, p>> \in before => point(q).of # point(p).of}
           first == Ordered(chosen, before)
<1>1. \A m \in ToSet(memories) : m.concepts \in Seq(Seq(STRING) \ {<<>>})
  BY SequenceSetFinite, TablesAssumption DEF MemoriesTrue
<1>2. DOMAIN sorted = 1..Len(sorted) /\ \A i \in DOMAIN sorted : sorted[i] \in ToSet(memories) OBVIOUS
<1>3. \A i \in DOMAIN sorted : DOMAIN sorted[i].concepts = 1..Len(sorted[i].concepts) /\ Len(sorted[i].concepts) \in Nat
  BY <1>1, <1>2
<1>4. \A p \in places : /\ p = <<p[1], p[2]>> /\ p[1] \in DOMAIN sorted /\ p[2] \in DOMAIN sorted[p[1]].concepts
                        /\ p[1] \in Nat /\ p[2] \in Nat
  BY <1>2, <1>3
<1>5. IsFiniteSet(places)
  <2> DEFINE f == [i \in 1..Len(sorted) |-> columns(i)]
             parts == {columns(i) : i \in 1..Len(sorted)}
  <2>1. f \in Surjection(1..Len(sorted), parts) BY DEF Surjection
  <2>2. IsFiniteSet(1..Len(sorted)) BY FS_Interval
  <2>3. IsFiniteSet(parts)
    <3> HIDE DEF f, parts
    <3> QED BY <2>1, <2>2, FS_Surjection
  <2>4. ASSUME NEW i \in 1..Len(sorted) PROVE IsFiniteSet(columns(i))
    <3>1. IsFiniteSet({i}) BY FS_Singleton
    <3>3. Len(sorted[i].concepts) \in Int BY <1>2, <1>3
    <3>4. IsFiniteSet(1..Len(sorted[i].concepts))
      <4> DEFINE k == Len(sorted[i].concepts)
      <4>1. k \in Int BY <3>3
      <4> HIDE DEF k
      <4>2. IsFiniteSet(1..k) BY <4>1, FS_Interval
      <4> QED BY <4>2 DEF k
    <3>2. DOMAIN sorted[i].concepts = 1..Len(sorted[i].concepts) BY <1>2, <1>3
    <3> QED BY <3>1, <3>2, <3>4, FS_Product
  <2>5. \A part_ \in parts : IsFiniteSet(part_) BY <2>4
  <2>6. IsFiniteSet(UNION parts)
    <3> HIDE DEF parts
    <3> QED BY <2>3, <2>5, FS_UNION
  <2> QED BY <1>2, <2>6
<1>6. IsFiniteSet(chosen) /\ chosen \subseteq places
  <2>1. chosen \subseteq places OBVIOUS
  <2> HIDE DEF chosen, places
  <2> QED BY <1>5, <2>1, FS_Subset
<1>7. TotallyOrders(before, chosen)
  <2>1. ASSUME NEW x \in places, NEW y \in places
        PROVE  /\ <<x, y>> \in before <=> x[1] < y[1] \/ (x[1] = y[1] /\ x[2] < y[2])
               /\ x # y => x[1] # y[1] \/ x[2] # y[2]
               /\ x[1] \in Nat /\ x[2] \in Nat
    <3>1. x = <<x[1], x[2]>> /\ y = <<y[1], y[2]>> /\ x[1] \in Nat /\ x[2] \in Nat BY <1>4
    <3> HIDE DEF places
    <3>2. <<x, y>> \in before <=> x[1] < y[1] \/ (x[1] = y[1] /\ x[2] < y[2]) OBVIOUS
    <3> QED BY Zenon, <3>1, <3>2
  <2> HIDE DEF before, chosen, places
  <2>2. \A x \in chosen : x \in places BY <1>6
  <2>3. \A x \in chosen : <<x, x>> \notin before BY <2>1, <2>2
  <2>4. ASSUME NEW x \in chosen, NEW y \in chosen, NEW z \in chosen, <<x, y>> \in before, <<y, z>> \in before
        PROVE  <<x, z>> \in before
    <3>1. x[1] < y[1] \/ (x[1] = y[1] /\ x[2] < y[2]) BY <2>1, <2>2, <2>4
    <3>2. y[1] < z[1] \/ (y[1] = z[1] /\ y[2] < z[2]) BY <2>1, <2>2, <2>4
    <3>3. x[1] \in Nat /\ x[2] \in Nat /\ y[1] \in Nat /\ y[2] \in Nat /\ z[1] \in Nat /\ z[2] \in Nat BY <2>1, <2>2
    <3>4. x[1] < z[1] \/ (x[1] = z[1] /\ x[2] < z[2]) BY <3>1, <3>2, <3>3
    <3> QED BY <2>1, <2>2, <3>4
  <2>5. ASSUME NEW x \in chosen, NEW y \in chosen, x # y PROVE <<x, y>> \in before \/ <<y, x>> \in before
    <3>1. x[1] # y[1] \/ x[2] # y[2] BY <2>1, <2>2, <2>5
    <3>2. x[1] \in Nat /\ x[2] \in Nat /\ y[1] \in Nat /\ y[2] \in Nat BY <2>1, <2>2
    <3>3. (x[1] < y[1] \/ (x[1] = y[1] /\ x[2] < y[2])) \/ (y[1] < x[1] \/ (y[1] = x[1] /\ y[2] < x[2]))
      BY <3>1, <3>2
    <3> QED BY <2>1, <2>2, <3>3
  <2> QED BY Zenon, <2>3, <2>4, <2>5 DEF TotallyOrders
<1>8. first \in Seq(chosen)
  <2> HIDE DEF before, chosen
  <2> QED BY <1>6, <1>7, OrderedLists, ListHolds
<1>9. ConceptPoints(sorted) = [k \in DOMAIN first |-> point(first[k])] BY DEF ConceptPoints
<1>10. ASSUME NEW p \in places PROVE IsPoint(point(p), memories)
  <2> DEFINE m == sorted[p[1]]
             c == m.concepts[p[2]]
  <2>1. m \in ToSet(memories) /\ c \in ToSet(m.concepts) BY <1>2, <1>4 DEF ToSet
  <2> QED BY <2>1 DEF IsPoint
<1> HIDE DEF first, chosen, before, places, point
<1>11. DOMAIN first = 1..Len(first) /\ Len(first) \in Nat /\ \A k \in 1..Len(first) : first[k] \in places BY <1>6, <1>8
<1> DEFINE points == [k \in DOMAIN first |-> point(first[k])]
<1>12. points \in Seq(ToSet(points)) BY <1>11 DEF ToSet
<1>13. \A p \in ToSet(points) : IsPoint(p, memories) BY <1>10, <1>11 DEF ToSet
<1> QED BY <1>9, <1>12, <1>13

LEMMA PointsAre ==
  ASSUME NEW memories, MemoriesTrue(memories), NEW projects, IsFiniteSet(projects)
  PROVE  /\ Points(memories, projects) \in Seq(ToSet(Points(memories, projects)))
         /\ \A i \in DOMAIN Points(memories, projects) : IsPoint(Points(memories, projects)[i], memories)
<1> DEFINE sorted == SortedMemories(memories)
           a == ConceptPoints(sorted)
           b == [i \in DOMAIN sorted |-> MemoryPoint(sorted[i])]
           c == [i \in 1..Cardinality(projects) |-> ProjectPoint(SetToSeq(projects)[i])]
           u == ToSet(a) \cup ToSet(b) \cup ToSet(c)
<1>1. sorted \in Seq(ToSet(memories)) BY MemoriesSorted
<1>2. a \in Seq(ToSet(a)) /\ \A p \in ToSet(a) : IsPoint(p, memories)
  <2> HIDE DEF sorted
  <2> QED BY <1>1, ConceptPointsAre
<1>3. b \in Seq(ToSet(b)) /\ \A p \in ToSet(b) : IsPoint(p, memories)
  <2> HIDE DEF sorted
  <2>1. DOMAIN sorted = 1..Len(sorted) /\ Len(sorted) \in Nat /\ \A i \in 1..Len(sorted) : sorted[i] \in ToSet(memories)
    BY <1>1
  <2>2. b \in Seq(ToSet(b)) BY <2>1 DEF ToSet
  <2>3. \A i \in DOMAIN b : \E m \in ToSet(memories) : b[i] = MemoryPoint(m) BY <2>1
  <2> HIDE DEF b
  <2>4. \A p \in ToSet(b) : \E m \in ToSet(memories) : p = MemoryPoint(m) BY Zenon, <2>3 DEF ToSet
  <2> QED BY Zenon, <2>2, <2>4 DEF IsPoint
<1>4. c \in Seq(ToSet(c)) /\ \A p \in ToSet(c) : IsPoint(p, memories)
  <2>1. Cardinality(projects) \in Nat BY FS_CardinalityType
  <2>2. c \in Seq(ToSet(c)) BY <2>1 DEF ToSet
  <2>3. \A i \in DOMAIN c : \E ns : c[i] = ProjectPoint(ns) OBVIOUS
  <2> HIDE DEF c
  <2>4. \A p \in ToSet(c) : \E ns : p = ProjectPoint(ns) BY Zenon, <2>3 DEF ToSet
  <2> QED BY Zenon, <2>2, <2>4 DEF IsPoint
<1>5. Points(memories, projects) = a \o b \o c BY DEF Points
<1> HIDE DEF a, b, c
<1>6. a \in Seq(u) /\ b \in Seq(u) /\ c \in Seq(u) BY <1>2, <1>3, <1>4
<1>7. a \o b \o c \in Seq(u) BY <1>6
<1>8. \A p \in u : IsPoint(p, memories) BY <1>2, <1>3, <1>4
<1> HIDE DEF u
<1> DEFINE points == a \o b \o c
<1>9. points \in Seq(u) BY <1>7
<1> HIDE DEF points
<1>10. points \in Seq(ToSet(points)) /\ \A i \in DOMAIN points : points[i] \in u BY <1>9 DEF ToSet
<1> QED BY <1>5, <1>8, <1>10 DEF points

\* Namespaces are prefix codes: what begins with one of them begins with no other.
LEMMA NamespacesApart ==
  ASSUME NEW m \in RecordRows, NEW n \in RecordRows, NEW c \in Seq(STRING), NEW d \in Seq(STRING),
         m.ns \o c = n.ns \o d
  PROVE  m.ns = n.ns
<1>1. m.ns \in Seq(STRING) /\ n.ns \in Seq(STRING) BY TablesAssumption
<1>2. ASSUME NEW x \in Seq(STRING), NEW y \in Seq(STRING), NEW e \in Seq(STRING), NEW f \in Seq(STRING),
             x \o e = y \o f, Len(x) <= Len(y)
      PROVE  IsPrefix(x, y)
  <2>1. \A i \in 1..Len(x) : x[i] = (x \o e)[i] /\ y[i] = (y \o f)[i] BY <1>2
  <2>2. \A i \in 1..Len(x) : x[i] = y[i] BY <1>2, <2>1
  <2>3. SubSeq(x, 1, Len(x)) = SubSeq(y, 1, Len(x)) BY <1>2, <2>2
  <2> QED BY <1>2, <2>3 DEF IsPrefix
<1>3. IsPrefix(m.ns, n.ns) \/ IsPrefix(n.ns, m.ns)
  <2>1. CASE Len(m.ns) <= Len(n.ns) BY <1>1, <1>2, <2>1
  <2>2. CASE Len(n.ns) <= Len(m.ns) BY <1>1, <1>2, <2>2
  <2> QED BY <1>1, <2>1, <2>2
<1> QED BY <1>3, TablesAssumption

LEMMA LinksStay ==
  ASSUME NEW memories, MemoriesTrue(memories), NEW projects, IsFiniteSet(projects)
  PROVE  \A l \in GraphLinks(memories, projects) :
           Points(memories, projects)[l[1]].ns = Points(memories, projects)[l[2]].ns
<1> DEFINE points == Points(memories, projects)
           At(p) == {i \in DOMAIN points : points[i].kind = p.kind /\ points[i].of = p.of}
           Ends(m) == {MemoryPoint(m)} \X
                        ({ProjectPoint(m.ns)} \cup {ConceptPoint(m, c) : c \in ToSet(m.concepts)})
<1>1. GraphLinks(memories, projects) = UNION {At(e[1]) \X At(e[2]) : e \in UNION {Ends(m) : m \in ToSet(memories)}}
  BY DEF GraphLinks
<1> SUFFICES ASSUME NEW l \in GraphLinks(memories, projects) PROVE points[l[1]].ns = points[l[2]].ns OBVIOUS
<1>2. PICK m \in ToSet(memories) : \E e \in Ends(m) : l \in At(e[1]) \X At(e[2])
  <2> HIDE DEF At, Ends
  <2> QED BY <1>1
<1>3. PICK e \in Ends(m) : l \in At(e[1]) \X At(e[2]) BY <1>2
<1>4. /\ e[1] = MemoryPoint(m) /\ l[1] \in At(e[1]) /\ l[2] \in At(e[2])
      /\ e[2] = ProjectPoint(m.ns) \/ \E c \in ToSet(m.concepts) : e[2] = ConceptPoint(m, c)
  <2>1. l[1] \in At(e[1]) /\ l[2] \in At(e[2])
    <3> HIDE DEF At
    <3> QED BY <1>3
  <2> QED BY <1>3, <2>1
<1> HIDE DEF Ends
<1>5. /\ l[1] \in DOMAIN points /\ points[l[1]].kind = "memory" /\ points[l[1]].of = <<m.id>>
      /\ l[2] \in DOMAIN points /\ points[l[2]].kind = e[2].kind /\ points[l[2]].of = e[2].of
  BY <1>4 DEF MemoryPoint
<1> HIDE DEF At
<1>6. IsPoint(points[l[1]], memories) /\ IsPoint(points[l[2]], memories) BY <1>5, PointsAre
<1> HIDE DEF points
<1>7. points[l[1]].ns = m.ns
  <2>1. PICK n \in ToSet(memories) : points[l[1]] = MemoryPoint(n)
    BY <1>5, <1>6, PointKinds
  <2>2. n.id = m.id BY <1>5, <2>1 DEF MemoryPoint
  <2>3. n = m BY <2>2 DEF MemoriesTrue
  <2> QED BY <2>1, <2>3 DEF MemoryPoint
<1>8. points[l[2]].ns = m.ns
  <2>1. CASE e[2] = ProjectPoint(m.ns)
    <3>1. PICK ns : points[l[2]] = ProjectPoint(ns)
      <4>1. points[l[2]].kind = "project" BY <1>5, <2>1 DEF ProjectPoint
      <4> QED BY <1>6, <4>1, PointKinds
    <3> QED BY <1>5, <2>1, <3>1 DEF ProjectPoint
  <2>2. CASE \E c \in ToSet(m.concepts) : e[2] = ConceptPoint(m, c)
    <3>1. PICK c \in ToSet(m.concepts) : e[2] = ConceptPoint(m, c) BY <2>2
    <3>7. PICK n \in ToSet(memories) : \E d \in ToSet(n.concepts) : points[l[2]] = ConceptPoint(n, d)
      <4>1. points[l[2]].kind = "concept" BY <1>5, <3>1 DEF ConceptPoint
      <4> QED BY <1>6, <4>1, PointKinds
    <3>2. PICK d \in ToSet(n.concepts) : points[l[2]] = ConceptPoint(n, d) BY <3>7
    <3>3. n.ns \o d = m.ns \o c
      <4>1. points[l[2]].of = n.ns \o d BY <3>2 DEF ConceptPoint
      <4>2. e[2].of = m.ns \o c BY <3>1 DEF ConceptPoint
      <4> QED BY Zenon, <1>5, <4>1, <4>2
    <3>4. m \in RecordRows /\ n \in RecordRows BY SequenceSetFinite DEF MemoriesTrue
    <3>5. c \in Seq(STRING) /\ d \in Seq(STRING)
      <4>1. m.concepts \in Seq(Seq(STRING) \ {<<>>}) /\ n.concepts \in Seq(Seq(STRING) \ {<<>>})
        BY <3>4, TablesAssumption
      <4> QED BY <4>1 DEF ToSet
    <3>6. n.ns = m.ns BY <3>3, <3>4, <3>5, NamespacesApart
    <3> QED BY <3>2, <3>6 DEF ConceptPoint
  <2> QED BY <1>4, <2>1, <2>2
<1> QED BY <1>7, <1>8

ViewFields(v) ==
  v = [projects |-> v.projects, tail |-> v.tail, memories |-> v.memories, loading |-> v.loading,
       failed |-> v.failed, graph |-> v.graph, clicked |-> v.clicked, memory |-> v.memory,
       concept |-> v.concept, point |-> v.point, stale |-> v.stale]

\* The page: a graph that is not stale shows what the page has, and what is open is what was clicked.
PageTrue(v) ==
  /\ ViewFields(v)
  /\ IsFiniteSet(v.projects) /\ MemoriesTrue(v.memories)
  /\ v.graph # <<>> /\ ~v.stale => v.graph = Points(v.memories, v.projects)
  /\ v.point # None => PanelIsOpen(v)
  /\ FreshClickOpensItsPoint(v)

\* What the open panel depends on.
SamePanel(v, w) == w.memory = v.memory /\ w.concept = v.concept /\ w.point = v.point

LEMMA PanelStays ==
  ASSUME NEW v, PageTrue(v), NEW w, SamePanel(v, w)
  PROVE  (w.point # None => PanelIsOpen(w)) /\ FreshClickOpensItsPoint(w)
BY Zenon DEF PageTrue, SamePanel, PanelIsOpen, FreshClickOpensItsPoint, Opens

LEMMA MountTrue ==
  ASSUME NEW v, PageTrue(v) PROVE PageTrue(Mount(v))
<1> DEFINE w == Mount(v)
           points == Points(v.memories, v.projects)
<1>1. ViewFields(v) BY DEF PageTrue
<1>2. w = [projects |-> v.projects, tail |-> v.tail, memories |-> v.memories, loading |-> v.loading,
           failed |-> v.failed, graph |-> points, clicked |-> 0, memory |-> v.memory,
           concept |-> v.concept, point |-> v.point, stale |-> FALSE]
  <2> HIDE DEF points
  <2>1. ASSUME NEW r, r = [v EXCEPT !.graph = points, !.clicked = 0, !.stale = FALSE]
        PROVE  r = [projects |-> v.projects, tail |-> v.tail, memories |-> v.memories, loading |-> v.loading,
                    failed |-> v.failed, graph |-> points, clicked |-> 0, memory |-> v.memory,
                    concept |-> v.concept, point |-> v.point, stale |-> FALSE]
    BY <1>1, <2>1 DEF ViewFields
  <2> QED BY <2>1 DEF Mount, points
<1> HIDE DEF w, points
<1>3. /\ w.projects = v.projects /\ w.memories = v.memories /\ w.graph = points /\ ViewFields(w)
      /\ SamePanel(v, w)
  BY <1>2 DEF ViewFields, SamePanel
<1>4. (w.point # None => PanelIsOpen(w)) /\ FreshClickOpensItsPoint(w) BY <1>3, PanelStays
<1>5. PageTrue(w) BY Zenon, <1>3, <1>4 DEF PageTrue, points
<1> QED BY <1>5 DEF w

\* A page whose graph may not fit any more is put right when it is painted.
Unpainted(v) ==
  /\ ViewFields(v)
  /\ IsFiniteSet(v.projects) /\ MemoriesTrue(v.memories)
  /\ v.point # None => PanelIsOpen(v)
  /\ FreshClickOpensItsPoint(v)

LEMMA RenderTrue ==
  ASSUME NEW v, Unpainted(v) PROVE PageTrue(Render(v))
<1> DEFINE w == Render(v)
           points == Points(v.memories, v.projects)
<1>1. ViewFields(v) BY DEF Unpainted
<1>2. CASE v.loading \/ v.failed \/ v.memories = <<>>
  <2>1. w = [v EXCEPT !.graph = <<>>, !.clicked = 0] BY <1>2 DEF Render
  <2> HIDE DEF w
  <2>2. w = [projects |-> v.projects, tail |-> v.tail, memories |-> v.memories, loading |-> v.loading,
             failed |-> v.failed, graph |-> <<>>, clicked |-> 0, memory |-> v.memory,
             concept |-> v.concept, point |-> v.point, stale |-> v.stale]
    BY <1>1, <2>1 DEF ViewFields
  <2>3. /\ w.projects = v.projects /\ w.memories = v.memories /\ w.graph = <<>> /\ ViewFields(w)
        /\ w.memory = v.memory /\ w.concept = v.concept /\ w.point = v.point
    BY <2>2 DEF ViewFields
  <2>4. PageTrue(w)
    BY Zenon, <2>3 DEF PageTrue, Unpainted, PanelIsOpen, FreshClickOpensItsPoint, Opens
  <2> QED BY <2>4 DEF w
<1>3. CASE ~(v.loading \/ v.failed \/ v.memories = <<>>) /\ v.graph = <<>>
  <2>1. PageTrue(v) BY Zenon, <1>3 DEF PageTrue, Unpainted
  <2>2. w = Mount(v) BY <1>3 DEF Render
  <2> QED BY <2>1, <2>2, MountTrue
<1>4. CASE ~(v.loading \/ v.failed \/ v.memories = <<>>) /\ v.graph # <<>>
  <2> DEFINE s == v.graph # points
  <2>1. w = [v EXCEPT !.stale = s] BY <1>4 DEF Render
  <2> HIDE DEF w, s
  <2>2. w = [projects |-> v.projects, tail |-> v.tail, memories |-> v.memories, loading |-> v.loading,
             failed |-> v.failed, graph |-> v.graph, clicked |-> v.clicked, memory |-> v.memory,
             concept |-> v.concept, point |-> v.point, stale |-> s]
    BY <1>1, <2>1 DEF ViewFields
  <2>3. /\ w.projects = v.projects /\ w.memories = v.memories /\ w.graph = v.graph /\ ViewFields(w)
        /\ w.memory = v.memory /\ w.concept = v.concept /\ w.point = v.point
    BY <2>2 DEF ViewFields
  <2>4. w.stale = s BY <2>2
  <2>5. ~w.stale => w.graph = Points(w.memories, w.projects) BY Zenon, <2>3, <2>4 DEF s
  <2>6. PageTrue(w)
    BY Zenon, <2>3, <2>5 DEF PageTrue, Unpainted, PanelIsOpen, FreshClickOpensItsPoint, Opens
  <2> QED BY <2>6 DEF w
<1> QED BY <1>2, <1>3, <1>4

LEMMA ShowStatsTrue ==
  ASSUME NEW v, PageTrue(v), NEW ok, NEW body, ok => IsFiniteSet({p.ns : p \in body.projects})
  PROVE  PageTrue(ShowStats(v, ok, body))
<1>1. CASE ~ok BY <1>1 DEF ShowStats
<1>2. CASE ok
  <2> DEFINE projects == {p.ns : p \in body.projects}
             w == [v EXCEPT !.projects = projects]
  <2>1. ShowStats(v, ok, body) = Render(w) BY <1>2 DEF ShowStats
  <2>2. ViewFields(v) BY DEF PageTrue
  <2> HIDE DEF projects
  <2>3. ASSUME NEW r, r = w
        PROVE  r = [projects |-> projects, tail |-> v.tail, memories |-> v.memories, loading |-> v.loading,
                    failed |-> v.failed, graph |-> v.graph, clicked |-> v.clicked, memory |-> v.memory,
                    concept |-> v.concept, point |-> v.point, stale |-> v.stale]
    BY <2>2, <2>3 DEF ViewFields
  <2> HIDE DEF w
  <2>4. w = [projects |-> projects, tail |-> v.tail, memories |-> v.memories, loading |-> v.loading,
             failed |-> v.failed, graph |-> v.graph, clicked |-> v.clicked, memory |-> v.memory,
             concept |-> v.concept, point |-> v.point, stale |-> v.stale]
    BY Zenon, <2>3
  <2>5. /\ w.projects = projects /\ w.memories = v.memories /\ ViewFields(w) /\ SamePanel(v, w)
    BY <2>4 DEF ViewFields, SamePanel
  <2>6. (w.point # None => PanelIsOpen(w)) /\ FreshClickOpensItsPoint(w) BY <2>5, PanelStays
  <2>7. IsFiniteSet(projects) BY <1>2 DEF projects
  <2>8. Unpainted(w) BY Zenon, <2>5, <2>6, <2>7 DEF Unpainted, PageTrue
  <2> QED BY <2>1, <2>8, RenderTrue
<1> QED BY <1>1, <1>2

LEMMA ShowEventsTrue ==
  ASSUME NEW v, PageTrue(v), NEW ok, NEW body
  PROVE  PageTrue(ShowEvents(v, ok, body))
<1>1. CASE ~ok BY <1>1 DEF ShowEvents
<1>2. CASE ok
  <2> DEFINE tail == body.items
             w == ShowEvents(v, ok, body)
  <2>1. w = [v EXCEPT !.tail = tail] BY <1>2 DEF ShowEvents
  <2>2. ViewFields(v) BY DEF PageTrue
  <2> HIDE DEF tail, w
  <2>3. w = [projects |-> v.projects, tail |-> tail, memories |-> v.memories, loading |-> v.loading,
             failed |-> v.failed, graph |-> v.graph, clicked |-> v.clicked, memory |-> v.memory,
             concept |-> v.concept, point |-> v.point, stale |-> v.stale]
    BY <2>1, <2>2 DEF ViewFields
  <2>4. /\ w.projects = v.projects /\ w.memories = v.memories /\ w.graph = v.graph /\ w.stale = v.stale
        /\ ViewFields(w) /\ SamePanel(v, w)
    BY <2>3 DEF ViewFields, SamePanel
  <2>5. (w.point # None => PanelIsOpen(w)) /\ FreshClickOpensItsPoint(w) BY <2>4, PanelStays
  <2>6. PageTrue(w) BY Zenon, <2>4, <2>5 DEF PageTrue
  <2> QED BY <2>6 DEF w
<1> QED BY <1>1, <1>2

LEMMA ShowMemoriesTrue ==
  ASSUME NEW v, PageTrue(v), NEW ok, NEW body, ok => MemoriesTrue(body.items)
  PROVE  PageTrue(ShowMemories(v, ok, body))
<1> DEFINE memories == IF ok THEN body.items ELSE v.memories
           failed == ~ok
           w == [v EXCEPT !.loading = FALSE, !.failed = failed, !.memories = memories]
<1>1. ShowMemories(v, ok, body) = Render(w) BY DEF ShowMemories
<1>2. ViewFields(v) /\ MemoriesTrue(memories)
  <2>1. MemoriesTrue(v.memories) /\ ViewFields(v) BY DEF PageTrue
  <2>2. CASE ok BY <2>1, <2>2
  <2>3. CASE ~ok BY <2>1, <2>3
  <2> QED BY <2>2, <2>3
<1> HIDE DEF memories, failed
<1>3. ASSUME NEW r, r = w
      PROVE  r = [projects |-> v.projects, tail |-> v.tail, memories |-> memories, loading |-> FALSE,
                  failed |-> failed, graph |-> v.graph, clicked |-> v.clicked, memory |-> v.memory,
                  concept |-> v.concept, point |-> v.point, stale |-> v.stale]
  BY <1>2, <1>3 DEF ViewFields
<1> HIDE DEF w
<1>4. w = [projects |-> v.projects, tail |-> v.tail, memories |-> memories, loading |-> FALSE,
           failed |-> failed, graph |-> v.graph, clicked |-> v.clicked, memory |-> v.memory,
           concept |-> v.concept, point |-> v.point, stale |-> v.stale]
  BY Zenon, <1>3
<1>5. w.projects = v.projects /\ w.memories = memories /\ ViewFields(w) /\ SamePanel(v, w)
  BY <1>4 DEF ViewFields, SamePanel
<1>6. (w.point # None => PanelIsOpen(w)) /\ FreshClickOpensItsPoint(w) BY <1>5, PanelStays
<1>7. Unpainted(w) BY Zenon, <1>2, <1>5, <1>6 DEF Unpainted, PageTrue
<1> QED BY <1>1, <1>7, RenderTrue

LEMMA ClosePanelTrue ==
  ASSUME NEW v, PageTrue(v) PROVE PageTrue(ClosePanel(v))
<1> DEFINE w == ClosePanel(v)
<1>1. w = [v EXCEPT !.memory = None, !.concept = None, !.point = None] BY DEF ClosePanel
<1>2. ViewFields(v) BY DEF PageTrue
<1> HIDE DEF w
<1>3. w = [projects |-> v.projects, tail |-> v.tail, memories |-> v.memories, loading |-> v.loading,
           failed |-> v.failed, graph |-> v.graph, clicked |-> v.clicked, memory |-> None,
           concept |-> None, point |-> None, stale |-> v.stale]
  BY <1>1, <1>2 DEF ViewFields
<1>4. /\ w.projects = v.projects /\ w.memories = v.memories /\ w.graph = v.graph /\ w.stale = v.stale
      /\ w.point = None /\ ViewFields(w)
  BY <1>3 DEF ViewFields
<1>5. PageTrue(w) BY Zenon, <1>4 DEF PageTrue, FreshClickOpensItsPoint
<1> QED BY <1>5 DEF w

\* A click changes what the panel shows, and nothing else.
Panel(v, memory, concept) ==
  [projects |-> v.projects, tail |-> v.tail, memories |-> v.memories, loading |-> v.loading,
   failed |-> v.failed, graph |-> v.graph, clicked |-> v.clicked, memory |-> memory,
   concept |-> concept, point |-> v.point, stale |-> v.stale]

LEMMA HandleClickShows ==
  ASSUME NEW v, ViewFields(v), NEW p
  PROVE  /\ p = None => HandleClick(v, p) = Panel(v, None, None)
         /\ p # None /\ p.kind = "memory" => HandleClick(v, p) = Panel(v, Found(v.memories, p.of[1]), None)
         /\ p # None /\ p.kind = "concept" => HandleClick(v, p) = Panel(v, None, <<Last(p.of)>>)
         /\ p # None /\ p.kind = "project" => HandleClick(v, p) = v
<1>1. ASSUME NEW m, NEW c, NEW r, r = [v EXCEPT !.memory = m, !.concept = c] PROVE r = Panel(v, m, c)
  BY <1>1 DEF ViewFields, Panel
<1>2. CASE p = None
  <2>1. HandleClick(v, p) = [v EXCEPT !.memory = None, !.concept = None] BY <1>2 DEF HandleClick
  <2> QED BY Zenon, <1>1, <1>2, <2>1
<1>3. CASE p # None /\ p.kind = "memory"
  <2> DEFINE m == Found(v.memories, p.of[1])
  <2>1. HandleClick(v, p) = [v EXCEPT !.memory = m, !.concept = None] BY <1>3 DEF HandleClick
  <2>2. HandleClick(v, p) = Panel(v, m, None)
    <3> HIDE DEF m
    <3> QED BY Zenon, <1>1, <2>1
  <2>3. "memory" # "concept" /\ "memory" # "project" OBVIOUS
  <2> QED BY Zenon, <1>3, <2>2, <2>3
<1>4. CASE p # None /\ p.kind = "concept"
  <2> DEFINE c == <<Last(p.of)>>
  <2>1. HandleClick(v, p) = [v EXCEPT !.memory = None, !.concept = c] BY <1>4 DEF HandleClick
  <2>2. HandleClick(v, p) = Panel(v, None, c)
    <3> HIDE DEF c
    <3> QED BY Zenon, <1>1, <2>1
  <2>3. "concept" # "memory" /\ "concept" # "project" OBVIOUS
  <2> QED BY Zenon, <1>4, <2>2, <2>3
<1>5. CASE p # None /\ p.kind = "project"
  <2>1. HandleClick(v, p) = v BY <1>5 DEF HandleClick
  <2>2. "project" # "memory" /\ "project" # "concept" OBVIOUS
  <2> QED BY Zenon, <1>5, <2>1, <2>2
<1> QED BY Zenon, <1>2, <1>3, <1>4, <1>5

\* A memory that is in the list is found by its id.
LEMMA FoundMemory ==
  ASSUME NEW memories, MemoriesTrue(memories), NEW m \in ToSet(memories)
  PROVE  Found(memories, m.id) # None /\ Found(memories, m.id).id = m.id
<1>1. Found(memories, m.id) \in ToSet(memories) /\ Found(memories, m.id).id = m.id BY DEF Found
<1>2. ToSet(memories) \subseteq RecordRows BY SequenceSetFinite DEF MemoriesTrue
<1> QED BY <1>1, <1>2, TablesAssumption

LEMMA LastOfOne ==
  ASSUME NEW S, NEW x \in Seq(S), NEW y \in Seq(S), Len(y) = 1
  PROVE  Last(x \o y) = y[1]
<1>1. Len(x) \in Nat /\ Len(x \o y) = Len(x) + 1
  <2>1. Len(x \o y) = Len(x) + Len(y) BY ConcatProperties
  <2> QED BY <2>1
<1>2. (x \o y)[Len(x) + 1] = y[1]
  <2>1. Len(x) + 1 \in 1..Len(x) + Len(y) /\ ~(Len(x) + 1 <= Len(x)) /\ Len(x) + 1 - Len(x) = 1 BY <1>1
  <2> QED BY <2>1, ConcatProperties
<1> QED BY <1>1, <1>2 DEF Last

\* What a click on a point of the page as it is now opens is the detail of that point.
LEMMA ClickOpensPoint ==
  ASSUME NEW v, PageTrue(v), ~PanelIsOpen(v), NEW p, IsPoint(p, v.memories), Len(p.name) <= 1,
         PanelIsOpen(HandleClick(v, p))
  PROVE  Opens(HandleClick(v, p), p)
<1>1. ViewFields(v) /\ MemoriesTrue(v.memories) BY DEF PageTrue
<1>2. p # None
  <2>1. \A m, c : Panel(v, m, c).memory = m /\ Panel(v, m, c).concept = c BY DEF Panel
  <2>2. p = None => HandleClick(v, p) = Panel(v, None, None) BY <1>1, HandleClickShows
  <2>3. Panel(v, None, None).memory = None /\ Panel(v, None, None).concept = None BY <2>1
  <2>4. ASSUME p = None PROVE FALSE
    <3>1. HandleClick(v, p).memory = None /\ HandleClick(v, p).concept = None BY Zenon, <2>2, <2>3, <2>4
    <3> QED BY <3>1 DEF PanelIsOpen
  <2> QED BY <2>4
<1>3. CASE p.kind = "memory"
  <2>1. PICK m \in ToSet(v.memories) : p = MemoryPoint(m) BY <1>3, PointKinds
  <2>2. p.of[1] = m.id BY <2>1 DEF MemoryPoint
  <2> DEFINE found == Found(v.memories, p.of[1])
  <2>3. HandleClick(v, p) = Panel(v, found, None) BY <1>1, <1>2, <1>3, HandleClickShows
  <2>4. found # None /\ found.id = p.of[1] BY <1>1, <2>2, FoundMemory
  <2> HIDE DEF found
  <2>5. HandleClick(v, p).memory = found BY <2>3 DEF Panel
  <2> QED BY <1>3, <2>4, <2>5 DEF Opens
<1>4. CASE p.kind = "concept"
  <2>4. PICK m \in ToSet(v.memories) : \E c \in ToSet(m.concepts) : p = ConceptPoint(m, c) BY <1>4, PointKinds
  <2>1. PICK c \in ToSet(m.concepts) : p = ConceptPoint(m, c) BY <2>4
  <2>2. m.ns \in Seq(STRING) /\ c \in Seq(STRING) \ {<<>>}
    <3>1. m \in RecordRows BY <1>1, SequenceSetFinite DEF MemoriesTrue
    <3>2. m.concepts \in Seq(Seq(STRING) \ {<<>>}) /\ m.ns \in Seq(STRING) BY <3>1, TablesAssumption
    <3> QED BY <3>2 DEF ToSet
  <2>3. p.name = c /\ p.of = m.ns \o c BY <2>1 DEF ConceptPoint
  <2>5. <<Last(p.of)>> = p.name
    <3>1. Len(c) = 1
      <4>1. Len(c) \in Nat /\ Len(c) # 0 BY <2>2, EmptySeq
      <4>2. Len(c) <= 1 BY Zenon, <2>3
      <4> QED BY <4>1, <4>2
    <3>2. Last(m.ns \o c) = c[1]
      <4>3. m.ns \in Seq(STRING) /\ c \in Seq(STRING) BY <2>2
      <4> QED BY Zenon, <3>1, <4>3, LastOfOne
    <3>3. c = <<c[1]>> BY <2>2, <3>1
    <3> QED BY <2>3, <3>2, <3>3
  <2>6. HandleClick(v, p).concept = <<Last(p.of)>> BY <1>1, <1>2, <1>4, HandleClickShows DEF Panel
  <2> QED BY <1>4, <2>5, <2>6 DEF Opens
<1>5. CASE p.kind = "project"
  <2>1. HandleClick(v, p) = v BY <1>1, <1>2, <1>5, HandleClickShows
  <2> QED BY <2>1
<1> QED BY <1>3, <1>4, <1>5, PointKinds

LEMMA OnClickTrue ==
  ASSUME NEW v, PageTrue(v), ~PanelIsOpen(v), NEW i \in DOMAIN v.graph
  PROVE  PageTrue(OnClick(v, i))
<1> DEFINE now == Points(v.memories, v.projects)
           p == IF i \in DOMAIN now THEN now[i] ELSE None
           opened == HandleClick(v, p)
           w == OnClick(v, i)
<1>1. ViewFields(v) /\ v.point = None /\ MemoriesTrue(v.memories) /\ IsFiniteSet(v.projects) BY DEF PageTrue
<1>2. CASE v.clicked = i
  <2> DEFINE u == [v EXCEPT !.clicked = 0]
  <2>1. w = HandleClick(u, None) BY <1>2 DEF OnClick
  <2>2. /\ ViewFields(u) /\ u.projects = v.projects /\ u.memories = v.memories /\ u.graph = v.graph
        /\ u.point = v.point /\ u.stale = v.stale
    BY <1>1 DEF ViewFields
  <2> HIDE DEF u, w
  <2>3. w = Panel(u, None, None) BY <2>1, <2>2, HandleClickShows
  <2>4. /\ ViewFields(w) /\ w.projects = v.projects /\ w.memories = v.memories /\ w.graph = v.graph
        /\ w.point = None /\ w.stale = v.stale
    BY <1>1, <2>2, <2>3 DEF Panel, ViewFields
  <2>5. PageTrue(w) BY Zenon, <2>4 DEF PageTrue, FreshClickOpensItsPoint
  <2> QED BY <2>5 DEF w
<1>3. CASE v.clicked # i
  <2> DEFINE point == IF PanelIsOpen(opened) THEN [drawn |-> v.graph[i], stale |-> v.stale] ELSE None
  <2>1. w = [opened EXCEPT !.clicked = i, !.point = point] BY <1>3 DEF OnClick
  <2>2. p = None \/ IsPoint(p, v.memories) BY <1>1, PointsAre
  <2> HIDE DEF p, w
  <2>3. PICK m, c : opened = Panel(v, m, c)
    <3>1. v = Panel(v, v.memory, v.concept) BY <1>1 DEF ViewFields, Panel
    <3>2. p = None \/ p.kind \in {"concept", "memory", "project"} BY <2>2, PointKinds
    <3>3. CASE p = None
      <4>1. opened = Panel(v, None, None) BY <1>1, <3>3, HandleClickShows
      <4> HIDE DEF opened
      <4> QED BY Zenon, <4>1
    <3>4. CASE p # None /\ p.kind = "concept"
      <4>1. opened = Panel(v, None, <<Last(p.of)>>) BY <1>1, <3>4, HandleClickShows
      <4> HIDE DEF opened
      <4> QED BY Zenon, <4>1
    <3>5. CASE p # None /\ p.kind = "memory"
      <4>1. opened = Panel(v, Found(v.memories, p.of[1]), None) BY <1>1, <3>5, HandleClickShows
      <4> HIDE DEF opened
      <4> QED BY Zenon, <4>1
    <3>6. CASE p # None /\ p.kind = "project"
      <4>1. opened = v BY <1>1, <3>6, HandleClickShows
      <4> HIDE DEF opened
      <4> QED BY Zenon, <3>1, <4>1
    <3> QED BY <3>2, <3>3, <3>4, <3>5, <3>6
  <2> HIDE DEF opened, point
  <2>4. w = [projects |-> v.projects, tail |-> v.tail, memories |-> v.memories, loading |-> v.loading,
             failed |-> v.failed, graph |-> v.graph, clicked |-> i, memory |-> m,
             concept |-> c, point |-> point, stale |-> v.stale]
    BY <2>1, <2>3 DEF Panel
  <2>5. /\ ViewFields(w) /\ w.projects = v.projects /\ w.memories = v.memories /\ w.graph = v.graph
        /\ w.point = point /\ w.stale = v.stale /\ w.memory = m /\ w.concept = c
    BY <2>4 DEF ViewFields
  <2>6. opened.memory = m /\ opened.concept = c BY <2>3 DEF Panel
  <2>7. w.point # None => PanelIsOpen(w)
    <3>1. point # None => PanelIsOpen(opened) BY DEF point
    <3> QED BY <2>5, <2>6, <3>1 DEF PanelIsOpen
  <2>8. FreshClickOpensItsPoint(w)
    <3> SUFFICES ASSUME w.point # None, ~w.point.stale, Len(w.point.drawn.name) <= 1
                 PROVE  Opens(w, w.point.drawn)
      BY Zenon DEF FreshClickOpensItsPoint
    <3>1. PanelIsOpen(opened) /\ w.point.drawn = v.graph[i] /\ w.point.stale = v.stale
      <4>1. PanelIsOpen(opened) /\ point = [drawn |-> v.graph[i], stale |-> v.stale] BY <2>5 DEF point
      <4> QED BY <2>5, <4>1
    <3>2. v.graph # <<>> /\ v.graph = now /\ p = v.graph[i]
      <4>1. v.graph # <<>> OBVIOUS
      <4>2. ~v.stale BY Zenon, <3>1
      <4>3. v.graph = now BY Zenon, <4>1, <4>2 DEF PageTrue
      <4> HIDE DEF now
      <4> QED BY <4>1, <4>3 DEF p
    <3>3. IsPoint(p, v.memories)
      <4>1. i \in DOMAIN now BY <3>2
      <4> QED BY <1>1, <4>1, PointsAre DEF p
    <3>4. Opens(opened, p) BY <3>1, <3>2, <3>3, ClickOpensPoint DEF opened
    <3> QED BY Zenon, <2>5, <2>6, <3>1, <3>2, <3>4 DEF Opens
  <2>9. PageTrue(w) BY Zenon, <2>5, <2>7, <2>8 DEF PageTrue
  <2> QED BY <2>9 DEF w
<1> QED BY <1>2, <1>3

Names(events) == {e.ns : e \in events}

LEMMA NamesFinite == ASSUME NEW events, IsFiniteSet(events) PROVE IsFiniteSet(Names(events))
<1> DEFINE f == [e \in events |-> e.ns]
<1>1. f \in Surjection(events, Names(events)) BY DEF Surjection, Names
<1> HIDE DEF f
<1> QED BY <1>1, FS_Surjection

\* There is one entry of the list of projects for each namespace of an event.
LEMMA ProjectsOfEvents ==
  ASSUME NEW db, IsFiniteSet(db.events)
  PROVE  /\ {p.ns : p \in ListProjects(db)} = Names(db.events)
         /\ IsFiniteSet(Names(db.events))
         /\ Cardinality(ListProjects(db)) = Cardinality(Names(db.events))
<1> DEFINE entry(ns) == [ns |-> ns,
                         project_path |-> ProjectPath(InScope(db.events, ns)),
                         event_count  |-> Cardinality(InScope(db.events, ns)),
                         memory_count |-> Cardinality(InScope(db.records, ns))]
           names == Names(db.events)
           list == {entry(ns) : ns \in names}
           f == [ns \in names |-> entry(ns)]
<1>1. ListProjects(db) = list BY DEF ListProjects, Names
<1>2. \A ns : entry(ns).ns = ns OBVIOUS
<1> HIDE DEF entry
<1>3. {p.ns : p \in list} = names BY <1>2
<1>4. IsFiniteSet(names) BY NamesFinite
<1>5. f \in Bijection(names, list)
  <2>1. f \in [names -> list] OBVIOUS
  <2>2. \A x, y \in names : f[x] = f[y] => x = y BY <1>2
  <2>3. \A p \in list : \E x \in names : f[x] = p OBVIOUS
  <2> HIDE DEF f, list, names
  <2> QED BY <2>1, <2>2, <2>3 DEF Bijection, Injection, Surjection, IsInjective
<1> HIDE DEF f, list, names
<1>6. ExistsBijection(names, list) BY <1>5 DEF ExistsBijection
<1>7. Cardinality(list) = Cardinality(names) BY <1>4, <1>6, FS_Bijection
<1> QED BY <1>1, <1>3, <1>4, <1>7 DEF names

StatsTrue(body) == CountIsCovered(body) /\ IsFiniteSet({p.ns : p \in body.projects})

LEMMA StatsAnswer ==
  ASSUME NEW earlier, NEW later, IsFiniteSet(later.events), earlier.events \subseteq later.events
  PROVE  StatsTrue(StatsResponse(earlier, later, AllProjects))
<1> DEFINE body == StatsResponse(earlier, later, AllProjects)
<1>1. InScope(earlier.events, AllProjects) = earlier.events BY DEF InScope
<1>2. body.projects = ListProjects(later) /\ body.stats = GetStats(earlier, AllProjects) BY DEF StatsResponse
<1> HIDE DEF body
<1>3. GetStats(earlier, AllProjects).total_projects = Cardinality(Names(earlier.events))
  <2> DEFINE count == TotalProjects(InScope(earlier.events, AllProjects), AllProjects)
  <2>1. GetStats(earlier, AllProjects).total_projects = count BY DEF GetStats
  <2>2. count = Cardinality(Names(earlier.events)) BY <1>1 DEF TotalProjects, Names
  <2> QED BY <2>1, <2>2
<1>4. /\ IsFiniteSet(Names(later.events)) /\ Cardinality(ListProjects(later)) = Cardinality(Names(later.events))
      /\ {p.ns : p \in ListProjects(later)} = Names(later.events)
  BY ProjectsOfEvents
<1>5. Names(earlier.events) \subseteq Names(later.events) BY DEF Names
<1>6. Cardinality(Names(earlier.events)) <= Cardinality(Names(later.events)) BY <1>4, <1>5, FS_Subset
<1>7. CountIsCovered(body) BY <1>2, <1>3, <1>4, <1>6 DEF CountIsCovered
<1>8. IsFiniteSet({p.ns : p \in body.projects}) BY <1>2, <1>4
<1> QED BY <1>7, <1>8 DEF StatsTrue, body

LEMMA MemoriesAnswer ==
  ASSUME NEW db, RowsTrue(db.records)
  PROVE  MemoriesTrue(GetMemories(db, AllProjects, 500, Missing, ListLimit).items)
<1> DEFINE answer == GetMemories(db, AllProjects, 500, Missing, ListLimit)
<1>1. answer.limit \in Nat \ {0} /\ answer.items = Page(db.records, answer.limit, 0)
  BY ListingOfMemories
<1> HIDE DEF answer
<1>2. answer.items \in Seq(db.records) BY <1>1, PageHolds
<1>3. ToSet(answer.items) \subseteq db.records BY <1>2, SequenceSetFinite
<1>4. answer.items \in Seq(RecordRows) BY <1>2 DEF RowsTrue
<1> QED BY <1>3, <1>4 DEF MemoriesTrue, RowsTrue, answer

-----------------------------------------------------------------------------
DbTrue(db, made) ==
  /\ made \in Nat
  /\ db = [events |-> db.events, records |-> db.records]
  /\ IsFiniteSet(db.events) /\ RowsTrue(db.records) /\ \A r \in db.records : r.id <= made

PollTrue(poll, db) ==
  /\ poll = [s \in Sections |-> poll[s]]
  /\ poll["events"].is # "half" /\ poll["memories"].is # "half"
  /\ poll["stats"].is = "half" => poll["stats"].db.events \subseteq db.events
  /\ poll["stats"].is = "ok" => StatsTrue(poll["stats"].body)
  /\ poll["memories"].is = "ok" => MemoriesTrue(poll["memories"].body.items)

ViewTrue(w) ==
  /\ w = [db |-> w.db, made |-> w.made, poll |-> w.poll, view |-> w.view]
  /\ DbTrue(w.db, w.made) /\ PollTrue(w.poll, w.db) /\ PageTrue(w.view)

ViewInv == part = "view" => ViewTrue(work)

LEMMA FirstViewTrue == PageTrue(FirstView)
<1> DEFINE v == FirstView
<1>1. /\ ViewFields(v) /\ v.projects = {} /\ v.memories = <<>> /\ v.graph = <<>> /\ v.point = None
  BY DEF ViewFields, FirstView
<1>2. IsFiniteSet({}) BY FS_EmptySet
<1>3. MemoriesTrue(<<>>) BY DEF MemoriesTrue, ToSet
<1> HIDE DEF v
<1>4. PageTrue(v) BY Zenon, <1>1, <1>2, <1>3 DEF PageTrue, FreshClickOpensItsPoint
<1> QED BY <1>4 DEF v

LEMMA ViewInvAtFirst == Init => ViewInv
<1> SUFFICES ASSUME Init, part = "view" PROVE ViewTrue(work) BY DEF ViewInv
<1>1. work = [db |-> NoRows, made |-> 0, poll |-> Unasked, view |-> FirstView]
  BY Zenon DEF Init, GivenABody, GivenRankings, GivenCandidates, GivenTexts,
        GivenHome, GivenFiles, GivenDatabase, GivenReader, GivenViewer
<1>2. DbTrue(NoRows, 0)
  <2>1. IsFiniteSet({}) /\ RowsTrue({}) BY FS_EmptySet DEF RowsTrue
  <2> QED BY <2>1 DEF DbTrue, NoRows
<1>3. PollTrue(Unasked, NoRows)
  <2>1. \A s \in Sections : Unasked[s].is = "unasked" BY DEF Unasked
  <2>2. "events" \in Sections /\ "memories" \in Sections /\ "stats" \in Sections BY DEF Sections
  <2>3. Unasked = [s \in Sections |-> Unasked[s]] BY DEF Unasked
  <2> QED BY <2>1, <2>2, <2>3 DEF PollTrue
<1> QED BY <1>1, <1>2, <1>3, FirstViewTrue DEF ViewTrue

\* One section of the poll gets another state.
LEMMA PollChanges ==
  ASSUME NEW poll, NEW db, PollTrue(poll, db), NEW s \in Sections, NEW answer,
         s # "stats" => answer.is # "half",
         s = "stats" /\ answer.is = "half" => answer.db.events \subseteq db.events,
         s = "stats" /\ answer.is = "ok" => StatsTrue(answer.body),
         s = "memories" /\ answer.is = "ok" => MemoriesTrue(answer.body.items)
  PROVE  PollTrue([poll EXCEPT ![s] = answer], db)
<1> DEFINE next == [poll EXCEPT ![s] = answer]
<1>1. next = [t \in Sections |-> next[t]] /\ \A t \in Sections : next[t] = IF t = s THEN answer ELSE poll[t]
  BY DEF PollTrue
<1>2. "events" \in Sections /\ "memories" \in Sections /\ "stats" \in Sections BY DEF Sections
<1>3. "events" # "stats" /\ "memories" # "stats" OBVIOUS
<1> HIDE DEF next
<1>4. PollTrue(next, db) BY <1>1, <1>2, <1>3 DEF PollTrue
<1> QED BY <1>4 DEF next

LEMMA ViewInvKept == ViewInv /\ [Next]_vars => ViewInv'
<1> SUFFICES ASSUME ViewTrue(work), [Next]_vars, part = "view" PROVE ViewTrue(work')
  BY EachPartBySteps DEF ViewInv
<1> DEFINE w(db, made, poll, view) == [db |-> db, made |-> made, poll |-> poll, view |-> view]
<1>1. /\ work = w(work.db, work.made, work.poll, work.view)
      /\ DbTrue(work.db, work.made) /\ PollTrue(work.poll, work.db) /\ PageTrue(work.view)
  BY DEF ViewTrue
<1>2. ASSUME NEW db, NEW made, NEW poll, NEW view, work' = w(db, made, poll, view),
             DbTrue(db, made), PollTrue(poll, db), PageTrue(view)
      PROVE  ViewTrue(work')
  <2>1. work'.db = db /\ work'.made = made /\ work'.poll = poll /\ work'.view = view BY <1>2
  <2>2. work' = [db |-> work'.db, made |-> work'.made, poll |-> work'.poll, view |-> work'.view] BY <1>2
  <2> QED BY <1>2, <2>1, <2>2 DEF ViewTrue
<1>3. ASSUME NEW view, work' = [work EXCEPT !.view = view], PageTrue(view) PROVE ViewTrue(work')
  <2>1. work' = w(work.db, work.made, work.poll, view) BY <1>1, <1>3
  <2> HIDE DEF w
  <2> QED BY <1>1, <1>2, <1>3, <2>1
<1>4. ASSUME NEW poll, NEW view, work' = [work EXCEPT !.poll = poll, !.view = view],
             PollTrue(poll, work.db), PageTrue(view)
      PROVE  ViewTrue(work')
  <2>1. work' = w(work.db, work.made, poll, view) BY <1>1, <1>4
  <2> HIDE DEF w
  <2> QED BY <1>1, <1>2, <1>4, <2>1
<1>5. ASSUME NEW s \in Sections, NEW answer, Answer(s, answer), PollTrue([work.poll EXCEPT ![s] = answer], work.db)
      PROVE  ViewTrue(work')
  <2> DEFINE poll == [work.poll EXCEPT ![s] = answer]
  <2>1. work' = [work EXCEPT !.poll = poll] BY <1>5 DEF Answer, Become
  <2> HIDE DEF poll
  <2>2. work' = w(work.db, work.made, poll, work.view) BY <1>1, <2>1
  <2> HIDE DEF w
  <2> QED BY <1>1, <1>2, <1>5, <2>2 DEF poll
<1>6. "events" \in Sections /\ "memories" \in Sections /\ "stats" \in Sections
      /\ "events" # "stats" /\ "memories" # "stats" /\ "events" # "memories"
  BY DEF Sections
<1>7. ASSUME NEW db, PollTrue(work.poll, work.db), work.db.events \subseteq db.events PROVE PollTrue(work.poll, db)
  BY <1>7 DEF PollTrue
<1> HIDE DEF w
<1>8. CASE EventArrives
  <2>1. PICK db \in StoresEvent(work.db) : work' = [work EXCEPT !.db = db] BY <1>8 DEF EventArrives, Become
  <2>2. PICK e \in EventRows : db = [work.db EXCEPT !.events = work.db.events \cup {e}] BY <2>1 DEF StoresEvent
  <2>3. db = [events |-> work.db.events \cup {e}, records |-> work.db.records]
    BY <1>1, <2>2 DEF DbTrue
  <2>4. IsFiniteSet(work.db.events \cup {e}) BY <1>1, FS_AddElement DEF DbTrue
  <2>5. DbTrue(db, work.made) /\ work.db.events \subseteq db.events
    <3>1. db.events = work.db.events \cup {e} /\ db.records = work.db.records BY <2>3
    <3>2. db = [events |-> db.events, records |-> db.records] BY <2>3
    <3> QED BY <1>1, <2>4, <3>1, <3>2 DEF DbTrue
  <2>6. work' = w(db, work.made, work.poll, work.view) BY <1>1, <2>1 DEF w
  <2>7. PollTrue(work.poll, db) BY <1>1, <1>7, <2>5
  <2> QED BY <1>1, <1>2, <2>5, <2>6, <2>7
<1>9. CASE RecordArrives
  <2>1. PICK db \in StoresRecord(work.db, work.made) : work' = [work EXCEPT !.db = db, !.made = @ + 1]
    BY <1>9 DEF RecordArrives, Become
  <2>2. /\ db = [events |-> work.db.events, records |-> db.records]
        /\ RowsTrue(db.records) /\ \A r \in db.records : r.id <= work.made + 1
    BY <1>1, StoredRecord DEF DbTrue
  <2>3. DbTrue(db, work.made + 1) /\ work.db.events \subseteq db.events
    <3>1. db.events = work.db.events BY <2>2
    <3> QED BY <1>1, <2>2, <3>1 DEF DbTrue
  <2>4. work' = w(db, work.made + 1, work.poll, work.view) BY <1>1, <2>1 DEF w
  <2>5. PollTrue(work.poll, db) BY <1>1, <1>7, <2>3
  <2> QED BY <1>1, <1>2, <2>3, <2>4, <2>5
<1>10. CASE PollBegins
  <2> DEFINE poll == [s \in Sections |-> [is |-> "asked"]]
  <2>1. work' = [work EXCEPT !.poll = poll] BY <1>10 DEF PollBegins, Become
  <2>2. PollTrue(poll, work.db)
    <3>1. poll = [s \in Sections |-> poll[s]] /\ \A s \in Sections : poll[s].is = "asked" OBVIOUS
    <3> HIDE DEF poll
    <3> QED BY <1>6, <3>1 DEF PollTrue
  <2> HIDE DEF poll
  <2>3. work' = w(work.db, work.made, poll, work.view) BY <1>1, <2>1 DEF w
  <2> QED BY <1>1, <1>2, <2>2, <2>3
<1>11. CASE StatsAreRead
  <2> DEFINE answer == [is |-> "half", db |-> work.db]
  <2>1. Answer("stats", answer) BY <1>11 DEF StatsAreRead
  <2>2. answer.is = "half" /\ answer.db = work.db OBVIOUS
  <2> HIDE DEF answer
  <2>3. PollTrue([work.poll EXCEPT !["stats"] = answer], work.db) BY <1>1, <1>6, <2>2, PollChanges
  <2> QED BY <1>5, <1>6, <2>1, <2>3
<1>12. ASSUME NEW s \in Sections, Answered(s) PROVE ViewTrue(work')
  <2>1. CASE work.poll[s].is = "half" /\ Answer(s, [is |-> "ok", body |-> StatsResponse(work.poll[s].db, work.db, AllProjects)])
    <3> DEFINE body == StatsResponse(work.poll[s].db, work.db, AllProjects)
               answer == [is |-> "ok", body |-> body]
    <3>1. s = "stats" BY <1>1, <2>1 DEF PollTrue, Sections
    <3>2. StatsTrue(body)
      <4>1. work.poll[s].db.events \subseteq work.db.events BY <1>1, <2>1, <3>1 DEF PollTrue
      <4> QED BY <1>1, <4>1, StatsAnswer DEF DbTrue
    <3>3. answer.is = "ok" /\ answer.body = body OBVIOUS
    <3>4. Answer(s, answer) BY <2>1
    <3> HIDE DEF answer, body
    <3>5. PollTrue([work.poll EXCEPT ![s] = answer], work.db) BY <1>1, <1>6, <3>1, <3>2, <3>3, PollChanges
    <3> QED BY <1>5, <3>4, <3>5
  <2>2. CASE s = "events" /\ Answer(s, [is |-> "ok", body |-> GetEvents(work.db, AllProjects, 50, 200)])
    <3> DEFINE answer == [is |-> "ok", body |-> GetEvents(work.db, AllProjects, 50, 200)]
    <3>1. answer.is = "ok" OBVIOUS
    <3>2. Answer(s, answer) BY <2>2
    <3> HIDE DEF answer
    <3>3. PollTrue([work.poll EXCEPT ![s] = answer], work.db) BY <1>1, <1>6, <2>2, <3>1, PollChanges
    <3> QED BY <1>5, <3>2, <3>3
  <2>3. CASE s = "memories" /\ Answer(s, [is |-> "ok", body |-> GetMemories(work.db, AllProjects, 500, Missing, ListLimit)])
    <3> DEFINE body == GetMemories(work.db, AllProjects, 500, Missing, ListLimit)
               answer == [is |-> "ok", body |-> body]
    <3>1. MemoriesTrue(body.items) BY <1>1, MemoriesAnswer DEF DbTrue
    <3>2. answer.is = "ok" /\ answer.body = body OBVIOUS
    <3>3. Answer(s, answer) BY <2>3
    <3> HIDE DEF answer, body
    <3>4. PollTrue([work.poll EXCEPT ![s] = answer], work.db) BY <1>1, <1>6, <2>3, <3>1, <3>2, PollChanges
    <3> QED BY <1>5, <3>3, <3>4
  <2> QED BY Zenon, <1>12, <2>1, <2>2, <2>3 DEF Answered
<1>13. ASSUME NEW s \in Sections, RequestFails(s) PROVE ViewTrue(work')
  <2> DEFINE answer == [is |-> "failed"]
  <2>1. Answer(s, answer) BY <1>13 DEF RequestFails
  <2>2. answer.is = "failed" OBVIOUS
  <2> HIDE DEF answer
  <2>3. PollTrue([work.poll EXCEPT ![s] = answer], work.db) BY <1>1, <2>2, PollChanges
  <2> QED BY <1>5, <2>1, <2>3
<1>14. CASE PollShows
  <2>1. ASSUME NEW s \in Sections, NEW before, NEW view, Shows(s, before, view), PageTrue(view) PROVE ViewTrue(work')
    <3> DEFINE answer == [is |-> "unasked"]
               poll == [work.poll EXCEPT ![s] = answer]
    <3>1. work' = [work EXCEPT !.poll = poll, !.view = view] BY <2>1 DEF Shows, Become
    <3>2. answer.is = "unasked" OBVIOUS
    <3> HIDE DEF answer
    <3>3. PollTrue(poll, work.db) BY <1>1, <3>2, PollChanges
    <3> HIDE DEF poll
    <3> QED BY <1>4, <2>1, <3>1, <3>3
  <2>2. CASE Shows("stats", {}, ShowStats(work.view, Body("stats") # None, Body("stats")))
    <3> DEFINE ok == Body("stats") # None
               body == Body("stats")
               view == ShowStats(work.view, ok, body)
    <3>1. ok => IsFiniteSet({p.ns : p \in body.projects})
      <4>1. CASE work.poll["stats"].is = "ok" BY <1>1, <4>1 DEF PollTrue, StatsTrue, Body
      <4>2. CASE work.poll["stats"].is # "ok" BY <4>2 DEF Body
      <4> QED BY <4>1, <4>2
    <3>2. PageTrue(view)
      <4> HIDE DEF ok, body
      <4> QED BY <1>1, <3>1, ShowStatsTrue
    <3>3. Shows("stats", {}, view) BY <2>2
    <3> HIDE DEF view
    <3> QED BY <1>6, <2>1, <3>2, <3>3
  <2>3. CASE Shows("events", {"stats"}, ShowEvents(work.view, Body("events") # None, Body("events")))
    <3> DEFINE ok == Body("events") # None
               body == Body("events")
               view == ShowEvents(work.view, ok, body)
    <3>1. PageTrue(view)
      <4> HIDE DEF ok, body
      <4> QED BY <1>1, ShowEventsTrue
    <3>2. Shows("events", {"stats"}, view) BY <2>3
    <3> HIDE DEF view
    <3> QED BY <1>6, <2>1, <3>1, <3>2
  <2>4. CASE Shows("memories", {"stats", "events"},
                   ShowMemories(work.view, Body("memories") # None, Body("memories")))
    <3> DEFINE ok == Body("memories") # None
               body == Body("memories")
               view == ShowMemories(work.view, ok, body)
    <3>1. ok => MemoriesTrue(body.items)
      <4>1. CASE work.poll["memories"].is = "ok" BY <1>1, <4>1 DEF PollTrue, Body
      <4>2. CASE work.poll["memories"].is # "ok" BY <4>2 DEF Body
      <4> QED BY <4>1, <4>2
    <3>2. PageTrue(view)
      <4> HIDE DEF ok, body
      <4> QED BY <1>1, <3>1, ShowMemoriesTrue
    <3>3. Shows("memories", {"stats", "events"}, view) BY <2>4
    <3> HIDE DEF view
    <3> QED BY <1>6, <2>1, <3>2, <3>3
  <2> QED BY Zenon, <1>14, <2>2, <2>3, <2>4 DEF PollShows
<1>15. CASE Clicks
  <2>1. PICK i \in DOMAIN work.view.graph : ViewIs(OnClick(work.view, i)) BY <1>15 DEF Clicks
  <2>2. ~PanelIsOpen(work.view) BY <1>15 DEF Clicks
  <2>3. PageTrue(OnClick(work.view, i)) BY <1>1, <2>2, OnClickTrue
  <2> QED BY <1>3, <2>1, <2>3 DEF ViewIs, Become
<1>16. CASE Closes
  <2>1. PageTrue(ClosePanel(work.view)) BY <1>1, ClosePanelTrue
  <2> QED BY <1>3, <1>16, <2>1 DEF Closes, ViewIs, Become
<1>17. CASE Refreshes
  <2>1. PageTrue(Refresh(work.view)) BY <1>1, MountTrue DEF Refresh
  <2> QED BY <1>3, <1>17, <2>1 DEF Refreshes, ViewIs, Become
<1>18. CASE work' = work BY <1>18
<1> QED BY Zenon, <1>8, <1>9, <1>10, <1>11, <1>12, <1>13, <1>14, <1>15, <1>16, <1>17, <1>18, EachPartBySteps DEF ViewStep

LEMMA ViewInvGives == ViewInv => ViewIsTrue /\ ProjectsAreListed
<1> SUFFICES ASSUME ViewTrue(work), part = "view"
             PROVE  /\ FreshClickOpensItsPoint(work.view) /\ LinksStayInProject(work.view)
                    /\ work.poll["stats"].is = "ok" => CountIsCovered(work.poll["stats"].body)
  BY DEF ViewInv, ViewIsTrue, ProjectsAreListed, FreshClicksOpenTheirs, GraphKeepsProjectsApart
<1>1. PageTrue(work.view) /\ PollTrue(work.poll, work.db) BY DEF ViewTrue
<1>2. LinksStayInProject(work.view) BY <1>1, LinksStay DEF LinksStayInProject, PageTrue
<1> QED BY <1>1, <1>2 DEF PageTrue, PollTrue, StatsTrue

(*----------------------------------------------------------------------------*)
(* The project of a directory                                                 *)
(*----------------------------------------------------------------------------*)

LEMMA PrefixByPlaces ==
  ASSUME NEW S, NEW s \in Seq(S), NEW t \in Seq(S)
  PROVE  IsPrefix(s, t) <=> Len(s) <= Len(t) /\ \A i \in 1..Len(s) : s[i] = t[i]
<1> DEFINE a == SubSeq(s, 1, Len(s))
           b == SubSeq(t, 1, Len(s))
<1>1. Len(s) \in Nat /\ Len(t) \in Nat
  OBVIOUS
<1>2. a \in Seq(S) /\ Len(a) = Len(s) /\ \A i \in 1..Len(s) : a[i] = s[i]
  BY <1>1, SubSeqProperties
<1>3. ASSUME Len(s) <= Len(t)
      PROVE  b \in Seq(S) /\ Len(b) = Len(s) /\ \A i \in 1..Len(s) : b[i] = t[i]
  BY <1>1, <1>3, SubSeqProperties
<1> HIDE DEF a, b
<1>4. ASSUME Len(s) <= Len(t), \A i \in 1..Len(s) : s[i] = t[i] PROVE a = b
  BY <1>2, <1>3, <1>4, SeqEqual
<1>5. ASSUME Len(s) <= Len(t), a = b PROVE \A i \in 1..Len(s) : s[i] = t[i]
  BY <1>2, <1>3, <1>5
<1> QED BY <1>4, <1>5 DEF IsPrefix, a, b

LEMMA PrefixItself ==
  ASSUME NEW S, NEW s \in Seq(S) PROVE IsPrefix(s, s)
BY PrefixByPlaces

\* Two sequences with the same continuation.
LEMMA PrefixesNest ==
  ASSUME NEW S, NEW s \in Seq(S), NEW t \in Seq(S), NEW u \in Seq(S),
         IsPrefix(s, u), IsPrefix(t, u), Len(s) <= Len(t)
  PROVE  IsPrefix(s, t)
<1>1. Len(s) \in Nat /\ Len(t) \in Nat /\ Len(u) \in Nat
  OBVIOUS
<1>2. /\ \A i \in 1..Len(s) : s[i] = u[i]
      /\ \A i \in 1..Len(t) : t[i] = u[i]
  BY PrefixByPlaces
<1>3. \A i \in 1..Len(s) : s[i] = t[i]
  BY <1>1, <1>2
<1> QED BY <1>3, PrefixByPlaces

LEMMA PrefixOfConcat ==
  ASSUME NEW S, NEW s \in Seq(S), NEW t \in Seq(S)
  PROVE  IsPrefix(s, s \o t)
<1>1. s \o t \in Seq(S) /\ Len(s \o t) = Len(s) + Len(t)
      /\ \A i \in 1..Len(s) : (s \o t)[i] = s[i]
  BY ConcatProperties
<1> DEFINE u == s \o t
<1>2. u \in Seq(S) /\ Len(s) \in Nat /\ Len(t) \in Nat /\ Len(s) <= Len(u) /\ \A i \in 1..Len(s) : s[i] = u[i]
  BY <1>1
<1> HIDE DEF u
<1>3. IsPrefix(s, u)
  BY <1>2, PrefixByPlaces
<1> QED BY <1>3 DEF u

\* The equation of the walk of Nearest.
Walks(w, path, ceiling, marked) ==
  \A n \in 0..Len(path) :
    w[n] = IF n = 0 \/ SubSeq(path, 1, n) = ceiling THEN ceiling
           ELSE IF SubSeq(path, 1, n) \in marked THEN SubSeq(path, 1, n)
           ELSE w[n - 1]

LEMMA WalkEquation ==
  ASSUME NEW S, NEW path \in Seq(S), NEW ceiling \in Seq(S), NEW marked
  PROVE  \E w : Nearest(path, ceiling, marked) = w[Len(path)] /\ Walks(w, path, ceiling, marked)
<1> DEFINE D == 0..Len(path)
           above(n) == SubSeq(path, 1, n)
           Eq(w) == w = [n \in D |-> IF n = 0 \/ above(n) = ceiling THEN ceiling
                                     ELSE IF above(n) \in marked THEN above(n)
                                     ELSE w[n - 1]]
           stop == {n \in D : n = 0 \/ above(n) = ceiling \/ above(n) \in marked}
           B == {ceiling} \cup {above(n) : n \in D}
           down == [n \in D |-> IF n = 0 THEN 0 ELSE n - 1]
           m == [n \in D |-> n]
           start == [n \in D |-> IF n = 0 \/ above(n) = ceiling THEN ceiling ELSE above(n)]
           step == [p \in D \X B |-> p[2]]
<1>1. Len(path) \in Nat
  OBVIOUS
<1>2. stop \subseteq D /\ down \in [D -> D] /\ m \in [D -> Nat]
  BY <1>1
<1>3. \A n \in D \ stop : m[down[n]] < m[n]
  BY <1>1
<1>4. start \in [D -> B] /\ step \in [D \X B -> B]
  OBVIOUS
<1>5. \E f \in [D -> B] : Solves(f, D, stop, down, start, step)
  <2> HIDE DEF D, B, stop, down, m, start, step
  <2> QED BY <1>2, <1>3, <1>4, RecursionHasSolution
<1>6. PICK f \in [D -> B] : Solves(f, D, stop, down, start, step)
  BY <1>5, Zenon
<1>7. f = [n \in D |-> IF n \in stop THEN start[n] ELSE step[<<n, f[down[n]]>>]]
  BY <1>6, Zenon DEF Solves
<1>8. ASSUME NEW n \in D
      PROVE  f[n] = IF n = 0 \/ above(n) = ceiling THEN ceiling
                    ELSE IF above(n) \in marked THEN above(n) ELSE f[n - 1]
  <2>1. f[n] = IF n \in stop THEN start[n] ELSE step[<<n, f[down[n]]>>]
    <3> HIDE DEF D, stop, start, step, down
    <3> QED BY <1>7
  <2>2. CASE n \in stop
    BY <2>1, <2>2
  <2>3. CASE n \notin stop
    <3>0. down[n] = n - 1 /\ down[n] \in D
      BY <2>3, <1>1
    <3>1. down[n] = n - 1 /\ down[n] \in D /\ f[down[n]] \in B
      <4> HIDE DEF D, B, down
      <4> QED BY <3>0, <1>6
    <3>2. step[<<n, f[down[n]]>>] = f[down[n]]
      <4> HIDE DEF down, B, D
      <4> QED BY <3>1
    <3> QED BY <2>1, <2>3, <3>1, <3>2
  <2> QED BY <2>2, <2>3
<1>9. Eq(f)
  <2> HIDE DEF above, D
  <2>1. f = [n \in D |-> f[n]]
    BY <1>6
  <2> QED BY <1>8, <2>1
<1> DEFINE w == CHOOSE g : Eq(g)
<1>10. Eq(w)
  <2> HIDE DEF Eq
  <2> QED BY <1>9, Zenon
<1>11. Nearest(path, ceiling, marked) = w[Len(path)]
  BY Zenon DEF Nearest
<1> HIDE DEF w
<1>12. \A n \in D : w[n] = IF n = 0 \/ above(n) = ceiling THEN ceiling
                            ELSE IF above(n) \in marked THEN above(n) ELSE w[n - 1]
  <2> HIDE DEF above, D
  <2> QED BY <1>10
<1>13. Walks(w, path, ceiling, marked)
  BY <1>12 DEF Walks
<1> QED BY <1>11, <1>13

\* The walk of detectProjectRoot and of detectScope finds the deepest marked
\* directory below the ceiling, if the walk begins below it.
LEMMA NearestIsProject ==
  ASSUME NEW S, NEW path \in Seq(S), NEW ceiling \in Seq(S), NEW marked, IsPrefix(ceiling, path)
  PROVE  Nearest(path, ceiling, marked) = Project(path, ceiling, marked)
<1>0. PICK w : Nearest(path, ceiling, marked) = w[Len(path)] /\ Walks(w, path, ceiling, marked)
  BY WalkEquation, Zenon
<1> DEFINE above(n) == SubSeq(path, 1, n)
           c == Len(ceiling)
           own(n) == {i \in c + 1..n : above(i) \in marked}
           P(n) == IF own(n) = {} THEN ceiling ELSE above(Max(own(n)))
<1>1. /\ Nearest(path, ceiling, marked) = w[Len(path)]
      /\ \A n \in 0..Len(path) :
            w[n] = IF n = 0 \/ above(n) = ceiling THEN ceiling
                   ELSE IF above(n) \in marked THEN above(n) ELSE w[n - 1]
  BY <1>0 DEF Walks
<1>2. Len(path) \in Nat /\ c \in Nat /\ c <= Len(path)
  BY DEF IsPrefix
<1>3. above(c) = ceiling
  <2>1. SubSeq(ceiling, 1, c) = ceiling
    BY SubSeqFull
  <2> QED BY <2>1 DEF IsPrefix
<1>4. ASSUME NEW n \in c + 1..Len(path) PROVE above(n) # ceiling /\ n # 0
  <2>1. Len(above(n)) = n
    BY <1>2, SubSeqProperties
  <2> QED BY <2>1, <1>2
<1> HIDE DEF above
<1>5. w[c] = P(c)
  <2>1. own(c) = {}
    BY <1>2
  <2>2. w[c] = ceiling
    BY <1>1, <1>2, <1>3
  <2> QED BY <2>1, <2>2
<1>6. ASSUME NEW n \in c + 1..Len(path), w[n - 1] = P(n - 1) PROVE w[n] = P(n)
  <2>1. w[n] = IF above(n) \in marked THEN above(n) ELSE w[n - 1]
    BY <1>1, <1>2, <1>4
  <2>2. CASE above(n) \in marked
    <3>1. n \in own(n) /\ \A i \in own(n) : n >= i
      BY <2>2, <1>2
    <3>2. \A i \in own(n) : (\A j \in own(n) : i >= j) => i = n
      BY <3>1, <1>2
    <3>3. Max(own(n)) = n
      <4> HIDE DEF own
      <4> QED BY <3>1, <3>2 DEF Max
    <3>4. own(n) # {}
      BY <3>1
    <3> HIDE DEF own
    <3> QED BY <3>3, <3>4, <2>1, <2>2
  <2>3. CASE above(n) \notin marked
    <3>1. own(n) = own(n - 1)
      BY <2>3, <1>2
    <3> HIDE DEF own
    <3> QED BY <3>1, <2>1, <2>3, <1>6
  <2> QED BY <2>2, <2>3
<1> HIDE DEF P
<1>7. w[Len(path)] = P(Len(path))
  <2> DEFINE Bad == {n \in c..Len(path) : w[n] # P(n)}
  <2> SUFFICES ASSUME Bad # {} PROVE FALSE
    BY <1>2
  <2>1. Bad \subseteq Nat
    BY <1>2
  <2>2. PICK n \in Bad : \A k \in Bad : n <= k
    <3> HIDE DEF Bad
    <3> QED BY <2>1, LeastOfNaturals
  <2>3. n # c
    BY <2>2, <1>5
  <2>4. n \in c + 1..Len(path) /\ n - 1 \in c..Len(path)
    BY <2>2, <2>3, <1>2
  <2>5. w[n - 1] = P(n - 1)
    BY <2>2, <2>4, <1>2
  <2> QED BY <2>2, <2>4, <2>5, <1>6
<1> QED BY <1>1, <1>7 DEF Project, P, above

Dirs == Seq(Seq(STRING))

LEMMA HomesAreApart ==
  /\ \A i \in DOMAIN Homes : Homes[i] \in Dirs
  /\ 1 \in DOMAIN Homes
  /\ \A i, j \in DOMAIN Homes : IsPrefix(Homes[i], Homes[j]) => i = j
  /\ Directories \subseteq Dirs
<1>1. Homes \in Seq(Directories) /\ Homes # <<>> /\ Directories \subseteq Dirs
  BY DirectoriesAssumption DEF Dirs
<1>2. \A i \in DOMAIN Homes : Homes[i] \in Dirs
  BY <1>1
<1>3. 1 \in DOMAIN Homes
  BY <1>1
<1> QED BY <1>1, <1>2, <1>3, DirectoriesAssumption

\* Where realpathSync leads: below the first home, or to the path itself.
LEMMA RealPathIs ==
  ASSUME NEW d \in Directories
  PROVE  \/ \E rest \in Dirs : RealPath(Homes, d) = Homes[1] \o rest
         \/ RealPath(Homes, d) = d /\ \A i \in DOMAIN Homes : ~IsPrefix(Homes[i], d)
<1>1. CASE \E i \in DOMAIN Homes : IsPrefix(Homes[i], d)
  <2> DEFINE i == CHOOSE i \in DOMAIN Homes : IsPrefix(Homes[i], d)
             h == Homes[i]
             rest == SubSeq(d, Len(h) + 1, Len(d))
  <2>1. i \in DOMAIN Homes
    BY <1>1
  <2>2. h \in Dirs /\ d \in Dirs
    <3> HIDE DEF i
    <3> QED BY <2>1, HomesAreApart
  <2>3. rest \in Dirs
    <3> HIDE DEF h
    <3> QED BY <2>2, SubSeqProperties DEF Dirs
  <2>4. RealPath(Homes, d) = Homes[1] \o rest
    BY <1>1 DEF RealPath
  <2> HIDE DEF rest
  <2> QED BY <2>3, <2>4
<1>2. CASE ~\E i \in DOMAIN Homes : IsPrefix(Homes[i], d)
  BY <1>2 DEF RealPath
<1> QED BY <1>1, <1>2

\* Every home is the first one.
LEMMA HomesLeadToFirst ==
  ASSUME NEW k \in DOMAIN Homes
  PROVE  RealPath(Homes, Homes[k]) = Homes[1]
<1> DEFINE d == Homes[k]
           i == CHOOSE i \in DOMAIN Homes : IsPrefix(Homes[i], d)
           h == Homes[i]
           rest == SubSeq(d, Len(h) + 1, Len(d))
<1>1. d \in Dirs /\ IsPrefix(d, d)
  BY HomesAreApart, PrefixItself DEF Dirs
<1>2. i \in DOMAIN Homes /\ IsPrefix(Homes[i], d)
  BY <1>1
<1>3. i = k
  <2> HIDE DEF i
  <2> QED BY <1>2, HomesAreApart
<1>4. RealPath(Homes, d) = Homes[1] \o rest
  BY <1>1 DEF RealPath
<1>5. rest = <<>>
  <2>1. h = d
    BY <1>3
  <2>2. Len(d) \in Nat
    BY <1>1 DEF Dirs
  <2> HIDE DEF h, d
  <2> QED BY <1>1, <2>1, <2>2, SubSeqEmpty DEF Dirs
<1>6. Homes[1] \o <<>> = Homes[1]
  BY HomesAreApart, ConcatEmptySeq DEF Dirs
<1> HIDE DEF rest
<1> QED BY <1>4, <1>5, <1>6

\* Only one home has a directory below it that realpathSync leads to.
LEMMA BelowAnotherHome ==
  ASSUME NEW d \in Directories, NEW k \in DOMAIN Homes, IsPrefix(Homes[k], RealPath(Homes, d))
  PROVE  k = 1
<1> DEFINE r == RealPath(Homes, d)
<1>1. Homes[1] \in Dirs /\ Homes[k] \in Dirs /\ d \in Dirs
  BY HomesAreApart
<1>2. CASE \E rest \in Dirs : r = Homes[1] \o rest
  <2>1. PICK rest \in Dirs : r = Homes[1] \o rest
    BY <1>2
  <2>2. r \in Dirs
    <3> HIDE DEF r
    <3> QED BY <1>1, <2>1, ConcatProperties DEF Dirs
  <2>3. IsPrefix(Homes[1], r)
    BY <1>1, <2>1, PrefixOfConcat DEF Dirs
  <2>4. Len(Homes[1]) \in Nat /\ Len(Homes[k]) \in Nat
    BY <1>1 DEF Dirs
  <2>5. IsPrefix(Homes[1], Homes[k]) \/ IsPrefix(Homes[k], Homes[1])
    <3>1. IsPrefix(Homes[k], r)
      OBVIOUS
    <3> HIDE DEF r
    <3>2. CASE Len(Homes[1]) <= Len(Homes[k])
      BY <3>1, <3>2, <1>1, <2>2, <2>3, PrefixesNest DEF Dirs
    <3>3. CASE Len(Homes[k]) <= Len(Homes[1])
      BY <3>1, <3>3, <1>1, <2>2, <2>3, PrefixesNest DEF Dirs
    <3> QED BY <2>4, <3>2, <3>3
  <2> QED BY <2>5, HomesAreApart
<1>3. CASE r = d /\ \A i \in DOMAIN Homes : ~IsPrefix(Homes[i], d)
  BY <1>3
<1> QED BY <1>2, <1>3, RealPathIs

LEMMA ProjectsAgree ==
  ASSUME NEW k \in DOMAIN Homes, NEW marked
  PROVE  HooksAndInstallerAgree(Directories, Homes[k], Links, marked)
<1> DEFINE home == Homes[k]
           first == Homes[1]
<1>1. home \in Directories /\ Links[home] = first /\ home \in Dirs /\ first \in Dirs
  <2>1. home \in Directories
    BY DirectoriesAssumption
  <2> QED BY <2>1, HomesLeadToFirst, HomesAreApart DEF Links
<1> SUFFICES ASSUME NEW cwd \in Directories
             PROVE  LET hook == DetectProjectRoot(cwd, home, Links, {}, marked)
                        scope == DetectScope(cwd, home, Links, marked)
                        own == IF IsPrefix(Links[home], Links[cwd]) THEN Project(Links[cwd], Links[home], marked)
                               ELSE Links[home]
                    IN /\ hook.root = own
                       /\ scope.kind = "project" => scope.root = own /\ ~hook.isGlobal
                       /\ Links[home] = home => (hook.isGlobal <=> scope.kind # "project")
  BY Zenon DEF HooksAndInstallerAgree
<1> DEFINE r == Links[cwd]
           hook == DetectProjectRoot(cwd, home, Links, {}, marked)
           scope == DetectScope(cwd, home, Links, marked)
           near == Nearest(r, first, marked)
           nearHere == Nearest(r, home, marked)
           own == IF IsPrefix(first, r) THEN Project(r, first, marked) ELSE first
<1>2. r \in Dirs
  <2>1. r = RealPath(Homes, cwd) /\ cwd \in Dirs
    BY HomesAreApart DEF Links
  <2>2. CASE \E rest \in Dirs : r = Homes[1] \o rest
    <3>1. PICK rest \in Dirs : r = Homes[1] \o rest
      BY <2>2
    <3> HIDE DEF r
    <3> QED BY <1>1, <3>1, ConcatProperties DEF Dirs
  <2>3. CASE r = cwd
    BY <2>1, <2>3
  <2> QED BY <2>1, <2>2, <2>3, RealPathIs
<1>3. IsPrefix(home, r) => home = first
  BY BelowAnotherHome DEF Links
<1>4. hook = IF r = first \/ ~IsPrefix(first, r) THEN [root |-> first, isGlobal |-> TRUE]
             ELSE [root |-> near, isGlobal |-> near = first]
  BY <1>1 DEF DetectProjectRoot, Global, IsUnder
<1>5. scope = IF r # home /\ ~IsPrefix(home, r) THEN [kind |-> "outside", root |-> home]
              ELSE IF r = home \/ nearHere = home THEN [kind |-> "global", root |-> home]
              ELSE [kind |-> "project", root |-> nearHere]
  BY DEF DetectScope, Scope, InHome
<1>6. IsPrefix(first, r) => near = Project(r, first, marked)
  <2> HIDE DEF r, first
  <2> QED BY <1>1, <1>2, NearestIsProject DEF Dirs
<1>7. IsPrefix(first, first) /\ Project(first, first, marked) = first
  <2>1. Len(first) \in Nat
    BY <1>1 DEF Dirs
  <2>2. Len(first) + 1..Len(first) = {}
    BY <2>1
  <2> QED BY <1>1, <2>2, PrefixItself DEF Project, Dirs
<1> HIDE DEF r, first, home, near, nearHere
<1>8. home = first => nearHere = near
  BY DEF near, nearHere
<1>9. hook.root = own
  <2>1. CASE r = first
    BY <2>1, <1>4, <1>7
  <2>2. CASE r # first /\ ~IsPrefix(first, r)
    BY <2>2, <1>4
  <2>3. CASE r # first /\ IsPrefix(first, r)
    BY <2>3, <1>4, <1>6
  <2> QED BY <2>1, <2>2, <2>3
<1> HIDE DEF hook, scope
<1>10. ASSUME scope.kind = "project" PROVE scope.root = own /\ ~hook.isGlobal
  <2>1. IsPrefix(home, r) /\ r # home /\ nearHere # home /\ scope.root = nearHere
    BY <1>5, <1>10, <1>7, <1>3
  <2>2. home = first /\ nearHere = near
    BY <2>1, <1>3, <1>8
  <2> QED BY <2>1, <2>2, <1>4, <1>6
<1>11. ASSUME first = home PROVE hook.isGlobal <=> scope.kind # "project"
  BY <1>11, <1>4, <1>5, <1>8, <1>7
<1> QED BY <1>1, <1>9, <1>10, <1>11 DEF r, hook, scope, first

\* A home is one of the homes, and what is marked is what realpathSync leads to.
ProjectInv ==
  part = "project" => work \in [home : ToSet(Homes), marked : SUBSET {Links[d] : d \in Directories}]

LEMMA ProjectInvAtFirst == Init => ProjectInv
<1> SUFFICES ASSUME Init, part = "project" PROVE ProjectInv
  BY DEF ProjectInv
<1>1. work \in [home : ToSet(Homes), marked : {{}}]
  BY Zenon DEF Init, GivenABody, GivenRankings, GivenCandidates, GivenTexts,
        GivenHome, GivenFiles, GivenDatabase, GivenReader, GivenViewer
<1> QED BY <1>1 DEF ProjectInv

LEMMA ProjectInvKept == ProjectInv /\ [Next]_vars => ProjectInv'
<1> SUFFICES ASSUME ProjectInv, [Next]_vars, part = "project" PROVE ProjectInv'
  BY EachPartBySteps DEF ProjectInv
<1>1. work \in [home : ToSet(Homes), marked : SUBSET {Links[d] : d \in Directories}]
  BY DEF ProjectInv
<1>2. ProjectStep \/ work' = work
  BY EachPartBySteps
<1>3. CASE MarkerAppears
  <2>1. PICK d \in Directories : work' = [work EXCEPT !.marked = @ \cup {Links[d]}]
    BY <1>3 DEF MarkerAppears, Become
  <2> QED BY <1>1, <2>1 DEF ProjectInv
<1>4. CASE MarkerGoes
  <2>1. PICK d \in work.marked : work' = [work EXCEPT !.marked = @ \ {d}]
    BY <1>4 DEF MarkerGoes, Become
  <2> QED BY <1>1, <2>1 DEF ProjectInv
<1>5. CASE work' = work
  BY <1>1, <1>5, EachPartBySteps DEF ProjectInv
<1> QED BY <1>2, <1>3, <1>4, <1>5 DEF ProjectStep

LEMMA ProjectInvGives == ProjectInv => OneProject
<1> SUFFICES ASSUME ProjectInv, part = "project"
             PROVE  HooksAndInstallerAgree(Directories, work.home, Links, work.marked)
  BY Zenon DEF OneProject
<1>1. PICK k \in DOMAIN Homes : work.home = Homes[k]
  BY DEF ProjectInv, ToSet
<1> QED BY <1>1, ProjectsAgree, Zenon

(*----------------------------------------------------------------------------*)
(* Clustering: the union-find and the clusters it gives                       *)
(*----------------------------------------------------------------------------*)

\* A forest over nodes: ranks grow towards the roots, and are bounded.
ForestOn(nodes, parent, rank) ==
  /\ parent \in [nodes -> nodes]
  /\ rank \in [nodes -> Nat]
  /\ \A x \in nodes : parent[x] # x => rank[x] < rank[parent[x]]
  /\ \E top \in Nat : \A x \in nodes : rank[x] <= top

\* Induction towards the roots: what holds of a root, and of a node whose parent
\* it holds of, holds of every node.
LEMMA UpTheForest ==
  ASSUME NEW nodes, NEW parent, NEW rank, ForestOn(nodes, parent, rank), NEW Good, Good \subseteq nodes,
         \A x \in nodes : parent[x] = x => x \in Good,
         \A x \in nodes : parent[x] \in Good => x \in Good
  PROVE  Good = nodes
<1>1. PICK top \in Nat : \A x \in nodes : rank[x] <= top
  BY DEF ForestOn
<1> DEFINE m == [x \in nodes |-> top - rank[x]]
           Bad == nodes \ Good
<1>2. m \in [nodes -> Nat]
  BY <1>1 DEF ForestOn
<1> SUFFICES ASSUME Bad # {} PROVE FALSE
  OBVIOUS
<1>3. PICK x \in Bad : \A y \in Bad : m[x] <= m[y]
  <2> HIDE DEF m
  <2> QED BY <1>2, LeastMeasured
<1>4. x \in nodes /\ parent[x] # x /\ parent[x] \in Bad
  BY DEF ForestOn
<1>5. rank[x] < rank[parent[x]] /\ rank[x] \in Nat /\ rank[parent[x]] \in Nat
  BY <1>4 DEF ForestOn
<1>6. m[x] <= m[parent[x]]
  BY <1>3, <1>4
<1>7. m[x] = top - rank[x] /\ m[parent[x]] = top - rank[parent[x]]
  BY <1>4
<1> QED BY <1>5, <1>6, <1>7

Stops(nodes, parent) == {x \in nodes : parent[x] = x}

LEMMA ForestRecursion ==
  ASSUME NEW nodes, NEW parent, NEW rank, ForestOn(nodes, parent, rank), NEW B,
         NEW start \in [nodes -> B], NEW step \in [nodes \X B -> B]
  PROVE  \E f \in [nodes -> B] : Solves(f, nodes, Stops(nodes, parent), parent, start, step)
<1>1. PICK top \in Nat : \A x \in nodes : rank[x] <= top
  BY DEF ForestOn
<1> DEFINE m == [x \in nodes |-> top - rank[x]]
           stop == Stops(nodes, parent)
<1>2. m \in [nodes -> Nat] /\ parent \in [nodes -> nodes] /\ stop \subseteq nodes
  BY <1>1 DEF ForestOn, Stops
<1>3. ASSUME NEW x \in nodes \ stop PROVE m[parent[x]] < m[x]
  <2>1. rank[x] < rank[parent[x]] /\ rank[x] \in Nat /\ rank[parent[x]] \in Nat /\ parent[x] \in nodes
    BY DEF ForestOn, Stops
  <2> QED BY <2>1
<1> HIDE DEF m, stop
<1>4. \E f \in [nodes -> B] : Solves(f, nodes, stop, parent, start, step)
  BY <1>2, <1>3, RecursionHasSolution
<1> QED BY <1>4 DEF stop

FindsRoots(r, nodes, parent) ==
  /\ r \in [nodes -> nodes]
  /\ \A x \in nodes : (parent[x] = x => r[x] = x) /\ r[parent[x]] = r[x]

\* Where find() ends: at a root, from the parent as from the node itself.
LEMMA RootsAreRoots ==
  ASSUME NEW nodes, NEW parent, NEW rank, ForestOn(nodes, parent, rank)
  PROVE  FindsRoots(Roots(parent), nodes, parent)
<1> DEFINE start == [x \in nodes |-> x]
           step == [p \in nodes \X nodes |-> p[2]]
           stop == Stops(nodes, parent)
           Eq(f) == f = [x \in DOMAIN parent |-> IF parent[x] = x THEN x ELSE f[parent[x]]]
<1>1. parent \in [nodes -> nodes] /\ DOMAIN parent = nodes
  BY DEF ForestOn
<1>2. \E f \in [nodes -> nodes] : Solves(f, nodes, stop, parent, start, step)
  <2>1. start \in [nodes -> nodes] /\ step \in [nodes \X nodes -> nodes]
    OBVIOUS
  <2> HIDE DEF start, step
  <2> QED BY <2>1, ForestRecursion, Zenon
<1>3. PICK f \in [nodes -> nodes] : Solves(f, nodes, stop, parent, start, step)
  BY <1>2
<1>4. \A x \in nodes : f[x] = IF parent[x] = x THEN x ELSE f[parent[x]]
  <2>1. f = [x \in nodes |-> IF x \in stop THEN start[x] ELSE step[<<x, f[parent[x]]>>]]
    BY <1>3 DEF Solves
  <2>2. ASSUME NEW x \in nodes PROVE f[x] = IF x \in stop THEN start[x] ELSE step[<<x, f[parent[x]]>>]
    <3> HIDE DEF stop, start, step
    <3> QED BY <2>1
  <2>3. ASSUME NEW x \in nodes PROVE start[x] = x /\ step[<<x, f[parent[x]]>>] = f[parent[x]]
    BY <1>1, <1>3
  <2> HIDE DEF start, step
  <2> QED BY <2>2, <2>3 DEF Stops
<1>5. Eq(f)
  <2>1. f = [x \in nodes |-> f[x]]
    BY <1>3
  <2> QED BY <1>4, <2>1, <1>1
<1> DEFINE root == CHOOSE g : Eq(g)
<1>6. Eq(root)
  <2> HIDE DEF Eq
  <2> QED BY <1>5, Zenon
<1>7. Roots(parent) = root
  BY Zenon DEF Roots
<1> HIDE DEF root
<1>8. \A x \in nodes : root[x] = IF parent[x] = x THEN x ELSE root[parent[x]]
  BY <1>6, <1>1
<1> DEFINE Good == {x \in nodes : root[x] \in nodes}
<1>9. Good = nodes
  <2>1. \A x \in nodes : parent[x] = x => x \in Good
    BY <1>8
  <2>2. \A x \in nodes : parent[x] \in Good => x \in Good
    BY <1>8
  <2>3. Good \subseteq nodes
    OBVIOUS
  <2> HIDE DEF Good
  <2> QED BY <2>1, <2>2, <2>3, UpTheForest
<1>10. root = [x \in nodes |-> root[x]]
  <2>1. DOMAIN root = nodes
    BY <1>6, <1>1
  <2>2. root = [x \in DOMAIN root |-> root[x]]
    BY <1>6
  <2> QED BY <2>1, <2>2
<1>11. root \in [nodes -> nodes]
  BY <1>9, <1>10
<1> QED BY <1>1, <1>7, <1>8, <1>11 DEF FindsRoots

\* What does not change towards the roots, and is a root at the roots, is find().
LEMMA RootsAre ==
  ASSUME NEW nodes, NEW parent, NEW rank, ForestOn(nodes, parent, rank), NEW q,
         q \in [nodes -> nodes],
         \A x \in nodes : parent[x] = x => q[x] = x,
         \A x \in nodes : q[parent[x]] = q[x]
  PROVE  Roots(parent) = q
<1> DEFINE Good == {x \in nodes : Roots(parent)[x] = q[x]}
<1>1. Roots(parent) \in [nodes -> nodes]
      /\ \A x \in nodes : /\ parent[x] = x => Roots(parent)[x] = x
                          /\ Roots(parent)[parent[x]] = Roots(parent)[x]
  BY RootsAreRoots DEF FindsRoots
<1>2. \A x \in nodes : parent[x] = x => x \in Good
  BY <1>1
<1>3. \A x \in nodes : parent[x] \in Good => x \in Good
  BY <1>1
<1>4. Good = nodes
  <2>1. Good \subseteq nodes
    OBVIOUS
  <2> HIDE DEF Good
  <2> QED BY <1>2, <1>3, <2>1, UpTheForest
<1> QED BY <1>1, <1>4

\* Roots are their own parents and have the highest rank on the way to them.
LEMMA RootsOnTop ==
  ASSUME NEW nodes, NEW parent, NEW rank, ForestOn(nodes, parent, rank)
  PROVE  \A x \in nodes : /\ parent[Roots(parent)[x]] = Roots(parent)[x]
                          /\ Roots(parent)[Roots(parent)[x]] = Roots(parent)[x]
                          /\ x # Roots(parent)[x] => rank[x] < rank[Roots(parent)[x]]
<1> DEFINE r == Roots(parent)
           Good == {x \in nodes : /\ parent[r[x]] = r[x]
                                  /\ r[r[x]] = r[x]
                                  /\ x # r[x] => rank[x] < rank[r[x]]}
<1>1. r \in [nodes -> nodes]
      /\ \A x \in nodes : (parent[x] = x => r[x] = x) /\ r[parent[x]] = r[x]
  BY RootsAreRoots DEF FindsRoots
<1>2. \A x \in nodes : parent[x] = x => x \in Good
  BY <1>1
<1>3. ASSUME NEW x \in nodes, parent[x] \in Good PROVE x \in Good
  <2>1. CASE parent[x] = x
    BY <2>1, <1>2
  <2>2. CASE parent[x] # x
    <3> DEFINE p == parent[x]
    <3>1. p \in nodes /\ r[p] = r[x] /\ rank[x] < rank[p] /\ rank[x] \in Nat /\ rank[p] \in Nat
      BY <1>1, <2>2 DEF ForestOn
    <3>2. parent[r[p]] = r[p] /\ r[r[p]] = r[p] /\ (p # r[p] => rank[p] < rank[r[p]])
      BY <1>3
    <3>3. rank[r[x]] \in Nat
      <4>1. r[x] \in nodes
        BY <1>1
      <4> QED BY <4>1 DEF ForestOn
    <3> HIDE DEF p, r
    <3>4. rank[x] < rank[r[x]]
      BY <3>1, <3>2, <3>3
    <3> QED BY <3>1, <3>2, <3>4
  <2> QED BY <2>1, <2>2
<1>4. Good = nodes
  <2>1. Good \subseteq nodes
    OBVIOUS
  <2> HIDE DEF Good
  <2> QED BY <1>2, <1>3, <2>1, UpTheForest
<1> QED BY <1>4

\* The nodes find() walks over have the same root, and are none themselves.
LEMMA PathsLeadToRoot ==
  ASSUME NEW nodes, NEW parent, NEW rank, ForestOn(nodes, parent, rank)
  PROVE  \A x \in nodes : \A y \in Paths(parent)[x] :
           y \in nodes /\ Roots(parent)[y] = Roots(parent)[x] /\ parent[y] # y
<1> DEFINE B == SUBSET nodes
           start == [x \in nodes |-> {}]
           step == [p \in nodes \X B |-> {p[1]} \cup p[2]]
           stop == Stops(nodes, parent)
           Eq(f) == f = [x \in DOMAIN parent |-> IF parent[x] = x THEN {} ELSE {x} \cup f[parent[x]]]
           r == Roots(parent)
<1>1. parent \in [nodes -> nodes] /\ DOMAIN parent = nodes
  BY DEF ForestOn
<1>2. \E f \in [nodes -> B] : Solves(f, nodes, stop, parent, start, step)
  <2>1. start \in [nodes -> B] /\ step \in [nodes \X B -> B]
    <3>1. start \in [nodes -> B]
      OBVIOUS
    <3>2. \A x \in nodes, b \in B : {x} \cup b \in B
      OBVIOUS
    <3> HIDE DEF B
    <3>3. \A p \in nodes \X B : {p[1]} \cup p[2] \in B
      BY <3>2
    <3> QED BY <3>1, <3>3
  <2> HIDE DEF start, step, B
  <2> QED BY <2>1, ForestRecursion, Zenon
<1>3. PICK f \in [nodes -> B] : Solves(f, nodes, stop, parent, start, step)
  BY <1>2
<1>4. \A x \in nodes : f[x] = IF parent[x] = x THEN {} ELSE {x} \cup f[parent[x]]
  <2>1. f = [x \in nodes |-> IF x \in stop THEN start[x] ELSE step[<<x, f[parent[x]]>>]]
    BY <1>3 DEF Solves
  <2>2. ASSUME NEW x \in nodes PROVE f[x] = IF x \in stop THEN start[x] ELSE step[<<x, f[parent[x]]>>]
    <3> HIDE DEF stop, start, step
    <3> QED BY <2>1
  <2>3. ASSUME NEW x \in nodes PROVE start[x] = {} /\ step[<<x, f[parent[x]]>>] = {x} \cup f[parent[x]]
    <3> HIDE DEF B
    <3>1. parent[x] \in nodes /\ f[parent[x]] \in B
      BY <1>1, <1>3
    <3>2. <<x, f[parent[x]]>> \in nodes \X B
      BY <3>1
    <3> QED BY <3>2
  <2> HIDE DEF start, step
  <2> QED BY <2>2, <2>3 DEF Stops
<1>5. Eq(f)
  <2>1. f = [x \in nodes |-> f[x]]
    BY <1>3
  <2> QED BY <1>4, <2>1, <1>1
<1> DEFINE path == CHOOSE g : Eq(g)
<1>6. Eq(path)
  <2> HIDE DEF Eq
  <2> QED BY <1>5, Zenon
<1>7. Paths(parent) = path
  BY Zenon DEF Paths
<1> HIDE DEF path
<1>8. \A x \in nodes : path[x] = IF parent[x] = x THEN {} ELSE {x} \cup path[parent[x]]
  BY <1>6, <1>1
<1>9. r \in [nodes -> nodes]
      /\ \A x \in nodes : (parent[x] = x => r[x] = x) /\ r[parent[x]] = r[x]
  BY RootsAreRoots DEF FindsRoots
<1> HIDE DEF r
<1> DEFINE Good == {x \in nodes : \A y \in path[x] : y \in nodes /\ r[y] = r[x] /\ parent[y] # y}
<1>10. \A x \in nodes : parent[x] = x => x \in Good
  BY <1>8
<1>11. ASSUME NEW x \in nodes, parent[x] \in Good PROVE x \in Good
  <2>1. CASE parent[x] = x
    BY <2>1, <1>10
  <2>2. CASE parent[x] # x
    <3>1. path[x] = {x} \cup path[parent[x]]
      BY <1>8, <2>2
    <3>2. \A y \in path[parent[x]] : y \in nodes /\ r[y] = r[parent[x]] /\ parent[y] # y
      BY <1>11
    <3> QED BY <3>1, <3>2, <2>2, <1>9
  <2> QED BY <2>1, <2>2
<1>12. Good = nodes
  <2>1. Good \subseteq nodes
    OBVIOUS
  <2> HIDE DEF Good
  <2> QED BY <1>10, <1>11, <2>1, UpTheForest
<1> QED BY <1>7, <1>12 DEF r

\* Path compression leaves every root, and the forest a forest.
LEMMA CompressedKeepsRoots ==
  ASSUME NEW nodes, NEW parent, NEW rank, ForestOn(nodes, parent, rank), NEW a \in nodes
  PROVE  /\ ForestOn(nodes, Compressed(parent, a), rank)
         /\ Roots(Compressed(parent, a)) = Roots(parent)
<1> DEFINE r == Roots(parent)
           new == Compressed(parent, a)
<1>1. parent \in [nodes -> nodes] /\ DOMAIN parent = nodes /\ rank \in [nodes -> Nat]
      /\ \A x \in nodes : parent[x] # x => rank[x] < rank[parent[x]]
  BY DEF ForestOn
<1>2. r \in [nodes -> nodes]
      /\ \A x \in nodes : (parent[x] = x => r[x] = x) /\ r[parent[x]] = r[x]
  BY RootsAreRoots DEF FindsRoots
<1>3. \A x \in nodes : parent[r[x]] = r[x] /\ r[r[x]] = r[x] /\ (x # r[x] => rank[x] < rank[r[x]])
  BY RootsOnTop
<1>4. \A y \in Path(parent, a) : y \in nodes /\ r[y] = r[a] /\ parent[y] # y
  BY PathsLeadToRoot DEF Path
<1>5. new = [y \in nodes |-> IF y \in Path(parent, a) THEN r[a] ELSE parent[y]]
  BY <1>1 DEF Compressed, Root
<1> HIDE DEF r, new
<1>6. new \in [nodes -> nodes]
  BY <1>1, <1>2, <1>5
<1>7. ASSUME NEW x \in nodes PROVE /\ new[x] = x => r[x] = x
                                   /\ r[new[x]] = r[x]
                                   /\ new[x] # x => rank[x] < rank[new[x]]
  <2>1. CASE x \in Path(parent, a)
    <3>1. new[x] = r[a] /\ r[x] = r[a] /\ parent[x] # x
      BY <1>4, <1>5, <2>1
    <3>2. r[x] # x
      BY <1>3, <3>1
    <3> QED BY <3>1, <3>2, <1>3
  <2>2. CASE x \notin Path(parent, a)
    BY <1>1, <1>2, <1>5, <2>2
  <2> QED BY <2>1, <2>2
<1>8. ForestOn(nodes, new, rank)
  BY <1>1, <1>6, <1>7 DEF ForestOn
<1>9. Roots(new) = r
  BY <1>2, <1>7, <1>8, RootsAre
<1> QED BY <1>8, <1>9 DEF new, r

\* One node hung below another one.
HungBelow(parent, low, high) == [parent EXCEPT ![low] = high]

\* Hanging one root below another one whose rank is higher, or becomes so, makes
\* one class of two.
LEMMA HangingMerges ==
  ASSUME NEW nodes, NEW parent, NEW rank, ForestOn(nodes, parent, rank),
         NEW low \in nodes, NEW high \in nodes, low # high, parent[low] = low, parent[high] = high,
         NEW rank2 \in [nodes -> Nat], \A x \in nodes \ {high} : rank2[x] = rank[x],
         rank[high] <= rank2[high], rank[low] < rank2[high]
  PROVE  /\ ForestOn(nodes, HungBelow(parent, low, high), rank2)
         /\ \A x \in nodes : Roots(HungBelow(parent, low, high))[x] =
                              IF Roots(parent)[x] = low THEN high ELSE Roots(parent)[x]
<1> DEFINE r == Roots(parent)
           new == [parent EXCEPT ![low] = high]
           q == [x \in nodes |-> IF r[x] = low THEN high ELSE r[x]]
<1>1. parent \in [nodes -> nodes] /\ DOMAIN parent = nodes /\ rank \in [nodes -> Nat]
      /\ \A x \in nodes : parent[x] # x => rank[x] < rank[parent[x]]
  BY DEF ForestOn
<1>2. PICK top \in Nat : \A x \in nodes : rank[x] <= top
  BY DEF ForestOn
<1>3. r \in [nodes -> nodes]
      /\ \A x \in nodes : (parent[x] = x => r[x] = x) /\ r[parent[x]] = r[x]
  BY RootsAreRoots DEF FindsRoots
<1> HIDE DEF r
<1>4. new \in [nodes -> nodes] /\ new[low] = high /\ \A x \in nodes \ {low} : new[x] = parent[x]
  BY <1>1
<1> HIDE DEF new
<1>5. ASSUME NEW x \in nodes, new[x] # x PROVE rank2[x] < rank2[new[x]]
  <2>1. CASE x = low
    BY <2>1, <1>4
  <2>2. CASE x # low
    <3>1. new[x] = parent[x] /\ x # high /\ rank[x] < rank[parent[x]] /\ rank2[x] = rank[x]
      BY <1>1, <1>4, <1>5, <2>2
    <3>2. parent[x] \in nodes /\ rank[parent[x]] \in Nat /\ rank2[parent[x]] \in Nat /\ rank[x] \in Nat
      BY <1>1
    <3>3. rank[parent[x]] <= rank2[parent[x]]
      BY <3>2
    <3> QED BY <3>1, <3>2, <3>3
  <2> QED BY <2>1, <2>2
<1>6. \E t \in Nat : \A x \in nodes : rank2[x] <= t
  <2>1. top + rank2[high] \in Nat
    BY <1>2
  <2>2. ASSUME NEW x \in nodes PROVE rank2[x] <= top + rank2[high]
    <3>1. rank2[x] \in Nat /\ rank2[high] \in Nat /\ rank[x] \in Nat /\ rank[x] <= top
      BY <1>1, <1>2
    <3> QED BY <3>1, <1>2
  <2> QED BY <2>1, <2>2
<1>7. ForestOn(nodes, new, rank2)
  BY <1>4, <1>5, <1>6 DEF ForestOn
<1>8. q \in [nodes -> nodes]
  BY <1>3
<1>9. ASSUME NEW x \in nodes PROVE (new[x] = x => q[x] = x) /\ q[new[x]] = q[x]
  <2>1. CASE x = low
    <3>1. r[low] = low /\ r[high] = high
      BY <1>3
    <3> QED BY <2>1, <3>1, <1>4
  <2>2. CASE x # low
    BY <2>2, <1>1, <1>3, <1>4
  <2> QED BY <2>1, <2>2
<1> HIDE DEF q
<1>10. Roots(new) = q
  BY <1>7, <1>8, <1>9, RootsAre
<1>11. \A x \in nodes : Roots(new)[x] = IF r[x] = low THEN high ELSE r[x]
  <2> HIDE DEF new
  <2> QED BY <1>10 DEF q
<1> QED BY <1>7, <1>11, Zenon DEF new, r, HungBelow

\* Which nodes a union of a and b puts together.
JoinedBy(r, a, b, x, y) ==
  r[x] = r[y] \/ (r[x] = r[a] /\ r[y] = r[b]) \/ (r[x] = r[b] /\ r[y] = r[a])

\* A forest of the union-find, and what find() does in it.
ForestIs(forest, nodes) ==
  /\ forest = [parent |-> forest.parent, rank |-> forest.rank]
  /\ ForestOn(nodes, forest.parent, forest.rank)

LEMMA ParentReplaced ==
  ASSUME NEW p, NEW k, NEW f, NEW c, NEW g, f = [parent |-> p, rank |-> k], g = [f EXCEPT !.parent = c]
  PROVE  g = [parent |-> c, rank |-> k]
OBVIOUS

LEMMA LinkHangs ==
  ASSUME NEW p, NEW k, NEW f, f = [parent |-> p, rank |-> k], NEW ra, NEW rb, NEW a, NEW b,
         NEW g, g = Link(f, ra, rb, a, b), k[ra] \in Nat, k[rb] \in Nat
  PROVE  \/ k[ra] < k[rb] /\ g = [parent |-> HungBelow(p, ra, rb), rank |-> k]
         \/ k[rb] < k[ra] /\ g = [parent |-> HungBelow(p, rb, ra), rank |-> k]
         \/ k[ra] = k[rb] /\ g = [parent |-> HungBelow(p, rb, ra), rank |-> [k EXCEPT ![ra] = @ + 1]]
<1> DEFINE l == f.rank[ra] < f.rank[rb]
           m == f.rank[ra] > f.rank[rb]
           s == f.rank[ra] = f.rank[rb]
           x == [f EXCEPT !.parent[ra] = rb]
           y == [f EXCEPT !.parent[rb] = ra]
           z == [f EXCEPT !.parent[rb] = ra, !.rank[ra] = @ + 1]
<1>1. g = CASE l -> x [] m -> y [] s -> z
  BY Zenon DEF Link
<1>2. f.rank = k
  OBVIOUS
<1>3. l \/ m \/ s
  BY <1>2
<1>4. (l => k[ra] < k[rb] /\ ~m /\ ~s) /\ (m => k[rb] < k[ra] /\ ~l /\ ~s) /\ (s => k[ra] = k[rb] /\ ~l /\ ~m)
  BY <1>2
<1>5. ASSUME g = x PROVE g = [parent |-> HungBelow(p, ra, rb), rank |-> k]
  <2>1. g = [f EXCEPT !.parent[ra] = rb]
    BY <1>5
  <2> HIDE DEF x
  <2> QED BY <2>1 DEF HungBelow
<1>6. ASSUME g = y PROVE g = [parent |-> HungBelow(p, rb, ra), rank |-> k]
  <2>1. g = [f EXCEPT !.parent[rb] = ra]
    BY <1>6
  <2> HIDE DEF y
  <2> QED BY <2>1 DEF HungBelow
<1>7. ASSUME g = z PROVE g = [parent |-> HungBelow(p, rb, ra), rank |-> [k EXCEPT ![ra] = @ + 1]]
  <2>1. g = [f EXCEPT !.parent[rb] = ra, !.rank[ra] = @ + 1]
    BY <1>7
  <2> HIDE DEF z
  <2> QED BY <2>1 DEF HungBelow
<1> HIDE DEF l, m, s, x, y, z
<1>8. (l => g = x) /\ (m => g = y) /\ (s => g = z)
  BY <1>1, <1>4
<1> QED BY <1>3, <1>4, <1>5, <1>6, <1>7, <1>8, Zenon

\* Of two roots one is hung below the other.
LEMMA LinkMerges ==
  ASSUME NEW nodes, NEW p, NEW k, NEW f, f = [parent |-> p, rank |-> k], ForestOn(nodes, p, k),
         NEW a \in nodes, NEW b \in nodes,
         Roots(p)[a] # Roots(p)[b],
         NEW g, g = Link(f, Roots(p)[a], Roots(p)[b], a, b)
  PROVE  /\ ForestIs(g, nodes)
         /\ \A x, y \in nodes : Roots(g.parent)[x] = Roots(g.parent)[y] <=> JoinedBy(Roots(p), a, b, x, y)
<1> DEFINE r == Roots(p)
           ra == r[a]
           rb == r[b]
<1>1. p \in [nodes -> nodes] /\ DOMAIN p = nodes /\ k \in [nodes -> Nat]
  BY DEF ForestOn
<1>2. r \in [nodes -> nodes]
      /\ \A x \in nodes : (p[x] = x => r[x] = x) /\ r[p[x]] = r[x]
  BY RootsAreRoots DEF FindsRoots
<1>3. \A x \in nodes : p[r[x]] = r[x] /\ r[r[x]] = r[x]
  BY RootsOnTop
<1>4. ra \in nodes /\ rb \in nodes /\ ra # rb /\ p[ra] = ra /\ p[rb] = rb /\ k[ra] \in Nat /\ k[rb] \in Nat
  BY <1>1, <1>2, <1>3
<1>5. g = Link(f, ra, rb, a, b)
  OBVIOUS
<1> HIDE DEF r, ra, rb
\* Whichever is hung below the other: the classes are what is claimed.
<1>6. ASSUME NEW low \in nodes, NEW high \in nodes, {low, high} = {ra, rb}, NEW g2, NEW k2 \in [nodes -> Nat],
             g2 = [parent |-> HungBelow(p, low, high), rank |-> k2],
             \A x \in nodes \ {high} : k2[x] = k[x], k[high] <= k2[high], k[low] < k2[high]
      PROVE  /\ ForestIs(g2, nodes)
             /\ \A x, y \in nodes : Roots(g2.parent)[x] = Roots(g2.parent)[y] <=> JoinedBy(r, a, b, x, y)
  <2>1. low # high /\ p[low] = low /\ p[high] = high
    BY <1>4, <1>6
  <2> DEFINE new == HungBelow(p, low, high)
  <2>2. /\ ForestOn(nodes, new, k2)
        /\ \A x \in nodes : Roots(new)[x] = IF r[x] = low THEN high ELSE r[x]
    <3>1. k2 \in [nodes -> Nat] /\ (\A x \in nodes \ {high} : k2[x] = k[x]) /\ k[high] <= k2[high] /\ k[low] < k2[high]
      BY <1>6
    <3> QED BY <2>1, <3>1, HangingMerges, SMTT(60) DEF r
  <2>3. g2.parent = new /\ g2.rank = k2 /\ g2 = [parent |-> new, rank |-> k2]
    <3> HIDE DEF new
    <3>1. g2 = [parent |-> new, rank |-> k2]
      BY <1>6 DEF new
    <3> QED BY <3>1
  <2> HIDE DEF new
  <2>4. \A x \in nodes : Roots(new)[x] = IF r[x] = low THEN high ELSE r[x]
    BY <2>2
  <2>5. \A x, y \in nodes : Roots(new)[x] = Roots(new)[y] <=> JoinedBy(r, a, b, x, y)
    <3> TAKE x, y \in nodes
    <3>1. CASE low = ra /\ high = rb
      BY <2>1, <2>4, <3>1 DEF JoinedBy, ra, rb
    <3>2. CASE low = rb /\ high = ra
      BY <2>1, <2>4, <3>2 DEF JoinedBy, ra, rb
    <3> QED BY <1>6, <2>1, <3>1, <3>2
  <2> QED BY <2>2, <2>3, <2>5 DEF ForestIs
<1>7. \/ k[ra] < k[rb] /\ g = [parent |-> HungBelow(p, ra, rb), rank |-> k]
      \/ k[rb] < k[ra] /\ g = [parent |-> HungBelow(p, rb, ra), rank |-> k]
      \/ k[ra] = k[rb] /\ g = [parent |-> HungBelow(p, rb, ra), rank |-> [k EXCEPT ![ra] = @ + 1]]
  <2>1. k[ra] \in Nat /\ k[rb] \in Nat
    BY <1>4
  <2> QED BY <1>5, <2>1, LinkHangs, SMTT(60)
<1> DEFINE k2 == [k EXCEPT ![ra] = @ + 1]
<1>8. k2 \in [nodes -> Nat] /\ k2[ra] = k[ra] + 1 /\ \A x \in nodes \ {ra} : k2[x] = k[x]
  BY <1>1, <1>4
<1>9. {rb, ra} = {ra, rb}
  OBVIOUS
<1>10. CASE k[ra] < k[rb] /\ g = [parent |-> HungBelow(p, ra, rb), rank |-> k]
  BY <1>1, <1>4, <1>6, <1>10 DEF r
<1>11. CASE k[rb] < k[ra] /\ g = [parent |-> HungBelow(p, rb, ra), rank |-> k]
  BY <1>1, <1>4, <1>6, <1>9, <1>11 DEF r
<1>12. CASE k[ra] = k[rb] /\ g = [parent |-> HungBelow(p, rb, ra), rank |-> k2]
  <2>1. k[ra] <= k2[ra] /\ k[rb] < k2[ra]
    BY <1>4, <1>8, <1>12
  <2> HIDE DEF k2
  <2> QED BY <1>4, <1>6, <1>8, <1>9, <1>12, <2>1 DEF r
<1> QED BY <1>7, <1>10, <1>11, <1>12

\* A union, its compressions included, puts two classes together.
LEMMA UnionMerges ==
  ASSUME NEW nodes, NEW f, ForestIs(f, nodes), NEW a \in nodes, NEW b \in nodes
  PROVE  /\ ForestIs(Union(f, a, b), nodes)
         /\ \A x, y \in nodes :
              Roots(Union(f, a, b).parent)[x] = Roots(Union(f, a, b).parent)[y]
                <=> JoinedBy(Roots(f.parent), a, b, x, y)
<1> DEFINE p == f.parent
           k == f.rank
           c == Compressed(Compressed(p, a), b)
           found == [f EXCEPT !.parent = Compressed(Compressed(@, a), b)]
           r == Roots(p)
<1>1. f = [parent |-> p, rank |-> k] /\ ForestOn(nodes, p, k)
  BY DEF ForestIs
<1>2. ForestOn(nodes, c, k) /\ Roots(c) = r
  <2>1. ForestOn(nodes, Compressed(p, a), k) /\ Roots(Compressed(p, a)) = r
    BY <1>1, CompressedKeepsRoots
  <2> QED BY <2>1, CompressedKeepsRoots
<1>3. found = [parent |-> c, rank |-> k]
  <2> HIDE DEF c
  <2>1. found = [f EXCEPT !.parent = c]
    BY DEF c
  <2> HIDE DEF found, p, k
  <2> QED BY <1>1, <2>1, ParentReplaced
<1>4. Union(f, a, b) = IF r[a] = r[b] THEN found ELSE Link(found, r[a], r[b], a, b)
  BY Zenon DEF Union, Root
<1> HIDE DEF found, c
<1>5. CASE r[a] = r[b]
  <2>1. Union(f, a, b) = found /\ found.parent = c /\ found.rank = k
    BY <1>3, <1>4, <1>5
  <2>2. ForestIs(found, nodes)
    BY <1>2, <1>3, <2>1 DEF ForestIs
  <2> HIDE DEF r
  <2>3. \A x, y \in nodes : r[x] = r[y] <=> JoinedBy(r, a, b, x, y)
    BY <1>5 DEF JoinedBy
  <2> QED BY <1>2, <2>1, <2>2, <2>3 DEF r
<1>6. CASE r[a] # r[b]
  <2> HIDE DEF r, p, k
  <2>1. Union(f, a, b) = Link(found, Roots(c)[a], Roots(c)[b], a, b) /\ Roots(c)[a] # Roots(c)[b]
    BY <1>2, <1>4, <1>6
  <2>2. /\ ForestIs(Union(f, a, b), nodes)
        /\ \A x, y \in nodes : Roots(Union(f, a, b).parent)[x] = Roots(Union(f, a, b).parent)[y]
                                 <=> JoinedBy(Roots(c), a, b, x, y)
    BY <1>2, <1>3, <2>1, LinkMerges
  <2> QED BY <1>2, <2>2 DEF r, p
<1> QED BY <1>5, <1>6

\* What the forest says of the pairs seen: their ends have one root, and no closed
\* set separates two candidates of one root.
ClassesAre(r, nodes, seen) ==
  /\ \A p \in seen : p \in nodes \X nodes /\ r[p[1]] = r[p[2]]
  /\ \A set \in SUBSET nodes : Closed(set, seen) =>
       \A x, y \in nodes : r[x] = r[y] /\ x \in set => y \in set

LEMMA ClassesAreChains ==
  ASSUME NEW nodes, NEW r, NEW seen, ClassesAre(r, nodes, seen), NEW a \in nodes
  PROVE  Reach(seen, nodes, a) = {b \in nodes : r[b] = r[a]}
<1> DEFINE class == {b \in nodes : r[b] = r[a]}
<1>1. ASSUME NEW b \in Reach(seen, nodes, a) PROVE b \in class
  <2>1. class \in SUBSET nodes /\ a \in class
    OBVIOUS
  <2>2. Closed(class, seen)
    BY DEF Closed, ClassesAre
  <2> HIDE DEF class
  <2> QED BY <1>1, <2>1, <2>2 DEF Reach
<1>2. ASSUME NEW b \in class PROVE b \in Reach(seen, nodes, a)
  <2>1. b \in nodes /\ r[b] = r[a]
    OBVIOUS
  <2>2. ASSUME NEW set \in SUBSET nodes, a \in set, Closed(set, seen) PROVE b \in set
    BY <2>1, <2>2 DEF ClassesAre
  <2> QED BY <2>1, <2>2 DEF Reach
<1>3. Reach(seen, nodes, a) \subseteq class /\ class \subseteq Reach(seen, nodes, a)
  BY <1>1, <1>2
<1> QED BY <1>3

\* No pair seen: every candidate is a class.
LEMMA NoUnionsAreForest ==
  ASSUME NEW n \in Nat
  PROVE  /\ ForestIs(NoUnions(n), 1..n)
         /\ ClassesAre(Roots(NoUnions(n).parent), 1..n, {})
<1> DEFINE p == [i \in 1..n |-> i]
           k == [i \in 1..n |-> 0]
           f == NoUnions(n)
<1>1. f = [parent |-> p, rank |-> k] /\ f.parent = p /\ f.rank = k
  BY DEF NoUnions
<1>2. p \in [1..n -> 1..n] /\ k \in [1..n -> Nat] /\ \A x \in 1..n : p[x] = x /\ k[x] = 0
  OBVIOUS
<1> HIDE DEF p, k, f
<1>3. ForestOn(1..n, p, k)
  BY <1>2 DEF ForestOn
<1>4. ForestIs(f, 1..n)
  BY <1>1, <1>3 DEF ForestIs
<1>5. Roots(p) = p
  BY <1>2, <1>3, RootsAre
<1>6. ClassesAre(p, 1..n, {})
  BY <1>2 DEF ClassesAre
<1> QED BY <1>1, <1>4, <1>5, <1>6 DEF f

\* A union for a pair that was not seen before leaves the classes right.
LEMMA UnionKeepsClasses ==
  ASSUME NEW nodes, NEW r, NEW r2, NEW seen, ClassesAre(r, nodes, seen), NEW a \in nodes, NEW b \in nodes,
         \A x, y \in nodes : r2[x] = r2[y] <=> JoinedBy(r, a, b, x, y)
  PROVE  ClassesAre(r2, nodes, seen \cup {<<a, b>>})
<1> DEFINE more == seen \cup {<<a, b>>}
<1>1. ASSUME NEW p \in more PROVE p \in nodes \X nodes /\ r2[p[1]] = r2[p[2]]
  <2>1. CASE p \in seen
    BY <2>1 DEF ClassesAre, JoinedBy
  <2>2. CASE p = <<a, b>>
    BY <2>2 DEF JoinedBy
  <2> QED BY <2>1, <2>2
<1>2. ASSUME NEW set \in SUBSET nodes, Closed(set, more), NEW x \in nodes, NEW y \in nodes,
             r2[x] = r2[y], x \in set
      PROVE  y \in set
  <2>1. Closed(set, seen) /\ (a \in set <=> b \in set)
    <3>1. <<a, b>> \in more /\ \A p \in seen : p \in more
      OBVIOUS
    <3>2. <<a, b>>[1] \in set <=> <<a, b>>[2] \in set
      BY <1>2, <3>1 DEF Closed
    <3> HIDE DEF more
    <3> QED BY <1>2, <3>1, <3>2 DEF Closed
  <2>2. \A u, v \in nodes : r[u] = r[v] /\ u \in set => v \in set
    BY <2>1 DEF ClassesAre
  <2>3. JoinedBy(r, a, b, x, y)
    BY <1>2
  <2> QED BY <1>2, <2>1, <2>2, <2>3 DEF JoinedBy
<1> QED BY <1>1, <1>2 DEF ClassesAre

\* ---- the scan ----
ScannedBefore(pair) == {p \in Nat \X Nat : p[1] < pair[1] \/ (p[1] = pair[1] /\ p[2] < pair[2])}

\* The state of the scan: where it is, what it has seen, and the forest.
ScanTrue(c) ==
  /\ c = [n |-> c.n, embedded |-> c.embedded, near |-> c.near, seen |-> c.seen, pair |-> c.pair, forest |-> c.forest]
  /\ c.n \in Nat \ {0} /\ c.embedded \subseteq 1..c.n
  /\ c.near \subseteq {p \in c.embedded \X c.embedded : p[1] < p[2]}
  /\ c.pair \in Nat \X Nat /\ 1 <= c.pair[1] /\ c.pair[1] < c.pair[2]
  /\ c.pair[1] <= c.n /\ (c.pair[1] < c.n => c.pair[2] <= c.n)
  /\ c.seen = c.near \cap ScannedBefore(c.pair)
  /\ ForestIs(c.forest, 1..c.n)
  /\ ClassesAre(Roots(c.forest.parent), 1..c.n, c.seen)

NextIsRight(next, n, near, pair) ==
  /\ next \in Nat \X Nat /\ 1 <= next[1] /\ next[1] < next[2]
  /\ next[1] <= n /\ (next[1] < n => next[2] <= n)
  /\ near \cap ScannedBefore(next) = (near \cap ScannedBefore(pair)) \cup ({pair} \cap near)

Ascends(near, n) == near \subseteq {p \in (1..n) \X (1..n) : p[1] < p[2]}

LEMMA ScanSeesNext ==
  ASSUME NEW n \in Nat, NEW near, Ascends(near, n),
         NEW i \in Nat, NEW j \in Nat, 1 <= i, i < j, i < n, j <= n
  PROVE  NextIsRight(NextPair(n, <<i, j>>), n, near, <<i, j>>)
<1> DEFINE next == NextPair(n, <<i, j>>)
<1> SUFFICES /\ next \in Nat \X Nat /\ 1 <= next[1] /\ next[1] < next[2]
             /\ next[1] <= n /\ (next[1] < n => next[2] <= n)
             /\ near \cap ScannedBefore(next) = (near \cap ScannedBefore(<<i, j>>)) \cup ({<<i, j>>} \cap near)
  BY DEF NextIsRight
<1>1. CASE j < n
  <2>1. next = <<i, j + 1>>
    BY <1>1 DEF NextPair
  <2>2. ASSUME NEW p \in near
        PROVE  p \in ScannedBefore(next) <=> p \in ScannedBefore(<<i, j>>) \/ p = <<i, j>>
    <3>1. PICK u \in 1..n, v \in 1..n : p = <<u, v>> /\ u < v
      BY DEF Ascends
    <3> QED BY <2>1, <3>1 DEF ScannedBefore
  <2> QED BY <1>1, <2>1, <2>2
<1>2. CASE j = n
  <2>1. next = <<i + 1, i + 2>>
    BY <1>2 DEF NextPair
  <2>2. ASSUME NEW p \in near
        PROVE  p \in ScannedBefore(next) <=> p \in ScannedBefore(<<i, j>>) \/ p = <<i, j>>
    <3>1. PICK u \in 1..n, v \in 1..n : p = <<u, v>> /\ u < v
      BY DEF Ascends
    <3> QED BY <2>1, <3>1, <1>2 DEF ScannedBefore
  <2> QED BY <1>2, <2>1, <2>2
<1> QED BY <1>1, <1>2

LEMMA ScanGoesOn ==
  ASSUME NEW c, ScanTrue(c), ~ScanEnds(c.n, c.pair), NEW d,
         d = [n |-> c.n, embedded |-> c.embedded, near |-> c.near,
              seen |-> c.seen \cup ({c.pair} \cap c.near), pair |-> NextPair(c.n, c.pair),
              forest |-> Scan(c.forest, c.near, c.pair)]
  PROVE  ScanTrue(d)
<1> DEFINE n == c.n
           nodes == 1..c.n
           a == c.pair[1]
           b == c.pair[2]
           near == c.near
<1>1. /\ n \in Nat \ {0} /\ c.embedded \subseteq nodes
      /\ near \subseteq {p \in c.embedded \X c.embedded : p[1] < p[2]}
      /\ a \in Nat /\ b \in Nat /\ c.pair = <<a, b>> /\ 1 <= a /\ a < b /\ a < n /\ b <= n
      /\ c.seen = near \cap ScannedBefore(c.pair)
      /\ ForestIs(c.forest, nodes)
      /\ ClassesAre(Roots(c.forest.parent), nodes, c.seen)
  BY DEF ScanTrue, ScanEnds
<1>2. near \subseteq {p \in nodes \X nodes : p[1] < p[2]}
  BY <1>1
<1>3. /\ d.n = n /\ d.embedded = c.embedded /\ d.near = near
      /\ d.seen = c.seen \cup ({c.pair} \cap near) /\ d.pair = NextPair(n, c.pair)
      /\ d.forest = Scan(c.forest, near, c.pair)
      /\ d = [n |-> d.n, embedded |-> d.embedded, near |-> d.near, seen |-> d.seen, pair |-> d.pair, forest |-> d.forest]
  OBVIOUS
<1>4. a \in nodes /\ b \in nodes
  BY <1>1
<1> DEFINE next == NextPair(n, c.pair)
<1>5. /\ next \in Nat \X Nat /\ 1 <= next[1] /\ next[1] < next[2]
      /\ next[1] <= n /\ (next[1] < n => next[2] <= n)
      /\ near \cap ScannedBefore(next) = (near \cap ScannedBefore(c.pair)) \cup ({c.pair} \cap near)
  <2>1. n \in Nat /\ Ascends(near, n) /\ a \in Nat /\ b \in Nat /\ 1 <= a /\ a < b /\ a < n /\ b <= n
    BY <1>1, <1>2 DEF Ascends
  <2>2. c.pair = <<a, b>>
    BY <1>1
  <2> HIDE DEF n, a, b, near, nodes
  <2>3. NextIsRight(NextPair(n, <<a, b>>), n, near, <<a, b>>)
    BY <2>1, ScanSeesNext
  <2>4. NextIsRight(next, n, near, c.pair)
    BY <2>2, <2>3
  <2> HIDE DEF next
  <2> QED BY <2>4 DEF NextIsRight
<1> HIDE DEF next, n, a, b, nodes, near
<1>6. ForestIs(d.forest, nodes) /\ ClassesAre(Roots(d.forest.parent), nodes, d.seen)
  <2>1. CASE c.pair \in near
    <3>1. d.forest = Union(c.forest, a, b) /\ d.seen = c.seen \cup {<<a, b>>}
      BY <1>1, <1>3, <2>1 DEF Scan, a, b
    <3>2. /\ ForestIs(Union(c.forest, a, b), nodes)
          /\ \A x, y \in nodes :
              Roots(Union(c.forest, a, b).parent)[x] = Roots(Union(c.forest, a, b).parent)[y]
                <=> JoinedBy(Roots(c.forest.parent), a, b, x, y)
      BY <1>1, <1>4, UnionMerges
    <3> QED BY <1>1, <1>4, <3>1, <3>2, UnionKeepsClasses
  <2>2. CASE c.pair \notin near
    <3>1. d.forest = c.forest /\ d.seen = c.seen
      BY <1>3, <2>2 DEF Scan
    <3> QED BY <1>1, <3>1
  <2> QED BY <2>1, <2>2
<1>7. d.n = n /\ d.embedded = c.embedded /\ d.near = near /\ d.pair = next
      /\ d.seen = near \cap ScannedBefore(next)
  BY <1>1, <1>3, <1>5 DEF next
<1> QED BY <1>1, <1>3, <1>5, <1>6, <1>7 DEF ScanTrue, nodes

LEMMA AscendingHolds ==
  ASSUME NEW S, NEW s, AscendsOver(s, S)
  PROVE  ToSet(s) = S
BY DEF AscendsOver, ToSet

\* The least member comes first.
LEMMA AscendingBeginsWithLeast ==
  ASSUME NEW S, S \subseteq Nat, NEW s, AscendsOver(s, S), NEW x \in S, \A y \in S : x <= y
  PROVE  s[1] = x
<1>1. PICK i \in 1..Cardinality(S) : s[i] = x
  BY DEF AscendsOver
<1>2. 1 \in 1..Cardinality(S) /\ s[1] \in S /\ Cardinality(S) \in Nat
  BY <1>1 DEF AscendsOver
<1>3. ~(s[1] < x)
  <2>1. x \in Nat /\ s[1] \in Nat /\ x <= s[1]
    BY <1>2
  <2> QED BY <2>1
<1>4. i = 1
  <2>1. ~(1 < i) => i = 1
    BY <1>1, <1>2
  <2>2. 1 < i => s[1] < s[i]
    BY <1>1, <1>2 DEF AscendsOver
  <2> QED BY <1>1, <1>3, <2>1, <2>2
<1> QED BY <1>1, <1>4

\* A candidate without an embedding is alone.
LEMMA UnembeddedAreAlone ==
  ASSUME NEW nodes, NEW r, NEW embedded, NEW near, near \subseteq embedded \X embedded,
         ClassesAre(r, nodes, near), NEW x \in nodes, x \notin embedded, NEW y \in nodes, r[x] = r[y]
  PROVE  y = x
<1>1. {x} \in SUBSET nodes /\ Closed({x}, near)
  BY DEF Closed
<1> QED BY <1>1 DEF ClassesAre

LEMMA ChainsDecideForest ==
  ASSUME NEW c, ScanTrue(c)
  PROVE  ChainsShareRoots(c.forest, c.seen)
<1> DEFINE nodes == 1..c.n
           r == Roots(c.forest.parent)
<1>1. DOMAIN c.forest.parent = nodes /\ ClassesAre(r, nodes, c.seen)
  BY DEF ScanTrue, ForestIs, ForestOn
<1>2. \A a \in nodes : Reach(c.seen, nodes, a) = {b \in nodes : r[b] = r[a]}
  <2> HIDE DEF nodes, r
  <2> QED BY <1>1, ClassesAreChains
<1> QED BY <1>1, <1>2 DEF ChainsShareRoots

LEMMA ClustersAtTheEnd ==
  ASSUME NEW c, ScanTrue(c), ScanEnds(c.n, c.pair)
  PROVE  ClustersAreChains(Clusters(c.forest), c.near, c.n, c.embedded)
<1> DEFINE n == c.n
           nodes == 1..n
           near == c.near
           r == Roots(c.forest.parent)
           class(a) == {i \in nodes : r[i] = r[a]}
           leaders == {i \in nodes : \A j \in nodes : j < i => r[j] # r[i]}
           first == Ascending(leaders)
           clusters == Clusters(c.forest)
<1>1. /\ n \in Nat /\ c.embedded \subseteq nodes
      /\ near \subseteq {p \in c.embedded \X c.embedded : p[1] < p[2]}
      /\ c.pair \in Nat \X Nat /\ c.pair[1] >= n
      /\ c.seen = near \cap ScannedBefore(c.pair)
      /\ DOMAIN c.forest.parent = nodes
      /\ ClassesAre(r, nodes, c.seen)
      /\ ForestOn(nodes, c.forest.parent, c.forest.rank)
  BY DEF ScanTrue, ScanEnds, ForestIs, ForestOn
<1>2. r \in [nodes -> nodes]
  BY <1>1, RootsAreRoots DEF FindsRoots
<1>3. c.seen = near
  <2>1. ASSUME NEW p \in near PROVE p \in ScannedBefore(c.pair)
    <3>1. PICK u \in 1..n, v \in 1..n : p = <<u, v>> /\ u < v
      BY <1>1
    <3>2. c.pair[1] \in Nat /\ u < c.pair[1]
      BY <1>1, <3>1
    <3> QED BY <3>1, <3>2, <1>1 DEF ScannedBefore
  <2> QED BY <1>1, <2>1
<1>4. \A a \in nodes : Reach(near, nodes, a) = class(a)
  <2> HIDE DEF nodes, r, near
  <2>1. ClassesAre(r, nodes, near)
    BY <1>1, <1>3
  <2>2. ASSUME NEW a \in nodes PROVE Reach(near, nodes, a) = {b \in nodes : r[b] = r[a]}
    BY <2>1, ClassesAreChains
  <2> QED BY <2>2
<1>5. clusters = [k \in DOMAIN first |-> Ascending(class(first[k]))]
  BY <1>1, Zenon DEF Clusters
<1> HIDE DEF r, near, clusters
<1>6. IsFiniteSet(nodes) /\ nodes \subseteq Nat
  <2>1. n \in Nat
    BY <1>1
  <2> HIDE DEF n
  <2> QED BY <2>1, FS_Interval
<1>7. AscendsOver(first, leaders)
  <2>1. leaders \subseteq nodes
    OBVIOUS
  <2>2. IsFiniteSet(leaders) /\ leaders \subseteq Nat
    <3> HIDE DEF leaders, nodes
    <3> QED BY <1>6, <2>1, FS_Subset
  <2> HIDE DEF leaders
  <2> QED BY <2>2, AscendingAscends
<1> HIDE DEF first
<1>8. ASSUME NEW k \in DOMAIN first
      PROVE  /\ first[k] \in leaders /\ first[k] \in nodes
             /\ AscendsOver(clusters[k], class(first[k]))
             /\ ToSet(clusters[k]) = class(first[k])
             /\ clusters[k][1] = first[k]
  <2>1. first[k] \in leaders
    <3> HIDE DEF leaders
    <3> QED BY <1>7 DEF AscendsOver
  <2> DEFINE f == first[k]
             C == class(f)
  <2>2. f \in nodes
    BY <2>1
  <2>3. clusters[k] = Ascending(C)
    BY <1>5
  <2>4. C \subseteq nodes
    OBVIOUS
  <2>5. C \subseteq Nat /\ IsFiniteSet(C)
    <3> HIDE DEF C, nodes
    <3> QED BY <1>6, <2>4, FS_Subset
  <2>6. f \in C /\ \A y \in C : f <= y
    <3> HIDE DEF f
    <3>1. f \in C
      BY <2>2
    <3>2. ASSUME NEW y \in C PROVE f <= y
      <4>1. ~(y < f)
        BY <2>1, <3>2 DEF f
      <4> QED BY <1>1, <2>2, <4>1
    <3> QED BY <3>1, <3>2
  <2> HIDE DEF C, f
  <2>7. AscendsOver(clusters[k], C)
    BY <2>3, <2>5, AscendingAscends
  <2>8. ToSet(clusters[k]) = C
    BY <2>7, AscendingHolds
  <2>9. clusters[k][1] = f
    BY <2>5, <2>6, <2>7, AscendingBeginsWithLeast
  <2> QED BY <2>1, <2>2, <2>7, <2>8, <2>9 DEF C, f
<1>9. DOMAIN clusters = DOMAIN first /\ \A k \in DOMAIN first : clusters[k] \in ToSet(clusters)
  BY <1>5 DEF ToSet
<1>10. \A s \in ToSet(clusters) : \E k \in DOMAIN first : s = clusters[k]
  BY <1>9 DEF ToSet
<1>11. UNION {ToSet(s) : s \in ToSet(clusters)} = 1..n
  <2>1. ASSUME NEW i \in nodes PROVE \E s \in ToSet(clusters) : i \in ToSet(s)
    <3>1. i \in class(i) /\ class(i) \subseteq Nat
      BY <1>6
    <3>2. PICK f \in class(i) : \A y \in class(i) : f <= y
      BY <3>1, LeastOfNaturals
    <3>3. f \in leaders
      <4> SUFFICES ASSUME NEW j \in nodes, j < f PROVE r[j] # r[f]
        BY <3>2
      <4>1. ~(f <= j)
        BY <1>6, <3>1
      <4> QED BY <3>2, <4>1
    <3>4. PICK k \in DOMAIN first : first[k] = f
      <4> HIDE DEF leaders
      <4> QED BY <3>3, <1>7 DEF AscendsOver
    <3>5. i \in class(first[k])
      BY <3>2, <3>4
    <3> QED BY <1>8, <1>9, <3>5
  <2>2. ASSUME NEW s \in ToSet(clusters) PROVE ToSet(s) \subseteq nodes
    <3>1. PICK k \in DOMAIN first : s = clusters[k]
      BY <1>10
    <3> QED BY <1>8, <3>1
  <2> QED BY <2>1, <2>2
<1>12. ASSUME NEW s \in ToSet(clusters), NEW i \in ToSet(s) PROVE ToSet(s) = Reach(near, 1..n, i)
  <2>1. PICK k \in DOMAIN first : s = clusters[k]
    BY <1>10
  <2>2. ToSet(s) = class(first[k]) /\ i \in class(first[k])
    BY <1>8, <2>1
  <2>3. class(first[k]) = class(i) /\ i \in nodes
    BY <2>2
  <2> QED BY <1>4, <2>2, <2>3
<1>13. ASSUME NEW s \in ToSet(clusters), Len(s) > 1 PROVE HasCentroid(s, c.embedded)
  <2>1. PICK k \in DOMAIN first : s = clusters[k]
    BY <1>10
  <2> DEFINE C == class(first[k])
  <2>2. ToSet(s) = C /\ AscendsOver(s, C)
    BY <1>8, <2>1
  <2> SUFFICES ASSUME NEW x \in C, x \notin c.embedded PROVE FALSE
    BY <2>2 DEF HasCentroid
  <2>3. \A y \in C : y = x
    <3>1. near \subseteq c.embedded \X c.embedded /\ ClassesAre(r, nodes, near)
      BY <1>1, <1>3
    <3>2. ASSUME NEW y \in C PROVE y = x
      <4>1. x \in nodes /\ y \in nodes /\ r[x] = r[y]
        OBVIOUS
      <4> HIDE DEF nodes, C
      <4> QED BY <3>1, <4>1, UnembeddedAreAlone
    <3> QED BY <3>2
  <2> HIDE DEF C
  <2>4. 1 \in 1..Cardinality(C) /\ 2 \in 1..Cardinality(C)
    BY <1>13, <2>2 DEF AscendsOver
  <2>5. s[1] \in C /\ s[2] \in C /\ s[1] < s[2]
    BY <2>2, <2>4 DEF AscendsOver
  <2>6. s[1] = x /\ s[2] = x
    BY <2>3, <2>5
  <2>7. C \subseteq Nat
    BY <1>6 DEF C
  <2> QED BY <2>5, <2>6, <2>7
<1>14. ASSUME NEW k \in 1..Len(clusters) - 1 PROVE clusters[k][1] < clusters[k + 1][1]
  <2> DEFINE m == Cardinality(leaders)
  <2>1. DOMAIN first = 1..m /\ m \in Nat
    <3> HIDE DEF leaders
    <3> QED BY <1>7 DEF AscendsOver
  <2>2. Len(clusters) = m
    <3>1. clusters \in Seq(ToSet(clusters)) /\ DOMAIN clusters = 1..m
      <4> HIDE DEF m
      <4>1. clusters = [j \in 1..m |-> clusters[j]]
        BY <1>5, <2>1
      <4> QED BY <1>9, <2>1, <4>1
    <3> HIDE DEF m
    <3> QED BY <2>1, <3>1
  <2>3. k \in 1..m /\ k + 1 \in 1..m /\ k < k + 1
    <3> HIDE DEF m
    <3> QED BY <2>1, <2>2
  <2>4. first[k] < first[k + 1]
    <3> HIDE DEF leaders
    <3> QED BY <1>7, <2>3 DEF AscendsOver
  <2> HIDE DEF m
  <2> QED BY <1>8, <2>1, <2>3, <2>4
<1> QED BY <1>11, <1>12, <1>13, <1>14 DEF ClustersAreChains, clusters, near

ClusterInv == part = "cluster" => ScanTrue(work)

LEMMA ClusterInvAtFirst == Init => ClusterInv
<1> SUFFICES ASSUME Init, part = "cluster" PROVE ScanTrue(work)
  BY DEF ClusterInv
<1>1. \E n \in 1..MaxBatch : \E embedded \in SUBSET (1..n) : \E near \in SUBSET Pairs(embedded) :
       work = [n |-> n, embedded |-> embedded, near |-> near, seen |-> {}, pair |-> <<1, 2>>, forest |-> NoUnions(n)]
  BY Zenon DEF Init, GivenABody, GivenRankings, GivenCandidates, GivenTexts,
        GivenHome, GivenFiles, GivenDatabase, GivenReader, GivenViewer
<1>2. PICK n \in 1..MaxBatch : \E embedded \in SUBSET (1..n) : \E near \in SUBSET Pairs(embedded) :
       work = [n |-> n, embedded |-> embedded, near |-> near, seen |-> {}, pair |-> <<1, 2>>, forest |-> NoUnions(n)]
  BY <1>1
<1>3. PICK embedded \in SUBSET (1..n) : \E near \in SUBSET Pairs(embedded) :
       work = [n |-> n, embedded |-> embedded, near |-> near, seen |-> {}, pair |-> <<1, 2>>, forest |-> NoUnions(n)]
  BY <1>2
<1>4. PICK near \in SUBSET Pairs(embedded) :
       work = [n |-> n, embedded |-> embedded, near |-> near, seen |-> {}, pair |-> <<1, 2>>, forest |-> NoUnions(n)]
  BY <1>3
<1>5. n \in Nat \ {0}
  BY BatchAssumption
<1>6. /\ work = [n |-> work.n, embedded |-> work.embedded, near |-> work.near, seen |-> work.seen,
                 pair |-> work.pair, forest |-> work.forest]
      /\ work.n = n /\ work.embedded = embedded /\ work.near = near /\ work.seen = {} /\ work.pair = <<1, 2>>
      /\ work.forest = NoUnions(n)
  BY <1>4
<1>7. near \cap ScannedBefore(<<1, 2>>) = {}
  <2> SUFFICES ASSUME NEW p \in near, p \in ScannedBefore(<<1, 2>>) PROVE FALSE
    OBVIOUS
  <2>1. p \in Pairs(embedded)
    OBVIOUS
  <2>2. p \in embedded \X embedded /\ p[1] < p[2]
    BY <2>1 DEF Pairs
  <2>3. p[1] \in embedded /\ p[2] \in embedded
    BY <2>2
  <2>4. p[1] \in 1..n /\ p[2] \in 1..n
    BY <2>3
  <2>5. p[1] < 1 \/ (p[1] = 1 /\ p[2] < 2)
    BY DEF ScannedBefore
  <2> QED BY <1>5, <2>2, <2>4, <2>5
<1>8. near \subseteq {p \in embedded \X embedded : p[1] < p[2]}
  BY DEF Pairs
<1>9. ForestIs(NoUnions(n), 1..n) /\ ClassesAre(Roots(NoUnions(n).parent), 1..n, {})
  BY <1>5, NoUnionsAreForest
<1>10. /\ <<1, 2>> \in Nat \X Nat /\ 1 <= <<1, 2>>[1] /\ <<1, 2>>[1] < <<1, 2>>[2]
       /\ <<1, 2>>[1] <= n /\ (<<1, 2>>[1] < n => <<1, 2>>[2] <= n)
  BY <1>5
<1> QED BY <1>5, <1>6, <1>7, <1>8, <1>9, <1>10 DEF ScanTrue

LEMMA ClusterInvKept == ClusterInv /\ [Next]_vars => ClusterInv'
<1> SUFFICES ASSUME ClusterInv, [Next]_vars, part = "cluster" PROVE ClusterInv'
  BY EachPartBySteps DEF ClusterInv
<1>1. ScanTrue(work)
  BY DEF ClusterInv
<1>2. ScansPair \/ work' = work
  BY EachPartBySteps
<1>3. CASE ScansPair
  <2>1. ~ScanEnds(work.n, work.pair)
        /\ work' = [work EXCEPT !.forest = Scan(@, work.near, work.pair),
                                !.seen = @ \cup ({work.pair} \cap work.near),
                                !.pair = NextPair(work.n, @)]
    BY <1>3 DEF ScansPair, Become
  <2>2. work = [n |-> work.n, embedded |-> work.embedded, near |-> work.near, seen |-> work.seen,
                pair |-> work.pair, forest |-> work.forest]
    BY <1>1 DEF ScanTrue
  <2>3. work' = [n |-> work.n, embedded |-> work.embedded, near |-> work.near,
                 seen |-> work.seen \cup ({work.pair} \cap work.near), pair |-> NextPair(work.n, work.pair),
                 forest |-> Scan(work.forest, work.near, work.pair)]
    BY <2>1, <2>2
  <2>4. ScanTrue(work')
    BY <1>1, <2>1, <2>3, ScanGoesOn
  <2> QED BY <2>4 DEF ClusterInv
<1>4. CASE work' = work
  BY <1>1, <1>4 DEF ClusterInv
<1> QED BY <1>2, <1>3, <1>4

LEMMA ClusterInvGives == ClusterInv => ClusteringIsRight
<1> SUFFICES ASSUME ClusterInv PROVE ClusteringIsRight
  OBVIOUS
<1>1. ForestFollowsChains
  BY ChainsDecideForest DEF ForestFollowsChains, ClusterInv
<1>2. ClustersAreComplete
  BY ClustersAtTheEnd DEF ClustersAreComplete, ClusterInv
<1> QED BY <1>1, <1>2 DEF ClusteringIsRight

(*----------------------------------------------------------------------------*)
(* Search: the fusion of two rankings                                         *)
(*----------------------------------------------------------------------------*)

LEMMA MultipleSteps ==
  Multiple[0] = 1 /\ \A m \in Nat : Multiple[m + 1] = (RrfK + m + 1) * Multiple[m]
<1> DEFINE down == [m \in Nat |-> IF m = 0 THEN 0 ELSE m - 1]
           id == [m \in Nat |-> m]
           start == [m \in Nat |-> 1]
           step == [p \in Nat \X Nat |-> (RrfK + p[1]) * p[2]]
           Eq(f) == f = [m \in Nat |-> IF m = 0 THEN 1 ELSE (RrfK + m) * f[m - 1]]
<1>1. /\ {0} \subseteq Nat /\ down \in [Nat -> Nat] /\ id \in [Nat -> Nat] /\ start \in [Nat -> Nat]
      /\ \A m \in Nat \ {0} : id[down[m]] < id[m]
  OBVIOUS
<1>2. step \in [Nat \X Nat -> Nat]
  <2>1. \A j, k \in Nat : (RrfK + j) * k \in Nat
    BY RankingAssumption
  <2> QED BY <2>1
<1>3. \E f \in [Nat -> Nat] : Solves(f, Nat, {0}, down, start, step)
  <2> HIDE DEF down, id, start, step
  <2> QED BY <1>1, <1>2, RecursionHasSolution
<1>4. PICK f \in [Nat -> Nat] : Solves(f, Nat, {0}, down, start, step)
  BY <1>3
<1>5. ASSUME NEW m \in Nat PROVE f[m] = IF m = 0 THEN 1 ELSE (RrfK + m) * f[m - 1]
  <2>1. f[m] = IF m \in {0} THEN start[m] ELSE step[<<m, f[down[m]]>>]
    <3> HIDE DEF start, step, down
    <3> QED BY <1>4 DEF Solves
  <2>2. CASE m = 0
    BY <2>1, <2>2
  <2>3. CASE m # 0
    <3>1. down[m] = m - 1 /\ m - 1 \in Nat
      BY <2>3
    <3>2. f[m - 1] \in Nat
      BY <3>1
    <3>3. step[<<m, f[m - 1]>>] = (RrfK + m) * f[m - 1]
      <4>1. <<m, f[m - 1]>> \in Nat \X Nat
        BY <3>2
      <4> QED BY <4>1
    <3> HIDE DEF down, step, start
    <3> QED BY <2>1, <2>3, <3>1, <3>3
  <2> QED BY <2>2, <2>3
<1>6. Eq(f)
  <2>1. f = [m \in Nat |-> f[m]]
    OBVIOUS
  <2> QED BY <1>5, <2>1
<1>7. Eq(CHOOSE g : Eq(g))
  <2> HIDE DEF Eq
  <2> QED BY <1>6, Zenon
<1>8. Multiple = CHOOSE g : Eq(g)
  BY Zenon DEF Multiple
<1>9. Multiple = [m \in Nat |-> IF m = 0 THEN 1 ELSE (RrfK + m) * Multiple[m - 1]]
  <2> HIDE DEF Eq
  <2>1. Eq(Multiple)
    BY <1>7, <1>8
  <2> QED BY <2>1 DEF Eq
<1>10. Multiple[0] = 1
  BY <1>9
<1>11. ASSUME NEW m \in Nat PROVE Multiple[m + 1] = (RrfK + m + 1) * Multiple[m]
  <2>1. m + 1 \in Nat /\ m + 1 # 0 /\ (m + 1) - 1 = m
    OBVIOUS
  <2>2. Multiple[m + 1] = (RrfK + (m + 1)) * Multiple[(m + 1) - 1]
    BY <1>9, <2>1
  <2>3. RrfK + (m + 1) = RrfK + m + 1
    BY RankingAssumption
  <2> QED BY <2>1, <2>2, <2>3
<1> QED BY <1>10, <1>11

\* What is a multiple of every k + rank.
IsMultiple(v, m) == v \in Nat \ {0} /\ \A r \in 1..m : \E q \in Nat \ {0} : v = (RrfK + r) * q

LEMMA ProductIsMultiple ==
  ASSUME NEW m \in Nat, NEW v \in Nat \ {0}, IsMultiple(v, m)
  PROVE  IsMultiple((RrfK + m + 1) * v, m + 1)
<1> DEFINE k == RrfK + m + 1
           w == k * v
<1>1. k \in Nat \ {0}
  BY RankingAssumption
<1>2. w \in Nat \ {0}
  <2> HIDE DEF k
  <2> QED BY <1>1
<1>3. ASSUME NEW r \in 1..m + 1 PROVE \E q \in Nat \ {0} : w = (RrfK + r) * q
  <2>1. CASE r = m + 1
    <3>1. RrfK + r = k
      BY <2>1, RankingAssumption
    <3> HIDE DEF k
    <3> QED BY <3>1
  <2>2. CASE r \in 1..m
    <3>1. PICK q \in Nat \ {0} : v = (RrfK + r) * q
      BY <2>2 DEF IsMultiple
    <3> DEFINE j == RrfK + r
    <3>2. j \in Nat
      BY RankingAssumption
    <3> HIDE DEF j, k
    <3>3. k * q \in Nat \ {0}
      BY <1>1
    <3>4. k * (j * q) = j * (k * q)
      BY <1>1, <3>2
    <3> QED BY <3>1, <3>3, <3>4 DEF j
  <2> QED BY <2>1, <2>2
<1> HIDE DEF k
<1> QED BY <1>2, <1>3 DEF IsMultiple, k

LEMMA MultipleIsMultiple == \A m \in Nat : IsMultiple(Multiple[m], m)
<1> DEFINE Bad == {m \in Nat : ~IsMultiple(Multiple[m], m)}
<1> SUFFICES ASSUME Bad # {} PROVE FALSE
  OBVIOUS
<1>1. PICK m \in Bad : \A j \in Bad : m <= j
  <2>1. Bad \subseteq Nat
    OBVIOUS
  <2> HIDE DEF Bad
  <2> QED BY <2>1, LeastOfNaturals
<1>2. m # 0
  BY <1>1, MultipleSteps DEF IsMultiple
<1>3. m - 1 \in Nat /\ (m - 1) + 1 = m /\ m - 1 \notin Bad
  BY <1>1, <1>2
<1>4. IsMultiple(Multiple[m - 1], m - 1) /\ Multiple[m - 1] \in Nat \ {0}
  BY <1>3 DEF IsMultiple
<1>5. Multiple[(m - 1) + 1] = (RrfK + (m - 1) + 1) * Multiple[m - 1]
  BY <1>3, MultipleSteps
<1>6. IsMultiple((RrfK + (m - 1) + 1) * Multiple[m - 1], (m - 1) + 1)
  BY <1>3, <1>4, ProductIsMultiple
<1> QED BY <1>1, <1>3, <1>5, <1>6

LEMMA DivisionIsExact ==
  ASSUME NEW a \in Nat \ {0}, NEW q \in Nat PROVE (a * q) \div a = q
OBVIOUS

LEMMA ProductsGrow ==
  ASSUME NEW a \in Nat \ {0}, NEW b \in Nat, NEW p \in Nat, NEW q \in Nat \ {0}, a < b, a * p = b * q
  PROVE  q < p
<1> SUFFICES ASSUME p <= q PROVE FALSE
  OBVIOUS
<1>1. a * p <= a * q
  OBVIOUS
<1>2. a * q < b * q
  OBVIOUS
<1> QED BY <1>1, <1>2

\* A better rank has a greater share.
LEMMA SharesFall ==
  /\ \A r \in 1..MaxRank : Share(r) \in Nat \ {0}
  /\ \A r, s \in 1..MaxRank : r < s => Share(s) < Share(r)
<1> DEFINE v == Multiple[MaxRank]
<1>1. \A r \in 1..MaxRank : RrfK + r \in Nat \ {0}
  BY RankingAssumption
<1>2. ASSUME NEW r \in 1..MaxRank PROVE Share(r) \in Nat \ {0} /\ v = (RrfK + r) * Share(r)
  <2>1. PICK q \in Nat \ {0} : v = (RrfK + r) * q
    BY MultipleIsMultiple, RankingAssumption DEF IsMultiple
  <2>2. Share(r) = q
    <3> DEFINE a == RrfK + r
    <3>1. a \in Nat \ {0}
      BY <1>1
    <3>2. Share(r) = (a * q) \div a
      BY <2>1 DEF Share
    <3> HIDE DEF a
    <3> QED BY <3>1, <3>2, DivisionIsExact
  <2> QED BY <2>1, <2>2
<1>3. ASSUME NEW r \in 1..MaxRank, NEW s \in 1..MaxRank, r < s PROVE Share(s) < Share(r)
  <2> DEFINE a == RrfK + r
             b == RrfK + s
             p == Share(r)
             q == Share(s)
  <2>1. a \in Nat \ {0} /\ b \in Nat /\ a < b /\ p \in Nat /\ q \in Nat \ {0} /\ a * p = b * q
    <3>1. a \in Nat \ {0} /\ b \in Nat /\ a < b
      BY <1>1, <1>3, RankingAssumption
    <3> HIDE DEF a, b, p, q
    <3>2. p \in Nat /\ q \in Nat \ {0} /\ v = a * p /\ v = b * q
      BY <1>2 DEF a, b, p, q
    <3> QED BY <3>1, <3>2
  <2> HIDE DEF a, b, p, q
  <2>2. q < p
    BY <2>1, ProductsGrow
  <2> QED BY <2>2 DEF p, q
<1> QED BY <1>2, <1>3

RankingIs(ranking) == ranking \in Seq(Int) /\ IsInjective(ranking) /\ Len(ranking) <= MaxRank

\* The place of a record of the ranking.
LEMMA RankOfIs ==
  ASSUME NEW ranking, RankingIs(ranking), NEW r \in DOMAIN ranking
  PROVE  Ranked(ranking[r], ranking) /\ RankOf(ranking[r], ranking) = r /\ r \in 1..MaxRank
<1>1. \A s \in DOMAIN ranking : ranking[s] = ranking[r] => s = r
  BY DEF RankingIs, IsInjective
<1>2. RankOf(ranking[r], ranking) = r
  BY <1>1 DEF RankOf
<1>3. DOMAIN ranking = 1..Len(ranking) /\ Len(ranking) \in Nat /\ Len(ranking) <= MaxRank
  BY DEF RankingIs
<1> QED BY <1>2, <1>3, RankingAssumption DEF Ranked, ToSet

LEMMA RankedPlace ==
  ASSUME NEW ranking, RankingIs(ranking), NEW id, Ranked(id, ranking)
  PROVE  /\ RankOf(id, ranking) \in 1..Len(ranking) /\ RankOf(id, ranking) \in 1..MaxRank
         /\ ranking[RankOf(id, ranking)] = id
<1>1. PICK r \in DOMAIN ranking : ranking[r] = id
  BY DEF Ranked, ToSet
<1>2. RankOf(id, ranking) = r /\ r \in 1..MaxRank
  BY <1>1, RankOfIs
<1>3. r \in 1..Len(ranking)
  BY <1>1 DEF RankingIs
<1> QED BY <1>1, <1>2, <1>3

\* The share of a record in a ranking: by its rank, or nothing.
LEMMA ShareInIs ==
  ASSUME NEW ranking, RankingIs(ranking), NEW id
  PROVE  /\ ShareIn(id, ranking) \in Nat
         /\ Ranked(id, ranking) => ShareIn(id, ranking) = Share(RankOf(id, ranking)) /\ ShareIn(id, ranking) # 0
         /\ ~Ranked(id, ranking) => ShareIn(id, ranking) = 0
<1>1. CASE Ranked(id, ranking)
  BY <1>1, RankedPlace, SharesFall DEF ShareIn
<1>2. CASE ~Ranked(id, ranking)
  BY <1>2 DEF ShareIn
<1> QED BY <1>1, <1>2

LEMMA BetterPlaceScoresMore ==
  ASSUME NEW ranking, RankingIs(ranking), NEW x, NEW y
  PROVE  /\ Place(x, ranking) < Place(y, ranking) => ShareIn(x, ranking) > ShareIn(y, ranking)
         /\ Place(x, ranking) <= Place(y, ranking) => ShareIn(x, ranking) >= ShareIn(y, ranking)
<1> DEFINE n == Len(ranking)
           s == ShareIn(x, ranking)
           t == ShareIn(y, ranking)
           i == RankOf(x, ranking)
           j == RankOf(y, ranking)
<1>1. n \in Nat
  BY DEF RankingIs
<1>2. s \in Nat /\ t \in Nat
  BY ShareInIs
<1>3. CASE Ranked(x, ranking) /\ Ranked(y, ranking)
  <2>1. i \in 1..MaxRank /\ j \in 1..MaxRank /\ s = Share(i) /\ t = Share(j)
    BY <1>3, RankedPlace, ShareInIs
  <2>2. Place(x, ranking) = i /\ Place(y, ranking) = j
    BY <1>3 DEF Place
  <2> HIDE DEF i, j, s, t
  <2>3. i < j => t < s
    BY <2>1, SharesFall
  <2>4. i = j => s = t
    BY <2>1
  <2>5. i \in Nat /\ j \in Nat
    BY <2>1
  <2> QED BY <1>2, <2>2, <2>3, <2>4, <2>5 DEF s, t
<1>4. CASE Ranked(x, ranking) /\ ~Ranked(y, ranking)
  <2>1. s # 0 /\ t = 0
    BY <1>4, ShareInIs
  <2> QED BY <1>2, <2>1
<1>5. CASE ~Ranked(x, ranking) /\ Ranked(y, ranking)
  <2>1. j \in 1..n
    BY <1>5, RankedPlace
  <2>2. Place(x, ranking) = n + 1 /\ Place(y, ranking) = j
    BY <1>5 DEF Place
  <2> HIDE DEF j, n
  <2> QED BY <1>1, <2>1, <2>2
<1>6. CASE ~Ranked(x, ranking) /\ ~Ranked(y, ranking)
  <2>1. s = 0 /\ t = 0
    BY <1>6, ShareInIs
  <2>2. Place(x, ranking) = n + 1 /\ Place(y, ranking) = n + 1
    BY <1>6 DEF Place
  <2> HIDE DEF n
  <2> QED BY <1>1, <2>1, <2>2
<1> QED BY <1>3, <1>4, <1>5, <1>6

\* A cut of a sorted list holds what stands before it, in its place.
LEMMA FirstOfLists ==
  ASSUME NEW S, NEW before, NEW list, Lists(list, S, before), NEW n \in Nat
  PROVE  /\ ToSet(FirstOf(list, n)) \subseteq S
         /\ \A x \in S : Ranked(x, FirstOf(list, n)) <=> PlaceIn(S, before, x) <= n
         /\ \A x \in S : Ranked(x, FirstOf(list, n)) => RankOf(x, FirstOf(list, n)) = PlaceIn(S, before, x)
<1> DEFINE c == Cardinality(S)
           m == IF Len(list) <= n THEN Len(list) ELSE n
           cut == FirstOf(list, n)
<1>1. /\ c \in Nat /\ list \in [1..c -> S]
      /\ \A x \in S : PlaceIn(S, before, x) \in 1..c /\ list[PlaceIn(S, before, x)] = x
      /\ \A i \in 1..c : PlaceIn(S, before, list[i]) = i
  BY DEF Lists
<1>2. list \in Seq(S) /\ Len(list) = c
  BY ListHolds
<1>3. m \in Nat /\ m <= c /\ m <= n /\ \A i \in 1..c : i <= n <=> i <= m
  BY <1>1, <1>2
<1>4. cut = SubSeq(list, 1, m)
  BY DEF FirstOf
<1> HIDE DEF m, cut, c
<1>5. cut \in Seq(S) /\ DOMAIN cut = 1..m /\ \A i \in 1..m : cut[i] = list[i]
  BY <1>2, <1>3, <1>4, SubSeqProperties
<1>6. ASSUME NEW x \in S, NEW i \in 1..m, cut[i] = x PROVE PlaceIn(S, before, x) = i
  <2>1. i \in 1..c /\ list[i] = x
    BY <1>1, <1>3, <1>5, <1>6
  <2> QED BY <1>1, <2>1
<1>7. ASSUME NEW x \in S PROVE Ranked(x, cut) <=> PlaceIn(S, before, x) <= n
  <2> DEFINE p == PlaceIn(S, before, x)
  <2>1. p \in 1..c /\ list[p] = x
    BY <1>1
  <2>2. ASSUME p <= n PROVE Ranked(x, cut)
    <3> HIDE DEF p
    <3>1. p \in 1..m
      BY <1>1, <1>3, <2>1, <2>2
    <3>2. cut[p] = x
      BY <1>5, <2>1, <3>1
    <3> QED BY <1>5, <3>1, <3>2 DEF Ranked, ToSet
  <2>3. ASSUME Ranked(x, cut) PROVE p <= n
    <3>1. PICK i \in 1..m : cut[i] = x
      BY <1>5, <2>3 DEF Ranked, ToSet
    <3>2. p = i
      BY <1>6, <3>1
    <3> HIDE DEF p
    <3> QED BY <1>3, <3>2
  <2> QED BY <2>2, <2>3
<1>8. ASSUME NEW x \in S, Ranked(x, cut) PROVE RankOf(x, cut) = PlaceIn(S, before, x)
  <2>1. \E i \in DOMAIN cut : cut[i] = x
    BY <1>8 DEF Ranked, ToSet
  <2>2. RankOf(x, cut) \in DOMAIN cut /\ cut[RankOf(x, cut)] = x
    BY <2>1 DEF RankOf
  <2> QED BY <1>5, <1>6, <2>2
<1>9. ToSet(cut) \subseteq S
  <2>1. \A i \in 1..m : cut[i] \in S
    BY <1>1, <1>3, <1>5
  <2> QED BY <1>5, <2>1 DEF ToSet
<1> QED BY <1>7, <1>8, <1>9 DEF cut

LEMMA PlacesFollow ==
  ASSUME NEW S, NEW before, NEW list, Lists(list, S, before), NEW x \in S, NEW y \in S
  PROVE  <<x, y>> \in before <=> PlaceIn(S, before, x) < PlaceIn(S, before, y)
BY DEF Lists

FoundBy(lexical, vector) == ToSet(lexical) \cup ToSet(vector)

LEMMA FoundAreInts ==
  ASSUME NEW lexical, RankingIs(lexical), NEW vector, RankingIs(vector)
  PROVE  FoundBy(lexical, vector) \subseteq Int /\ IsFiniteSet(FoundBy(lexical, vector))
<1>1. /\ IsFiniteSet(ToSet(lexical)) /\ ToSet(lexical) \subseteq Int
      /\ IsFiniteSet(ToSet(vector)) /\ ToSet(vector) \subseteq Int
  BY SequenceSetFinite DEF RankingIs
<1> QED BY <1>1, FS_Union DEF FoundBy

LEMMA ScoresAreNaturals ==
  ASSUME NEW lexical, RankingIs(lexical), NEW vector, RankingIs(vector), NEW id
  PROVE  FusedScore(lexical, vector, id) \in Nat
BY ShareInIs DEF FusedScore

\* Both sorts have comparators that leave no two records alike.
LEMMA FusionSorts ==
  ASSUME NEW lexical, RankingIs(lexical), NEW vector, RankingIs(vector), NEW S, S \subseteq Int, IsFiniteSet(S)
  PROVE  LET before == ByScore(lexical, vector, S) IN Lists(Ordered(S, before), S, before)
<1> DEFINE before == ByScore(lexical, vector, S)
           score(x) == FusedScore(lexical, vector, x)
<1>1. \A x \in S : score(x) \in Nat /\ x \in Int
  BY ScoresAreNaturals
<1>2. \A x, y \in S : <<x, y>> \in before <=> score(x) > score(y) \/ (score(x) = score(y) /\ x < y)
  BY DEF ByScore
<1>3. TotallyOrders(before, S)
  <2> HIDE DEF before, score
  <2> QED BY <1>1, <1>2 DEF TotallyOrders
<1> HIDE DEF before
<1> QED BY <1>3, OrderedLists DEF before

LEMMA JoinSorts ==
  ASSUME NEW lexical, RankingIs(lexical), NEW vector, RankingIs(vector), NEW created,
         NEW S, S \subseteq Int, IsFiniteSet(S), \A x \in S : created[x] \in Int
  PROVE  LET before == ByScoreAndAge(lexical, vector, created, S) IN Lists(Ordered(S, before), S, before)
<1> DEFINE before == ByScoreAndAge(lexical, vector, created, S)
           score(x) == FusedScore(lexical, vector, x)
<1>1. \A x \in S : score(x) \in Nat /\ x \in Int /\ created[x] \in Int
  BY ScoresAreNaturals
<1>2. \A x, y \in S : <<x, y>> \in before <=>
        \/ score(x) > score(y)
        \/ score(x) = score(y) /\ created[x] > created[y]
        \/ score(x) = score(y) /\ created[x] = created[y] /\ x < y
  BY DEF ByScoreAndAge
<1>3. TotallyOrders(before, S)
  <2> HIDE DEF before, score
  <2> QED BY <1>1, <1>2 DEF TotallyOrders
<1> HIDE DEF before
<1> QED BY <1>3, OrderedLists DEF before

\* What a search has after the fusion, and after the join.
FusedOf(lexical, vector, limit) == ToSet(RrfFuse(lexical, vector, limit * 2))

FusedIs(lexical, vector, limit) ==
  LET all == FoundBy(lexical, vector)
      before == ByScore(lexical, vector, all)
      fused == FusedOf(lexical, vector, limit)
  IN /\ fused \subseteq all
     /\ \A x \in all : x \in fused <=> PlaceIn(all, before, x) <= limit * 2

LEMMA FusionKeepsTheBest ==
  ASSUME NEW lexical, RankingIs(lexical), NEW vector, RankingIs(vector), NEW limit \in Nat
  PROVE  FusedIs(lexical, vector, limit)
<1> DEFINE all == FoundBy(lexical, vector)
           before == ByScore(lexical, vector, all)
           list == Ordered(all, before)
           n == limit * 2
<1>1. Lists(list, all, before)
  BY FoundAreInts, FusionSorts
<1>2. RrfFuse(lexical, vector, n) = FirstOf(list, n)
  BY DEF RrfFuse, FoundBy
<1>3. n \in Nat
  OBVIOUS
<1> HIDE DEF all, before, list, n
<1>4. /\ ToSet(FirstOf(list, n)) \subseteq all
      /\ \A x \in all : Ranked(x, FirstOf(list, n)) <=> PlaceIn(all, before, x) <= n
  BY <1>1, <1>3, FirstOfLists
<1> QED BY <1>2, <1>4 DEF FusedIs, FusedOf, Ranked, all, before, n

JoinedIs(lexical, vector, created, limit, result) ==
  LET fused == FusedOf(lexical, vector, limit)
      before == ByScoreAndAge(lexical, vector, created, fused)
  IN /\ ToSet(result) \subseteq fused
     /\ \A x \in fused : Ranked(x, result) <=> PlaceIn(fused, before, x) <= limit
     /\ \A x \in fused : Ranked(x, result) => RankOf(x, result) = PlaceIn(fused, before, x)

LEMMA FusedAreFound ==
  ASSUME NEW lexical, RankingIs(lexical), NEW vector, RankingIs(vector), NEW limit \in Nat
  PROVE  /\ FusedOf(lexical, vector, limit) \subseteq FoundBy(lexical, vector)
         /\ FusedOf(lexical, vector, limit) \subseteq Int
         /\ IsFiniteSet(FusedOf(lexical, vector, limit))
<1>1. FusedOf(lexical, vector, limit) \subseteq FoundBy(lexical, vector)
  BY FusionKeepsTheBest DEF FusedIs
<1> QED BY <1>1, FoundAreInts, FS_Subset

LEMMA JoinKeepsTheBest ==
  ASSUME NEW lexical, RankingIs(lexical), NEW vector, RankingIs(vector), NEW limit \in Nat,
         NEW created, \A x \in FoundBy(lexical, vector) : created[x] \in Int,
         NEW result,
         result = HybridResult(RrfFuse(lexical, vector, limit * 2), lexical, vector, created, limit)
  PROVE  JoinedIs(lexical, vector, created, limit, result)
<1> DEFINE fused == FusedOf(lexical, vector, limit)
           before == ByScoreAndAge(lexical, vector, created, fused)
           list == Ordered(fused, before)
<1>1. Lists(list, fused, before)
  <2>1. fused \subseteq Int /\ IsFiniteSet(fused) /\ \A x \in fused : created[x] \in Int
    BY FusedAreFound
  <2> HIDE DEF fused
  <2> QED BY <2>1, JoinSorts
<1>2. result = FirstOf(list, limit)
  BY DEF HybridResult, FusedOf
<1> HIDE DEF fused, before, list
<1>3. /\ ToSet(result) \subseteq fused
      /\ \A x \in fused : Ranked(x, result) <=> PlaceIn(fused, before, x) <= limit
      /\ \A x \in fused : Ranked(x, result) => RankOf(x, result) = PlaceIn(fused, before, x)
  BY <1>1, <1>2, FirstOfLists
<1> QED BY <1>3 DEF JoinedIs, fused, before

LEMMA FusionPlaces ==
  ASSUME NEW lexical, RankingIs(lexical), NEW vector, RankingIs(vector),
         NEW x \in FoundBy(lexical, vector), NEW y \in FoundBy(lexical, vector)
  PROVE  LET all == FoundBy(lexical, vector)
             before == ByScore(lexical, vector, all)
         IN /\ PlaceIn(all, before, x) \in Nat /\ PlaceIn(all, before, y) \in Nat
            /\ FusedScore(lexical, vector, x) > FusedScore(lexical, vector, y)
                 => PlaceIn(all, before, x) < PlaceIn(all, before, y)
<1> DEFINE all == FoundBy(lexical, vector)
           before == ByScore(lexical, vector, all)
           list == Ordered(all, before)
<1>1. Lists(list, all, before)
  BY FoundAreInts, FusionSorts
<1>2. FusedScore(lexical, vector, x) > FusedScore(lexical, vector, y) => <<x, y>> \in before
  BY DEF ByScore
<1> HIDE DEF list, before
<1>3. <<x, y>> \in before <=> PlaceIn(all, before, x) < PlaceIn(all, before, y)
  BY <1>1, PlacesFollow
<1>4. PlaceIn(all, before, x) \in Nat /\ PlaceIn(all, before, y) \in Nat
  BY <1>1 DEF Lists
<1> QED BY <1>2, <1>3, <1>4 DEF before

LEMMA JoinPlaces ==
  ASSUME NEW lexical, RankingIs(lexical), NEW vector, RankingIs(vector), NEW limit \in Nat,
         NEW created, \A x \in FoundBy(lexical, vector) : created[x] \in Int,
         NEW x \in FusedOf(lexical, vector, limit), NEW y \in FusedOf(lexical, vector, limit)
  PROVE  LET fused == FusedOf(lexical, vector, limit)
             before == ByScoreAndAge(lexical, vector, created, fused)
         IN /\ PlaceIn(fused, before, x) \in Nat /\ PlaceIn(fused, before, y) \in Nat
            /\ <<x, y>> \in before <=> PlaceIn(fused, before, x) < PlaceIn(fused, before, y)
<1> DEFINE fused == FusedOf(lexical, vector, limit)
           before == ByScoreAndAge(lexical, vector, created, fused)
           list == Ordered(fused, before)
<1>1. Lists(list, fused, before)
  <2>1. fused \subseteq Int /\ IsFiniteSet(fused) /\ \A z \in fused : created[z] \in Int
    BY FusedAreFound
  <2> HIDE DEF fused
  <2> QED BY <2>1, JoinSorts
<1> HIDE DEF list, before, fused
<1>2. x \in fused /\ y \in fused
  BY DEF fused
<1>3. <<x, y>> \in before <=> PlaceIn(fused, before, x) < PlaceIn(fused, before, y)
  BY <1>1, <1>2, PlacesFollow
<1>4. PlaceIn(fused, before, x) \in Nat /\ PlaceIn(fused, before, y) \in Nat
  BY <1>1, <1>2 DEF Lists
<1> QED BY <1>3, <1>4 DEF before, fused

\* A record that would come before another one in the join, and is kept by the
\* fusion if that one is, comes before it in the result.
LEMMA BetterComesFirst ==
  ASSUME NEW lexical, RankingIs(lexical), NEW vector, RankingIs(vector), NEW limit \in Nat,
         NEW created, \A x \in FoundBy(lexical, vector) : created[x] \in Int,
         NEW result, JoinedIs(lexical, vector, created, limit, result),
         NEW a, NEW b, Ranked(b, result), a \in FusedOf(lexical, vector, limit),
         <<a, b>> \in ByScoreAndAge(lexical, vector, created, FusedOf(lexical, vector, limit))
  PROVE  Ranked(a, result) /\ RankOf(a, result) < RankOf(b, result)
<1> DEFINE fused == FusedOf(lexical, vector, limit)
           before == ByScoreAndAge(lexical, vector, created, fused)
           pa == PlaceIn(fused, before, a)
           pb == PlaceIn(fused, before, b)
<1>1. b \in fused /\ Ranked(b, result)
  BY DEF JoinedIs, Ranked
<1>2. pa \in Nat /\ pb \in Nat /\ pa < pb
  BY <1>1, JoinPlaces
<1>3. pb <= limit /\ RankOf(b, result) = pb
  BY <1>1 DEF JoinedIs
<1>4. pa <= limit
  <2> HIDE DEF pa, pb
  <2> QED BY <1>2, <1>3
<1>5. Ranked(a, result) /\ RankOf(a, result) = pa
  BY <1>4 DEF JoinedIs
<1> HIDE DEF pa, pb
<1> QED BY <1>2, <1>3, <1>5

\* What both searches prefer is first.
LEMMA AgreementRespected ==
  ASSUME NEW lexical, RankingIs(lexical), NEW vector, RankingIs(vector), NEW limit \in Nat,
         NEW created, \A x \in FoundBy(lexical, vector) : created[x] \in Int,
         NEW result, JoinedIs(lexical, vector, created, limit, result)
  PROVE  RespectsAgreement(lexical, vector, result)
<1> DEFINE all == FoundBy(lexical, vector)
           fused == FusedOf(lexical, vector, limit)
           before1 == ByScore(lexical, vector, all)
           before2 == ByScoreAndAge(lexical, vector, created, fused)
<1> SUFFICES ASSUME NEW a \in all, NEW b \in all,
                    Place(a, lexical) < Place(b, lexical) \/ Place(a, vector) < Place(b, vector),
                    Place(a, lexical) <= Place(b, lexical), Place(a, vector) <= Place(b, vector),
                    Ranked(b, result)
             PROVE  Ranked(a, result) /\ RankOf(a, result) < RankOf(b, result)
  BY DEF RespectsAgreement, FoundBy
<1>1. FusedScore(lexical, vector, a) > FusedScore(lexical, vector, b)
  <2> DEFINE la == ShareIn(a, lexical)
             lb == ShareIn(b, lexical)
             va == ShareIn(a, vector)
             vb == ShareIn(b, vector)
  <2>1. la \in Nat /\ lb \in Nat /\ va \in Nat /\ vb \in Nat
    BY ShareInIs
  <2>2. la >= lb /\ va >= vb /\ (la > lb \/ va > vb)
    BY BetterPlaceScoresMore
  <2> HIDE DEF la, lb, va, vb
  <2>3. la + va > lb + vb
    BY <2>1, <2>2
  <2> QED BY <2>3 DEF FusedScore, la, lb, va, vb
<1>2. b \in fused
  BY DEF JoinedIs, Ranked
<1>3. a \in fused
  <2> DEFINE pa == PlaceIn(all, before1, a)
             pb == PlaceIn(all, before1, b)
  <2>1. pa \in Nat /\ pb \in Nat /\ pa < pb
    BY <1>1, FusionPlaces
  <2>2. pb <= limit * 2
    BY <1>2, FusionKeepsTheBest DEF FusedIs
  <2>3. pa <= limit * 2
    <3> HIDE DEF pa, pb
    <3> QED BY <2>1, <2>2
  <2> QED BY <2>3, FusionKeepsTheBest DEF FusedIs
<1>4. <<a, b>> \in before2
  BY <1>1, <1>2, <1>3 DEF ByScoreAndAge
<1> QED BY <1>3, <1>4, BetterComesFirst

\* Where a ranking puts a record, 0 for nowhere.
RankIn(id, ranking) == IF Ranked(id, ranking) THEN RankOf(id, ranking) ELSE 0

SharingScore(limit, s) == {q \in Places(limit) \X Places(limit) : PlaceShare(q[1]) + PlaceShare(q[2]) = s}

LEMMA FewShareScore ==
  ASSUME NEW limit \in 1..MaxLimit, NEW p \in Places(limit), NEW q \in Places(limit)
  PROVE  Cardinality(SharingScore(limit, PlaceShare(p) + PlaceShare(q))) <= limit + 1
<1> DEFINE places == Places(limit) \X Places(limit)
           score(r) == PlaceShare(r[1]) + PlaceShare(r[2])
<1>1. \A r \in places : Cardinality({t \in places : score(t) = score(r)}) <= limit + 1
  BY TiesAssumption, Zenon
<1> DEFINE r == <<p, q>>
<1>2. r \in places /\ score(r) = PlaceShare(p) + PlaceShare(q)
  OBVIOUS
<1>3. SharingScore(limit, PlaceShare(p) + PlaceShare(q)) = {t \in places : score(t) = score(r)}
  BY <1>2 DEF SharingScore
<1> HIDE DEF r
<1>4. Cardinality({t \in places : score(t) = score(r)}) <= limit + 1
  BY <1>1, <1>2
<1> QED BY <1>3, <1>4

LEMMA SharingIsFinite ==
  ASSUME NEW limit, NEW s PROVE IsFiniteSet(SharingScore(limit, s))
<1>1. IsFiniteSet(0..MaxRank)
  BY RankingAssumption, FS_Interval
<1>2. IsFiniteSet(Places(limit))
  <2>1. Places(limit) \subseteq 0..MaxRank
    BY DEF Places
  <2> QED BY <1>1, <2>1, FS_Subset
<1>3. IsFiniteSet(Places(limit) \X Places(limit))
  BY <1>2, FS_Product
<1>4. SharingScore(limit, s) \subseteq Places(limit) \X Places(limit)
  BY DEF SharingScore
<1> QED BY <1>3, <1>4, FS_Subset

LEMMA RankInIs ==
  ASSUME NEW limit \in Nat, NEW ranking, RankingIs(ranking), Len(ranking) <= limit * FetchMultiplier, NEW id
  PROVE  /\ RankIn(id, ranking) \in Places(limit)
         /\ PlaceShare(RankIn(id, ranking)) = ShareIn(id, ranking)
         /\ Ranked(id, ranking) => RankIn(id, ranking) # 0 /\ ranking[RankIn(id, ranking)] = id
<1> DEFINE most == limit * FetchMultiplier
           n == Len(ranking)
<1>1. most \in Nat /\ n \in Nat /\ n <= most /\ MaxRank \in Nat
  BY SearchAssumption, RankingAssumption DEF RankingIs
<1>2. CASE Ranked(id, ranking)
  <2> DEFINE r == RankOf(id, ranking)
  <2>1. RankIn(id, ranking) = r /\ r \in 1..n /\ r \in 1..MaxRank /\ ranking[r] = id
    BY <1>2, RankedPlace DEF RankIn
  <2>2. ShareIn(id, ranking) = Share(r)
    BY <1>2 DEF ShareIn
  <2> HIDE DEF r, n, most
  <2>3. r \in 0..MaxRank /\ r <= most /\ r # 0
    BY <1>1, <2>1
  <2>4. r \in Places(limit)
    BY <2>3 DEF Places, most
  <2> QED BY <2>1, <2>2, <2>3, <2>4 DEF PlaceShare
<1>3. CASE ~Ranked(id, ranking)
  <2>1. RankIn(id, ranking) = 0 /\ ShareIn(id, ranking) = 0
    BY <1>3 DEF RankIn, ShareIn
  <2>2. 0 \in Places(limit)
    <3> HIDE DEF n, most
    <3> QED BY <1>1 DEF Places, most
  <2> QED BY <1>3, <2>1, <2>2 DEF PlaceShare
<1> QED BY <1>2, <1>3

Ties(lexical, vector, b) ==
  {x \in FoundBy(lexical, vector) : FusedScore(lexical, vector, x) = FusedScore(lexical, vector, b)}

\* No more records can tie than pairs of places share a score.
LEMMA FewTie ==
  ASSUME NEW limit \in 1..MaxLimit,
         NEW lexical, RankingIs(lexical), Len(lexical) <= limit * FetchMultiplier,
         NEW vector, RankingIs(vector), Len(vector) <= limit * FetchMultiplier, NEW b
  PROVE  /\ IsFiniteSet(Ties(lexical, vector, b))
         /\ Cardinality(Ties(lexical, vector, b)) <= limit + 1
<1> DEFINE tie == Ties(lexical, vector, b)
           at(x) == <<RankIn(x, lexical), RankIn(x, vector)>>
           at1 == [x \in tie |-> at(x)]
           Q == SharingScore(limit, FusedScore(lexical, vector, b))
<1>0. limit \in Nat
  BY SearchAssumption
<1>1. ASSUME NEW x \in tie PROVE at(x) \in Q
  <2>1. /\ RankIn(x, lexical) \in Places(limit) /\ RankIn(x, vector) \in Places(limit)
        /\ PlaceShare(RankIn(x, lexical)) = ShareIn(x, lexical)
        /\ PlaceShare(RankIn(x, vector)) = ShareIn(x, vector)
    BY <1>0, RankInIs
  <2>2. ShareIn(x, lexical) + ShareIn(x, vector) = FusedScore(lexical, vector, b)
    BY DEF Ties, FusedScore
  <2> QED BY <2>1, <2>2 DEF SharingScore
<1>2. ASSUME NEW x \in tie, NEW y \in tie, at(x) = at(y) PROVE x = y
  <2>1. Ranked(x, lexical) \/ Ranked(x, vector)
    BY DEF Ties, FoundBy, Ranked
  <2>2. RankIn(x, lexical) = RankIn(y, lexical) /\ RankIn(x, vector) = RankIn(y, vector)
    BY <1>2
  <2>3. CASE Ranked(x, lexical)
    <3>1. RankIn(x, lexical) # 0 /\ lexical[RankIn(x, lexical)] = x
      BY <1>0, <2>3, RankInIs
    <3>2. Ranked(y, lexical)
      BY <2>2, <3>1 DEF RankIn
    <3>3. lexical[RankIn(y, lexical)] = y
      BY <1>0, <3>2, RankInIs
    <3> QED BY <2>2, <3>1, <3>3
  <2>4. CASE Ranked(x, vector)
    <3>1. RankIn(x, vector) # 0 /\ vector[RankIn(x, vector)] = x
      BY <1>0, <2>4, RankInIs
    <3>2. Ranked(y, vector)
      BY <2>2, <3>1 DEF RankIn
    <3>3. vector[RankIn(y, vector)] = y
      BY <1>0, <3>2, RankInIs
    <3> QED BY <2>2, <3>1, <3>3
  <2> QED BY <2>1, <2>3, <2>4
<1> HIDE DEF at
<1>3. at1 \in Injection(tie, Q)
  <2>1. at1 \in [tie -> Q]
    <3> HIDE DEF tie, Q
    <3> QED BY <1>1
  <2>2. IsInjective(at1)
    <3> HIDE DEF tie
    <3> QED BY <1>2 DEF IsInjective
  <2> QED BY <2>1, <2>2 DEF Injection
<1>4. IsFiniteSet(Q)
  BY SharingIsFinite
<1>5. IsFiniteSet(tie) /\ Cardinality(tie) <= Cardinality(Q)
  <2> HIDE DEF tie, Q, at1
  <2> QED BY <1>3, <1>4, FS_Injection
<1>6. Cardinality(Q) <= limit + 1
  <2> DEFINE p == RankIn(b, lexical)
             q == RankIn(b, vector)
  <2>1. /\ p \in Places(limit) /\ q \in Places(limit)
        /\ PlaceShare(p) = ShareIn(b, lexical) /\ PlaceShare(q) = ShareIn(b, vector)
    BY <1>0, RankInIs
  <2> HIDE DEF p, q
  <2>2. Cardinality(SharingScore(limit, PlaceShare(p) + PlaceShare(q))) <= limit + 1
    BY <2>1, FewShareScore
  <2> QED BY <2>1, <2>2 DEF FusedScore
<1>7. Cardinality(tie) \in Nat /\ Cardinality(Q) \in Nat
  <2> HIDE DEF tie, Q
  <2> QED BY <1>4, <1>5, FS_CardinalityType
<1> HIDE DEF tie, Q
<1>8. Cardinality(tie) <= limit + 1
  BY <1>0, <1>5, <1>6, <1>7
<1> QED BY <1>5, <1>8 DEF tie

\* If the fusion drops a record, it keeps twice the limit.
LEMMA FusionIsFull ==
  ASSUME NEW lexical, RankingIs(lexical), NEW vector, RankingIs(vector), NEW limit \in Nat,
         NEW a \in FoundBy(lexical, vector), a \notin FusedOf(lexical, vector, limit)
  PROVE  Cardinality(FusedOf(lexical, vector, limit)) >= limit * 2
<1> DEFINE all == FoundBy(lexical, vector)
           fused == FusedOf(lexical, vector, limit)
           before == ByScore(lexical, vector, all)
           list == Ordered(all, before)
           n == limit * 2
           c == Cardinality(all)
<1>1. Lists(list, all, before)
  BY FoundAreInts, FusionSorts
<1>2. fused \subseteq all /\ IsFiniteSet(fused) /\ \A x \in all : x \in fused <=> PlaceIn(all, before, x) <= n
  BY FusionKeepsTheBest, FusedAreFound DEF FusedIs
<1>3. n \in Nat
  OBVIOUS
<1>4. a \in all /\ a \notin fused
  OBVIOUS
<1> HIDE DEF all, fused, before, list, n
<1>5. /\ c \in Nat /\ list \in [1..c -> all]
      /\ \A x \in all : PlaceIn(all, before, x) \in 1..c
      /\ \A i \in 1..c : PlaceIn(all, before, list[i]) = i
  BY <1>1 DEF Lists
<1> HIDE DEF c
<1>6. n < c
  <2>1. PlaceIn(all, before, a) \in 1..c /\ ~(PlaceIn(all, before, a) <= n)
    BY <1>2, <1>4, <1>5
  <2> QED BY <1>3, <1>5, <2>1
<1> DEFINE top == [i \in 1..n |-> list[i]]
<1>7. \A i \in 1..n : i \in 1..c /\ list[i] \in fused
  <2> TAKE i \in 1..n
  <2>1. i \in 1..c /\ i <= n
    BY <1>3, <1>5, <1>6
  <2>2. list[i] \in all /\ PlaceIn(all, before, list[i]) = i
    BY <1>5, <2>1
  <2> QED BY <1>2, <2>1, <2>2
<1>8. top \in Injection(1..n, fused)
  <2>1. top \in [1..n -> fused]
    BY <1>7
  <2>2. ASSUME NEW i \in 1..n, NEW j \in 1..n, top[i] = top[j] PROVE i = j
    <3>1. list[i] = list[j] /\ i \in 1..c /\ j \in 1..c
      BY <1>7, <2>2
    <3> QED BY <1>5, <3>1
  <2>3. IsInjective(top)
    BY <2>2 DEF IsInjective
  <2> HIDE DEF top
  <2> QED BY <2>1, <2>3 DEF Injection
<1>9. Cardinality(1..n) = n
  BY <1>3, FS_Interval
<1>10. Cardinality(1..n) <= Cardinality(fused)
  <2> HIDE DEF top
  <2> QED BY <1>2, <1>8, FS_Injection
<1>11. Cardinality(fused) \in Nat
  BY <1>2, FS_CardinalityType
<1>12. Cardinality(fused) >= n
  BY <1>3, <1>9, <1>10, <1>11
<1> QED BY <1>12 DEF fused, n

\* The cut of the fusion never drops the newer one of a tie that is returned: too
\* many would have to tie.
LEMMA TieIsKept ==
  ASSUME NEW limit \in 1..MaxLimit,
         NEW lexical, RankingIs(lexical), Len(lexical) <= limit * FetchMultiplier,
         NEW vector, RankingIs(vector), Len(vector) <= limit * FetchMultiplier,
         NEW created, \A x \in FoundBy(lexical, vector) : created[x] \in Int,
         NEW result, JoinedIs(lexical, vector, created, limit, result),
         NEW a \in FoundBy(lexical, vector), NEW b, Ranked(b, result),
         FusedScore(lexical, vector, a) = FusedScore(lexical, vector, b)
  PROVE  a \in FusedOf(lexical, vector, limit)
<1> DEFINE all == FoundBy(lexical, vector)
           fused == FusedOf(lexical, vector, limit)
           before1 == ByScore(lexical, vector, all)
           before2 == ByScoreAndAge(lexical, vector, created, fused)
           score(x) == FusedScore(lexical, vector, x)
           tie == Ties(lexical, vector, b)
           ahead == Before(fused, before2, b)
           rest == fused \ ahead
<1> SUFFICES ASSUME a \notin fused PROVE FALSE
  OBVIOUS
<1>1. limit \in Nat
  BY SearchAssumption
<1>2. fused \subseteq all /\ IsFiniteSet(fused) /\ \A x \in all : x \in fused <=> PlaceIn(all, before1, x) <= limit * 2
  BY <1>1, FusionKeepsTheBest, FusedAreFound DEF FusedIs
<1>3. b \in fused
  BY DEF JoinedIs, Ranked
<1>4. Cardinality(fused) >= limit * 2 /\ Cardinality(fused) \in Nat
  BY <1>1, <1>2, FusionIsFull, FS_CardinalityType
<1>5. Cardinality(ahead) + 1 <= limit /\ IsFiniteSet(ahead) /\ ahead \subseteq fused /\ Cardinality(ahead) \in Nat
  <2>1. PlaceIn(fused, before2, b) <= limit
    BY <1>3 DEF JoinedIs
  <2>2. ahead \subseteq fused
    BY DEF Before
  <2>3. IsFiniteSet(ahead)
    <3> HIDE DEF ahead, fused
    <3> QED BY <1>2, <2>2, FS_Subset
  <2>4. Cardinality(ahead) \in Nat
    BY <2>3, FS_CardinalityType
  <2> QED BY <2>1, <2>2, <2>3, <2>4 DEF PlaceIn
<1>6. IsFiniteSet(rest) /\ Cardinality(rest) = Cardinality(fused) - Cardinality(ahead)
  <2> HIDE DEF ahead, fused
  <2>1. fused \cap ahead = ahead
    BY <1>5
  <2>2. IsFiniteSet(fused \ ahead) /\ Cardinality(fused \ ahead) = Cardinality(fused) - Cardinality(fused \cap ahead)
    BY <1>2, FS_Difference
  <2> QED BY <2>1, <2>2
<1>7. ASSUME NEW x \in rest PROVE x \in tie
  <2>1. x \in fused /\ x \in all /\ <<x, b>> \notin before2
    BY <1>2 DEF Before
  <2>2. ~(score(x) > score(b))
    BY <1>3, <2>1 DEF ByScoreAndAge
  <2>3. ~(score(a) > score(x))
    <3> DEFINE pa == PlaceIn(all, before1, a)
               px == PlaceIn(all, before1, x)
    <3>1. px <= limit * 2 /\ ~(pa <= limit * 2)
      BY <1>2, <2>1
    <3>2. pa \in Nat /\ px \in Nat /\ (score(a) > score(x) => pa < px)
      BY <2>1, FusionPlaces
    <3> HIDE DEF pa, px
    <3> QED BY <1>1, <3>1, <3>2
  <2>4. score(x) \in Nat /\ score(b) \in Nat /\ score(a) = score(b)
    BY ScoresAreNaturals
  <2>5. score(x) = score(b)
    <3> HIDE DEF score
    <3> QED BY <2>2, <2>3, <2>4
  <2> QED BY <2>1, <2>5 DEF Ties
<1>8. a \in tie /\ a \notin rest
  BY DEF Ties
<1>9. IsFiniteSet(tie) /\ Cardinality(tie) <= limit + 1
  BY FewTie
<1> HIDE DEF rest, tie, ahead, fused
<1>10. IsFiniteSet(rest \cup {a}) /\ Cardinality(rest \cup {a}) = Cardinality(rest) + 1
  BY <1>6, <1>8, FS_AddElement
<1>11. Cardinality(rest \cup {a}) <= Cardinality(tie)
  <2>1. rest \cup {a} \subseteq tie
    BY <1>7, <1>8
  <2> QED BY <1>9, <2>1, FS_Subset
<1>12. Cardinality(tie) \in Nat
  BY <1>9, FS_CardinalityType
<1> QED BY <1>1, <1>4, <1>5, <1>6, <1>9, <1>10, <1>11, <1>12

LEMMA NewerRespected ==
  ASSUME NEW limit \in 1..MaxLimit,
         NEW lexical, RankingIs(lexical), Len(lexical) <= limit * FetchMultiplier,
         NEW vector, RankingIs(vector), Len(vector) <= limit * FetchMultiplier,
         NEW created, \A x \in FoundBy(lexical, vector) : created[x] \in Int,
         NEW result, JoinedIs(lexical, vector, created, limit, result)
  PROVE  NewerFirst(lexical, vector, created, result)
<1> DEFINE all == FoundBy(lexical, vector)
           fused == FusedOf(lexical, vector, limit)
           before2 == ByScoreAndAge(lexical, vector, created, fused)
<1> SUFFICES ASSUME NEW a \in all, NEW b \in all,
                    ShareIn(a, lexical) = ShareIn(b, vector), ShareIn(b, lexical) = ShareIn(a, vector),
                    created[a] > created[b], Ranked(b, result)
             PROVE  Ranked(a, result) /\ RankOf(a, result) < RankOf(b, result)
  BY DEF NewerFirst, FoundBy
<1>0. limit \in Nat
  BY SearchAssumption
<1>1. FusedScore(lexical, vector, a) = FusedScore(lexical, vector, b)
  <2> DEFINE u == ShareIn(a, lexical)
             v == ShareIn(a, vector)
  <2>1. u \in Nat /\ v \in Nat
    BY ShareInIs
  <2>2. FusedScore(lexical, vector, a) = u + v /\ FusedScore(lexical, vector, b) = v + u
    BY DEF FusedScore
  <2> HIDE DEF u, v
  <2> QED BY <2>1, <2>2
<1>2. a \in fused
  BY <1>1, TieIsKept
<1>3. b \in fused
  BY DEF JoinedIs, Ranked
<1>4. <<a, b>> \in before2
  BY <1>1, <1>2, <1>3 DEF ByScoreAndAge
<1> QED BY <1>0, <1>2, <1>4, BetterComesFirst

\* A search: its input as given, and the fusion and the join as far as it got.
SearchInv ==
  part = "search" =>
    /\ work = [at |-> work.at, lexical |-> work.lexical, vector |-> work.vector, created |-> work.created,
               limit |-> work.limit, result |-> work.result]
    /\ work.lexical \in Rankings /\ work.vector \in Rankings
    /\ work.created \in [Ids -> Ages] /\ work.limit \in 1..MaxLimit
    /\ Len(work.lexical) <= work.limit * FetchMultiplier
    /\ Len(work.vector) <= work.limit * FetchMultiplier
    /\ work.at \in {"ranked", "fused", "joined"}
    /\ work.at = "fused" => work.result = RrfFuse(work.lexical, work.vector, work.limit * 2)
    /\ work.at = "joined" => JoinedIs(work.lexical, work.vector, work.created, work.limit, work.result)

LEMMA RankingsAreRankings ==
  ASSUME NEW r \in Rankings
  PROVE  RankingIs(r) /\ ToSet(r) \subseteq Ids
BY SearchAssumption DEF RankingIs, Ids

LEMMA FoundAreDated ==
  ASSUME NEW lexical \in Rankings, NEW vector \in Rankings, NEW created \in [Ids -> Ages]
  PROVE  \A x \in FoundBy(lexical, vector) : created[x] \in Int
<1>1. FoundBy(lexical, vector) \subseteq Ids
  BY RankingsAreRankings DEF FoundBy
<1>2. Ages \subseteq Int
  BY SearchAssumption
<1> QED BY <1>1, <1>2

LEMMA SearchInvAtFirst == Init => SearchInv
<1> SUFFICES ASSUME Init, part = "search" PROVE SearchInv
  BY DEF SearchInv
<1>1. GivenRankings
  BY Zenon DEF Init, GivenABody, GivenRankings, GivenCandidates, GivenTexts,
        GivenHome, GivenFiles, GivenDatabase, GivenReader, GivenViewer
<1>2. work.at = "ranked"
  BY <1>1 DEF GivenRankings
<1> QED BY <1>1, <1>2 DEF SearchInv, GivenRankings

\* A search has its six fields; a step of it sets how far it is and what it has so far.
IsSearch(w) ==
  w = [at |-> w.at, lexical |-> w.lexical, vector |-> w.vector, created |-> w.created,
       limit |-> w.limit, result |-> w.result]

Advanced(w, x, y, u) ==
  u = [at |-> x, lexical |-> w.lexical, vector |-> w.vector, created |-> w.created,
       limit |-> w.limit, result |-> y]

LEMMA FieldsAdvance ==
  ASSUME NEW a, NEW l, NEW v, NEW c, NEW m, NEW r, NEW w,
         w = [at |-> a, lexical |-> l, vector |-> v, created |-> c, limit |-> m, result |-> r],
         NEW x, NEW y, NEW u, u = [w EXCEPT !.at = x, !.result = y]
  PROVE  u = [at |-> x, lexical |-> l, vector |-> v, created |-> c, limit |-> m, result |-> y]
OBVIOUS

LEMMA SearchAdvances ==
  ASSUME NEW w, IsSearch(w), NEW x, NEW y, NEW u, u = [w EXCEPT !.at = x, !.result = y]
  PROVE  Advanced(w, x, y, u)
<1> DEFINE l == w.lexical
           v == w.vector
           c == w.created
           m == w.limit
           a == w.at
           r == w.result
<1>1. w = [at |-> a, lexical |-> l, vector |-> v, created |-> c, limit |-> m, result |-> r]
  BY Zenon DEF IsSearch
<1> HIDE DEF l, v, c, m, a, r
<1>2. u = [at |-> x, lexical |-> l, vector |-> v, created |-> c, limit |-> m, result |-> y]
  BY <1>1, FieldsAdvance, Zenon
<1> QED BY <1>2, Zenon DEF Advanced, l, v, c, m

LEMMA SearchInvKept == SearchInv /\ [Next]_vars => SearchInv'
<1> SUFFICES ASSUME SearchInv, [Next]_vars, part = "search" PROVE SearchInv'
  BY EachPartBySteps DEF SearchInv
<1> DEFINE lexical == work.lexical
           vector == work.vector
           created == work.created
           limit == work.limit
<1>1. /\ work = [at |-> work.at, lexical |-> lexical, vector |-> vector, created |-> created,
                 limit |-> limit, result |-> work.result]
      /\ lexical \in Rankings /\ vector \in Rankings
      /\ created \in [Ids -> Ages] /\ limit \in 1..MaxLimit
      /\ Len(lexical) <= limit * FetchMultiplier /\ Len(vector) <= limit * FetchMultiplier
      /\ work.at = "fused" => work.result = RrfFuse(lexical, vector, limit * 2)
  BY DEF SearchInv
<1>0. IsSearch(work)
  BY DEF SearchInv, IsSearch
<1>2. SearchStep \/ work' = work
  BY EachPartBySteps
<1>3. CASE Fuses
  <2>1. work' = [work EXCEPT !.at = "fused", !.result = RrfFuse(work.lexical, work.vector, FusionDepth(work.limit))]
    BY <1>3 DEF Fuses, Become
  <2> DEFINE fused == RrfFuse(lexical, vector, limit * 2)
  <2>2. work' = [work EXCEPT !.at = "fused", !.result = fused]
    BY <2>1 DEF FusionDepth
  <2> HIDE DEF fused, lexical, vector, created, limit
  <2>3. work' = [at |-> "fused", lexical |-> lexical, vector |-> vector, created |-> created,
                 limit |-> limit, result |-> fused]
    <3>1. Advanced(work, "fused", fused, work')
      BY <1>0, <2>2, SearchAdvances
    <3> QED BY <3>1, Zenon DEF Advanced, lexical, vector, created, limit
  <2>4. /\ work'.at = "fused" /\ work'.lexical = lexical /\ work'.vector = vector /\ work'.created = created
        /\ work'.limit = limit /\ work'.result = fused
    BY <2>3
  <2> QED BY <1>1, <2>3, <2>4 DEF SearchInv, fused
<1>4. CASE Joins
  <2>1. work.at = "fused"
        /\ work' = [work EXCEPT !.at = "joined",
                         !.result = HybridResult(@, work.lexical, work.vector, work.created, work.limit)]
    BY <1>4 DEF Joins, Become
  <2> DEFINE joined == HybridResult(work.result, lexical, vector, created, limit)
  <2>2. work' = [work EXCEPT !.at = "joined", !.result = joined]
    BY <2>1
  <2>3. joined = HybridResult(RrfFuse(lexical, vector, limit * 2), lexical, vector, created, limit)
    BY <1>1, <2>1
  <2> HIDE DEF joined, lexical, vector, created, limit
  <2>4. limit \in Nat
    BY <1>1, SearchAssumption
  <2>5. JoinedIs(lexical, vector, created, limit, joined)
    BY <1>1, <2>3, <2>4, RankingsAreRankings, FoundAreDated, JoinKeepsTheBest
  <2>6. work' = [at |-> "joined", lexical |-> lexical, vector |-> vector, created |-> created,
                 limit |-> limit, result |-> joined]
    <3>1. Advanced(work, "joined", joined, work')
      BY <1>0, <2>2, SearchAdvances
    <3> QED BY <3>1, Zenon DEF Advanced, lexical, vector, created, limit
  <2>7. /\ work'.at = "joined" /\ work'.lexical = lexical /\ work'.vector = vector /\ work'.created = created
        /\ work'.limit = limit /\ work'.result = joined
    BY <2>6
  <2> QED BY <1>1, <2>5, <2>6, <2>7 DEF SearchInv
<1>5. CASE work' = work
  BY <1>5, EachPartBySteps DEF SearchInv
<1> QED BY <1>2, <1>3, <1>4, <1>5 DEF SearchStep

LEMMA SearchInvGives == SearchInv => SearchOrderIsRight
<1> SUFFICES ASSUME SearchInv, part = "search", work.at = "joined"
             PROVE  /\ RespectsAgreement(work.lexical, work.vector, work.result)
                    /\ NewerFirst(work.lexical, work.vector, work.created, work.result)
  BY DEF SearchOrderIsRight, AgreementWins, NewerWins
<1> DEFINE lexical == work.lexical
           vector == work.vector
           created == work.created
           limit == work.limit
           result == work.result
<1>1. /\ lexical \in Rankings /\ vector \in Rankings
      /\ created \in [Ids -> Ages] /\ limit \in 1..MaxLimit
      /\ Len(lexical) <= limit * FetchMultiplier /\ Len(vector) <= limit * FetchMultiplier
      /\ JoinedIs(lexical, vector, created, limit, result)
  BY DEF SearchInv
<1> HIDE DEF lexical, vector, created, limit, result
<1>2. limit \in Nat
  BY <1>1, SearchAssumption
<1>3. RankingIs(lexical) /\ RankingIs(vector) /\ \A x \in FoundBy(lexical, vector) : created[x] \in Int
  BY <1>1, RankingsAreRankings, FoundAreDated
<1>4. RespectsAgreement(lexical, vector, result)
  BY <1>1, <1>2, <1>3, AgreementRespected
<1>5. NewerFirst(lexical, vector, created, result)
  BY <1>1, <1>3, NewerRespected
<1> QED BY <1>4, <1>5 DEF lexical, vector, created, result

(*----------------------------------------------------------------------------*)
(* The path of a body                                                         *)
(*----------------------------------------------------------------------------*)

\* The equation of Depth: the spans open before each position.
Counts(d, text) ==
  /\ d \in [1..Len(text) + 1 -> Nat]
  /\ d[1] = 0 /\ (Len(text) >= 1 => d[2] = 0)
  /\ \A n \in 3..Len(text) + 1 :
       LET tag == SubSeq(text, n - 2, n - 1)
       IN d[n] = CASE tag = OpenTag -> d[n - 1] + 1
                   [] tag = CloseTag /\ d[n - 1] > 0 -> d[n - 1] - 1
                   [] OTHER -> d[n - 1]

LEMMA DepthEquation ==
  ASSUME NEW S, NEW text \in Seq(S)
  PROVE  \E d : Counts(d, text) /\ \A i \in 1..Len(text) + 1 : Depth(text, i) = d[i]
<1> DEFINE D == 1..Len(text) + 1
           tag(n) == SubSeq(text, n - 2, n - 1)
           next(n, b) == CASE tag(n) = OpenTag -> b + 1
                           [] tag(n) = CloseTag /\ b > 0 -> b - 1
                           [] OTHER -> b
           Eq(d) == d = [n \in D |-> CASE n <= 2 -> 0
                                       [] n > 2 /\ tag(n) = OpenTag -> d[n - 1] + 1
                                       [] n > 2 /\ tag(n) = CloseTag /\ d[n - 1] > 0 -> d[n - 1] - 1
                                       [] OTHER -> d[n - 1]]
           stop == {n \in D : n <= 2}
           down == [n \in D |-> IF n = 1 THEN 1 ELSE n - 1]
           m == [n \in D |-> n]
           start == [n \in D |-> 0]
           step == [p \in D \X Nat |-> next(p[1], p[2])]
<1>1. Len(text) \in Nat
  OBVIOUS
<1>2. stop \subseteq D /\ down \in [D -> D] /\ m \in [D -> Nat] /\ \A n \in D \ stop : m[down[n]] < m[n]
  BY <1>1
<1>3. start \in [D -> Nat] /\ step \in [D \X Nat -> Nat]
  <2>1. OpenTag # CloseTag
    BY DEF OpenTag, CloseTag
  <2> HIDE DEF tag
  <2>2. ASSUME NEW p \in D \X Nat PROVE next(p[1], p[2]) \in Nat
    <3>1. p[2] \in Nat
      OBVIOUS
    <3> QED BY <3>1, <2>1
  <2> HIDE DEF next
  <2> QED BY <2>2
<1>4. PICK f \in [D -> Nat] : Solves(f, D, stop, down, start, step)
  <2>1. \E f \in [D -> Nat] : Solves(f, D, stop, down, start, step)
    <3> HIDE DEF D, stop, down, m, start, step
    <3> QED BY <1>2, <1>3, RecursionHasSolution
  <2> QED BY <2>1
<1>5. ASSUME NEW n \in D PROVE f[n] = IF n <= 2 THEN 0 ELSE next(n, f[n - 1])
  <2>1. f[n] = IF n \in stop THEN start[n] ELSE step[<<n, f[down[n]]>>]
    <3> HIDE DEF D, stop, start, step, down
    <3> QED BY <1>4 DEF Solves
  <2>2. CASE n <= 2
    BY <2>1, <2>2
  <2>3. CASE ~(n <= 2)
    <3>1. down[n] = n - 1 /\ n - 1 \in D /\ n \notin stop
      BY <2>3, <1>1
    <3>2. f[n - 1] \in Nat
      BY <3>1, <1>4
    <3>3. step[<<n, f[n - 1]>>] = next(n, f[n - 1])
      <4> HIDE DEF next
      <4> QED BY <3>2
    <3> HIDE DEF step, next, down, stop
    <3> QED BY <2>1, <2>3, <3>1, <3>3
  <2> QED BY <2>2, <2>3
<1>6. Eq(f)
  <2>1. ASSUME NEW n \in D
        PROVE f[n] = CASE n <= 2 -> 0
                       [] n > 2 /\ tag(n) = OpenTag -> f[n - 1] + 1
                       [] n > 2 /\ tag(n) = CloseTag /\ f[n - 1] > 0 -> f[n - 1] - 1
                       [] OTHER -> f[n - 1]
    <3>1. OpenTag # CloseTag
      BY DEF OpenTag, CloseTag
    <3> HIDE DEF tag
    <3> QED BY <1>5, <3>1
  <2>2. f = [n \in D |-> f[n]]
    BY <1>4
  <2> HIDE DEF tag, D
  <2> QED BY <2>1, <2>2
<1> DEFINE d == CHOOSE g : Eq(g)
<1>7. Eq(d)
  <2> HIDE DEF Eq
  <2> QED BY <1>6, Zenon
<1>8. \A i \in D : Depth(text, i) = d[i]
  BY Zenon DEF Depth
<1> HIDE DEF d
<1>9. d = [n \in D |-> d[n]]
  <2> HIDE DEF tag, D
  <2> QED BY <1>7
<1>91. ASSUME NEW n \in D PROVE d[n] = IF n <= 2 THEN 0 ELSE next(n, d[n - 1])
  <2>1. OpenTag # CloseTag
    BY DEF OpenTag, CloseTag
  <2>2. d[n] = CASE n <= 2 -> 0
                 [] n > 2 /\ tag(n) = OpenTag -> d[n - 1] + 1
                 [] n > 2 /\ tag(n) = CloseTag /\ d[n - 1] > 0 -> d[n - 1] - 1
                 [] OTHER -> d[n - 1]
    <3> HIDE DEF tag, D
    <3> QED BY <1>7
  <2> HIDE DEF tag
  <2> QED BY <1>1, <2>1, <2>2
<1>10. ASSUME NEW n \in D PROVE d[n] \in Nat
  <2> SUFFICES ASSUME d[n] \notin Nat PROVE FALSE
    OBVIOUS
  <2> DEFINE T == {k \in D : d[k] \notin Nat}
  <2>1. T \subseteq Nat /\ T # {}
    BY <1>1
  <2>2. PICK k \in T : \A y \in T : k <= y
    <3> HIDE DEF T
    <3> QED BY <2>1, LeastOfNaturals
  <2>3. k > 2 /\ k - 1 \in D /\ k - 1 \notin T
    BY <1>1, <1>91, <2>2, SMTT(60)
  <2>4. d[k - 1] \in Nat
    BY <2>3
  <2>5. d[k] = next(k, d[k - 1])
    <3>1. k \in D /\ ~(k <= 2)
      BY <2>2, <2>3
    <3> HIDE DEF next, D
    <3> QED BY <1>91, <3>1
  <2>6. OpenTag # CloseTag
    BY DEF OpenTag, CloseTag
  <2>7. next(k, d[k - 1]) \in Nat
    <3> HIDE DEF tag
    <3> QED BY <2>4, <2>6
  <2> QED BY <2>2, <2>5, <2>7
<1>11. Counts(d, text)
  <2>1. d \in [1..Len(text) + 1 -> Nat]
    <3> HIDE DEF next
    <3> QED BY <1>9, <1>10
  <2>2. d[1] = 0 /\ (Len(text) >= 1 => d[2] = 0)
    <3>1. 1 \in D /\ (Len(text) >= 1 => 2 \in D)
      BY <1>1
    <3> HIDE DEF next, D
    <3> QED BY <1>91, <3>1
  <2>3. \A n \in 3..Len(text) + 1 : d[n] = next(n, d[n - 1])
    <3> HIDE DEF next
    <3> QED BY <1>1, <1>91
  <2> QED BY <2>1, <2>2, <2>3 DEF Counts
<1> QED BY <1>8, <1>11

\* Where a tag stands.
TagAt(text, tag, i) == SubSeq(text, i, i + 1) = tag

\* The first tag from pos on.
FirstTag(i, tag, text, pos) ==
  \/ i = 0 /\ \A j \in pos..Len(text) - 1 : ~TagAt(text, tag, j)
  \/ i \in pos..Len(text) - 1 /\ TagAt(text, tag, i) /\ \A j \in pos..i - 1 : ~TagAt(text, tag, j)

LEMMA IndexOfIs ==
  ASSUME NEW S, NEW text \in Seq(S), NEW tag, NEW pos \in Nat \ {0}
  PROVE  FirstTag(IndexOf(tag, text, pos), tag, text, pos)
<1> DEFINE found == {i \in pos..Len(text) - 1 : SubSeq(text, i, i + 1) = tag}
<1>1. IndexOf(tag, text, pos) = IF found = {} THEN 0 ELSE Min(found)
  BY DEF IndexOf
<1>2. CASE found = {}
  <2>1. \A j \in pos..Len(text) - 1 : SubSeq(text, j, j + 1) # tag
    BY <1>2
  <2> HIDE DEF found
  <2> QED BY <1>1, <1>2, <2>1 DEF FirstTag, TagAt
<1>3. CASE found # {}
  <2>1. found \subseteq Nat
    OBVIOUS
  <2>2. \E x \in found : \A y \in found : x <= y
    <3> HIDE DEF found
    <3> QED BY <1>3, <2>1, LeastOfNaturals
  <2>3. Min(found) \in found /\ \A y \in found : Min(found) <= y
    <3> HIDE DEF found
    <3> QED BY <2>2 DEF Min
  <2>4. PICK i : i = Min(found)
    OBVIOUS
  <2>5. i \in pos..Len(text) - 1 /\ SubSeq(text, i, i + 1) = tag
    BY <2>3, <2>4
  <2>6. ASSUME NEW j \in pos..i - 1 PROVE SubSeq(text, j, j + 1) # tag
    <3> SUFFICES ASSUME SubSeq(text, j, j + 1) = tag PROVE FALSE
      OBVIOUS
    <3>1. Len(text) \in Nat
      OBVIOUS
    <3>2. j \in pos..Len(text) - 1 /\ ~(i <= j)
      BY <2>5, <3>1
    <3>3. j \in found
      BY <3>2
    <3> QED BY <2>3, <2>4, <3>2, <3>3
  <2> HIDE DEF found
  <2> QED BY <1>1, <1>3, <2>4, <2>5, <2>6 DEF FirstTag, TagAt
<1> QED BY <1>2, <1>3

\* The equation of the walk of SpanAfter: where the span ends, of which depth tags are open at pos.
SpanEnds(end, text) ==
  \A depth \in Nat, pos \in 1..Len(text) + 1 :
    LET open == IndexOf(OpenTag, text, pos)
        close == IndexOf(CloseTag, text, pos)
    IN end[<<depth, pos>>] = IF depth = 0 \/ pos > Len(text) THEN pos
                         ELSE IF close = 0 THEN Len(text) + 1
                         ELSE IF open # 0 /\ open < close THEN end[<<depth + 1, open + 2>>]
                         ELSE end[<<depth - 1, close + 2>>]

LEMMA SpanEquation ==
  ASSUME NEW S, NEW text \in Seq(S)
  PROVE  \E end : SpanEnds(end, text) /\ \A i : SpanAfter(text, i) = end[<<1, i + 2>>]
<1> DEFINE P == 1..Len(text) + 1
           D == Nat \X P
           open(pos) == IndexOf(OpenTag, text, pos)
           close(pos) == IndexOf(CloseTag, text, pos)
           nested(pos) == open(pos) # 0 /\ open(pos) < close(pos)
           Eq(end) == end = [at \in D |->
                              IF at[1] = 0 \/ at[2] > Len(text) THEN at[2]
                              ELSE IF close(at[2]) = 0 THEN Len(text) + 1
                              ELSE IF open(at[2]) # 0 /\ open(at[2]) < close(at[2])
                                   THEN end[<<at[1] + 1, open(at[2]) + 2>>]
                              ELSE end[<<at[1] - 1, close(at[2]) + 2>>]]
           ends(depth, pos) == depth = 0 \/ pos > Len(text)
           stop == {x \in D : ends(x[1], x[2]) \/ close(x[2]) = 0}
           then(depth, pos) == IF nested(pos) THEN <<depth + 1, open(pos) + 2>> ELSE <<depth - 1, close(pos) + 2>>
           down == [x \in D |-> IF x \in stop THEN x ELSE then(x[1], x[2])]
           m == [x \in D |-> Len(text) + 1 - x[2]]
           start == [x \in D |-> IF ends(x[1], x[2]) THEN x[2] ELSE Len(text) + 1]
           step == [p \in D \X P |-> p[2]]
<1>1. Len(text) \in Nat
  OBVIOUS
<1>2. ASSUME NEW pos \in P
      PROVE  /\ open(pos) = 0 \/ open(pos) \in pos..Len(text) - 1
             /\ close(pos) = 0 \/ close(pos) \in pos..Len(text) - 1
  BY <1>1, IndexOfIs DEF FirstTag
<1> HIDE DEF open, close
<1>3. ASSUME NEW depth \in Nat, NEW pos \in P, ~ends(depth, pos), close(pos) # 0
      PROVE  /\ then(depth, pos) \in D
             /\ pos < then(depth, pos)[2]
             /\ then(depth, pos) = <<then(depth, pos)[1], then(depth, pos)[2]>>
  <2>1. CASE nested(pos)
    BY <1>1, <1>2, <1>3, <2>1
  <2>2. CASE ~nested(pos)
    BY <1>1, <1>2, <1>3, <2>2
  <2> QED BY <2>1, <2>2
<1>4. \A x \in D : x[1] \in Nat /\ x[2] \in P /\ x = <<x[1], x[2]>>
  OBVIOUS
<1>5. stop \subseteq D
  OBVIOUS
<1>6. ASSUME NEW x \in D PROVE down[x] \in D /\ (x \notin stop => x[2] < down[x][2])
  <2>1. CASE x \in stop
    BY <2>1
  <2>2. CASE x \notin stop
    <3>1. ~ends(x[1], x[2]) /\ close(x[2]) # 0
      BY <2>2
    <3>2. then(x[1], x[2]) \in D /\ x[2] < then(x[1], x[2])[2]
      <4> HIDE DEF then, ends, D
      <4> QED BY <1>3, <1>4, <3>1
    <3>3. down[x] = then(x[1], x[2])
      <4> HIDE DEF then, stop, D
      <4> QED BY <2>2
    <3> QED BY <2>2, <3>2, <3>3
  <2> QED BY <2>1, <2>2
<1>7. down \in [D -> D]
  <2>1. DOMAIN down = D
    OBVIOUS
  <2>2. down = [x \in D |-> down[x]]
    OBVIOUS
  <2> HIDE DEF down, D
  <2> QED BY <1>6, <2>1, <2>2
<1>8. m \in [D -> Nat]
  <2>1. ASSUME NEW x \in D PROVE Len(text) + 1 - x[2] \in Nat
    BY <1>1
  <2> HIDE DEF D
  <2> QED BY <2>1
<1>9. ASSUME NEW x \in D \ stop PROVE m[down[x]] < m[x]
  <2>1. down[x] \in D /\ x[2] < down[x][2] /\ x \in D
    BY <1>6
  <2>2. m[x] = Len(text) + 1 - x[2] /\ m[down[x]] = Len(text) + 1 - down[x][2]
    <3> HIDE DEF D, down
    <3> QED BY <2>1
  <2>3. x[2] \in Nat /\ down[x][2] \in Nat
    <3> HIDE DEF D, down
    <3> QED BY <2>1, <1>4, <1>1
  <2> HIDE DEF m, down
  <2> QED BY <1>1, <2>1, <2>2, <2>3
<1>10. start \in [D -> P] /\ step \in [D \X P -> P]
  <2>1. ASSUME NEW x \in D PROVE (IF ends(x[1], x[2]) THEN x[2] ELSE Len(text) + 1) \in P
    BY <1>1
  <2>2. start \in [D -> P]
    <3> HIDE DEF D, P, ends
    <3> QED BY <2>1
  <2> HIDE DEF D, P
  <2> QED BY <2>2
<1>11. PICK f \in [D -> P] : Solves(f, D, stop, down, start, step)
  <2>1. \E f \in [D -> P] : Solves(f, D, stop, down, start, step)
    <3> HIDE DEF D, P, stop, down, m, start, step
    <3> QED BY <1>5, <1>7, <1>8, <1>9, <1>10, RecursionHasSolution
  <2> QED BY <2>1
<1>12. ASSUME NEW depth \in Nat, NEW pos \in P
       PROVE  f[<<depth, pos>>] = IF ends(depth, pos) THEN pos
                              ELSE IF close(pos) = 0 THEN Len(text) + 1
                              ELSE IF nested(pos) THEN f[<<depth + 1, open(pos) + 2>>]
                              ELSE f[<<depth - 1, close(pos) + 2>>]
  <2> DEFINE x == <<depth, pos>>
  <2>0. x \in D /\ x[1] = depth /\ x[2] = pos
    OBVIOUS
  <2>1. f[x] = IF x \in stop THEN start[x] ELSE step[<<x, f[down[x]]>>]
    <3> HIDE DEF D, stop, start, step, down, x
    <3> QED BY <2>0, <1>11 DEF Solves
  <2>2. CASE x \in stop
    <3>1. ends(depth, pos) \/ close(pos) = 0
      BY <2>2
    <3>2. start[x] = IF ends(depth, pos) THEN pos ELSE Len(text) + 1
      <4> HIDE DEF ends, D, x
      <4> QED BY <2>0
    <3> HIDE DEF start, stop, ends
    <3> QED BY <2>1, <2>2, <3>1, <3>2
  <2>3. CASE x \notin stop
    <3>1. ~ends(depth, pos) /\ close(pos) # 0
      BY <2>3
    <3>2. down[x] = then(depth, pos) /\ down[x] \in D
      <4> HIDE DEF then, D, x, stop
      <4> QED BY <2>0, <2>3, <1>6
    <3>3. step[<<x, f[down[x]]>>] = f[down[x]]
      <4> HIDE DEF down, D, P, x
      <4> QED BY <2>0, <3>2, <1>11
    <3>4. f[x] = f[then(depth, pos)]
      <4> HIDE DEF down, step, then, x, stop
      <4> QED BY <2>1, <2>3, <3>2, <3>3
    <3> HIDE DEF ends, D, stop
    <3> QED BY <3>1, <3>4
  <2> QED BY <2>2, <2>3
<1>13. Eq(f)
  <2>1. f = [x \in D |-> f[x]]
    BY <1>11
  <2>2. ASSUME NEW at \in D
        PROVE f[at] = IF at[1] = 0 \/ at[2] > Len(text) THEN at[2]
                      ELSE IF close(at[2]) = 0 THEN Len(text) + 1
                      ELSE IF open(at[2]) # 0 /\ open(at[2]) < close(at[2])
                           THEN f[<<at[1] + 1, open(at[2]) + 2>>]
                      ELSE f[<<at[1] - 1, close(at[2]) + 2>>]
    <3>1. at[1] \in Nat /\ at[2] \in P /\ at = <<at[1], at[2]>>
      BY <1>4
    <3> HIDE DEF P, D
    <3> QED BY <1>12, <3>1
  <2> HIDE DEF P, D
  <2> QED BY <2>1, <2>2
<1> DEFINE end == CHOOSE g : Eq(g)
<1>14. Eq(end)
  <2> HIDE DEF Eq
  <2> QED BY <1>13, Zenon
<1>15. \A i : SpanAfter(text, i) = end[<<1, i + 2>>]
  BY Zenon DEF SpanAfter, D, P, open, close
<1> HIDE DEF end
<1>16. ASSUME NEW depth \in Nat, NEW pos \in P
       PROVE  end[<<depth, pos>>] = IF depth = 0 \/ pos > Len(text) THEN pos
                              ELSE IF close(pos) = 0 THEN Len(text) + 1
                              ELSE IF open(pos) # 0 /\ open(pos) < close(pos) THEN end[<<depth + 1, open(pos) + 2>>]
                              ELSE end[<<depth - 1, close(pos) + 2>>]
  <2>1. <<depth, pos>> \in D
    OBVIOUS
  <2> HIDE DEF P, D
  <2> QED BY <1>14, <2>1
<1>17. SpanEnds(end, text)
  BY <1>16 DEF SpanEnds, open, close
<1> QED BY <1>15, <1>17

\* No tag begins just before pos, to end behind it.
Settled(text, pos) ==
  pos \in 2..Len(text) => ~TagAt(text, OpenTag, pos - 1) /\ ~TagAt(text, CloseTag, pos - 1)

LEMMA MembersOfTuples ==
  ASSUME NEW a, NEW b
  PROVE  ToSet(<<a>>) = {a} /\ ToSet(<<a, b>>) = {a, b}
<1>1. DOMAIN <<a>> = {1} /\ DOMAIN <<a, b>> = {1, 2}
  OBVIOUS
<1>2. <<a>>[1] = a /\ <<a, b>>[1] = a /\ <<a, b>>[2] = b
  OBVIOUS
<1> QED BY <1>1, <1>2 DEF ToSet

\* The atoms of tags and markers.
TagAtoms == {"<priv", "ate>", "</priv", "[REDACTED]", "[truncated]", "field"}

LEMMA TagsAre ==
  /\ OpenTag \in Seq(TagAtoms) /\ CloseTag \in Seq(TagAtoms) /\ Replacement \in Seq(TagAtoms)
  /\ TruncationMarker \in Seq(TagAtoms) /\ FieldName \in Seq(TagAtoms)
  /\ Tags = TagAtoms
<1>0. \A x, y \in TagAtoms : <<x>> \in Seq(TagAtoms) /\ <<x, y>> \in Seq(TagAtoms)
  OBVIOUS
<1>1. /\ OpenTag \in Seq(TagAtoms) /\ CloseTag \in Seq(TagAtoms) /\ Replacement \in Seq(TagAtoms)
      /\ TruncationMarker \in Seq(TagAtoms) /\ FieldName \in Seq(TagAtoms)
  <2>1. /\ "<priv" \in TagAtoms /\ "ate>" \in TagAtoms /\ "</priv" \in TagAtoms
        /\ "[REDACTED]" \in TagAtoms /\ "[truncated]" \in TagAtoms /\ "field" \in TagAtoms
    BY DEF TagAtoms
  <2> QED BY <1>0, <2>1 DEF OpenTag, CloseTag, Replacement, TruncationMarker, FieldName
<1>2. /\ ToSet(OpenTag) = {"<priv", "ate>"} /\ ToSet(CloseTag) = {"</priv", "ate>"}
      /\ ToSet(Replacement) = {"[REDACTED]"} /\ ToSet(TruncationMarker) = {"[truncated]"}
      /\ ToSet(FieldName) = {"field"}
  <2>1. \A x, y : ToSet(<<x>>) = {x} /\ ToSet(<<x, y>>) = {x, y}
    BY MembersOfTuples
  <2>2. /\ ToSet(<<"<priv", "ate>">>) = {"<priv", "ate>"} /\ ToSet(<<"</priv", "ate>">>) = {"</priv", "ate>"}
        /\ ToSet(<<"[REDACTED]">>) = {"[REDACTED]"} /\ ToSet(<<"[truncated]">>) = {"[truncated]"}
        /\ ToSet(<<"field">>) = {"field"}
    BY <2>1
  <2> QED BY <2>2 DEF OpenTag, CloseTag, Replacement, TruncationMarker, FieldName
<1> DEFINE a == OpenTag \o CloseTag
           b == a \o Replacement
           c == b \o TruncationMarker
<1>3. a \in Seq(TagAtoms) /\ ToSet(a) = ToSet(OpenTag) \cup ToSet(CloseTag)
  BY <1>1, MembersOfConcat
<1> HIDE DEF a
<1>4. b \in Seq(TagAtoms) /\ ToSet(b) = ToSet(a) \cup ToSet(Replacement)
  BY <1>1, <1>3, MembersOfConcat
<1> HIDE DEF b
<1>5. c \in Seq(TagAtoms) /\ ToSet(c) = ToSet(b) \cup ToSet(TruncationMarker)
  BY <1>1, <1>4, MembersOfConcat
<1> HIDE DEF c
<1>6. ToSet(c \o FieldName) = ToSet(c) \cup ToSet(FieldName)
  BY <1>1, <1>5, MembersOfConcat
<1>7. Tags = ToSet(c \o FieldName)
  BY DEF Tags, a, b, c
<1> QED BY <1>1, <1>2, <1>3, <1>4, <1>5, <1>6, <1>7 DEF TagAtoms

\* The atoms of a tag, and that no two tags overlap.
LEMMA TagsApart ==
  ASSUME NEW S, NEW text \in Seq(S), NEW i \in 1..Len(text) - 1
  PROVE  /\ TagAt(text, OpenTag, i) <=> text[i] = "<priv" /\ text[i + 1] = "ate>"
         /\ TagAt(text, CloseTag, i) <=> text[i] = "</priv" /\ text[i + 1] = "ate>"
         /\ ~(TagAt(text, OpenTag, i) /\ TagAt(text, CloseTag, i))
         /\ TagAt(text, OpenTag, i) \/ TagAt(text, CloseTag, i)
              => text[i] \in Tags /\ text[i + 1] \in Tags /\ Settled(text, i + 2)
<1>1. ASSUME NEW j \in 1..Len(text) - 1
      PROVE  \A a, b : SubSeq(text, j, j + 1) = <<a, b>> <=> text[j] = a /\ text[j + 1] = b
  <2>1. /\ SubSeq(text, j, j + 1) \in Seq(S)
        /\ Len(SubSeq(text, j, j + 1)) = 2
        /\ SubSeq(text, j, j + 1)[1] = text[j] /\ SubSeq(text, j, j + 1)[2] = text[j + 1]
    OBVIOUS
  <2> DEFINE u == SubSeq(text, j, j + 1)
  <2>2. u = [k \in 1..2 |-> u[k]]
    <3>1. u \in Seq(S) /\ Len(u) = 2
      BY <2>1 DEF u
    <3> HIDE DEF u
    <3> QED BY <3>1
  <2>3. u = <<u[1], u[2]>>
    <3> HIDE DEF u
    <3> QED BY <2>2
  <2>4. \A a, b : u = <<a, b>> <=> u[1] = a /\ u[2] = b
    <3> HIDE DEF u
    <3> QED BY <2>3
  <2> HIDE DEF u
  <2> QED BY <2>1, <2>4 DEF u
<1>2. ASSUME NEW j \in 1..Len(text) - 1
      PROVE  /\ TagAt(text, OpenTag, j) <=> text[j] = "<priv" /\ text[j + 1] = "ate>"
             /\ TagAt(text, CloseTag, j) <=> text[j] = "</priv" /\ text[j + 1] = "ate>"
  <2>1. SubSeq(text, j, j + 1) = <<"<priv", "ate>">> <=> text[j] = "<priv" /\ text[j + 1] = "ate>"
    BY <1>1
  <2>2. SubSeq(text, j, j + 1) = <<"</priv", "ate>">> <=> text[j] = "</priv" /\ text[j + 1] = "ate>"
    BY <1>1
  <2>3. OpenTag = <<"<priv", "ate>">> /\ CloseTag = <<"</priv", "ate>">>
    BY DEF OpenTag, CloseTag
  <2>4. /\ TagAt(text, OpenTag, j) <=> SubSeq(text, j, j + 1) = OpenTag
        /\ TagAt(text, CloseTag, j) <=> SubSeq(text, j, j + 1) = CloseTag
    BY Zenon DEF TagAt
  <2> QED BY <2>1, <2>2, <2>3, <2>4
<1>3. ASSUME text[i + 1] = "ate>" PROVE Settled(text, i + 2)
  <2> SUFFICES ASSUME i + 2 \in 2..Len(text) PROVE ~TagAt(text, OpenTag, i + 1) /\ ~TagAt(text, CloseTag, i + 1)
    BY DEF Settled
  <2>1. i + 1 \in 1..Len(text) - 1
    OBVIOUS
  <2> QED BY <1>2, <1>3, <2>1
<1> QED BY <1>2, <1>3, TagsAre DEF TagAtoms

\* One step of the count.
LEMMA DepthSteps ==
  ASSUME NEW S, NEW text \in Seq(S), NEW d, Counts(d, text), NEW n \in 3..Len(text) + 1
  PROVE  /\ d[n] \in Nat /\ d[n - 1] \in Nat
         /\ TagAt(text, OpenTag, n - 2) => d[n] = d[n - 1] + 1
         /\ TagAt(text, CloseTag, n - 2) => d[n] = IF d[n - 1] > 0 THEN d[n - 1] - 1 ELSE 0
         /\ ~TagAt(text, OpenTag, n - 2) /\ ~TagAt(text, CloseTag, n - 2) => d[n] = d[n - 1]
<1>1. n - 2 \in 1..Len(text) - 1 /\ (n - 2) + 1 = n - 1 /\ n - 1 \in 1..Len(text) + 1 /\ n \in 1..Len(text) + 1
  OBVIOUS
<1>2. d[n] \in Nat /\ d[n - 1] \in Nat
  BY <1>1 DEF Counts
<1>3. ~(TagAt(text, OpenTag, n - 2) /\ TagAt(text, CloseTag, n - 2))
  BY <1>1, TagsApart
<1> DEFINE tag == SubSeq(text, n - 2, n - 1)
<1>4. d[n] = CASE tag = OpenTag -> d[n - 1] + 1
               [] tag = CloseTag /\ d[n - 1] > 0 -> d[n - 1] - 1
               [] OTHER -> d[n - 1]
  BY DEF Counts
<1>5. TagAt(text, OpenTag, n - 2) <=> tag = OpenTag
  BY <1>1 DEF TagAt
<1>6. TagAt(text, CloseTag, n - 2) <=> tag = CloseTag
  BY <1>1 DEF TagAt
<1> HIDE DEF tag
<1> QED BY <1>2, <1>3, <1>4, <1>5, <1>6

\* Without a tag the depth stays.
LEMMA DepthFlat ==
  ASSUME NEW S, NEW text \in Seq(S), NEW d, Counts(d, text),
         NEW a \in 1..Len(text) + 1, NEW b \in a..Len(text) + 1, Settled(text, a),
         \A j \in a..b - 2 : ~TagAt(text, OpenTag, j) /\ ~TagAt(text, CloseTag, j)
  PROVE  \A i \in a..b : d[i] = d[a]
<1> DEFINE T == {i \in a..b : d[i] # d[a]}
<1>0. Len(text) \in Nat
  OBVIOUS
<1>1. T = {}
  <2> SUFFICES ASSUME T # {} PROVE FALSE
    OBVIOUS
  <2>1. T \subseteq Nat
    OBVIOUS
  <2>2. PICK i \in T : \A y \in T : i <= y
    <3> HIDE DEF T
    <3> QED BY <2>1, LeastOfNaturals
  <2>3. i \in a + 1..b /\ i - 1 \in a..b /\ i - 1 \notin T
    BY <2>2
  <2>4. d[i - 1] = d[a]
    BY <2>3
  <2>5. CASE i <= 2
    <3>1. i = 2 /\ a = 1 /\ Len(text) >= 1
      BY <1>0, <2>3, <2>5
    <3> QED BY <2>2, <3>1 DEF Counts
  <2>6. CASE i > 2
    <3>1. i \in 3..Len(text) + 1
      BY <1>0, <2>3, <2>6
    <3>2. ~TagAt(text, OpenTag, i - 2) /\ ~TagAt(text, CloseTag, i - 2)
      <4>1. CASE i - 2 \in a..b - 2
        BY <4>1
      <4>2. CASE i - 2 \notin a..b - 2
        <5>1. i - 2 = a - 1 /\ a \in 2..Len(text)
          BY <1>0, <2>3, <3>1, <4>2
        <5> QED BY <5>1 DEF Settled
      <4> QED BY <4>1, <4>2
    <3>3. d[i] = d[i - 1]
      BY <3>1, <3>2, DepthSteps
    <3> QED BY <2>2, <2>4, <3>3
  <2> QED BY <2>3, <2>5, <2>6
<1> QED BY <1>1

\* Without an opening tag nothing is opened; without a closing one, nothing closed.
LEMMA DepthStays ==
  ASSUME NEW S, NEW text \in Seq(S), NEW d, Counts(d, text),
         NEW a \in 1..Len(text) + 1, Settled(text, a)
  PROVE  /\ (\A j \in a..Len(text) - 1 : ~TagAt(text, OpenTag, j)) /\ d[a] = 0
              => \A i \in a..Len(text) + 1 : d[i] = 0
         /\ (\A j \in a..Len(text) - 1 : ~TagAt(text, CloseTag, j))
              => \A i \in a..Len(text) + 1 : d[i] >= d[a]
<1> DEFINE T == {i \in a..Len(text) + 1 : d[i] # 0}
           U == {i \in a..Len(text) + 1 : ~(d[i] >= d[a])}
<1>0. Len(text) \in Nat /\ d[a] \in Nat
  BY DEF Counts
<1>1. ASSUME NEW i \in a + 1..Len(text) + 1, i > 2, NEW tag \in {OpenTag, CloseTag},
             \A j \in a..Len(text) - 1 : ~TagAt(text, tag, j)
      PROVE  ~TagAt(text, tag, i - 2) /\ i \in 3..Len(text) + 1
  <2>1. CASE i - 2 \in a..Len(text) - 1
    BY <1>0, <1>1, <2>1
  <2>2. CASE i - 2 \notin a..Len(text) - 1
    <3>1. i - 2 = a - 1 /\ a \in 2..Len(text)
      BY <1>0, <1>1, <2>2
    <3> QED BY <1>0, <1>1, <3>1 DEF Settled
  <2> QED BY <2>1, <2>2
<1>2. ASSUME \A j \in a..Len(text) - 1 : ~TagAt(text, OpenTag, j), d[a] = 0 PROVE T = {}
  <2> SUFFICES ASSUME T # {} PROVE FALSE
    OBVIOUS
  <2>1. T \subseteq Nat
    OBVIOUS
  <2>2. PICK i \in T : \A y \in T : i <= y
    <3> HIDE DEF T
    <3> QED BY <2>1, LeastOfNaturals
  <2>3. i \in a + 1..Len(text) + 1 /\ i - 1 \in a..Len(text) + 1 /\ i - 1 \notin T
    BY <1>2, <2>2
  <2>4. d[i - 1] = 0
    BY <2>3
  <2>5. CASE i <= 2
    <3>1. i = 2 /\ Len(text) >= 1
      BY <1>0, <2>3, <2>5
    <3> QED BY <2>2, <3>1 DEF Counts
  <2>6. CASE i > 2
    <3>1. i \in 3..Len(text) + 1 /\ ~TagAt(text, OpenTag, i - 2)
      BY <1>1, <1>2, <2>3, <2>6
    <3>3. d[i] = 0
      BY <2>4, <3>1, DepthSteps, SMTT(60)
    <3> QED BY <2>2, <3>3
  <2> QED BY <2>3, <2>5, <2>6
<1>3. ASSUME \A j \in a..Len(text) - 1 : ~TagAt(text, CloseTag, j) PROVE U = {}
  <2> SUFFICES ASSUME U # {} PROVE FALSE
    OBVIOUS
  <2>1. U \subseteq Nat
    OBVIOUS
  <2>2. PICK i \in U : \A y \in U : i <= y
    <3> HIDE DEF U
    <3> QED BY <2>1, LeastOfNaturals
  <2>3. i \in a + 1..Len(text) + 1 /\ i - 1 \in a..Len(text) + 1 /\ i - 1 \notin U
    BY <1>0, <2>2
  <2>4. d[i - 1] >= d[a]
    BY <2>3
  <2>5. CASE i <= 2
    <3>1. i = 2 /\ a = 1 /\ Len(text) >= 1
      BY <1>0, <2>3, <2>5
    <3> QED BY <2>2, <3>1 DEF Counts
  <2>6. CASE i > 2
    <3>1. i \in 3..Len(text) + 1 /\ ~TagAt(text, CloseTag, i - 2)
      BY <1>1, <1>3, <2>3, <2>6
    <3>3. d[i] \in Nat /\ d[i - 1] \in Nat /\ d[i] >= d[i - 1]
      BY <3>1, DepthSteps
    <3> QED BY <1>0, <2>2, <2>4, <3>3
  <2> QED BY <2>3, <2>5, <2>6
<1>4. T = {} => \A i \in a..Len(text) + 1 : d[i] = 0
  OBVIOUS
<1>5. U = {} => \A i \in a..Len(text) + 1 : d[i] >= d[a]
  OBVIOUS
<1> HIDE DEF T, U
<1> QED BY <1>2, <1>3, <1>4, <1>5

\* e ends what is open at pos: up to there every word is private.
SpanTo(e, d, text, pos) ==
  /\ e \in pos..Len(text) + 1
  /\ \A i \in pos..e - 1 : text[i] \in Tags \/ d[i] > 0
  /\ e = Len(text) + 1 \/ (d[e] = 0 /\ Settled(text, e))

\* One turn of the walk: to the next tag, of either kind.
LEMMA NextTag ==
  ASSUME NEW S, NEW text \in Seq(S), NEW d, Counts(d, text),
         NEW pos \in 1..Len(text) + 1, Settled(text, pos),
         NEW i \in pos..Len(text) - 1, TagAt(text, OpenTag, i) \/ TagAt(text, CloseTag, i),
         \A j \in pos..i - 1 : ~TagAt(text, OpenTag, j) /\ ~TagAt(text, CloseTag, j)
  PROVE  /\ i + 2 \in pos + 2..Len(text) + 1 /\ Settled(text, i + 2)
         /\ \A j \in pos..i + 1 : d[j] = d[pos]
         /\ d[pos] \in Nat /\ d[i + 2] \in Nat
         /\ TagAt(text, OpenTag, i) => d[i + 2] = d[pos] + 1
         /\ TagAt(text, CloseTag, i) => d[i + 2] = IF d[pos] > 0 THEN d[pos] - 1 ELSE 0
<1>0. Len(text) \in Nat /\ i \in 1..Len(text) - 1
  OBVIOUS
<1>1. i + 2 \in pos + 2..Len(text) + 1 /\ Settled(text, i + 2)
  BY <1>0, TagsApart
<1>2. \A j \in pos..i + 1 : d[j] = d[pos]
  <2>1. i + 1 \in pos..Len(text) + 1 /\ (i + 1) - 2 = i - 1
    BY <1>0
  <2> QED BY <2>1, DepthFlat
<1>3. d[pos] \in Nat /\ d[i + 2] \in Nat
  BY <1>0, <1>1 DEF Counts
<1>4. i + 2 \in 3..Len(text) + 1 /\ (i + 2) - 2 = i /\ (i + 2) - 1 = i + 1 /\ i + 1 \in pos..i + 1
  BY <1>0
<1>5. d[i + 1] = d[pos]
  BY <1>2, <1>4
<1>6. /\ TagAt(text, OpenTag, i) => d[i + 2] = d[i + 1] + 1
      /\ TagAt(text, CloseTag, i) => d[i + 2] = IF d[i + 1] > 0 THEN d[i + 1] - 1 ELSE 0
  BY <1>4, DepthSteps
<1> QED BY <1>1, <1>2, <1>3, <1>5, <1>6

\* The walk of SpanAfter, from any place and at its depth, ends what is open there.
LEMMA SpansEnd ==
  ASSUME NEW S, NEW text \in Seq(S), NEW d, Counts(d, text), NEW end, SpanEnds(end, text),
         NEW pos \in 1..Len(text) + 1, Settled(text, pos)
  PROVE  SpanTo(end[<<d[pos], pos>>], d, text, pos)
<1> DEFINE P == 1..Len(text) + 1
           Good(p) == Settled(text, p) => SpanTo(end[<<d[p], p>>], d, text, p)
           T == {p \in P : ~Good(p)}
           m == [p \in P |-> Len(text) + 1 - p]
<1>0. Len(text) \in Nat
  OBVIOUS
<1>1. ASSUME NEW p \in P, Settled(text, p), \A q \in P : q > p => Good(q)
      PROVE  SpanTo(end[<<d[p], p>>], d, text, p)
  <2> DEFINE open == IndexOf(OpenTag, text, p)
             close == IndexOf(CloseTag, text, p)
             e == end[<<d[p], p>>]
  <2>0. Settled(text, p) /\ p \in 1..Len(text) + 1
    BY <1>1
  <2>1. d[p] \in Nat
    BY DEF Counts
  <2>2. p \in Nat \ {0} /\ FirstTag(open, OpenTag, text, p) /\ FirstTag(close, CloseTag, text, p)
    BY <1>0, IndexOfIs
  <2>3. e = IF d[p] = 0 \/ p > Len(text) THEN p
            ELSE IF close = 0 THEN Len(text) + 1
            ELSE IF open # 0 /\ open < close THEN end[<<d[p] + 1, open + 2>>]
            ELSE end[<<d[p] - 1, close + 2>>]
    BY <2>1 DEF SpanEnds
  <2> HIDE DEF open, close, e
  <2>4. CASE d[p] = 0 \/ p > Len(text)
    <3>1. e = p /\ (p > Len(text) => p = Len(text) + 1)
      BY <1>0, <2>3, <2>4
    <3> QED BY <1>0, <1>1, <2>4, <3>1 DEF SpanTo, e
  <2>5. CASE ~(d[p] = 0 \/ p > Len(text)) /\ close = 0
    <3>1. e = Len(text) + 1
      BY <2>3, <2>5
    <3>2. \A j \in p..Len(text) - 1 : ~TagAt(text, CloseTag, j)
      BY <2>2, <2>5 DEF FirstTag
    <3>3. \A i \in p..Len(text) + 1 : d[i] >= d[p] /\ d[i] \in Nat
      <4>1. \A i \in p..Len(text) + 1 : d[i] >= d[p]
        BY <1>1, <3>2, DepthStays
      <4>2. \A i \in p..Len(text) + 1 : d[i] \in Nat
        BY <1>0 DEF Counts
      <4> QED BY <4>1, <4>2
    <3>4. \A i \in p..e - 1 : d[i] > 0
      BY <1>0, <2>1, <2>5, <3>1, <3>3
    <3> QED BY <1>0, <3>1, <3>4 DEF SpanTo, e
  <2>6. ASSUME NEW i \in p..Len(text) - 1, TagAt(text, OpenTag, i) \/ TagAt(text, CloseTag, i),
               \A j \in p..i - 1 : ~TagAt(text, OpenTag, j) /\ ~TagAt(text, CloseTag, j),
               d[p] > 0, e = end[<<d[i + 2], i + 2>>]
        PROVE  SpanTo(e, d, text, p)
    <3>1. /\ i + 2 \in p + 2..Len(text) + 1 /\ Settled(text, i + 2)
          /\ \A j \in p..i + 1 : d[j] = d[p]
      <4>1. /\ TagAt(text, OpenTag, i) \/ TagAt(text, CloseTag, i)
            /\ \A j \in p..i - 1 : ~TagAt(text, OpenTag, j) /\ ~TagAt(text, CloseTag, j)
        BY <2>6
      <4> QED BY <2>0, <4>1, NextTag
    <3>2. i + 2 \in P /\ i + 2 > p
      BY <1>0, <3>1
    <3>3. SpanTo(e, d, text, i + 2)
      BY <1>1, <2>6, <3>1, <3>2
    <3>4. e \in i + 2..Len(text) + 1
      BY <3>3 DEF SpanTo
    <3>5. ASSUME NEW j \in p..e - 1 PROVE text[j] \in Tags \/ d[j] > 0
      <4>1. CASE j \in p..i + 1
        BY <2>6, <3>1, <4>1
      <4>2. CASE j \in i + 2..e - 1
        BY <3>3, <4>2 DEF SpanTo
      <4> QED BY <1>0, <3>4, <4>1, <4>2
    <3>6. e \in p..Len(text) + 1
      BY <1>0, <3>1, <3>4
    <3> QED BY <3>3, <3>5, <3>6 DEF SpanTo
  <2>7. CASE ~(d[p] = 0 \/ p > Len(text)) /\ close # 0 /\ open # 0 /\ open < close
    <3>1. open \in p..Len(text) - 1 /\ TagAt(text, OpenTag, open)
          /\ \A j \in p..open - 1 : ~TagAt(text, OpenTag, j) /\ ~TagAt(text, CloseTag, j)
      BY <1>0, <2>2, <2>7 DEF FirstTag
    <3>2. d[open + 2] = d[p] + 1
      BY <2>0, <3>1, NextTag
    <3>3. e = end[<<d[open + 2], open + 2>>]
      BY <2>3, <2>7, <3>2
    <3>5. d[p] > 0 /\ (TagAt(text, OpenTag, open) \/ TagAt(text, CloseTag, open))
      BY <2>1, <2>7, <3>1
    <3>6. SpanTo(e, d, text, p)
      BY <2>6, <3>1, <3>3, <3>5
    <3> QED BY <3>6 DEF e
  <2>8. CASE ~(d[p] = 0 \/ p > Len(text)) /\ close # 0 /\ ~(open # 0 /\ open < close)
    <3>1. close \in p..Len(text) - 1 /\ TagAt(text, CloseTag, close)
      BY <2>2, <2>8 DEF FirstTag
    <3>2. \A j \in p..close - 1 : ~TagAt(text, OpenTag, j) /\ ~TagAt(text, CloseTag, j)
      BY <1>0, <2>2, <2>8, <3>1 DEF FirstTag
    <3>3. d[close + 2] = d[p] - 1
      BY <2>0, <2>1, <2>8, <3>1, <3>2, NextTag, SMTT(30)
    <3>4. e = end[<<d[close + 2], close + 2>>]
      BY <2>3, <2>8, <3>3
    <3>5. d[p] > 0 /\ (TagAt(text, OpenTag, close) \/ TagAt(text, CloseTag, close))
      BY <2>1, <2>8, <3>1
    <3>6. SpanTo(e, d, text, p)
      BY <2>6, <3>1, <3>2, <3>4, <3>5
    <3> QED BY <3>6 DEF e
  <2> QED BY <2>4, <2>5, <2>7, <2>8 DEF e
<1>2. T = {}
  <2> SUFFICES ASSUME T # {} PROVE FALSE
    OBVIOUS
  <2>1. m \in [P -> Nat] /\ T \subseteq P
    BY <1>0
  <2>2. PICK p \in T : \A q \in T : m[p] <= m[q]
    <3> HIDE DEF m, P, T
    <3> QED BY <2>1, LeastMeasured
  <2>3. p \in P /\ ~Good(p)
    BY <2>2
  <2>4. ASSUME NEW q \in P, q > p PROVE Good(q)
    <3> SUFFICES ASSUME q \in T PROVE FALSE
      OBVIOUS
    <3>1. m[p] <= m[q]
      BY <2>2
    <3>2. m[p] = Len(text) + 1 - p /\ m[q] = Len(text) + 1 - q
      BY <2>3
    <3> HIDE DEF m
    <3> QED BY <1>0, <2>3, <2>4, <3>1, <3>2
  <2> QED BY <1>1, <2>3, <2>4
<1>3. Good(pos)
  <2>1. pos \in P
    OBVIOUS
  <2> HIDE DEF Good, P
  <2> QED BY <1>2, <2>1
<1> QED BY <1>3

\* The span opened by the first opening tag outside of any span.
LEMMA SpanAfterIs ==
  ASSUME NEW S, NEW text \in Seq(S), NEW d, Counts(d, text),
         NEW pos \in 1..Len(text) + 1, Settled(text, pos), d[pos] = 0,
         NEW open \in pos..Len(text) - 1, FirstTag(open, OpenTag, text, pos)
  PROVE  /\ SpanTo(SpanAfter(text, open), d, text, open + 2)
         /\ \A i \in pos..open + 1 : d[i] = 0
         /\ open + 2 \in 1..Len(text) + 1
<1>0. Len(text) \in Nat /\ open \in 1..Len(text) - 1 /\ open \in Nat \ {0}
  OBVIOUS
<1>1. TagAt(text, OpenTag, open) /\ \A j \in pos..open - 1 : ~TagAt(text, OpenTag, j)
  BY <1>0 DEF FirstTag
<1>2. Settled(text, open + 2) /\ open + 2 \in 3..Len(text) + 1
  BY <1>0, <1>1, TagsApart
<1> DEFINE T == {i \in pos..open + 1 : d[i] # 0}
<1>3. T = {}
  <2> SUFFICES ASSUME T # {} PROVE FALSE
    OBVIOUS
  <2>1. T \subseteq Nat
    OBVIOUS
  <2>2. PICK i \in T : \A y \in T : i <= y
    <3> HIDE DEF T
    <3> QED BY <2>1, LeastOfNaturals
  <2>3. i \in pos + 1..open + 1 /\ i - 1 \in pos..open + 1 /\ i - 1 \notin T
    BY <2>2
  <2>4. d[i - 1] = 0
    BY <2>3
  <2>5. CASE i <= 2
    <3>1. i = 2 /\ Len(text) >= 1
      BY <1>0, <2>3, <2>5
    <3> QED BY <2>2, <3>1 DEF Counts
  <2>6. CASE i > 2
    <3>1. i \in 3..Len(text) + 1
      BY <1>0, <2>3, <2>6
    <3>2. ~TagAt(text, OpenTag, i - 2)
      <4>1. CASE i - 2 \in pos..open - 1
        BY <1>1, <4>1
      <4>2. CASE i - 2 \notin pos..open - 1
        <5>1. i - 2 = pos - 1 /\ pos \in 2..Len(text)
          BY <1>0, <2>3, <3>1, <4>2
        <5> QED BY <5>1 DEF Settled
      <4> QED BY <4>1, <4>2
    <3>3. d[i] = 0
      <4>1. /\ TagAt(text, CloseTag, i - 2) => d[i] = IF d[i - 1] > 0 THEN d[i - 1] - 1 ELSE 0
            /\ ~TagAt(text, OpenTag, i - 2) /\ ~TagAt(text, CloseTag, i - 2) => d[i] = d[i - 1]
        BY <3>1, DepthSteps
      <4> QED BY <2>4, <3>2, <4>1
    <3> QED BY <2>2, <3>3
  <2> QED BY <2>3, <2>5, <2>6
<1>4. \A i \in pos..open + 1 : d[i] = 0
  BY <1>3
<1> HIDE DEF T
<1>5. d[open + 2] = 1
  <2>1. d[open + 1] = 0
    BY <1>0, <1>4
  <2>2. open + 2 \in 3..Len(text) + 1 /\ (open + 2) - 2 = open /\ (open + 2) - 1 = open + 1
    BY <1>2, <1>0
  <2>3. TagAt(text, OpenTag, open) => d[open + 2] = d[open + 1] + 1
    BY <2>2, DepthSteps
  <2> QED BY <1>1, <2>1, <2>3
<1>6. PICK end : SpanEnds(end, text) /\ \A i : SpanAfter(text, i) = end[<<1, i + 2>>]
  BY SpanEquation
<1>7. SpanAfter(text, open) = end[<<d[open + 2], open + 2>>]
  BY <1>5, <1>6
<1>8. open + 2 \in 1..Len(text) + 1
  BY <1>2
<1>9. SpanTo(end[<<d[open + 2], open + 2>>], d, text, open + 2)
  BY <1>2, <1>6, <1>8, SpansEnd
<1> QED BY <1>4, <1>7, <1>8, <1>9

\* A span ends behind its opening tag, wherever the walk begins.
LEMMA SpanAfterIsLater ==
  ASSUME NEW S, NEW text \in Seq(S), NEW i \in 1..Len(text) - 1
  PROVE  SpanAfter(text, i) \in i + 2..Len(text) + 1
<1>0. Len(text) \in Nat
  OBVIOUS
<1>1. PICK end : SpanEnds(end, text) /\ \A j : SpanAfter(text, j) = end[<<1, j + 2>>]
  BY SpanEquation
<1> DEFINE P == 1..Len(text) + 1
           Good(p) == \A depth \in Nat : end[<<depth, p>>] \in p..Len(text) + 1
           T == {p \in P : ~Good(p)}
           m == [p \in P |-> Len(text) + 1 - p]
<1>2. ASSUME NEW p \in P, NEW depth \in Nat, \A q \in P : q > p => Good(q)
      PROVE  end[<<depth, p>>] \in p..Len(text) + 1
  <2> DEFINE open == IndexOf(OpenTag, text, p)
             close == IndexOf(CloseTag, text, p)
             e == end[<<depth, p>>]
  <2>2. p \in Nat \ {0} /\ FirstTag(open, OpenTag, text, p) /\ FirstTag(close, CloseTag, text, p)
    BY <1>0, IndexOfIs
  <2>3. e = IF depth = 0 \/ p > Len(text) THEN p
            ELSE IF close = 0 THEN Len(text) + 1
            ELSE IF open # 0 /\ open < close THEN end[<<depth + 1, open + 2>>]
            ELSE end[<<depth - 1, close + 2>>]
    BY <1>1 DEF SpanEnds
  <2>4. (open # 0 => open \in p..Len(text) - 1) /\ (close # 0 => close \in p..Len(text) - 1)
    BY <2>2 DEF FirstTag
  <2> HIDE DEF open, close, e
  <2>5. ASSUME NEW k \in p..Len(text) - 1, NEW c \in Nat, e = end[<<c, k + 2>>]
        PROVE  e \in p..Len(text) + 1
    <3>1. k + 2 \in P /\ k + 2 > p
      BY <1>0
    <3>2. end[<<c, k + 2>>] \in k + 2..Len(text) + 1
      BY <1>2, <3>1
    <3> QED BY <1>0, <2>5, <3>2
  <2>6. CASE depth = 0 \/ p > Len(text) \/ close = 0
    BY <1>0, <2>3, <2>6 DEF e
  <2>7. CASE ~(depth = 0 \/ p > Len(text) \/ close = 0) /\ open # 0 /\ open < close
    <3>1. e = end[<<depth + 1, open + 2>>] /\ depth + 1 \in Nat /\ open \in p..Len(text) - 1
      BY <2>3, <2>4, <2>7
    <3> QED BY <2>5, <3>1 DEF e
  <2>8. CASE ~(depth = 0 \/ p > Len(text) \/ close = 0) /\ ~(open # 0 /\ open < close)
    <3>1. e = end[<<depth - 1, close + 2>>] /\ depth - 1 \in Nat /\ close \in p..Len(text) - 1
      BY <2>3, <2>4, <2>8
    <3> QED BY <2>5, <3>1 DEF e
  <2> QED BY <2>6, <2>7, <2>8
<1>3. T = {}
  <2> SUFFICES ASSUME T # {} PROVE FALSE
    OBVIOUS
  <2>1. m \in [P -> Nat] /\ T \subseteq P
    BY <1>0
  <2>2. PICK p \in T : \A q \in T : m[p] <= m[q]
    <3> HIDE DEF m, P, T
    <3> QED BY <2>1, LeastMeasured
  <2>3. p \in P /\ ~Good(p)
    BY <2>2
  <2>4. ASSUME NEW q \in P, q > p PROVE Good(q)
    <3> SUFFICES ASSUME q \in T PROVE FALSE
      OBVIOUS
    <3>1. m[p] <= m[q]
      BY <2>2
    <3>2. m[p] = Len(text) + 1 - p /\ m[q] = Len(text) + 1 - q
      BY <2>3
    <3> HIDE DEF m
    <3> QED BY <1>0, <2>3, <2>4, <3>1, <3>2
  <2> QED BY <1>2, <2>3, <2>4
<1>4. i + 2 \in P
  BY <1>0
<1>5. Good(i + 2)
  <2> HIDE DEF Good, P
  <2> QED BY <1>3, <1>4
<1> QED BY <1>1, <1>5

\* The equation of the copying of ScrubPrivateSpans.
Copies(from, text, S) ==
  /\ from \in [1..Len(text) + 1 -> Seq(S)]
  /\ \A pos \in 1..Len(text) + 1 :
       LET open == IndexOf(OpenTag, text, pos)
       IN from[pos] = IF open = 0 THEN SubSeq(text, pos, Len(text))
                      ELSE SubSeq(text, pos, open - 1) \o Replacement \o from[SpanAfter(text, open)]

LEMMA ScrubEquation ==
  ASSUME NEW S, TagAtoms \subseteq S, NEW text \in Seq(S)
  PROVE  \E from : Copies(from, text, S) /\ ScrubPrivateSpans(text) = from[1]
<1> DEFINE D == 1..Len(text) + 1
           B == Seq(S)
           open(pos) == IndexOf(OpenTag, text, pos)
           after(pos) == SpanAfter(text, open(pos))
           rest(pos) == SubSeq(text, pos, Len(text))
           copied(pos) == SubSeq(text, pos, open(pos) - 1) \o Replacement
           Eq(from) == from = [pos \in D |-> IF open(pos) = 0 THEN rest(pos) ELSE copied(pos) \o from[after(pos)]]
           stop == {pos \in D : open(pos) = 0}
           down == [pos \in D |-> IF open(pos) = 0 THEN pos ELSE after(pos)]
           m == [pos \in D |-> Len(text) + 1 - pos]
           start == [pos \in D |-> rest(pos)]
           step == [p \in D \X B |-> IF open(p[1]) = 0 THEN <<>> ELSE copied(p[1]) \o p[2]]
<1>1. Len(text) \in Nat
  OBVIOUS
<1>2. ASSUME NEW pos \in D, open(pos) # 0
      PROVE  open(pos) \in pos..Len(text) - 1 /\ after(pos) \in D /\ pos < after(pos)
  <2>1. pos \in Nat \ {0} /\ FirstTag(open(pos), OpenTag, text, pos)
    BY <1>1, IndexOfIs
  <2>2. open(pos) \in pos..Len(text) - 1
    BY <1>2, <2>1 DEF FirstTag
  <2>3. open(pos) \in 1..Len(text) - 1
    BY <1>1, <2>2
  <2>4. after(pos) \in open(pos) + 2..Len(text) + 1
    <3> HIDE DEF open
    <3> QED BY <2>3, SpanAfterIsLater
  <2> HIDE DEF open, after
  <2> QED BY <1>1, <2>1, <2>2, <2>4
<1>3. ASSUME NEW pos \in D
      PROVE  rest(pos) \in B /\ (open(pos) # 0 => copied(pos) \in B)
  <2>1. rest(pos) \in B
    BY <1>1, MembersOfPart
  <2>2. ASSUME open(pos) # 0 PROVE copied(pos) \in B
    <3>1. open(pos) \in pos..Len(text) - 1
      BY <1>2, <2>2
    <3>2. SubSeq(text, pos, open(pos) - 1) \in Seq(S)
      <4> HIDE DEF open
      <4> QED BY <1>1, <3>1, MembersOfPart
    <3>3. Replacement \in Seq(S)
      BY TagsAre
    <3> QED BY <3>2, <3>3
  <2> QED BY <2>1, <2>2
<1> HIDE DEF open, after, rest, copied
<1>4. stop \subseteq D
  OBVIOUS
<1>5. down \in [D -> D] /\ m \in [D -> Nat] /\ \A pos \in D \ stop : m[down[pos]] < m[pos]
  <2>1. down \in [D -> D]
    BY <1>2
  <2>2. m \in [D -> Nat]
    BY <1>1
  <2>3. ASSUME NEW pos \in D \ stop PROVE m[down[pos]] < m[pos]
    <3>1. open(pos) # 0 /\ pos \in D
      OBVIOUS
    <3>2. after(pos) \in D /\ pos < after(pos) /\ down[pos] = after(pos)
      BY <1>2, <3>1
    <3>3. m[pos] = Len(text) + 1 - pos /\ m[down[pos]] = Len(text) + 1 - after(pos)
      BY <3>2
    <3> HIDE DEF m, down
    <3> QED BY <1>1, <3>2, <3>3
  <2> QED BY <2>1, <2>2, <2>3
<1>6. start \in [D -> B] /\ step \in [D \X B -> B]
  <2>1. start \in [D -> B]
    BY <1>3
  <2>2. ASSUME NEW p \in D \X B PROVE (IF open(p[1]) = 0 THEN <<>> ELSE copied(p[1]) \o p[2]) \in B
    <3>1. p[1] \in D /\ p[2] \in B /\ <<>> \in B
      OBVIOUS
    <3>2. open(p[1]) # 0 => copied(p[1]) \in B
      <4> HIDE DEF D, B
      <4> QED BY <1>3, <3>1
    <3>3. \A s, t \in B : s \o t \in B
      OBVIOUS
    <3> HIDE DEF D, B
    <3> QED BY <3>1, <3>2, <3>3
  <2> HIDE DEF D, B
  <2> QED BY <2>1, <2>2
<1>7. PICK f \in [D -> B] : Solves(f, D, stop, down, start, step)
  <2>1. \E f \in [D -> B] : Solves(f, D, stop, down, start, step)
    <3> HIDE DEF D, B, stop, down, m, start, step
    <3> QED BY <1>4, <1>5, <1>6, RecursionHasSolution
  <2> QED BY <2>1
<1>8. ASSUME NEW pos \in D PROVE f[pos] = IF open(pos) = 0 THEN rest(pos) ELSE copied(pos) \o f[after(pos)]
  <2>1. f[pos] = IF pos \in stop THEN start[pos] ELSE step[<<pos, f[down[pos]]>>]
    <3> HIDE DEF D, stop, start, step, down
    <3> QED BY <1>7 DEF Solves
  <2>2. CASE open(pos) = 0
    <3>1. pos \in stop /\ start[pos] = rest(pos)
      BY <2>2
    <3> HIDE DEF stop, start, step, down
    <3> QED BY <2>1, <2>2, <3>1
  <2>3. CASE open(pos) # 0
    <3>1. pos \notin stop /\ down[pos] = after(pos) /\ after(pos) \in D
      BY <1>2, <2>3
    <3>2. f[after(pos)] \in B
      BY <1>7, <3>1
    <3>3. step[<<pos, f[after(pos)]>>] = copied(pos) \o f[after(pos)]
      <4> HIDE DEF B, D
      <4> QED BY <2>3, <3>2
    <3> HIDE DEF stop, start, step, down
    <3> QED BY <2>1, <2>3, <3>1, <3>3
  <2> QED BY <2>2, <2>3
<1>9. Eq(f)
  <2>1. f = [pos \in D |-> f[pos]]
    BY <1>7
  <2> HIDE DEF D
  <2> QED BY <1>8, <2>1
<1> DEFINE from == CHOOSE g : Eq(g)
<1>10. Eq(from)
  <2> HIDE DEF Eq
  <2> QED BY <1>9, Zenon
<1>11. ScrubPrivateSpans(text) = from[1]
  BY Zenon DEF ScrubPrivateSpans, D, open, after, rest, copied
<1> HIDE DEF from
<1>12. from = [pos \in D |-> from[pos]]
  <2> HIDE DEF D
  <2> QED BY <1>10
<1>13. ASSUME NEW pos \in D
       PROVE  from[pos] = IF open(pos) = 0 THEN rest(pos) ELSE copied(pos) \o from[after(pos)]
  <2> HIDE DEF D
  <2> QED BY <1>10
<1> DEFINE Good(pos) == from[pos] \in B
           T == {pos \in D : ~Good(pos)}
<1>14. T = {}
  <2> SUFFICES ASSUME T # {} PROVE FALSE
    OBVIOUS
  <2>1. m \in [D -> Nat] /\ T \subseteq D
    BY <1>1
  <2>2. PICK p \in T : \A q \in T : m[p] <= m[q]
    <3> HIDE DEF m, D, T
    <3> QED BY <2>1, LeastMeasured
  <2>3. p \in D /\ from[p] \notin B
    BY <2>2
  <2>4. CASE open(p) = 0
    BY <1>3, <1>13, <2>3, <2>4
  <2>5. CASE open(p) # 0
    <3>1. after(p) \in D /\ p < after(p)
      BY <1>2, <2>3, <2>5
    <3>2. from[after(p)] \in B
      <4> SUFFICES ASSUME after(p) \in T PROVE FALSE
        BY <3>1
      <4>1. m[p] <= m[after(p)]
        <5> HIDE DEF T, m
        <5> QED BY <2>2
      <4>2. m[p] = Len(text) + 1 - p /\ m[after(p)] = Len(text) + 1 - after(p)
        BY <2>3, <3>1
      <4> HIDE DEF m
      <4> QED BY <1>1, <2>3, <3>1, <4>1, <4>2
    <3>3. copied(p) \in B /\ from[p] = copied(p) \o from[after(p)]
      BY <1>3, <1>13, <2>3, <2>5
    <3> QED BY <2>3, <3>2, <3>3
  <2> QED BY <2>4, <2>5
<1>15. from \in [D -> B]
  <2>1. \A pos \in D : from[pos] \in B
    BY <1>14
  <2> HIDE DEF D, B
  <2> QED BY <1>12, <2>1
<1>16. Copies(from, text, S)
  <2>1. \A pos \in D : from[pos] = IF open(pos) = 0 THEN SubSeq(text, pos, Len(text))
                                  ELSE SubSeq(text, pos, open(pos) - 1) \o Replacement \o from[after(pos)]
    BY <1>13, Zenon DEF rest, copied
  <2> HIDE DEF D
  <2> QED BY <1>15, <2>1, Zenon DEF Copies, D, open, after
<1> QED BY <1>11, <1>16

\* The words from pos on that no span hides.
Shown(d, text, pos) == {text[i] : i \in {j \in pos..Len(text) : d[j] = 0}} \ Tags

LEMMA ScrubShows ==
  ASSUME NEW S, TagAtoms \subseteq S, NEW text \in Seq(S), NEW d, Counts(d, text), NEW from, Copies(from, text, S)
  PROVE  ToSet(from[1]) \ Tags = Shown(d, text, 1)
<1> DEFINE D == 1..Len(text) + 1
           Starts(p) == Settled(text, p) /\ (p = Len(text) + 1 \/ d[p] = 0)
           Good(p) == Starts(p) => ToSet(from[p]) \ Tags = Shown(d, text, p)
           T == {p \in D : ~Good(p)}
           m == [p \in D |-> Len(text) + 1 - p]
<1>1. Len(text) \in Nat /\ \A p \in D : d[p] \in Nat
  BY DEF Counts
<1>2. ASSUME NEW p \in D, Settled(text, p), p = Len(text) + 1 \/ d[p] = 0, \A q \in D : q > p => Good(q)
      PROVE  ToSet(from[p]) \ Tags = Shown(d, text, p)
  <2> DEFINE open == IndexOf(OpenTag, text, p)
             e == SpanAfter(text, open)
  <2>1. p \in Nat \ {0} /\ FirstTag(open, OpenTag, text, p)
    BY <1>1, IndexOfIs
  <2>2. from[p] = IF open = 0 THEN SubSeq(text, p, Len(text))
                  ELSE SubSeq(text, p, open - 1) \o Replacement \o from[e]
    BY DEF Copies
  <2> HIDE DEF open, e
  <2>3. CASE open = 0
    <3>1. from[p] = SubSeq(text, p, Len(text))
      BY <2>2, <2>3
    <3>2. ToSet(from[p]) = {text[i] : i \in p..Len(text)}
      <4>1. p \in 1..Len(text) + 1 /\ Len(text) \in p - 1..Len(text)
        BY <1>1
      <4> QED BY <3>1, <4>1, MembersOfPart
    <3>3. \A j \in p..Len(text) - 1 : ~TagAt(text, OpenTag, j)
      BY <2>1, <2>3 DEF FirstTag
    <3>4. \A i \in p..Len(text) : d[i] = 0
      <4>1. CASE p = Len(text) + 1
        BY <1>1, <4>1
      <4>2. CASE d[p] = 0
        <5>1. \A i \in p..Len(text) + 1 : d[i] = 0
          BY <1>2, <3>3, <4>2, DepthStays
        <5> QED BY <1>1, <5>1
      <4> QED BY <1>2, <4>1, <4>2
    <3>5. {j \in p..Len(text) : d[j] = 0} = p..Len(text)
      BY <3>4
    <3> QED BY <3>2, <3>5 DEF Shown
  <2>4. CASE open # 0
    <3>1. open \in p..Len(text) - 1
      BY <2>1, <2>4 DEF FirstTag
    <3>2. p # Len(text) + 1 /\ d[p] = 0
      BY <1>1, <1>2, <3>1
    <3>3. /\ SpanTo(e, d, text, open + 2)
          /\ \A i \in p..open + 1 : d[i] = 0
      <4>1. FirstTag(open, OpenTag, text, p)
        BY <2>1
      <4>2. SpanTo(SpanAfter(text, open), d, text, open + 2) /\ \A i \in p..open + 1 : d[i] = 0
        BY <1>2, <3>1, <3>2, <4>1, SpanAfterIs
      <4> QED BY <4>2 DEF e
    <3>4. /\ e \in open + 2..Len(text) + 1 /\ e \in D /\ e > p
          /\ \A i \in open + 2..e - 1 : text[i] \in Tags \/ d[i] > 0
          /\ Starts(e)
      <4>1. e \in open + 2..Len(text) + 1 /\ \A i \in open + 2..e - 1 : text[i] \in Tags \/ d[i] > 0
        BY <3>3 DEF SpanTo
      <4>2. e = Len(text) + 1 \/ (d[e] = 0 /\ Settled(text, e))
        BY <3>3 DEF SpanTo
      <4>3. Settled(text, Len(text) + 1)
        BY <1>1 DEF Settled
      <4>4. e \in D /\ e > p
        BY <1>1, <3>1, <4>1
      <4> QED BY <4>1, <4>2, <4>3, <4>4
    <3>5. ToSet(from[e]) \ Tags = Shown(d, text, e)
      BY <1>2, <3>4
    <3>6. from[e] \in Seq(S)
      BY <3>4 DEF Copies
    <3>7. SubSeq(text, p, open - 1) \in Seq(S) /\ ToSet(SubSeq(text, p, open - 1)) = {text[i] : i \in p..open - 1}
      <4>1. p \in 1..Len(text) + 1 /\ open - 1 \in p - 1..Len(text)
        BY <1>1, <3>1
      <4> QED BY <4>1, MembersOfPart
    <3>8. Replacement \in Seq(S) /\ ToSet(Replacement) \subseteq Tags
      <4>1. Replacement \in Seq(S)
        BY TagsAre
      <4>2. ToSet(Replacement) = {"[REDACTED]"}
        BY MembersOfTuples DEF Replacement
      <4> QED BY <4>1, <4>2, TagsAre DEF TagAtoms
    <3> DEFINE a == SubSeq(text, p, open - 1)
               b == a \o Replacement
    <3> HIDE DEF a
    <3>9. b \in Seq(S) /\ ToSet(b) = ToSet(a) \cup ToSet(Replacement)
      <4>1. a \in Seq(S) /\ Replacement \in Seq(S)
        BY <3>7, <3>8 DEF a
      <4> QED BY <4>1, MembersOfConcat
    <3> HIDE DEF b
    <3>10. ToSet(b \o from[e]) = ToSet(b) \cup ToSet(from[e])
      BY <3>6, <3>9, MembersOfConcat
    <3>11. from[p] = b \o from[e]
      BY <2>2, <2>4, Zenon DEF a, b
    <3>12. ToSet(from[p]) \ Tags = ({text[i] : i \in p..open - 1} \ Tags) \cup Shown(d, text, e)
      BY <3>5, <3>7, <3>8, <3>9, <3>10, <3>11 DEF a
    <3>13. text[open] \in Tags /\ text[open + 1] \in Tags
      <4>1. open \in 1..Len(text) - 1 /\ TagAt(text, OpenTag, open)
        BY <1>1, <2>1, <2>4, <3>1 DEF FirstTag
      <4> QED BY <4>1, TagsApart
    <3>14. ASSUME NEW i \in p..Len(text), d[i] = 0, text[i] \notin Tags
           PROVE  i \in p..open - 1 \/ i \in e..Len(text)
      <4>1. i \notin open + 2..e - 1
        BY <3>4, <3>14
      <4>2. i # open /\ i # open + 1
        BY <3>13, <3>14
      <4> QED BY <1>1, <3>1, <3>4, <4>1, <4>2
    <3>15. Shown(d, text, p) \subseteq ({text[i] : i \in p..open - 1} \ Tags) \cup Shown(d, text, e)
      <4> SUFFICES ASSUME NEW i \in p..Len(text), d[i] = 0, text[i] \notin Tags
                   PROVE  text[i] \in ({text[k] : k \in p..open - 1} \ Tags) \cup Shown(d, text, e)
        BY DEF Shown
      <4>1. i \in p..open - 1 \/ i \in e..Len(text)
        BY <3>14
      <4> QED BY <4>1 DEF Shown
    <3>16. ({text[i] : i \in p..open - 1} \ Tags) \subseteq Shown(d, text, p)
      <4> SUFFICES ASSUME NEW i \in p..open - 1, text[i] \notin Tags PROVE text[i] \in Shown(d, text, p)
        OBVIOUS
      <4>1. i \in p..open + 1 /\ i \in p..Len(text)
        BY <1>1, <3>1
      <4>2. d[i] = 0
        BY <3>3, <4>1
      <4> QED BY <4>1, <4>2 DEF Shown
    <3>17. Shown(d, text, e) \subseteq Shown(d, text, p)
      <4> SUFFICES ASSUME NEW i \in e..Len(text), d[i] = 0, text[i] \notin Tags PROVE text[i] \in Shown(d, text, p)
        BY DEF Shown
      <4>1. i \in p..Len(text)
        BY <1>1, <3>4
      <4> QED BY <4>1 DEF Shown
    <3> HIDE DEF Starts
    <3> QED BY <3>12, <3>15, <3>16, <3>17
  <2> QED BY <2>3, <2>4
<1>3. T = {}
  <2> SUFFICES ASSUME T # {} PROVE FALSE
    OBVIOUS
  <2>1. m \in [D -> Nat] /\ T \subseteq D
    BY <1>1
  <2>2. PICK p \in T : \A q \in T : m[p] <= m[q]
    <3> HIDE DEF m, D, T
    <3> QED BY <2>1, LeastMeasured
  <2>3. p \in D /\ ~Good(p)
    BY <2>2
  <2>4. ASSUME NEW q \in D, q > p PROVE Good(q)
    <3> SUFFICES ASSUME q \in T PROVE FALSE
      OBVIOUS
    <3>1. m[p] <= m[q]
      BY <2>2
    <3>2. m[p] = Len(text) + 1 - p /\ m[q] = Len(text) + 1 - q
      BY <2>3
    <3> HIDE DEF m
    <3> QED BY <1>1, <2>3, <2>4, <3>1, <3>2
  <2> QED BY <1>2, <2>3, <2>4
<1>4. 1 \in D /\ Starts(1)
  BY <1>1 DEF Counts, Settled
<1>5. Good(1)
  <2> HIDE DEF Good, D
  <2> QED BY <1>3, <1>4
<1> QED BY <1>4, <1>5

\* The scrub leaves the public words of a text, and no others.
LEMMA ScrubLeavesPublic ==
  ASSUME NEW S, TagAtoms \subseteq S, NEW text \in Seq(S)
  PROVE  /\ ScrubPrivateSpans(text) \in Seq(S)
         /\ ToSet(ScrubPrivateSpans(text)) \ Tags = Words(text, DOMAIN text \ Private(text))
<1>1. PICK d : Counts(d, text) /\ \A i \in 1..Len(text) + 1 : Depth(text, i) = d[i]
  BY DepthEquation
<1>2. PICK from : Copies(from, text, S) /\ ScrubPrivateSpans(text) = from[1]
  BY ScrubEquation
<1>3. Len(text) \in Nat /\ DOMAIN text = 1..Len(text)
  OBVIOUS
<1>4. ScrubPrivateSpans(text) \in Seq(S)
  BY <1>2, <1>3 DEF Copies
<1>5. DOMAIN text \ Private(text) = {j \in 1..Len(text) : d[j] = 0}
  <2>1. \A j \in 1..Len(text) : Depth(text, j) = d[j] /\ d[j] \in Nat
    BY <1>1, <1>3 DEF Counts
  <2>2. \A j \in 1..Len(text) : ~(Depth(text, j) > 0) <=> d[j] = 0
    BY <2>1
  <2> QED BY <1>3, <2>2 DEF Private
<1>6. ToSet(from[1]) \ Tags = Shown(d, text, 1)
  BY <1>1, <1>2, ScrubShows
<1> QED BY <1>2, <1>4, <1>5, <1>6 DEF Words, Shown

\* The depth at a position depends on what stands before it.
LEMMA DepthOfPrefix ==
  ASSUME NEW S, NEW text \in Seq(S), NEW longer \in Seq(S), NEW n \in Nat,
         n <= Len(text), n <= Len(longer), \A i \in 1..n : longer[i] = text[i]
  PROVE  \A i \in 1..n : Depth(longer, i) = Depth(text, i)
<1>1. PICK d : Counts(d, text) /\ \A i \in 1..Len(text) + 1 : Depth(text, i) = d[i]
  BY DepthEquation
<1>2. PICK c : Counts(c, longer) /\ \A i \in 1..Len(longer) + 1 : Depth(longer, i) = c[i]
  BY DepthEquation
<1>0. Len(text) \in Nat /\ Len(longer) \in Nat
  OBVIOUS
<1> DEFINE T == {i \in 1..n : c[i] # d[i]}
<1>3. T = {}
  <2> SUFFICES ASSUME T # {} PROVE FALSE
    OBVIOUS
  <2>1. T \subseteq Nat
    OBVIOUS
  <2>2. PICK i \in T : \A y \in T : i <= y
    <3> HIDE DEF T
    <3> QED BY <2>1, LeastOfNaturals
  <2>3. i \in 1..n /\ c[i] # d[i]
    BY <2>2
  <2>4. CASE i <= 2
    <3>1. (i = 1 \/ i = 2) /\ (i = 2 => Len(text) >= 1 /\ Len(longer) >= 1)
      BY <1>0, <2>3, <2>4
    <3> QED BY <1>1, <1>2, <2>3, <3>1 DEF Counts
  <2>5. CASE i > 2
    <3>1. /\ i \in 3..Len(text) + 1 /\ i \in 3..Len(longer) + 1
          /\ i - 2 \in 1..Len(text) - 1 /\ i - 2 \in 1..Len(longer) - 1
          /\ i - 2 \in 1..n /\ (i - 2) + 1 \in 1..n /\ i - 1 \in 1..n
      BY <1>0, <2>3, <2>5
    <3>2. c[i - 1] = d[i - 1]
      <4>1. i - 1 \notin T
        BY <2>2, <2>3
      <4> QED BY <3>1, <4>1
    <3>3. /\ TagAt(longer, OpenTag, i - 2) <=> TagAt(text, OpenTag, i - 2)
          /\ TagAt(longer, CloseTag, i - 2) <=> TagAt(text, CloseTag, i - 2)
      <4>1. longer[i - 2] = text[i - 2] /\ longer[(i - 2) + 1] = text[(i - 2) + 1]
        BY <3>1
      <4>2. /\ TagAt(text, OpenTag, i - 2) <=> text[i - 2] = "<priv" /\ text[(i - 2) + 1] = "ate>"
            /\ TagAt(text, CloseTag, i - 2) <=> text[i - 2] = "</priv" /\ text[(i - 2) + 1] = "ate>"
        BY <3>1, TagsApart
      <4>3. /\ TagAt(longer, OpenTag, i - 2) <=> longer[i - 2] = "<priv" /\ longer[(i - 2) + 1] = "ate>"
            /\ TagAt(longer, CloseTag, i - 2) <=> longer[i - 2] = "</priv" /\ longer[(i - 2) + 1] = "ate>"
        BY <3>1, TagsApart
      <4> QED BY <4>1, <4>2, <4>3
    <3>4. /\ TagAt(text, OpenTag, i - 2) => d[i] = d[i - 1] + 1
          /\ TagAt(text, CloseTag, i - 2) => d[i] = IF d[i - 1] > 0 THEN d[i - 1] - 1 ELSE 0
          /\ ~TagAt(text, OpenTag, i - 2) /\ ~TagAt(text, CloseTag, i - 2) => d[i] = d[i - 1]
      BY <1>1, <3>1, DepthSteps
    <3>5. /\ TagAt(longer, OpenTag, i - 2) => c[i] = c[i - 1] + 1
          /\ TagAt(longer, CloseTag, i - 2) => c[i] = IF c[i - 1] > 0 THEN c[i - 1] - 1 ELSE 0
          /\ ~TagAt(longer, OpenTag, i - 2) /\ ~TagAt(longer, CloseTag, i - 2) => c[i] = c[i - 1]
      BY <1>2, <3>1, DepthSteps
    <3>6. c[i] = d[i]
      BY <3>2, <3>3, <3>4, <3>5
    <3> QED BY <2>3, <3>6
  <2> QED BY <2>3, <2>4, <2>5
<1>4. ASSUME NEW i \in 1..n PROVE Depth(longer, i) = Depth(text, i)
  <2>1. c[i] = d[i]
    BY <1>3
  <2>2. i \in 1..Len(text) + 1 /\ i \in 1..Len(longer) + 1
    BY <1>0
  <2> QED BY <1>1, <1>2, <2>1, <2>2
<1> QED BY <1>4

\* Within a longer text a text is hidden no less than alone.
LEMMA DepthOfPart ==
  ASSUME NEW S, NEW text \in Seq(S), NEW longer \in Seq(S), NEW k \in Nat,
         k + Len(text) <= Len(longer), \A i \in 1..Len(text) : longer[k + i] = text[i]
  PROVE  \A i \in 1..Len(text) : Depth(longer, k + i) >= Depth(text, i)
<1>1. PICK d : Counts(d, text) /\ \A i \in 1..Len(text) + 1 : Depth(text, i) = d[i]
  BY DepthEquation
<1>2. PICK c : Counts(c, longer) /\ \A i \in 1..Len(longer) + 1 : Depth(longer, i) = c[i]
  BY DepthEquation
<1>0. Len(text) \in Nat /\ Len(longer) \in Nat
  OBVIOUS
<1>a. /\ \A i \in 1..Len(text) + 1 : d[i] \in Nat
      /\ \A i \in 1..Len(text) : k + i \in 1..Len(longer) /\ c[k + i] \in Nat
  BY <1>0, <1>1, <1>2 DEF Counts
<1> DEFINE T == {i \in 1..Len(text) : ~(c[k + i] >= d[i])}
<1>3. T = {}
  <2> SUFFICES ASSUME T # {} PROVE FALSE
    OBVIOUS
  <2>1. T \subseteq Nat
    OBVIOUS
  <2>2. PICK i \in T : \A y \in T : i <= y
    <3> HIDE DEF T
    <3> QED BY <2>1, LeastOfNaturals
  <2>3. i \in 1..Len(text) /\ ~(c[k + i] >= d[i]) /\ c[k + i] \in Nat /\ d[i] \in Nat
    BY <1>0, <1>a, <2>2
  <2>4. CASE i <= 2
    <3>1. (i = 1 \/ i = 2) /\ Len(text) >= 1
      BY <1>0, <2>3, <2>4
    <3>2. d[i] = 0
      BY <1>1, <3>1 DEF Counts
    <3> QED BY <2>3, <3>2
  <2>5. CASE i > 2
    <3> DEFINE j == k + i
    <3>1. /\ i \in 3..Len(text) + 1 /\ j \in 3..Len(longer) + 1
          /\ i - 2 \in 1..Len(text) - 1 /\ j - 2 \in 1..Len(longer) - 1
          /\ i - 2 \in 1..Len(text) /\ (i - 2) + 1 \in 1..Len(text) /\ i - 1 \in 1..Len(text)
          /\ k + (i - 2) = j - 2 /\ k + ((i - 2) + 1) = (j - 2) + 1 /\ k + (i - 1) = j - 1
      BY <1>0, <2>3, <2>5
    <3>2. c[j - 1] >= d[i - 1] /\ c[j - 1] \in Nat /\ d[i - 1] \in Nat
      <4>1. i - 1 \notin T
        BY <2>2, <2>3
      <4>2. c[k + (i - 1)] >= d[i - 1]
        BY <3>1, <4>1
      <4>a. i - 1 \in 1..Len(text) /\ i - 1 \in 1..Len(text) + 1
        BY <1>0, <3>1
      <4>3. c[k + (i - 1)] \in Nat /\ d[i - 1] \in Nat
        BY Zenon, <1>a, <4>a
      <4> QED BY <3>1, <4>2, <4>3
    <3>3. /\ TagAt(longer, OpenTag, j - 2) <=> TagAt(text, OpenTag, i - 2)
          /\ TagAt(longer, CloseTag, j - 2) <=> TagAt(text, CloseTag, i - 2)
      <4>1. longer[k + (i - 2)] = text[i - 2] /\ longer[k + ((i - 2) + 1)] = text[(i - 2) + 1]
        BY <3>1
      <4>2. longer[j - 2] = text[i - 2] /\ longer[(j - 2) + 1] = text[(i - 2) + 1]
        <5> HIDE DEF j
        <5> QED BY <3>1, <4>1
      <4>3. /\ TagAt(text, OpenTag, i - 2) <=> text[i - 2] = "<priv" /\ text[(i - 2) + 1] = "ate>"
            /\ TagAt(text, CloseTag, i - 2) <=> text[i - 2] = "</priv" /\ text[(i - 2) + 1] = "ate>"
        BY <3>1, TagsApart
      <4> HIDE DEF j
      <4>4. /\ TagAt(longer, OpenTag, j - 2) <=> longer[j - 2] = "<priv" /\ longer[(j - 2) + 1] = "ate>"
            /\ TagAt(longer, CloseTag, j - 2) <=> longer[j - 2] = "</priv" /\ longer[(j - 2) + 1] = "ate>"
        BY <3>1, TagsApart
      <4> QED BY <4>2, <4>3, <4>4
    <3>4. /\ TagAt(text, OpenTag, i - 2) => d[i] = d[i - 1] + 1
          /\ TagAt(text, CloseTag, i - 2) => d[i] = IF d[i - 1] > 0 THEN d[i - 1] - 1 ELSE 0
          /\ ~TagAt(text, OpenTag, i - 2) /\ ~TagAt(text, CloseTag, i - 2) => d[i] = d[i - 1]
      BY <1>1, <3>1, DepthSteps
    <3> HIDE DEF j
    <3>5. /\ TagAt(longer, OpenTag, j - 2) => c[j] = c[j - 1] + 1
          /\ TagAt(longer, CloseTag, j - 2) => c[j] = IF c[j - 1] > 0 THEN c[j - 1] - 1 ELSE 0
          /\ ~TagAt(longer, OpenTag, j - 2) /\ ~TagAt(longer, CloseTag, j - 2) => c[j] = c[j - 1]
      <4>1. j \in 3..Len(longer) + 1 /\ Counts(c, longer)
        BY <1>2, <3>1
      <4> QED BY <4>1, DepthSteps, SMTT(60)
    <3>6. c[j] >= d[i]
      <4>1. CASE TagAt(text, OpenTag, i - 2)
        <5>1. d[i] = d[i - 1] + 1 /\ c[j] = c[j - 1] + 1
          BY <3>3, <3>4, <3>5, <4>1
        <5> QED BY <3>2, <5>1
      <4>2. CASE TagAt(text, CloseTag, i - 2)
        <5>1. /\ d[i] = IF d[i - 1] > 0 THEN d[i - 1] - 1 ELSE 0
              /\ c[j] = IF c[j - 1] > 0 THEN c[j - 1] - 1 ELSE 0
          BY <3>3, <3>4, <3>5, <4>2
        <5> QED BY <3>2, <5>1, SMTT(30)
      <4>3. CASE ~TagAt(text, OpenTag, i - 2) /\ ~TagAt(text, CloseTag, i - 2)
        <5>1. d[i] = d[i - 1] /\ c[j] = c[j - 1]
          BY <3>3, <3>4, <3>5, <4>3
        <5> QED BY <3>2, <5>1
      <4> QED BY <4>1, <4>2, <4>3
    <3> QED BY <2>3, <3>6 DEF j
  <2> QED BY <2>3, <2>4, <2>5
<1>4. ASSUME NEW i \in 1..Len(text) PROVE Depth(longer, k + i) >= Depth(text, i)
  <2>1. c[k + i] >= d[i]
    BY <1>3
  <2>2. i \in 1..Len(text) + 1 /\ k + i \in 1..Len(longer) + 1
    BY <1>0
  <2> QED BY <1>1, <1>2, <2>1, <2>2
<1> QED BY <1>4

\* The words of a text that no span hides.
PublicOf(text) == Words(text, DOMAIN text \ Private(text))

LEMMA DepthIsNatural ==
  ASSUME NEW S, NEW text \in Seq(S)
  PROVE  \A i \in 1..Len(text) : Depth(text, i) \in Nat
<1>1. PICK d : Counts(d, text) /\ \A i \in 1..Len(text) + 1 : Depth(text, i) = d[i]
  BY DepthEquation
<1> QED BY <1>1 DEF Counts

\* A cut, with or without a marker, shows nothing that was hidden.
LEMMA CutShowsNoMore ==
  ASSUME NEW S, NEW text \in Seq(S), NEW cut \in Seq(S), NEW n \in 0..Len(text), n <= Len(cut),
         \A i \in 1..n : cut[i] = text[i], \A i \in n + 1..Len(cut) : cut[i] \in Tags
  PROVE  PublicOf(cut) \subseteq PublicOf(text)
<1>1. Len(text) \in Nat /\ Len(cut) \in Nat /\ DOMAIN text = 1..Len(text) /\ DOMAIN cut = 1..Len(cut)
  OBVIOUS
<1>2. \A i \in 1..n : Depth(cut, i) = Depth(text, i)
  BY <1>1, DepthOfPrefix
<1>3. ASSUME NEW i \in DOMAIN cut, ~(Depth(cut, i) > 0), cut[i] \notin Tags
      PROVE  i \in DOMAIN text /\ ~(Depth(text, i) > 0) /\ cut[i] = text[i]
  <2>1. i \in 1..n
    BY <1>1, <1>3
  <2> QED BY <1>1, <1>2, <1>3, <2>1
<1> QED BY <1>3 DEF PublicOf, Words, Private

\* Where the i-th of the sequences lies in the flattened one, around position p.
LiesAt(flat, seqs, p, i, k) ==
  /\ k + Len(seqs[i]) <= Len(flat) /\ p \in k + 1..k + Len(seqs[i])
  /\ \A j \in 1..Len(seqs[i]) : flat[k + j] = seqs[i][j]

LEMMA FlattenedPlaces ==
  ASSUME NEW S, NEW seqs \in Seq(Seq(S)), seqs # <<>>
  PROVE  /\ FlattenSeq(seqs) \in Seq(S)
         /\ \A p \in 1..Len(FlattenSeq(seqs)) :
              \E i \in 1..Len(seqs) : \E k \in Nat : LiesAt(FlattenSeq(seqs), seqs, p, i, k)
<1>1. PICK f \in [1..Len(seqs) -> Seq(S)] :
        /\ FlattenSeq(seqs) = f[Len(seqs)]
        /\ f[1] = seqs[1]
        /\ \A i \in 2..Len(seqs) : f[i] = f[i - 1] \o seqs[i]
  BY Flattened
<1>2. Len(seqs) \in Nat /\ Len(seqs) # 0 /\ \A i \in 1..Len(seqs) : seqs[i] \in Seq(S) /\ Len(seqs[i]) \in Nat
  <2>1. \A i \in 1..Len(seqs) : seqs[i] \in Seq(S)
    OBVIOUS
  <2>2. \A s \in Seq(S) : Len(s) \in Nat
    OBVIOUS
  <2> QED BY <2>1, <2>2
<1> DEFINE Good(n) == \A p \in 1..Len(f[n]) : \E i \in 1..Len(seqs) : \E k \in Nat : LiesAt(f[n], seqs, p, i, k)
           T == {n \in 1..Len(seqs) : ~Good(n)}
<1>3. Good(1)
  <2> SUFFICES ASSUME NEW p \in 1..Len(seqs[1]) PROVE LiesAt(seqs[1], seqs, p, 1, 0)
    BY <1>1, <1>2
  <2> QED BY <1>2 DEF LiesAt
<1>4. ASSUME NEW n \in 2..Len(seqs), Good(n - 1) PROVE Good(n)
  <2> SUFFICES ASSUME NEW p \in 1..Len(f[n])
               PROVE  \E i \in 1..Len(seqs) : \E k \in Nat : LiesAt(f[n], seqs, p, i, k)
    OBVIOUS
  <2> DEFINE g == f[n - 1]
             s == seqs[n]
  <2>1. g \in Seq(S) /\ s \in Seq(S) /\ f[n] = g \o s /\ n \in 1..Len(seqs)
    <3>1. n \in 1..Len(seqs) /\ n - 1 \in 1..Len(seqs)
      BY <1>2
    <3>2. f[n] = f[n - 1] \o seqs[n]
      BY <1>1
    <3>3. f[n - 1] \in Seq(S) /\ seqs[n] \in Seq(S)
      BY <1>2, <3>1
    <3> QED BY <3>1, <3>2, <3>3
  <2>2. \A q \in 1..Len(g) : \E i \in 1..Len(seqs) : \E k \in Nat : LiesAt(g, seqs, q, i, k)
    BY <1>4
  <2> HIDE DEF g, s, Good
  <2>3. /\ Len(g) \in Nat /\ Len(s) \in Nat /\ Len(f[n]) = Len(g) + Len(s)
        /\ \A i \in 1..Len(g) : f[n][i] = g[i]
        /\ \A i \in 1..Len(s) : f[n][Len(g) + i] = s[i]
    BY <2>1
  <2>4. CASE p \in 1..Len(g)
    <3>1. PICK i \in 1..Len(seqs), k \in Nat : LiesAt(g, seqs, p, i, k)
      BY <2>2, <2>4
    <3>2. Len(seqs[i]) \in Nat
      BY <1>2
    <3>3. /\ k + Len(seqs[i]) <= Len(f[n])
          /\ \A j \in 1..Len(seqs[i]) : k + j \in 1..Len(g) /\ f[n][k + j] = g[k + j]
      BY <2>3, <3>1, <3>2, SMTT(60) DEF LiesAt
    <3>4. LiesAt(f[n], seqs, p, i, k)
      BY <3>1, <3>3 DEF LiesAt
    <3> QED BY <3>4
  <2>5. CASE p \notin 1..Len(g)
    <3>1. p \in Len(g) + 1..Len(g) + Len(s)
      BY <2>3, <2>5
    <3>2. LiesAt(f[n], seqs, p, n, Len(g))
      BY <2>3, <3>1 DEF LiesAt, s
    <3> QED BY <2>1, <2>3, <3>2
  <2> QED BY <2>4, <2>5
<1>5. T = {}
  <2> SUFFICES ASSUME T # {} PROVE FALSE
    OBVIOUS
  <2>1. T \subseteq Nat
    OBVIOUS
  <2>2. PICK n \in T : \A y \in T : n <= y
    <3> HIDE DEF T
    <3> QED BY <2>1, LeastOfNaturals
  <2>3. n \in 1..Len(seqs) /\ ~Good(n)
    BY <2>2
  <2> HIDE DEF Good
  <2>4. n # 1
    BY <1>3, <2>3
  <2>5. n \in 2..Len(seqs) /\ n - 1 \in 1..Len(seqs) /\ n - 1 \notin T
    BY <1>2, <2>2, <2>3, <2>4
  <2>6. Good(n - 1)
    BY <2>5
  <2> QED BY <1>4, <2>3, <2>5, <2>6
<1>6. Good(Len(seqs)) /\ f[Len(seqs)] \in Seq(S)
  <2>1. Len(seqs) \in 1..Len(seqs)
    BY <1>2
  <2> HIDE DEF Good
  <2> QED BY <1>5, <2>1
<1> QED BY <1>1, <1>6

\* A JSON value turned into one string shows nothing that was hidden in its leaves.
LEMMA StringShowsNoMore ==
  ASSUME NEW S, TagAtoms \subseteq S, NEW texts \in Seq(Seq(S)), texts # <<>>
  PROVE  LET flat == FlattenSeq([i \in DOMAIN texts |-> FieldName \o texts[i]])
         IN /\ flat \in Seq(S)
            /\ PublicOf(flat) \subseteq UNION {PublicOf(texts[i]) : i \in DOMAIN texts}
<1> DEFINE seqs == [i \in DOMAIN texts |-> FieldName \o texts[i]]
           flat == FlattenSeq(seqs)
<1>1. /\ Len(texts) \in Nat /\ DOMAIN texts = 1..Len(texts) /\ Len(texts) # 0
      /\ \A i \in 1..Len(texts) : texts[i] \in Seq(S)
  OBVIOUS
<1>2. FieldName \in Seq(S) /\ FieldName = <<"field">> /\ Len(FieldName) = 1 /\ FieldName[1] = "field"
  BY TagsAre DEF FieldName
<1>3. ASSUME NEW t \in Seq(S)
      PROVE  /\ FieldName \o t \in Seq(S) /\ Len(FieldName \o t) = Len(t) + 1 /\ Len(t) \in Nat
             /\ (FieldName \o t)[1] = "field"
             /\ \A j \in 1..Len(t) : (FieldName \o t)[j + 1] = t[j]
  <2> HIDE DEF seqs
  <2>1. Len(t) \in Nat
    OBVIOUS
  <2>2. /\ FieldName \o t \in Seq(S) /\ Len(FieldName \o t) = 1 + Len(t)
        /\ \A j \in 1..1 + Len(t) : (FieldName \o t)[j] = IF j <= 1 THEN FieldName[j] ELSE t[j - 1]
    BY <1>2
  <2>3. \A j \in 1..Len(t) : j + 1 \in 1..1 + Len(t) /\ ~(j + 1 <= 1) /\ (j + 1) - 1 = j
    BY <2>1
  <2>4. 1 \in 1..1 + Len(t)
    BY <2>1
  <2> QED BY <1>2, <2>1, <2>2, <2>3, <2>4
<1>4. /\ seqs \in Seq(Seq(S)) /\ Len(seqs) = Len(texts) /\ seqs # <<>>
      /\ \A i \in 1..Len(texts) : seqs[i] = FieldName \o texts[i]
  <2>1. \A i \in 1..Len(texts) : FieldName \o texts[i] \in Seq(S)
    BY <1>1, <1>3
  <2> QED BY <1>1, <2>1
<1> HIDE DEF seqs
<1>5. /\ flat \in Seq(S)
      /\ \A p \in 1..Len(flat) : \E i \in 1..Len(seqs) : \E k \in Nat : LiesAt(flat, seqs, p, i, k)
  BY <1>4, FlattenedPlaces
<1> HIDE DEF flat
<1>6. ASSUME NEW p \in 1..Len(flat), ~(Depth(flat, p) > 0), flat[p] \notin Tags
      PROVE  \E i \in DOMAIN texts : flat[p] \in PublicOf(texts[i])
  <2>1. PICK i \in 1..Len(seqs), k \in Nat : LiesAt(flat, seqs, p, i, k)
    BY <1>5
  <2> DEFINE t == texts[i]
  <2>2. /\ t \in Seq(S) /\ Len(t) \in Nat /\ i \in DOMAIN texts
        /\ k + (Len(t) + 1) <= Len(flat) /\ p \in k + 1..k + (Len(t) + 1)
        /\ \A j \in 1..Len(t) + 1 : flat[k + j] = (FieldName \o t)[j]
    <3>1. i \in 1..Len(texts) /\ seqs[i] = FieldName \o t /\ t \in Seq(S)
      BY <1>1, <1>4
    <3>2. Len(seqs[i]) = Len(t) + 1
      BY <1>3, <3>1
    <3> HIDE DEF t
    <3> QED BY <1>1, <1>3, <2>1, <3>1, <3>2 DEF LiesAt
  <2> HIDE DEF t
  <2>3. p # k + 1
    <3> SUFFICES ASSUME p = k + 1 PROVE FALSE
      OBVIOUS
    <3>1. 1 \in 1..Len(t) + 1
      BY <2>2
    <3>2. (FieldName \o t)[1] = "field"
      BY <1>3, <2>2
    <3>3. flat[k + 1] = "field"
      BY <2>2, <3>1, <3>2
    <3> QED BY <1>6, <3>3, TagsAre DEF TagAtoms
  <2> DEFINE j == p - (k + 1)
  <2>4. j \in 1..Len(t) /\ (k + 1) + j = p /\ k + 1 \in Nat /\ (k + 1) + Len(t) <= Len(flat)
    <3>1. Len(t) \in Nat /\ Len(flat) \in Nat /\ k \in Nat /\ p \in Nat
      BY <1>5, <2>2
    <3>2. k + (Len(t) + 1) <= Len(flat) /\ p >= k + 1 /\ p <= k + (Len(t) + 1) /\ p # k + 1
      BY <2>2, <2>3
    <3> DEFINE n == Len(t)
               l == Len(flat)
    <3>3. n \in Nat /\ l \in Nat /\ k + (n + 1) <= l /\ p >= k + 1 /\ p <= k + (n + 1) /\ p # k + 1
      BY <3>1, <3>2
    <3> HIDE DEF n, l
    <3>4. p - (k + 1) \in 1..n /\ (k + 1) + (p - (k + 1)) = p /\ k + 1 \in Nat /\ (k + 1) + n <= l
      BY <3>1, <3>3
    <3> QED BY <3>4 DEF n, l
  <2>5. \A n \in 1..Len(t) : flat[(k + 1) + n] = t[n]
    <3> SUFFICES ASSUME NEW n \in 1..Len(t) PROVE flat[(k + 1) + n] = t[n]
      OBVIOUS
    <3>1. n + 1 \in 1..Len(t) + 1 /\ k + (n + 1) = (k + 1) + n
      BY <2>2
    <3>2. flat[k + (n + 1)] = (FieldName \o t)[n + 1]
      BY <2>2, <3>1
    <3>3. (FieldName \o t)[n + 1] = t[n]
      BY <1>3, <2>2
    <3> QED BY <3>1, <3>2, <3>3
  <2> HIDE DEF j
  <2>6. Depth(flat, (k + 1) + j) >= Depth(t, j)
    <3>1. \A n \in 1..Len(t) : Depth(flat, (k + 1) + n) >= Depth(t, n)
      <4> DEFINE k1 == k + 1
      <4>1. k1 \in Nat /\ k1 + Len(t) <= Len(flat) /\ \A n \in 1..Len(t) : flat[k1 + n] = t[n]
        BY <2>4, <2>5
      <4> HIDE DEF k1
      <4>2. \A n \in 1..Len(t) : Depth(flat, k1 + n) >= Depth(t, n)
        BY <1>5, <2>2, <4>1, DepthOfPart
      <4> QED BY <4>2 DEF k1
    <3> QED BY <2>4, <3>1
  <2>7. Depth(flat, p) \in Nat /\ Depth(t, j) \in Nat
    BY <1>5, <2>2, <2>4, DepthIsNatural
  <2>8. ~(Depth(t, j) > 0)
    <3>1. ~(Depth(flat, p) > 0) /\ Depth(flat, p) >= Depth(t, j)
      BY <1>6, <2>4, <2>6
    <3> QED BY <2>7, <3>1
  <2>9. flat[p] = t[j] /\ j \in DOMAIN t
    <3>1. flat[(k + 1) + j] = t[j] /\ j \in 1..Len(t)
      BY <2>4, <2>5
    <3>2. DOMAIN t = 1..Len(t)
      BY <2>2
    <3> QED BY <2>4, <3>1, <3>2
  <2>10. t[j] \in PublicOf(t)
    BY <1>6, <2>8, <2>9 DEF PublicOf, Words, Private
  <2> QED BY <2>2, <2>9, <2>10 DEF t
<1>7. PublicOf(flat) \subseteq UNION {PublicOf(texts[i]) : i \in DOMAIN texts}
  <2> SUFFICES ASSUME NEW w \in PublicOf(flat) PROVE \E i \in DOMAIN texts : w \in PublicOf(texts[i])
    OBVIOUS
  <2>1. PICK p \in DOMAIN flat : ~(Depth(flat, p) > 0) /\ flat[p] \notin Tags /\ w = flat[p]
    BY DEF PublicOf, Words, Private
  <2>2. p \in 1..Len(flat)
    BY <1>5
  <2> QED BY <1>6, <2>1, <2>2
<1> QED BY <1>5, <1>7 DEF flat, seqs

\* A cut keeps a beginning that fits, or nothing; all of it, if it fits.
LEMMA CutKeeps ==
  ASSUME NEW S, NEW text \in Seq(S), NEW left \in Int
  PROVE  \E n \in 0..Len(text) : /\ Cut(text, left) = SubSeq(text, 1, n)
                                 /\ n <= left \/ n = 0
                                 /\ Len(text) <= left => n = Len(text)
<1> DEFINE D == 0..Len(text)
           Eq(kept) == kept = [n \in D |-> IF n <= left \/ n = 0 THEN n ELSE kept[(n * 9) \div 10]]
           stop == {n \in D : n <= left \/ n = 0}
           down == [n \in D |-> (n * 9) \div 10]
           m == [n \in D |-> n]
           start == [n \in D |-> n]
           step == [p \in D \X D |-> p[2]]
<1>1. Len(text) \in Nat
  OBVIOUS
<1>2. ASSUME NEW n \in D PROVE (n * 9) \div 10 \in D /\ (n # 0 => (n * 9) \div 10 < n)
  BY <1>1
<1>3. stop \subseteq D /\ down \in [D -> D] /\ m \in [D -> Nat] /\ \A n \in D \ stop : m[down[n]] < m[n]
  BY <1>1, <1>2
<1>4. start \in [D -> D] /\ step \in [D \X D -> D]
  OBVIOUS
<1>5. PICK f \in [D -> D] : Solves(f, D, stop, down, start, step)
  <2>1. \E f \in [D -> D] : Solves(f, D, stop, down, start, step)
    <3> HIDE DEF D, stop, down, m, start, step
    <3> QED BY <1>3, <1>4, RecursionHasSolution
  <2> QED BY <2>1
<1>6. ASSUME NEW n \in D PROVE f[n] = IF n <= left \/ n = 0 THEN n ELSE f[(n * 9) \div 10]
  <2>1. f[n] = IF n \in stop THEN start[n] ELSE step[<<n, f[down[n]]>>]
    <3> HIDE DEF D, stop, start, step, down
    <3> QED BY <1>5 DEF Solves
  <2>2. CASE n <= left \/ n = 0
    <3>1. n \in stop /\ start[n] = n
      BY <2>2
    <3> HIDE DEF stop, start, step, down
    <3> QED BY <2>1, <2>2, <3>1
  <2>3. CASE ~(n <= left \/ n = 0)
    <3>1. down[n] = (n * 9) \div 10 /\ (n * 9) \div 10 \in D /\ n \notin stop
      BY <1>2, <2>3
    <3>2. f[(n * 9) \div 10] \in D
      BY <1>5, <3>1
    <3>3. step[<<n, f[(n * 9) \div 10]>>] = f[(n * 9) \div 10]
      <4> HIDE DEF D
      <4> QED BY <3>2
    <3> HIDE DEF step, down, stop
    <3> QED BY <2>1, <2>3, <3>1, <3>3
  <2> QED BY <2>2, <2>3
<1>7. Eq(f)
  <2>1. f = [n \in D |-> f[n]]
    BY <1>5
  <2> HIDE DEF D
  <2> QED BY <1>6, <2>1
<1> DEFINE kept == CHOOSE g : Eq(g)
<1>8. Eq(kept)
  <2> HIDE DEF Eq
  <2> QED BY <1>7, Zenon
<1>9. Cut(text, left) = SubSeq(text, 1, kept[Len(text)])
  BY Zenon DEF Cut
<1> HIDE DEF kept
<1>10. ASSUME NEW n \in D PROVE kept[n] = IF n <= left \/ n = 0 THEN n ELSE kept[(n * 9) \div 10]
  <2> HIDE DEF D
  <2> QED BY <1>8
<1> DEFINE Good(n) == kept[n] \in D /\ (kept[n] <= left \/ kept[n] = 0)
           T == {n \in D : ~Good(n)}
<1>11. T = {}
  <2> SUFFICES ASSUME T # {} PROVE FALSE
    OBVIOUS
  <2>1. T \subseteq Nat
    OBVIOUS
  <2>2. PICK n \in T : \A y \in T : n <= y
    <3> HIDE DEF T
    <3> QED BY <2>1, LeastOfNaturals
  <2>3. n \in D /\ ~Good(n)
    BY <2>2
  <2>4. ~(n <= left \/ n = 0)
    BY <1>10, <2>3
  <2> DEFINE k == (n * 9) \div 10
  <2>5. k \in D /\ k < n
    BY <1>2, <2>3, <2>4
  <2>6. kept[n] = kept[k]
    BY <1>10, <2>3, <2>4
  <2> HIDE DEF k
  <2>7. k \notin T
    BY <1>1, <2>2, <2>3, <2>5
  <2> QED BY <2>3, <2>5, <2>6, <2>7
<1>12. Len(text) \in D /\ Good(Len(text))
  <2>1. Len(text) \in D
    BY <1>1
  <2> HIDE DEF Good, D
  <2> QED BY <1>11, <2>1
<1>13. Len(text) <= left => kept[Len(text)] = Len(text)
  BY <1>10, <1>12
<1> QED BY <1>9, <1>12, <1>13

\* The equation of Size.
Weighs(w, texts) ==
  /\ w \in [0..Len(texts) -> Nat]
  /\ w[0] = 0
  /\ \A n \in 1..Len(texts) : w[n] = w[n - 1] + Len(texts[n])

LEMMA SizeEquation ==
  ASSUME NEW S, NEW body, body.texts \in Seq(Seq(S))
  PROVE  \E w : Weighs(w, body.texts) /\ Size(body) = w[Len(body.texts)]
<1> DEFINE texts == body.texts
           D == 0..Len(texts)
           Eq(w) == w = [n \in D |-> IF n = 0 THEN 0 ELSE w[n - 1] + Len(texts[n])]
           stop == {0}
           down == [n \in D |-> IF n = 0 THEN 0 ELSE n - 1]
           m == [n \in D |-> n]
           start == [n \in D |-> 0]
           step == [p \in D \X Nat |-> IF p[1] = 0 THEN 0 ELSE p[2] + Len(texts[p[1]])]
<1>0. texts \in Seq(Seq(S))
  OBVIOUS
<1> HIDE DEF texts
<1>1. Len(texts) \in Nat /\ \A n \in D : n # 0 => Len(texts[n]) \in Nat
  <2>1. \A n \in 1..Len(texts) : texts[n] \in Seq(S)
    BY <1>0
  <2>2. \A s \in Seq(S) : Len(s) \in Nat
    OBVIOUS
  <2> QED BY <1>0, <2>1, <2>2
<1>2. stop \subseteq D /\ down \in [D -> D] /\ m \in [D -> Nat] /\ \A n \in D \ stop : m[down[n]] < m[n]
  BY <1>1
<1>3. start \in [D -> Nat] /\ step \in [D \X Nat -> Nat]
  <2>1. ASSUME NEW p \in D \X Nat PROVE (IF p[1] = 0 THEN 0 ELSE p[2] + Len(texts[p[1]])) \in Nat
    <3>1. p[1] \in D /\ p[2] \in Nat
      OBVIOUS
    <3> QED BY <1>1, <3>1
  <2> HIDE DEF D
  <2> QED BY <2>1
<1>4. PICK f \in [D -> Nat] : Solves(f, D, stop, down, start, step)
  <2>1. \E f \in [D -> Nat] : Solves(f, D, stop, down, start, step)
    <3> HIDE DEF D, stop, down, m, start, step
    <3> QED BY <1>2, <1>3, RecursionHasSolution
  <2> QED BY <2>1
<1>5. ASSUME NEW n \in D PROVE f[n] = IF n = 0 THEN 0 ELSE f[n - 1] + Len(texts[n])
  <2>1. f[n] = IF n \in stop THEN start[n] ELSE step[<<n, f[down[n]]>>]
    <3> HIDE DEF D, stop, start, step, down
    <3> QED BY <1>4 DEF Solves
  <2>2. CASE n = 0
    BY <2>1, <2>2
  <2>3. CASE n # 0
    <3>1. down[n] = n - 1 /\ n - 1 \in D /\ n \notin stop
      BY <1>1, <2>3
    <3>2. f[n - 1] \in Nat
      BY <3>1, <1>4
    <3>3. step[<<n, f[n - 1]>>] = f[n - 1] + Len(texts[n])
      <4> HIDE DEF D
      <4> QED BY <2>3, <3>2
    <3> HIDE DEF step, down, stop
    <3> QED BY <2>1, <2>3, <3>1, <3>3
  <2> QED BY <2>2, <2>3
<1>6. Eq(f)
  <2>1. f = [n \in D |-> f[n]]
    BY <1>4
  <2> HIDE DEF D
  <2> QED BY <1>5, <2>1
<1> DEFINE w == CHOOSE g : Eq(g)
<1>7. Eq(w)
  <2> HIDE DEF Eq
  <2> QED BY <1>6, Zenon
<1>8. Size(body) = w[Len(texts)]
  BY Zenon DEF Size, texts
<1> HIDE DEF w
<1>9. w = [n \in D |-> w[n]]
  <2> HIDE DEF D
  <2> QED BY <1>7
<1>10. \A n \in D : w[n] = IF n = 0 THEN 0 ELSE w[n - 1] + Len(texts[n])
  <2> HIDE DEF D
  <2> QED BY <1>7
<1> DEFINE T == {n \in D : w[n] \notin Nat}
<1>11. T = {}
  <2> SUFFICES ASSUME T # {} PROVE FALSE
    OBVIOUS
  <2>1. T \subseteq Nat
    OBVIOUS
  <2>2. PICK n \in T : \A y \in T : n <= y
    <3> HIDE DEF T
    <3> QED BY <2>1, LeastOfNaturals
  <2>3. n \in D /\ w[n] \notin Nat
    BY <2>2
  <2>4. n # 0
    BY <1>1, <1>10, <2>3
  <2>5. n - 1 \in D /\ n - 1 \notin T
    BY <1>1, <2>2, <2>3, <2>4
  <2>6. w[n - 1] \in Nat /\ w[n] = w[n - 1] + Len(texts[n]) /\ Len(texts[n]) \in Nat
    BY <1>1, <1>10, <2>3, <2>4, <2>5
  <2> QED BY <2>3, <2>6
<1>12. w \in [D -> Nat]
  <2>1. \A n \in D : w[n] \in Nat
    BY <1>11
  <2> HIDE DEF D
  <2> QED BY <1>9, <2>1
<1>13. Weighs(w, texts)
  <2>1. 0 \in D /\ \A n \in 1..Len(texts) : n \in D /\ n # 0
    BY <1>1
  <2>2. w[0] = 0 /\ \A n \in 1..Len(texts) : w[n] = w[n - 1] + Len(texts[n])
    <3> HIDE DEF D
    <3> QED BY <1>10, <2>1
  <2> QED BY <1>12, <2>2 DEF Weighs
<1> QED BY <1>8, <1>13 DEF texts

\* When one text changes, the size changes by as much.
Weighed(new, old, newText, oldText) == new = old - oldText + newText

LEMMA SizeChanges ==
  ASSUME NEW S, NEW body, body.texts \in Seq(Seq(S)), NEW other, other.texts \in Seq(Seq(S)),
         Len(other.texts) = Len(body.texts), NEW i \in 1..Len(body.texts),
         \A j \in 1..Len(body.texts) : j # i => other.texts[j] = body.texts[j]
  PROVE  /\ Size(body) \in Nat /\ Size(other) \in Nat
         /\ Weighed(Size(other), Size(body), Len(other.texts[i]), Len(body.texts[i]))
         /\ Len(body.texts[i]) \in Nat /\ Len(other.texts[i]) \in Nat
<1> DEFINE s == body.texts
           t == other.texts
           n == Len(s)
           delta == Len(t[i]) - Len(s[i])
<1>1. PICK w : Weighs(w, s) /\ Size(body) = w[n]
  BY SizeEquation
<1>2. PICK v : Weighs(v, t) /\ Size(other) = v[n]
  BY SizeEquation
<1>3. n \in Nat /\ Len(t) = n /\ i \in 1..n /\ Len(s[i]) \in Nat /\ Len(t[i]) \in Nat
  <2>1. s \in Seq(Seq(S)) /\ t \in Seq(Seq(S)) /\ Len(t) = Len(s) /\ i \in 1..Len(s)
    OBVIOUS
  <2> HIDE DEF s, t
  <2>2. s[i] \in Seq(S) /\ t[i] \in Seq(S) /\ Len(s) \in Nat
    BY <2>1
  <2>3. \A x \in Seq(S) : Len(x) \in Nat
    OBVIOUS
  <2> QED BY <2>1, <2>2, <2>3
<1>4. \A j \in 1..n : j # i => t[j] = s[j]
  OBVIOUS
<1> HIDE DEF s, t, n
<1>5. /\ \A k \in 0..n : w[k] \in Nat /\ v[k] \in Nat
      /\ w[0] = 0 /\ v[0] = 0
      /\ \A k \in 1..n : w[k] = w[k - 1] + Len(s[k]) /\ v[k] = v[k - 1] + Len(t[k])
  BY <1>1, <1>2, <1>3 DEF Weighs, n
<1> DEFINE Good(k) == v[k] = w[k] + IF k < i THEN 0 ELSE delta
           T == {k \in 0..n : ~Good(k)}
<1>6. T = {}
  <2> SUFFICES ASSUME T # {} PROVE FALSE
    OBVIOUS
  <2>1. T \subseteq Nat
    <3> HIDE DEF Good
    <3> QED BY <1>3
  <2>2. PICK k \in T : \A y \in T : k <= y
    <3> HIDE DEF T
    <3> QED BY <2>1, LeastOfNaturals
  <2>3. k \in 0..n /\ ~Good(k)
    BY <2>2
  <2>4. k # 0
    BY <1>3, <1>5, <2>3
  <2>5. k - 1 \in 0..n /\ k \in 1..n /\ k - 1 \notin T
    BY <1>3, <2>2, <2>3, <2>4
  <2>6. v[k - 1] = w[k - 1] + IF k - 1 < i THEN 0 ELSE delta
    BY <2>5
  <2>7. /\ w[k] = w[k - 1] + Len(s[k]) /\ v[k] = v[k - 1] + Len(t[k])
        /\ w[k] \in Nat /\ v[k] \in Nat /\ w[k - 1] \in Nat /\ v[k - 1] \in Nat
    BY <1>5, <2>3, <2>5
  <2>8. CASE k = i
    <3>1. v[k - 1] = w[k - 1]
      BY <1>3, <2>6, <2>7, <2>8
    <3>2. v[k] = w[k] + (Len(t[i]) - Len(s[i]))
      BY <1>3, <2>7, <2>8, <3>1
    <3> QED BY <1>3, <2>3, <2>8, <3>2
  <2>9. CASE k # i
    <3>1. t[k] = s[k]
      BY <1>4, <2>5, <2>9
    <3>2. w[k] - w[k - 1] = v[k] - v[k - 1]
      <4>1. w[k] = w[k - 1] + Len(s[k]) /\ v[k] = v[k - 1] + Len(s[k])
        BY <2>7, <3>1
      <4>2. Len(s[k]) \in Nat
        <5>1. s \in Seq(Seq(S))
          BY DEF s
        <5>2. s[k] \in Seq(S)
          BY <2>5, <5>1 DEF n
        <5> QED BY <5>2
      <4> DEFINE a == w[k]
                 p == w[k - 1]
                 c == v[k]
                 q == v[k - 1]
                 e == Len(s[k])
      <4>3. a = p + e /\ c = q + e /\ e \in Nat /\ a \in Nat /\ p \in Nat /\ c \in Nat /\ q \in Nat
        BY <2>7, <4>1, <4>2
      <4>4. a - p = c - q
        <5> HIDE DEF a, p, c, q, e
        <5> QED BY <4>3
      <4> QED BY <4>4
    <3>3. k - 1 < i <=> k < i
      BY <1>3, <2>5, <2>9
    <3>4. delta \in Int
      BY <1>3
    <3> HIDE DEF delta
    <3>5. v[k] = w[k] + IF k < i THEN 0 ELSE delta
      <4> DEFINE a == w[k]
                 p == w[k - 1]
                 c == v[k]
                 q == v[k - 1]
                 e == IF k < i THEN 0 ELSE delta
      <4>1. q = p + e /\ e \in Int
        BY <2>6, <3>3, <3>4
      <4>2. a - p = c - q /\ a \in Nat /\ p \in Nat /\ c \in Nat /\ q \in Nat
        BY <2>7, <3>2
      <4>3. c = a + e
        <5> HIDE DEF a, p, c, q, e
        <5> QED BY <4>1, <4>2
      <4> QED BY <4>3
    <3> QED BY <2>3, <3>5
  <2> QED BY <2>8, <2>9
<1>7. n \in 0..n /\ ~(n < i)
  BY <1>3
<1>8. Good(n)
  <2> HIDE DEF Good
  <2> QED BY <1>6, <1>7
<1>9. v[n] = w[n] + (Len(t[i]) - Len(s[i])) /\ v[n] \in Nat /\ w[n] \in Nat
  BY <1>5, <1>7, <1>8
<1>10. v[n] = w[n] - Len(s[i]) + Len(t[i])
  BY <1>3, <1>9
<1>11. Weighed(v[n], w[n], Len(t[i]), Len(s[i]))
  BY <1>10 DEF Weighed
<1> QED BY <1>1, <1>2, <1>3, <1>9, <1>11 DEF s, t

\* What is empty weighs nothing, and one text its length.
LEMMA SizeOfFew ==
  ASSUME NEW S, NEW body, body.texts \in Seq(Seq(S))
  PROVE  /\ Size(body) \in Nat
         /\ (\A j \in 1..Len(body.texts) : Len(body.texts[j]) = 0) => Size(body) = 0
         /\ Len(body.texts) = 1 => Size(body) = Len(body.texts[1]) /\ Len(body.texts[1]) \in Nat
<1> DEFINE s == body.texts
<1>0. s \in Seq(Seq(S))
  OBVIOUS
<1>1. PICK w : Weighs(w, s) /\ Size(body) = w[Len(s)]
  BY SizeEquation
<1> HIDE DEF s
<1>2. /\ Len(s) \in Nat
      /\ \A k \in 0..Len(s) : w[k] \in Nat
      /\ w[0] = 0
      /\ \A k \in 1..Len(s) : w[k] = w[k - 1] + Len(s[k])
  <2>1. Len(s) \in Nat
    BY <1>0
  <2> QED BY <1>1, <2>1 DEF Weighs
<1>3. ASSUME \A j \in 1..Len(s) : Len(s[j]) = 0 PROVE w[Len(s)] = 0
  <2> DEFINE T == {k \in 0..Len(s) : w[k] # 0}
  <2>1. T = {}
    <3> SUFFICES ASSUME T # {} PROVE FALSE
      OBVIOUS
    <3>1. T \subseteq Nat
      OBVIOUS
    <3>2. PICK k \in T : \A y \in T : k <= y
      <4> HIDE DEF T
      <4> QED BY <3>1, LeastOfNaturals
    <3>3. k \in 0..Len(s) /\ w[k] # 0 /\ k # 0
      BY <1>2, <3>2
    <3>4. k - 1 \in 0..Len(s) /\ k \in 1..Len(s) /\ k - 1 \notin T
      BY <1>2, <3>2, <3>3
    <3>5. w[k - 1] = 0 /\ w[k] = w[k - 1] + Len(s[k]) /\ Len(s[k]) = 0
      BY <1>2, <1>3, <3>4
    <3> QED BY <3>3, <3>5
  <2>2. Len(s) \in 0..Len(s)
    BY <1>2
  <2> QED BY <2>1, <2>2
<1>4. ASSUME Len(s) = 1 PROVE w[Len(s)] = Len(s[1]) /\ Len(s[1]) \in Nat
  <2>1. s[1] \in Seq(S)
    <3>1. \A j \in 1..Len(s) : s[j] \in Seq(S)
      BY <1>0
    <3>2. 1 \in 1..Len(s)
      BY <1>4
    <3> QED BY <3>1, <3>2
  <2>2. Len(s[1]) \in Nat
    BY <2>1
  <2>3. w[1] = w[0] + Len(s[1])
    <3>1. 1 \in 1..Len(s) /\ 1 - 1 = 0
      BY <1>4
    <3> QED BY <1>2, <3>1
  <2> QED BY <1>2, <1>4, <2>2, <2>3
<1>5. w[Len(s)] \in Nat
  BY <1>2
<1> QED BY <1>1, <1>3, <1>4, <1>5 DEF s

\* The bodies over the atoms of S, and the bodies that show no more than another, text by text.
BodiesOver(S) == [kind : {"text", "message", "json", "object"}, texts : Seq(Seq(S))]

NoMoreThan(cut, body) ==
  /\ cut.kind = body.kind /\ Len(cut.texts) = Len(body.texts)
  /\ \A j \in 1..Len(body.texts) : PublicOf(cut.texts[j]) \subseteq PublicOf(body.texts[j])

LEMMA TextsOfBody ==
  ASSUME NEW S, NEW body \in BodiesOver(S)
  PROVE  /\ body.texts \in Seq(Seq(S)) /\ Len(body.texts) \in Nat
         /\ DOMAIN body.texts = 1..Len(body.texts)
         /\ \A j \in 1..Len(body.texts) : body.texts[j] \in Seq(S) /\ Len(body.texts[j]) \in Nat
<1>1. body.texts \in Seq(Seq(S))
  BY DEF BodiesOver
<1>2. ASSUME NEW s \in Seq(Seq(S))
      PROVE  Len(s) \in Nat /\ DOMAIN s = 1..Len(s) /\ \A j \in 1..Len(s) : s[j] \in Seq(S)
  OBVIOUS
<1>3. \A t \in Seq(S) : Len(t) \in Nat
  OBVIOUS
<1> QED BY <1>1, <1>2, <1>3

\* The body with one text replaced.
Replaced(new, body, i, t, S) ==
  /\ new \in BodiesOver(S) /\ new.kind = body.kind /\ Len(new.texts) = Len(body.texts)
  /\ new.texts[i] = t
  /\ \A j \in 1..Len(body.texts) : j # i => new.texts[j] = body.texts[j]

LEMMA OneTextReplaced ==
  ASSUME NEW S, NEW body \in BodiesOver(S), NEW i \in 1..Len(body.texts), NEW t \in Seq(S)
  PROVE  Replaced([body EXCEPT !.texts[i] = t], body, i, t, S)
<1> DEFINE new == [body EXCEPT !.texts[i] = t]
           s == body.texts
           r == [s EXCEPT ![i] = t]
<1>1. s \in Seq(Seq(S)) /\ Len(s) \in Nat /\ DOMAIN s = 1..Len(s) /\ i \in 1..Len(s)
  BY TextsOfBody
<1>2. new.kind = body.kind /\ new.texts = r /\ new = [kind |-> body.kind, texts |-> r]
      /\ body.kind \in {"text", "message", "json", "object"}
  <2>1. body = [kind |-> body.kind, texts |-> s] /\ body.kind \in {"text", "message", "json", "object"}
    BY DEF BodiesOver
  <2>2. new = [body EXCEPT !.texts = r]
    BY <2>1
  <2> HIDE DEF new, r, s
  <2> QED BY <2>1, <2>2
<1> HIDE DEF s, new
<1>3. r \in Seq(Seq(S)) /\ Len(r) = Len(s) /\ r[i] = t /\ \A j \in 1..Len(s) : j # i => r[j] = s[j]
  BY <1>1
<1> HIDE DEF r
<1>4. new \in BodiesOver(S)
  BY <1>2, <1>3 DEF BodiesOver
<1>5. Replaced(new, body, i, t, S)
  BY <1>2, <1>3, <1>4 DEF s, Replaced
<1> QED BY <1>5 DEF new

\* One text cut to what is left for it.
TextCut(cut, body, i, maxBytes, S) ==
  /\ cut \in BodiesOver(S) /\ NoMoreThan(cut, body)
  /\ Size(cut) \in Nat /\ Size(body) \in Nat /\ Size(cut) <= Size(body)
  /\ Size(cut) <= maxBytes \/ Len(cut.texts[i]) = 0
  /\ \A j \in 1..Len(body.texts) : j # i => cut.texts[j] = body.texts[j]

LEMMA TrimTextKeeps ==
  ASSUME NEW S, NEW body \in BodiesOver(S), NEW i \in 1..Len(body.texts), NEW maxBytes \in Nat
  PROVE  TextCut(TrimText(body, i, maxBytes), body, i, maxBytes, S)
<1> DEFINE t == body.texts[i]
           left == maxBytes - (Size(body) - Len(t))
           c == Cut(t, left)
           cut == TrimText(body, i, maxBytes)
<1>1. body.texts \in Seq(Seq(S)) /\ t \in Seq(S) /\ Len(t) \in Nat
  BY TextsOfBody
<1>2. Size(body) \in Nat
  <2> HIDE DEF t
  <2> QED BY <1>1, SizeOfFew
<1>3. left \in Int
  <2> HIDE DEF t
  <2> QED BY <1>1, <1>2
<1>4. cut = [body EXCEPT !.texts[i] = c]
  BY <1>1 DEF TrimText, BodiesOver
<1>5. PICK n \in 0..Len(t) : c = SubSeq(t, 1, n) /\ (n <= left \/ n = 0)
  <2> HIDE DEF t, left
  <2> QED BY <1>1, <1>3, CutKeeps
<1>6. c \in Seq(S) /\ Len(c) = n /\ \A k \in 1..n : c[k] = t[k]
  <2> HIDE DEF t, c
  <2>1. 1 \in 1..Len(t) + 1 /\ n \in 1 - 1..Len(t) /\ n - 1 + 1 = n
    BY <1>1
  <2>2. /\ SubSeq(t, 1, n) \in Seq(S) /\ Len(SubSeq(t, 1, n)) = n - 1 + 1
        /\ \A k \in 1..n - 1 + 1 : SubSeq(t, 1, n)[k] = t[1 + k - 1]
    BY <1>1, <2>1, MembersOfPart
  <2>3. \A k \in 1..n : 1 + k - 1 = k
    OBVIOUS
  <2> QED BY <1>5, <2>1, <2>2, <2>3
<1>7. PublicOf(c) \subseteq PublicOf(t)
  <2> HIDE DEF t, c
  <2>1. n <= Len(c) /\ \A k \in n + 1..Len(c) : c[k] \in Tags
    BY <1>6
  <2> QED BY <1>1, <1>6, <2>1, CutShowsNoMore
<1> HIDE DEF c, cut
<1>8. /\ cut \in BodiesOver(S) /\ cut.kind = body.kind /\ Len(cut.texts) = Len(body.texts)
      /\ cut.texts[i] = c
      /\ \A j \in 1..Len(body.texts) : j # i => cut.texts[j] = body.texts[j]
  <2> HIDE DEF t
  <2> QED BY <1>4, <1>6, OneTextReplaced DEF Replaced
<1>9. NoMoreThan(cut, body)
  BY <1>7, <1>8 DEF NoMoreThan
<1>10. /\ Size(body) \in Nat /\ Size(cut) \in Nat
       /\ Size(cut) = Size(body) - Len(t) + Len(c)
  <2>1. cut.texts \in Seq(Seq(S))
    BY <1>8, TextsOfBody
  <2>2. /\ Size(body) \in Nat /\ Size(cut) \in Nat
        /\ Size(cut) = Size(body) - Len(body.texts[i]) + Len(cut.texts[i])
    <3>1. body.texts \in Seq(Seq(S))
      BY <1>1
    <3>2. Len(cut.texts) = Len(body.texts) /\ \A j \in 1..Len(body.texts) : j # i => cut.texts[j] = body.texts[j]
      BY <1>8
    <3> HIDE DEF t, left
    <3>3. i \in 1..Len(body.texts)
      OBVIOUS
    <3> HIDE DEF cut
    <3>4. Size(body) \in Nat /\ Size(cut) \in Nat
      BY <2>1, <3>1, <3>2, <3>3, SizeChanges
    <3>5. Weighed(Size(cut), Size(body), Len(cut.texts[i]), Len(body.texts[i]))
      BY <2>1, <3>1, <3>2, <3>3, SizeChanges
    <3> QED BY <3>4, <3>5 DEF Weighed
  <2> QED BY <1>8, <2>2
<1>11. Size(cut) <= Size(body) /\ (Size(cut) <= maxBytes \/ Len(c) = 0)
  <2> DEFINE z == Size(body)
             y == Size(cut)
             l == Len(t)
  <2>1. z \in Nat /\ y \in Nat /\ l \in Nat /\ n \in 0..l /\ y = z - l + n
        /\ (n <= maxBytes - (z - l) \/ n = 0) /\ maxBytes \in Nat
    BY <1>1, <1>5, <1>6, <1>10
  <2>2. y <= z /\ (y <= maxBytes \/ n = 0)
    <3> HIDE DEF z, y, l
    <3> QED BY <2>1
  <2> QED BY <1>6, <2>2
<1>12. TextCut(cut, body, i, maxBytes, S)
  BY <1>8, <1>9, <1>10, <1>11 DEF TextCut
<1> QED BY <1>12 DEF cut

\* The equation of TrimMessage.
Trims(from, body, maxBytes, S) ==
  /\ from \in [1..Len(body.texts) + 1 -> BodiesOver(S)]
  /\ from[Len(body.texts) + 1] = body
  /\ \A i \in 1..Len(body.texts) : from[i] = TrimText(from[i + 1], i, maxBytes)

\* The bodies with the number of texts of body: those a cut of it stays among.
LEMMA TrimMessageEquation ==
  ASSUME NEW S, NEW body \in BodiesOver(S), NEW maxBytes \in Nat
  PROVE  \E from : Trims(from, body, maxBytes, S) /\ TrimMessage(body, maxBytes) = from[1]
<1> DEFINE N == Len(body.texts)
           D == 1..N + 1
           B == {b \in BodiesOver(S) : Len(b.texts) = N}
           Eq(from) == from = [i \in D |-> IF i > N THEN body ELSE TrimText(from[i + 1], i, maxBytes)]
           stop == {N + 1}
           down == [i \in D |-> IF i > N THEN i ELSE i + 1]
           m == [i \in D |-> N + 1 - i]
           start == [i \in D |-> body]
           step == [p \in D \X B |-> IF p[1] > N THEN body ELSE TrimText(p[2], p[1], maxBytes)]
<1>1. N \in Nat /\ body \in B
  BY TextsOfBody
<1> HIDE DEF N
<1>2. stop \subseteq D /\ down \in [D -> D] /\ m \in [D -> Nat] /\ \A i \in D \ stop : m[down[i]] < m[i]
  BY <1>1
<1>3. ASSUME NEW b \in B, NEW i \in D, i <= N PROVE TrimText(b, i, maxBytes) \in B
  <2>1. b \in BodiesOver(S) /\ i \in 1..Len(b.texts) /\ Len(b.texts) = N
    BY <1>1, <1>3
  <2>2. TrimText(b, i, maxBytes) \in BodiesOver(S) /\ NoMoreThan(TrimText(b, i, maxBytes), b)
    BY <2>1, TrimTextKeeps DEF TextCut
  <2> QED BY <2>1, <2>2 DEF NoMoreThan
<1>4. start \in [D -> B] /\ step \in [D \X B -> B]
  <2>1. ASSUME NEW p \in D \X B PROVE (IF p[1] > N THEN body ELSE TrimText(p[2], p[1], maxBytes)) \in B
    <3>1. p[1] \in D /\ p[2] \in B
      OBVIOUS
    <3>2. CASE p[1] > N
      BY <1>1, <3>2
    <3>3. CASE ~(p[1] > N)
      <4>1. p[1] <= N
        BY <1>1, <3>1, <3>3
      <4>2. TrimText(p[2], p[1], maxBytes) \in B
        <5> HIDE DEF B, D
        <5> QED BY <1>3, <3>1, <4>1
      <4> QED BY <3>3, <4>2
    <3> QED BY <3>2, <3>3
  <2> HIDE DEF D, B
  <2> QED BY <1>1, <2>1
<1>5. PICK f \in [D -> B] : Solves(f, D, stop, down, start, step)
  <2>1. \E f \in [D -> B] : Solves(f, D, stop, down, start, step)
    <3> HIDE DEF D, B, stop, down, m, start, step
    <3> QED BY <1>2, <1>4, RecursionHasSolution
  <2> QED BY <2>1
<1>6. ASSUME NEW i \in D PROVE f[i] = IF i > N THEN body ELSE TrimText(f[i + 1], i, maxBytes)
  <2>1. f[i] = IF i \in stop THEN start[i] ELSE step[<<i, f[down[i]]>>]
    <3> HIDE DEF D, B, stop, start, step, down
    <3> QED BY <1>5 DEF Solves
  <2>2. CASE i > N
    <3>1. i \in stop /\ start[i] = body
      BY <1>1, <2>2
    <3> HIDE DEF stop, start, step, down
    <3> QED BY <2>1, <2>2, <3>1
  <2>3. CASE ~(i > N)
    <3>1. down[i] = i + 1 /\ i + 1 \in D /\ i \notin stop
      BY <1>1, <2>3
    <3>2. f[i + 1] \in B
      <4> HIDE DEF D, B
      <4> QED BY <3>1, <1>5
    <3>3. step[<<i, f[i + 1]>>] = TrimText(f[i + 1], i, maxBytes)
      <4> HIDE DEF D, B
      <4> QED BY <2>3, <3>2
    <3> HIDE DEF step, down, stop
    <3> QED BY <2>1, <2>3, <3>1, <3>3
  <2> QED BY <2>2, <2>3
<1>7. Eq(f)
  <2>1. f = [i \in D |-> f[i]]
    <3> HIDE DEF B
    <3> QED BY <1>5
  <2> HIDE DEF D, B
  <2> QED BY <1>6, <2>1
<1> DEFINE from == CHOOSE g : Eq(g)
<1>8. Eq(from)
  <2> HIDE DEF Eq
  <2> QED BY <1>7, Zenon
<1>9. TrimMessage(body, maxBytes) = from[1]
  BY Zenon DEF TrimMessage, N
<1> HIDE DEF from
<1>10. from = [i \in D |-> from[i]]
  <2> HIDE DEF D
  <2> QED BY <1>8
<1>11. \A i \in D : from[i] = IF i > N THEN body ELSE TrimText(from[i + 1], i, maxBytes)
  <2> HIDE DEF D
  <2> QED BY <1>8
<1> DEFINE T == {i \in D : from[i] \notin B}
<1>12. T = {}
  <2> SUFFICES ASSUME T # {} PROVE FALSE
    OBVIOUS
  <2>1. T \subseteq D
    <3> HIDE DEF B
    <3> QED OBVIOUS
  <2>2. PICK i \in T : \A y \in T : m[i] <= m[y]
    <3>1. m \in [D -> Nat]
      BY <1>2
    <3> HIDE DEF T, m
    <3> QED BY <2>1, <3>1, LeastMeasured
  <2>3. i \in D /\ from[i] \notin B
    <3> HIDE DEF B
    <3> QED BY <2>2
  <2>4. ~(i > N)
    <3> HIDE DEF B
    <3> QED BY <1>1, <1>11, <2>3
  <2>5. i + 1 \in D /\ i <= N /\ m[i + 1] < m[i] /\ m[i] \in Nat /\ m[i + 1] \in Nat
    <3> HIDE DEF B
    <3> QED BY <1>1, <2>3, <2>4
  <2>6. i + 1 \notin T
    <3> HIDE DEF T, D, m
    <3> QED BY <2>2, <2>5
  <2>7. from[i + 1] \in B
    <3> HIDE DEF B, D
    <3> QED BY <2>5, <2>6
  <2>8. TrimText(from[i + 1], i, maxBytes) \in B
    <3> HIDE DEF B, D
    <3> QED BY <1>3, <2>3, <2>5, <2>7
  <2>9. from[i] = TrimText(from[i + 1], i, maxBytes)
    <3> HIDE DEF B, D
    <3> QED BY <1>11, <2>3, <2>4
  <2> QED BY <2>3, <2>8, <2>9
<1>13. from \in [D -> BodiesOver(S)]
  <2>1. \A i \in D : from[i] \in BodiesOver(S)
    BY <1>12
  <2> HIDE DEF D
  <2> QED BY <1>10, <2>1
<1>14. N + 1 \in D /\ N + 1 > N /\ \A i \in 1..N : i \in D /\ ~(i > N)
  BY <1>1
<1>15. from[N + 1] = body /\ \A i \in 1..N : from[i] = TrimText(from[i + 1], i, maxBytes)
  <2> HIDE DEF D
  <2> QED BY <1>11, <1>14
<1>16. Trims(from, body, maxBytes, S)
  BY <1>13, <1>15 DEF Trims, N
<1> QED BY <1>9, <1>16

LEMMA NoMoreIsTransitive ==
  ASSUME NEW a, NEW b, NEW c, NoMoreThan(a, b), NoMoreThan(b, c)
  PROVE  NoMoreThan(a, c)
BY DEF NoMoreThan

\* The turns are cut until the message fits, or is empty.
LEMMA TrimMessageKeeps ==
  ASSUME NEW S, NEW body \in BodiesOver(S), NEW maxBytes \in Nat
  PROVE  /\ TrimMessage(body, maxBytes) \in BodiesOver(S)
         /\ NoMoreThan(TrimMessage(body, maxBytes), body)
         /\ Size(TrimMessage(body, maxBytes)) <= maxBytes
<1> DEFINE N == Len(body.texts)
           D == 1..N + 1
           m == [i \in D |-> N + 1 - i]
<1>1. PICK from : Trims(from, body, maxBytes, S) /\ TrimMessage(body, maxBytes) = from[1]
  BY TrimMessageEquation
<1>2. N \in Nat
  BY TextsOfBody
<1> HIDE DEF N
<1>3. /\ \A i \in D : from[i] \in BodiesOver(S)
      /\ from[N + 1] = body
      /\ \A i \in 1..N : from[i] = TrimText(from[i + 1], i, maxBytes)
  BY <1>1 DEF Trims, N
<1> DEFINE Empty(b, i) == \A j \in i..N : Len(b.texts[j]) = 0
           Good(i) == /\ NoMoreThan(from[i], body) /\ Size(from[i]) \in Nat
                      /\ Size(from[i]) <= maxBytes \/ Empty(from[i], i)
           T == {i \in D : ~Good(i)}
<1>4. T = {}
  <2> SUFFICES ASSUME T # {} PROVE FALSE
    OBVIOUS
  <2>1. T \subseteq D
    <3> HIDE DEF Good
    <3> QED OBVIOUS
  <2>2. PICK i \in T : \A y \in T : m[i] <= m[y]
    <3>1. m \in [D -> Nat]
      BY <1>2
    <3> HIDE DEF T, m
    <3> QED BY <2>1, <3>1, LeastMeasured
  <2>3. i \in D /\ ~Good(i)
    <3> HIDE DEF Good
    <3> QED BY <2>2
  <2>4. Good(N + 1)
    <3>1. NoMoreThan(body, body)
      BY DEF NoMoreThan
    <3>2. Size(body) \in Nat
      <4>1. body.texts \in Seq(Seq(S))
        BY TextsOfBody
      <4> QED BY <4>1, SizeOfFew
    <3>3. Empty(body, N + 1)
      BY <1>2
    <3> QED BY <1>3, <3>1, <3>2, <3>3
  <2>5. i \in 1..N /\ i + 1 \in D /\ m[i + 1] < m[i] /\ m[i] \in Nat /\ m[i + 1] \in Nat
    <3>1. i # N + 1
      <4> HIDE DEF Good
      <4> QED BY <2>3, <2>4
    <3> HIDE DEF Good
    <3> QED BY <1>2, <2>3, <3>1
  <2>6. i + 1 \notin T
    <3> HIDE DEF T, D, m
    <3> QED BY <2>2, <2>5
  <2>7. Good(i + 1)
    <3> HIDE DEF Good, D
    <3> QED BY <2>5, <2>6
  <2> DEFINE b == from[i + 1]
             cut == from[i]
  <2>8. b \in BodiesOver(S) /\ NoMoreThan(b, body) /\ cut = TrimText(b, i, maxBytes)
        /\ Len(b.texts) = N /\ i \in 1..Len(b.texts)
    <3>1. b \in BodiesOver(S) /\ NoMoreThan(b, body) /\ cut = TrimText(b, i, maxBytes)
      BY <1>3, <2>5, <2>7
    <3>2. Len(b.texts) = N
      BY <3>1 DEF NoMoreThan, N
    <3> QED BY <2>5, <3>1, <3>2
  <2>9. /\ cut \in BodiesOver(S) /\ NoMoreThan(cut, b)
        /\ Size(cut) \in Nat /\ Size(b) \in Nat /\ Size(cut) <= Size(b)
        /\ Size(cut) <= maxBytes \/ Len(cut.texts[i]) = 0
        /\ \A j \in 1..N : j # i => cut.texts[j] = b.texts[j]
    <3> HIDE DEF b, cut
    <3>1. TextCut(cut, b, i, maxBytes, S)
      BY <2>8, TrimTextKeeps
    <3> QED BY <2>8, <3>1 DEF TextCut
  <2>10. NoMoreThan(cut, body)
    <3> HIDE DEF b, cut
    <3> QED BY <2>8, <2>9, NoMoreIsTransitive
  <2>11. Size(cut) <= maxBytes \/ Empty(cut, i)
    <3>1. CASE Size(b) <= maxBytes
      <4> HIDE DEF b, cut
      <4> QED BY <2>9, <3>1
    <3>2. CASE ~(Size(b) <= maxBytes)
      <4>1. \A j \in i + 1..N : Len(b.texts[j]) = 0
        BY <2>7, <3>2
      <4> HIDE DEF b, cut
      <4>2. ASSUME Len(cut.texts[i]) = 0, NEW j \in i..N PROVE Len(cut.texts[j]) = 0
        <5>1. CASE j = i
          BY <4>2, <5>1
        <5>2. CASE j # i
          <6>1. j \in i + 1..N /\ j \in 1..N
            BY <1>2, <2>5, <5>2
          <6> QED BY <2>9, <4>1, <5>2, <6>1
        <5> QED BY <5>1, <5>2
      <4> QED BY <2>9, <4>2
    <3> QED BY <3>1, <3>2
  <2> QED BY <2>3, <2>9, <2>10, <2>11
<1>5. 1 \in D /\ Good(1)
  <2>1. 1 \in D
    BY <1>2
  <2> HIDE DEF Good, D
  <2> QED BY <1>4, <2>1
<1>6. Size(from[1]) <= maxBytes
  <2>1. CASE Empty(from[1], 1)
    <3>1. from[1].texts \in Seq(Seq(S)) /\ Len(from[1].texts) = N
      <4>1. from[1].texts \in Seq(Seq(S))
        BY <1>3, <1>5, TextsOfBody
      <4>2. NoMoreThan(from[1], body)
        BY <1>5
      <4> QED BY <4>1, <4>2 DEF NoMoreThan, N
    <3>2. Size(from[1]) = 0
      BY <2>1, <3>1, SizeOfFew
    <3> QED BY <3>2
  <2> QED BY <1>5, <2>1
<1>7. from[1] \in BodiesOver(S) /\ NoMoreThan(from[1], body)
  BY <1>3, <1>5
<1> QED BY <1>1, <1>6, <1>7

\* The marker adds one atom, and no word.
LEMMA MarkedAddsOne ==
  ASSUME NEW S, TagAtoms \subseteq S, NEW body \in BodiesOver(S), Len(body.texts) > 0
  PROVE  /\ Marked(body) \in BodiesOver(S) /\ NoMoreThan(Marked(body), body)
         /\ Size(Marked(body)) = Size(body) + 1
<1> DEFINE n == Len(body.texts)
           t == body.texts[n]
           c == t \o TruncationMarker
           new == Marked(body)
<1>1. body.texts \in Seq(Seq(S)) /\ n \in 1..n /\ t \in Seq(S) /\ Len(t) \in Nat
  <2>1. n \in Nat /\ n > 0
    BY TextsOfBody
  <2>2. n \in 1..n
    <3> HIDE DEF n
    <3> QED BY <2>1
  <2> QED BY <2>2, TextsOfBody
<1>2. new = [body EXCEPT !.texts[n] = c]
  BY <1>1 DEF Marked, BodiesOver
<1>3. c \in Seq(S) /\ Len(c) = Len(t) + 1 /\ (\A k \in 1..Len(t) : c[k] = t[k]) /\ c[Len(t) + 1] \in Tags
  <2>1. TruncationMarker \in Seq(S) /\ TruncationMarker = <<"[truncated]">> /\ "[truncated]" \in Tags
    BY TagsAre DEF TruncationMarker, TagAtoms
  <2>2. "[truncated]" \in S
    BY DEF TagAtoms
  <2> HIDE DEF t
  <2> QED BY <1>1, <2>1, <2>2
<1>4. PublicOf(c) \subseteq PublicOf(t)
  <2> HIDE DEF t, c
  <2>1. Len(t) \in 0..Len(t) /\ Len(t) <= Len(c) /\ \A k \in Len(t) + 1..Len(c) : c[k] \in Tags
    BY <1>1, <1>3
  <2> QED BY <1>1, <1>3, <2>1, CutShowsNoMore
<1> HIDE DEF c, new
<1>5. /\ new \in BodiesOver(S) /\ new.kind = body.kind /\ Len(new.texts) = Len(body.texts)
      /\ new.texts[n] = c
      /\ \A j \in 1..Len(body.texts) : j # n => new.texts[j] = body.texts[j]
  <2>1. n \in 1..Len(body.texts)
    BY <1>1
  <2> HIDE DEF n, t
  <2>2. Replaced(new, body, n, c, S)
    BY <1>2, <1>3, <2>1, OneTextReplaced
  <2> QED BY <2>2 DEF Replaced
<1>6. NoMoreThan(new, body)
  BY <1>4, <1>5 DEF NoMoreThan
<1>7. Size(new) = Size(body) + 1
  <2>1. new.texts \in Seq(Seq(S))
    BY <1>5, TextsOfBody
  <2>2. n \in 1..Len(body.texts)
    BY <1>1
  <2>3. Len(new.texts) = Len(body.texts) /\ \A j \in 1..Len(body.texts) : j # n => new.texts[j] = body.texts[j]
    BY <1>5
  <2> HIDE DEF n, t
  <2>4. /\ Size(body) \in Nat /\ Size(new) \in Nat
        /\ Weighed(Size(new), Size(body), Len(new.texts[n]), Len(body.texts[n]))
    BY <1>1, <2>1, <2>2, <2>3, SizeChanges
  <2>5. Len(new.texts[n]) = Len(t) + 1 /\ body.texts[n] = t
    BY <1>3, <1>5 DEF t
  <2> QED BY <1>1, <2>4, <2>5 DEF Weighed
<1> QED BY <1>5, <1>6, <1>7 DEF new

\* The public words of a body, text by text.
LEMMA PublicWordsByText ==
  ASSUME NEW S, NEW body \in BodiesOver(S)
  PROVE  PublicWords(body) = UNION {PublicOf(body.texts[j]) : j \in 1..Len(body.texts)}
<1>1. ToSet(body.texts) = {body.texts[j] : j \in 1..Len(body.texts)}
  <2>1. DOMAIN body.texts = 1..Len(body.texts)
    BY TextsOfBody
  <2> QED BY <2>1 DEF ToSet
<1>2. PublicWords(body) = UNION {PublicOf(t) : t \in ToSet(body.texts)}
  BY Zenon DEF PublicWords, PublicOf
<1>3. {PublicOf(t) : t \in ToSet(body.texts)} = {PublicOf(body.texts[j]) : j \in 1..Len(body.texts)}
  BY <1>1
<1> QED BY <1>2, <1>3

LEMMA NoMorePublicWords ==
  ASSUME NEW S, NEW cut \in BodiesOver(S), NEW body \in BodiesOver(S), NoMoreThan(cut, body)
  PROVE  PublicWords(cut) \subseteq PublicWords(body)
<1>1. PublicWords(cut) = UNION {PublicOf(cut.texts[j]) : j \in 1..Len(cut.texts)}
  BY PublicWordsByText
<1>2. PublicWords(body) = UNION {PublicOf(body.texts[j]) : j \in 1..Len(body.texts)}
  BY PublicWordsByText
<1>3. Len(cut.texts) = Len(body.texts) /\ \A j \in 1..Len(body.texts) : PublicOf(cut.texts[j]) \subseteq PublicOf(body.texts[j])
  BY DEF NoMoreThan
<1> QED BY <1>1, <1>2, <1>3

\* What the cut keeps of a body: no word but public ones, and no more than fits.
Keeps(sent, body, maxBytes, S) ==
  /\ sent \in BodiesOver(S)
  /\ PublicWords(sent) \subseteq PublicWords(body)
  /\ FitsWithMarker(sent, maxBytes)

LEMMA ObjectIsKept ==
  ASSUME NEW S, TagAtoms \subseteq S, NEW body \in BodiesOver(S), NEW maxBytes \in Nat,
         body.kind = "object", body.texts # <<>>, ~(Size(body) <= maxBytes)
  PROVE  Keeps(TruncateBody(body, maxBytes), body, maxBytes, S)
<1> DEFINE flat == FlattenSeq([i \in DOMAIN body.texts |-> FieldName \o body.texts[i]])
           left == maxBytes - Len(TruncationMarker)
           c == Cut(flat, left)
           t == c \o TruncationMarker
           new == TruncateBody(body, maxBytes)
<1>1. body.texts \in Seq(Seq(S)) /\ DOMAIN body.texts = 1..Len(body.texts)
  BY TextsOfBody
<1>2. flat \in Seq(S) /\ PublicOf(flat) \subseteq UNION {PublicOf(body.texts[i]) : i \in DOMAIN body.texts}
  BY <1>1, StringShowsNoMore
<1>3. new = [kind |-> "object", texts |-> <<t>>]
  <2>1. Stringified(body).texts[1] = flat
    BY DEF Stringified, BodiesOver
  <2>2. new = [body EXCEPT !.texts = <<t>>]
    <3> HIDE DEF flat
    <3> QED BY <2>1 DEF TruncateBody
  <2> HIDE DEF t, new
  <2> QED BY <2>2 DEF BodiesOver
<1> HIDE DEF flat
<1>4. /\ TruncationMarker \in Seq(S) /\ TruncationMarker = <<"[truncated]">> /\ "[truncated]" \in Tags
      /\ Len(TruncationMarker) = 1 /\ "[truncated]" \in S
  BY TagsAre DEF TruncationMarker, TagAtoms
<1>5. left = maxBytes - 1 /\ left \in Int
  BY <1>4
<1> HIDE DEF left
<1>6. PICK n \in 0..Len(flat) : c = SubSeq(flat, 1, n) /\ (n <= left \/ n = 0)
  BY <1>2, <1>5, CutKeeps
<1>7. c \in Seq(S) /\ Len(c) = n /\ \A k \in 1..n : c[k] = flat[k]
  <2> HIDE DEF c
  <2>1. 1 \in 1..Len(flat) + 1 /\ n \in 1 - 1..Len(flat) /\ n - 1 + 1 = n
    BY <1>2
  <2>2. /\ SubSeq(flat, 1, n) \in Seq(S) /\ Len(SubSeq(flat, 1, n)) = n - 1 + 1
        /\ \A k \in 1..n - 1 + 1 : SubSeq(flat, 1, n)[k] = flat[1 + k - 1]
    BY <1>2, <2>1, MembersOfPart
  <2>3. \A k \in 1..n : 1 + k - 1 = k
    OBVIOUS
  <2> QED BY <1>6, <2>1, <2>2, <2>3
<1> HIDE DEF c
<1>8. t \in Seq(S) /\ Len(t) = n + 1 /\ (\A k \in 1..n : t[k] = flat[k]) /\ t[n + 1] \in Tags
  BY <1>4, <1>7
<1> HIDE DEF t, new
<1>9. PublicOf(t) \subseteq PublicOf(flat)
  <2>1. n <= Len(t) /\ \A k \in n + 1..Len(t) : t[k] \in Tags
    BY <1>8
  <2> QED BY <1>2, <1>8, <2>1, CutShowsNoMore
<1>10. new \in BodiesOver(S) /\ new.texts = <<t>> /\ Len(new.texts) = 1 /\ new.texts[1] = t
  <2>1. <<t>> \in Seq(Seq(S)) /\ Len(<<t>>) = 1 /\ <<t>>[1] = t
    BY <1>8
  <2> QED BY <1>3, <2>1 DEF BodiesOver
<1>11. PublicWords(new) \subseteq PublicWords(body)
  <2>1. PublicWords(new) = UNION {PublicOf(new.texts[j]) : j \in 1..Len(new.texts)}
    BY <1>10, PublicWordsByText
  <2>2. PublicWords(body) = UNION {PublicOf(body.texts[j]) : j \in 1..Len(body.texts)}
    BY PublicWordsByText
  <2>3. PublicWords(new) \subseteq PublicOf(t)
    BY <2>1, <1>10
  <2>4. PublicOf(flat) \subseteq PublicWords(body)
    BY <1>1, <1>2, <2>2
  <2> QED BY <1>9, <2>3, <2>4
<1>12. Size(new) = n + 1
  <2>1. new.texts \in Seq(Seq(S))
    BY <1>10, TextsOfBody
  <2>2. Size(new) = Len(new.texts[1])
    BY <1>10, <2>1, SizeOfFew
  <2> QED BY <1>8, <1>10, <2>2
<1>13. FitsWithMarker(new, maxBytes)
  <2>1. n + 1 <= maxBytes + 1
    BY <1>5, <1>6, <1>2
  <2> QED BY <1>4, <1>12, <2>1 DEF FitsWithMarker
<1>14. Keeps(new, body, maxBytes, S)
  BY <1>10, <1>11, <1>13 DEF Keeps
<1> QED BY <1>14 DEF new

\* A cut body with its marker.
LEMMA MarkedIsKept ==
  ASSUME NEW S, TagAtoms \subseteq S, NEW body \in BodiesOver(S), NEW maxBytes \in Nat,
         Len(body.texts) > 0, NEW cut \in BodiesOver(S), NoMoreThan(cut, body),
         body.kind = "json" \/ Size(cut) <= maxBytes
  PROVE  Keeps(Marked(cut), body, maxBytes, S)
<1> DEFINE new == Marked(cut)
<1>1. Len(cut.texts) > 0 /\ cut.kind = body.kind
  BY DEF NoMoreThan
<1>2. new \in BodiesOver(S) /\ NoMoreThan(new, cut) /\ Size(new) = Size(cut) + 1
  BY <1>1, MarkedAddsOne
<1> HIDE DEF new
<1>3. NoMoreThan(new, body)
  BY <1>2, NoMoreIsTransitive
<1>4. PublicWords(new) \subseteq PublicWords(body)
  BY <1>2, <1>3, NoMorePublicWords
<1>5. FitsWithMarker(new, maxBytes)
  <2>1. Len(TruncationMarker) = 1
    BY DEF TruncationMarker
  <2>2. new.kind = body.kind
    BY <1>3 DEF NoMoreThan
  <2>3. Size(cut) \in Nat
    <3>1. cut.texts \in Seq(Seq(S))
      BY TextsOfBody
    <3> QED BY <3>1, SizeOfFew
  <2>4. Size(cut) <= maxBytes => Size(new) <= maxBytes + 1
    BY <1>2, <2>3
  <2> QED BY <2>1, <2>2, <2>4 DEF FitsWithMarker
<1>6. Keeps(new, body, maxBytes, S)
  BY <1>2, <1>4, <1>5 DEF Keeps
<1> QED BY <1>6 DEF new

\* The cut in the shim, whatever the kind of the body.
LEMMA TruncateBodyKeeps ==
  ASSUME NEW S, TagAtoms \subseteq S, NEW body \in BodiesOver(S), NEW maxBytes \in Nat,
         body.kind = "text" => Len(body.texts) = 1
  PROVE  Keeps(TruncateBody(body, maxBytes), body, maxBytes, S)
<1> DEFINE n == Len(body.texts)
           new == TruncateBody(body, maxBytes)
<1>1. body.texts \in Seq(Seq(S)) /\ n \in Nat
  BY TextsOfBody
<1>2. Size(body) \in Nat
  BY <1>1, SizeOfFew
<1>3. CASE Size(body) <= maxBytes
  <2>1. new = body
    BY <1>3 DEF TruncateBody
  <2>2. FitsWithMarker(body, maxBytes)
    <3>1. Len(TruncationMarker) = 1
      BY DEF TruncationMarker
    <3>2. Size(body) <= maxBytes + 1
      BY <1>2, <1>3
    <3> QED BY <3>1, <3>2 DEF FitsWithMarker
  <2> HIDE DEF new
  <2> QED BY <2>1, <2>2 DEF Keeps, new
<1>4. CASE ~(Size(body) <= maxBytes)
  <2>1. body.texts # <<>> /\ n > 0 /\ n \in 1..n
    <3>1. n # 0
      <4>1. n = 0 => Size(body) = 0
        BY <1>1, SizeOfFew
      <4> QED BY <1>4, <4>1
    <3>2. body.texts # <<>>
      BY <3>1
    <3> HIDE DEF n
    <3> QED BY <1>1, <3>1, <3>2
  <2>2. body.kind \in {"text", "message", "json", "object"}
    BY DEF BodiesOver
  <2>3. CASE body.kind \in {"text", "json"}
    <3> DEFINE cut == TrimText(body, n, maxBytes)
    <3>1. new = Marked(cut)
      BY <1>4, <2>3 DEF TruncateBody
    <3>2. TextCut(cut, body, n, maxBytes, S)
      BY <2>1, TrimTextKeeps
    <3> HIDE DEF cut, new
    <3>3. body.kind = "json" \/ Size(cut) <= maxBytes
      <4> SUFFICES ASSUME body.kind = "text", Len(cut.texts[n]) = 0 PROVE Size(cut) <= maxBytes
        BY <2>3, <3>2 DEF TextCut
      <4>1. cut \in BodiesOver(S) /\ NoMoreThan(cut, body)
        BY <3>2 DEF TextCut
      <4>2. Len(cut.texts) = 1 /\ n = 1
        BY <4>1 DEF NoMoreThan
      <4>3. cut.texts \in Seq(Seq(S))
        BY <4>1, TextsOfBody
      <4>4. Size(cut) = Len(cut.texts[1])
        BY <4>2, <4>3, SizeOfFew
      <4> QED BY <4>2, <4>4
    <3>4. Keeps(Marked(cut), body, maxBytes, S)
      BY <2>1, <3>2, <3>3, MarkedIsKept DEF TextCut
    <3> QED BY <3>1, <3>4 DEF new
  <2>4. CASE body.kind = "message"
    <3> DEFINE cut == TrimMessage(body, maxBytes)
    <3>1. new = Marked(cut)
      BY <1>4, <2>4 DEF TruncateBody
    <3>2. cut \in BodiesOver(S) /\ NoMoreThan(cut, body) /\ Size(cut) <= maxBytes
      BY TrimMessageKeeps
    <3> HIDE DEF cut, new
    <3>3. Keeps(Marked(cut), body, maxBytes, S)
      BY <2>1, <3>2, MarkedIsKept
    <3> QED BY <3>1, <3>3 DEF new
  <2>5. CASE body.kind = "object"
    BY <1>4, <2>1, <2>5, ObjectIsKept
  <2> QED BY <2>2, <2>3, <2>4, <2>5
<1> QED BY <1>3, <1>4

\* The scrub leaves the public words of a body, and no other.
LEMMA ScrubLeavesPublicWords ==
  ASSUME NEW S, TagAtoms \subseteq S, NEW body \in BodiesOver(S)
  PROVE  BodyWords(Scrub(body)) = PublicWords(body)
<1> DEFINE s == body.texts
           r == [i \in DOMAIN s |-> ScrubPrivateSpans(s[i])]
           n == Len(s)
<1>1. s \in Seq(Seq(S)) /\ n \in Nat /\ DOMAIN s = 1..n /\ \A j \in 1..n : s[j] \in Seq(S)
  BY TextsOfBody
<1>2. Scrub(body).texts = r
  BY DEF Scrub, BodiesOver
<1> HIDE DEF s
<1>3. \A j \in 1..n : ScrubPrivateSpans(s[j]) \in Seq(S)
                      /\ ToSet(ScrubPrivateSpans(s[j])) \ Tags = PublicOf(s[j])
  BY <1>1, ScrubLeavesPublic DEF PublicOf
<1>4. ToSet(r) = {ScrubPrivateSpans(s[j]) : j \in 1..n}
  <2>1. DOMAIN r = 1..n /\ \A j \in 1..n : r[j] = ScrubPrivateSpans(s[j])
    BY <1>1
  <2> HIDE DEF r
  <2> QED BY <2>1 DEF ToSet
<1> HIDE DEF n, r
<1>5. \A t : Words(t, DOMAIN t) = ToSet(t) \ Tags
  BY DEF Words, ToSet
<1>6. BodyWords(Scrub(body)) = UNION {ToSet(t) \ Tags : t \in ToSet(r)}
  BY <1>2, <1>5, Zenon DEF BodyWords
<1>7. {ToSet(t) \ Tags : t \in ToSet(r)} = {PublicOf(s[j]) : j \in 1..n}
  BY <1>3, <1>4, ZenonT(60)
<1>8. PublicWords(body) = UNION {PublicOf(s[j]) : j \in 1..n}
  BY PublicWordsByText DEF s, n
<1> QED BY <1>6, <1>7, <1>8

\* Every word of a body is public, or private.
LEMMA WordsOfBody ==
  ASSUME NEW body
  PROVE  BodyWords(body) = PublicWords(body) \cup PrivateWords(body)
<1>1. ASSUME NEW t
      PROVE  Words(t, DOMAIN t) = Words(t, DOMAIN t \ Private(t)) \cup Words(t, Private(t))
  <2>1. Private(t) \subseteq DOMAIN t
    BY DEF Private
  <2> QED BY <2>1 DEF Words
<1>2. ASSUME NEW x
      PROVE  /\ x \in BodyWords(body) <=> \E t \in ToSet(body.texts) : x \in Words(t, DOMAIN t)
             /\ x \in PublicWords(body) <=> \E t \in ToSet(body.texts) : x \in Words(t, DOMAIN t \ Private(t))
             /\ x \in PrivateWords(body) <=> \E t \in ToSet(body.texts) : x \in Words(t, Private(t))
  BY Zenon DEF BodyWords, PublicWords, PrivateWords
<1>3. \A x : x \in BodyWords(body) <=> x \in PublicWords(body) \/ x \in PrivateWords(body)
  BY <1>1, <1>2
<1> QED BY <1>3

\* The whole path of a body, from the hook to the store.
LEMMA PrivacyIsKept ==
  ASSUME NEW S, TagAtoms \subseteq S, NEW given \in BodiesOver(S), NEW maxBytes \in Nat,
         given.kind = "text" => Len(given.texts) = 1,
         PrivateWords(given) \cap PublicWords(given) = {}
  PROVE  LET sent == TruncateBody(given, maxBytes)
         IN /\ FitsWithMarker(sent, maxBytes)
            /\ HidesPrivateWords(given, Scrub(sent))
            /\ KeepsPublicWords(given, Scrub(sent), maxBytes)
<1> DEFINE sent == TruncateBody(given, maxBytes)
<1>1. Keeps(sent, given, maxBytes, S)
  BY TruncateBodyKeeps
<1>2. Size(given) <= maxBytes => sent = given
  BY DEF TruncateBody
<1> HIDE DEF sent
<1>3. BodyWords(Scrub(sent)) = PublicWords(sent)
  BY <1>1, ScrubLeavesPublicWords DEF Keeps
<1>4. HidesPrivateWords(given, Scrub(sent))
  BY <1>1, <1>3 DEF Keeps, HidesPrivateWords
<1>5. KeepsPublicWords(given, Scrub(sent), maxBytes)
  BY <1>2, <1>3, WordsOfBody DEF KeepsPublicWords
<1> QED BY <1>1, <1>4, <1>5 DEF Keeps, sent

\* The atoms of a body: its words and the atoms of the tags.
Atoms == STRING \cup TagAtoms

LEMMA SequencesOverMore ==
  ASSUME NEW A, NEW B, A \subseteq B
  PROVE  Seq(A) \subseteq Seq(B)
<1> SUFFICES ASSUME NEW s \in Seq(A) PROVE s \in Seq(B)
  OBVIOUS
<1>1. Len(s) \in Nat /\ s = [i \in 1..Len(s) |-> s[i]] /\ \A i \in 1..Len(s) : s[i] \in B
  OBVIOUS
<1> DEFINE n == Len(s)
<1> HIDE DEF n
<1>2. [i \in 1..n |-> s[i]] \in Seq(B)
  BY <1>1 DEF n
<1> QED BY <1>1, <1>2 DEF n

\* A body within the budget arrives with its public words, and no body with a private one.
LEMMA GivenBodies ==
  ASSUME NEW given \in Bodies, NEW maxBytes \in Budgets
  PROVE  LET sent == TruncateBody(given, maxBytes)
         IN /\ FitsWithMarker(sent, maxBytes)
            /\ HidesPrivateWords(given, Scrub(sent))
            /\ KeepsPublicWords(given, Scrub(sent), maxBytes)
<1>1. Seq(Seq(STRING)) \subseteq Seq(Seq(Atoms))
  <2>1. STRING \subseteq Atoms
    BY DEF Atoms
  <2> HIDE DEF Atoms
  <2>2. Seq(STRING) \subseteq Seq(Atoms)
    BY <2>1, SequencesOverMore
  <2> QED BY <2>2, SequencesOverMore
<1>2. given \in BodiesOver(Atoms)
  BY <1>1, BodiesAssumption DEF BodiesOver
<1>3. TagAtoms \subseteq Atoms
  BY DEF Atoms
<1>4. maxBytes \in Nat /\ (given.kind = "text" => Len(given.texts) = 1)
      /\ PrivateWords(given) \cap PublicWords(given) = {}
  BY BodiesAssumption
<1> QED BY <1>2, <1>3, <1>4, PrivacyIsKept

\* A body is first given, then cut, then scrubbed.
BodyInv ==
  part = "body" =>
    /\ work = [at |-> work.at, given |-> work.given, maxBytes |-> work.maxBytes, body |-> work.body]
    /\ work.given \in Bodies /\ work.maxBytes \in Budgets
    /\ \/ work.at = "hook"
       \/ work.at = "sent" /\ work.body = TruncateBody(work.given, work.maxBytes)
       \/ work.at = "stored" /\ work.body = Scrub(TruncateBody(work.given, work.maxBytes))

LEMMA BodyInvAtFirst == Init => BodyInv
<1> SUFFICES ASSUME Init, part = "body" PROVE BodyInv
  BY DEF BodyInv
<1>1. work \in [at : {"hook"}, given : Bodies, maxBytes : Budgets, body : {<<>>}]
  BY Zenon DEF Init, GivenABody, GivenRankings, GivenCandidates, GivenTexts,
        GivenHome, GivenFiles, GivenDatabase, GivenReader, GivenViewer
<1> QED BY <1>1 DEF BodyInv

LEMMA BodyInvKept == BodyInv /\ [Next]_vars => BodyInv'
<1> SUFFICES ASSUME BodyInv, [Next]_vars, part = "body", part' = "body" PROVE BodyInv'
  BY EachPartBySteps DEF BodyInv
<1>1. /\ work = [at |-> work.at, given |-> work.given, maxBytes |-> work.maxBytes, body |-> work.body]
      /\ work.given \in Bodies /\ work.maxBytes \in Budgets
  BY DEF BodyInv
<1>2. CASE HookCuts
  <2>1. work' = [work EXCEPT !.at = "sent", !.body = TruncateBody(work.given, work.maxBytes)]
    BY <1>2 DEF HookCuts, Become
  <2>2. work' = [at |-> "sent", given |-> work.given, maxBytes |-> work.maxBytes,
                 body |-> TruncateBody(work.given, work.maxBytes)]
    BY <1>1, <2>1
  <2> QED BY <1>1, <2>2 DEF BodyInv
<1>3. CASE StageScrubs
  <2>1. work' = [work EXCEPT !.at = "stored", !.body = Scrub(work.body)] /\ work.at = "sent"
    BY <1>1, <1>3 DEF StageScrubs, Become
  <2>2. work.body = TruncateBody(work.given, work.maxBytes)
    BY <2>1 DEF BodyInv
  <2>3. work' = [at |-> "stored", given |-> work.given, maxBytes |-> work.maxBytes,
                 body |-> Scrub(TruncateBody(work.given, work.maxBytes))]
    BY <1>1, <2>1, <2>2
  <2> QED BY <1>1, <2>3 DEF BodyInv
<1>4. CASE work' = work
  BY <1>4 DEF BodyInv
<1> QED BY <1>2, <1>3, <1>4, EachPartBySteps DEF BodyStep

LEMMA BodyInvGives == BodyInv => BodiesArrive
<1> SUFFICES ASSUME BodyInv, part = "body" PROVE BodiesArrive
  BY DEF BodiesArrive, PrivateWordsStayHome, PublicWordsArrive, BodiesFit
<1> DEFINE sent == TruncateBody(work.given, work.maxBytes)
<1>1. /\ FitsWithMarker(sent, work.maxBytes)
      /\ HidesPrivateWords(work.given, Scrub(sent))
      /\ KeepsPublicWords(work.given, Scrub(sent), work.maxBytes)
  BY GivenBodies DEF BodyInv
<1>2. (work.at = "sent" => work.body = sent) /\ (work.at = "stored" => work.body = Scrub(sent))
  BY DEF BodyInv
<1> HIDE DEF sent
<1> QED BY <1>1, <1>2 DEF BodiesArrive, PrivateWordsStayHome, PublicWordsArrive, BodiesFit

(*----------------------------------------------------------------------------*)
(* The agents' XML                                                            *)
(*----------------------------------------------------------------------------*)
TextInv ==
  part = "xml" =>
    /\ work = [kind |-> work.kind, given |-> work.given, out |-> work.out, done |-> work.done]
    /\ \/ work.kind = "batch" /\ work.given \in Batches /\ (work.done => work.out = FrameBatch(work.given))
       \/ /\ work.kind = "records" /\ work.given \in Answers
          /\ work.done => work.out = ParseMemoryXml(FlattenSeq([i \in DOMAIN work.given |-> RecordXml(work.given[i])]))
       \/ /\ work.kind = "prompt" /\ work.given \in Candidates \X Candidates
          /\ work.done => work.out = FrameJudgePrompt(work.given[1], work.given[2])
       \/ /\ work.kind = "merge" /\ work.given \in MergeAnswers
          /\ work.done => work.out = ParseJudgeResponse(MergeXml(work.given))

LEMMA TextInvAtFirst == Init => TextInv
<1> SUFFICES ASSUME Init, part = "xml" PROVE TextInv
  BY DEF TextInv
<1>1. GivenTexts
  BY Zenon DEF Init, GivenABody, GivenRankings, GivenCandidates, GivenTexts,
        GivenHome, GivenFiles, GivenDatabase, GivenReader, GivenViewer
<1>2. CASE work \in [kind : {"batch"}, given : Batches, out : {<<>>}, done : {FALSE}]
  BY <1>2 DEF TextInv
<1>3. CASE work \in [kind : {"records"}, given : Answers, out : {<<>>}, done : {FALSE}]
  BY <1>3 DEF TextInv
<1>4. CASE work \in [kind : {"prompt"}, given : Candidates \X Candidates, out : {<<>>}, done : {FALSE}]
  BY <1>4 DEF TextInv
<1>5. CASE work \in [kind : {"merge"}, given : MergeAnswers, out : {<<>>}, done : {FALSE}]
  BY <1>5 DEF TextInv
<1> QED BY <1>1, <1>2, <1>3, <1>4, <1>5 DEF GivenTexts

LEMMA TextInvKept == TextInv /\ [Next]_vars => TextInv'
<1> SUFFICES ASSUME TextInv, [Next]_vars, part = "xml", part' = "xml" PROVE TextInv'
  BY EachPartBySteps DEF TextInv
<1>1. work = [kind |-> work.kind, given |-> work.given, out |-> work.out, done |-> work.done]
  BY DEF TextInv
<1>2. ASSUME NEW kind, NEW result, Turn(kind, result)
      PROVE  work.kind = kind /\ work' = [kind |-> kind, given |-> work.given, out |-> result, done |-> TRUE]
  <2>1. work' = [work EXCEPT !.out = result, !.done = TRUE] /\ work.kind = kind
    BY <1>2 DEF Turn, Become
  <2> QED BY <1>1, <2>1
<1>3. CASE CompressorIsAsked
  <2>1. /\ work.kind = "batch"
        /\ work' = [kind |-> "batch", given |-> work.given, out |-> FrameBatch(work.given), done |-> TRUE]
    BY <1>2, <1>3 DEF CompressorIsAsked
  <2>2. work.given \in Batches
    BY <2>1 DEF TextInv
  <2> QED BY <2>1, <2>2 DEF TextInv
<1>4. CASE CompressorAnswers
  <2> DEFINE read == ParseMemoryXml(FlattenSeq([i \in DOMAIN work.given |-> RecordXml(work.given[i])]))
  <2>1. work.kind = "records" /\ work' = [kind |-> "records", given |-> work.given, out |-> read, done |-> TRUE]
    BY <1>2, <1>4 DEF CompressorAnswers
  <2>2. work.given \in Answers
    BY <2>1 DEF TextInv
  <2>3. read = ParseMemoryXml(FlattenSeq([i \in DOMAIN work'.given |-> RecordXml(work'.given[i])]))
    BY <2>1
  <2> HIDE DEF read
  <2> QED BY <2>1, <2>2, <2>3 DEF TextInv
<1>5. CASE JudgeIsAsked
  <2>1. /\ work.kind = "prompt"
        /\ work' = [kind |-> "prompt", given |-> work.given,
                    out |-> FrameJudgePrompt(work.given[1], work.given[2]), done |-> TRUE]
    BY <1>2, <1>5 DEF JudgeIsAsked
  <2>2. work.given \in Candidates \X Candidates
    BY <2>1 DEF TextInv
  <2> QED BY <2>1, <2>2 DEF TextInv
<1>6. CASE JudgeAnswers
  <2>1. /\ work.kind = "merge"
        /\ work' = [kind |-> "merge", given |-> work.given,
                    out |-> ParseJudgeResponse(MergeXml(work.given)), done |-> TRUE]
    BY <1>2, <1>6 DEF JudgeAnswers
  <2>2. work.given \in MergeAnswers
    BY <2>1 DEF TextInv
  <2> QED BY <2>1, <2>2 DEF TextInv
<1>7. CASE work' = work
  BY <1>7 DEF TextInv
<1> QED BY <1>3, <1>4, <1>5, <1>6, <1>7, EachPartBySteps DEF TextStep

LEMMA WordsAreTexts == Seq(STRING) \subseteq Texts /\ Seq(Seq(STRING)) \subseteq Seq(Texts)
<1>1. STRING \subseteq Signs
  BY DEF Signs
<1>2. Seq(STRING) \subseteq Texts
  BY <1>1, SeqMonotonic DEF Texts
<1> DEFINE W == Seq(STRING)
<1>3. W \subseteq Texts
  BY <1>2
<1> HIDE DEF W
<1>4. Seq(W) \subseteq Seq(Texts)
  BY <1>3, SeqMonotonic
<1> QED BY <1>2, <1>4 DEF W

\* What the constants hold is made of texts.
LEMMA GivenAreTexts ==
  /\ Batches \subseteq Seq([input : Texts, output : Texts])
  /\ Answers \subseteq Seq([type : Signs \ {"<"}, title : Texts, summary : Texts])
  /\ Candidates \subseteq Seq([title : Texts, facts : Seq(Texts)])
  /\ MergeAnswers \subseteq [ids : Seq(Texts), title : Texts, summary : Texts, facts : Seq(Texts)]
<1> DEFINE W == Seq(STRING)
           V == Seq(W)
<1>1. W \subseteq Texts /\ V \subseteq Seq(Texts) /\ STRING \ {"<"} \subseteq Signs \ {"<"}
  BY WordsAreTexts DEF Signs
<1>2. /\ Batches \subseteq Seq([input : W, output : W])
      /\ Answers \subseteq Seq([type : STRING \ {"<"}, title : W, summary : W])
      /\ Candidates \subseteq Seq([title : W, facts : V])
      /\ MergeAnswers \subseteq [ids : V, title : W, summary : W, facts : V]
  BY TextsAssumption
<1> HIDE DEF W, V
<1>3. \A A, B : A \subseteq B => Seq(A) \subseteq Seq(B)
  BY SeqMonotonic
<1>4. Batches \subseteq Seq([input : Texts, output : Texts])
  <2> DEFINE A == [input : W, output : W]
             B == [input : Texts, output : Texts]
  <2>1. A \subseteq B
    BY <1>1
  <2>2. Batches \subseteq Seq(A)
    BY <1>2
  <2> HIDE DEF A, B
  <2>3. Batches \subseteq Seq(B)
    BY <1>3, <2>1, <2>2
  <2> QED BY <2>3 DEF B
<1>5. Answers \subseteq Seq([type : Signs \ {"<"}, title : Texts, summary : Texts])
  <2> DEFINE A == [type : STRING \ {"<"}, title : W, summary : W]
             B == [type : Signs \ {"<"}, title : Texts, summary : Texts]
  <2>1. A \subseteq B
    BY <1>1
  <2>2. Answers \subseteq Seq(A)
    BY <1>2
  <2> HIDE DEF A, B
  <2>3. Answers \subseteq Seq(B)
    BY <1>3, <2>1, <2>2
  <2> QED BY <2>3 DEF B
<1>6. Candidates \subseteq Seq([title : Texts, facts : Seq(Texts)])
  <2> DEFINE A == [title : W, facts : V]
             B == [title : Texts, facts : Seq(Texts)]
  <2>1. A \subseteq B
    BY <1>1
  <2>2. Candidates \subseteq Seq(A)
    BY <1>2
  <2> HIDE DEF A, B
  <2>3. Candidates \subseteq Seq(B)
    BY <1>3, <2>1, <2>2
  <2> QED BY <2>3 DEF B
<1>7. MergeAnswers \subseteq [ids : Seq(Texts), title : Texts, summary : Texts, facts : Seq(Texts)]
  BY <1>1, <1>2
<1> QED BY <1>4, <1>5, <1>6, <1>7

LEMMA TextInvGives == TextInv => XmlRoundTrips
<1> SUFFICES ASSUME TextInv, part = "xml", work.done PROVE XmlRoundTrips
  BY Zenon DEF XmlRoundTrips, EventsAreFramed, PromptsAreFramed, RecordsAreRead, MergesAreRead, Turned
<1>1. ASSUME work.kind = "batch" PROVE EventsStaySeparate(work.given, work.out)
  <2>1. work.given \in Batches /\ work.out = FrameBatch(work.given)
    BY <1>1 DEF TextInv
  <2>2. work.given \in Seq([input : Texts, output : Texts])
    BY <2>1, GivenAreTexts
  <2>3. EventsStaySeparate(work.given, FrameBatch(work.given))
    BY <2>2, EventsComeThrough
  <2> QED BY <2>1, <2>3
<1>2. ASSUME work.kind = "prompt" PROVE PromptIsComplete(work.given[1], work.given[2], work.out)
  <2>1. work.given \in Candidates \X Candidates /\ work.out = FrameJudgePrompt(work.given[1], work.given[2])
    BY <1>2 DEF TextInv
  <2> DEFINE m == work.given[1]
             n == work.given[2]
  <2>2. m \in Candidates /\ n \in Candidates
    BY <2>1
  <2> HIDE DEF m, n
  <2>3. m \in Seq([title : Texts, facts : Seq(Texts)]) /\ n \in Seq([title : Texts, facts : Seq(Texts)])
    BY <2>2, GivenAreTexts
  <2>4. PromptIsComplete(m, n, FrameJudgePrompt(m, n))
    BY <2>3, PromptsComeThrough
  <2> QED BY <2>1, <2>4 DEF m, n
<1>3. ASSUME work.kind = "records" PROVE RecordsComeThrough(work.given, work.out)
  <2> DEFINE given == work.given
  <2>1. given \in Answers
        /\ work.out = ParseMemoryXml(FlattenSeq([i \in DOMAIN given |-> RecordXml(given[i])]))
    BY <1>3 DEF TextInv
  <2>2. given \in Seq([type : Signs \ {"<"}, title : Texts, summary : Texts])
    BY <2>1, GivenAreTexts
  <2> HIDE DEF given
  <2>3. RecordsComeThrough(given, ParseMemoryXml(FlattenSeq([i \in DOMAIN given |-> RecordXml(given[i])])))
    BY <2>2, RecordsAreTaken
  <2> QED BY <2>1, <2>3 DEF given
<1>4. ASSUME work.kind = "merge" PROVE MergesAreUnderstood(work.given, work.out)
  <2>1. work.given \in MergeAnswers /\ work.out = ParseJudgeResponse(MergeXml(work.given))
    BY <1>4 DEF TextInv
  <2>2. work.given \in [ids : Seq(Texts), title : Texts, summary : Texts, facts : Seq(Texts)]
    BY <2>1, GivenAreTexts
  <2>3. MergesAreUnderstood(work.given, ParseJudgeResponse(MergeXml(work.given)))
    BY <2>2, MergesComeThrough
  <2> QED BY <2>1, <2>3
<1> QED BY <1>1, <1>2, <1>3, <1>4 DEF XmlRoundTrips, EventsAreFramed, PromptsAreFramed, RecordsAreRead,
        MergesAreRead, Turned

(*----------------------------------------------------------------------------*)
(* The theorems                                                               *)
(*----------------------------------------------------------------------------*)
\* Whatever the cut of the hook takes away, and wherever it falls, the collector's scrub lets no
\* word of a private span into the store, nested, unclosed or split; a body that fits loses no
\* other word, and one that does not is cut to the budget and the marker (truncateBody,
\* scrubPrivateSpans).
THEOREM BodiesAreScrubbed == Spec => []BodiesArrive
<1>1. Init => BodyInv
  BY BodyInvAtFirst
<1>2. BodyInv /\ [Next]_vars => BodyInv'
  BY BodyInvKept
<1>3. BodyInv => BodiesArrive
  BY BodyInvGives
<1> QED BY <1>1, <1>2, <1>3, PTL DEF Spec

\* Whatever events, candidates and records say, tags and entities included, none of it is read as
\* a part of the frame. What the agents are given is what it was; what they answer is read as it
\* was without the white space around it, its titles and summaries cut to their limits
\* (escapeXml, frameEvent, frameBatch, parseMemoryXml, frameJudgePrompt, parseJudgeResponse).
THEOREM TextsComeThrough == Spec => []XmlRoundTrips
<1>1. Init => TextInv
  BY TextInvAtFirst
<1>2. TextInv /\ [Next]_vars => TextInv'
  BY TextInvKept
<1>3. TextInv => XmlRoundTrips
  BY TextInvGives
<1> QED BY <1>1, <1>2, <1>3, PTL DEF Spec

\* Daemons of different versions take turns with one database and die in the middle of
\* migrations: a daemon at work finds the columns its statements need, and the next
\* migration can always be applied (runMigrations).
THEOREM SchemasEvolve == Spec => []SchemaEvolves
<1>1. Init => SchemaInv
  BY SchemaInvAtFirst
<1>2. SchemaInv /\ [Next]_vars => SchemaInv'
  BY SchemaInvKept
<1>3. SchemaInv => SchemaEvolves
  BY SchemaInvGives
<1> QED BY <1>1, <1>2, <1>3, PTL DEF Spec

\* Hooks and installer find the same project for every directory. Init and uninstall, in any
\* order and broken off in any step, leave files of ours only where an init has run since; and
\* keep the servers the user put into mcp.json, but where that file was being written when they
\* broke off, or could not be read or written (resolveProjectRoot, cmdInit, cmdUninstall).
THEOREM ProjectsHoldApart == Spec => []ProjectsAreRespected
<1>1. Init => ProjectInv
  BY ProjectInvAtFirst
<1>2. ProjectInv /\ [Next]_vars => ProjectInv'
  BY ProjectInvKept
<1>3. Init => FilesInv
  BY FilesInvAtFirst
<1>4. FilesInv /\ [Next]_vars => FilesInv'
  BY FilesInvKept
<1>5. ProjectInv /\ FilesInv => ProjectsAreRespected
  BY ProjectInvGives, FilesInvGives DEF ProjectsAreRespected
<1> QED BY <1>1, <1>2, <1>3, <1>4, <1>5, PTL DEF Spec

\* At every pair of the scan two candidates have one root exactly when a chain of similar
\* pairs seen so far links them, and at its end each cluster is a chain with all its likes,
\* each candidate in one (findRoot, union, cluster).
THEOREM ClusteringIsSingleLinkage == Spec => []ClusteringIsRight
<1>1. Init => ClusterInv
  BY ClusterInvAtFirst
<1>2. ClusterInv /\ [Next]_vars => ClusterInv'
  BY ClusterInvKept
<1>3. ClusterInv => ClusteringIsRight
  BY ClusterInvGives
<1> QED BY <1>1, <1>2, <1>3, PTL DEF Spec

\* What both searches place before another record comes out before it, and of two records
\* with one score the newer comes first: the cut of the fusion does not undo the order of
\* the join (rrfFuse, the join of hybridSearch).
THEOREM SearchKeepsOrder == Spec => []SearchOrderIsRight
<1>1. Init => SearchInv
  BY SearchInvAtFirst
<1>2. SearchInv /\ [Next]_vars => SearchInv'
  BY SearchInvKept
<1>3. SearchInv => SearchOrderIsRight
  BY SearchInvGives
<1> QED BY <1>1, <1>2, <1>3, PTL DEF Spec

\* A client that pages through memories while others arrive sees all that were there when it
\* began, and the statistics never count a project they do not list (GET /v1/memories,
\* GET /v1/stats).
THEOREM ReadersMissNothing == Spec => []ReadersAreServed
<1>1. Init => PagesInv
  BY PagesInvAtFirst
<1>2. PagesInv /\ [Next]_vars => PagesInv'
  BY PagesInvKept
<1>3. Init => ViewInv
  BY ViewInvAtFirst
<1>4. ViewInv /\ [Next]_vars => ViewInv'
  BY ViewInvKept
<1>5. PagesInv /\ ViewInv => ReadersAreServed
  BY PagesInvGives, ViewInvGives DEF ReadersAreServed
<1> QED BY <1>1, <1>2, <1>3, <1>4, <1>5, PTL DEF Spec

\* Polls, clicks and refreshes in any order: a click on a graph that is not stale opens the
\* record or the concept drawn there, and no link of the graph joins two projects.
THEOREM ViewShowsTheTruth == Spec => []ViewIsTrue
<1>1. Init => ViewInv
  BY ViewInvAtFirst
<1>2. ViewInv /\ [Next]_vars => ViewInv'
  BY ViewInvKept
<1>3. ViewInv => ViewIsTrue
  BY ViewInvGives
<1> QED BY <1>1, <1>2, <1>3, PTL DEF Spec
=============================================================================
