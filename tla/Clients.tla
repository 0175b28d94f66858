------------------------------- MODULE Clients -------------------------------
(***************************************************************************)
(* The processes that talk to the collector: hooks of the two shims, which *)
(* live for one event, and the tools of the MCP server.                    *)
(*                                                                         *)
(*   shim/shared/index.ts      session file, buildEvent, postEvent         *)
(*   shim/cli-agent/index.ts   handleSpawn, handlePrompt, ...              *)
(*   shim/ide-hook/index.ts    handlePrompt, handleToolUse, handleStop     *)
(*   mcp/tools.ts, client.ts   the tools, postMemory and searchMemories    *)
(*                                                                         *)
(* The hooks of one directory share a file in /tmp that holds the id of    *)
(* the session. A write truncates before it writes, so that a reader may   *)
(* find nothing. The collector is here only what a client sees of it: it   *)
(* may be down, slow, or refuse; it may store what nobody waits for.       *)
(***************************************************************************)
EXTENDS Naturals, FiniteSets

CONSTANTS
  Hooks,         \* hook processes of one directory, one event each
  Calls,         \* tool calls an agent wants done
  MaxAttempts,   \* bound: times the agent tries one call
  MaxAccidents,  \* bound: deaths of the collector and losses of the file
  NoId           \* no session id: the file is missing, empty or damaged

ASSUME ClientsAssumption ==
  /\ NoId \notin Nat
  /\ MaxAttempts \in Nat \ {0}
  /\ MaxAccidents \in Nat
  /\ IsFiniteSet(Hooks)
  /\ Hooks \cap (Calls \X (1 .. MaxAttempts)) = {}

VARIABLES
  sessionFile,  \* the id a reader finds, or NoId
  ids,          \* how many ids were drawn
  hook,         \* each hook process
  call,         \* each tool call
  request,      \* what the collector has made of each request
  up,           \* the collector listens
  accidents,    \* count for the bound
  \* history, read by properties only
  era,          \* how many sessions began: spawns and losses of the file
  exposed       \* a hook read or began to write while another was writing

vars == <<sessionFile, ids, hook, call, request, up, accidents, era, exposed>>

\* save_observation and save_session_summary differ in the record they build.
Tools == {"search", "save"}
Attempts == 1 .. MaxAttempts
Requests == Hooks \cup (Calls \X Attempts)

ClientsTypeOK ==
  /\ sessionFile \in 1 .. ids \cup {NoId}
  /\ ids \in 0 .. Cardinality(Hooks)
  /\ hook \in [Hooks ->
       [at : {"unborn", "read", "truncate", "write", "post", "wait", "exited"},
        session : 1 .. ids \cup {NoId}, era : 0 .. era]]
  /\ call \in [Calls ->
       [at : {"idle", "post", "wait", "done", "failed"},
        tool : Tools, attempt : 0 .. MaxAttempts, unanswered : 0 .. MaxAttempts]]
  /\ request \in [Requests -> {"unsent", "sent", "stored", "served", "refused", "lost"}]
  /\ \A c \in Calls :
       call[c].at = "wait" => request[<<c, call[c].attempt>>] # "unsent"
  /\ up \in BOOLEAN
  /\ accidents \in 0 .. MaxAccidents
  /\ era \in Nat
  /\ exposed \in BOOLEAN

-----------------------------------------------------------------------------
(* The session file. *)

Writing == {h \in Hooks : hook[h].at \in {"truncate", "write"}}

\* A new id, drawn by h for the given session, to be written.
Draws(h, session) ==
  /\ ids' = ids + 1
  /\ hook' = [hook EXCEPT ![h] =
       [at |-> "truncate", session |-> ids + 1, era |-> session]]
  /\ exposed' = (exposed \/ Writing # {})

\* agentSpawn begins a session: createSession.
Spawns(h) ==
  /\ era' = era + 1
  /\ Draws(h, era + 1)

\* The other hooks look for a session; one whose input cannot be parsed, or is no
\* object, ends at once.
Goes(h, next) ==
  /\ hook' = [hook EXCEPT ![h].at = next]
  /\ UNCHANGED <<ids, era, exposed>>

CliRuns(h) ==
  /\ hook[h].at = "unborn"
  /\ Spawns(h) \/ Goes(h, "read") \/ Goes(h, "exited")
  /\ UNCHANGED <<sessionFile, call, request, up, accidents>>

\* No hook of the IDE begins a session, and its stop without a text ends at once; a
\* tool use that cannot be parsed is sent all the same.
IdeRuns(h) ==
  /\ hook[h].at = "unborn"
  /\ Goes(h, "read") \/ Goes(h, "exited")
  /\ UNCHANGED <<sessionFile, call, request, up, accidents>>

\* Mutated form: the id that a hook draws is not written.
KeepsItToItself(h) ==
  /\ ids' = ids + 1
  /\ hook' = [hook EXCEPT ![h].at = "post", ![h].session = ids + 1, ![h].era = era]
  /\ UNCHANGED exposed

\* readSession found no id: the one it draws instead is for the others too.
FallsBack(h) == Draws(h, era)

\* readSession.
ReadsSession(h) ==
  /\ hook[h].at = "read"
  /\ \/ /\ sessionFile # NoId
        /\ hook' = [hook EXCEPT ![h].at = "post", ![h].session = sessionFile, ![h].era = era]
        /\ exposed' = (exposed \/ Writing # {})
        /\ UNCHANGED ids
     \/ /\ sessionFile = NoId
        /\ FallsBack(h)
  /\ UNCHANGED <<sessionFile, era>>

Truncates(h) ==
  /\ hook[h].at = "truncate"
  /\ sessionFile' = NoId
  /\ hook' = [hook EXCEPT ![h].at = "write"]
  /\ UNCHANGED <<ids, era, exposed>>

WritesSession(h) ==
  /\ hook[h].at = "write"
  /\ sessionFile' = hook[h].session
  /\ hook' = [hook EXCEPT ![h].at = "post"]
  /\ UNCHANGED <<ids, era, exposed>>

SessionStep(h) ==
  /\ ReadsSession(h) \/ Truncates(h) \/ WritesSession(h)
  /\ UNCHANGED <<call, request, up, accidents>>

-----------------------------------------------------------------------------
(* One request of a client. *)

\* The request goes out; a collector that is down refuses the connection.
Sends(r) ==
  request' = [request EXCEPT ![r] = IF up THEN "sent" ELSE "lost"]

\* An answer is there: stored, served, refused by a status, or a dead connection.
Answered(r) == request[r] \in {"stored", "served", "refused", "lost"}

\* Mutated form: the request has no timeout.
WaitsForAnswer(r) == Answered(r)

\* The client stops waiting: for an answer, or because its timeout aborts.
StopsWaiting(r) == request[r] # "unsent"

\* A hook posts one event and never again; whatever comes back, it exits, and what
\* the collector still makes of the event concerns no client. Printing the context
\* of an answer is left out.
HookPosts(h) ==
  /\ hook[h].at = "post"
  /\ Sends(h)
  /\ hook' = [hook EXCEPT ![h].at = "wait"]
  /\ UNCHANGED <<sessionFile, ids, call, up, accidents, era, exposed>>

HookExits(h) ==
  /\ hook[h].at = "wait"
  /\ StopsWaiting(h)
  /\ hook' = [hook EXCEPT ![h].at = "exited"]
  /\ request' = [request EXCEPT ![h] = "unsent"]
  /\ UNCHANGED <<sessionFile, ids, call, up, accidents, era, exposed>>

-----------------------------------------------------------------------------
(* The tools. *)

\* The agent asks for a tool, or asks again after an error. Arguments that do not
\* pass are an error at once.
Asked(c, tool) ==
  /\ call[c].at \in {"idle", "failed"}
  /\ call[c].attempt < MaxAttempts
  /\ call[c].at = "failed" => tool = call[c].tool
  /\ \E valid \in BOOLEAN :
       call' = [call EXCEPT ![c].at = IF valid THEN "post" ELSE "failed",
                            ![c].tool = tool, ![c].attempt = @ + 1]
  /\ UNCHANGED <<sessionFile, ids, hook, request, up, accidents, era, exposed>>

AsksSearch(c) == Asked(c, "search")
\* The record id drawn here is new each time.
AsksSave(c) == Asked(c, "save")

\* The request of the current attempt, and the record id in it.
Current(c) == <<c, call[c].attempt>>

ToolPosts(c) ==
  /\ call[c].at = "post"
  /\ Sends(Current(c))
  /\ call' = [call EXCEPT ![c].at = "wait"]
  /\ UNCHANGED <<sessionFile, ids, hook, up, accidents, era, exposed>>

\* Mutated form: a response, whatever it says.
AnyAnswer(c) == Answered(Current(c))

\* postMemory, searchMemories: a 2xx with the fields they look for.
GoodSave(c) == request[Current(c)] = "stored"
GoodSearch(c) == request[Current(c)] = "served"
GoodAnswer(c) == GoodSave(c) \/ GoodSearch(c)

ToolSucceeds(c) ==
  /\ call[c].at = "wait"
  /\ GoodAnswer(c)
  /\ call' = [call EXCEPT ![c].at = "done"]
  /\ UNCHANGED <<sessionFile, ids, hook, request, up, accidents, era, exposed>>

\* An error of the collector or the connection, or the timeout.
ToolFails(c) ==
  /\ call[c].at = "wait"
  /\ StopsWaiting(Current(c))
  /\ \/ Answered(Current(c)) /\ ~GoodAnswer(c) /\ call' = [call EXCEPT ![c].at = "failed"]
     \/ request[Current(c)] \in {"sent", "stored", "served"}
        /\ call' = [call EXCEPT ![c].at = "failed", ![c].unanswered = @ + 1]
  /\ UNCHANGED <<sessionFile, ids, hook, request, up, accidents, era, exposed>>

-----------------------------------------------------------------------------
(* The collector, as far as a client can tell. *)

IsSearch(r) == r \notin Hooks /\ call[r[1]].tool = "search"

\* It handles a request at any time, whether or not the client still waits. To a
\* hook a refusal is an answer like another.
CollectorHandles(r) ==
  /\ up
  /\ request[r] = "sent"
  /\ \/ request' = [request EXCEPT ![r] = IF IsSearch(r) THEN "served" ELSE "stored"]
     \/ r \notin Hooks /\ request' = [request EXCEPT ![r] = "refused"]
  /\ UNCHANGED <<sessionFile, ids, hook, call, up, accidents, era, exposed>>

\* It dies with requests at hand, stored or not; their connections break, unless
\* the answer was on its way.
CollectorDies ==
  /\ up
  /\ accidents < MaxAccidents
  /\ accidents' = accidents + 1
  /\ up' = FALSE
  /\ request' = [r \in Requests |-> IF request[r] = "sent" THEN "lost" ELSE request[r]]
  /\ UNCHANGED <<sessionFile, ids, hook, call, era, exposed>>

CollectorStarts ==
  /\ ~up
  /\ up' = TRUE
  /\ UNCHANGED <<sessionFile, ids, hook, call, request, accidents, era, exposed>>

\* /tmp is cleaned, or the file is damaged: readers take another id.
FileLost ==
  /\ accidents < MaxAccidents
  /\ sessionFile # NoId
  /\ accidents' = accidents + 1
  /\ sessionFile' = NoId
  /\ era' = era + 1
  /\ exposed' = (exposed \/ Writing # {})
  /\ UNCHANGED <<ids, hook, call, request, up>>

-----------------------------------------------------------------------------
Init ==
  /\ sessionFile = NoId
  /\ ids = 0
  /\ hook = [h \in Hooks |->
       [at |-> "unborn", session |-> NoId, era |-> 0]]
  /\ call = [c \in Calls |->
       [at |-> "idle", tool |-> "search", attempt |-> 0, unanswered |-> 0]]
  /\ request = [r \in Requests |-> "unsent"]
  /\ up \in BOOLEAN
  /\ accidents = 0
  /\ era = 0
  /\ exposed = FALSE

HookStep(h) == SessionStep(h) \/ HookPosts(h) \/ HookExits(h)
ToolStep(c) == ToolPosts(c) \/ ToolSucceeds(c) \/ ToolFails(c)

Next ==
  \/ \E h \in Hooks : CliRuns(h) \/ IdeRuns(h) \/ HookStep(h)
  \/ \E c \in Calls : AsksSearch(c) \/ AsksSave(c) \/ ToolStep(c)
  \/ \E r \in Requests : CollectorHandles(r)
  \/ CollectorDies \/ CollectorStarts \/ FileLost

Spec == Init /\ [][Next]_vars

\* Fairness. Clients run and their timeouts fire; the collector owes nothing.
FairSpec ==
  /\ Spec
  /\ \A h \in Hooks : WF_vars(HookStep(h))
  /\ \A c \in Calls : WF_vars(ToolStep(c))

-----------------------------------------------------------------------------
(* Properties. *)

\* Events are grouped by session id: the hooks between two spawns (or losses of
\* the file) agree on it, also in the IDE, where no hook creates the session,
\* unless one of them ran while another was between truncate and write.
SessionsAgree ==
  ~exposed =>
    \A g, h \in Hooks :
      NoId \notin {hook[g].session, hook[h].session} /\ hook[g].era = hook[h].era
        => hook[g].session = hook[h].session

StoredFor(c) == {n \in Attempts : request[<<c, n>>] = "stored"}

\* A tool that reports success has stored exactly the record it names.
SavedIsStored ==
  \A c \in Calls :
    call[c].at = "done" /\ call[c].tool # "search"
      => call[c].attempt \in StoredFor(c)

\* The record id is new in each attempt, so the collector cannot tell a retry:
\* each surplus record is owed to an attempt that was given up unanswered.
DuplicatesAreUnanswered ==
  \A c \in Calls : Cardinality(StoredFor(c)) <= call[c].unanswered + 1

\* What a tool tells its agent is true of the store, whatever attempts were
\* refused, lost, or answered too late.
SavesAreAccounted == ClientsTypeOK /\ SavedIsStored /\ DuplicatesAreUnanswered

\* A hook never blocks the agent (docs/architecture/overview.mdx): it exits, and a
\* tool answers, whatever the collector does.
ClientsReturn ==
  /\ \A h \in Hooks : hook[h].at # "unborn" ~> hook[h].at = "exited"
  /\ \A c \in Calls : call[c].at \in {"post", "wait"} ~> call[c].at \in {"done", "failed"}
=============================================================================
