------------------------------ MODULE AgentFiles -----------------------------
(* The files "kiro-learn init" writes for the agents and the IDE, and what    *)
(* "uninstall" takes away again (installer/index.ts).  They lie beside the    *)
(* user's own files, and mcp.json holds the user's own servers.  The daemon   *)
(* and the install directory's inside are Daemon's; here the directory only   *)
(* is or is not there.  Both commands go step by step, and may throw or be    *)
(* killed in any step: a file that was being written is then cut short, since *)
(* writeFileSync empties it first.                                            *)
(*                                                                            *)
(* A system of files is a record: installed; whether the agent and the        *)
(* workers are in the home directory; for every project whether its agent is  *)
(* there, its hook files and its mcp.json, which is none, broken (not JSON)   *)
(* or an object with or without mcpServers.                                   *)
EXTENDS Naturals, Sequences, FiniteSets

CONSTANT Projects \* directories a user may run the commands in

Absent == "absent"     \* no mcpServers
Malformed == "text"    \* mcpServers that is no object
Mcp(state, servers, other) == [state |-> state, servers |-> servers, other |-> other]
NoMcp == Mcp("none", {}, FALSE)
Broken == Mcp("broken", {}, FALSE)
McpFiles == {NoMcp, Broken} \cup
            {Mcp(s, {}, o) : s \in {Absent, Malformed}, o \in BOOLEAN} \cup
            {Mcp("object", v, o) : v \in SUBSET {"ours", "users"}, o \in BOOLEAN}

\* IDE_HOOK_FILES, and how far a loop over them may have come.
HookFiles == {"prompt", "stop", "tool"}
FirstHookFiles == {{}, {"prompt"}, {"prompt", "stop"}, HookFiles}

Clean == [installed |-> FALSE, agent |-> FALSE, workers |-> FALSE,
          project |-> [p \in Projects |-> [agent |-> FALSE, hooks |-> {}, mcp |-> NoMcp]]]

\* A write of mcp.json that is cut short.
Truncated(files, p) == [files EXCEPT !.project[p].mcp = Broken]

\* ------------------------------------------------------------------- init ---
\* writeMcpConfig: what does not parse is replaced, a malformed list of
\* servers too; else only our entry changes.
WriteMcpConfig(mcp) ==
  IF mcp.state \in {"none", "broken"} THEN Mcp("object", {"ours"}, FALSE)
  ELSE Mcp("object", mcp.servers \cup {"ours"}, mcp.other)

\* The steps of cmdInit that touch these files.  writeKiroLearnAgent deletes
\* the agent, lets kiro-cli seed it, which may fail, and writes it.
InitNames == {"layout", "delete", "seed", "write", "deleteHere", "seedHere", "writeHere",
              "workers", "hooks", "mcp"}
InitSteps(p) ==
  <<"layout", "delete", "seed", "write">> \o
  (IF p \in Projects THEN <<"deleteHere", "seedHere", "writeHere">> ELSE <<>>) \o
  <<"workers">> \o (IF p \in Projects THEN <<"hooks", "mcp">> ELSE <<>>)

InitStep(files, p, step, seeds) ==
  CASE step = "layout" -> [files EXCEPT !.installed = TRUE]
    [] step = "delete" -> [files EXCEPT !.agent = FALSE]
    [] step = "seed" -> [files EXCEPT !.agent = seeds]
    [] step = "write" -> [files EXCEPT !.agent = TRUE]
    [] step = "deleteHere" -> [files EXCEPT !.project[p].agent = FALSE]
    [] step = "seedHere" -> [files EXCEPT !.project[p].agent = seeds]
    [] step = "writeHere" -> [files EXCEPT !.project[p].agent = TRUE]
    [] step = "workers" -> [files EXCEPT !.workers = TRUE]
    [] step = "hooks" -> [files EXCEPT !.project[p].hooks = HookFiles]
    [] step = "mcp" -> [files EXCEPT !.project[p].mcp = WriteMcpConfig(@)]

\* What a step that is not completed may leave: all or nothing of one file, some of several.
InitCutShort(files, p, step) ==
  {files, InitStep(files, p, step, TRUE)} \cup
  (IF step = "hooks" THEN {[files EXCEPT !.project[p].hooks = @ \cup some] : some \in FirstHookFiles} ELSE {}) \cup
  (IF step = "mcp" THEN {Truncated(files, p)} ELSE {})

\* A fresh init that throws takes its directory away, and nothing else.
InitThrows(files, upgrade) == [files EXCEPT !.installed = upgrade]

\* -------------------------------------------------------------- uninstall ---
\* Our entry goes, with the list and the file when nothing is left of them.
RemoveMcpEntry(mcp) ==
  LET servers == mcp.servers \ {"ours"}
      state == IF mcp.state = "object" /\ servers # {} THEN "object" ELSE Absent
  IN CASE mcp.state \in {"none", "broken"} -> NoMcp
       [] state = Absent /\ ~mcp.other -> NoMcp
       [] OTHER -> Mcp(state, servers, mcp.other)

\* Mutated form: the tool hook is not on the list of files.
RemoveSomeHooks(hooks) == hooks \ {"prompt", "stop"}
RemoveIdeHookFiles(hooks) == hooks \ HookFiles

\* The steps of cmdUninstall in the project p, or outside any.
UninstallNames == {"agentGone", "workersGone", "agentHereGone", "hooksGone", "entryGone", "directoryGone"}
UninstallSteps(p) ==
  IF p \in Projects
  THEN <<"agentGone", "workersGone", "agentHereGone", "hooksGone", "entryGone", "directoryGone">>
  ELSE <<"agentGone", "workersGone", "directoryGone">>

\* keepData leaves the directory.
UninstallStep(files, p, step, keepData) ==
  CASE step = "agentGone" -> [files EXCEPT !.agent = FALSE]
    [] step = "workersGone" -> [files EXCEPT !.workers = FALSE]
    [] step = "agentHereGone" -> [files EXCEPT !.project[p].agent = FALSE]
    [] step = "hooksGone" -> [files EXCEPT !.project[p].hooks = RemoveIdeHookFiles(@)]
    [] step = "entryGone" -> [files EXCEPT !.project[p].mcp = RemoveMcpEntry(@)]
    [] step = "directoryGone" -> [files EXCEPT !.installed = keepData]

UninstallCutShort(files, p, step) ==
  {files} \cup
  (IF step = "hooksGone" THEN {[files EXCEPT !.project[p].hooks = @ \ some] : some \in FirstHookFiles} ELSE {}) \cup
  (IF step = "entryGone" /\ RemoveMcpEntry(files.project[p].mcp) # NoMcp THEN {Truncated(files, p)} ELSE {})

\* mcp.json cannot be read, or in uninstall not be written: init starts afresh,
\* uninstall takes any error for one of parsing and removes the file.
McpGivenUp(files, p, step) ==
  [files EXCEPT !.project[p].mcp = IF step = "mcp" THEN WriteMcpConfig(NoMcp) ELSE NoMcp]

\* ------------------------------------------------------------- properties ---
HasOurs(project) == project.agent \/ project.hooks # {} \/ "ours" \in project.mcp.servers
=============================================================================
