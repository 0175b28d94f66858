------------------------------- MODULE Daemon -------------------------------
(***************************************************************************)
(* The life of the collector process: the commands of the kiro-learn CLI,  *)
(* run by operators who do not know of each other, the file that holds the *)
(* daemon's pid, the installed files, and the processes themselves.        *)
(*                                                                         *)
(*   installer/index.ts   cmdInit, cmdStart, cmdStop, cmdStatus,           *)
(*                        cmdUninstall, startDaemon, stopDaemon,           *)
(*                        getDaemonPid, the bin/collector wrapper          *)
(*   collector/index.ts   startCollector: database first, port last; close *)
(*                                                                         *)
(* A command is a sequence of system calls: the model lets other processes *)
(* move between any two of them that touch what several commands share.    *)
(* Which files a step writes is abstracted to what commands ask of them.   *)
(***************************************************************************)
EXTENDS Naturals, FiniteSets

CONSTANTS
  Operators,    \* those who run commands
  Pids,         \* process ids; the system hands a free one to a new process
  NoPid,        \* no process, or no pid file
  MaxCommands,  \* bound: commands run in all
  MaxAccidents  \* bound: deaths of the daemon, foreign processes, failures

ASSUME DaemonAssumption ==
  /\ NoPid \notin Pids
  /\ MaxCommands \in Nat
  /\ MaxAccidents \in Nat

VARIABLES
  process,   \* what runs under a pid
  pidFile,   \* ~/.kiro-learn/collector.pid
  tree,      \* the rest of ~/.kiro-learn
  cli,       \* the command each operator is running, and where it is
  commands, accidents,  \* counts for the bounds
  \* history, read by properties only
  exposed,   \* a command overlapped one that spawns, or the pid file was lost
  expected   \* the last command left a daemon that should serve

vars == <<process, pidFile, tree, cli, commands, accidents, exposed, expected>>

\* "spawned": node is starting; "opened": the database is open and the port is
\* not bound yet; "closing": SIGTERM was handled, the port is free again; a
\* "lookalike" is a foreign process with "collector" in its command line.
Collectors == {p \in Pids : process[p] \in {"spawned", "opened", "serving", "closing"}}
Serving == {p \in Pids : process[p] = "serving"}
WithDatabase == {p \in Pids : process[p] \in {"opened", "serving", "closing"}}
Alive(p) == process[p] # "free"

Idle == [command |-> "none", at |-> "idle", pid |-> NoPid, fresh |-> FALSE]
NoTree == [dir |-> FALSE, package |-> FALSE, payload |-> "none",
           settings |-> FALSE, database |-> FALSE]
Spawners == {"init", "start"}
Commands == {"init", "start", "stop", "status", "uninstall", "uninstallKeepingData"}

DaemonTypeOK ==
  /\ process \in [Pids -> {"free", "spawned", "opened", "serving", "closing",
                         "foreign", "lookalike"}]
  /\ pidFile \in Pids \cup {NoPid}
  /\ tree \in [dir : BOOLEAN, package : BOOLEAN,
               payload : {"none", "partial", "complete"},
               settings : BOOLEAN, database : BOOLEAN]
  /\ cli \in [Operators ->
       [command : Commands \cup {"none"},
        at : {"idle", "read", "signal", "wait", "unlink", "layout", "deploy",
              "deps", "settings", "probe", "check", "spawn", "record",
              "summary", "verify", "remove"},
        pid : Pids \cup {NoPid},
        fresh : BOOLEAN]]
  /\ commands \in 0 .. MaxCommands
  /\ accidents \in 0 .. MaxAccidents
  /\ exposed \in BOOLEAN
  /\ expected \in BOOLEAN
  /\ Cardinality(Serving) <= 1

-----------------------------------------------------------------------------
(* The commands. *)

At(o, step) == cli[o].at = step
Goes(o, step) == cli' = [cli EXCEPT ![o].at = step]
Holds(o, step, pid) == cli' = [cli EXCEPT ![o].at = step, ![o].pid = pid]
Ends(o) == cli' = [cli EXCEPT ![o] = Idle]

IsInstalled == tree.dir /\ tree.package
Quiet == \A o \in Operators : At(o, "idle")

\* Mutated form: what --keep-data left is taken for nothing.
IsUpgradeIfInstalled == IsInstalled

\* cmdInit: what is there may be no more than the data of a former install.
IsUpgrade == tree.dir

\* Where a command begins; the early returns of the others change nothing.
FirstStep(command) ==
  CASE command = "init" -> IF IsUpgrade THEN "read" ELSE "layout"
    [] command \in {"start", "status"} -> IF IsInstalled THEN "probe" ELSE "idle"
    [] OTHER -> IF tree.dir THEN "read" ELSE "idle"

Begin(o) ==
  /\ At(o, "idle")
  /\ ~exposed /\ commands < MaxCommands
  /\ commands' = commands + 1
  /\ \E command \in Commands :
       /\ FirstStep(command) # "idle"
       /\ cli' = [cli EXCEPT ![o] =
            [command |-> command, at |-> FirstStep(command), pid |-> NoPid,
             fresh |-> command = "init" /\ ~IsUpgrade]]
       /\ expected' = (expected /\ command \in {"start", "status"})
  /\ exposed' = (~Quiet /\ \E other \in Operators : cli'[other].command \in Spawners)
  /\ UNCHANGED <<process, pidFile, tree, accidents>>

\* A step throws. Only an init that found no directory removes what it made.
Throws(o) ==
  /\ Ends(o)
  /\ IF cli[o].fresh
     THEN tree' = NoTree /\ pidFile' = NoPid
     ELSE UNCHANGED <<tree, pidFile>>

-----------------------------------------------------------------------------
(* stopDaemon. *)

\* What follows the stop: nothing more, an upgrade, or a removal.
AfterStop(o) ==
  CASE cli[o].command = "stop" -> Ends(o)
    [] cli[o].command = "init" -> Goes(o, "layout")
    [] OTHER -> Goes(o, "remove")

ReadForStop(o) ==
  /\ At(o, "read")
  /\ IF pidFile = NoPid THEN AfterStop(o) ELSE Holds(o, "signal", pidFile)
  /\ UNCHANGED <<process, pidFile, tree>>

\* A stale file is removed. SIGTERM ends at once whatever has not installed the
\* wrapper's handler, which it does when startCollector has returned. stopDaemon
\* does not ask whether the process is a collector.
Signal(o) ==
  LET p == cli[o].pid IN
  /\ At(o, "signal")
  /\ \/ /\ Alive(p)
        /\ process' = [process EXCEPT ![p] =
             IF @ \in {"serving", "closing"} THEN "closing" ELSE "free"]
        /\ Goes(o, "wait")
        /\ UNCHANGED <<pidFile, tree>>
     \/ /\ ~Alive(p) /\ pidFile # NoPid
        /\ pidFile' = NoPid
        /\ AfterStop(o)
        /\ UNCHANGED <<process, tree>>
     \/ /\ ~Alive(p) /\ pidFile = NoPid
        /\ Throws(o)
        /\ UNCHANGED process

\* Mutated form: after five seconds the pid is forgotten, whatever lives.
WaitsOnly(o) ==
  /\ At(o, "wait")
  /\ Goes(o, "unlink")
  /\ UNCHANGED <<process, pidFile, tree>>

\* The process is gone, or five seconds have passed and it is killed.
Waits(o) ==
  /\ At(o, "wait")
  /\ process' = [process EXCEPT ![cli[o].pid] = "free"]
  /\ Goes(o, "unlink")
  /\ UNCHANGED <<pidFile, tree>>

UnlinksPidFile(o) ==
  /\ At(o, "unlink")
  /\ pidFile' = NoPid
  /\ AfterStop(o)
  /\ UNCHANGED <<process, tree>>

StopStep(o) == ReadForStop(o) \/ Signal(o) \/ Waits(o) \/ UnlinksPidFile(o)

-----------------------------------------------------------------------------
(* The files, as init and uninstall change them. *)

Layout(o) ==
  /\ At(o, "layout")
  /\ tree' = [tree EXCEPT !.dir = TRUE]
  /\ Goes(o, "deploy")
  /\ UNCHANGED <<process, pidFile>>

\* deployPayload and writePackageJson: lib/ is replaced before node_modules/ is.
Deploy(o) ==
  /\ At(o, "deploy")
  /\ tree' = [tree EXCEPT !.payload = "partial", !.package = TRUE]
  /\ Goes(o, "deps")
  /\ UNCHANGED <<process, pidFile>>

\* installDeps and writeBinWrappers.
InstallDeps(o) ==
  /\ At(o, "deps")
  /\ tree' = [tree EXCEPT !.payload = "complete"]
  /\ Goes(o, "settings")
  /\ UNCHANGED <<process, pidFile>>

\* writeSettings keeps a file that is there; the agent configs, hooks and the MCP
\* entry lie outside this directory.
WriteSettings(o) ==
  /\ At(o, "settings")
  /\ tree' = [tree EXCEPT !.settings = TRUE]
  /\ Goes(o, "probe")
  /\ UNCHANGED <<process, pidFile>>

InitFails(o) ==
  /\ cli[o].at \in {"deploy", "deps", "settings", "probe"}
  /\ cli[o].command = "init"
  /\ accidents < MaxAccidents
  /\ accidents' = accidents + 1
  /\ Throws(o)
  /\ UNCHANGED <<process>>

\* cmdUninstall: --keep-data leaves the database, the buffers, the settings and
\* the logs; otherwise the directory goes.
Remove(o) ==
  IF cli[o].command = "uninstallKeepingData"
  THEN tree' = [tree EXCEPT !.payload = "none", !.package = FALSE]
  ELSE tree' = NoTree

Uninstalls(o) ==
  /\ At(o, "remove")
  /\ Remove(o)
  /\ pidFile' = NoPid
  /\ Ends(o)
  /\ UNCHANGED process

FileStep(o) ==
  Layout(o) \/ Deploy(o) \/ InstallDeps(o) \/ WriteSettings(o) \/ Uninstalls(o)

-----------------------------------------------------------------------------
(* getDaemonPid and startDaemon. *)

ReadForStart(o) ==
  /\ cli[o].at \in {"probe", "summary"}
  /\ Holds(o, IF At(o, "probe") THEN "check" ELSE "verify", pidFile)
  /\ UNCHANGED <<process, pidFile, tree>>

\* No daemon was found: start and init go on, status and a summary end.
NoneFound(o) ==
  IF At(o, "check") /\ cli[o].command # "status" THEN Goes(o, "spawn") ELSE Ends(o)

\* Mutated form: ps is not asked.
IsLiveProcess(p) == p \in Pids /\ Alive(p)

\* kill(pid, 0) answers, as a pid may have been reused, and the command line that
\* ps shows contains "collector".
IsOurs(p) == p \in Collectors \/ (p \in Pids /\ process[p] = "lookalike")

\* A daemon was found; or the file is absent, or names nothing of ours and is
\* removed. By then another command may have done that, which throws when the
\* process is dead, and is caught when ps was asked.
Check(o) ==
  LET p == cli[o].pid IN
  /\ cli[o].at \in {"check", "verify"}
  /\ \/ /\ IsOurs(p)
        /\ Ends(o)
        /\ UNCHANGED <<pidFile, tree>>
     \/ /\ p = NoPid
        /\ NoneFound(o)
        /\ UNCHANGED <<pidFile, tree>>
     \/ /\ p # NoPid /\ ~IsOurs(p)
        /\ pidFile # NoPid \/ Alive(p)
        /\ pidFile' = NoPid
        /\ NoneFound(o)
        /\ UNCHANGED tree
     \/ /\ p # NoPid /\ ~Alive(p) /\ pidFile = NoPid
        /\ Throws(o)
  /\ UNCHANGED process

\* ps cannot be run: the file is removed although the daemon lives. (That it may
\* fail for a lookalike too, which does no harm, is left out.)
CheckFails(o) ==
  /\ cli[o].at \in {"check", "verify"}
  /\ cli[o].pid \in Collectors
  /\ accidents < MaxAccidents
  /\ accidents' = accidents + 1
  /\ pidFile' = NoPid
  /\ NoneFound(o)
  /\ exposed' = TRUE
  /\ expected' = FALSE
  /\ UNCHANGED <<process, tree, commands>>

\* The log file is opened before the process is spawned: without the directory
\* that throws.
Spawn(o) ==
  /\ At(o, "spawn")
  /\ \/ /\ tree.dir
        /\ \E p \in Pids :
             /\ ~Alive(p)
             /\ process' = [process EXCEPT ![p] = "spawned"]
             /\ Holds(o, "record", p)
        /\ UNCHANGED <<pidFile, tree>>
     \/ /\ ~tree.dir
        /\ Throws(o)
        /\ UNCHANGED process

\* The pid is written once the process runs; init then prints a summary.
Record(o) ==
  /\ At(o, "record")
  /\ IF tree.dir
     THEN /\ pidFile' = cli[o].pid
          /\ IF cli[o].command = "init" THEN Goes(o, "summary") ELSE Ends(o)
          /\ UNCHANGED tree
     ELSE Throws(o)
  /\ UNCHANGED process

\* A full disk, say: the process runs and nothing names it.
RecordFails(o) ==
  /\ At(o, "record")
  /\ accidents < MaxAccidents
  /\ accidents' = accidents + 1
  /\ Throws(o)
  /\ exposed' = TRUE
  /\ expected' = FALSE
  /\ UNCHANGED <<process, commands>>

\* start or init have found a daemon, or made one.
Reports(o) ==
  \/ At(o, "spawn") /\ process' # process
  \/ At(o, "check") /\ cli[o].command # "status" /\ IsOurs(cli[o].pid)

StartStep(o) == ReadForStart(o) \/ Check(o) \/ Spawn(o) \/ Record(o)

-----------------------------------------------------------------------------
(* The processes. *)

Becomes(p, state) == process' = [process EXCEPT ![p] = state]

\* Storage is opened before anything else and makes its directory when there is
\* none; a payload that is not complete may not load.
OpenDatabase(p) ==
  /\ process[p] = "spawned"
  /\ tree.payload # "none"
  /\ Becomes(p, "opened")
  /\ tree' = [tree EXCEPT !.dir = TRUE, !.database = TRUE]
  /\ UNCHANGED <<pidFile, cli>>

BootFails(p) ==
  /\ process[p] = "spawned"
  /\ tree.payload # "complete"
  /\ Becomes(p, "free")
  /\ UNCHANGED <<pidFile, tree, cli>>

\* startReceiver comes last: EADDRINUSE closes the database and ends the process.
Listen(p) ==
  /\ process[p] = "opened"
  /\ Becomes(p, IF Serving = {} THEN "serving" ELSE "free")
  /\ UNCHANGED <<pidFile, tree, cli>>

\* close() has drained what it drains; the wrapper exits.
CloseEnds(p) ==
  /\ process[p] = "closing"
  /\ Becomes(p, "free")
  /\ UNCHANGED <<pidFile, tree, cli>>

ProcessStep(p) == OpenDatabase(p) \/ BootFails(p) \/ Listen(p) \/ CloseEnds(p)

\* The daemon dies; a foreign process gets a free pid that a file or a command
\* still names.
Dies(p) ==
  /\ p \in Collectors
  /\ Becomes(p, "free")
  /\ expected' = FALSE

Reused(p) ==
  /\ ~Alive(p)
  /\ p = pidFile \/ \E o \in Operators : cli[o].pid = p
  /\ \E what \in {"foreign", "lookalike"} : Becomes(p, what)
  /\ UNCHANGED expected

Accident(p) ==
  /\ ~exposed
  /\ accidents < MaxAccidents
  /\ accidents' = accidents + 1
  /\ Dies(p) \/ Reused(p)
  /\ UNCHANGED <<pidFile, tree, cli, commands, exposed>>

-----------------------------------------------------------------------------
Init ==
  /\ process = [p \in Pids |-> "free"]
  /\ pidFile = NoPid
  /\ tree = NoTree
  /\ cli = [o \in Operators |-> Idle]
  /\ commands = 0
  /\ accidents = 0
  /\ exposed = FALSE
  /\ expected = FALSE

Step(o) ==
  /\ StopStep(o) \/ FileStep(o) \/ StartStep(o)
  /\ expected' = (expected \/ (Reports(o) /\ tree.payload = "complete"))
  /\ UNCHANGED <<commands, accidents, exposed>>

Fails(o) ==
  \/ InitFails(o) /\ UNCHANGED <<commands, exposed, expected>>
  \/ CheckFails(o)
  \/ RecordFails(o)

Next ==
  \/ \E o \in Operators : Begin(o) \/ Step(o) \/ Fails(o)
  \/ \E p \in Pids : ProcessStep(p) /\ UNCHANGED <<commands, accidents, exposed, expected>>
  \/ \E p \in Pids : Accident(p)

Spec == Init /\ [][Next]_vars

(***************************************************************************)
(* Fairness. A command goes on, and node boots. Nothing makes close() end: *)
(* it waits for connections, a batch of embeddings and model calls.        *)
(***************************************************************************)
FairSpec ==
  /\ Spec
  /\ \A o \in Operators : WF_vars(Step(o))
  /\ \A p \in Pids : WF_vars(ProcessStep(p) /\ process[p] \in {"spawned", "opened"}
                             /\ UNCHANGED <<commands, accidents, exposed, expected>>)

-----------------------------------------------------------------------------
(* Properties. *)

\* Between commands the pid file names the only collector there is, so that the
\* next stop reaches it and the next start sees it: stopDaemon forgets the pid
\* only of a process that is gone, and startDaemon spawns only beside none.
OnlyTheRecordedRuns == ~exposed /\ Quiet => Collectors \subseteq {pidFile}

\* Never two daemons with the database and the buffers open, not even while the
\* former one still drains after SIGTERM.
OneDatabaseUser == ~exposed => Cardinality(WithDatabase) <= 1

\* Commands and daemons step by step beside each other: there is one collector,
\* the pid file knows it, and none opens the database beside another.
OneCollector == DaemonTypeOK /\ OnlyTheRecordedRuns /\ OneDatabaseUser

\* The database survives upgrades, failed upgrades, and an init over what
\* --keep-data left: only a plain uninstall removes it.
DataSurvives ==
  [][tree.database /\ ~tree'.database /\ ~exposed'
       => \E o \in Operators : cli[o].command = "uninstall" /\ At(o, "remove")]_vars

\* Every command ends, though the daemon it stops may never finish closing.
CommandsEnd == \A o \in Operators : ~At(o, "idle") ~> At(o, "idle")

\* The pid file names a foreign process that passes for the daemon.
Misled == pidFile \in Pids /\ process[pidFile] = "lookalike"

\* When start or init has found or spawned a daemon of a complete install, one
\* serves before long, unless it dies or is stopped, whatever took a stale pid
\* without "collector" in its command line.
StartServes == expected /\ ~exposed ~> Serving # {} \/ ~expected \/ exposed \/ Misled

\* A command returns, and what start and init say comes true.
CommandsSucceed == CommandsEnd /\ StartServes

-----------------------------------------------------------------------------
(* What a comment says, and the code does not do. *)

\* installer/index.ts, getDaemonPid: ps verifies that the process is actually our
\* collector, so start and init find, or spawn, one that serves.
StartAlwaysServes == expected /\ ~exposed ~> Serving # {} \/ ~expected \/ exposed
=============================================================================
