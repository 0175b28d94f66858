----------------------------- MODULE DaemonProofs -----------------------------
(***************************************************************************)
(* Theorems about Daemon, for any number of operators, processes, commands *)
(* and accidents.                                                          *)
(*                                                                         *)
(* A command reads the pid file and acts on what it read, several steps    *)
(* later, while other commands and the processes themselves move. What it  *)
(* then still may rely on depends on where it is: DaemonInv says so of     *)
(* every place a command can be at.                                        *)
(***************************************************************************)
EXTENDS Daemon, FiniteSetTheorems, TLAPS

Places == {"idle", "read", "signal", "wait", "unlink", "layout", "deploy",
           "deps", "settings", "probe", "check", "spawn", "record",
           "summary", "verify", "remove"}

CliRecord == [command : Commands \cup {"none"}, at : Places, pid : Pids \cup {NoPid}, fresh : BOOLEAN]

Stopping == {"read", "signal", "wait", "unlink"}
Installing == {"layout", "deploy", "deps", "settings", "spawn", "record", "summary", "verify"}

\* Which commands come past which place.
CommandInv(o) ==
  /\ cli[o].command = "none" <=> At(o, "idle")
  /\ cli[o].at \in Installing => cli[o].command \in Spawners
  /\ cli[o].at \in Stopping => cli[o].command \in {"init", "stop", "uninstall", "uninstallKeepingData"}
  /\ cli[o].at \in {"probe", "check"} => cli[o].command \in {"init", "start", "status"}
  /\ At(o, "remove") => cli[o].command \in {"uninstall", "uninstallKeepingData"}
  /\ cli[o].fresh => cli[o].command = "init" /\ cli[o].at \notin Stopping

TypeInv ==
  /\ process \in [Pids -> {"free", "spawned", "opened", "serving", "closing", "foreign", "lookalike"}]
  /\ pidFile \in Pids \cup {NoPid}
  /\ tree \in [dir : BOOLEAN, package : BOOLEAN,
               payload : {"none", "partial", "complete"},
               settings : BOOLEAN, database : BOOLEAN]
  /\ cli \in [Operators -> CliRecord]
  /\ commands \in 0 .. MaxCommands
  /\ accidents \in 0 .. MaxAccidents
  /\ exposed \in BOOLEAN
  /\ expected \in BOOLEAN
  /\ \A p, q \in Serving : p = q

\* What a command may rely on, though it read the pid file some steps ago.
OperatorInv(o) ==
  /\ cli[o].at \in {"signal", "wait", "unlink", "check", "verify"} => pidFile \in {cli[o].pid, NoPid}
  /\ cli[o].at \in {"unlink", "remove", "layout", "deploy", "deps", "settings", "spawn"} => Collectors = {}
  /\ At(o, "record") => Collectors \subseteq {cli[o].pid}
  /\ cli[o].command \in Spawners =>
       /\ cli[o].at \in {"check", "verify"} => pidFile = cli[o].pid
       /\ ~At(o, "layout") => tree.dir
  /\ cli[o].fresh /\ cli[o].at \in {"layout", "deploy", "deps", "settings", "probe", "check", "spawn"}
       => Collectors = {} /\ ~tree.database

\* A command that may spawn has the directory to itself.
Alone ==
  \A a, b \in Operators : a # b /\ ~At(a, "idle") /\ ~At(b, "idle") => cli[a].command \notin Spawners

\* The pid file names the only collector, but while its pid is being written.
Known == Collectors \subseteq {pidFile} \/ \E o \in Operators : At(o, "record")

DirectoryInv ==
  /\ tree.database => tree.dir
  /\ ~tree.dir => Collectors = {}

CommandsInv == \A o \in Operators : CommandInv(o)
OperatorsInv == \A o \in Operators : OperatorInv(o)

DaemonInv ==
  /\ TypeInv /\ CommandsInv
  /\ ~exposed => Alone /\ Known /\ DirectoryInv /\ OperatorsInv

-----------------------------------------------------------------------------
(* A step of a command. *)

Moved(o, step, pid) ==
  /\ cli' \in [Operators -> CliRecord]
  /\ cli'[o].at = step /\ cli'[o].pid = pid
  /\ cli'[o].command = cli[o].command /\ cli'[o].fresh = cli[o].fresh
  /\ \A q \in Operators \ {o} : cli'[q] = cli[q]

Ended(o) ==
  /\ cli' \in [Operators -> CliRecord]
  /\ cli'[o] = Idle
  /\ \A q \in Operators \ {o} : cli'[q] = cli[q]

LEMMA CliMoves ==
  ASSUME TypeInv, NEW o \in Operators
  PROVE  /\ \A step \in Places : Goes(o, step) => Moved(o, step, cli[o].pid)
         /\ \A step \in Places, pid \in Pids \cup {NoPid} : Holds(o, step, pid) => Moved(o, step, pid)
         /\ Ends(o) => Ended(o)
<1>1. cli \in [Operators -> CliRecord] /\ cli[o] \in CliRecord
  BY DEF TypeInv
<1>2. ASSUME NEW step \in Places, Goes(o, step) PROVE Moved(o, step, cli[o].pid)
  BY <1>1, <1>2 DEF Goes, Moved, CliRecord
<1>3. ASSUME NEW step \in Places, NEW pid \in Pids \cup {NoPid}, Holds(o, step, pid)
      PROVE  Moved(o, step, pid)
  BY <1>1, <1>3 DEF Holds, Moved, CliRecord
<1>4. Idle \in CliRecord
  <2>1. FALSE \in BOOLEAN
    BY Zenon
  <2> QED BY <2>1 DEF Idle, CliRecord, Places, Commands
<1>5. ASSUME Ends(o) PROVE Ended(o)
  BY <1>1, <1>4, <1>5 DEF Ends, Ended
<1> QED BY <1>2, <1>3, <1>5

\* Where stopDaemon leads, and where a check that found nothing does.
LEMMA StopLeads ==
  ASSUME TypeInv, NEW o \in Operators, CommandInv(o), cli[o].at \in Stopping, AfterStop(o)
  PROVE  \/ Ended(o)
         \/ cli[o].command = "init" /\ Moved(o, "layout", cli[o].pid)
         \/ cli[o].command \in {"uninstall", "uninstallKeepingData"} /\ Moved(o, "remove", cli[o].pid)
<1>1. cli[o].command \in {"init", "stop", "uninstall", "uninstallKeepingData"}
  BY DEF CommandInv
<1>2. CASE cli[o].command = "stop"
  BY <1>2, CliMoves DEF AfterStop
<1>3. CASE cli[o].command = "init"
  BY <1>3, CliMoves DEF AfterStop, Places
<1>4. CASE cli[o].command \in {"uninstall", "uninstallKeepingData"}
  BY <1>4, CliMoves DEF AfterStop, Places
<1> QED BY <1>1, <1>2, <1>3, <1>4

LEMMA NoneFoundLeads ==
  ASSUME TypeInv, NEW o \in Operators, NoneFound(o)
  PROVE  \/ Ended(o)
         \/ At(o, "check") /\ cli[o].command # "status" /\ Moved(o, "spawn", cli[o].pid)
BY CliMoves DEF NoneFound, Places

\* What a step leaves of the commands' own bookkeeping.
CliOK == cli \in [Operators -> CliRecord] /\ CommandsInv

LEMMA MovedIsTyped ==
  ASSUME TypeInv, CommandsInv, NEW o \in Operators, NEW step, NEW pid, Moved(o, step, pid),
         step # "idle", ~At(o, "idle"),
         step \in Installing => cli[o].command \in Spawners,
         step \in Stopping => cli[o].command \in {"init", "stop", "uninstall", "uninstallKeepingData"}
                              /\ cli[o].at \in Stopping,
         step \in {"probe", "check"} => cli[o].command \in {"init", "start", "status"},
         step = "remove" => cli[o].command \in {"uninstall", "uninstallKeepingData"}
  PROVE  CliOK'
<1>1. ASSUME NEW q \in Operators, q # o PROVE CommandInv(q)'
  BY <1>1 DEF Moved, CommandsInv, CommandInv, At
<1>2. CommandInv(o)'
  BY DEF Moved, CommandsInv, CommandInv, At
<1> QED BY <1>1, <1>2 DEF Moved, CliOK, CommandsInv

LEMMA EndedIsTyped ==
  ASSUME CommandsInv, NEW o \in Operators, Ended(o)
  PROVE  CliOK'
<1>1. ASSUME NEW q \in Operators, q # o PROVE CommandInv(q)'
  BY <1>1 DEF Ended, CommandsInv, CommandInv, At
<1>2. CommandInv(o)'
  BY DEF Ended, Idle, CommandInv, At, Installing, Stopping
<1> QED BY <1>1, <1>2 DEF Ended, CliOK, CommandsInv

\* The processes and the files.
WorldOK ==
  /\ process \in [Pids -> {"free", "spawned", "opened", "serving", "closing", "foreign", "lookalike"}]
  /\ pidFile \in Pids \cup {NoPid}
  /\ tree \in [dir : BOOLEAN, package : BOOLEAN,
               payload : {"none", "partial", "complete"},
               settings : BOOLEAN, database : BOOLEAN]
  /\ \A p, q \in Serving : p = q

Safe == Alone /\ Known /\ DirectoryInv /\ OperatorsInv

\* Whether a step by o removes the database, and may.
DatabaseStays(o) ==
  tree.database => tree'.database \/ (At(o, "remove") /\ cli[o].command = "uninstall")

\* A process gets another state, or none does.
LEMMA ProcessChanges ==
  ASSUME TypeInv, NEW p, NEW state \in {"free", "spawned", "opened", "serving", "closing", "foreign", "lookalike"},
         state # "serving" \/ Serving = {},
         process' = [process EXCEPT ![p] = state]
  PROVE  /\ process' \in [Pids -> {"free", "spawned", "opened", "serving", "closing", "foreign", "lookalike"}]
         /\ \A q \in Pids : process'[q] = IF q = p THEN state ELSE process[q]
         /\ \A q, r \in Serving' : q = r
<1>1. process \in [Pids -> {"free", "spawned", "opened", "serving", "closing", "foreign", "lookalike"}]
  BY DEF TypeInv
<1>2. process' \in [Pids -> {"free", "spawned", "opened", "serving", "closing", "foreign", "lookalike"}]
  BY <1>1
<1>3. \A q \in Pids : process'[q] = IF q = p THEN state ELSE process[q]
  BY <1>1
<1>4. \A q, r \in Serving : q = r
  BY DEF TypeInv
<1>5. \A q, r \in Serving' : q = r
  BY <1>3, <1>4 DEF Serving
<1> QED BY <1>2, <1>3, <1>5

LEMMA NoTreeTyped ==
  NoTree \in [dir : BOOLEAN, package : BOOLEAN, payload : {"none", "partial", "complete"},
              settings : BOOLEAN, database : BOOLEAN]
<1>1. FALSE \in BOOLEAN
  BY Zenon
<1> QED BY <1>1 DEF NoTree

LEMMA ThrowsLeads ==
  ASSUME TypeInv, NEW o \in Operators, Throws(o)
  PROVE  /\ Ended(o)
         /\ \/ cli[o].fresh /\ tree' = NoTree /\ pidFile' = NoPid
            \/ ~cli[o].fresh /\ UNCHANGED <<tree, pidFile>>
BY CliMoves DEF Throws

\* A running command that is not writing a pid finds every collector in the file.
LEMMA KnownBeside ==
  ASSUME CommandsInv, Alone, Known, NEW o \in Operators, ~At(o, "idle"), ~At(o, "record")
  PROVE  Collectors \subseteq {pidFile}
<1>1. CASE Collectors \subseteq {pidFile}
  BY <1>1
<1>2. ASSUME NEW x \in Operators, At(x, "record") PROVE FALSE
  <2>1. x # o /\ ~At(x, "idle") /\ cli[x].command \in Spawners
    BY <1>2 DEF CommandsInv, CommandInv, At, Installing
  <2> QED BY <2>1 DEF Alone
<1> QED BY <1>1, <1>2 DEF Known

\* The step of one command leaves the others what they rely on: either it cannot
\* spawn, and only takes away, or there are no others.
LEMMA SafeAfterStep ==
  ASSUME CommandsInv, Safe, CliOK', NEW o \in Operators, ~At(o, "idle"),
         \A q \in Operators \ {o} : cli'[q] = cli[q],
         cli'[o].at = "idle" \/ cli'[o].command = cli[o].command,
         \/ cli[o].command \in Spawners
         \/ Collectors' \subseteq Collectors /\ pidFile' \in {pidFile, NoPid},
         OperatorInv(o)', Known', DirectoryInv'
  PROVE  Safe'
<1>1. Alone'
  BY DEF Safe, Alone, At
<1>2. ASSUME NEW q \in Operators, q # o PROVE OperatorInv(q)'
  <2>1. cli'[q] = cli[q] /\ CommandInv(q) /\ OperatorInv(q)
    BY <1>2 DEF CommandsInv, Safe, OperatorsInv
  <2>2. CASE At(q, "idle")
    BY <2>1, <2>2 DEF CommandInv, OperatorInv, At, Spawners, Commands
  <2>3. CASE ~At(q, "idle")
    <3>1. cli[q].command \notin Spawners /\ cli[o].command \notin Spawners
      BY <1>2, <2>3 DEF Safe, Alone
    <3>2. Collectors' \subseteq Collectors /\ pidFile' \in {pidFile, NoPid}
      BY <3>1
    <3>3. ~cli[q].fresh /\ ~At(q, "record")
      BY <2>1, <3>1 DEF CommandInv, At, Installing, Spawners
    <3> QED BY <2>1, <3>1, <3>2, <3>3 DEF OperatorInv, At
  <2> QED BY <2>2, <2>3
<1> QED BY <1>1, <1>2 DEF Safe, OperatorsInv

-----------------------------------------------------------------------------
(* stopDaemon. *)

LEMMA ReadForStopKeeps ==
  ASSUME DaemonInv, NEW o \in Operators, ReadForStop(o)
  PROVE  WorldOK' /\ CliOK' /\ (~exposed => Safe' /\ DatabaseStays(o))
<1>1. TypeInv /\ CommandsInv /\ CommandInv(o) /\ At(o, "read") /\ cli[o].at \in Stopping
      /\ UNCHANGED <<process, pidFile, tree>>
  BY DEF DaemonInv, CommandsInv, ReadForStop, At, Stopping
<1>2. WorldOK'
  BY <1>1 DEF TypeInv, WorldOK, Serving
<1>3. \/ Ended(o) /\ pidFile = NoPid
      \/ cli[o].command = "init" /\ Moved(o, "layout", cli[o].pid) /\ pidFile = NoPid
      \/ cli[o].command \in {"uninstall", "uninstallKeepingData"} /\ Moved(o, "remove", cli[o].pid) /\ pidFile = NoPid
      \/ Moved(o, "signal", pidFile)
  <2>1. pidFile \in Pids \cup {NoPid} /\ "signal" \in Places
    BY <1>1 DEF TypeInv, Places
  <2> QED BY <1>1, <2>1, StopLeads, CliMoves DEF ReadForStop
<1>4. CliOK'
  BY <1>1, <1>3, MovedIsTyped, EndedIsTyped DEF At, CommandInv, Installing, Stopping, Spawners
<1>5. ASSUME ~exposed PROVE Safe' /\ DatabaseStays(o)
  <2>1. Safe /\ OperatorInv(o)
    BY <1>5 DEF DaemonInv, Safe, OperatorsInv
  <2>2. Collectors \subseteq {pidFile} /\ Collectors' = Collectors
    BY <1>1, <2>1, KnownBeside DEF Safe, At, Collectors
  <2>3. OperatorInv(o)'
    <3>1. CASE Ended(o)
      BY <3>1 DEF Ended, Idle, OperatorInv, At, Spawners
    <3>2. CASE pidFile = NoPid /\ cli'[o].at \in {"layout", "remove"} /\ ~cli'[o].fresh
               /\ (cli'[o].at = "remove" => cli'[o].command \notin Spawners)
      <4>1. Collectors' = {}
        BY <2>2, <3>2, DaemonAssumption DEF Collectors
      <4> QED BY <3>2, <4>1 DEF OperatorInv, At
    <3>3. CASE Moved(o, "signal", pidFile)
      BY <1>1, <2>1, <3>3 DEF Moved, OperatorInv, At, CommandInv
    <3>4. ~cli[o].fresh
      BY <1>1 DEF CommandInv
    <3> QED BY <1>3, <3>1, <3>2, <3>3, <3>4 DEF Moved, Spawners
  <2>4. Known' /\ DirectoryInv'
    BY <1>1, <2>1, <2>2 DEF Safe, Known, DirectoryInv
  <2> QED BY <1>1, <1>3, <1>4, <2>1, <2>2, <2>3, <2>4, SafeAfterStep DEF Moved, Ended, Idle, At, DatabaseStays
<1> QED BY <1>2, <1>4, <1>5

LEMMA SignalKeeps ==
  ASSUME DaemonInv, NEW o \in Operators, Signal(o)
  PROVE  WorldOK' /\ CliOK' /\ (~exposed => Safe' /\ DatabaseStays(o))
<1> DEFINE p == cli[o].pid
<1>1. TypeInv /\ CommandsInv /\ CommandInv(o) /\ At(o, "signal") /\ cli[o].at \in Stopping /\ ~cli[o].fresh
  BY DEF DaemonInv, CommandsInv, CommandInv, Signal, At, Stopping
<1>2. CASE /\ Alive(p)
           /\ process' = [process EXCEPT ![p] = IF @ \in {"serving", "closing"} THEN "closing" ELSE "free"]
           /\ Goes(o, "wait") /\ UNCHANGED <<pidFile, tree>>
  <2>1. PICK state \in {"closing", "free"} :
          state = IF process[p] \in {"serving", "closing"} THEN "closing" ELSE "free"
    OBVIOUS
  <2>2. process' = [process EXCEPT ![p] = state]
    BY <1>1, <1>2, <2>1 DEF TypeInv
  <2>3. /\ process' \in [Pids -> {"free", "spawned", "opened", "serving", "closing", "foreign", "lookalike"}]
        /\ \A q \in Pids : process'[q] = IF q = p THEN state ELSE process[q]
        /\ \A q, r \in Serving' : q = r
    BY <1>1, <2>2, ProcessChanges
  <2>4. Collectors' \subseteq Collectors
    BY <2>1, <2>3 DEF Collectors
  <2>5. WorldOK'
    BY <1>1, <1>2, <2>3 DEF TypeInv, WorldOK
  <2>6. Moved(o, "wait", p)
    BY <1>1, <1>2, CliMoves DEF Places
  <2>7. CliOK'
    BY <1>1, <2>6, MovedIsTyped DEF At, CommandInv, Installing, Stopping
  <2>8. ASSUME ~exposed PROVE Safe' /\ DatabaseStays(o)
    <3>1. Safe /\ OperatorInv(o)
      BY <2>8 DEF DaemonInv, Safe, OperatorsInv
    <3>2. OperatorInv(o)'
      BY <1>1, <1>2, <2>6, <3>1 DEF Moved, OperatorInv, At
    <3>3. Known' /\ DirectoryInv'
      BY <1>1, <1>2, <2>4, <3>1, KnownBeside DEF Safe, Known, DirectoryInv, At
    <3> QED BY <1>1, <1>2, <2>4, <2>6, <2>7, <3>1, <3>2, <3>3, SafeAfterStep DEF Moved, At, DatabaseStays
  <2> QED BY <2>5, <2>7, <2>8
<1>3. CASE ~Alive(p) /\ pidFile # NoPid /\ pidFile' = NoPid /\ AfterStop(o) /\ UNCHANGED <<process, tree>>
  <2>1. \/ Ended(o)
        \/ cli[o].command = "init" /\ Moved(o, "layout", p)
        \/ cli[o].command \in {"uninstall", "uninstallKeepingData"} /\ Moved(o, "remove", p)
    BY <1>1, <1>3, StopLeads
  <2>2. WorldOK'
    BY <1>1, <1>3 DEF TypeInv, WorldOK, Serving
  <2>3. CliOK'
    BY <1>1, <2>1, MovedIsTyped, EndedIsTyped DEF At, CommandInv, Installing, Stopping, Spawners
  <2>4. ASSUME ~exposed PROVE Safe' /\ DatabaseStays(o)
    <3>1. Safe /\ OperatorInv(o)
      BY <2>4 DEF DaemonInv, Safe, OperatorsInv
    <3>2. Collectors \subseteq {pidFile}
      BY <1>1, <3>1, KnownBeside DEF Safe, At
    <3>3. pidFile = p
      BY <1>1, <1>3, <3>1 DEF OperatorInv, At
    <3>4. Collectors = {} /\ Collectors' = {}
      BY <1>3, <3>2, <3>3 DEF Collectors, Alive
    <3>5. OperatorInv(o)'
      BY <1>1, <2>1, <3>4 DEF Ended, Moved, Idle, OperatorInv, At, Spawners
    <3>6. Known' /\ DirectoryInv'
      BY <1>3, <3>1, <3>4 DEF Safe, Known, DirectoryInv
    <3> QED BY <1>1, <1>3, <2>1, <2>3, <3>1, <3>4, <3>5, <3>6, SafeAfterStep DEF Moved, Ended, Idle, At, DatabaseStays
  <2> QED BY <2>2, <2>3, <2>4
<1>4. CASE ~Alive(p) /\ pidFile = NoPid /\ Throws(o) /\ UNCHANGED process
  <2>1. Ended(o) /\ UNCHANGED <<process, pidFile, tree>>
    BY <1>1, <1>4, ThrowsLeads
  <2>2. WorldOK' /\ CliOK'
    BY <1>1, <2>1, EndedIsTyped DEF TypeInv, WorldOK, Serving
  <2>3. ASSUME ~exposed PROVE Safe' /\ DatabaseStays(o)
    <3>1. Safe
      BY <2>3 DEF DaemonInv, Safe
    <3>2. Collectors \subseteq {pidFile} /\ Collectors' = Collectors
      BY <1>1, <2>1, <3>1, KnownBeside DEF Safe, At, Collectors
    <3>3. OperatorInv(o)'
      BY <2>1 DEF Ended, Idle, OperatorInv, At, Spawners
    <3>4. Known' /\ DirectoryInv'
      BY <2>1, <3>1, <3>2 DEF Safe, Known, DirectoryInv
    <3> QED BY <1>1, <2>1, <2>2, <3>1, <3>2, <3>3, <3>4, SafeAfterStep DEF Ended, Idle, At, DatabaseStays
  <2> QED BY <2>2, <2>3
<1> QED BY <1>2, <1>3, <1>4 DEF Signal

LEMMA WaitsKeeps ==
  ASSUME DaemonInv, NEW o \in Operators, Waits(o)
  PROVE  WorldOK' /\ CliOK' /\ (~exposed => Safe' /\ DatabaseStays(o))
<1>1. TypeInv /\ CommandsInv /\ CommandInv(o) /\ At(o, "wait") /\ cli[o].at \in Stopping /\ ~cli[o].fresh
  BY DEF DaemonInv, CommandsInv, CommandInv, Waits, At, Stopping
<1>2. process' = [process EXCEPT ![cli[o].pid] = "free"] /\ UNCHANGED <<pidFile, tree>>
  BY DEF Waits
<1>3. /\ process' \in [Pids -> {"free", "spawned", "opened", "serving", "closing", "foreign", "lookalike"}]
      /\ \A q \in Pids : process'[q] = IF q = cli[o].pid THEN "free" ELSE process[q]
      /\ \A q, r \in Serving' : q = r
  BY <1>1, <1>2, ProcessChanges
<1>4. WorldOK'
  BY <1>1, <1>2, <1>3 DEF TypeInv, WorldOK
<1>5. Moved(o, "unlink", cli[o].pid)
  BY <1>1, CliMoves DEF Waits, Places
<1>6. CliOK'
  BY <1>1, <1>5, MovedIsTyped DEF At, CommandInv, Installing, Stopping
<1>7. ASSUME ~exposed PROVE Safe' /\ DatabaseStays(o)
  <2>1. Safe /\ OperatorInv(o)
    BY <1>7 DEF DaemonInv, Safe, OperatorsInv
  <2>2. Collectors \subseteq {cli[o].pid, NoPid}
    BY <1>1, <2>1, KnownBeside DEF Safe, OperatorInv, At
  <2>3. Collectors' = {}
    BY <1>3, <2>2, DaemonAssumption DEF Collectors
  <2>4. OperatorInv(o)'
    BY <1>1, <1>2, <1>5, <2>1, <2>3 DEF Moved, OperatorInv, At
  <2>5. Known' /\ DirectoryInv'
    BY <1>2, <2>1, <2>3 DEF Safe, Known, DirectoryInv
  <2> QED BY <1>1, <1>2, <1>5, <1>6, <2>1, <2>3, <2>4, <2>5, SafeAfterStep DEF Moved, At, DatabaseStays
<1> QED BY <1>4, <1>6, <1>7

LEMMA UnlinksKeeps ==
  ASSUME DaemonInv, NEW o \in Operators, UnlinksPidFile(o)
  PROVE  WorldOK' /\ CliOK' /\ (~exposed => Safe' /\ DatabaseStays(o))
<1>1. TypeInv /\ CommandsInv /\ CommandInv(o) /\ At(o, "unlink") /\ cli[o].at \in Stopping /\ ~cli[o].fresh
  BY DEF DaemonInv, CommandsInv, CommandInv, UnlinksPidFile, At, Stopping
<1>2. pidFile' = NoPid /\ UNCHANGED <<process, tree>>
  BY DEF UnlinksPidFile
<1>3. \/ Ended(o)
      \/ cli[o].command = "init" /\ Moved(o, "layout", cli[o].pid)
      \/ cli[o].command \in {"uninstall", "uninstallKeepingData"} /\ Moved(o, "remove", cli[o].pid)
  BY <1>1, StopLeads DEF UnlinksPidFile
<1>4. WorldOK'
  BY <1>1, <1>2 DEF TypeInv, WorldOK, Serving
<1>5. CliOK'
  BY <1>1, <1>3, MovedIsTyped, EndedIsTyped DEF At, CommandInv, Installing, Stopping, Spawners
<1>6. ASSUME ~exposed PROVE Safe' /\ DatabaseStays(o)
  <2>1. Safe /\ OperatorInv(o)
    BY <1>6 DEF DaemonInv, Safe, OperatorsInv
  <2>2. Collectors = {} /\ Collectors' = {}
    BY <1>1, <1>2, <2>1 DEF OperatorInv, At, Collectors
  <2>3. OperatorInv(o)'
    BY <1>1, <1>3, <2>2 DEF Ended, Moved, Idle, OperatorInv, At, Spawners
  <2>4. Known' /\ DirectoryInv'
    BY <1>2, <2>1, <2>2 DEF Safe, Known, DirectoryInv
  <2> QED BY <1>1, <1>2, <1>3, <1>5, <2>1, <2>2, <2>3, <2>4, SafeAfterStep DEF Moved, Ended, Idle, At, DatabaseStays
<1> QED BY <1>4, <1>5, <1>6

-----------------------------------------------------------------------------
(* The files. *)

\* The steps of init over the files: none of them moves a process.
LEMMA InstallKeeps ==
  ASSUME DaemonInv, NEW o \in Operators,
         Layout(o) \/ Deploy(o) \/ InstallDeps(o) \/ WriteSettings(o)
  PROVE  WorldOK' /\ CliOK' /\ (~exposed => Safe' /\ DatabaseStays(o))
<1>1. TypeInv /\ CommandsInv /\ CommandInv(o) /\ UNCHANGED <<process, pidFile>>
  BY DEF DaemonInv, CommandsInv, Layout, Deploy, InstallDeps, WriteSettings
<1>2. \/ At(o, "layout") /\ Moved(o, "deploy", cli[o].pid)
      \/ At(o, "deploy") /\ Moved(o, "deps", cli[o].pid)
      \/ At(o, "deps") /\ Moved(o, "settings", cli[o].pid)
      \/ At(o, "settings") /\ Moved(o, "probe", cli[o].pid)
  BY <1>1, CliMoves DEF Layout, Deploy, InstallDeps, WriteSettings, Places
<1>3. /\ tree' \in [dir : BOOLEAN, package : BOOLEAN, payload : {"none", "partial", "complete"},
                    settings : BOOLEAN, database : BOOLEAN]
      /\ tree'.database = tree.database
      /\ tree'.dir \/ (tree'.dir = tree.dir /\ ~At(o, "layout"))
  <2>1. tree \in [dir : BOOLEAN, package : BOOLEAN, payload : {"none", "partial", "complete"},
                  settings : BOOLEAN, database : BOOLEAN]
    BY <1>1 DEF TypeInv
  <2>2. CASE Layout(o)
    BY <2>1, <2>2 DEF Layout
  <2>3. CASE Deploy(o)
    BY <2>1, <2>3 DEF Deploy, At
  <2>4. CASE InstallDeps(o)
    BY <2>1, <2>4 DEF InstallDeps, At
  <2>5. CASE WriteSettings(o)
    BY <2>1, <2>5 DEF WriteSettings, At
  <2> QED BY <2>2, <2>3, <2>4, <2>5
<1>4. WorldOK'
  BY <1>1, <1>3 DEF TypeInv, WorldOK, Serving
<1>5. cli[o].command \in Spawners /\ cli[o].command \in {"init", "start", "status"}
  BY <1>1, <1>2 DEF CommandInv, At, Installing, Spawners
<1>6. CliOK'
  BY <1>1, <1>2, <1>5, MovedIsTyped DEF At, Installing, Stopping
<1>7. ASSUME ~exposed PROVE Safe' /\ DatabaseStays(o)
  <2>1. Safe /\ OperatorInv(o)
    BY <1>7 DEF DaemonInv, Safe, OperatorsInv
  <2>2. Collectors = {} /\ Collectors' = {}
    BY <1>1, <1>2, <2>1 DEF OperatorInv, At, Collectors
  <2>3. tree'.dir
    BY <1>3, <1>5, <2>1 DEF OperatorInv
  <2>4. cli[o].fresh => ~tree'.database
    BY <1>2, <1>3, <2>1 DEF OperatorInv, At
  <2>5. OperatorInv(o)'
    BY <1>2, <2>2, <2>3, <2>4 DEF Moved, OperatorInv, At
  <2>6. Known' /\ DirectoryInv'
    BY <2>2, <2>3 DEF Known, DirectoryInv
  <2> QED BY <1>1, <1>2, <1>3, <1>5, <1>6, <2>1, <2>5, <2>6, SafeAfterStep DEF Moved, At, DatabaseStays
<1> QED BY <1>4, <1>6, <1>7

LEMMA UninstallKeeps ==
  ASSUME DaemonInv, NEW o \in Operators, Uninstalls(o)
  PROVE  WorldOK' /\ CliOK' /\ (~exposed => Safe' /\ DatabaseStays(o))
<1>1. TypeInv /\ CommandsInv /\ CommandInv(o) /\ At(o, "remove") /\ Ended(o)
  BY CliMoves DEF DaemonInv, CommandsInv, Uninstalls
<1>2. pidFile' = NoPid /\ UNCHANGED process /\ Remove(o)
  BY DEF Uninstalls
<1>3. /\ tree' \in [dir : BOOLEAN, package : BOOLEAN, payload : {"none", "partial", "complete"},
                    settings : BOOLEAN, database : BOOLEAN]
      /\ \/ cli[o].command = "uninstall"
         \/ tree'.database = tree.database
      /\ tree'.database => tree'.dir \/ (tree.database /\ ~tree.dir)
  <2>1. tree \in [dir : BOOLEAN, package : BOOLEAN, payload : {"none", "partial", "complete"},
                  settings : BOOLEAN, database : BOOLEAN]
    BY <1>1 DEF TypeInv
  <2>2. CASE cli[o].command = "uninstallKeepingData"
    <3>1. FALSE \in BOOLEAN
      BY Zenon
    <3>2. tree' = [tree EXCEPT !.payload = "none", !.package = FALSE]
      BY <1>2, <2>2 DEF Remove
    <3> QED BY <2>1, <3>1, <3>2
  <2>3. CASE cli[o].command # "uninstallKeepingData"
    <3>1. tree' = NoTree
      BY <1>2, <2>3 DEF Remove
    <3>2. cli[o].command = "uninstall"
      BY <1>1, <2>3 DEF CommandInv
    <3>3. ~tree'.database
      BY <3>1 DEF NoTree
    <3> QED BY <3>1, <3>2, <3>3, NoTreeTyped
  <2> QED BY <2>2, <2>3
<1>4. WorldOK'
  BY <1>1, <1>2, <1>3 DEF TypeInv, WorldOK, Serving
<1>5. CliOK'
  BY <1>1, EndedIsTyped
<1>6. ASSUME ~exposed PROVE Safe' /\ DatabaseStays(o)
  <2>1. Safe /\ OperatorInv(o)
    BY <1>6 DEF DaemonInv, Safe, OperatorsInv
  <2>2. Collectors = {} /\ Collectors' = {}
    BY <1>1, <1>2, <2>1 DEF OperatorInv, At, Collectors
  <2>3. OperatorInv(o)'
    BY <1>1 DEF Ended, Idle, OperatorInv, At, Spawners
  <2>4. Known' /\ DirectoryInv'
    BY <1>3, <2>1, <2>2 DEF Safe, Known, DirectoryInv
  <2>5. DatabaseStays(o)
    BY <1>1, <1>3 DEF DatabaseStays
  <2> QED BY <1>1, <1>2, <1>5, <2>1, <2>2, <2>3, <2>4, <2>5, SafeAfterStep DEF Ended, Idle, At
<1> QED BY <1>4, <1>5, <1>6

\* What a step that throws leaves behind: nothing, if init found nothing, and then
\* there is no collector and no database.
LEMMA ThrowKeeps ==
  ASSUME DaemonInv, NEW o \in Operators, ~At(o, "idle"), ~At(o, "record"), Throws(o), UNCHANGED process,
         ~exposed /\ cli[o].fresh => cli[o].at \in {"deploy", "deps", "settings", "probe"}
  PROVE  WorldOK' /\ CliOK' /\ (~exposed => Safe' /\ DatabaseStays(o))
<1>1. TypeInv /\ CommandsInv /\ CommandInv(o)
  BY DEF DaemonInv, CommandsInv
<1>2. /\ Ended(o)
      /\ \/ cli[o].fresh /\ tree' = NoTree /\ pidFile' = NoPid
         \/ ~cli[o].fresh /\ UNCHANGED <<tree, pidFile>>
  BY <1>1, ThrowsLeads
<1>3. WorldOK'
  BY <1>1, <1>2, NoTreeTyped DEF TypeInv, WorldOK, Serving
<1>4. CliOK'
  BY <1>1, <1>2, EndedIsTyped
<1>5. ASSUME ~exposed PROVE Safe' /\ DatabaseStays(o)
  <2>1. Safe /\ OperatorInv(o)
    BY <1>5 DEF DaemonInv, Safe, OperatorsInv
  <2>2. Collectors' = Collectors /\ Collectors \subseteq {pidFile}
    BY <1>1, <2>1, KnownBeside DEF Safe, Collectors
  <2>3. OperatorInv(o)'
    BY <1>2 DEF Ended, Idle, OperatorInv, At, Spawners
  <2>4. CASE cli[o].fresh
    <3>1. Collectors = {} /\ ~tree.database
      BY <1>5, <2>1, <2>4 DEF OperatorInv
    <3>2. ~tree'.database /\ ~tree'.dir /\ pidFile' = NoPid
      BY <1>2, <2>4 DEF NoTree
    <3>3. Known' /\ DirectoryInv' /\ DatabaseStays(o)
      BY <2>2, <3>1, <3>2 DEF Known, DirectoryInv, DatabaseStays
    <3> QED BY <1>1, <1>2, <1>4, <2>1, <2>2, <2>3, <3>2, <3>3, SafeAfterStep DEF Ended, Idle, At
  <2>5. CASE ~cli[o].fresh
    <3>1. Known' /\ DirectoryInv' /\ DatabaseStays(o)
      BY <1>2, <2>1, <2>2, <2>5 DEF Safe, Known, DirectoryInv, DatabaseStays
    <3> QED BY <1>1, <1>2, <1>4, <2>1, <2>2, <2>3, <2>5, <3>1, SafeAfterStep DEF Ended, Idle, At
  <2> QED BY <2>4, <2>5
<1> QED BY <1>3, <1>4, <1>5

LEMMA InitFailsKeeps ==
  ASSUME DaemonInv, NEW o \in Operators, InitFails(o)
  PROVE  WorldOK' /\ CliOK' /\ (~exposed => Safe' /\ DatabaseStays(o))
BY ThrowKeeps DEF InitFails, At

-----------------------------------------------------------------------------
(* getDaemonPid and startDaemon. *)

LEMMA ReadForStartKeeps ==
  ASSUME DaemonInv, NEW o \in Operators, ReadForStart(o)
  PROVE  WorldOK' /\ CliOK' /\ (~exposed => Safe' /\ DatabaseStays(o))
<1>1. TypeInv /\ CommandsInv /\ CommandInv(o) /\ cli[o].at \in {"probe", "summary"}
      /\ UNCHANGED <<process, pidFile, tree>>
  BY DEF DaemonInv, CommandsInv, ReadForStart
<1>2. \/ At(o, "probe") /\ Moved(o, "check", pidFile)
      \/ At(o, "summary") /\ Moved(o, "verify", pidFile)
  <2>1. pidFile \in Pids \cup {NoPid}
    BY <1>1 DEF TypeInv
  <2> QED BY <1>1, <2>1, CliMoves DEF ReadForStart, At, Places
<1>3. WorldOK'
  BY <1>1 DEF TypeInv, WorldOK, Serving
<1>4. CliOK'
  BY <1>1, <1>2, MovedIsTyped DEF At, CommandInv, Installing, Stopping
<1>5. ASSUME ~exposed PROVE Safe' /\ DatabaseStays(o)
  <2>1. Safe /\ OperatorInv(o)
    BY <1>5 DEF DaemonInv, Safe, OperatorsInv
  <2>2. Collectors' = Collectors /\ Collectors \subseteq {pidFile}
    BY <1>1, <2>1, KnownBeside DEF Safe, At, Collectors
  <2>3. OperatorInv(o)'
    BY <1>1, <1>2, <2>1, <2>2 DEF Moved, OperatorInv, At
  <2>4. Known' /\ DirectoryInv'
    BY <1>1, <2>1, <2>2 DEF Safe, Known, DirectoryInv
  <2> QED BY <1>1, <1>2, <1>4, <2>1, <2>2, <2>3, <2>4, SafeAfterStep DEF Moved, At, DatabaseStays
<1> QED BY <1>3, <1>4, <1>5

LEMMA CheckKeeps ==
  ASSUME DaemonInv, NEW o \in Operators, Check(o)
  PROVE  WorldOK' /\ CliOK' /\ (~exposed => Safe' /\ DatabaseStays(o))
<1> DEFINE p == cli[o].pid
<1>1. TypeInv /\ CommandsInv /\ CommandInv(o) /\ cli[o].at \in {"check", "verify"} /\ UNCHANGED process
  BY DEF DaemonInv, CommandsInv, Check
<1>2. CASE \/ IsOurs(p) /\ Ends(o) /\ UNCHANGED <<pidFile, tree>>
           \/ p = NoPid /\ NoneFound(o) /\ UNCHANGED <<pidFile, tree>>
           \/ p \notin Collectors /\ pidFile' = NoPid /\ NoneFound(o) /\ UNCHANGED tree
  <2>1. \/ Ended(o)
        \/ p \notin Collectors /\ At(o, "check") /\ cli[o].command # "status" /\ Moved(o, "spawn", p)
    BY <1>1, <1>2, CliMoves, NoneFoundLeads, DaemonAssumption DEF IsOurs, Collectors
  <2>2. UNCHANGED tree /\ pidFile' \in {pidFile, NoPid}
    BY <1>2
  <2>3. WorldOK'
    BY <1>1, <2>2 DEF TypeInv, WorldOK, Serving
  <2>4. CliOK'
    BY <1>1, <2>1, MovedIsTyped, EndedIsTyped DEF At, CommandInv, Installing, Stopping, Spawners
  <2>5. ASSUME ~exposed PROVE Safe' /\ DatabaseStays(o)
    <3>1. Safe /\ OperatorInv(o)
      BY <2>5 DEF DaemonInv, Safe, OperatorsInv
    <3>2. Collectors' = Collectors /\ Collectors \subseteq {pidFile} /\ pidFile \in {p, NoPid}
      BY <1>1, <3>1, KnownBeside DEF Safe, OperatorInv, At, Collectors
    <3>3. p \notin Collectors => Collectors = {}
      BY <3>2, DaemonAssumption DEF Collectors
    <3>4. OperatorInv(o)'
      <4>1. CASE Ended(o)
        BY <4>1 DEF Ended, Idle, OperatorInv, At, Spawners
      <4>2. CASE p \notin Collectors /\ At(o, "check") /\ cli[o].command # "status" /\ Moved(o, "spawn", p)
        <5>1. Collectors' = {}
          BY <3>2, <3>3, <4>2
        <5>2. cli[o].command \in Spawners => tree'.dir
          BY <2>2, <3>1, <4>2 DEF OperatorInv, At
        <5>3. cli[o].fresh => ~tree'.database
          BY <2>2, <3>1, <4>2 DEF OperatorInv, At
        <5> QED BY <4>2, <5>1, <5>2, <5>3 DEF Moved, OperatorInv, At
      <4> QED BY <2>1, <4>1, <4>2
    <3>5. Collectors \subseteq {pidFile'}
      BY <1>2, <3>2, <3>3 DEF IsOurs
    <3>6. Known' /\ DirectoryInv'
      BY <2>2, <3>1, <3>2, <3>5 DEF Safe, Known, DirectoryInv
    <3> QED BY <1>1, <2>1, <2>2, <2>4, <3>1, <3>2, <3>4, <3>6, SafeAfterStep DEF Moved, Ended, Idle, At, DatabaseStays
  <2> QED BY <2>3, <2>4, <2>5
<1>3. CASE p # NoPid /\ ~Alive(p) /\ pidFile = NoPid /\ Throws(o)
  <2>1. ~exposed => ~cli[o].fresh
    BY <1>1, <1>3 DEF DaemonInv, OperatorsInv, OperatorInv, CommandInv, Spawners
  <2> QED BY <1>1, <1>3, <2>1, ThrowKeeps DEF At
<1> QED BY <1>2, <1>3 DEF Check, IsOurs

LEMMA SpawnKeeps ==
  ASSUME DaemonInv, NEW o \in Operators, Spawn(o)
  PROVE  WorldOK' /\ CliOK' /\ (~exposed => Safe' /\ DatabaseStays(o))
<1>1. TypeInv /\ CommandsInv /\ CommandInv(o) /\ At(o, "spawn") /\ cli[o].command \in Spawners
  BY DEF DaemonInv, CommandsInv, CommandInv, Spawn, At, Installing
<1>2. ASSUME tree.dir, NEW p \in Pids, ~Alive(p), process' = [process EXCEPT ![p] = "spawned"],
             Holds(o, "record", p), UNCHANGED <<pidFile, tree>>
      PROVE  WorldOK' /\ CliOK' /\ (~exposed => Safe' /\ DatabaseStays(o))
  <2>1. /\ process' \in [Pids -> {"free", "spawned", "opened", "serving", "closing", "foreign", "lookalike"}]
        /\ \A q \in Pids : process'[q] = IF q = p THEN "spawned" ELSE process[q]
        /\ \A q, r \in Serving' : q = r
    BY <1>1, <1>2, ProcessChanges
  <2>2. WorldOK'
    BY <1>1, <1>2, <2>1 DEF TypeInv, WorldOK
  <2>3. Moved(o, "record", p)
    BY <1>1, <1>2, CliMoves DEF Places
  <2>4. CliOK'
    BY <1>1, <2>3, MovedIsTyped DEF At, Installing, Stopping
  <2>5. ASSUME ~exposed PROVE Safe' /\ DatabaseStays(o)
    <3>1. Safe /\ OperatorInv(o)
      BY <2>5 DEF DaemonInv, Safe, OperatorsInv
    <3>2. Collectors' \subseteq {p}
      BY <1>1, <2>1, <3>1 DEF OperatorInv, At, Collectors
    <3>3. OperatorInv(o)'
      BY <1>1, <1>2, <2>3, <3>1, <3>2 DEF Moved, OperatorInv, At
    <3>4. Known' /\ DirectoryInv'
      BY <1>2, <2>3, <3>1 DEF Safe, Moved, Known, DirectoryInv, At
    <3> QED BY <1>1, <1>2, <2>3, <2>4, <3>1, <3>3, <3>4, SafeAfterStep DEF Moved, At, DatabaseStays
  <2> QED BY <2>2, <2>4, <2>5
<1>3. CASE ~tree.dir /\ Throws(o) /\ UNCHANGED process
  <2>1. exposed
    BY <1>1, <1>3 DEF DaemonInv, OperatorsInv, OperatorInv, At
  <2> QED BY <1>1, <1>3, <2>1, ThrowKeeps DEF At
<1> QED BY <1>2, <1>3 DEF Spawn

LEMMA RecordKeeps ==
  ASSUME DaemonInv, NEW o \in Operators, Record(o)
  PROVE  WorldOK' /\ CliOK' /\ (~exposed => Safe' /\ DatabaseStays(o))
<1>1. TypeInv /\ CommandsInv /\ CommandInv(o) /\ At(o, "record") /\ cli[o].command \in Spawners /\ UNCHANGED process
  BY DEF DaemonInv, CommandsInv, CommandInv, Record, At, Installing
<1>2. CASE tree.dir
  <2>1. pidFile' = cli[o].pid /\ UNCHANGED tree
    BY <1>2 DEF Record
  <2>2. Ended(o) \/ Moved(o, "summary", cli[o].pid)
    BY <1>1, <1>2, CliMoves DEF Record, Places
  <2>3. cli[o].pid \in Pids \cup {NoPid}
    BY <1>1 DEF TypeInv, CliRecord
  <2>4. WorldOK'
    BY <1>1, <2>1, <2>3 DEF TypeInv, WorldOK, Serving
  <2>5. CliOK'
    BY <1>1, <2>2, MovedIsTyped, EndedIsTyped DEF At, Installing, Stopping
  <2>6. ASSUME ~exposed PROVE Safe' /\ DatabaseStays(o)
    <3>1. Safe /\ OperatorInv(o)
      BY <2>6 DEF DaemonInv, Safe, OperatorsInv
    <3>2. Collectors' \subseteq {pidFile'} /\ Collectors' = Collectors
      BY <1>1, <2>1, <3>1 DEF OperatorInv, At, Collectors
    <3>3. OperatorInv(o)'
      BY <1>2, <2>1, <2>2 DEF Ended, Moved, Idle, OperatorInv, At, Spawners
    <3>4. Known' /\ DirectoryInv'
      BY <2>1, <3>1, <3>2 DEF Safe, Known, DirectoryInv
    <3> QED BY <1>1, <2>1, <2>2, <2>5, <3>1, <3>3, <3>4, SafeAfterStep DEF Moved, Ended, Idle, At, DatabaseStays
  <2> QED BY <2>4, <2>5, <2>6
<1>3. CASE ~tree.dir
  <2>1. Throws(o)
    BY <1>3 DEF Record
  <2>2. exposed
    BY <1>1, <1>3 DEF DaemonInv, OperatorsInv, OperatorInv, At
  <2>3. /\ Ended(o)
        /\ \/ cli[o].fresh /\ tree' = NoTree /\ pidFile' = NoPid
           \/ ~cli[o].fresh /\ UNCHANGED <<tree, pidFile>>
    BY <1>1, <2>1, ThrowsLeads
  <2>4. WorldOK' /\ CliOK'
    BY <1>1, <2>3, NoTreeTyped, EndedIsTyped DEF TypeInv, WorldOK, Serving
  <2> QED BY <2>2, <2>4
<1> QED BY <1>2, <1>3

-----------------------------------------------------------------------------
(* Where the pid file is lost, only the typing remains to be shown. *)

LEMMA CheckFailsTyped ==
  ASSUME DaemonInv, NEW o \in Operators, CheckFails(o)
  PROVE  WorldOK' /\ CliOK'
<1>1. TypeInv /\ CommandsInv /\ CommandInv(o) /\ cli[o].at \in {"check", "verify"} /\ UNCHANGED <<process, tree>>
  BY DEF DaemonInv, CommandsInv, CheckFails
<1>2. Ended(o) \/ (At(o, "check") /\ cli[o].command # "status" /\ Moved(o, "spawn", cli[o].pid))
  BY <1>1, NoneFoundLeads DEF CheckFails
<1>3. WorldOK'
  BY <1>1 DEF CheckFails, TypeInv, WorldOK, Serving
<1>4. CliOK'
  BY <1>1, <1>2, MovedIsTyped, EndedIsTyped DEF At, CommandInv, Installing, Stopping, Spawners
<1> QED BY <1>3, <1>4

LEMMA RecordFailsTyped ==
  ASSUME DaemonInv, NEW o \in Operators, RecordFails(o)
  PROVE  WorldOK' /\ CliOK'
<1>1. TypeInv /\ CommandsInv /\ UNCHANGED process /\ Throws(o)
  BY DEF DaemonInv, RecordFails
<1>2. /\ Ended(o)
      /\ \/ cli[o].fresh /\ tree' = NoTree /\ pidFile' = NoPid
         \/ ~cli[o].fresh /\ UNCHANGED <<tree, pidFile>>
  BY <1>1, ThrowsLeads
<1> QED BY <1>1, <1>2, NoTreeTyped, EndedIsTyped DEF TypeInv, WorldOK, Serving

-----------------------------------------------------------------------------
(* A command begins. *)

Begun(o, command) ==
  /\ command \in Commands /\ FirstStep(command) # "idle"
  /\ cli'[o].command = command /\ cli'[o].at = FirstStep(command)
  /\ cli'[o].fresh <=> command = "init" /\ ~IsUpgrade
  /\ \A q \in Operators \ {o} : cli'[q] = cli[q]

\* A first command finds the directory as the former ones left it; a second one
\* begins beside no command that spawns, and spawns nothing itself.
LEMMA BeginKeeps ==
  ASSUME DaemonInv, NEW o \in Operators, Begin(o)
  PROVE  WorldOK' /\ CliOK' /\ (~exposed' => Safe') /\ commands' \in 0 .. MaxCommands
         /\ exposed' \in BOOLEAN /\ expected' \in BOOLEAN
<1>1. TypeInv /\ CommandsInv /\ At(o, "idle") /\ UNCHANGED <<process, pidFile, tree>> /\ Safe
  BY DEF DaemonInv, Begin, Safe
<1>2. WorldOK'
  BY <1>1 DEF TypeInv, WorldOK, Serving
<1>3. PICK command \in Commands :
        /\ FirstStep(command) # "idle"
        /\ cli' = [cli EXCEPT ![o] =
             [command |-> command, at |-> FirstStep(command), pid |-> NoPid,
              fresh |-> command = "init" /\ ~IsUpgrade]]
        /\ expected' = (expected /\ command \in {"start", "status"})
  BY DEF Begin
<1>4. FirstStep(command) \in {"read", "layout", "probe"}
  BY <1>3 DEF FirstStep
<1>5. PICK f \in BOOLEAN : f = (command = "init" /\ ~IsUpgrade)
  BY Zenon
<1>6. cli' \in [Operators -> CliRecord] /\ Begun(o, command)
  <2>1. cli \in [Operators -> CliRecord]
    BY <1>1 DEF TypeInv
  <2>2. PICK r : r = [command |-> command, at |-> FirstStep(command), pid |-> NoPid, fresh |-> f]
    OBVIOUS
  <2>3. r \in CliRecord
    BY <1>4, <2>2 DEF CliRecord, Places
  <2>4. cli' = [cli EXCEPT ![o] = r]
    BY <1>3, <1>5, <2>2
  <2>5. cli' \in [Operators -> CliRecord] /\ cli'[o] = r /\ \A q \in Operators \ {o} : cli'[q] = cli[q]
    BY <2>1, <2>3, <2>4
  <2>6. r.command = command /\ r.at = FirstStep(command) /\ r.fresh = f
    BY <2>2
  <2> QED BY <1>3, <1>5, <2>5, <2>6 DEF Begun
<1>7. CliOK'
  <2>1. ASSUME NEW q \in Operators, q # o PROVE CommandInv(q)'
    BY <1>1, <1>6, <2>1 DEF Begun, CommandsInv, CommandInv, At
  <2>2. CommandInv(o)'
    BY <1>4, <1>6 DEF Begun, CommandInv, FirstStep, Commands, At, Installing, Stopping, Spawners
  <2> QED BY <1>6, <2>1, <2>2 DEF CliOK, CommandsInv
<1>8. ASSUME ~exposed' PROVE Safe'
  <2>1. Quiet \/ \A other \in Operators : cli'[other].command \notin Spawners
    BY <1>8 DEF Begin
  <2>2. Alone'
    BY <1>6, <2>1 DEF Quiet, Alone, Begun, At
  <2>3. Collectors' = Collectors
    BY <1>1 DEF Collectors
  <2>4. Known' /\ DirectoryInv'
    BY <1>1, <1>6, <2>3 DEF Safe, Known, DirectoryInv, Begun, At
  <2>5. ASSUME NEW q \in Operators, q # o PROVE OperatorInv(q)'
    BY <1>1, <1>6, <2>3, <2>5 DEF Safe, OperatorsInv, OperatorInv, Begun, At
  <2>6. OperatorInv(o)'
    BY <1>1, <1>4, <1>6, <2>3 DEF Safe, DirectoryInv, OperatorInv, Begun, FirstStep, IsUpgrade, IsInstalled, At, Spawners
  <2> QED BY <2>2, <2>4, <2>5, <2>6 DEF Safe, OperatorsInv
<1>9. commands' \in 0 .. MaxCommands
  BY <1>1, DaemonAssumption DEF TypeInv, Begin
<1>10. exposed' \in BOOLEAN
  BY Zenon DEF Begin
<1>11. expected' \in BOOLEAN
  BY <1>3, Zenon
<1> QED BY <1>2, <1>7, <1>8, <1>9, <1>10, <1>11

-----------------------------------------------------------------------------
(* The processes move of their own: there are fewer collectors, not more. *)

LEMMA SafeWithFewer ==
  ASSUME Safe, Collectors' \subseteq Collectors, UNCHANGED <<pidFile, cli>>,
         tree' = tree \/ (tree'.dir /\ Collectors # {})
  PROVE  Safe'
<1>1. Alone' /\ Known'
  BY DEF Safe, Alone, Known, At
<1>2. DirectoryInv'
  BY DEF Safe, DirectoryInv
<1>3. ASSUME NEW q \in Operators PROVE OperatorInv(q)'
  BY <1>3 DEF Safe, OperatorsInv, OperatorInv, DirectoryInv, At
<1> QED BY <1>1, <1>2, <1>3 DEF Safe, OperatorsInv

LEMMA ProcessKeeps ==
  ASSUME DaemonInv, NEW p \in Pids, ProcessStep(p)
  PROVE  WorldOK' /\ UNCHANGED <<pidFile, cli>> /\ (Safe => Safe') /\ (tree.database => tree'.database)
<1>1. TypeInv /\ p \in Collectors /\ UNCHANGED <<pidFile, cli>>
  BY DEF DaemonInv, ProcessStep, OpenDatabase, BootFails, Listen, CloseEnds, Collectors
<1>2. PICK state \in {"free", "opened", "serving"} :
        process' = [process EXCEPT ![p] = state] /\ (state = "serving" => Serving = {})
  BY DEF ProcessStep, OpenDatabase, BootFails, Listen, CloseEnds, Becomes
<1>3. /\ process' \in [Pids -> {"free", "spawned", "opened", "serving", "closing", "foreign", "lookalike"}]
      /\ \A q \in Pids : process'[q] = IF q = p THEN state ELSE process[q]
      /\ \A q, r \in Serving' : q = r
  BY <1>1, <1>2, ProcessChanges
<1>4. Collectors' \subseteq Collectors
  BY <1>1, <1>3 DEF Collectors
<1>5. /\ tree' \in [dir : BOOLEAN, package : BOOLEAN, payload : {"none", "partial", "complete"},
                    settings : BOOLEAN, database : BOOLEAN]
      /\ tree' = tree \/ (tree'.dir /\ tree'.database)
  <2>1. tree' = tree \/ tree' = [tree EXCEPT !.dir = TRUE, !.database = TRUE]
    BY DEF ProcessStep, OpenDatabase, BootFails, Listen, CloseEnds
  <2>2. TRUE \in BOOLEAN
    BY Zenon
  <2> QED BY <1>1, <2>1, <2>2 DEF TypeInv
<1>6. WorldOK'
  BY <1>1, <1>3, <1>5 DEF TypeInv, WorldOK
<1>7. Safe => Safe'
  BY <1>1, <1>4, <1>5, SafeWithFewer
<1> QED BY <1>1, <1>5, <1>6, <1>7

LEMMA AccidentKeeps ==
  ASSUME DaemonInv, NEW p \in Pids, Accident(p)
  PROVE  WorldOK' /\ UNCHANGED <<pidFile, cli, tree>> /\ (Safe => Safe') /\ expected' \in BOOLEAN
<1>1. TypeInv /\ UNCHANGED <<pidFile, cli, tree>>
  BY DEF DaemonInv, Accident
<1>2. PICK state \in {"free", "foreign", "lookalike"} : process' = [process EXCEPT ![p] = state]
  BY DEF Accident, Dies, Reused, Becomes
<1>3. /\ process' \in [Pids -> {"free", "spawned", "opened", "serving", "closing", "foreign", "lookalike"}]
      /\ \A q \in Pids : process'[q] = IF q = p THEN state ELSE process[q]
      /\ \A q, r \in Serving' : q = r
  BY <1>1, <1>2, ProcessChanges
<1>4. Collectors' \subseteq Collectors
  BY <1>3 DEF Collectors
<1>5. WorldOK'
  BY <1>1, <1>3 DEF TypeInv, WorldOK
<1>6. Safe => Safe'
  BY <1>1, <1>4, SafeWithFewer
<1>7. expected' \in BOOLEAN
  <2>1. expected \in BOOLEAN
    BY <1>1 DEF TypeInv
  <2>2. expected' = FALSE \/ expected' = expected
    BY DEF Accident, Dies, Reused
  <2> QED BY <2>1, <2>2, Zenon
<1> QED BY <1>1, <1>5, <1>6, <1>7

-----------------------------------------------------------------------------
(* The invariant. *)

LEMMA StepKeeps ==
  ASSUME DaemonInv, NEW o \in Operators, StopStep(o) \/ FileStep(o) \/ StartStep(o)
  PROVE  WorldOK' /\ CliOK' /\ (~exposed => Safe' /\ DatabaseStays(o))
<1>1. CASE StopStep(o)
  BY <1>1, ReadForStopKeeps, SignalKeeps, WaitsKeeps, UnlinksKeeps DEF StopStep
<1>2. CASE FileStep(o)
  BY <1>2, InstallKeeps, UninstallKeeps DEF FileStep
<1>3. CASE StartStep(o)
  BY <1>3, ReadForStartKeeps, CheckKeeps, SpawnKeeps, RecordKeeps DEF StartStep
<1> QED BY <1>1, <1>2, <1>3

LEMMA InitKeeps ==
  ASSUME Init
  PROVE  DaemonInv
<1>1. FALSE \in BOOLEAN
  BY Zenon
<1>2. Idle \in CliRecord
  BY <1>1 DEF Idle, CliRecord, Places, Commands
<1>3. TypeInv
  <2>1. cli \in [Operators -> CliRecord]
    BY <1>2 DEF Init
  <2>2. exposed \in BOOLEAN /\ expected \in BOOLEAN
    BY <1>1 DEF Init
  <2>3. Serving = {}
    BY DEF Init, Serving
  <2> QED BY <2>1, <2>2, <2>3, NoTreeTyped, DaemonAssumption DEF Init, TypeInv
<1>4. CommandsInv
  BY DEF Init, Idle, CommandsInv, CommandInv, At, Installing, Stopping
<1>5. Collectors = {}
  BY DEF Init, Collectors
<1>6. Alone /\ Known /\ DirectoryInv
  BY <1>5 DEF Init, Idle, NoTree, Alone, Known, DirectoryInv, At
<1>7. OperatorsInv
  BY DEF Init, Idle, OperatorsInv, OperatorInv, At, Spawners
<1> QED BY <1>3, <1>4, <1>6, <1>7 DEF DaemonInv

\* What a step does to the bounds and to the history.
CountsOK ==
  /\ commands \in 0 .. MaxCommands
  /\ accidents \in 0 .. MaxAccidents
  /\ exposed \in BOOLEAN
  /\ expected \in BOOLEAN

LEMMA InvFromParts ==
  ASSUME WorldOK', CliOK', CountsOK', ~exposed' => Safe'
  PROVE  DaemonInv'
BY DEF WorldOK, CliOK, CountsOK, Safe, DaemonInv, TypeInv

LEMMA StepKeepsInvariant ==
  ASSUME DaemonInv, [Next]_vars
  PROVE  DaemonInv'
<1>1. CountsOK
  BY DEF DaemonInv, TypeInv, CountsOK
<1>2. WorldOK /\ CliOK /\ (~exposed => Safe)
  BY DEF DaemonInv, TypeInv, WorldOK, CliOK, Safe
<1>3. FALSE \in BOOLEAN /\ TRUE \in BOOLEAN
  BY Zenon
<1>4. ASSUME NEW o \in Operators, Begin(o) PROVE DaemonInv'
  <2>1. accidents' = accidents
    BY <1>4 DEF Begin
  <2> QED BY <1>1, <1>4, <2>1, BeginKeeps, InvFromParts DEF CountsOK
<1>5. ASSUME NEW o \in Operators, Step(o) PROVE DaemonInv'
  <2>1. WorldOK' /\ CliOK' /\ (~exposed => Safe') /\ UNCHANGED <<commands, accidents, exposed>>
    BY <1>5, StepKeeps DEF Step
  <2>2. expected' \in BOOLEAN
    BY <1>5, Zenon DEF Step
  <2> QED BY <1>1, <2>1, <2>2, InvFromParts DEF CountsOK
<1>6. ASSUME NEW o \in Operators, Fails(o) PROVE DaemonInv'
  <2>1. CASE InitFails(o) /\ UNCHANGED <<commands, exposed, expected>>
    <3>1. accidents' \in 0 .. MaxAccidents
      BY <1>1, <2>1, DaemonAssumption DEF InitFails, CountsOK
    <3> QED BY <1>1, <2>1, <3>1, InitFailsKeeps, InvFromParts DEF CountsOK
  <2>2. CASE CheckFails(o)
    <3>1. accidents' \in 0 .. MaxAccidents /\ commands' = commands /\ exposed' = TRUE /\ expected' = FALSE
      BY <1>1, <2>2, DaemonAssumption DEF CheckFails, CountsOK
    <3>2. CountsOK'
      BY <1>1, <1>3, <3>1 DEF CountsOK
    <3> QED BY <2>2, <3>1, <3>2, CheckFailsTyped, InvFromParts
  <2>3. CASE RecordFails(o)
    <3>1. accidents' \in 0 .. MaxAccidents /\ commands' = commands /\ exposed' = TRUE /\ expected' = FALSE
      BY <1>1, <2>3, DaemonAssumption DEF RecordFails, CountsOK
    <3>2. CountsOK'
      BY <1>1, <1>3, <3>1 DEF CountsOK
    <3> QED BY <2>3, <3>1, <3>2, RecordFailsTyped, InvFromParts
  <2> QED BY <1>6, <2>1, <2>2, <2>3 DEF Fails
<1>7. ASSUME UNCHANGED cli, CliOK PROVE CliOK'
  BY <1>7 DEF CliOK, CommandsInv, CommandInv, At
<1>8. ASSUME NEW p \in Pids, ProcessStep(p), UNCHANGED <<commands, accidents, exposed, expected>>
      PROVE  DaemonInv'
  BY <1>1, <1>2, <1>7, <1>8, ProcessKeeps, InvFromParts DEF CountsOK
<1>9. ASSUME NEW p \in Pids, Accident(p) PROVE DaemonInv'
  <2>1. accidents' \in 0 .. MaxAccidents /\ UNCHANGED <<commands, exposed>>
    BY <1>1, <1>9, DaemonAssumption DEF Accident, CountsOK
  <2> QED BY <1>1, <1>2, <1>7, <1>9, <2>1, AccidentKeeps, InvFromParts DEF CountsOK
<1>10. ASSUME UNCHANGED vars PROVE DaemonInv'
  <2>1. Collectors' = Collectors /\ Serving' = Serving
    BY <1>10 DEF vars, Collectors, Serving
  <2>2. Safe => Safe'
    BY <1>10, <2>1, SafeWithFewer DEF vars
  <2> QED BY <1>1, <1>2, <1>7, <1>10, <2>1, <2>2, InvFromParts DEF vars, CountsOK, WorldOK
<1> QED BY <1>4, <1>5, <1>6, <1>8, <1>9, <1>10 DEF Next

\* What every reachable state satisfies: what a command has read of the pid file
\* and of the directory still holds where it relies on it.
THEOREM DaemonInvariant == Spec => []DaemonInv
BY InitKeeps, StepKeepsInvariant, PTL DEF Spec

-----------------------------------------------------------------------------
(* The properties. *)

LEMMA AtMostOne ==
  ASSUME NEW S, \A x, y \in S : x = y
  PROVE  Cardinality(S) <= 1
<1>1. CASE S = {}
  BY <1>1, FS_EmptySet
<1>2. CASE S # {}
  <2>1. PICK x \in S : S = {x}
    BY <1>2
  <2> QED BY <2>1, FS_Singleton
<1> QED BY <1>1, <1>2

LEMMA InvGivesOneCollector ==
  ASSUME DaemonInv
  PROVE  OneCollector
<1>1. DaemonTypeOK
  <2>1. TypeInv
    BY DEF DaemonInv
  <2>2. Cardinality(Serving) <= 1
    BY <2>1, AtMostOne DEF TypeInv
  <2>3. CliRecord = [command : Commands \cup {"none"}, at : Places, pid : Pids \cup {NoPid}, fresh : BOOLEAN]
    BY DEF CliRecord
  <2> QED BY <2>1, <2>2 DEF TypeInv, DaemonTypeOK, CliRecord, Places
<1>2. OnlyTheRecordedRuns
  BY DEF DaemonInv, Known, OnlyTheRecordedRuns, Quiet, At
<1>3. OneDatabaseUser
  <2>1. ASSUME ~exposed, NEW x \in WithDatabase, NEW y \in WithDatabase PROVE x = y
    <3>1. x \in Collectors /\ y \in Collectors
      BY <2>1 DEF WithDatabase, Collectors
    <3>2. CASE Collectors \subseteq {pidFile}
      BY <3>1, <3>2
    <3>3. ASSUME NEW o \in Operators, At(o, "record") PROVE x = y
      BY <2>1, <3>1, <3>3 DEF DaemonInv, OperatorsInv, OperatorInv
    <3> QED BY <2>1, <3>2, <3>3 DEF DaemonInv, Known
  <2> QED BY <2>1, AtMostOne DEF OneDatabaseUser
<1> QED BY <1>1, <1>2, <1>3 DEF OneCollector

\* Of any number of commands and daemons there is one collector, the pid file
\* knows it between commands, and none opens the database beside another.
THEOREM OneCollectorRuns == Spec => []OneCollector
BY DaemonInvariant, InvGivesOneCollector, PTL

\* As long as no command overlaps one that spawns, the database is removed by the
\* last step of a plain uninstall and by no other step: not by an upgrade, nor by
\* an init that fails and cleans up after itself.
THEOREM DatabaseSurvives == Spec => DataSurvives
<1>1. ASSUME DaemonInv, [Next]_vars, tree.database, ~tree'.database, ~exposed'
      PROVE  \E o \in Operators : cli[o].command = "uninstall" /\ At(o, "remove")
  <2>1. ASSUME NEW o \in Operators, Step(o)
        PROVE  cli[o].command = "uninstall" /\ At(o, "remove")
    BY <1>1, <2>1, StepKeeps DEF Step, DatabaseStays
  <2>2. ASSUME NEW o \in Operators, Fails(o)
        PROVE  cli[o].command = "uninstall" /\ At(o, "remove")
    BY <1>1, <2>2, InitFailsKeeps DEF Fails, CheckFails, RecordFails, DatabaseStays
  <2>3. ASSUME NEW o \in Operators, Begin(o) PROVE FALSE
    BY <1>1, <2>3 DEF Begin
  <2>4. ASSUME NEW p \in Pids, ProcessStep(p) \/ Accident(p) PROVE FALSE
    BY <1>1, <2>4, ProcessKeeps, AccidentKeeps
  <2> QED BY <1>1, <2>1, <2>2, <2>3, <2>4 DEF Next, vars
<1>2. DaemonInv /\ [Next]_vars
        => [tree.database /\ ~tree'.database /\ ~exposed'
              => \E o \in Operators : cli[o].command = "uninstall" /\ At(o, "remove")]_vars
  BY <1>1
<1> QED BY <1>2, DaemonInvariant, PTL DEF Spec, DataSurvives
===============================================================================
