--------------------------- MODULE DaemonLifecycle ---------------------------
(***************************************************************************)
(* How daemons come and go: `lk daemon start`, `stop` and `run`            *)
(* (crates/cli/src/daemon.rs) and the socket a daemon binds                *)
(* (crates/ipc/src/server.rs).                                             *)
(*                                                                         *)
(* Everybody works through two names in the file system, daemon.pid and    *)
(* the socket, without a lock.  Commands and daemons are cut at each       *)
(* access to one of them, to the process table, and at each signal.  What  *)
(* a daemon answers is the subject of module Daemon.                       *)
(***************************************************************************)
EXTENDS Naturals, FiniteSets

CONSTANTS
    None,
    Torn,           \* a PID file that is being written, or whose writer died
    Pid,            \* process numbers
    Cmd,            \* commands that may run at a time
    Orders,         \* the commands users run
    MaxOrders,      \* bound: how many commands
    Reuse,          \* the numbers of dead processes are given away again
    CrashAt,        \* the stages in which daemons may be killed
    MaxFaults       \* bound: kills and failed accepts

VARIABLES
    proc,           \* proc[p]: the stage of process p
    term,           \* term[p]: how far p is with its SIGTERM
    opened,         \* processes whose open PID file is the one with a name
    pidfile,        \* the content of daemon.pid
    socket,         \* the process that bound what the socket's name refers to
    cpc,            \* cpc[c]: where command c is
    held,           \* held[c]: the process number it read
    orders, faults,
    wanted          \* history: what the last command should lead to

daemons == <<proc, term, opened>>
names == <<pidfile, socket>>
commands == <<cpc, held>>
vars == <<daemons, names, commands, orders, faults, wanted>>

(* "other" is a process that has nothing to do with lockit. *)
Early == {"spawned", "writing", "written"}
Stages == Early \cup {"handling", "unlinking", "binding", "bound", "serving",
                      "failing"}

ASSUME LifecycleAssumption ==
    /\ None \notin Pid /\ Torn \notin Pid /\ None # Torn
    /\ Orders \subseteq {"start", "stop", "run"}
    /\ Reuse \in BOOLEAN
    /\ CrashAt \subseteq Stages
    /\ MaxOrders \in Nat /\ MaxFaults \in Nat

(* Types of the variables. *)
TypeOK ==
    /\ proc \in [Pid -> Stages \cup {"free", "other"}]
    /\ term \in [Pid -> {"no", "sent", "cleaned"}]
    /\ opened \subseteq Pid
    /\ pidfile \in Pid \cup {None, Torn}
    /\ socket \in Pid \cup {None}
    /\ cpc \in [Cmd -> {"idle", "startCheck", "startClean", "spawn",
                        "stopCheck", "stopClean", "kill"}]
    /\ held \in [Cmd -> Pid \cup {None}]
    /\ orders \in Nat /\ faults \in Nat
    /\ wanted \in {"any", "up", "down"}

Init ==
    /\ proc = [p \in Pid |-> "free"]
    /\ term = [p \in Pid |-> "no"]
    /\ opened = {}
    /\ pidfile = None /\ socket = None
    /\ cpc = [c \in Cmd |-> "idle"]
    /\ held = [c \in Cmd |-> None]
    /\ orders = 0 /\ faults = 0 /\ wanted = "any"

-----------------------------------------------------------------------------
Become(p, stage) == proc' = [proc EXCEPT ![p] = stage]

(* The process is gone; the names it made stay. *)
Gone(p) ==
    /\ Become(p, "free")
    /\ term' = [term EXCEPT ![p] = "no"]
    /\ opened' = opened \ {p}

(* remove_pid; a file somebody has open loses its name. *)
RemovePid == pidfile' = None /\ opened' = {}

Running(p) == proc[p] # "free"

(* A number somebody still has in mind is given away only under Reuse. *)
MayStartAs(p) ==
    /\ proc[p] = "free"
    /\ Reuse \/ (pidfile # p /\ socket # p /\ \A c \in Cmd : held[c] # p)

Fault == faults < MaxFaults /\ faults' = faults + 1

CmdGoto(c, label, pid) ==
    /\ cpc' = [cpc EXCEPT ![c] = label]
    /\ held' = [held EXCEPT ![c] = pid]

CmdEnds(c) == CmdGoto(c, "idle", None)

-----------------------------------------------------------------------------
(* The commands.  A PID file that does not parse ends each of them.        *)
Ordered(c, order) ==
    /\ cpc[c] = "idle"
    /\ order \in Orders
    /\ orders < MaxOrders
    /\ orders' = orders + 1

StartDaemon(c) ==
    /\ Ordered(c, "start")
    /\ wanted' = "up"
    /\ \/ pidfile = None /\ CmdGoto(c, "spawn", None)
       \/ pidfile \in Pid /\ CmdGoto(c, "startCheck", pidfile)
       \/ pidfile = Torn /\ CmdEnds(c)
    /\ UNCHANGED <<daemons, names, faults>>

(* Mutant of StartCheck: takes every PID file for a stale one. *)
StartCheckNever(c) ==
    /\ cpc[c] = "startCheck"
    /\ CmdGoto(c, "startClean", None)
    /\ UNCHANGED <<daemons, names, orders, faults, wanted>>

StartCheck(c) ==
    /\ cpc[c] = "startCheck"
    /\ IF Running(held[c]) THEN CmdEnds(c) ELSE CmdGoto(c, "startClean", None)
    /\ UNCHANGED <<daemons, names, orders, faults, wanted>>

(* Mutant of StartClean: empties the stale file. *)
StartCleanEmpties(c) ==
    /\ cpc[c] = "startClean"
    /\ pidfile' = Torn
    /\ CmdGoto(c, "spawn", None)
    /\ UNCHANGED <<daemons, socket, orders, faults, wanted>>

StartClean(c) ==
    /\ cpc[c] = "startClean"
    /\ RemovePid
    /\ CmdGoto(c, "spawn", None)
    /\ UNCHANGED <<proc, term, socket, orders, faults, wanted>>

Spawn(c) ==
    /\ cpc[c] = "spawn"
    /\ \E p \in Pid : MayStartAs(p) /\ Become(p, "spawned")
    /\ CmdEnds(c)
    /\ UNCHANGED <<term, opened, names, orders, faults, wanted>>

(* `lk daemon run` does not look for another daemon. *)
RunDaemon(c) ==
    /\ Ordered(c, "run")
    /\ wanted' = "up"
    /\ CmdGoto(c, "spawn", None)
    /\ UNCHANGED <<daemons, names, faults>>

StopDaemon(c) ==
    /\ Ordered(c, "stop")
    /\ wanted' = "down"
    /\ \/ pidfile \in Pid /\ CmdGoto(c, "stopCheck", pidfile)
       \/ pidfile \notin Pid /\ CmdEnds(c)
    /\ UNCHANGED <<daemons, names, faults>>

StopCheck(c) ==
    /\ cpc[c] = "stopCheck"
    /\ IF Running(held[c])
       THEN CmdGoto(c, "kill", held[c])
       ELSE CmdGoto(c, "stopClean", None)
    /\ UNCHANGED <<daemons, names, orders, faults, wanted>>

StopClean(c) ==
    /\ cpc[c] = "stopClean"
    /\ RemovePid
    /\ CmdEnds(c)
    /\ UNCHANGED <<proc, term, socket, orders, faults, wanted>>

(* SIGTERM ends a process that did not install a handler. *)
Kill(c) ==
    /\ cpc[c] = "kill"
    /\ LET p == held[c]
       IN  \/ proc[p] = "free" /\ UNCHANGED daemons
           \/ proc[p] \in Early \cup {"other"} /\ Gone(p)
           \/ /\ proc[p] \in Stages \ Early
              /\ term' = [term EXCEPT ![p] = IF @ = "no" THEN "sent" ELSE @]
              /\ UNCHANGED <<proc, opened>>
    /\ CmdEnds(c)
    /\ UNCHANGED <<names, orders, faults, wanted>>

-----------------------------------------------------------------------------
(* run_daemon_async.  write_pid opens, fills, and sets the file's mode.    *)
(* Two that write at a time write numbers of the same length.              *)
OpenPidFile(p) ==
    /\ proc[p] = "spawned"
    /\ pidfile' = Torn
    /\ opened' = opened \cup {p}
    /\ Become(p, "writing")
    /\ UNCHANGED <<term, socket, commands, orders, faults, wanted>>

FillPidFile(p) ==
    /\ proc[p] = "writing"
    /\ pidfile' = IF p \in opened THEN p ELSE pidfile
    /\ opened' = opened \ {p}
    /\ Become(p, "written")
    /\ UNCHANGED <<term, socket, commands, orders, faults, wanted>>

(* Mutant of InstallHandler: `let _ = PidGuard` drops the guard at once. *)
InstallHandlerDroppingGuard(p) ==
    /\ proc[p] = "written"
    /\ RemovePid
    /\ Become(p, "handling")
    /\ UNCHANGED <<term, socket, commands, orders, faults, wanted>>

(* Without its PID file the mode cannot be set, and the daemon gives up.   *)
InstallHandler(p) ==
    /\ proc[p] = "written"
    /\ \/ pidfile = None /\ Gone(p)
       \/ pidfile # None /\ Become(p, "handling") /\ UNCHANGED <<term, opened>>
    /\ UNCHANGED <<names, commands, orders, faults, wanted>>

(* Mutant of CheckSocket: leaves a stale socket to bind. *)
CheckSocketNever(p) ==
    /\ proc[p] = "handling"
    /\ Become(p, "binding")
    /\ UNCHANGED <<term, opened, names, commands, orders, faults, wanted>>

(* IpcServer::bind: exists, remove_file, bind, set_permissions.  The name  *)
(* is removed whoever bound it; an error fails the daemon.                 *)
CheckSocket(p) ==
    /\ proc[p] = "handling"
    /\ Become(p, IF socket = None THEN "binding" ELSE "unlinking")
    /\ UNCHANGED <<term, opened, names, commands, orders, faults, wanted>>

UnlinkSocket(p) ==
    /\ proc[p] = "unlinking"
    /\ Become(p, IF socket = None THEN "failing" ELSE "binding")
    /\ socket' = None
    /\ UNCHANGED <<term, opened, pidfile, commands, orders, faults, wanted>>

BindSocket(p) ==
    /\ proc[p] = "binding"
    /\ \/ socket = None /\ socket' = p /\ Become(p, "bound")
       \/ socket # None /\ Become(p, "failing") /\ UNCHANGED socket
    /\ UNCHANGED <<term, opened, pidfile, commands, orders, faults, wanted>>

SetSocketMode(p) ==
    /\ proc[p] = "bound"
    /\ Become(p, IF socket = None THEN "failing" ELSE "serving")
    /\ UNCHANGED <<term, opened, names, commands, orders, faults, wanted>>

(* accept fails: IpcServer::drop removes the socket's name. *)
ServeFails(p) ==
    /\ proc[p] = "serving"
    /\ Fault
    /\ wanted' = "any"
    /\ socket' = None
    /\ Become(p, "failing")
    /\ UNCHANGED <<term, opened, pidfile, commands, orders>>

(* Mutant of Fail: removes the socket on every error. *)
FailRemovingSocket(p) ==
    /\ proc[p] = "failing"
    /\ Become(p, "free")
    /\ term' = [term EXCEPT ![p] = "no"]
    /\ RemovePid
    /\ socket' = None
    /\ UNCHANGED <<commands, orders, faults, wanted>>

(* PidGuard::drop, and the process ends. *)
Fail(p) ==
    /\ proc[p] = "failing"
    /\ Become(p, "free")
    /\ term' = [term EXCEPT ![p] = "no"]
    /\ RemovePid
    /\ UNCHANGED <<socket, commands, orders, faults, wanted>>

(* The SIGTERM task: remove_pid, then exit.  Nobody removes the socket.    *)
TermCleans(p) ==
    /\ term[p] = "sent"
    /\ term' = [term EXCEPT ![p] = "cleaned"]
    /\ RemovePid
    /\ UNCHANGED <<proc, socket, commands, orders, faults, wanted>>

TermExits(p) ==
    /\ term[p] = "cleaned"
    /\ Gone(p)
    /\ UNCHANGED <<names, commands, orders, faults, wanted>>

(* SIGKILL, a power failure. *)
Crash(p) ==
    /\ proc[p] \in CrashAt
    /\ Fault
    /\ wanted' = "any"
    /\ Gone(p)
    /\ UNCHANGED <<names, commands, orders>>

(* An unrelated process is given a dead daemon's number; there is always   *)
(* another number left.                                                    *)
OtherStarts(p) ==
    /\ Reuse
    /\ proc[p] = "free"
    /\ \E q \in Pid \ {p} : proc[q] = "free"
    /\ Become(p, "other")
    /\ UNCHANGED <<term, opened, names, commands, orders, faults, wanted>>

-----------------------------------------------------------------------------
Order(c) == StartDaemon(c) \/ RunDaemon(c) \/ StopDaemon(c)

CmdStep(c) ==
    \/ StartCheck(c) \/ StartClean(c) \/ Spawn(c)
    \/ StopCheck(c) \/ StopClean(c) \/ Kill(c)

DaemonStep(p) ==
    \/ OpenPidFile(p) \/ FillPidFile(p) \/ InstallHandler(p)
    \/ CheckSocket(p) \/ UnlinkSocket(p) \/ BindSocket(p) \/ SetSocketMode(p)
    \/ Fail(p) \/ TermCleans(p) \/ TermExits(p)

Happens(p) == ServeFails(p) \/ Crash(p) \/ OtherStarts(p)

Next ==
    \/ \E c \in Cmd : Order(c) \/ CmdStep(c)
    \/ \E p \in Pid : DaemonStep(p) \/ Happens(p)

Spec == Init /\ [][Next]_vars

(* A user who waits until the last command has ended and its daemon has    *)
(* come up or gone.                                                        *)
Settled ==
    /\ \A c \in Cmd : cpc[c] = "idle"
    /\ \A p \in Pid : proc[p] \in {"free", "other", "serving"} /\ term[p] = "no"

SerialNext ==
    \/ \E c \in Cmd : (Settled /\ Order(c)) \/ CmdStep(c)
    \/ \E p \in Pid : DaemonStep(p) \/ Happens(p)

(* The kernel runs every process; users and failures owe nothing. *)
Fairness ==
    /\ \A c \in Cmd : WF_vars(CmdStep(c))
    /\ \A p \in Pid : WF_vars(DaemonStep(p)) /\ WF_vars(TermCleans(p))
                      /\ WF_vars(TermExits(p))

FairSpec == Spec /\ Fairness
FairSerialSpec == Init /\ [][SerialNext]_vars /\ Fairness

-----------------------------------------------------------------------------
Serving == {p \in Pid : proc[p] = "serving"}

Reachable == \E p \in Serving : socket = p

(* There is one daemon at a time: two would keep two copies of the vault   *)
(* and overwrite each other's saves (start_daemon, CHANGELOG: "Daemon      *)
(* singleton check").                                                      *)
OneDaemon == Cardinality(Serving) <= 1

(* A daemon that serves is the one that clients reach and that stop finds  *)
(* (write_pid, bind, PidGuard).                                            *)
ServingIsManaged ==
    Settled => \A p \in Serving : socket = p /\ pidfile = p

(* A PID file that does not parse, which blocks start and stop for good,   *)
(* is only ever one that a daemon is about to fill: no start or stop kills *)
(* its writer, and none outlives its file (write_pid, stop_daemon).        *)
TornHasAWriter ==
    ~Reuse /\ faults = 0 /\ pidfile = Torn =>
        \E p \in opened : proc[p] = "writing"

(* The inductive invariant behind TornHasAWriter: who has the PID file     *)
(* open is writing it; a process that has not written it is not known to   *)
(* anybody, so that no stop kills it; a daemon that outlives a SIGTERM has *)
(* installed its handler (write_pid, read_pid, stop_daemon).               *)
OpenedByWriters == \A p \in opened : proc[p] = "writing"

NewcomersUnknown ==
    ~Reuse => \A p \in Pid :
        proc[p] \in {"spawned", "writing"} =>
            pidfile # p /\ \A c \in Cmd : held[c] # p

TermedHaveHandlers ==
    \A p \in Pid : term[p] # "no" => proc[p] \in Stages \ Early

HoldsPid ==
    \A c \in Cmd : cpc[c] \in {"startCheck", "stopCheck", "kill"} => held[c] \in Pid

TornIsOpen == ~Reuse /\ faults = 0 /\ pidfile = Torn => opened # {}

IInv ==
    /\ TypeOK /\ OpenedByWriters /\ NewcomersUnknown
    /\ TermedHaveHandlers /\ HoldsPid /\ TornIsOpen

(* However many daemons are started at once, and although each removes the *)
(* socket of the others, clients reach one of them in the end, as long as  *)
(* nobody stops or kills any (bind).                                       *)
RaceHasAWinner ==
    [](wanted # "down" /\ faults = 0) => <>[](orders > 0 => Reachable)

(* What the last command asked for comes true and stays, also after a      *)
(* crash left its PID file and socket behind, unless the PID file blocks   *)
(* start and stop: it stays torn, or names a process that is no daemon     *)
(* (start_daemon, stop_daemon).                                            *)
Blocked ==
    \/ pidfile = Torn /\ opened = {}
    \/ pidfile \in Pid /\ proc[pidfile] = "other"

OrdersAreCarriedOut ==
    /\ <>[](wanted = "up" /\ ~Blocked) => <>[]Reachable
    /\ <>[](wanted = "down" /\ ~Blocked) => <>[](Serving = {})

(* A daemon that binds the socket removes only what a daemon that is gone  *)
(* left behind, never the socket others use (IpcServer::bind: "removing    *)
(* any stale socket file from a previous run").                            *)
OnlyStaleSocketsRemoved ==
    [][\A p \in Pid :
          proc[p] = "unlinking" /\ proc'[p] # "unlinking" /\ socket \in Pid
          => proc[socket] \notin {"bound", "serving"}]_vars
=============================================================================
