------------------------ MODULE DaemonLifecycle_proofs ------------------------
(***************************************************************************)
(* For any number of processes, commands and orders, and whatever dies     *)
(* when: the variables of DaemonLifecycle keep their types, and, while     *)
(* numbers are not given away again and nothing has failed, a torn PID     *)
(* file has a writer.  For a user who waits until a command has taken      *)
(* effect: there is one daemon, it is the one its names lead to, and it    *)
(* takes no socket from another, whatever is killed and whichever numbers  *)
(* are given away again.                                                   *)
(***************************************************************************)
EXTENDS DaemonLifecycle, FiniteSetTheorems, TLAPS

LEMMA InitInv == Init => IInv
  BY LifecycleAssumption
     DEF Init, IInv, TypeOK, OpenedByWriters, NewcomersUnknown,
         TermedHaveHandlers, HoldsPid, TornIsOpen, Stages, Early

(* A command moves on; no daemon and no name changes. *)
LEMMA CmdMoves ==
    ASSUME IInv, NEW c \in Cmd, NEW pid \in {None, held[c]} \cup ({pidfile} \cap Pid),
           NEW label \in {"idle", "startCheck", "startClean", "spawn",
                          "stopCheck", "stopClean", "kill"},
           label \in {"startCheck", "stopCheck", "kill"} => pid \in Pid,
           CmdGoto(c, label, pid), UNCHANGED <<daemons, names>>,
           orders' \in Nat, faults' = faults, wanted' \in {"any", "up", "down"}
    PROVE  IInv'
  <1>1. /\ held' = [held EXCEPT ![c] = pid]
        /\ UNCHANGED <<proc, term, opened, pidfile, socket, faults>>
    BY DEF CmdGoto, daemons, names
  <1>2. TypeOK'
    BY <1>1 DEF CmdGoto, IInv, TypeOK
  <1>3. NewcomersUnknown'
    BY <1>1, LifecycleAssumption DEF IInv, TypeOK, NewcomersUnknown
  <1>4. HoldsPid'
    BY <1>1 DEF CmdGoto, IInv, TypeOK, HoldsPid
  <1>5. QED
    BY <1>1, <1>2, <1>3, <1>4
       DEF IInv, OpenedByWriters, TermedHaveHandlers, TornIsOpen

(* A process ends that was not writing the PID file. *)
LEMMA GoneKeeps ==
    ASSUME IInv, NEW p \in Pid, p \notin opened, Gone(p),
           UNCHANGED <<names, orders>>, faults' \in Nat, faults' >= faults,
           wanted' \in {"any", "up", "down"},
           cpc' \in [Cmd -> {"idle", "startCheck", "startClean", "spawn",
                             "stopCheck", "stopClean", "kill"}],
           held' \in [Cmd -> Pid \cup {None}],
           \A c \in Cmd : \/ cpc'[c] = "idle" /\ held'[c] = None
                          \/ cpc'[c] = cpc[c] /\ held'[c] = held[c]
    PROVE  IInv'
  <1>1. /\ proc' = [proc EXCEPT ![p] = "free"]
        /\ term' = [term EXCEPT ![p] = "no"]
        /\ opened' = opened /\ UNCHANGED <<pidfile, socket, orders>>
    BY DEF Gone, Become, names, IInv, TypeOK
  <1>2. TypeOK'
    BY <1>1 DEF IInv, TypeOK
  <1>3. OpenedByWriters' /\ TermedHaveHandlers'
    BY <1>1 DEF IInv, TypeOK, OpenedByWriters, TermedHaveHandlers, Stages, Early
  <1>4. NewcomersUnknown'
    BY <1>1, LifecycleAssumption DEF IInv, TypeOK, NewcomersUnknown
  <1>5. TornIsOpen'
    BY <1>1 DEF IInv, TypeOK, TornIsOpen
  <1>6. HoldsPid'
    BY DEF IInv, HoldsPid
  <1>7. QED
    BY <1>2, <1>3, <1>4, <1>5, <1>6 DEF IInv

(* A daemon past the writing of its PID file goes on or ends, and may      *)
(* remove the PID file or change the socket.                               *)
LEMMA DaemonMoves ==
    ASSUME IInv, NEW p \in Pid, proc[p] \in Stages \ {"spawned", "writing"},
           NEW stage \in (Stages \ Early) \cup {"free"},
           NEW sign \in {"no", "sent", "cleaned"},
           proc' = [proc EXCEPT ![p] = stage],
           term' = [term EXCEPT ![p] = sign],
           sign # "no" => stage \in Stages \ Early,
           RemovePid \/ UNCHANGED <<pidfile, opened>>,
           socket' \in Pid \cup {None},
           faults' \in Nat, faults' >= faults, wanted' \in {"any", "up", "down"},
           UNCHANGED <<commands, orders>>
    PROVE  IInv'
  <1>1. UNCHANGED <<cpc, held>>
    BY DEF commands
  <1>2. TypeOK'
    BY <1>1 DEF IInv, TypeOK, RemovePid
  <1>3. OpenedByWriters' /\ TermedHaveHandlers'
    BY DEF IInv, TypeOK, OpenedByWriters, TermedHaveHandlers, RemovePid, Stages, Early
  <1>4. NewcomersUnknown'
    BY <1>1, LifecycleAssumption DEF IInv, TypeOK, NewcomersUnknown, RemovePid,
       Stages, Early
  <1>5. TornIsOpen'
    BY LifecycleAssumption DEF IInv, TypeOK, TornIsOpen, RemovePid
  <1>6. HoldsPid'
    BY <1>1 DEF IInv, HoldsPid
  <1>7. QED
    BY <1>2, <1>3, <1>4, <1>5, <1>6 DEF IInv

-----------------------------------------------------------------------------
LEMMA OrderStep ==
    ASSUME IInv, NEW c \in Cmd, Order(c)
    PROVE  IInv'
  <1>1. orders' \in Nat
    BY DEF Order, StartDaemon, RunDaemon, StopDaemon, Ordered, IInv, TypeOK
  <1>2. CASE StartDaemon(c)
    BY <1>1, <1>2, CmdMoves DEF StartDaemon, CmdEnds
  <1>3. CASE RunDaemon(c)
    BY <1>1, <1>3, CmdMoves DEF RunDaemon
  <1>4. CASE StopDaemon(c)
    BY <1>1, <1>4, CmdMoves DEF StopDaemon, CmdEnds
  <1>5. QED
    BY <1>2, <1>3, <1>4 DEF Order

(* A command removes the PID file. *)
LEMMA CmdCleans ==
    ASSUME IInv, NEW c \in Cmd, NEW label \in {"idle", "spawn"}, RemovePid,
           CmdGoto(c, label, None),
           UNCHANGED <<proc, term, socket, orders, faults, wanted>>
    PROVE  IInv'
  <1>1. TypeOK'
    BY DEF RemovePid, CmdGoto, IInv, TypeOK
  <1>2. NewcomersUnknown'
    BY LifecycleAssumption DEF RemovePid, CmdGoto, IInv, TypeOK, NewcomersUnknown
  <1>3. OpenedByWriters' /\ TermedHaveHandlers' /\ TornIsOpen'
    BY LifecycleAssumption DEF RemovePid, IInv, OpenedByWriters,
       TermedHaveHandlers, TornIsOpen
  <1>4. HoldsPid'
    BY DEF CmdGoto, IInv, TypeOK, HoldsPid
  <1>5. QED
    BY <1>1, <1>2, <1>3, <1>4 DEF IInv

LEMMA SpawnStep ==
    ASSUME IInv, NEW c \in Cmd, Spawn(c)
    PROVE  IInv'
  <1>1. PICK p \in Pid : MayStartAs(p) /\ proc' = [proc EXCEPT ![p] = "spawned"]
    BY DEF Spawn, Become
  <1>2. /\ held' = [held EXCEPT ![c] = None]
        /\ UNCHANGED <<term, opened, pidfile, socket, orders, faults, wanted>>
    BY DEF Spawn, CmdEnds, CmdGoto, names
  <1>3. TypeOK'
    BY <1>1, <1>2 DEF Spawn, CmdEnds, CmdGoto, IInv, TypeOK, Stages, Early
  <1>4. proc[p] = "free" /\ p \notin opened /\ term[p] = "no"
    BY <1>1 DEF MayStartAs, IInv, TypeOK, OpenedByWriters, TermedHaveHandlers,
                Stages, Early
  <1>5. OpenedByWriters' /\ TermedHaveHandlers' /\ TornIsOpen'
    BY <1>1, <1>2, <1>4 DEF IInv, TypeOK, OpenedByWriters, TermedHaveHandlers,
                            TornIsOpen
  <1>6. NewcomersUnknown'
    BY <1>1, <1>2, LifecycleAssumption
       DEF MayStartAs, IInv, TypeOK, NewcomersUnknown
  <1>7. HoldsPid'
    BY DEF Spawn, CmdEnds, CmdGoto, IInv, TypeOK, HoldsPid
  <1>8. QED
    BY <1>3, <1>5, <1>6, <1>7 DEF IInv

(* A stop kills no process that is writing the PID file: unless numbers are *)
(* given away again, it knows none.                                        *)
LEMMA KillStep ==
    ASSUME IInv, NEW c \in Cmd, Kill(c)
    PROVE  IInv'
  <1> DEFINE p == held[c]
  <1>1. p \in Pid
    BY DEF Kill, IInv, HoldsPid
  <1>2. /\ CmdGoto(c, "idle", None)
        /\ UNCHANGED <<pidfile, socket, orders, faults, wanted>>
    BY DEF Kill, CmdEnds, names
  <1>3. CASE UNCHANGED daemons
    BY <1>2, <1>3, CmdMoves DEF names, IInv, TypeOK
  <1>4. CASE Gone(p) /\ proc[p] \in Early \cup {"other"}
    <2>1. /\ proc' = [proc EXCEPT ![p] = "free"]
          /\ term' = [term EXCEPT ![p] = "no"]
          /\ opened' = opened \ {p}
      BY <1>4 DEF Gone, Become
    <2>2. TypeOK'
      BY <1>1, <1>2, <2>1 DEF CmdGoto, IInv, TypeOK
    <2>3. OpenedByWriters' /\ TermedHaveHandlers'
      BY <1>1, <2>1 DEF IInv, TypeOK, OpenedByWriters, TermedHaveHandlers,
                        Stages, Early
    <2>4. NewcomersUnknown'
      BY <1>1, <1>2, <2>1, LifecycleAssumption
         DEF CmdGoto, IInv, TypeOK, NewcomersUnknown
    <2>5. HoldsPid'
      BY <1>2 DEF CmdGoto, IInv, TypeOK, HoldsPid
    <2>6. ~Reuse => p \notin opened
      BY <1>1 DEF IInv, OpenedByWriters, NewcomersUnknown
    <2>7. TornIsOpen'
      BY <1>2, <2>1, <2>6 DEF IInv, TornIsOpen
    <2>8. QED
      BY <2>2, <2>3, <2>4, <2>5, <2>7 DEF IInv
  <1>5. CASE /\ proc[p] \in Stages \ Early
             /\ term' = [term EXCEPT ![p] = IF @ = "no" THEN "sent" ELSE @]
             /\ UNCHANGED <<proc, opened>>
    <2>1. TypeOK'
      BY <1>1, <1>2, <1>5 DEF CmdGoto, IInv, TypeOK
    <2>2. OpenedByWriters' /\ TermedHaveHandlers'
      BY <1>1, <1>5 DEF IInv, TypeOK, OpenedByWriters, TermedHaveHandlers
    <2>3. NewcomersUnknown'
      BY <1>2, <1>5, LifecycleAssumption DEF CmdGoto, IInv, TypeOK, NewcomersUnknown
    <2>4. HoldsPid' /\ TornIsOpen'
      BY <1>2, <1>5 DEF CmdGoto, IInv, TypeOK, HoldsPid, TornIsOpen
    <2>5. QED
      BY <2>1, <2>2, <2>3, <2>4 DEF IInv
  <1>6. QED
    BY <1>3, <1>4, <1>5 DEF Kill

LEMMA CmdSteps ==
    ASSUME IInv, NEW c \in Cmd, CmdStep(c)
    PROVE  IInv'
  <1>1. CASE StartCheck(c)
    BY <1>1, CmdMoves DEF StartCheck, CmdEnds, IInv, TypeOK
  <1>2. CASE StartClean(c)
    BY <1>2, CmdCleans DEF StartClean
  <1>3. CASE Spawn(c)
    BY <1>3, SpawnStep
  <1>4. CASE StopCheck(c)
    <2>1. held[c] \in Pid
      BY <1>4 DEF StopCheck, IInv, HoldsPid
    <2>2. QED
      BY <1>4, <2>1, CmdMoves DEF StopCheck, IInv, TypeOK
  <1>5. CASE StopClean(c)
    BY <1>5, CmdCleans DEF StopClean, CmdEnds
  <1>6. CASE Kill(c)
    BY <1>6, KillStep
  <1>7. QED
    BY <1>1, <1>2, <1>3, <1>4, <1>5, <1>6 DEF CmdStep

-----------------------------------------------------------------------------
LEMMA OpenStep ==
    ASSUME IInv, NEW p \in Pid, OpenPidFile(p)
    PROVE  IInv'
  <1>1. /\ proc[p] = "spawned" /\ pidfile' = Torn
        /\ opened' = opened \cup {p}
        /\ proc' = [proc EXCEPT ![p] = "writing"]
        /\ UNCHANGED <<term, socket, cpc, held, orders, faults, wanted>>
    BY DEF OpenPidFile, Become, commands
  <1>2. TypeOK' /\ HoldsPid'
    BY <1>1 DEF IInv, TypeOK, HoldsPid, Stages, Early
  <1>3. OpenedByWriters' /\ TermedHaveHandlers' /\ TornIsOpen'
    BY <1>1 DEF IInv, TypeOK, OpenedByWriters, TermedHaveHandlers, TornIsOpen,
                Stages, Early
  <1>4. NewcomersUnknown'
    BY <1>1, LifecycleAssumption DEF IInv, TypeOK, NewcomersUnknown
  <1>5. QED
    BY <1>2, <1>3, <1>4 DEF IInv

LEMMA FillStep ==
    ASSUME IInv, NEW p \in Pid, FillPidFile(p)
    PROVE  IInv'
  <1>1. /\ proc[p] = "writing"
        /\ pidfile' = IF p \in opened THEN p ELSE pidfile
        /\ opened' = opened \ {p}
        /\ proc' = [proc EXCEPT ![p] = "written"]
        /\ UNCHANGED <<term, socket, cpc, held, orders, faults, wanted>>
    BY DEF FillPidFile, Become, commands
  <1>2. TypeOK' /\ HoldsPid'
    BY <1>1 DEF IInv, TypeOK, HoldsPid, Stages, Early
  <1>3. OpenedByWriters' /\ TermedHaveHandlers'
    BY <1>1 DEF IInv, TypeOK, OpenedByWriters, TermedHaveHandlers, Stages, Early
  <1>4. NewcomersUnknown'
    BY <1>1, LifecycleAssumption DEF IInv, TypeOK, NewcomersUnknown
  <1>5. TornIsOpen'
    BY <1>1, LifecycleAssumption DEF IInv, TypeOK, TornIsOpen
  <1>6. QED
    BY <1>2, <1>3, <1>4, <1>5 DEF IInv

(* A daemon that has written its PID file is not writing it. *)
LEMMA NotWriting ==
    ASSUME IInv, NEW p \in Pid, proc[p] # "writing"
    PROVE  p \notin opened
  BY DEF IInv, OpenedByWriters

(* The process changes its stage, nothing else but maybe the socket. *)
LEMMA Advances ==
    ASSUME IInv, NEW p \in Pid, proc[p] \in Stages \ {"spawned", "writing"},
           NEW stage \in Stages \ Early, Become(p, stage),
           UNCHANGED <<term, opened, pidfile, commands, orders>>,
           socket' \in Pid \cup {None},
           faults' \in Nat, faults' >= faults, wanted' \in {"any", "up", "down"}
    PROVE  IInv'
  <1>1. term' = [term EXCEPT ![p] = term[p]] /\ term[p] \in {"no", "sent", "cleaned"}
    BY DEF IInv, TypeOK
  <1>2. proc' = [proc EXCEPT ![p] = stage]
    BY DEF Become
  <1>3. QED
    BY <1>1, <1>2, DaemonMoves

LEMMA DaemonSteps ==
    ASSUME IInv, NEW p \in Pid, DaemonStep(p)
    PROVE  IInv'
  <1> USE DEF Stages, Early
  <1> pidfile \in Pid \cup {None, Torn} /\ socket \in Pid \cup {None}
      /\ faults \in Nat /\ wanted \in {"any", "up", "down"}
    BY DEF IInv, TypeOK
  <1>1. CASE OpenPidFile(p)
    BY <1>1, OpenStep
  <1>2. CASE FillPidFile(p)
    BY <1>2, FillStep
  <1>3. CASE InstallHandler(p)
    <2>1. CASE Gone(p)
      BY <1>3, <2>1, GoneKeeps, NotWriting
         DEF InstallHandler, names, commands, IInv, TypeOK
    <2>2. CASE Become(p, "handling") /\ UNCHANGED <<term, opened>>
      BY <1>3, <2>2, Advances DEF InstallHandler, names
    <2>3. QED
      BY <1>3, <2>1, <2>2 DEF InstallHandler
  <1>4. CASE CheckSocket(p)
    BY <1>4, Advances DEF CheckSocket, names
  <1>5. CASE UnlinkSocket(p)
    BY <1>5, Advances DEF UnlinkSocket
  <1>6. CASE BindSocket(p)
    BY <1>6, Advances DEF BindSocket
  <1>7. CASE SetSocketMode(p)
    BY <1>7, Advances DEF SetSocketMode, names
  <1>8. CASE Fail(p)
    <2>1. /\ proc[p] \in Stages \ {"spawned", "writing"}
          /\ proc' = [proc EXCEPT ![p] = "free"] /\ term' = [term EXCEPT ![p] = "no"]
          /\ RemovePid /\ socket' \in Pid \cup {None}
          /\ faults' \in Nat /\ faults' >= faults
          /\ wanted' \in {"any", "up", "down"} /\ UNCHANGED <<commands, orders>>
      BY <1>8 DEF Fail, Become
    <2> HIDE DEF Stages, Early
    <2>2. QED
      BY <2>1, DaemonMoves
  <1>9. CASE TermCleans(p)
    <2>1. proc[p] \in Stages \ Early /\ proc' = [proc EXCEPT ![p] = proc[p]]
      BY <1>9 DEF TermCleans, IInv, TypeOK, TermedHaveHandlers
    <2>2. /\ proc[p] \in Stages \ {"spawned", "writing"}
          /\ term' = [term EXCEPT ![p] = "cleaned"]
          /\ RemovePid /\ socket' \in Pid \cup {None}
          /\ faults' \in Nat /\ faults' >= faults
          /\ wanted' \in {"any", "up", "down"} /\ UNCHANGED <<commands, orders>>
      BY <1>9, <2>1 DEF TermCleans
    <2> HIDE DEF Stages, Early
    <2>3. QED
      BY <2>1, <2>2, DaemonMoves
  <1>10. CASE TermExits(p)
    <2>1. p \notin opened
      BY <1>10 DEF TermExits, IInv, TypeOK, TermedHaveHandlers, OpenedByWriters
    <2>2. QED
      BY <1>10, <2>1, GoneKeeps DEF TermExits, commands, IInv, TypeOK
  <1>11. QED
    BY <1>1, <1>2, <1>3, <1>4, <1>5, <1>6, <1>7, <1>8, <1>9, <1>10
       DEF DaemonStep

(* Whatever dies: once something has failed a torn file may be orphaned.   *)
LEMMA CrashStep ==
    ASSUME IInv, NEW p \in Pid, Crash(p)
    PROVE  IInv'
  <1>1. /\ proc' = [proc EXCEPT ![p] = "free"]
        /\ term' = [term EXCEPT ![p] = "no"]
        /\ opened' = opened \ {p}
        /\ faults' = faults + 1 /\ wanted' = "any"
        /\ UNCHANGED <<pidfile, socket, cpc, held, orders>>
    BY DEF Crash, Gone, Become, Fault, names, commands
  <1>2. TypeOK' /\ HoldsPid'
    BY <1>1 DEF IInv, TypeOK, HoldsPid
  <1>3. OpenedByWriters' /\ TermedHaveHandlers'
    BY <1>1 DEF IInv, TypeOK, OpenedByWriters, TermedHaveHandlers
  <1>4. NewcomersUnknown'
    BY <1>1 DEF IInv, TypeOK, NewcomersUnknown
  <1>5. TornIsOpen'
    BY <1>1 DEF IInv, TypeOK, TornIsOpen
  <1>6. QED
    BY <1>2, <1>3, <1>4, <1>5 DEF IInv

LEMMA OtherStep ==
    ASSUME IInv, NEW p \in Pid, OtherStarts(p)
    PROVE  IInv'
  <1>1. /\ Reuse /\ proc[p] = "free" /\ proc' = [proc EXCEPT ![p] = "other"]
        /\ UNCHANGED <<term, opened, pidfile, socket, cpc, held, orders,
                       faults, wanted>>
    BY DEF OtherStarts, Become, names, commands
  <1>2. TypeOK' /\ HoldsPid' /\ OpenedByWriters'
    BY <1>1 DEF IInv, TypeOK, HoldsPid, OpenedByWriters
  <1>3. TermedHaveHandlers' /\ NewcomersUnknown' /\ TornIsOpen'
    BY <1>1 DEF IInv, TypeOK, TermedHaveHandlers, NewcomersUnknown, TornIsOpen,
                Stages, Early
  <1>4. QED
    BY <1>2, <1>3 DEF IInv

LEMMA HappensStep ==
    ASSUME IInv, NEW p \in Pid, Happens(p)
    PROVE  IInv'
  <1>1. CASE ServeFails(p)
    BY <1>1, Advances DEF ServeFails, Fault, Stages, Early, IInv, TypeOK
  <1>2. QED
    BY <1>1, CrashStep, OtherStep DEF Happens

-----------------------------------------------------------------------------
LEMMA NextInv == IInv /\ [Next]_vars => IInv'
  <1> SUFFICES ASSUME IInv, [Next]_vars PROVE IInv'
    OBVIOUS
  <1>1. CASE Next
    BY <1>1, OrderStep, CmdSteps, DaemonSteps, HappensStep DEF Next
  <1>2. CASE UNCHANGED vars
    BY <1>2 DEF vars, daemons, names, commands, IInv, TypeOK, OpenedByWriters,
       NewcomersUnknown, TermedHaveHandlers, HoldsPid, TornIsOpen
  <1>3. QED
    BY <1>1, <1>2

(* The inductive invariant holds in every reachable state. *)
THEOREM AlwaysInv == Spec => []IInv
  BY InitInv, NextInv, PTL DEF Spec

(* The variables keep their types. *)
THEOREM TypeCorrect == Spec => []TypeOK
  <1>1. IInv => TypeOK
    BY DEF IInv
  <1>2. QED
    BY <1>1, AlwaysInv, PTL

(* While nothing fails and numbers are not given away again, no start or   *)
(* stop kills the writer of a torn PID file or leaves the file behind      *)
(* (write_pid, start_daemon, stop_daemon).                                 *)
THEOREM TornPidFileHasAWriter == Spec => []TornHasAWriter
  <1>1. IInv => TornHasAWriter
    BY DEF IInv, TornIsOpen, OpenedByWriters, TornHasAWriter
  <1>2. QED
    BY <1>1, AlwaysInv, PTL

-----------------------------------------------------------------------------
(* One command at a time.  A daemon is known by its PID file from when it  *)
(* has written it until a SIGTERM reaches it, and by its socket from when  *)
(* it has bound it; a command that runs beside one has read its number and *)
(* starts no other.                                                        *)
Live(p) == proc[p] \in Stages

DaemonInv(p) ==
    Live(p) =>
        /\ \A c \in Cmd : cpc[c] # "idle" =>
              /\ proc[p] \in {"serving", "failing"}
              /\ cpc[c] \in {"startCheck", "stopCheck", "kill"}
              /\ held[c] = p
        /\ proc[p] = "writing" => p \in opened
        /\ proc[p] \in {"written", "handling", "unlinking", "binding", "bound",
                        "serving"}
           /\ term[p] = "no" => pidfile = p
        /\ proc[p] \in {"bound", "serving"} => socket = p

SerialInv ==
    /\ \A p, q \in Pid : Live(p) /\ Live(q) => p = q
    /\ \A c, e \in Cmd : cpc[c] # "idle" /\ cpc[e] # "idle" => c = e
    /\ \A p \in Pid : DaemonInv(p)

(* The one daemon makes a step, or ends. *)
LEMMA DaemonSerial ==
    ASSUME SerialInv, NEW p \in Pid, Live(p), UNCHANGED commands,
           \A q \in Pid \ {p} : proc'[q] = proc[q],
           DaemonInv(p)'
    PROVE  SerialInv'
  <1>1. \A q \in Pid \ {p} : ~Live(q)'
    BY DEF SerialInv, Live
  <1>2. QED
    BY <1>1 DEF SerialInv, DaemonInv, commands

(* The one command makes a step that leaves the daemon alone. *)
LEMMA CommandSerial ==
    ASSUME SerialInv, NEW c \in Cmd, \A e \in Cmd \ {c} : cpc'[e] = "idle",
           \A p \in Pid : Live(p)' => Live(p),
           \A p \in Pid : DaemonInv(p)'
    PROVE  SerialInv'
  BY DEF SerialInv, Live

(* Where a step of one command leads. *)
LEMMA CmdFrame ==
    ASSUME TypeOK, NEW c \in Cmd, NEW label, NEW pid, CmdGoto(c, label, pid)
    PROVE  /\ cpc'[c] = label /\ held'[c] = pid
           /\ \A e \in Cmd \ {c} : cpc'[e] = cpc[e] /\ held'[e] = held[e]
  BY DEF TypeOK, CmdGoto

LEMMA OrderSerial ==
    ASSUME "run" \notin Orders, IInv, SerialInv, Settled, NEW c \in Cmd, Order(c)
    PROVE  SerialInv'
  <1>1. /\ TypeOK /\ UNCHANGED <<proc, term, opened, pidfile, socket>>
        /\ \A e \in Cmd : cpc[e] = "idle"
    BY DEF IInv, Order, StartDaemon, RunDaemon, StopDaemon, Settled, daemons, names
  <1>2. \A p \in Pid : Live(p) => proc[p] = "serving" /\ pidfile = p
    BY DEF Settled, SerialInv, DaemonInv, Live, Stages, Early
  <1>3. \/ pidfile \notin Pid /\ \E label \in {"idle", "spawn"} : CmdGoto(c, label, None)
        \/ /\ pidfile \in Pid
           /\ \E label \in {"startCheck", "stopCheck"} : CmdGoto(c, label, pidfile)
    BY LifecycleAssumption
       DEF Order, Ordered, StartDaemon, RunDaemon, StopDaemon, CmdEnds
  <1>4. PICK label \in {"idle", "spawn", "startCheck", "stopCheck"},
             pid \in Pid \cup {None} :
          /\ CmdGoto(c, label, pid)
          /\ \A p \in Pid : Live(p) => label \in {"startCheck", "stopCheck"} /\ pid = p
    BY <1>2, <1>3
  <1>5. /\ \A e \in Cmd \ {c} : cpc'[e] = "idle"
        /\ cpc'[c] = label /\ held'[c] = pid
    BY <1>1, <1>4, CmdFrame
  <1>6. \A p \in Pid : DaemonInv(p)'
    BY <1>1, <1>2, <1>4, <1>5 DEF SerialInv, DaemonInv, Live
  <1>7. QED
    BY <1>1, <1>5, <1>6, CommandSerial DEF Live

LEMMA CmdStepSerial ==
    ASSUME IInv, SerialInv, NEW c \in Cmd, CmdStep(c)
    PROVE  SerialInv'
  <1>1. /\ TypeOK /\ cpc[c] # "idle"
        /\ \A e \in Cmd \ {c} : cpc[e] = "idle"
        /\ \A p \in Pid : Live(p) => /\ proc[p] \in {"serving", "failing"}
                                     /\ cpc[c] \in {"startCheck", "stopCheck", "kill"}
                                     /\ held[c] = p
    BY DEF IInv, CmdStep, StartCheck, StartClean, Spawn, StopCheck, StopClean, Kill,
           SerialInv, DaemonInv
  <1>2. CASE StartCheck(c) \/ StopCheck(c)
    <2>1. UNCHANGED <<proc, term, opened, pidfile, socket>>
      BY <1>2 DEF StartCheck, StopCheck, daemons, names
    <2>2. \A p \in Pid : Live(p) => Running(held[c])
      BY <1>1 DEF Running
    <2>3. PICK label \in {"idle", "startClean", "stopClean", "kill"},
               pid \in {None, held[c]} :
            /\ CmdGoto(c, label, pid)
            /\ label \in {"startClean", "stopClean"} => ~Running(held[c])
            /\ label = "kill" => pid = held[c]
      BY <1>2 DEF StartCheck, StopCheck, CmdEnds
    <2>4. /\ \A e \in Cmd \ {c} : cpc'[e] = "idle"
          /\ cpc'[c] = label /\ held'[c] = pid
      BY <1>1, <2>3, CmdFrame
    <2>5. \A p \in Pid : DaemonInv(p)'
      BY <1>1, <2>1, <2>2, <2>3, <2>4 DEF SerialInv, DaemonInv, Live
    <2>6. QED
      BY <2>1, <2>4, <2>5, CommandSerial DEF Live
  <1>3. CASE StartClean(c) \/ StopClean(c)
    <2>1. UNCHANGED proc /\ \A p \in Pid : ~Live(p)
      BY <1>1, <1>3 DEF StartClean, StopClean
    <2>2. \A e \in Cmd \ {c} : cpc'[e] = "idle"
      BY <1>1, <1>3, CmdFrame DEF StartClean, StopClean, CmdEnds
    <2>3. QED
      BY <2>1, <2>2, CommandSerial DEF DaemonInv, Live
  <1>4. CASE Spawn(c)
    <2>1. PICK p \in Pid : proc' = [proc EXCEPT ![p] = "spawned"]
      BY <1>4 DEF Spawn, Become
    <2>2. \A q \in Pid : ~Live(q)
      BY <1>1, <1>4 DEF Spawn
    <2>3. proc'[p] = "spawned" /\ \A q \in Pid \ {p} : ~Live(q)'
      BY <1>1, <2>1, <2>2 DEF TypeOK, Live
    <2>4. \A e \in Cmd : cpc'[e] = "idle"
      BY <1>1, <1>4, CmdFrame DEF Spawn, CmdEnds
    <2>5. \A q \in Pid : DaemonInv(q)'
      BY <2>3, <2>4 DEF DaemonInv
    <2>6. QED
      BY <2>3, <2>4, <2>5 DEF SerialInv
  <1>5. CASE Kill(c)
    <2>1. /\ \A e \in Cmd : cpc'[e] = "idle" /\ UNCHANGED <<pidfile, socket>>
          /\ held[c] \in Pid
      BY <1>1, <1>5, CmdFrame DEF Kill, CmdEnds, names, IInv, HoldsPid
    <2>2. CASE UNCHANGED daemons
      BY <2>1, <2>2, CommandSerial DEF daemons, SerialInv, DaemonInv, Live
    <2>3. CASE Gone(held[c])
      <3>1. /\ proc'[held[c]] = "free"
            /\ \A p \in Pid \ {held[c]} : proc'[p] = proc[p] /\ ~Live(p)
        BY <1>1, <2>1, <2>3 DEF Gone, Become, TypeOK
      <3>2. \A p \in Pid : ~Live(p)'
        BY <3>1 DEF Live, Stages, Early
      <3>3. QED
        BY <2>1, <3>2, CommandSerial DEF DaemonInv
    <2>4. CASE /\ term' = [term EXCEPT ![held[c]] = IF @ = "no" THEN "sent" ELSE @]
               /\ UNCHANGED <<proc, opened>>
      <3>1. \A p \in Pid : Live(p) => p = held[c] /\ term'[p] # "no"
        BY <1>1, <2>1, <2>4 DEF TypeOK
      <3>2. \A p \in Pid : DaemonInv(p)'
        BY <2>1, <2>4, <3>1 DEF SerialInv, DaemonInv, Live
      <3>3. QED
        BY <2>1, <2>4, <3>2, CommandSerial DEF Live
    <2>5. QED
      BY <1>5, <2>2, <2>3, <2>4 DEF Kill
  <1>6. QED
    BY <1>2, <1>3, <1>4, <1>5 DEF CmdStep

LEMMA GoneSerial ==
    ASSUME TypeOK, SerialInv, NEW p \in Pid, Live(p), Become(p, "free"),
           UNCHANGED commands
    PROVE  SerialInv'
  <1>1. proc'[p] = "free" /\ \A q \in Pid \ {p} : proc'[q] = proc[q]
    BY DEF TypeOK, Become
  <1>2. DaemonInv(p)'
    BY <1>1 DEF DaemonInv, Live, Stages, Early
  <1>3. QED
    BY <1>1, <1>2, DaemonSerial

LEMMA DaemonStepSerial ==
    ASSUME IInv, SerialInv, NEW p \in Pid, DaemonStep(p) \/ ServeFails(p)
    PROVE  SerialInv'
  <1>1. TypeOK /\ DaemonInv(p) /\ UNCHANGED commands
    BY DEF IInv, SerialInv, DaemonStep, OpenPidFile, FillPidFile, InstallHandler,
           CheckSocket, UnlinkSocket, BindSocket, SetSocketMode, Fail, TermCleans,
           TermExits, ServeFails
  <1>2. Live(p)
    BY DEF IInv, TermedHaveHandlers, Live, Stages, Early, DaemonStep, OpenPidFile,
           FillPidFile, InstallHandler, CheckSocket, UnlinkSocket, BindSocket,
           SetSocketMode, Fail, TermCleans, TermExits, ServeFails
  <1>3. CASE Become(p, "free")
    BY <1>1, <1>2, <1>3, GoneSerial
  <1>4. ASSUME NEW stage \in Stages, Become(p, stage),
               proc[p] \notin {"serving", "failing"} \/ stage \in {"serving", "failing"},
               stage = "writing" => p \in opened',
               stage \in {"written", "handling", "unlinking", "binding", "bound",
                          "serving"}
               /\ term'[p] = "no" => pidfile' = p,
               stage \in {"bound", "serving"} => socket' = p
        PROVE  SerialInv'
    <2>1. proc'[p] = stage /\ \A q \in Pid \ {p} : proc'[q] = proc[q]
      BY <1>1, <1>4 DEF TypeOK, Become
    <2>2. DaemonInv(p)'
      BY <1>1, <1>2, <1>4, <2>1 DEF DaemonInv, commands
    <2>3. QED
      BY <1>1, <1>2, <2>1, <2>2, DaemonSerial
  <1> USE DEF Stages, Early
  <1>5. CASE OpenPidFile(p)
    BY <1>4, <1>5 DEF OpenPidFile
  <1>6. CASE FillPidFile(p)
    BY <1>1, <1>2, <1>4, <1>6 DEF FillPidFile, DaemonInv
  <1>7. CASE InstallHandler(p)
    BY <1>1, <1>2, <1>3, <1>4, <1>7 DEF InstallHandler, Gone, DaemonInv, names
  <1>8. CASE CheckSocket(p)
    BY <1>1, <1>2, <1>4, <1>8 DEF CheckSocket, DaemonInv, names
  <1>9. CASE UnlinkSocket(p)
    BY <1>1, <1>2, <1>4, <1>9 DEF UnlinkSocket, DaemonInv
  <1>10. CASE BindSocket(p)
    BY <1>1, <1>2, <1>4, <1>10 DEF BindSocket, DaemonInv
  <1>11. CASE SetSocketMode(p)
    BY <1>1, <1>2, <1>4, <1>11 DEF SetSocketMode, DaemonInv, names
  <1>12. CASE ServeFails(p)
    BY <1>4, <1>12 DEF ServeFails
  <1>13. CASE Fail(p) \/ TermExits(p)
    BY <1>3, <1>13 DEF Fail, TermExits, Gone
  <1>14. CASE TermCleans(p)
    <2>1. UNCHANGED <<proc, socket>> /\ term'[p] = "cleaned"
      BY <1>1, <1>14 DEF TermCleans, TypeOK
    <2>2. proc[p] # "writing"
      BY <1>14 DEF TermCleans, IInv, TermedHaveHandlers
    <2>3. DaemonInv(p)'
      BY <1>1, <1>2, <2>1, <2>2 DEF DaemonInv, commands
    <2>4. QED
      BY <1>1, <1>2, <2>1, <2>3, DaemonSerial
  <1>15. QED
    BY <1>5, <1>6, <1>7, <1>8, <1>9, <1>10, <1>11, <1>12, <1>13, <1>14 DEF DaemonStep

LEMMA SerialNextInv ==
    "run" \notin Orders /\ IInv /\ SerialInv /\ [SerialNext]_vars => IInv' /\ SerialInv'
  <1> SUFFICES ASSUME "run" \notin Orders, IInv, SerialInv, [SerialNext]_vars
               PROVE  IInv' /\ SerialInv'
    OBVIOUS
  <1>1. IInv'
    <2>1. [SerialNext]_vars => [Next]_vars
      BY DEF SerialNext, Next
    <2>2. QED
      BY <2>1, NextInv
  <1>2. ASSUME NEW c \in Cmd, (Settled /\ Order(c)) \/ CmdStep(c)
        PROVE  SerialInv'
    BY <1>2, OrderSerial, CmdStepSerial
  <1>3. ASSUME NEW p \in Pid, DaemonStep(p) \/ ServeFails(p)
        PROVE  SerialInv'
    BY <1>3, DaemonStepSerial
  <1>4. ASSUME NEW p \in Pid, Crash(p)
        PROVE  SerialInv'
    <2>1. TypeOK /\ Live(p)
      BY <1>4, LifecycleAssumption DEF Crash, Live, IInv
    <2>2. QED
      BY <1>4, <2>1, GoneSerial DEF Crash, Gone
  <1>5. ASSUME NEW p \in Pid, OtherStarts(p)
        PROVE  SerialInv'
    <2>1. /\ proc'[p] = "other" /\ \A q \in Pid \ {p} : proc'[q] = proc[q]
          /\ UNCHANGED <<term, opened, pidfile, socket, cpc, held>>
      BY <1>5 DEF OtherStarts, Become, IInv, TypeOK, names, commands
    <2>2. QED
      BY <2>1 DEF SerialInv, DaemonInv, Live, Stages, Early
  <1>6. CASE UNCHANGED vars
    BY <1>1, <1>6 DEF vars, daemons, names, commands, SerialInv, DaemonInv, Live
  <1>7. QED
    BY <1>1, <1>2, <1>3, <1>4, <1>5, <1>6 DEF SerialNext, Happens

LEMMA AlwaysSerialInv ==
    ASSUME "run" \notin Orders
    PROVE  FairSerialSpec => [](IInv /\ SerialInv)
  <1>1. Init => IInv /\ SerialInv
    <2>1. Init => SerialInv
      BY DEF Init, SerialInv, DaemonInv, Live, Stages, Early
    <2>2. QED
      BY <2>1, InitInv
  <1>2. IInv /\ SerialInv /\ [SerialNext]_vars => (IInv /\ SerialInv)'
    BY SerialNextInv
  <1>3. QED
    BY <1>1, <1>2, PTL DEF FairSerialSpec

(* Started by `lk daemon start` alone, one command at a time, there is     *)
(* never more than one daemon that serves (start_daemon).                  *)
THEOREM OneDaemonServes ==
    ASSUME "run" \notin Orders
    PROVE  FairSerialSpec => []OneDaemon
  <1>1. SerialInv => OneDaemon
    <2> SUFFICES ASSUME SerialInv PROVE Cardinality(Serving) <= 1
      BY DEF OneDaemon
    <2>1. CASE Serving = {}
      BY <2>1, FS_EmptySet
    <2>2. ASSUME NEW p \in Serving PROVE Cardinality(Serving) <= 1
      <3>1. Serving \subseteq {p}
        BY <2>2 DEF Serving, SerialInv, Live, Stages, Early
      <3>2. IsFiniteSet({p}) /\ Cardinality({p}) = 1
        BY FS_Singleton
      <3>3. Serving = {p}
        BY <2>2, <3>1
      <3>4. QED
        BY <3>2, <3>3
    <2>3. QED
      BY <2>1, <2>2
  <1>2. QED
    BY <1>1, AlwaysSerialInv, PTL

(* Its PID file and its socket lead to the daemon that serves, so that     *)
(* stop and clients find it (write_pid, bind, PidGuard).                   *)
THEOREM TheDaemonIsManaged ==
    ASSUME "run" \notin Orders
    PROVE  FairSerialSpec => []ServingIsManaged
  <1>1. SerialInv => ServingIsManaged
    BY DEF SerialInv, DaemonInv, Live, Stages, Early, ServingIsManaged, Serving, Settled
  <1>2. QED
    BY <1>1, AlwaysSerialInv, PTL

(* A daemon that binds removes no socket that another uses (IpcServer::bind). *)
THEOREM NoSocketIsStolen ==
    ASSUME "run" \notin Orders
    PROVE  FairSerialSpec => OnlyStaleSocketsRemoved
  <1> DEFINE Fresh == \A p \in Pid :
                        proc[p] = "unlinking" /\ proc'[p] # "unlinking" /\ socket \in Pid
                        => proc[socket] \notin {"bound", "serving"}
  <1>1. IInv /\ SerialInv => [Fresh]_vars
    <2>1. IInv /\ SerialInv => Fresh
      BY DEF SerialInv, Live, Stages, Early
    <2>2. QED
      BY <2>1
  <1>2. QED
    BY <1>1, AlwaysSerialInv, PTL DEF OnlyStaleSocketsRemoved
=============================================================================
