-------------------------------- MODULE Daemon --------------------------------
(***************************************************************************)
(* What a running daemon does with requests: the connection tasks of       *)
(* crates/ipc/src/server.rs, the handler and the auto-lock task of         *)
(* crates/cli/src/daemon.rs, and the clients of crates/ipc/src/client.rs.  *)
(*                                                                         *)
(* A client opens a connection per request and gives up after a timeout;   *)
(* the task that serves the connection does not notice.  Handlers and the  *)
(* auto-lock task share the vault behind a tokio mutex, which is fair.     *)
(* Other writers of the vault file are the subject of VaultStore.          *)
(***************************************************************************)
EXTENDS Naturals, Sequences

CONSTANTS
    None, Absent,
    Name, Value,    \* what a vault maps to what
    Conn,           \* connections that may be open at a time
    AutoLock,       \* the auto-lock task, as a waiter for the mutex
    Sendable,       \* the requests clients send
    IDLE_TIMEOUT,   \* in units of model time
    CHECK_INTERVAL,
    MaxTime,        \* bound: how long the run lasts
    MaxRequests,    \* bound: how many requests are sent
    MaxFaults       \* bound: failed saves, restarts

VARIABLES
    conn,           \* conn[c]: stage, request, response; is the client there
    queue,          \* who holds the mutex (the head), who waits for it
    vault,          \* DaemonState.vault: the entries, None while locked
    file,           \* the entries in vault.lockit
    last_activity, now, wake,
    requests, faults,
    seen            \* history: the vault as the last holder of the mutex left it

time == <<last_activity, now, wake>>
vars == <<conn, queue, vault, file, time, requests, faults, seen>>

Maps == [Name -> Value \cup {Absent}]

Requests ==
    [op : {"unlock"}, right : BOOLEAN] \cup [op : {"lock", "status"}]
    \cup [op : {"get", "delete"}, name : Name]
    \cup [op : {"set"}, name : Name, value : Value]

Responses ==
    [kind : {"ok", "error", "locked", "notFound"}]
    \cup [kind : {"value"}, value : Value \cup {Absent}]
    \cup [kind : {"status"}, locked : BOOLEAN]

ASSUME DaemonAssumption ==
    /\ Absent \notin Value /\ None \notin Maps \cup Requests \cup Responses
    /\ None \notin [req : Requests, answer : Responses \cup {None}]
    /\ AutoLock \notin Conn
    /\ Sendable \subseteq Requests
    /\ IDLE_TIMEOUT \in Nat \ {0} /\ CHECK_INTERVAL \in Nat \ {0}
    /\ MaxTime \in Nat /\ MaxRequests \in Nat /\ MaxFaults \in Nat

Stages == {"free", "sent", "queued", "saving", "answered"}

(* Types of the variables. *)
TypeOK ==
    /\ conn \in [Conn -> [stage : Stages, req : Requests \cup {None},
                          response : Responses \cup {None}, waits : BOOLEAN]]
    /\ queue \in Seq(Conn \cup {AutoLock})
    /\ vault \in Maps \cup {None} /\ seen \in Maps \cup {None}
    /\ file \in Maps
    /\ last_activity \in Nat /\ now \in Nat /\ wake \in Nat
    /\ requests \in Nat /\ faults \in Nat

Free == [stage |-> "free", req |-> None, response |-> None, waits |-> FALSE]

(* VaultHandler::new: a daemon starts locked. *)
Init ==
    /\ conn = [c \in Conn |-> Free]
    /\ queue = <<>>
    /\ vault = None /\ seen = None
    /\ file = [n \in Name |-> Absent]
    /\ last_activity = 0 /\ now = 0 /\ wake = CHECK_INTERVAL
    /\ requests = 0 /\ faults = 0

-----------------------------------------------------------------------------
(* A client connects and writes its request; it then waits.                *)
SendRequest(c, r) ==
    /\ conn[c].stage = "free"
    /\ requests < MaxRequests
    /\ requests' = requests + 1
    /\ conn' = [conn EXCEPT ![c] = [Free EXCEPT !.stage = "sent", !.req = r,
                                                !.waits = TRUE]]
    /\ UNCHANGED <<queue, vault, file, time, faults, seen>>

(* The client's read times out: it closes the connection. *)
Timeout(c) ==
    /\ conn[c].waits
    /\ conn' = [conn EXCEPT ![c].waits = FALSE]
    /\ UNCHANGED <<queue, vault, file, time, requests, faults, seen>>

(* Tasks run in any order; one reads its request and asks for the mutex.   *)
ReadMessage(c) ==
    /\ conn[c].stage = "sent"
    /\ conn' = [conn EXCEPT ![c].stage = "queued"]
    /\ queue' = Append(queue, c)
    /\ UNCHANGED <<vault, file, time, requests, faults, seen>>

Holds(p) == queue # <<>> /\ Head(queue) = p

Release == queue' = Tail(queue)

(* The handler's last step: it lets go of the mutex and returns a response *)
(* to the task that writes it.                                             *)
Respond(c, response) ==
    /\ conn' = [conn EXCEPT ![c].stage = "answered", ![c].response = response]
    /\ Release
    /\ seen' = vault'

Kind(kind) == [kind |-> kind]

(* Mutant of DoUnlock: a wrong password locks the vault. *)
DoUnlockClosing(c, r) ==
    /\ r.op = "unlock"
    /\ IF r.right
       THEN vault' = file /\ Respond(c, Kind("ok"))
       ELSE vault' = None /\ Respond(c, Kind("error"))
    /\ UNCHANGED <<file, faults>>

(* do_unlock reads the file; a failure leaves the vault as it was. *)
DoUnlock(c, r) ==
    /\ r.op = "unlock"
    /\ IF r.right
       THEN vault' = file /\ Respond(c, Kind("ok"))
       ELSE vault' = vault /\ Respond(c, Kind("error"))
    /\ UNCHANGED <<file, faults>>

LockVault(c, r) ==
    /\ r.op = "lock"
    /\ vault' = None
    /\ Respond(c, Kind("ok"))
    /\ UNCHANGED <<file, faults>>

DaemonStatus(c, r) ==
    /\ r.op = "status"
    /\ vault' = vault
    /\ Respond(c, [kind |-> "status", locked |-> vault = None])
    /\ UNCHANGED <<file, faults>>

(* The other requests need an open vault. *)
VaultLocked(c, r) ==
    /\ r.op \in {"get", "set", "delete"}
    /\ vault = None /\ vault' = None
    /\ Respond(c, Kind("locked"))
    /\ UNCHANGED <<file, faults>>

(* Also ListProfiles and ListKeys, which read. *)
GetCredential(c, r) ==
    /\ r.op = "get" /\ vault # None
    /\ vault' = vault
    /\ Respond(c, [kind |-> "value", value |-> vault[r.name]])
    /\ UNCHANGED <<file, faults>>

(* Mutant of EditCredential: a delete is not saved. *)
EditCredentialUnsaved(c, r) ==
    /\ vault # None
    /\ \/ /\ r.op = "set"
          /\ vault' = [vault EXCEPT ![r.name] = r.value]
          /\ conn' = [conn EXCEPT ![c].stage = "saving"]
          /\ UNCHANGED <<queue, seen>>
       \/ /\ r.op = "delete" /\ vault[r.name] # Absent
          /\ vault' = [vault EXCEPT ![r.name] = Absent]
          /\ Respond(c, Kind("ok"))
    /\ UNCHANGED <<file, faults>>

(* Mutant of EditCredential: a delete leaves an empty entry behind. *)
EditCredentialClearing(c, r) ==
    /\ vault # None
    /\ \/ r.op = "set"
       \/ r.op = "delete" /\ vault[r.name] # Absent
    /\ vault' = [vault EXCEPT ![r.name] = IF r.op = "set" THEN r.value ELSE None]
    /\ conn' = [conn EXCEPT ![c].stage = "saving"]
    /\ UNCHANGED <<queue, file, faults, seen>>

(* vault.set or vault.delete; vault.save follows under the same guard. *)
EditCredential(c, r) ==
    /\ vault # None
    /\ \/ r.op = "set"
       \/ r.op = "delete" /\ vault[r.name] # Absent
    /\ vault' = [vault EXCEPT ![r.name] = IF r.op = "set" THEN r.value ELSE Absent]
    /\ conn' = [conn EXCEPT ![c].stage = "saving"]
    /\ UNCHANGED <<queue, file, faults, seen>>

NotFound(c, r) ==
    /\ r.op = "delete" /\ vault # None
    /\ vault[r.name] = Absent
    /\ vault' = vault
    /\ Respond(c, Kind("notFound"))
    /\ UNCHANGED <<file, faults>>

Handle(c) ==
    /\ conn[c].stage = "queued"
    /\ Holds(c)
    /\ last_activity' = now
    /\ LET r == conn[c].req
       IN  \/ DoUnlock(c, r) \/ LockVault(c, r) \/ DaemonStatus(c, r)
           \/ VaultLocked(c, r) \/ GetCredential(c, r)
           \/ EditCredential(c, r) \/ NotFound(c, r)
    /\ UNCHANGED <<now, wake, requests>>

Fault == faults < MaxFaults /\ faults' = faults + 1

Save(c) ==
    /\ conn[c].stage = "saving"
    /\ file' = vault
    /\ vault' = vault
    /\ Respond(c, Kind("ok"))
    /\ UNCHANGED <<time, requests, faults>>

(* An error before the rename, or after it.  Memory keeps the edit. *)
SaveFails(c) ==
    /\ conn[c].stage = "saving"
    /\ Fault
    /\ file' \in {file, vault}
    /\ vault' = vault
    /\ Respond(c, Kind("error"))
    /\ UNCHANGED <<time, requests>>

(* The response goes to the client, or to nobody; the connection ends. *)
WriteMessage(c) ==
    /\ conn[c].stage = "answered"
    /\ conn' = [conn EXCEPT ![c] = Free]
    /\ UNCHANGED <<queue, vault, file, time, requests, faults, seen>>

-----------------------------------------------------------------------------
(* auto_lock_task sleeps, takes the mutex and locks an idle vault.         *)
Asleep == \A i \in DOMAIN queue : queue[i] # AutoLock

WakeUp ==
    /\ Asleep
    /\ now >= wake
    /\ queue' = Append(queue, AutoLock)
    /\ UNCHANGED <<conn, vault, file, time, requests, faults, seen>>

(* Mutant of CheckIdle: keeps the guard while it sleeps. *)
CheckIdleKeepingGuard ==
    /\ Holds(AutoLock)
    /\ vault' = IF now - last_activity >= IDLE_TIMEOUT THEN None ELSE vault
    /\ wake' = now + CHECK_INTERVAL
    /\ seen' = vault'
    /\ UNCHANGED <<conn, queue, file, last_activity, now, requests, faults>>

(* Mutant of CheckIdle: the timeout is exclusive. *)
CheckIdleLate ==
    /\ Holds(AutoLock)
    /\ vault' = IF now - last_activity > IDLE_TIMEOUT THEN None ELSE vault
    /\ Release
    /\ wake' = now + CHECK_INTERVAL
    /\ seen' = vault'
    /\ UNCHANGED <<conn, file, last_activity, now, requests, faults>>

CheckIdle ==
    /\ Holds(AutoLock)
    /\ vault' = IF now - last_activity >= IDLE_TIMEOUT THEN None ELSE vault
    /\ Release
    /\ wake' = now + CHECK_INTERVAL
    /\ seen' = vault'
    /\ UNCHANGED <<conn, file, last_activity, now, requests, faults>>

(* Time does not pass while the auto-lock task can run: the runtime is     *)
(* faster than a unit of model time.                                       *)
Tick ==
    /\ now < MaxTime
    /\ ~(Asleep /\ now >= wake)
    /\ ~Holds(AutoLock)
    /\ now' = now + 1
    /\ UNCHANGED <<conn, queue, vault, file, last_activity, wake, requests,
                   faults, seen>>

(* The daemon ends, perhaps with a save on the way, and another starts;    *)
(* clients see their connections close.                                    *)
Restart ==
    /\ Fault
    /\ conn' = [c \in Conn |-> Free]
    /\ queue' = <<>>
    /\ vault' = None /\ seen' = None
    /\ \/ file' = file
       \/ (\E c \in Conn : conn[c].stage = "saving") /\ file' = vault
    /\ last_activity' = now /\ wake' = now + CHECK_INTERVAL
    /\ UNCHANGED <<now, requests>>

-----------------------------------------------------------------------------
Task(c) ==
    ReadMessage(c) \/ Handle(c) \/ Save(c) \/ SaveFails(c) \/ WriteMessage(c)

AutoLockTask == WakeUp \/ CheckIdle

Next ==
    \/ \E c \in Conn : Task(c) \/ Timeout(c) \/ \E r \in Sendable : SendRequest(c, r)
    \/ AutoLockTask
    \/ Tick
    \/ Restart

Spec == Init /\ [][Next]_vars

(* The runtime polls every task that is ready; the mutex is first come,    *)
(* first served.                                                           *)
Fairness == WF_vars(AutoLockTask) /\ \A c \in Conn : WF_vars(Task(c))

FairSpec == Spec /\ Fairness

-----------------------------------------------------------------------------
(* Clients that give up, edits that fail and restarts included, requests   *)
(* take effect one at a time, between being sent and being answered, and   *)
(* "ok" means saved (VaultHandler::handle, the mutex guard over the save). *)
Atomic == INSTANCE AtomicDaemon WITH
    open <- seen,
    disk <- file,
    calls <- [c \in Conn |->
                IF conn[c].stage = "free" THEN None
                ELSE [req |-> conn[c].req, answer |-> conn[c].response]]

ImplementsAtomicDaemon == Atomic!Spec

(* While no save fails, an open vault that nobody is saving is the one on  *)
(* disk: no save writes an older vault over a newer one.                   *)
MemoryMirrorsFile ==
    /\ faults = 0 /\ vault # None
    /\ \A c \in Conn : conn[c].stage # "saving"
    => vault = file

(* A vault that no request touches is locked before the timeout and the    *)
(* check interval have passed, however long the last request held the      *)
(* mutex (auto_lock_task).                                                 *)
LocksWhenIdle ==
    vault # None /\ queue = <<>>
    => now - last_activity < IDLE_TIMEOUT + CHECK_INTERVAL

(* A request that was sent is answered, also while the auto-lock task and  *)
(* requests whose clients have gone compete for the mutex.                 *)
EveryRequestIsAnswered ==
    \A c \in Conn : conn[c].stage = "sent" ~> conn[c].stage = "free"
=============================================================================
