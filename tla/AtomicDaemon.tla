----------------------------- MODULE AtomicDaemon -----------------------------
(***************************************************************************)
(* What a daemon promises its clients: each request takes effect at one    *)
(* moment between its being sent and its answer, on one vault in memory    *)
(* and one on disk.  "ok" to an edit says that both have it; an error says *)
(* that memory has it and the disk may.                                    *)
(***************************************************************************)
CONSTANTS None, Absent, Name, Value, Conn

VARIABLES
    open,           \* the vault in memory, None while locked
    disk,           \* the vault on disk
    calls           \* calls[c]: the request of c and its answer

vars == <<open, disk, calls>>

Maps == [Name -> Value \cup {Absent}]

Kind(kind) == [kind |-> kind]

Edited(v, r) ==
    [v EXCEPT ![r.name] = IF r.op = "set" THEN r.value ELSE Absent]

Init == open = None /\ disk = [n \in Name |-> Absent] /\ calls = [c \in Conn |-> None]

Call(c, r) ==
    /\ calls[c] = None
    /\ calls' = [calls EXCEPT ![c] = [req |-> r, answer |-> None]]
    /\ UNCHANGED <<open, disk>>

Answer(c, a) == calls' = [calls EXCEPT ![c].answer = a]

ServeSession(c, r) ==
    /\ \/ /\ r.op = "unlock"
          /\ \/ r.right /\ open' = disk /\ Answer(c, Kind("ok"))
             \/ ~r.right /\ open' = open /\ Answer(c, Kind("error"))
       \/ r.op = "lock" /\ open' = None /\ Answer(c, Kind("ok"))
       \/ /\ r.op = "status" /\ open' = open
          /\ Answer(c, [kind |-> "status", locked |-> open = None])
    /\ UNCHANGED disk

ServeVault(c, r) ==
    \/ /\ r.op = "get"
       /\ Answer(c, [kind |-> "value", value |-> open[r.name]])
       /\ UNCHANGED <<open, disk>>
    \/ /\ r.op = "delete" /\ open[r.name] = Absent
       /\ Answer(c, Kind("notFound"))
       /\ UNCHANGED <<open, disk>>
    \/ /\ r.op = "set" \/ (r.op = "delete" /\ open[r.name] # Absent)
       /\ open' = Edited(open, r)
       /\ \/ disk' = open' /\ Answer(c, Kind("ok"))
          \/ disk' \in {disk, open'} /\ Answer(c, Kind("error"))

Refuse(c) == Answer(c, Kind("locked")) /\ UNCHANGED <<open, disk>>

Serve(c) ==
    /\ calls[c] # None
    /\ calls[c].answer = None
    /\ LET r == calls[c].req
       IN  \/ ServeSession(c, r)
           \/ r.op \in {"get", "set", "delete"} /\ open = None /\ Refuse(c)
           \/ r.op \in {"get", "set", "delete"} /\ open # None /\ ServeVault(c, r)

Return(c) ==
    /\ calls[c] # None
    /\ calls[c].answer # None
    /\ calls' = [calls EXCEPT ![c] = None]
    /\ UNCHANGED <<open, disk>>

Lock == open' = None /\ UNCHANGED <<disk, calls>>

(* A restart locks the vault and answers nobody; it may come between an    *)
(* edit's reaching the disk and its answer.                                *)
Restart ==
    /\ open' = None
    /\ calls' = [c \in Conn |-> None]
    /\ \/ disk' = disk
       \/ \E c \in Conn :
             /\ open # None /\ calls[c] # None
             /\ calls[c].answer = None
             /\ calls[c].req.op \in {"set", "delete"}
             /\ disk' = Edited(open, calls[c].req)

Requests ==
    [op : {"unlock"}, right : BOOLEAN] \cup [op : {"lock", "status"}]
    \cup [op : {"get", "delete"}, name : Name]
    \cup [op : {"set"}, name : Name, value : Value]

Next ==
    \/ \E c \in Conn : Serve(c) \/ Return(c) \/ \E r \in Requests : Call(c, r)
    \/ Lock
    \/ Restart

Spec == Init /\ [][Next]_vars
=============================================================================
