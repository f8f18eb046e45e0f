---------------------------- MODULE Daemon_proofs ----------------------------
(***************************************************************************)
(* Proofs about Daemon: the types, the vault in memory and on disk, the    *)
(* auto-lock deadline, and the refinement of AtomicDaemon, for any number  *)
(* of connections, names, values, requests and faults and for any timeout  *)
(* and check interval.                                                     *)
(***************************************************************************)
EXTENDS Daemon, SequenceTheorems, TLAPS

NobodySaves == \A c \in Conn : conn[c].stage # "saving"

(* A connection's request and response follow its stage. *)
CallOK(c) ==
    /\ conn[c].stage \in {"sent", "queued", "saving"}
       => conn[c].req \in Requests /\ conn[c].response = None
    /\ conn[c].stage = "answered"
       => conn[c].req \in Requests /\ conn[c].response # None

(* Whoever saves has the mutex, and its edit is all that memory has beyond *)
(* what the last holder left.                                              *)
SavingOK(c) ==
    LET r == conn[c].req
    IN  conn[c].stage = "saving"
        => /\ Holds(c)
           /\ r.op \in {"set", "delete"}
           /\ seen # None
           /\ r.op = "delete" => seen[r.name] # Absent
           /\ vault = Atomic!Edited(seen, r)

VaultOK == NobodySaves => seen = vault

(* The clock, the last request and the next check. *)
TimerOK ==
    /\ last_activity <= now
    /\ wake <= now + CHECK_INTERVAL
    /\ Asleep => now <= wake
    /\ Asleep /\ vault # None
       => wake - last_activity < IDLE_TIMEOUT + CHECK_INTERVAL

IInv ==
    /\ TypeOK
    /\ \A c \in Conn : CallOK(c) /\ SavingOK(c)
    /\ VaultOK
    /\ TimerOK
    /\ MemoryMirrorsFile

-----------------------------------------------------------------------------
(* The fields of a request, and the answers that need no data. *)
LEMMA RequestFields ==
    ASSUME NEW r \in Requests
    PROVE  /\ r.op \in {"unlock", "lock", "status", "get", "set", "delete"}
           /\ r.op = "unlock" => r.right \in BOOLEAN
           /\ r.op \in {"get", "set", "delete"} => r.name \in Name
           /\ r.op = "set" => r.value \in Value
BY DEF Requests

(* Every answer the handler gives is a response, and none of them is None. *)
LEMMA Answers ==
    /\ \A k \in {"ok", "error", "locked", "notFound"} : Kind(k) \in Responses
    /\ \A v \in Value \cup {Absent} : [kind |-> "value", value |-> v] \in Responses
    /\ \A b \in BOOLEAN : [kind |-> "status", locked |-> b] \in Responses
    /\ None \notin Responses /\ None \notin Requests /\ None \notin Maps
BY DaemonAssumption DEF Responses, Kind

(* A connection on which a request has just been sent. *)
Sent(r) == [Free EXCEPT !.stage = "sent", !.req = r, !.waits = TRUE]

LEMMA SentCall ==
    ASSUME NEW r \in Requests
    PROVE  /\ Sent(r) \in [stage : Stages, req : Requests \cup {None},
                           response : Responses \cup {None}, waits : BOOLEAN]
           /\ Sent(r).stage = "sent" /\ Sent(r).req = r /\ Sent(r).response = None
<1>1. /\ Free \in [stage : Stages, req : Requests \cup {None},
                  response : Responses \cup {None}, waits : BOOLEAN]
      /\ Free.response = None
  BY DEF Free, Stages
<1>2. QED BY <1>1 DEF Sent, Stages

(* An edit of a vault is a vault. *)
LEMMA EditedIsAVault ==
    ASSUME NEW v \in Maps, NEW r \in Requests, r.op \in {"set", "delete"}
    PROVE  /\ Atomic!Edited(v, r) \in Maps
           /\ Atomic!Edited(v, r)
              = [v EXCEPT ![r.name] = IF r.op = "set" THEN r.value ELSE Absent]
BY RequestFields DEF Maps, Atomic!Edited

(* Who asks for the mutex goes to the end of the queue. *)
LEMMA AppendToQueue ==
    ASSUME NEW S, NEW q \in Seq(S), NEW p \in S
    PROVE  /\ Append(q, p) \in Seq(S)
           /\ Append(q, p) # <<>>
           /\ q # <<>> => Head(Append(q, p)) = Head(q)
           /\ \A a : (\A i \in DOMAIN Append(q, p) : Append(q, p)[i] # a)
                     => a # p /\ \A i \in DOMAIN q : q[i] # a
<1>1. /\ Append(q, p) \in Seq(S)
      /\ Append(q, p) # <<>>
      /\ Len(Append(q, p)) = Len(q) + 1
      /\ \A i \in 1 .. Len(q) : Append(q, p)[i] = q[i]
      /\ Append(q, p)[Len(q) + 1] = p
  BY AppendProperties
<1>2. q # <<>> => Head(Append(q, p)) = Head(q)
  BY HeadTailAppend
<1>3. /\ Len(q) \in Nat
      /\ DOMAIN q = 1 .. Len(q)
      /\ DOMAIN Append(q, p) = 1 .. Len(q) + 1
  BY <1>1, LenProperties
<1>4. ASSUME NEW a, \A i \in DOMAIN Append(q, p) : Append(q, p)[i] # a
      PROVE  a # p /\ \A i \in DOMAIN q : q[i] # a
  BY <1>1, <1>3, <1>4
<1>5. QED BY <1>1, <1>2, <1>4

(* Who lets go of the mutex leaves the others in the queue. *)
LEMMA TailOfQueue ==
    ASSUME NEW S, NEW q \in Seq(S), q # <<>>
    PROVE  /\ Tail(q) \in Seq(S)
           /\ \A a : Head(q) # a /\ (\A i \in DOMAIN Tail(q) : Tail(q)[i] # a)
                     => \A i \in DOMAIN q : q[i] # a
<1>1. /\ Tail(q) \in Seq(S)
      /\ Len(Tail(q)) = Len(q) - 1
      /\ \A i \in 1 .. Len(Tail(q)) : Tail(q)[i] = q[i + 1]
  BY HeadTailProperties
<1>2. /\ Len(q) \in Nat \ {0}
      /\ DOMAIN q = 1 .. Len(q)
      /\ DOMAIN Tail(q) = 1 .. Len(q) - 1
      /\ Head(q) = q[1]
  BY <1>1, LenProperties, EmptySeq
<1>3. ASSUME NEW a, Head(q) # a, \A i \in DOMAIN Tail(q) : Tail(q)[i] # a,
             NEW i \in DOMAIN q
      PROVE  q[i] # a
  <2>1. CASE i = 1
    BY <1>2, <1>3, <2>1
  <2>2. CASE i # 1
    <3>1. i - 1 \in 1 .. Len(Tail(q)) /\ i - 1 + 1 = i
      BY <1>1, <1>2, <1>3, <2>2
    <3>2. Tail(q)[i - 1] = q[i]
      BY <1>1, <3>1
    <3>3. QED BY <1>1, <1>2, <1>3, <3>1, <3>2
  <2>3. QED BY <2>1, <2>2
<1>4. QED BY <1>1, <1>3

-----------------------------------------------------------------------------
(* A daemon starts locked, with nobody connected. *)
LEMMA InitIInv == Init => IInv
<1> SUFFICES ASSUME Init PROVE IInv
  OBVIOUS
<1>1. TypeOK
  BY DaemonAssumption, EmptySeq DEF Init, TypeOK, Free, Stages, Maps, time
<1>2. \A c \in Conn : CallOK(c) /\ SavingOK(c)
  BY DEF Init, CallOK, SavingOK, Free
<1>3. VaultOK /\ MemoryMirrorsFile
  BY DEF Init, VaultOK, MemoryMirrorsFile
<1>4. TimerOK
  BY DaemonAssumption DEF Init, TimerOK
<1>5. QED BY <1>1, <1>2, <1>3, <1>4 DEF IInv

(* The holder of the mutex answers: nobody else was saving, so memory is   *)
(* what this holder leaves, and no other connection is touched.            *)
LEMMA RespondStep ==
    ASSUME IInv, NEW c \in Conn, NEW a \in Responses,
           conn[c].stage \in {"queued", "saving"}, Holds(c), Respond(c, a)
    PROVE  /\ conn' \in [Conn -> [stage : Stages, req : Requests \cup {None},
                                  response : Responses \cup {None}, waits : BOOLEAN]]
           /\ queue' \in Seq(Conn \cup {AutoLock})
           /\ NobodySaves' /\ seen' = vault'
           /\ \A d \in Conn : CallOK(d)' /\ SavingOK(d)'
           /\ Asleep' => Asleep
           /\ \A d \in Conn \ {c} : conn[d].stage # "saving"
           /\ Atomic!Answer(c, a)
<1>1. TypeOK /\ \A d \in Conn : CallOK(d) /\ SavingOK(d)
  BY DEF IInv
<1>2. \A d \in Conn \ {c} : conn[d].stage # "saving"
  BY <1>1 DEF SavingOK, Holds
<1>3. conn' = [conn EXCEPT ![c].stage = "answered", ![c].response = a]
  BY DEF Respond
<1>4. conn' \in [Conn -> [stage : Stages, req : Requests \cup {None},
                          response : Responses \cup {None}, waits : BOOLEAN]]
  BY <1>1, <1>3 DEF TypeOK, Stages
<1>5. queue' \in Seq(Conn \cup {AutoLock}) /\ (Asleep' => Asleep)
  <2>1. queue # <<>> /\ Head(queue) = c /\ queue' = Tail(queue) /\ c # AutoLock
    BY DaemonAssumption DEF Holds, Respond, Release
  <2>2. queue \in Seq(Conn \cup {AutoLock})
    BY <1>1 DEF TypeOK
  <2>3. QED BY <2>1, <2>2, TailOfQueue DEF Asleep
<1>6. NobodySaves' /\ seen' = vault'
  BY <1>1, <1>2, <1>3 DEF NobodySaves, Respond, TypeOK
<1>7. \A d \in Conn : CallOK(d)' /\ SavingOK(d)'
  BY <1>1, <1>3, <1>6, Answers DEF NobodySaves, TypeOK, CallOK, SavingOK
<1>8. Atomic!Answer(c, a)
  BY <1>1, <1>3 DEF Atomic!Answer, TypeOK
<1>9. QED BY <1>2, <1>4, <1>5, <1>6, <1>7, <1>8

-----------------------------------------------------------------------------
(* What a step of the handler that ends in a response needs beyond         *)
(* RespondStep: the vault it leaves, and that it wrote no file.            *)
LEMMA RespondKeepsIInv ==
    ASSUME IInv, NEW c \in Conn, NEW a \in Responses,
           conn[c].stage = "queued", Holds(c), Respond(c, a),
           vault' \in {None, vault, file},
           last_activity' = now, UNCHANGED <<file, faults, now, wake, requests>>
    PROVE  IInv'
<1>1. TypeOK /\ TimerOK /\ VaultOK /\ MemoryMirrorsFile
  BY DEF IInv
<1>2. /\ conn' \in [Conn -> [stage : Stages, req : Requests \cup {None},
                             response : Responses \cup {None}, waits : BOOLEAN]]
      /\ queue' \in Seq(Conn \cup {AutoLock})
      /\ NobodySaves' /\ seen' = vault'
      /\ \A d \in Conn : CallOK(d)' /\ SavingOK(d)'
      /\ Asleep' => Asleep
      /\ \A d \in Conn \ {c} : conn[d].stage # "saving"
  BY RespondStep
<1>3. TypeOK'
  BY <1>1, <1>2 DEF TypeOK
<1>4. VaultOK'
  BY <1>2 DEF VaultOK
<1>5. TimerOK'
  BY <1>1, <1>2, DaemonAssumption DEF TimerOK, TypeOK
<1>6. MemoryMirrorsFile'
  <2>1. \A d \in Conn : conn[d].stage # "saving"
    BY <1>2
  <2>2. QED BY <1>1, <2>1 DEF MemoryMirrorsFile
<1>7. QED BY <1>2, <1>3, <1>4, <1>5, <1>6 DEF IInv

(* A request that changes the vault, or reads it, under the mutex. *)
LEMMA HandleStep ==
    ASSUME IInv, NEW c \in Conn, Handle(c)
    PROVE  IInv'
<1> DEFINE r == conn[c].req
<1>1. TypeOK /\ CallOK(c) /\ VaultOK /\ TimerOK /\ MemoryMirrorsFile
  BY DEF IInv
<1>2. conn[c].stage = "queued" /\ Holds(c) /\ last_activity' = now
      /\ UNCHANGED <<now, wake, requests>>
  BY DEF Handle
<1>3. r \in Requests
  BY <1>1, <1>2 DEF CallOK
<1>4. CASE DoUnlock(c, r)
  BY <1>2, <1>4, Answers, RespondKeepsIInv DEF DoUnlock
<1>5. CASE LockVault(c, r)
  BY <1>2, <1>5, Answers, RespondKeepsIInv DEF LockVault
<1>6. CASE DaemonStatus(c, r)
  BY <1>2, <1>6, Answers, RespondKeepsIInv DEF DaemonStatus
<1>7. CASE VaultLocked(c, r)
  BY <1>2, <1>7, Answers, RespondKeepsIInv DEF VaultLocked
<1>8. CASE GetCredential(c, r)
  <2>1. vault[r.name] \in Value \cup {Absent}
    BY <1>1, <1>3, <1>8, RequestFields DEF GetCredential, TypeOK, Maps
  <2>2. QED BY <1>2, <1>8, <2>1, Answers, RespondKeepsIInv DEF GetCredential
<1>9. CASE NotFound(c, r)
  BY <1>2, <1>9, Answers, RespondKeepsIInv DEF NotFound
<1>10. CASE EditCredential(c, r)
  <2>1. /\ conn' = [conn EXCEPT ![c].stage = "saving"]
        /\ vault # None /\ vault \in Maps
        /\ r.op \in {"set", "delete"} /\ (r.op = "delete" => vault[r.name] # Absent)
        /\ UNCHANGED <<queue, file, faults, seen>>
    BY <1>1, <1>10 DEF EditCredential, TypeOK
  <2>2. \A d \in Conn : conn[d].stage # "saving"
    BY <1>2 DEF IInv, SavingOK, Holds
  <2>3. seen = vault
    BY <1>1, <2>2 DEF VaultOK, NobodySaves
  <2>4. vault' = Atomic!Edited(seen, r) /\ vault' \in Maps
    <3>1. vault' = [vault EXCEPT ![r.name] = IF r.op = "set" THEN r.value ELSE Absent]
      BY <1>10 DEF EditCredential
    <3>2. /\ Atomic!Edited(vault, r) \in Maps
          /\ Atomic!Edited(vault, r)
             = [vault EXCEPT ![r.name] = IF r.op = "set" THEN r.value ELSE Absent]
      BY <1>3, <2>1, EditedIsAVault
    <3>3. QED BY <2>3, <3>1, <3>2
  <2>5. TypeOK'
    BY <1>1, <1>2, <2>1, <2>4 DEF TypeOK, Stages
  <2>6. \A d \in Conn : CallOK(d)'
    BY <1>2, <2>1 DEF IInv, CallOK, TypeOK
  <2>7. \A d \in Conn : SavingOK(d)'
    <3>1. SavingOK(c)'
      BY <1>1, <1>2, <2>1, <2>3, <2>4 DEF SavingOK, Holds, TypeOK, Atomic!Edited
    <3>2. ASSUME NEW d \in Conn, d # c PROVE SavingOK(d)'
      <4>1. conn'[d].stage # "saving"
        BY <1>1, <2>1, <2>2, <3>2 DEF TypeOK
      <4>2. QED BY <4>1 DEF SavingOK
    <3>3. QED BY <3>1, <3>2
  <2>8. conn'[c].stage = "saving"
    BY <1>1, <2>1 DEF TypeOK
  <2>9. VaultOK' /\ MemoryMirrorsFile'
    BY <2>8 DEF VaultOK, NobodySaves, MemoryMirrorsFile
  <2>10. TimerOK'
    <3>1. /\ UNCHANGED <<now, wake>> /\ last_activity' = now
          /\ Asleep' <=> Asleep
      BY <1>2, <2>1 DEF Asleep
    <3>2. /\ now \in Nat /\ wake \in Nat
          /\ IDLE_TIMEOUT \in Nat \ {0} /\ CHECK_INTERVAL \in Nat \ {0}
      BY <1>1, DaemonAssumption DEF TypeOK
    <3>3. wake <= now + CHECK_INTERVAL /\ (Asleep => now <= wake)
      BY <1>1 DEF TimerOK
    <3>4. now <= now /\ wake - now < IDLE_TIMEOUT + CHECK_INTERVAL
      BY ONLY <3>2, <3>3
    <3>5. QED BY ONLY <3>1, <3>3, <3>4 DEF TimerOK
  <2>11. QED BY <2>5, <2>6, <2>7, <2>9, <2>10 DEF IInv
<1>11. QED
  BY <1>4, <1>5, <1>6, <1>7, <1>8, <1>9, <1>10 DEF Handle

(* A save that succeeds or fails under the mutex. *)
LEMMA SaveStep ==
    ASSUME IInv, NEW c \in Conn, Save(c) \/ SaveFails(c)
    PROVE  IInv'
<1>1. TypeOK /\ SavingOK(c) /\ TimerOK
  BY DEF IInv
<1>2. conn[c].stage = "saving" /\ Holds(c) /\ vault \in Maps
  <2>1. conn[c].stage = "saving" /\ CallOK(c)
    BY DEF Save, SaveFails, IInv
  <2>2. Holds(c) /\ seen \in Maps /\ vault = Atomic!Edited(seen, conn[c].req)
    BY <1>1, <2>1 DEF SavingOK, TypeOK
  <2>3. QED BY <1>1, <2>1, <2>2, EditedIsAVault DEF CallOK, SavingOK
<1>3. /\ vault' = vault /\ file' \in {file, vault}
      /\ UNCHANGED <<last_activity, now, wake, requests>>
      /\ faults' \in Nat
      /\ faults' = 0 => file' = vault
  BY <1>1 DEF Save, SaveFails, Fault, time, TypeOK
<1>4. /\ conn' \in [Conn -> [stage : Stages, req : Requests \cup {None},
                             response : Responses \cup {None}, waits : BOOLEAN]]
      /\ queue' \in Seq(Conn \cup {AutoLock})
      /\ NobodySaves' /\ seen' = vault'
      /\ \A d \in Conn : CallOK(d)' /\ SavingOK(d)'
      /\ Asleep' => Asleep
  BY <1>2, Answers, RespondStep DEF Save, SaveFails
<1>5. TypeOK'
  BY <1>1, <1>2, <1>3, <1>4 DEF TypeOK
<1>6. VaultOK' /\ MemoryMirrorsFile'
  BY <1>3, <1>4 DEF VaultOK, MemoryMirrorsFile
<1>7. TimerOK'
  BY <1>1, <1>3, <1>4 DEF TimerOK
<1>8. QED BY <1>4, <1>5, <1>6, <1>7 DEF IInv

(* The steps of a connection around its handling. *)
LEMMA ConnectionStep ==
    ASSUME IInv, NEW c \in Conn,
           \/ ReadMessage(c) \/ WriteMessage(c) \/ Timeout(c)
           \/ \E r \in Sendable : SendRequest(c, r)
    PROVE  IInv'
<1>1. TypeOK /\ VaultOK /\ TimerOK /\ MemoryMirrorsFile
      /\ \A d \in Conn : CallOK(d) /\ SavingOK(d)
  BY DEF IInv
<1>2. UNCHANGED <<vault, file, last_activity, now, wake, faults, seen>>
  BY DEF ReadMessage, WriteMessage, Timeout, SendRequest, time
<1>3. /\ conn' \in [Conn -> [stage : Stages, req : Requests \cup {None},
                             response : Responses \cup {None}, waits : BOOLEAN]]
      /\ requests' \in Nat
      /\ \A d \in Conn : /\ conn'[d].stage = "saving" <=> conn[d].stage = "saving"
                         /\ conn'[d].stage = "saving" => conn'[d].req = conn[d].req
                         /\ CallOK(d)'
  <2>1. CASE ReadMessage(c)
    BY <1>1, <2>1 DEF ReadMessage, TypeOK, Stages, CallOK
  <2>2. CASE WriteMessage(c)
    BY <1>1, <2>2 DEF WriteMessage, TypeOK, Stages, CallOK, Free
  <2>3. CASE Timeout(c)
    BY <1>1, <2>3 DEF Timeout, TypeOK, Stages, CallOK
  <2>4. CASE \E r \in Sendable : SendRequest(c, r)
    <3>1. PICK r \in Sendable : SendRequest(c, r)
      BY <2>4
    <3>2. r \in Requests
      BY DaemonAssumption
    <3>3. /\ conn[c].stage = "free"
          /\ conn' = [conn EXCEPT ![c] = Sent(r)]
          /\ requests' = requests + 1
      BY <3>1 DEF SendRequest, Sent
    <3>4. /\ conn' \in [Conn -> [stage : Stages, req : Requests \cup {None},
                                 response : Responses \cup {None}, waits : BOOLEAN]]
          /\ requests' \in Nat
      BY <1>1, <3>2, <3>3, SentCall DEF TypeOK
    <3>5. /\ conn'[c].stage = "sent" /\ conn'[c].req = r /\ conn'[c].response = None
          /\ \A d \in Conn \ {c} : conn'[d] = conn[d]
      BY <1>1, <3>2, <3>3, SentCall DEF TypeOK
    <3>6. QED BY <1>1, <3>2, <3>3, <3>4, <3>5 DEF CallOK
  <2>5. QED BY <2>1, <2>2, <2>3, <2>4
<1>4. /\ queue' \in Seq(Conn \cup {AutoLock})
      /\ \A p : Holds(p) => Holds(p)'
      /\ Asleep' => Asleep
  <2>1. CASE queue' = queue
    BY <1>1, <2>1 DEF TypeOK, Holds, Asleep
  <2>2. CASE ReadMessage(c)
    <3>1. queue' = Append(queue, c) /\ queue \in Seq(Conn \cup {AutoLock})
      BY <1>1, <2>2 DEF ReadMessage, TypeOK
    <3>2. QED BY <3>1, AppendToQueue DEF Holds, Asleep
  <2>3. QED BY <2>1, <2>2 DEF WriteMessage, Timeout, SendRequest
<1>5. TypeOK'
  BY <1>1, <1>2, <1>3, <1>4 DEF TypeOK
<1>6. \A d \in Conn : SavingOK(d)'
  BY <1>1, <1>2, <1>3, <1>4 DEF SavingOK, Atomic!Edited
<1>7. VaultOK' /\ MemoryMirrorsFile'
  BY <1>1, <1>2, <1>3 DEF VaultOK, NobodySaves, MemoryMirrorsFile
<1>8. TimerOK'
  BY <1>1, <1>2, <1>4 DEF TimerOK
<1>9. QED BY <1>3, <1>5, <1>6, <1>7, <1>8 DEF IInv

(* The auto-lock task, the clock and a restart. *)
LEMMA ClockStep ==
    ASSUME IInv, AutoLockTask \/ Tick \/ Restart
    PROVE  IInv'
<1>1. TypeOK /\ VaultOK /\ TimerOK /\ MemoryMirrorsFile
      /\ \A d \in Conn : CallOK(d) /\ SavingOK(d)
  BY DEF IInv
<1>2. CASE WakeUp
  <2>1. queue' = Append(queue, AutoLock) /\ queue \in Seq(Conn \cup {AutoLock})
        /\ UNCHANGED <<conn, vault, file, last_activity, now, wake, requests, faults, seen>>
    BY <1>1, <1>2 DEF WakeUp, TypeOK, time
  <2>2. queue' \in Seq(Conn \cup {AutoLock}) /\ (\A p : Holds(p) => Holds(p)') /\ ~Asleep'
    BY <2>1, AppendToQueue DEF Holds, Asleep
  <2>3. TypeOK' /\ VaultOK' /\ MemoryMirrorsFile'
    BY <1>1, <2>1, <2>2 DEF TypeOK, VaultOK, NobodySaves, MemoryMirrorsFile
  <2>4. TimerOK'
    BY <1>1, <2>1, <2>2 DEF TimerOK
  <2>5. \A d \in Conn : CallOK(d)' /\ SavingOK(d)'
    BY <1>1, <2>1, <2>2 DEF CallOK, SavingOK, Atomic!Edited
  <2>6. QED BY <2>3, <2>4, <2>5 DEF IInv
<1>3. CASE CheckIdle
  <2>1. /\ Holds(AutoLock) /\ queue' = Tail(queue) /\ seen' = vault'
        /\ vault' = IF now - last_activity >= IDLE_TIMEOUT THEN None ELSE vault
        /\ wake' = now + CHECK_INTERVAL
        /\ UNCHANGED <<conn, file, last_activity, now, requests, faults>>
    BY <1>3 DEF CheckIdle, Release
  <2>2. NobodySaves
    BY <1>1, <2>1, DaemonAssumption DEF SavingOK, Holds, NobodySaves
  <2>3. queue' \in Seq(Conn \cup {AutoLock})
    BY <1>1, <2>1, TailOfQueue DEF Holds, TypeOK
  <2>4. TypeOK'
    BY <1>1, <2>1, <2>3, DaemonAssumption DEF TypeOK
  <2>5. VaultOK' /\ MemoryMirrorsFile'
    BY <1>1, <2>1, <2>2 DEF VaultOK, NobodySaves, MemoryMirrorsFile
  <2>6. TimerOK'
    BY <1>1, <2>1, DaemonAssumption DEF TimerOK, TypeOK
  <2>7. \A d \in Conn : CallOK(d)' /\ SavingOK(d)'
    BY <1>1, <2>1, <2>2 DEF CallOK, SavingOK, NobodySaves
  <2>8. QED BY <2>4, <2>5, <2>6, <2>7 DEF IInv
<1>4. CASE Tick
  <2>1. /\ ~(Asleep /\ now >= wake) /\ now' = now + 1
        /\ UNCHANGED <<conn, queue, vault, file, last_activity, wake, requests, faults, seen>>
    BY <1>4 DEF Tick
  <2>2. TypeOK' /\ VaultOK' /\ MemoryMirrorsFile'
    BY <1>1, <2>1 DEF TypeOK, VaultOK, NobodySaves, MemoryMirrorsFile
  <2>3. TimerOK'
    <3>1. Asleep' <=> Asleep
      BY <2>1 DEF Asleep
    <3>2. QED BY <1>1, <2>1, <3>1, DaemonAssumption DEF TimerOK, TypeOK
  <2>4. \A d \in Conn : CallOK(d)' /\ SavingOK(d)'
    BY <1>1, <2>1 DEF CallOK, SavingOK, Holds, Atomic!Edited
  <2>5. QED BY <2>2, <2>3, <2>4 DEF IInv
<1>5. CASE Restart
  <2>1. /\ conn' = [c \in Conn |-> Free] /\ queue' = <<>>
        /\ vault' = None /\ seen' = None
        /\ last_activity' = now /\ wake' = now + CHECK_INTERVAL
        /\ faults' \in Nat /\ UNCHANGED <<now, requests>>
    BY <1>1, <1>5 DEF Restart, Fault, TypeOK
  <2>2. file' \in Maps
    <3>1. CASE file' = file
      BY <1>1, <3>1 DEF TypeOK
    <3>2. CASE \E c \in Conn : conn[c].stage = "saving" /\ file' = vault
      <4>1. PICK c \in Conn : conn[c].stage = "saving" /\ file' = vault
        BY <3>2
      <4>2. /\ seen \in Maps /\ vault = Atomic!Edited(seen, conn[c].req)
            /\ conn[c].req \in Requests /\ conn[c].req.op \in {"set", "delete"}
        BY <1>1, <4>1 DEF SavingOK, CallOK, TypeOK
      <4>3. QED BY <4>1, <4>2, EditedIsAVault
    <3>3. QED BY <1>5, <3>1, <3>2 DEF Restart
  <2>3. TypeOK'
    BY <1>1, <2>1, <2>2, EmptySeq, DaemonAssumption DEF TypeOK, Free, Stages
  <2>4. VaultOK' /\ MemoryMirrorsFile'
    BY <2>1 DEF VaultOK, MemoryMirrorsFile
  <2>5. TimerOK'
    BY <1>1, <2>1, DaemonAssumption DEF TimerOK, TypeOK
  <2>6. \A d \in Conn : CallOK(d)' /\ SavingOK(d)'
    BY <2>1 DEF CallOK, SavingOK, Free
  <2>7. QED BY <2>3, <2>4, <2>5, <2>6 DEF IInv
<1>6. QED BY <1>2, <1>3, <1>4, <1>5 DEF AutoLockTask

(* Every step keeps the invariant. *)
LEMMA NextKeepsIInv == IInv /\ [Next]_vars => IInv'
<1> SUFFICES ASSUME IInv, [Next]_vars PROVE IInv'
  OBVIOUS
<1>1. CASE Next
  BY <1>1, HandleStep, SaveStep, ConnectionStep, ClockStep DEF Next, Task
<1>2. CASE UNCHANGED vars
  BY <1>2 DEF vars, time, IInv, TypeOK, CallOK, SavingOK, Holds, VaultOK, NobodySaves,
              TimerOK, Asleep, MemoryMirrorsFile, Atomic!Edited
<1>3. QED BY <1>1, <1>2

-----------------------------------------------------------------------------
(* Every reachable state satisfies the invariant. *)
THEOREM Invariance == Spec => []IInv
<1>1. Init => IInv
  BY InitIInv
<1>2. IInv /\ [Next]_vars => IInv'
  BY NextKeepsIInv
<1>3. QED BY <1>1, <1>2, PTL DEF Spec

(* The variables have their types, however many requests and faults. *)
THEOREM TypeCorrect == Spec => []TypeOK
<1>1. IInv => TypeOK
  BY DEF IInv
<1>2. QED BY <1>1, Invariance, PTL

(* While no save has failed, an open vault that nobody is saving is the    *)
(* one on disk: no save writes an older vault over a newer one.            *)
THEOREM MemoryIsTheFile == Spec => []MemoryMirrorsFile
<1>1. IInv => MemoryMirrorsFile
  BY DEF IInv
<1>2. QED BY <1>1, Invariance, PTL

(* An idle vault is locked before the timeout and the check interval have  *)
(* passed, whatever the two are and whoever held the mutex.                *)
THEOREM IdleVaultIsLocked == Spec => []LocksWhenIdle
<1>1. IInv => LocksWhenIdle
  <2> SUFFICES ASSUME IInv, vault # None, queue = <<>>
               PROVE  now - last_activity < IDLE_TIMEOUT + CHECK_INTERVAL
    BY DEF LocksWhenIdle
  <2>1. Asleep
    <3>1. DOMAIN queue = 1 .. 0
      BY EmptySeq, LenProperties
    <3>2. QED BY <3>1 DEF Asleep
  <2>2. TypeOK /\ TimerOK
    BY DEF IInv
  <2>3. QED BY <2>1, <2>2, DaemonAssumption DEF TimerOK, TypeOK
<1>2. QED BY <1>1, Invariance, PTL

-----------------------------------------------------------------------------
(* A daemon that has just started is an atomic daemon that has. *)
LEMMA InitRefines == Init => Atomic!Init
BY DEF Init, Atomic!Init, Free

(* While a request waits for the mutex or is saved, it is a call that has  *)
(* no answer yet.                                                          *)
LEMMA PendingCall ==
    ASSUME IInv, NEW c \in Conn, conn[c].stage \in {"sent", "queued", "saving"}
    PROVE  /\ conn[c].stage # "free" /\ conn[c].response = None
           /\ [req |-> conn[c].req, answer |-> conn[c].response] # None
           /\ conn[c].req \in Requests
<1>1. conn[c].req \in Requests /\ conn[c].response = None
  BY DEF IInv, CallOK
<1>2. [req |-> conn[c].req, answer |-> conn[c].response]
      \in [req : Requests, answer : Responses \cup {None}]
  BY <1>1
<1>3. QED BY <1>1, <1>2, DaemonAssumption

(* The handler's responses are the abstract daemon's answers, given on the *)
(* vault the last holder of the mutex left.                                *)
LEMMA HandleRefines ==
    ASSUME IInv, NEW c \in Conn, Handle(c)
    PROVE  Atomic!Serve(c) \/ UNCHANGED Atomic!vars
<1> DEFINE r == conn[c].req
<1>1. TypeOK /\ VaultOK
  BY DEF IInv
<1>2. conn[c].stage = "queued" /\ Holds(c)
  BY DEF Handle
<1>3. /\ conn[c].stage # "free" /\ conn[c].response = None
      /\ [req |-> conn[c].req, answer |-> conn[c].response] # None
      /\ r \in Requests
  BY <1>2, PendingCall
<1>4. NobodySaves
  BY <1>2 DEF IInv, SavingOK, Holds, NobodySaves
<1>5. seen = vault
  BY <1>1, <1>4 DEF VaultOK
<1>6. ASSUME NEW a \in Responses, Respond(c, a)
      PROVE  Atomic!Answer(c, a) /\ seen' = vault'
  BY <1>2, <1>6, RespondStep
<1>7. CASE DoUnlock(c, r)
  BY <1>3, <1>5, <1>6, <1>7, Answers, RequestFields
     DEF DoUnlock, Atomic!Serve, Atomic!ServeSession, Kind, Atomic!Kind
<1>8. CASE LockVault(c, r)
  BY <1>3, <1>5, <1>6, <1>8, Answers
     DEF LockVault, Atomic!Serve, Atomic!ServeSession, Kind, Atomic!Kind
<1>9. CASE DaemonStatus(c, r)
  <2>1. \E a \in Responses : a = [kind |-> "status", locked |-> vault = None]
    <3>1. (vault = None) \in BOOLEAN
      OBVIOUS
    <3>2. QED BY <3>1, Answers, Zenon
  <2>2. PICK a \in Responses : a = [kind |-> "status", locked |-> vault = None]
    BY <2>1, Zenon
  <2>3. r.op = "status" /\ vault' = vault /\ Respond(c, a) /\ UNCHANGED file
    BY <1>9, <2>2, Zenon DEF DaemonStatus
  <2>4. Atomic!Answer(c, a) /\ seen' = vault'
    BY <1>6, <2>2, <2>3, Zenon
  <2>5. Atomic!Answer(c, [kind |-> "status", locked |-> seen = None]) /\ seen' = seen
    <3>1. a = [kind |-> "status", locked |-> seen = None] /\ seen' = seen
      BY <1>5, <2>2, <2>3, <2>4, Zenon
    <3>2. QED BY <2>4, <3>1 DEF Atomic!Answer
  <2>6. Atomic!ServeSession(c, r)
    BY <2>3, <2>5 DEF Atomic!ServeSession
  <2>7. QED BY <1>3, <2>6 DEF Atomic!Serve
<1>10. CASE VaultLocked(c, r)
  BY <1>3, <1>5, <1>6, <1>10, Answers
     DEF VaultLocked, Atomic!Serve, Atomic!Refuse, Kind, Atomic!Kind
<1>11. CASE GetCredential(c, r)
  <2>1. vault[r.name] \in Value \cup {Absent}
    BY <1>1, <1>3, <1>11, RequestFields DEF GetCredential, TypeOK, Maps
  <2>2. PICK a \in Responses : a = [kind |-> "value", value |-> vault[r.name]]
    BY <2>1, Answers, Zenon
  <2>3. /\ r.op = "get" /\ vault # None /\ vault' = vault
        /\ Respond(c, a) /\ UNCHANGED file
    BY <1>11, <2>2, Zenon DEF GetCredential
  <2>4. Atomic!Answer(c, a) /\ seen' = vault'
    BY <1>6, <2>2, <2>3
  <2>5. Atomic!Answer(c, [kind |-> "value", value |-> seen[r.name]]) /\ seen' = seen
    <3>1. a = [kind |-> "value", value |-> seen[r.name]] /\ seen' = seen
      BY <1>5, <2>2, <2>3, <2>4, Zenon
    <3>2. QED BY <2>4, <3>1 DEF Atomic!Answer
  <2>6. Atomic!ServeVault(c, r)
    BY <2>3, <2>5 DEF Atomic!ServeVault
  <2>7. QED BY <1>3, <1>5, <2>3, <2>6 DEF Atomic!Serve
<1>12. CASE NotFound(c, r)
  BY <1>3, <1>5, <1>6, <1>12, Answers
     DEF NotFound, Atomic!Serve, Atomic!ServeVault, Kind, Atomic!Kind
<1>13. CASE EditCredential(c, r)
  <2>1. /\ conn' = [conn EXCEPT ![c].stage = "saving"]
        /\ UNCHANGED <<file, seen>>
    BY <1>13 DEF EditCredential
  <2>2. \A d \in Conn : /\ conn'[d].stage = "free" <=> conn[d].stage = "free"
                        /\ conn'[d].req = conn[d].req
                        /\ conn'[d].response = conn[d].response
    BY <1>1, <1>2, <2>1 DEF TypeOK
  <2>3. QED BY <2>1, <2>2 DEF Atomic!vars
<1>14. QED
  BY <1>7, <1>8, <1>9, <1>10, <1>11, <1>12, <1>13 DEF Handle

(* An edit takes effect when it is saved, or when saving it fails. *)
LEMMA SaveRefines ==
    ASSUME IInv, NEW c \in Conn, Save(c) \/ SaveFails(c)
    PROVE  Atomic!Serve(c)
<1> DEFINE r == conn[c].req
<1>1. conn[c].stage = "saving"
  BY DEF Save, SaveFails
<1>2. /\ Holds(c) /\ r.op \in {"set", "delete"} /\ seen # None
      /\ r.op = "delete" => seen[r.name] # Absent
      /\ vault = Atomic!Edited(seen, r)
  BY <1>1 DEF IInv, SavingOK
<1>3. /\ conn[c].stage # "free" /\ conn[c].response = None
      /\ [req |-> conn[c].req, answer |-> conn[c].response] # None
  BY <1>1, PendingCall
<1>4. CASE Save(c)
  <2>1. Atomic!Answer(c, Kind("ok")) /\ seen' = vault'
    BY <1>1, <1>2, <1>4, Answers, RespondStep DEF Save
  <2>2. seen' = Atomic!Edited(seen, r) /\ file' = seen'
    BY <1>2, <1>4, <2>1 DEF Save
  <2>3. Atomic!ServeVault(c, r)
    BY <1>2, <2>1, <2>2 DEF Atomic!ServeVault, Kind, Atomic!Kind
  <2>4. QED BY <1>2, <1>3, <2>3 DEF Atomic!Serve
<1>5. CASE SaveFails(c)
  <2>1. Atomic!Answer(c, Kind("error")) /\ seen' = vault'
    BY <1>1, <1>2, <1>5, Answers, RespondStep DEF SaveFails
  <2>2. seen' = Atomic!Edited(seen, r) /\ file' \in {file, seen'}
    BY <1>2, <1>5, <2>1 DEF SaveFails
  <2>3. Atomic!ServeVault(c, r)
    BY <1>2, <2>1, <2>2 DEF Atomic!ServeVault, Kind, Atomic!Kind
  <2>4. QED BY <1>2, <1>3, <2>3 DEF Atomic!Serve
<1>6. QED BY <1>4, <1>5

(* Sending is calling, ending the connection is returning, and the steps   *)
(* between them, a client that gives up included, are not seen.            *)
LEMMA ConnectionRefines ==
    ASSUME IInv, NEW c \in Conn,
           \/ ReadMessage(c) \/ WriteMessage(c) \/ Timeout(c)
           \/ \E r \in Sendable : SendRequest(c, r)
    PROVE  \/ Atomic!Return(c) \/ \E r \in Requests : Atomic!Call(c, r)
           \/ UNCHANGED Atomic!vars
<1>1. TypeOK /\ CallOK(c) /\ UNCHANGED <<seen, file>>
  BY DEF IInv, ReadMessage, WriteMessage, Timeout, SendRequest
<1>2. CASE ReadMessage(c) \/ Timeout(c)
  <2>1. \A d \in Conn : /\ conn'[d].stage = "free" <=> conn[d].stage = "free"
                        /\ conn'[d].req = conn[d].req
                        /\ conn'[d].response = conn[d].response
    BY <1>1, <1>2 DEF ReadMessage, Timeout, TypeOK
  <2>2. QED BY <1>1, <2>1 DEF Atomic!vars
<1>3. CASE WriteMessage(c)
  <2>1. /\ conn[c].req \in Requests /\ conn[c].response # None
        /\ conn[c].response \in Responses
        /\ conn[c].stage # "free"
    BY <1>1, <1>3 DEF WriteMessage, CallOK, TypeOK
  <2>2. [req |-> conn[c].req, answer |-> conn[c].response]
        \in [req : Requests, answer : Responses \cup {None}]
    BY <2>1
  <2>3. [req |-> conn[c].req, answer |-> conn[c].response] # None
    BY <2>2, DaemonAssumption
  <2>4. /\ conn'[c].stage = "free"
        /\ \A d \in Conn \ {c} : conn'[d] = conn[d]
    BY <1>1, <1>3 DEF WriteMessage, TypeOK, Free
  <2>5. QED BY <1>1, <2>1, <2>3, <2>4 DEF Atomic!Return
<1>4. CASE \E r \in Sendable : SendRequest(c, r)
  <2>1. PICK r \in Sendable : SendRequest(c, r)
    BY <1>4
  <2>2. r \in Requests
    BY DaemonAssumption
  <2>3. conn[c].stage = "free" /\ conn' = [conn EXCEPT ![c] = Sent(r)]
    BY <2>1 DEF SendRequest, Sent
  <2>4. /\ conn'[c].stage = "sent" /\ conn'[c].req = r /\ conn'[c].response = None
        /\ \A d \in Conn \ {c} : conn'[d] = conn[d]
    BY <1>1, <2>2, <2>3, SentCall DEF TypeOK
  <2>5. Atomic!Call(c, r)
    <3> DEFINE calls == [d \in Conn |->
                           IF conn[d].stage = "free" THEN None
                           ELSE [req |-> conn[d].req, answer |-> conn[d].response]]
               k == [req |-> r, answer |-> None]
    <3>1. calls[c] = None /\ calls'[c] = k
      BY <2>3, <2>4
    <3>2. \A d \in Conn \ {c} : calls'[d] = calls[d]
      BY <2>4
    <3>3. calls' = [d \in Conn |-> calls'[d]] /\ calls = [d \in Conn |-> calls[d]]
      OBVIOUS
    <3>4. calls' = [calls EXCEPT ![c] = k]
      <4> HIDE DEF calls, k
      <4>1. QED BY <3>1, <3>2, <3>3
    <3>5. QED BY <1>1, <3>1, <3>4 DEF Atomic!Call
  <2>6. QED BY <2>2, <2>5
<1>5. QED BY <1>2, <1>3, <1>4

(* The auto-lock task locks or does nothing, the clock is not seen, and a  *)
(* restart may find the edit being saved on disk.                          *)
LEMMA ClockRefines ==
    ASSUME IInv, AutoLockTask \/ Tick \/ Restart
    PROVE  Atomic!Lock \/ Atomic!Restart \/ UNCHANGED Atomic!vars
<1>1. TypeOK /\ VaultOK /\ \A d \in Conn : CallOK(d) /\ SavingOK(d)
  BY DEF IInv
<1>2. CASE WakeUp \/ Tick
  BY <1>2 DEF WakeUp, Tick, Atomic!vars
<1>3. CASE CheckIdle
  <2>1. NobodySaves
    BY <1>1, <1>3, DaemonAssumption DEF CheckIdle, SavingOK, Holds, NobodySaves
  <2>2. seen = vault
    BY <1>1, <2>1 DEF VaultOK
  <2>3. seen' \in {None, seen} /\ UNCHANGED <<file, conn>>
    BY <1>3, <2>2 DEF CheckIdle
  <2>4. QED BY <2>3 DEF Atomic!Lock, Atomic!vars
<1>4. CASE Restart
  <2>1. /\ conn' = [c \in Conn |-> Free] /\ seen' = None
        /\ file' = file \/ \E c \in Conn : conn[c].stage = "saving" /\ file' = vault
    BY <1>4 DEF Restart
  <2>2. \A c \in Conn : conn'[c].stage = "free"
    BY <2>1 DEF Free
  <2>3. CASE file' = file
    BY <2>1, <2>2, <2>3 DEF Atomic!Restart
  <2>4. CASE \E c \in Conn : conn[c].stage = "saving" /\ file' = vault
    <3>1. PICK c \in Conn : conn[c].stage = "saving" /\ file' = vault
      BY <2>4
    <3>2. /\ conn[c].req.op \in {"set", "delete"} /\ seen # None
          /\ file' = Atomic!Edited(seen, conn[c].req)
      BY <1>1, <3>1 DEF SavingOK
    <3>3. /\ conn[c].stage # "free" /\ conn[c].response = None
          /\ [req |-> conn[c].req, answer |-> conn[c].response] # None
      BY <3>1, PendingCall
    <3>4. QED BY <2>1, <2>2, <3>2, <3>3 DEF Atomic!Restart
  <2>5. QED BY <2>1, <2>3, <2>4
<1>5. QED BY <1>2, <1>3, <1>4 DEF AutoLockTask

(* Clients that give up, failed saves and restarts included, the daemon    *)
(* serves its requests as if one at a time: it implements AtomicDaemon.    *)
THEOREM Refinement == Spec => ImplementsAtomicDaemon
<1>1. Init => Atomic!Init
  BY InitRefines
<1>2. IInv /\ [Next]_vars => [Atomic!Next]_(Atomic!vars)
  <2> SUFFICES ASSUME IInv, [Next]_vars PROVE Atomic!Next \/ UNCHANGED Atomic!vars
    OBVIOUS
  <2>1. Requests = Atomic!Requests
    BY DEF Requests, Atomic!Requests
  <2>2. CASE Next
    BY <2>1, <2>2, HandleRefines, SaveRefines, ConnectionRefines, ClockRefines
       DEF Next, Task, Atomic!Next
  <2>3. CASE UNCHANGED vars
    BY <2>3 DEF vars, Atomic!vars
  <2>4. QED BY <2>2, <2>3
<1>3. QED
  BY <1>1, <1>2, Invariance, PTL DEF Spec, ImplementsAtomicDaemon, Atomic!Spec
=============================================================================
