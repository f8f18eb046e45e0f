----------------------------- MODULE RemoteStore -----------------------------
(***************************************************************************)
(* What the sync engine needs of a backend (trait SyncBackend): keys that  *)
(* hold data.  A call takes effect between its beginning and its return;   *)
(* a read may see whatever the key held in that time.  A request that got  *)
(* lost may take effect later still.                                       *)
(*                                                                         *)
(* The folder can be trashed, which empties the store; calls in progress   *)
(* are then overtaken and promise nothing.  Once the store is split in     *)
(* two, nothing is promised at all.                                        *)
(***************************************************************************)
CONSTANTS Device, Key, Data, None

VARIABLES
    store,          \* store[k]: the data of k, or None
    call, answer,   \* per device: the call in progress, what it will return
    seen,           \* seen[d][k]: what k has held since d's call began
    lost,           \* <<key, data>> of requests that may take effect yet
    overtaken,      \* the devices whose calls were overtaken
    split

vars == <<store, call, answer, seen, lost, overtaken, split>>

Init ==
    /\ store \in [Key -> Data \cup {None}]
    /\ call = [d \in Device |-> None] /\ answer = [d \in Device |-> None]
    /\ seen = [d \in Device |-> [k \in Key |-> {}]]
    /\ lost = {} /\ overtaken = {} /\ split = FALSE

InProgress(d) == call[d] # None /\ answer[d] = None

See ==
    seen' = [d \in Device |->
               [k \in Key |->
                  IF call'[d] = None \/ answer'[d] # None \/ d \in overtaken'
                    THEN {} ELSE seen[d][k] \cup {store'[k]}]]

Begin(d) ==
    /\ call[d] = None
    /\ call'[d] # None
    /\ call' = [call EXCEPT ![d] = call'[d]]
    /\ UNCHANGED <<store, answer, lost, overtaken>>

Return(d) ==
    /\ answer[d] # None
    /\ call' = [call EXCEPT ![d] = None]
    /\ answer' = [answer EXCEPT ![d] = None]
    /\ overtaken' = overtaken \ {d}
    /\ UNCHANGED <<store, lost>>

(* An upload writes its data; a migration writes only where it has seen no *)
(* file; a delete may bring an older file of the same name to light.       *)
MayWrite(d, k, v) ==
    LET c == call[d]
    IN  \/ c.op = "upload" /\ k = c.key /\ v = c.data
        \/ c.op = "migrate" /\ v \in Data /\ (None \in seen[d][k] \/ d \in overtaken)
        \/ c.op = "delete" /\ k = c.key /\ v \in Data \cup {None}

Write(d) ==
    /\ InProgress(d)
    /\ \E k \in Key, v \in Data \cup {None} :
          /\ MayWrite(d, k, v)
          /\ store' = [store EXCEPT ![k] = v]
    /\ \/ answer' = answer
       \/ answer' = [answer EXCEPT ![d] = [kind |-> "ok"]]
       \/ answer' = [answer EXCEPT ![d] = [kind |-> "error"]]
    /\ UNCHANGED <<call, lost, overtaken>>

(* A read tells what was there; an error tells nothing; only Write and     *)
(* migrations may say ok.                                                  *)
Truthful(d, a) ==
    LET c == call[d]
    IN  \/ d \in overtaken
        \/ a.kind = "error"
        \/ a.kind = "ok" /\ c.op = "migrate"
        \/ a.kind = "notFound" /\ None \in seen[d][c.key]
        \/ a.kind = "data" /\ c.op = "download" /\ a.data \in seen[d][c.key] \ {None}
        \/ /\ a.kind = "metadata" /\ c.op = "metadata"
           /\ {a.fields, a.data} \subseteq seen[d][c.key] \ {None}
        \/ /\ a.kind = "keys" /\ c.op = "list"
           /\ \A k \in Key : /\ k \in a.keys => seen[d][k] # {None}
                             /\ k \notin a.keys => None \in seen[d][k]

Answer(d) ==
    /\ InProgress(d)
    /\ answer'[d] # None
    /\ answer' = [answer EXCEPT ![d] = answer'[d]]
    /\ Truthful(d, answer'[d])
    /\ UNCHANGED <<store, call, lost, overtaken>>

(* A request is lost: its call retries it or gives up.                     *)
Lose(d) ==
    /\ InProgress(d)
    /\ lost \subseteq lost'
    /\ \A w \in lost' \ lost : MayWrite(d, w[1], w[2])
    /\ \/ answer' = answer
       \/ answer' = [answer EXCEPT ![d] = [kind |-> "error"]]
    /\ UNCHANGED <<store, call, overtaken>>

Late ==
    /\ lost' \subseteq lost
    /\ \E w \in lost : store' = [store EXCEPT ![w[1]] = w[2]]
    /\ UNCHANGED <<call, answer, overtaken>>

(* A lost request that comes too late to matter.                           *)
Fade ==
    /\ lost' \subseteq lost
    /\ UNCHANGED <<store, call, answer, overtaken>>

Trash ==
    /\ store' = [k \in Key |-> None]
    /\ overtaken' = {d \in Device : call[d] # None}
    /\ UNCHANGED <<call, answer, lost>>

Next ==
    \/ split'
    \/ /\ ~split' /\ ~split /\ See
       /\ \/ \E d \in Device : Begin(d) \/ Return(d) \/ Write(d) \/ Answer(d) \/ Lose(d)
          \/ Late \/ Fade \/ Trash

Spec == Init /\ [][Next]_vars
=============================================================================
