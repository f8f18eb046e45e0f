-------------------------- MODULE DriveStore_proofs --------------------------
(***************************************************************************)
(* Proofs about the Google Drive backend (DriveStore), for any number of   *)
(* devices, files, folders, retries and failures.                          *)
(***************************************************************************)
EXTENDS DriveStore, FiniteSetTheorems, FunctionTheorems, SequenceTheorems, TLAPS

CallState ==
    [pc : Step, call : Call \cup {None}, answer : Answers \cup {None},
     attempt : 1 .. MAX_ATTEMPTS, cache : Nat \cup {None},
     folder : Nat \cup {None}, key : Key \cup {None}, hit : Nat \cup {None},
     fields : Data \cup {None}, buf : Data \cup {None}, todo : SUBSET Key]

File == [id : Nat, name : Key, folder : Nat, data : Data]

ChangeRequest ==
    [kind : {"mkdir"}]
        \cup [kind : {"patch"}, id : Nat, name : Key, data : Data]
        \cup [kind : {"create"}, folder : Nat, name : Key, data : Data]
        \cup [kind : {"remove"}, id : Nat, name : Key]
        \cup [kind : {"drop"}, name : Key]

OnHit == {"patch", "fields", "get", "remove"}
OnFile == {"find", "create"} \cup OnHit
InFolder == {"list", "legacy", "next", "fetch", "drop"} \cup OnFile

(* What Drive holds is well formed, and no two files have one id. *)
DriveGood ==
    /\ folders \in Seq({"live", "trashed"})
    /\ made \in Nat
    /\ files \in Seq(File)
    /\ \A i \in 1 .. Len(files) : files[i].id \in Id /\ files[i].folder \in FolderId
    /\ \A i, j \in 1 .. Len(files) : files[i].id = files[j].id => i = j
    /\ legacy \in [Key -> Data \cup {None}]

(* A file keeps its name: if there is one with this id, it has this name.  *)
Named(id, name) ==
    \A i \in 1 .. Len(files) : files[i].id = id => files[i].name = name

(* What was in the old place under this name, if anything is, is stored.   *)
Copied(name) == legacy[name] = None \/ <<name, legacy[name]>> \in written

(* What a call knows of its operands at each step. *)
OperandsFit(d) ==
    LET s == dev[d]
    IN  /\ s.pc \in {"patch", "create"} =>
             s.call.op \in {"upload", "migrate"} /\ s.buf # None
        /\ s.pc = "fields" => s.call.op = "metadata"
        /\ s.pc = "get" => s.call.op \in {"download", "metadata"}
        /\ s.pc = "remove" => s.call.op = "delete"
        /\ s.pc = "list" => s.call.op = "list"
        /\ s.pc \in {"legacy", "next", "fetch", "drop"} => s.call.op = "migrate"
        /\ s.pc = "find" => s.call.op # "list"
        /\ s.pc = "drop" => s.buf # None
        /\ s.pc \in {"check", "search", "mkdir", "legacy"} => s.buf = None
        /\ s.pc \in OnFile =>
             /\ s.call \in Upload => s.key = s.call.key /\ s.buf = s.call.data
             /\ s.call \in OnKey => s.key = s.call.key /\ s.buf = None

PlacesKnown(d) ==
    LET s == dev[d]
    IN  /\ {s.cache, s.folder} \subseteq FolderId \cup {None}
        /\ s.hit \in Id \cup {None}
        /\ s.pc = "check" => s.cache # None
        /\ s.pc \in InFolder => s.folder # None
        /\ s.pc \in OnFile \cup {"fetch", "drop"} => s.key # None
        /\ s.pc \in OnHit => s.hit # None /\ Named(s.hit, s.key)

(* A migration copies what was in the old place, and drops what it copied. *)
CopiesWhatWas(d) ==
    LET s == dev[d]
    IN  /\ /\ s.pc \in {"find", "patch", "create", "drop"}
           /\ s.call.op = "migrate" /\ s.buf # None
           => legacy[s.key] \in {None, s.buf}
        /\ s.pc = "drop" => <<s.key, s.buf>> \in written

CallGood(d) ==
    /\ (dev[d].pc = "idle") <=> (dev[d].call = None)
    /\ (dev[d].pc = "done") <=> (dev[d].answer # None)
    /\ OperandsFit(d) /\ PlacesKnown(d) /\ CopiesWhatWas(d)

RequestGood(r) ==
    /\ r \in ChangeRequest
    /\ r.kind \in {"patch", "remove"} => r.id \in Id /\ Named(r.id, r.name)
    /\ r.kind = "create" => r.folder \in FolderId
    /\ r.kind = "drop" => Copied(r.name)

IInv ==
    /\ DriveGood
    /\ dev \in [Device -> CallState]
    /\ faults \in Nat
    /\ \A d \in Device : CallGood(d)
    /\ \A r \in orphans : RequestGood(r)

(* While nothing has failed, folders only appear: a call that is about to  *)
(* make one knew of none.                                                  *)
KnownInv ==
    faults = 0 =>
        \A d \in Device :
            /\ known[d] \subseteq Live
            /\ dev[d].pc = "mkdir" => known[d] = {}

-----------------------------------------------------------------------------
(* Drive only grows: ids stay, files keep their names, the old place is    *)
(* only emptied.                                                           *)
Grows ==
    /\ made <= made' /\ Len(folders) <= Len(folders')
    /\ \A id \in Id, name \in Key : Named(id, name) => Named(id, name)'
    /\ \A k \in Key : legacy'[k] \in {legacy[k], None}
    /\ written \subseteq written'

(* One call moves, the others stay where they are. *)
Moves(d) ==
    /\ dev' \in [Device -> CallState]
    /\ \A e \in Device \ {d} : dev'[e] = dev[e]

(* A call that does not move keeps what it knows, as Drive grows. *)
LEMMA CallStays ==
    ASSUME IInv, DriveGood', Grows, NEW d \in Device, dev'[d] = dev[d]
    PROVE  CallGood(d)'
  <1>1. dev[d] \in CallState /\ CallGood(d)
    BY DEF IInv
  <1>2. Id \subseteq Id' /\ FolderId \subseteq FolderId'
    BY DEF Grows, IInv, DriveGood, Id, FolderId
  <1>3. OperandsFit(d)'
    BY <1>1 DEF CallGood, OperandsFit
  <1>4. PlacesKnown(d)'
    <2>1. dev[d].pc \in OnHit => dev[d].hit \in Id /\ dev[d].key \in Key
      BY <1>1 DEF CallGood, PlacesKnown, CallState, OnFile
    <2>2. dev[d].pc \in OnHit => Named(dev[d].hit, dev[d].key)'
      BY <1>1, <2>1 DEF CallGood, PlacesKnown, Grows, Named
    <2>3. QED
      BY <1>1, <1>2, <2>2 DEF CallGood, PlacesKnown
  <1>5. CopiesWhatWas(d)'
    <2>1. dev[d].pc \in {"find", "patch", "create", "drop"} => dev[d].key \in Key
      BY <1>1 DEF CallGood, PlacesKnown, CallState, OnFile, OnHit
    <2>2. QED
      BY <1>1, <2>1 DEF CallGood, CopiesWhatWas, Grows
  <1>6. QED
    BY <1>1, <1>3, <1>4, <1>5 DEF CallGood

LEMMA RequestStays ==
    ASSUME IInv, DriveGood', Grows, NEW r, RequestGood(r)
    PROVE  RequestGood(r)'
  <1>1. Id \subseteq Id' /\ FolderId \subseteq FolderId'
    BY DEF Grows, IInv, DriveGood, Id, FolderId
  <1>2. r.kind \in {"patch", "remove"} => r.id \in Id /\ r.name \in Key
    BY DEF RequestGood, ChangeRequest
  <1>3. r.kind \in {"patch", "remove"} => Named(r.id, r.name)'
    BY <1>2 DEF RequestGood, Grows
  <1>4. r.kind = "drop" => Copied(r.name)'
    <2>1. r.kind = "drop" => r.name \in Key
      BY DEF RequestGood, ChangeRequest
    <2>2. QED
      BY <2>1 DEF RequestGood, Copied, Grows
  <1>5. QED
    BY <1>1, <1>2, <1>3, <1>4 DEF RequestGood

(* One call moves: it is enough to look at that call and its requests. *)
LEMMA StepInv ==
    ASSUME IInv, DriveGood', Grows, NEW d \in Device, Moves(d), CallGood(d)',
           faults' \in Nat, \A r \in orphans' \ orphans : RequestGood(r)'
    PROVE  IInv'
  <1>1. \A e \in Device : CallGood(e)'
    BY CallStays DEF Moves
  <1>2. \A r \in orphans' : RequestGood(r)'
    BY RequestStays DEF IInv
  <1>3. QED
    BY <1>1, <1>2 DEF IInv, Moves

(* What Remember adds to what has been written. *)
LEMMA Wrote ==
    ASSUME Remember
    PROVE  /\ written \subseteq written'
           /\ \A i \in DOMAIN files' : <<files'[i].name, files'[i].data>> \in written'
  BY DEF Remember

LEMMA SameDrive ==
    ASSUME IInv, UNCHANGED drive, Remember
    PROVE  DriveGood' /\ Grows
  <1>1. UNCHANGED <<folders, files, legacy, made>>
    BY DEF drive
  <1>2. \A id \in Id, name \in Key : Named(id, name) => Named(id, name)'
    BY <1>1 DEF Named
  <1>3. QED
    BY <1>1, <1>2, Wrote DEF IInv, DriveGood, Grows, Id, FolderId
-----------------------------------------------------------------------------
(* What the forms of a call's move leave and change. *)
LEMMA MovesTo ==
    ASSUME dev \in [Device -> CallState], NEW d \in Device, NEW s \in CallState,
           Move(d, s)
    PROVE  /\ Moves(d)
           /\ dev'[d].pc = s.pc /\ dev'[d].call = s.call /\ dev'[d].answer = s.answer
           /\ dev'[d].cache = s.cache /\ dev'[d].folder = s.folder
           /\ dev'[d].key = s.key /\ dev'[d].hit = s.hit /\ dev'[d].fields = s.fields
           /\ dev'[d].buf = s.buf /\ dev'[d].todo = s.todo
  <1> DEFINE t == [s EXCEPT !.attempt = 1]
  <1>1. 1 \in 1 .. MAX_ATTEMPTS
    BY DriveAssumption
  <1>2. /\ t \in CallState
        /\ t.pc = s.pc /\ t.call = s.call /\ t.answer = s.answer
        /\ t.cache = s.cache /\ t.folder = s.folder
        /\ t.key = s.key /\ t.hit = s.hit /\ t.fields = s.fields
        /\ t.buf = s.buf /\ t.todo = s.todo
    BY <1>1 DEF CallState
  <1>3. dev' = [dev EXCEPT ![d] = t]
    BY DEF Move
  <1> HIDE DEF t
  <1>4. Moves(d) /\ dev'[d] = t
    BY <1>2, <1>3 DEF Moves
  <1>5. QED
    BY <1>2, <1>4

LEMMA GoesTo ==
    ASSUME dev \in [Device -> CallState], NEW d \in Device, NEW pc \in Step,
           Goto(d, pc)
    PROVE  /\ Moves(d)
           /\ dev'[d].pc = pc /\ dev'[d].call = dev[d].call
           /\ dev'[d].answer = dev[d].answer
           /\ dev'[d].cache = dev[d].cache /\ dev'[d].folder = dev[d].folder
           /\ dev'[d].key = dev[d].key /\ dev'[d].hit = dev[d].hit
           /\ dev'[d].fields = dev[d].fields
           /\ dev'[d].buf = dev[d].buf /\ dev'[d].todo = dev[d].todo
  <1> DEFINE s == [dev[d] EXCEPT !.pc = pc]
  <1>1. /\ s \in CallState
        /\ s.pc = pc /\ s.call = dev[d].call /\ s.answer = dev[d].answer
        /\ s.cache = dev[d].cache /\ s.folder = dev[d].folder
        /\ s.key = dev[d].key /\ s.hit = dev[d].hit /\ s.fields = dev[d].fields
        /\ s.buf = dev[d].buf /\ s.todo = dev[d].todo
    BY DEF CallState
  <1>2. Move(d, s)
    BY DEF Goto
  <1> HIDE DEF s
  <1>3. QED
    BY <1>1, <1>2, MovesTo

LEMMA Finishes ==
    ASSUME dev \in [Device -> CallState], NEW d \in Device, NEW a \in Answers,
           Finish(d, a)
    PROVE  /\ Moves(d)
           /\ dev'[d].pc = "done" /\ dev'[d].call = dev[d].call /\ dev'[d].answer = a
           /\ dev'[d].cache = dev[d].cache /\ dev'[d].folder = dev[d].folder
           /\ dev'[d].key = dev[d].key /\ dev'[d].hit = dev[d].hit
           /\ dev'[d].fields = dev[d].fields
           /\ dev'[d].buf = dev[d].buf /\ dev'[d].todo = dev[d].todo
  <1> DEFINE s == [dev[d] EXCEPT !.pc = "done", !.answer = a]
  <1>1. /\ s \in CallState
        /\ s.pc = "done" /\ s.call = dev[d].call /\ s.answer = a
        /\ s.cache = dev[d].cache /\ s.folder = dev[d].folder
        /\ s.key = dev[d].key /\ s.hit = dev[d].hit /\ s.fields = dev[d].fields
        /\ s.buf = dev[d].buf /\ s.todo = dev[d].todo
    <2>1. dev[d] \in CallState /\ "done" \in Step /\ a \in Answers
      BY DEF Step
    <2>2. QED
      BY ONLY <2>1 DEF CallState
  <1>2. Move(d, s)
    BY DEF Finish
  <1> HIDE DEF s
  <1>3. QED
    BY <1>1, <1>2, MovesTo

(* A call that is answered needs to know nothing any more. *)
LEMMA Finished ==
    ASSUME IInv, DriveGood', Grows, NEW d \in Device, NEW a \in Answers,
           dev[d].call # None, Finish(d, a)
    PROVE  Moves(d) /\ CallGood(d)'
  <1>1. dev \in [Device -> CallState] /\ CallGood(d)
    BY DEF IInv
  <1>2. /\ Moves(d)
        /\ dev'[d].pc = "done" /\ dev'[d].call = dev[d].call /\ dev'[d].answer = a
        /\ dev'[d].cache = dev[d].cache /\ dev'[d].folder = dev[d].folder
        /\ dev'[d].hit = dev[d].hit
    BY <1>1, Finishes
  <1>3. Id \subseteq Id' /\ FolderId \subseteq FolderId'
    BY DEF Grows, IInv, DriveGood, Id, FolderId
  <1>4. OperandsFit(d)'
    BY <1>2 DEF OperandsFit, OnFile, OnHit
  <1>5. PlacesKnown(d)'
    BY <1>1, <1>2, <1>3 DEF CallGood, PlacesKnown, OnFile, OnHit, InFolder
  <1>6. CopiesWhatWas(d)'
    BY <1>2 DEF CopiesWhatWas
  <1>7. a # None
    BY DriveAssumption
  <1>8. QED
    BY <1>2, <1>4, <1>5, <1>6, <1>7 DEF CallGood

(* The folder is known: a call on a file looks for it under its key.       *)
LEMMA Enters ==
    ASSUME IInv, NEW d \in Device, NEW id \in Nat,
           dev[d].call # None, dev[d].answer = None, EnterFolder(d, id)
    PROVE  /\ Moves(d)
           /\ dev'[d].call = dev[d].call /\ dev'[d].answer = None
           /\ dev'[d].cache = id /\ dev'[d].folder = id /\ dev'[d].hit = dev[d].hit
           /\ dev'[d].pc \in {"list", "legacy", "find"}
           /\ dev'[d].pc = "list" => dev[d].call.op = "list"
           /\ dev'[d].pc = "legacy" => dev[d].call.op = "migrate"
           /\ dev'[d].pc = "find" => /\ dev[d].call \in Upload \cup OnKey
                                     /\ dev[d].call.op \notin {"list", "migrate"}
                                     /\ dev'[d].key = dev[d].call.key
           /\ dev[d].call \in Upload => dev'[d].buf = dev[d].call.data
           /\ dev[d].call \notin Upload => dev'[d].buf = None
  <1> DEFINE c == dev[d].call
             pc == CASE c.op = "list" -> "list"
                     [] c.op = "migrate" -> "legacy"
                     [] OTHER -> "find"
             key == IF c \in Upload \cup OnKey THEN c.key ELSE None
             buf == IF c \in Upload THEN c.data ELSE None
             s == [dev[d] EXCEPT !.cache = id, !.folder = id, !.pc = pc,
                                 !.key = key, !.buf = buf]
  <1>1. dev \in [Device -> CallState] /\ c \in Call
    BY DEF IInv, CallState
  <1>2. /\ pc \in {"list", "legacy", "find"}
        /\ pc = "list" => c.op = "list"
        /\ pc = "legacy" => c.op = "migrate"
        /\ pc = "find" => c.op \notin {"list", "migrate"}
    OBVIOUS
  <1>3. pc = "find" => c \in Upload \cup OnKey /\ key = c.key
    BY <1>1, <1>2 DEF Call
  <1>4. key \in Key \cup {None} /\ buf \in Data \cup {None}
    BY <1>1 DEF Upload, OnKey
  <1>5. /\ c \in Upload => buf = c.data
        /\ c \notin Upload => buf = None
    OBVIOUS
  <1> HIDE DEF pc, key, buf
  <1>6. s \in CallState /\ s.pc = pc /\ s.call = c /\ s.answer = None /\ s.cache = id
        /\ s.folder = id /\ s.key = key /\ s.buf = buf /\ s.hit = dev[d].hit
    <2>1. dev[d] \in CallState /\ pc \in Step /\ id \in Nat \cup {None}
      BY <1>1, <1>2 DEF Step
    <2>2. s \in CallState
      <3>1. /\ key \in Key \cup {None} /\ buf \in Data \cup {None}
            /\ id \in Nat \cup {None}
        BY <1>4, <2>1
      <3>2. QED
        BY ONLY <2>1, <3>1 DEF CallState
    <2>3. /\ s.pc = pc /\ s.call = c /\ s.answer = None /\ s.cache = id
          /\ s.folder = id /\ s.key = key /\ s.buf = buf /\ s.hit = dev[d].hit
      BY <2>1 DEF CallState
    <2>4. QED
      BY <2>2, <2>3
  <1>7. Move(d, s)
    BY DEF EnterFolder, pc, key, buf
  <1> HIDE DEF s
  <1>8. /\ Moves(d) /\ dev'[d].call = c /\ dev'[d].answer = None /\ dev'[d].cache = id
        /\ dev'[d].folder = id /\ dev'[d].pc = pc /\ dev'[d].key = key
        /\ dev'[d].buf = buf /\ dev'[d].hit = dev[d].hit
    BY <1>1, <1>6, <1>7, MovesTo
  <1>9. QED
    BY <1>2, <1>3, <1>5, <1>8

(* So a call knows what it needs once it is in a folder. *)
LEMMA Entered ==
    ASSUME IInv, DriveGood', Grows, NEW d \in Device, NEW id \in FolderId',
           dev[d].pc \in {"check", "search", "mkdir"}, EnterFolder(d, id)
    PROVE  Moves(d) /\ CallGood(d)'
  <1>1. dev[d].call # None /\ dev[d].answer = None /\ CallGood(d) /\ dev[d] \in CallState
    BY DEF IInv, CallGood
  <1>2. id \in Nat /\ id # None
    BY DriveAssumption DEF FolderId
  <1>3. Id \subseteq Id'
    BY DEF Grows, IInv, DriveGood, Id
  <1>4. /\ Moves(d)
        /\ dev'[d].call = dev[d].call /\ dev'[d].answer = None
        /\ dev'[d].cache = id /\ dev'[d].folder = id /\ dev'[d].hit = dev[d].hit
        /\ dev'[d].pc \in {"list", "legacy", "find"}
        /\ dev'[d].pc = "list" => dev[d].call.op = "list"
        /\ dev'[d].pc = "legacy" => dev[d].call.op = "migrate"
        /\ dev'[d].pc = "find" => /\ dev[d].call \in Upload \cup OnKey
                                  /\ dev[d].call.op \notin {"list", "migrate"}
                                  /\ dev'[d].key = dev[d].call.key
        /\ dev[d].call \in Upload => dev'[d].buf = dev[d].call.data
        /\ dev[d].call \notin Upload => dev'[d].buf = None
    BY <1>1, <1>2, Enters
  <1>5. OperandsFit(d)'
    BY <1>4 DEF OperandsFit, OnFile, OnHit, Upload, OnKey
  <1>6. dev[d].call \in Upload \cup OnKey => dev[d].call.key # None
    BY DriveAssumption DEF Upload, OnKey
  <1>7. PlacesKnown(d)'
    BY <1>1, <1>2, <1>3, <1>4, <1>6 DEF CallGood, PlacesKnown, OnFile, OnHit, InFolder
  <1>8. CopiesWhatWas(d)'
    BY <1>4 DEF CopiesWhatWas
  <1>9. QED
    BY <1>1, <1>4, <1>5, <1>7, <1>8 DEF CallGood

(* What an error does. *)
LEMMA FailedMoves ==
    ASSUME IInv, NEW d \in Device, dev[d].pc \notin {"idle", "next", "done"}, Failed(d)
    PROVE  \/ dev[d].pc = "check" /\ Goto(d, "search")
           \/ dev[d].pc # "check" /\ dev[d].pc = "legacy" /\ Finish(d, Ok)
           \/ /\ dev[d].pc \in {"fetch", "drop", "find", "patch", "create"}
              /\ dev[d].call.op = "migrate"
              /\ Move(d, [dev[d] EXCEPT !.pc = "next", !.buf = None])
           \/ dev[d].pc # "check" /\ Finish(d, [kind |-> "error"])
  <1>1. CallGood(d) /\ dev[d] \in CallState
    BY DEF IInv
  <1>2. dev[d].pc \in {"fetch", "drop"} \/ Copying(dev[d]) =>
          /\ dev[d].pc \in {"fetch", "drop", "find", "patch", "create"}
          /\ dev[d].call.op = "migrate"
    <2>1. dev[d].pc \in Step
      BY <1>1 DEF CallState
    <2>2. /\ dev[d].pc \in {"fetch", "drop"} => dev[d].call.op = "migrate"
          /\ dev[d].pc \in {"check", "search", "mkdir", "legacy"} => dev[d].buf = None
          /\ dev[d].pc = "fields" => dev[d].call.op = "metadata"
          /\ dev[d].pc = "get" => dev[d].call.op \in {"download", "metadata"}
          /\ dev[d].pc = "remove" => dev[d].call.op = "delete"
          /\ dev[d].pc = "list" => dev[d].call.op = "list"
      BY <1>1 DEF CallGood, OperandsFit
    <2>3. QED
      BY <2>1, <2>2 DEF Copying, Step
  <1>3. CASE dev[d].pc \in {"check", "legacy"}
    BY <1>2, <1>3 DEF Failed
  <1>4. CASE dev[d].pc \notin {"check", "legacy"}
    BY <1>2, <1>4 DEF Failed
  <1>5. QED
    BY <1>3, <1>4

(* The migration goes on with the next file. *)
LEMMA ToNext ==
    ASSUME IInv, DriveGood', Grows, NEW d \in Device,
           dev[d].pc \in {"fetch", "drop", "find", "patch", "create"},
           dev[d].call.op = "migrate",
           Move(d, [dev[d] EXCEPT !.pc = "next", !.buf = None])
    PROVE  /\ Moves(d) /\ CallGood(d)'
           /\ dev'[d].pc = "next" /\ dev'[d].buf = None /\ dev'[d].call = dev[d].call
           /\ dev'[d].answer = dev[d].answer /\ dev'[d].folder = dev[d].folder
           /\ dev'[d].cache = dev[d].cache
  <1> DEFINE s == [dev[d] EXCEPT !.pc = "next", !.buf = None]
  <1>1. dev \in [Device -> CallState] /\ CallGood(d)
    BY DEF IInv
  <1>2. /\ s \in CallState /\ s.pc = "next" /\ s.buf = None /\ s.call = dev[d].call
        /\ s.answer = dev[d].answer /\ s.folder = dev[d].folder /\ s.cache = dev[d].cache
        /\ s.hit = dev[d].hit
    <2>1. dev[d] \in CallState /\ "next" \in Step /\ None \in Data \cup {None}
      BY <1>1 DEF Step
    <2>2. s \in CallState
      BY ONLY <2>1 DEF CallState
    <2>3. /\ s.pc = "next" /\ s.buf = None /\ s.call = dev[d].call
          /\ s.answer = dev[d].answer /\ s.folder = dev[d].folder
          /\ s.cache = dev[d].cache /\ s.hit = dev[d].hit
      BY ONLY <2>1 DEF CallState
    <2>4. QED
      BY <2>2, <2>3
  <1>3. Move(d, s)
    OBVIOUS
  <1> HIDE DEF s
  <1>4. /\ Moves(d) /\ dev'[d].pc = "next" /\ dev'[d].buf = None
        /\ dev'[d].call = dev[d].call /\ dev'[d].answer = dev[d].answer
        /\ dev'[d].folder = dev[d].folder /\ dev'[d].cache = dev[d].cache
        /\ dev'[d].hit = dev[d].hit
    BY <1>1, <1>2, <1>3, MovesTo
  <1>5. Id \subseteq Id' /\ FolderId \subseteq FolderId'
    BY DEF Grows, IInv, DriveGood, Id, FolderId
  <1>6. OperandsFit(d)'
    BY <1>4 DEF OperandsFit, OnFile, OnHit
  <1>7. PlacesKnown(d)'
    BY <1>1, <1>4, <1>5 DEF CallGood, PlacesKnown, OnFile, OnHit, InFolder
  <1>8. CopiesWhatWas(d)'
    BY <1>4 DEF CopiesWhatWas
  <1>9. QED
    BY <1>1, <1>4, <1>6, <1>7, <1>8 DEF CallGood

(* The folder has to be looked for, or made. *)
LEMMA ToFolder ==
    ASSUME IInv, DriveGood', Grows, NEW d \in Device,
           dev[d].pc \in {"check", "search"}, NEW pc \in {"search", "mkdir"},
           Goto(d, pc)
    PROVE  Moves(d) /\ CallGood(d)'
  <1>1. dev \in [Device -> CallState] /\ CallGood(d) /\ pc \in Step
    BY DEF IInv, Step
  <1>2. /\ Moves(d)
        /\ dev'[d].pc = pc /\ dev'[d].call = dev[d].call
        /\ dev'[d].answer = dev[d].answer
        /\ dev'[d].cache = dev[d].cache /\ dev'[d].folder = dev[d].folder
        /\ dev'[d].hit = dev[d].hit /\ dev'[d].buf = dev[d].buf
    BY <1>1, GoesTo
  <1>3. Id \subseteq Id' /\ FolderId \subseteq FolderId'
    BY DEF Grows, IInv, DriveGood, Id, FolderId
  <1>4. OperandsFit(d)'
    BY <1>1, <1>2 DEF CallGood, OperandsFit, OnFile, OnHit
  <1>5. PlacesKnown(d)'
    BY <1>1, <1>2, <1>3 DEF CallGood, PlacesKnown, OnFile, OnHit, InFolder
  <1>6. CopiesWhatWas(d)'
    BY <1>2 DEF CopiesWhatWas
  <1>7. QED
    BY <1>1, <1>2, <1>4, <1>5, <1>6 DEF CallGood

(* An error leaves a call that knows what it needs. *)
LEMMA Fails ==
    ASSUME IInv, DriveGood', Grows, NEW d \in Device,
           dev[d].pc \notin {"idle", "next", "done"}, Failed(d)
    PROVE  Moves(d) /\ CallGood(d)'
  <1>1. Ok \in Answers /\ [kind |-> "error"] \in Answers
    BY DEF Ok, Answers
  <1>2. dev[d].call # None
    BY DEF IInv, CallGood
  <1>3. QED
    BY <1>1, <1>2, FailedMoves, Finished, ToNext, ToFolder

-----------------------------------------------------------------------------
(* The end of a sequence. *)
LEMMA EndOf ==
    ASSUME NEW S, NEW s \in Seq(S), NEW m \in 1 .. (Len(s) + 1)
    PROVE  /\ SubSeq(s, m, Len(s)) \in Seq(S)
           /\ Len(SubSeq(s, m, Len(s))) = Len(s) - m + 1
           /\ \A j \in 1 .. (Len(s) - m + 1) : SubSeq(s, m, Len(s))[j] = s[m + j - 1]
  OBVIOUS

(* A sequence without its n-th element. *)
LEMMA WithoutNth ==
    ASSUME NEW S, NEW s \in Seq(S), NEW n \in 1 .. Len(s)
    PROVE  LET t == SubSeq(s, 1, n - 1) \o SubSeq(s, n + 1, Len(s))
           IN  /\ t \in Seq(S) /\ Len(t) = Len(s) - 1
               /\ \A j \in 1 .. Len(t) : t[j] = s[IF j < n THEN j ELSE j + 1]
  <1> DEFINE u == SubSeq(s, 1, n - 1)
             m == n + 1
             v == SubSeq(s, m, Len(s))
             l == Len(s)
             t == u \o v
  <1>1. n \in Nat /\ l \in Nat /\ n >= 1 /\ n <= l
    OBVIOUS
  <1>2. u \in Seq(S) /\ Len(u) = n - 1 /\ \A j \in 1 .. (n - 1) : u[j] = s[j]
    BY <1>1
  <1>3. m \in 1 .. (Len(s) + 1) /\ Len(s) - m + 1 = l - n
    BY <1>1
  <1>4. \A j \in 1 .. (l - n) : m + j - 1 = n + j
    BY <1>1
  <1> HIDE DEF m
  <1>6. v \in Seq(S) /\ Len(v) = l - n
    BY <1>3, EndOf
  <1>7. \A j \in 1 .. (l - n) : v[j] = s[n + j]
    BY <1>3, <1>4, EndOf
  <1> HIDE DEF u, v, l
  <1>8. /\ t \in Seq(S) /\ Len(t) = Len(u) + Len(v)
        /\ \A j \in 1 .. Len(u) + Len(v) :
             t[j] = IF j <= Len(u) THEN u[j] ELSE v[j - Len(u)]
    BY <1>2, <1>6, ConcatProperties
  <1> HIDE DEF t
  <1>9. Len(t) = l - 1
    BY <1>1, <1>2, <1>6, <1>8
  <1>10. ASSUME NEW j \in 1 .. Len(t)
         PROVE  t[j] = s[IF j < n THEN j ELSE j + 1]
    <2>1. j \in 1 .. (l - 1) /\ j \in 1 .. Len(u) + Len(v)
      BY <1>8, <1>9
    <2>2. CASE j < n
      <3>1. j \in 1 .. (n - 1) /\ j <= Len(u)
        BY <1>1, <1>2, <2>1, <2>2
      <3>2. QED
        BY <1>2, <1>8, <2>1, <3>1, <2>2
    <2>3. CASE ~(j < n)
      <3>1. /\ j - Len(u) \in 1 .. (l - n) /\ n + (j - Len(u)) = j + 1
            /\ ~(j <= Len(u))
        BY <1>1, <1>2, <2>1, <2>3
      <3>2. t[j] = v[j - Len(u)]
        BY <1>8, <2>1, <3>1
      <3>3. v[j - Len(u)] = s[n + (j - Len(u))]
        BY <1>7, <3>1
      <3>4. QED
        BY <3>1, <3>2, <3>3, <2>3
    <2>4. QED
      BY <2>2, <2>3
  <1>11. QED
    BY <1>8, <1>9, <1>10 DEF l, t, u, v, m

(* Drive executes a request. *)
LEMMA WithoutFile ==
    ASSUME DriveGood, NEW id \in FileIds, NEW t, t = Without(id)
    PROVE  /\ At(id) \in 1 .. Len(files) /\ files[At(id)].id = id
           /\ t \in Seq(File) /\ Len(t) = Len(files) - 1
           /\ \A j \in 1 .. Len(t) :
                t[j] = files[IF j < At(id) THEN j ELSE j + 1]
  <1>1. files \in Seq(File) /\ DOMAIN files = 1 .. Len(files)
    BY DEF DriveGood
  <1>2. At(id) \in 1 .. Len(files) /\ files[At(id)].id = id
    <2>1. \E i \in DOMAIN files : files[i].id = id
      BY DEF FileIds
    <2>2. QED
      BY <1>1, <2>1 DEF At
  <1>3. QED
    BY <1>1, <1>2, WithoutNth DEF Without

(* What a file holds. *)
LEMMA HeldData ==
    ASSUME DriveGood, NEW id \in FileIds
    PROVE  FileWith(id).data \in Data
  <1> DEFINE a == At(id)
  <1>1. a \in 1 .. Len(files)
    BY WithoutFile
  <1> HIDE DEF a
  <1>2. files[a] \in File
    BY <1>1 DEF DriveGood
  <1>3. files[a].data \in Data
    BY <1>2 DEF File
  <1>4. QED
    BY <1>3 DEF FileWith, a

(* A file in front of others. *)
LEMMA InFront ==
    ASSUME NEW S, NEW f \in S, NEW t \in Seq(S)
    PROVE  /\ <<f>> \o t \in Seq(S) /\ Len(<<f>> \o t) = Len(t) + 1
           /\ (<<f>> \o t)[1] = f
           /\ \A j \in 2 .. Len(<<f>> \o t) :
                j - 1 \in 1 .. Len(t) /\ (<<f>> \o t)[j] = t[j - 1]
  OBVIOUS
-----------------------------------------------------------------------------
(* Each file that is there was there: but for its data, and its place.     *)
KeepsFiles ==
    \A j \in 1 .. Len(files') : \E i \in 1 .. Len(files) :
        /\ files'[j].id = files[i].id /\ files'[j].name = files[i].name
        /\ files'[j].folder = files[i].folder

(* With no new files, Drive stays well formed. *)
LEMMA NothingNew ==
    ASSUME DriveGood, UNCHANGED <<folders, legacy, made>>, files' \in Seq(File),
           KeepsFiles, Remember,
           \A i, j \in 1 .. Len(files') : files'[i].id = files'[j].id => i = j
    PROVE  DriveGood' /\ Grows
  <1>1. \A i \in 1 .. Len(files') : files'[i].id \in Id /\ files'[i].folder \in FolderId
    BY DEF DriveGood, KeepsFiles
  <1>2. DriveGood'
    BY <1>1 DEF DriveGood, Id, FolderId
  <1>3. \A id \in Id, name \in Key : Named(id, name) => Named(id, name)'
    BY DEF Named, KeepsFiles
  <1>4. \A k \in Key : legacy'[k] \in {legacy[k], None}
    OBVIOUS
  <1>5. made <= made' /\ Len(folders) <= Len(folders')
    BY DEF DriveGood
  <1>6. QED
    BY <1>2, <1>3, <1>4, <1>5, Wrote DEF Grows

(* Without one file. *)
LEMMA Removes ==
    ASSUME DriveGood, UNCHANGED <<folders, legacy, made>>, Remember,
           NEW id \in FileIds, files' = Without(id)
    PROVE  DriveGood' /\ Grows
  <1> DEFINE a == At(id)
             t == Without(id)
  <1>1. files \in Seq(File) /\ Len(files) \in Nat
    BY DEF DriveGood
  <1>2. /\ a \in 1 .. Len(files) /\ t \in Seq(File) /\ Len(t) = Len(files) - 1
        /\ \A j \in 1 .. Len(t) : t[j] = files[IF j < a THEN j ELSE j + 1]
    BY WithoutFile
  <1>3. files' = t
    OBVIOUS
  <1> HIDE DEF a, t
  <1>4. ASSUME NEW j \in 1 .. Len(t)
        PROVE  (IF j < a THEN j ELSE j + 1) \in 1 .. Len(files)
    BY <1>1, <1>2
  <1>5. KeepsFiles
    BY <1>2, <1>3, <1>4 DEF KeepsFiles
  <1>6. ASSUME NEW i \in 1 .. Len(t), NEW j \in 1 .. Len(t), t[i].id = t[j].id
        PROVE  i = j
    <2>1. (IF i < a THEN i ELSE i + 1) = (IF j < a THEN j ELSE j + 1)
      BY <1>2, <1>4, <1>6 DEF DriveGood
    <2>2. QED
      BY <1>1, <1>2, <2>1
  <1>7. QED
    BY <1>2, <1>3, <1>5, <1>6, NothingNew

(* One file gets other data, and comes to the front. *)
LEMMA Patches ==
    ASSUME DriveGood, UNCHANGED <<folders, legacy, made>>, Remember,
           NEW id \in FileIds, NEW v \in Data,
           files' = <<[FileWith(id) EXCEPT !.data = v]>> \o Without(id)
    PROVE  /\ DriveGood' /\ Grows
           /\ \A name : Named(id, name) => <<name, v>> \in written'
  <1> DEFINE a == At(id)
             t == Without(id)
             f == [FileWith(id) EXCEPT !.data = v]
  <1>1. files \in Seq(File) /\ Len(files) \in Nat
    BY DEF DriveGood
  <1>2. /\ a \in 1 .. Len(files) /\ files[a].id = id
        /\ t \in Seq(File) /\ Len(t) = Len(files) - 1
        /\ \A j \in 1 .. Len(t) : t[j] = files[IF j < a THEN j ELSE j + 1]
    BY WithoutFile
  <1>3. files[a] \in File
    BY <1>1, <1>2
  <1>4. /\ f \in File /\ f.id = id /\ f.name = files[a].name
        /\ f.folder = files[a].folder /\ f.data = v
    BY <1>2, <1>3 DEF FileWith, File
  <1>5. files' = <<f>> \o t
    OBVIOUS
  <1> HIDE DEF a, t, f
  <1>6. /\ files' \in Seq(File) /\ Len(files') = Len(t) + 1 /\ files'[1] = f
        /\ \A j \in 2 .. Len(files') : j - 1 \in 1 .. Len(t) /\ files'[j] = t[j - 1]
    <2>1. f \in File /\ t \in Seq(File)
      BY <1>2, <1>4
    <2>2. /\ <<f>> \o t \in Seq(File) /\ Len(<<f>> \o t) = Len(t) + 1
          /\ (<<f>> \o t)[1] = f
          /\ \A j \in 2 .. Len(<<f>> \o t) :
               j - 1 \in 1 .. Len(t) /\ (<<f>> \o t)[j] = t[j - 1]
      BY ONLY <2>1, InFront
    <2>3. QED
      BY ONLY <1>5, <2>2
  <1> DEFINE from(j) == IF j = 1 THEN a ELSE IF j - 1 < a THEN j - 1 ELSE j
  <1>7. ASSUME NEW j \in 1 .. Len(files')
        PROVE  /\ from(j) \in 1 .. Len(files)
               /\ files'[j].id = files[from(j)].id /\ files'[j].name = files[from(j)].name
               /\ files'[j].folder = files[from(j)].folder
    <2>1. CASE j = 1
      BY <1>2, <1>4, <1>6, <2>1
    <2>2. CASE j # 1
      <3>1. j \in 2 .. Len(files') /\ j - 1 \in 1 .. Len(t) /\ files'[j] = t[j - 1]
        BY <1>6, <2>2
      <3>2. t[j - 1] = files[IF j - 1 < a THEN j - 1 ELSE (j - 1) + 1]
        BY <1>2, <3>1
      <3>3. (j - 1) + 1 = j
        OBVIOUS
      <3>4. from(j) = IF j - 1 < a THEN j - 1 ELSE j
        BY <2>2
      <3>5. files'[j] = files[from(j)]
        BY <3>1, <3>2, <3>3, <3>4
      <3>6. from(j) \in 1 .. Len(files)
        BY <1>1, <1>2, <1>6, <3>1, <3>4
      <3>7. QED
        BY <3>5, <3>6
    <2>3. QED
      BY <2>1, <2>2
  <1>8. KeepsFiles
    BY <1>7 DEF KeepsFiles
  <1>9. ASSUME NEW i \in 1 .. Len(files'), NEW j \in 1 .. Len(files'),
               files'[i].id = files'[j].id
        PROVE  i = j
    <2>1. from(i) = from(j)
      <3> HIDE DEF from
      <3>1. /\ from(i) \in 1 .. Len(files) /\ files'[i].id = files[from(i)].id
            /\ from(j) \in 1 .. Len(files) /\ files'[j].id = files[from(j)].id
        BY <1>7
      <3>2. QED
        BY <1>9, <3>1 DEF DriveGood
    <2>2. QED
      BY <1>1, <1>2, <1>6, <2>1
  <1>10. DriveGood' /\ Grows
    BY <1>6, <1>8, <1>9, NothingNew
  <1>11. <<f.name, v>> \in written'
    <2>1. 1 \in DOMAIN files'
      BY <1>2, <1>1, <1>6
    <2>2. QED
      BY <1>4, <1>6, <2>1, Wrote
  <1>12. \A name : Named(id, name) => f.name = name
    BY <1>2, <1>4 DEF Named
  <1>13. QED
    BY <1>10, <1>11, <1>12

(* A file more, in front, with an id of its own. *)
LEMMA Creates ==
    ASSUME DriveGood, UNCHANGED <<folders, legacy>>, made' = made + 1, Remember,
           NEW k \in Key, NEW folder \in FolderId, NEW v \in Data,
           files' = <<[id |-> made', name |-> k, folder |-> folder, data |-> v]>>
                      \o files
    PROVE  DriveGood' /\ Grows /\ <<k, v>> \in written'
  <1> DEFINE f == [id |-> made', name |-> k, folder |-> folder, data |-> v]
  <1>1. /\ made \in Nat /\ made' \in Nat /\ made' \notin Id /\ made' \in Id'
        /\ Id \subseteq Id' /\ folder \in Nat /\ FolderId' = FolderId
    BY DEF DriveGood, Id, FolderId
  <1>2. f \in File /\ files \in Seq(File)
    BY <1>1 DEF File, DriveGood
  <1>3. /\ f.id = made' /\ f.name = k /\ f.folder = folder /\ f.data = v
        /\ files' = <<f>> \o files
    OBVIOUS
  <1> HIDE DEF f
  <1>4. /\ files' \in Seq(File) /\ Len(files') = Len(files) + 1 /\ files'[1] = f
        /\ \A j \in 2 .. Len(files') :
             j - 1 \in 1 .. Len(files) /\ files'[j] = files[j - 1]
    <2>1. /\ <<f>> \o files \in Seq(File) /\ Len(<<f>> \o files) = Len(files) + 1
          /\ (<<f>> \o files)[1] = f
          /\ \A j \in 2 .. Len(<<f>> \o files) :
               j - 1 \in 1 .. Len(files) /\ (<<f>> \o files)[j] = files[j - 1]
      BY ONLY <1>2, InFront
    <2>2. QED
      BY ONLY <1>3, <2>1
  <1>5. Len(files) \in Nat /\ Len(files') \in Nat
    BY <1>2, <1>4
  <1>6. ASSUME NEW j \in 1 .. Len(files')
        PROVE  /\ files'[j].id \in Id' /\ files'[j].folder \in FolderId'
               /\ files'[j].id = made' <=> j = 1
    <2>1. CASE j = 1
      BY <1>1, <1>3, <1>4, <2>1
    <2>2. CASE j # 1
      <3>1. j \in 2 .. Len(files')
        BY <1>5, <2>2
      <3>2. j - 1 \in 1 .. Len(files) /\ files'[j] = files[j - 1]
        BY <1>4, <3>1
      <3>3. files'[j].id \in Id /\ files'[j].folder \in FolderId
        BY <3>2 DEF DriveGood
      <3>4. QED
        BY <1>1, <2>2, <3>3
    <2>3. QED
      BY <2>1, <2>2
  <1>7. ASSUME NEW i \in 1 .. Len(files'), NEW j \in 1 .. Len(files'),
               files'[i].id = files'[j].id
        PROVE  i = j
    <2>1. CASE i = 1 \/ j = 1
      BY <1>6, <1>7, <2>1
    <2>2. CASE i # 1 /\ j # 1
      <3>1. i \in 2 .. Len(files') /\ j \in 2 .. Len(files')
        BY <1>5, <2>2
      <3>2. /\ i - 1 \in 1 .. Len(files) /\ files'[i] = files[i - 1]
            /\ j - 1 \in 1 .. Len(files) /\ files'[j] = files[j - 1]
        BY <1>4, <3>1
      <3>3. i - 1 = j - 1
        BY <1>7, <3>2 DEF DriveGood
      <3>4. QED
        BY <3>1, <3>3
    <2>3. QED
      BY <2>1, <2>2
  <1>8. DriveGood'
    BY <1>1, <1>4, <1>6, <1>7 DEF DriveGood
  <1>9. ASSUME NEW id \in Id, NEW name \in Key, Named(id, name)
        PROVE  Named(id, name)'
    <2>1. ASSUME NEW j \in 1 .. Len(files'), files'[j].id = id
          PROVE  files'[j].name = name
      <3>1. j # 1
        BY <1>1, <1>6, <2>1
      <3>2. j - 1 \in 1 .. Len(files) /\ files'[j] = files[j - 1]
        BY <1>4, <1>5, <3>1
      <3>3. QED
        BY <1>9, <2>1, <3>2 DEF Named
    <2>2. QED
      BY <2>1 DEF Named
  <1>10. <<k, v>> \in written'
    <2>1. 1 \in DOMAIN files'
      BY <1>4, <1>5
    <2>2. QED
      BY <1>3, <1>4, <2>1, Wrote
  <1>11. made <= made' /\ Len(folders) <= Len(folders')
    BY <1>1 DEF DriveGood
  <1>12. QED
    BY <1>8, <1>9, <1>10, <1>11, Wrote DEF Grows

(* A folder more. *)
LEMMA Makes ==
    ASSUME DriveGood, MakeFolder, Remember
    PROVE  DriveGood' /\ Grows /\ Len(folders') = Len(folders) + 1
  <1>1. /\ folders \in Seq({"live", "trashed"}) /\ UNCHANGED <<files, legacy, made>>
        /\ folders' = Append(folders, "live")
    BY DEF DriveGood, MakeFolder
  <1>2. folders' \in Seq({"live", "trashed"}) /\ Len(folders') = Len(folders) + 1
    BY <1>1
  <1>3. FolderId \subseteq FolderId' /\ Len(folders) <= Len(folders')
    BY <1>1, <1>2 DEF FolderId
  <1>4. DriveGood'
    BY <1>1, <1>2, <1>3 DEF DriveGood, Id
  <1>5. \A id \in Id, name \in Key : Named(id, name) => Named(id, name)'
    BY <1>1 DEF Named
  <1>6. QED
    BY <1>1, <1>2, <1>3, <1>4, <1>5, Wrote DEF Grows, DriveGood

(* The old place without one file. *)
LEMMA Drops ==
    ASSUME DriveGood, UNCHANGED <<folders, files, made>>, Remember, NEW k \in Key,
           legacy' = [legacy EXCEPT ![k] = None]
    PROVE  DriveGood' /\ Grows
  <1>1. /\ legacy' \in [Key -> Data \cup {None}]
        /\ \A j \in Key : legacy'[j] \in {legacy[j], None}
    BY DEF DriveGood
  <1>2. DriveGood'
    BY <1>1 DEF DriveGood, Id, FolderId
  <1>3. \A id \in Id, name \in Key : Named(id, name) => Named(id, name)'
    BY DEF Named
  <1>4. made <= made' /\ Len(folders) <= Len(folders')
    BY DEF DriveGood
  <1>5. QED
    BY <1>1, <1>2, <1>3, <1>4, Wrote DEF Grows

(* Drive executes a request, now or late. *)
LEMMA Executes ==
    ASSUME IInv, Remember, NEW r, RequestGood(r), Execute(r)
    PROVE  /\ DriveGood' /\ Grows
           /\ r.kind \in {"patch", "create"} => <<r.name, r.data>> \in written'
  <1>1. DriveGood /\ r \in ChangeRequest
    BY DEF IInv, RequestGood
  <1>2. CASE r.kind = "mkdir" /\ MakeFolder
    BY <1>1, <1>2, Makes
  <1>3. CASE /\ r.kind = "patch" /\ r.id \in FileIds
             /\ files' = <<[FileWith(r.id) EXCEPT !.data = r.data]>> \o Without(r.id)
             /\ UNCHANGED <<folders, legacy, made>>
    <2>1. r.data \in Data /\ Named(r.id, r.name)
      BY <1>1, <1>3 DEF ChangeRequest, RequestGood
    <2>2. QED
      BY <1>1, <1>3, <2>1, Patches
  <1>4. CASE /\ r.kind = "create" /\ made' = made + 1
             /\ files' = <<[id |-> made', name |-> r.name, folder |-> r.folder,
                            data |-> r.data]>> \o files
             /\ UNCHANGED <<folders, legacy>>
    <2>1. r.name \in Key /\ r.data \in Data /\ r.folder \in FolderId
      BY <1>1, <1>4 DEF ChangeRequest, RequestGood
    <2>2. QED
      BY <1>1, <1>4, <2>1, Creates
  <1>5. CASE /\ r.kind = "remove" /\ r.id \in FileIds
             /\ files' = Without(r.id)
             /\ UNCHANGED <<folders, legacy, made>>
    BY <1>1, <1>5, Removes
  <1>6. CASE /\ r.kind = "drop" /\ legacy[r.name] # None
             /\ legacy' = [legacy EXCEPT ![r.name] = None]
             /\ UNCHANGED <<folders, files, made>>
    <2>1. r.name \in Key
      BY <1>1, <1>6 DEF ChangeRequest
    <2>2. QED
      BY <1>1, <1>6, <2>1, Drops
  <1>7. QED
    BY <1>2, <1>3, <1>4, <1>5, <1>6 DEF Execute

(* The request a call sends fits Drive. *)
LEMMA RequestFits ==
    ASSUME IInv, NEW d \in Device, NEW r \in Request(d)
    PROVE  RequestGood(r) /\ r.kind = dev[d].pc
  <1>1. dev[d] \in CallState /\ CallGood(d)
    BY DEF IInv
  <1>2. dev[d].pc \in {"patch", "create", "remove", "drop"} => dev[d].key \in Key
    BY <1>1 DEF CallState, CallGood, PlacesKnown, OnFile, OnHit
  <1>3. CASE dev[d].pc = "mkdir"
    BY <1>3 DEF Request, RequestGood, ChangeRequest
  <1>4. CASE dev[d].pc = "patch"
    <2>1. r = [kind |-> "patch", id |-> dev[d].hit, name |-> dev[d].key,
               data |-> dev[d].buf]
      BY <1>4 DEF Request
    <2>2. /\ dev[d].hit \in Id /\ dev[d].hit \in Nat /\ dev[d].buf \in Data
          /\ Named(dev[d].hit, dev[d].key)
      BY <1>1, <1>4 DEF CallState, CallGood, PlacesKnown, OperandsFit, OnHit
    <2>3. QED
      BY <1>2, <1>4, <2>1, <2>2 DEF RequestGood, ChangeRequest
  <1>5. CASE dev[d].pc = "create"
    <2>1. r = [kind |-> "create", folder |-> dev[d].folder, name |-> dev[d].key,
               data |-> dev[d].buf]
      BY <1>5 DEF Request
    <2>2. /\ dev[d].folder \in FolderId /\ dev[d].folder \in Nat /\ dev[d].buf \in Data
      BY <1>1, <1>5 DEF CallState, CallGood, PlacesKnown, OperandsFit, InFolder, OnFile
    <2>3. QED
      BY <1>2, <1>5, <2>1, <2>2 DEF RequestGood, ChangeRequest
  <1>6. CASE dev[d].pc = "remove"
    <2>1. r = [kind |-> "remove", id |-> dev[d].hit, name |-> dev[d].key]
      BY <1>6 DEF Request
    <2>2. /\ dev[d].hit \in Id /\ dev[d].hit \in Nat
          /\ Named(dev[d].hit, dev[d].key)
      BY <1>1, <1>6 DEF CallState, CallGood, PlacesKnown, OnHit
    <2>3. QED
      BY <1>2, <1>6, <2>1, <2>2 DEF RequestGood, ChangeRequest
  <1>7. CASE dev[d].pc = "drop"
    <2>1. r = [kind |-> "drop", name |-> dev[d].key]
      BY <1>7 DEF Request
    <2>2. Copied(dev[d].key)
      BY <1>1, <1>7 DEF CallGood, OperandsFit, CopiesWhatWas, Copied
    <2>3. QED
      BY <1>2, <1>7, <2>1, <2>2 DEF RequestGood, ChangeRequest
  <1>8. dev[d].pc \in {"mkdir", "patch", "create", "remove", "drop"}
    BY DEF Request
  <1>9. QED
    BY <1>3, <1>4, <1>5, <1>6, <1>7, <1>8
-----------------------------------------------------------------------------
(* A set of numbers has a least one. *)
LEMMA Smallest ==
    ASSUME NEW S \in SUBSET Nat, S # {}
    PROVE  \E i \in S : \A j \in S : i <= j
  <1> DEFINE Less == OpToRel(<, Nat)
  <1>1. IsWellFoundedOn(Less, Nat)
    BY NatLessThanWellFounded
  <1>2. \A i, j \in Nat : <<j, i>> \in Less <=> j < i
    BY DEF OpToRel
  <1> HIDE DEF Less
  <1>3. PICK i \in S : \A j \in S : <<j, i>> \notin Less
    BY <1>1, WFMin
  <1>4. ASSUME NEW j \in S
        PROVE  i <= j
    <2>1. i \in Nat /\ j \in Nat /\ ~(j < i)
      BY <1>2, <1>3
    <2>2. QED
      BY <2>1
  <1>5. QED
    BY <1>4

(* The newest of some hits is one of them. *)
LEMMA NewestIsAHit ==
    ASSUME NEW hits \in SUBSET Nat, hits # {}
    PROVE  Newest(hits) \in hits /\ \A j \in hits : Newest(hits) <= j
  BY Smallest DEF Newest

(* Hits are positions in the list of files. *)
LEMMA HitsThere ==
    ASSUME DriveGood, NEW found, NEW name
    PROVE  /\ Hits(found, name) \subseteq 1 .. Len(files)
           /\ Hits(found, name) \in SUBSET Nat
  BY DEF Hits, DriveGood

(* The file a search finds has the name that was looked for. *)
LEMMA Found ==
    ASSUME DriveGood, NEW found, NEW name, Hits(found, name) # {}
    PROVE  LET i == Newest(Hits(found, name))
           IN  /\ i \in Hits(found, name)
               /\ i \in 1 .. Len(files) /\ files[i] \in File
               /\ files[i].id \in Id /\ Named(files[i].id, name)
  <1> DEFINE i == Newest(Hits(found, name))
  <1>1. i \in Hits(found, name) /\ i \in 1 .. Len(files)
    BY HitsThere, NewestIsAHit
  <1>2. files[i].name = name
    BY <1>1 DEF Hits
  <1> HIDE DEF i
  <1>3. files[i] \in File /\ files[i].id \in Id
    BY <1>1 DEF DriveGood
  <1>4. Named(files[i].id, name)
    BY <1>1, <1>2 DEF Named, DriveGood
  <1>5. QED
    BY <1>1, <1>3, <1>4 DEF i

-----------------------------------------------------------------------------
(* The steps. *)
LEMMA ReadsOnly ==
    ASSUME IInv, Reads
    PROVE  /\ DriveGood' /\ Grows /\ faults' \in Nat /\ orphans' = orphans
           /\ UNCHANGED <<folders, files, legacy, made>>
  <1>1. faults' = faults /\ orphans' = orphans /\ UNCHANGED drive /\ Remember
    BY DEF Reads
  <1>2. QED
    BY <1>1, SameDrive DEF IInv, drive

LEMMA Beginning ==
    ASSUME IInv, NEW d \in Device, Begin(d)
    PROVE  IInv'
  <1>1. PICK c \in Call, cache \in {dev[d].cache, None} :
          Move(d, [Idle EXCEPT !.call = c, !.cache = cache,
                     !.pc = IF cache = None THEN "search" ELSE "check"])
    BY DEF Begin
  <1> DEFINE pc == IF cache = None THEN "search" ELSE "check"
             s == [Idle EXCEPT !.call = c, !.cache = cache, !.pc = pc]
  <1>2. dev \in [Device -> CallState] /\ CallGood(d)
    BY DEF IInv
  <1>3. cache \in Nat \cup {None} /\ 1 \in 1 .. MAX_ATTEMPTS
    BY <1>2, DriveAssumption DEF CallState
  <1>4. pc \in {"search", "check"} /\ pc \in Step /\ (pc = "check" => cache # None)
    BY DEF Step
  <1> HIDE DEF pc
  <1>5. s \in CallState
    BY <1>3, <1>4 DEF Idle, CallState
  <1>6. /\ s.pc = pc /\ s.call = c /\ s.answer = None /\ s.cache = cache
        /\ s.folder = None /\ s.hit = None /\ s.buf = None
    BY DEF Idle
  <1>7. Move(d, s)
    BY <1>1 DEF pc
  <1> HIDE DEF s
  <1>8. /\ Moves(d) /\ dev'[d].pc = pc /\ dev'[d].call = c /\ dev'[d].answer = None
        /\ dev'[d].cache = cache /\ dev'[d].folder = None /\ dev'[d].hit = None
        /\ dev'[d].buf = None
    BY <1>2, <1>5, <1>6, <1>7, MovesTo
  <1>9. DriveGood' /\ Grows /\ FolderId' = FolderId
    BY SameDrive DEF Begin, FolderId, drive
  <1>10. c # None
    BY DriveAssumption
  <1>11. OperandsFit(d)'
    BY <1>4, <1>8 DEF OperandsFit, OnFile, OnHit
  <1>12. PlacesKnown(d)'
    <2>1. cache \in FolderId \cup {None}
      BY <1>2 DEF CallGood, PlacesKnown
    <2>2. QED
      BY <1>4, <1>8, <1>9, <2>1 DEF PlacesKnown, OnFile, OnHit, InFolder
  <1>13. CopiesWhatWas(d)'
    BY <1>4, <1>8 DEF CopiesWhatWas
  <1>14. CallGood(d)'
    BY <1>4, <1>8, <1>10, <1>11, <1>12, <1>13 DEF CallGood
  <1>15. QED
    BY <1>8, <1>9, <1>14, StepInv DEF Begin, IInv

LEMMA Checking ==
    ASSUME IInv, NEW d \in Device, CheckCached(d)
    PROVE  IInv'
  <1>1. /\ DriveGood' /\ Grows /\ faults' \in Nat /\ orphans' = orphans
        /\ folders' = folders
    BY ReadsOnly DEF CheckCached
  <1>2. Moves(d) /\ CallGood(d)'
    <2>1. CASE dev[d].cache \in Live
      <3>1. dev[d].cache \in FolderId'
        BY <1>1, <2>1 DEF Live, FolderId
      <3>2. QED
        BY <1>1, <2>1, <3>1, Entered DEF CheckCached
    <2>2. CASE dev[d].cache \notin Live
      BY <1>1, <2>2, ToFolder DEF CheckCached
    <2>3. QED
      BY <2>1, <2>2
  <1>3. QED
    BY <1>1, <1>2, StepInv

LEMMA Searching ==
    ASSUME IInv, NEW d \in Device, Search(d)
    PROVE  IInv'
  <1>1. /\ DriveGood' /\ Grows /\ faults' \in Nat /\ orphans' = orphans
        /\ folders' = folders
    BY ReadsOnly DEF Search
  <1>2. Moves(d) /\ CallGood(d)'
    <2>1. ASSUME NEW id \in Live, EnterFolder(d, id)
          PROVE  Moves(d) /\ CallGood(d)'
      <3>1. id \in FolderId'
        BY <1>1 DEF Live, FolderId
      <3>2. QED
        BY <1>1, <2>1, <3>1, Entered DEF Search
    <2>2. CASE Goto(d, "mkdir")
      BY <1>1, <2>2, ToFolder DEF Search
    <2>3. QED
      BY <2>1, <2>2 DEF Search
  <1>3. QED
    BY <1>1, <1>2, StepInv

LEMMA Making ==
    ASSUME IInv, NEW d \in Device, Mkdir(d)
    PROVE  IInv'
  <1>1. /\ MakeFolder /\ Remember /\ faults' = faults /\ orphans' = orphans
        /\ dev[d].pc = "mkdir" /\ EnterFolder(d, Len(folders'))
    BY DEF Mkdir, Changes
  <1>2. DriveGood' /\ Grows /\ Len(folders') = Len(folders) + 1
    BY <1>1, Makes DEF IInv
  <1>3. Len(folders') \in FolderId'
    BY <1>2 DEF FolderId, IInv, DriveGood
  <1>4. Moves(d) /\ CallGood(d)'
    BY <1>1, <1>2, <1>3, Entered
  <1>5. faults' \in Nat
    BY <1>1 DEF IInv
  <1>6. QED
    BY <1>1, <1>2, <1>4, <1>5, StepInv

(* A call that found a file, or none, goes on in the folder. *)
LEMMA Finding ==
    ASSUME IInv, NEW d \in Device, Find(d)
    PROVE  IInv'
  <1> DEFINE hits == Hits({dev[d].folder}, dev[d].key)
             op == dev[d].call.op
             id == files[Newest(hits)].id
             pc == CASE op \in {"upload", "migrate"} -> "patch"
                     [] op = "download" -> "get"
                     [] op = "metadata" -> "fields"
                     [] op = "delete"   -> "remove"
             s == [dev[d] EXCEPT !.hit = id, !.pc = pc]
  <1>1. /\ DriveGood' /\ Grows /\ faults' \in Nat /\ orphans' = orphans
        /\ UNCHANGED <<folders, files, legacy, made>>
    BY ReadsOnly DEF Find
  <1>2. /\ dev \in [Device -> CallState] /\ CallGood(d) /\ dev[d].pc = "find"
        /\ DriveGood
    BY DEF IInv, Find
  <1>3. dev[d].call \in Call /\ dev[d].answer = None
    BY <1>2 DEF CallGood, CallState
  <1>4. Id' = Id /\ FolderId' = FolderId
    BY <1>1 DEF Id, FolderId
  <1>5. /\ {dev[d].cache, dev[d].folder} \subseteq FolderId \cup {None}
        /\ dev[d].folder # None /\ dev[d].key # None /\ dev[d].hit \in Id \cup {None}
    BY <1>2 DEF CallGood, PlacesKnown, InFolder, OnFile
  <1>6. op \in {"upload", "download", "metadata", "delete", "migrate"}
    BY <1>2, <1>3 DEF CallGood, OperandsFit, Call, Upload, OnKey
  <1>7. /\ dev[d].call \in Upload => /\ dev[d].key = dev[d].call.key
                                     /\ dev[d].buf = dev[d].call.data
        /\ dev[d].call \in OnKey => dev[d].key = dev[d].call.key /\ dev[d].buf = None
        /\ op = "upload" => dev[d].call \in Upload
        /\ op \in {"download", "metadata", "delete"} => dev[d].call \in OnKey
    BY <1>2, <1>3 DEF CallGood, OperandsFit, OnFile, Call, Upload, OnKey
  <1>8. op = "upload" => dev[d].buf # None
    BY <1>7, DriveAssumption DEF Upload
  <1>9. op = "migrate" /\ dev[d].buf # None => legacy[dev[d].key] \in {None, dev[d].buf}
    BY <1>2 DEF CallGood, CopiesWhatWas
  <1>10. op = "migrate" => dev[d].call \notin Upload \cup OnKey
    BY DEF Upload, OnKey
  <1>11. ASSUME NEW to \in Step, Goto(d, to), ~(to \in {"idle", "done"}),
                OperandsFit(d)', ~(to \in OnHit), to # "check", to # "drop",
                to \in {"find", "patch", "create"} => to = "create"
         PROVE  Moves(d) /\ CallGood(d)'
    <2>1. /\ Moves(d)
          /\ dev'[d].pc = to /\ dev'[d].call = dev[d].call
          /\ dev'[d].answer = dev[d].answer
          /\ dev'[d].cache = dev[d].cache /\ dev'[d].folder = dev[d].folder
          /\ dev'[d].key = dev[d].key /\ dev'[d].hit = dev[d].hit
          /\ dev'[d].buf = dev[d].buf
      BY <1>2, <1>11, GoesTo
    <2>2. PlacesKnown(d)'
      BY <1>4, <1>5, <1>11, <2>1 DEF PlacesKnown
    <2>3. CopiesWhatWas(d)'
      BY <1>1, <1>9, <1>11, <2>1 DEF CopiesWhatWas
    <2>4. QED
      BY <1>2, <1>3, <1>11, <2>1, <2>2, <2>3 DEF CallGood
  <1>12. CASE hits # {} /\ op = "migrate" /\ dev[d].buf = None /\ Goto(d, "next")
    <2>1. "next" \in Step
      BY DEF Step
    <2>2. dev'[d].pc = "next" /\ dev'[d].call = dev[d].call
      BY <1>2, <1>12, <2>1, GoesTo
    <2>3. OperandsFit(d)'
      BY <1>12, <2>2 DEF OperandsFit, OnFile, OnHit
    <2>4. Moves(d) /\ CallGood(d)'
      BY <1>11, <1>12, <2>1, <2>3 DEF OnHit
    <2>5. QED
      BY <1>1, <2>4, StepInv
  <1>13. CASE /\ hits # {} /\ ~(op = "migrate" /\ dev[d].buf = None)
              /\ Move(d, s)
    <2>1. id \in Id /\ Named(id, dev[d].key) /\ id # None
      <3>1. id \in Id /\ Named(id, dev[d].key)
        BY <1>2, <1>13, Found
      <3>2. QED
        BY <3>1, DriveAssumption DEF Id
    <2> HIDE DEF id
    <2>2. /\ op \in {"upload", "migrate"} => pc = "patch"
          /\ op = "download" => pc = "get"
          /\ op = "metadata" => pc = "fields"
          /\ op = "delete" => pc = "remove"
      OBVIOUS
    <2> HIDE DEF pc
    <2>3. /\ pc \in OnHit /\ pc \in Step
          /\ pc = "patch" => op \in {"upload", "migrate"}
          /\ pc = "get" => op = "download"
          /\ pc = "fields" => op = "metadata"
          /\ pc = "remove" => op = "delete"
      BY <1>6, <2>2 DEF OnHit, Step
    <2>4. s \in CallState
      <3>1. id \in Nat \cup {None} /\ dev[d] \in CallState
        BY <1>2, <2>1 DEF Id
      <3>2. QED
        BY <2>3, <3>1 DEF CallState
    <2>5. /\ s.pc = pc /\ s.call = dev[d].call /\ s.answer = dev[d].answer
          /\ s.cache = dev[d].cache /\ s.folder = dev[d].folder /\ s.key = dev[d].key
          /\ s.hit = id /\ s.buf = dev[d].buf
      BY <1>2 DEF CallState
    <2>6. Move(d, s)
      BY <1>13
    <2> HIDE DEF s
    <2>7. /\ Moves(d)
          /\ dev'[d].pc = pc /\ dev'[d].call = dev[d].call
          /\ dev'[d].answer = dev[d].answer
          /\ dev'[d].cache = dev[d].cache /\ dev'[d].folder = dev[d].folder
          /\ dev'[d].key = dev[d].key /\ dev'[d].hit = id /\ dev'[d].buf = dev[d].buf
      BY <1>2, <2>4, <2>5, <2>6, MovesTo
    <2>8. pc = "patch" => dev[d].buf # None
      BY <1>8, <1>13, <2>3
    <2>9. OperandsFit(d)'
      BY <1>7, <2>3, <2>7, <2>8 DEF OperandsFit, OnHit
    <2>10. \A i \in 1 .. Len(files') :
             files'[i].id = id => files'[i].name = dev[d].key
      BY <1>1, <2>1 DEF Named
    <2>11. PlacesKnown(d)'
      BY <1>4, <1>5, <2>1, <2>3, <2>7, <2>10 DEF PlacesKnown, OnHit, Named
    <2>12. CopiesWhatWas(d)'
      BY <1>1, <1>9, <2>3, <2>7 DEF CopiesWhatWas, OnHit
    <2>13. CallGood(d)'
      BY <1>2, <1>3, <2>3, <2>7, <2>9, <2>11, <2>12 DEF CallGood, OnHit
    <2>14. QED
      BY <1>1, <2>7, <2>13, StepInv
  <1>14. CASE hits = {} /\ dev[d].buf # None /\ Goto(d, "create")
    <2>1. "create" \in Step
      BY DEF Step
    <2>2. dev'[d].pc = "create" /\ dev'[d].call = dev[d].call
          /\ dev'[d].key = dev[d].key /\ dev'[d].buf = dev[d].buf
      BY <1>2, <1>14, <2>1, GoesTo
    <2>3. op \in {"upload", "migrate"}
      BY <1>6, <1>7, <1>14
    <2>4. OperandsFit(d)'
      BY <1>7, <1>14, <2>2, <2>3 DEF OperandsFit
    <2>5. Moves(d) /\ CallGood(d)'
      BY <1>11, <1>14, <2>1, <2>4 DEF OnHit
    <2>6. QED
      BY <1>1, <2>5, StepInv
  <1>15. CASE hits = {} /\ dev[d].buf = None /\ op = "migrate" /\ Goto(d, "fetch")
    <2>1. "fetch" \in Step
      BY DEF Step
    <2>2. dev'[d].pc = "fetch" /\ dev'[d].call = dev[d].call
      BY <1>2, <1>15, <2>1, GoesTo
    <2>3. OperandsFit(d)'
      BY <1>15, <2>2 DEF OperandsFit, OnFile, OnHit
    <2>4. Moves(d) /\ CallGood(d)'
      BY <1>11, <1>15, <2>1, <2>3 DEF OnHit
    <2>5. QED
      BY <1>1, <2>4, StepInv
  <1>16. CASE Finish(d, [kind |-> "notFound"])
    <2>1. [kind |-> "notFound"] \in Answers /\ dev[d].call # None
      BY <1>2 DEF Answers, CallGood
    <2>2. Moves(d) /\ CallGood(d)'
      BY <1>1, <1>16, <2>1, Finished
    <2>3. QED
      BY <1>1, <2>2, StepInv
  <1>17. QED
    <2>1. CASE hits # {} /\ op = "migrate" /\ dev[d].buf = None
      BY <1>12, <2>1 DEF Find
    <2>2. CASE hits # {} /\ ~(op = "migrate" /\ dev[d].buf = None)
      BY <1>13, <2>2 DEF Find
    <2>3. CASE hits = {} /\ dev[d].buf # None
      <3>1. Goto(d, "create")
        BY <2>3 DEF Find
      <3>2. QED
        BY <1>14, <2>3, <3>1
    <2>4. CASE hits = {} /\ dev[d].buf = None
      BY <1>15, <1>16, <2>4 DEF Find
    <2>5. QED
      BY <2>1, <2>2, <2>3, <2>4

(* A call whose file is written is over, or drops the original. *)
LEMMA StoredMoves ==
    ASSUME IInv, DriveGood', Grows, NEW d \in Device, dev[d].pc \in {"patch", "create"},
           <<dev[d].key, dev[d].buf>> \in written', Stored(d)
    PROVE  Moves(d) /\ CallGood(d)'
  <1>1. /\ dev \in [Device -> CallState] /\ CallGood(d)
        /\ dev[d].call # None /\ dev[d].answer = None
    BY DEF IInv, CallGood
  <1>2. CASE Finish(d, Ok)
    <2>1. Ok \in Answers
      BY DEF Ok, Answers
    <2>2. QED
      BY <1>1, <1>2, <2>1, Finished
  <1>3. CASE Copying(dev[d]) /\ Goto(d, "drop")
    <2>1. "drop" \in Step
      BY DEF Step
    <2>2. /\ Moves(d)
          /\ dev'[d].pc = "drop" /\ dev'[d].call = dev[d].call
          /\ dev'[d].answer = dev[d].answer
          /\ dev'[d].cache = dev[d].cache /\ dev'[d].folder = dev[d].folder
          /\ dev'[d].key = dev[d].key /\ dev'[d].hit = dev[d].hit
          /\ dev'[d].buf = dev[d].buf
      BY <1>1, <1>3, <2>1, GoesTo
    <2>3. Id \subseteq Id' /\ FolderId \subseteq FolderId'
      BY DEF Grows, IInv, DriveGood, Id, FolderId
    <2>4. OperandsFit(d)'
      BY <1>3, <2>2 DEF OperandsFit, OnFile, OnHit, Copying
    <2>5. /\ {dev[d].cache, dev[d].folder} \subseteq FolderId \cup {None}
          /\ dev[d].folder # None /\ dev[d].key # None /\ dev[d].hit \in Id \cup {None}
      BY <1>1 DEF CallGood, PlacesKnown, InFolder, OnFile, OnHit
    <2>6. PlacesKnown(d)'
      BY <2>2, <2>3, <2>5 DEF PlacesKnown, OnHit
    <2>7. CopiesWhatWas(d)'
      <3>1. dev[d].key \in Key
        BY <1>1, <2>5 DEF CallState
      <3>2. legacy[dev[d].key] \in {None, dev[d].buf}
        BY <1>1, <1>3 DEF CallGood, CopiesWhatWas, Copying
      <3>3. legacy'[dev[d].key] \in {None, dev[d].buf}
        BY <3>1, <3>2 DEF Grows
      <3>4. QED
        BY <2>2, <3>3 DEF CopiesWhatWas
    <2>8. QED
      BY <1>1, <2>2, <2>4, <2>6, <2>7 DEF CallGood
  <1>4. QED
    BY <1>2, <1>3 DEF Stored

LEMMA Patching ==
    ASSUME IInv, NEW d \in Device, Patch(d)
    PROVE  IInv'
  <1>1. /\ dev[d].pc = "patch" /\ Remember /\ orphans' = orphans /\ faults' = faults
        /\ faults' \in Nat /\ CallGood(d)
    BY DEF Patch, Changes, IInv
  <1>2. ASSUME NEW r \in Request(d), Execute(r), Stored(d)
        PROVE  IInv'
    <2>1. RequestGood(r) /\ r.name = dev[d].key /\ r.data = dev[d].buf /\ r.kind = "patch"
      <3>1. r = [kind |-> "patch", id |-> dev[d].hit, name |-> dev[d].key,
                 data |-> dev[d].buf]
        BY <1>1 DEF Request
      <3>2. QED
        BY <3>1, RequestFits
    <2>2. DriveGood' /\ Grows /\ <<dev[d].key, dev[d].buf>> \in written'
      BY <1>1, <1>2, <2>1, Executes
    <2>3. Moves(d) /\ CallGood(d)'
      BY <1>1, <1>2, <2>2, StoredMoves
    <2>4. QED
      BY <1>1, <2>2, <2>3, StepInv
  <1>3. CASE Failed(d) /\ UNCHANGED drive
    <2>1. DriveGood' /\ Grows
      BY <1>1, <1>3, SameDrive
    <2>2. Moves(d) /\ CallGood(d)'
      BY <1>1, <1>3, <2>1, Fails
    <2>3. QED
      BY <1>1, <2>1, <2>2, StepInv
  <1>4. QED
    BY <1>2, <1>3 DEF Patch

LEMMA Creating ==
    ASSUME IInv, NEW d \in Device, Create(d)
    PROVE  IInv'
  <1>1. /\ dev[d].pc = "create" /\ Remember /\ orphans' = orphans /\ faults' = faults
        /\ faults' \in Nat /\ Stored(d)
    BY DEF Create, Changes, IInv
  <1>2. PICK r \in Request(d) : Execute(r)
    BY DEF Create
  <1>3. RequestGood(r) /\ r.name = dev[d].key /\ r.data = dev[d].buf /\ r.kind = "create"
    <2>1. r = [kind |-> "create", folder |-> dev[d].folder, name |-> dev[d].key,
               data |-> dev[d].buf]
      BY <1>1 DEF Request
    <2>2. QED
      BY <2>1, RequestFits
  <1>4. DriveGood' /\ Grows /\ <<dev[d].key, dev[d].buf>> \in written'
    BY <1>1, <1>2, <1>3, Executes
  <1>5. Moves(d) /\ CallGood(d)'
    BY <1>1, <1>4, StoredMoves
  <1>6. QED
    BY <1>1, <1>4, <1>5, StepInv

LEMMA Removing ==
    ASSUME IInv, NEW d \in Device, Remove(d)
    PROVE  IInv'
  <1>1. /\ dev[d].pc = "remove" /\ Remember /\ orphans' = orphans /\ faults' = faults
        /\ faults' \in Nat /\ dev[d].call # None
    BY DEF Remove, Changes, IInv, CallGood
  <1>2. ASSUME NEW r \in Request(d), Execute(r), Finish(d, Ok)
        PROVE  IInv'
    <2>1. DriveGood' /\ Grows
      BY <1>1, <1>2, RequestFits, Executes
    <2>2. Ok \in Answers
      BY DEF Ok, Answers
    <2>3. Moves(d) /\ CallGood(d)'
      BY <1>1, <1>2, <2>1, <2>2, Finished
    <2>4. QED
      BY <1>1, <2>1, <2>3, StepInv
  <1>3. CASE Failed(d) /\ UNCHANGED drive
    <2>1. DriveGood' /\ Grows
      BY <1>1, <1>3, SameDrive
    <2>2. Moves(d) /\ CallGood(d)'
      BY <1>1, <1>3, <2>1, Fails
    <2>3. QED
      BY <1>1, <2>1, <2>2, StepInv
  <1>4. QED
    BY <1>2, <1>3 DEF Remove

LEMMA Dropping ==
    ASSUME IInv, NEW d \in Device, Drop(d)
    PROVE  IInv'
  <1>1. /\ dev[d].pc = "drop" /\ Remember /\ orphans' = orphans /\ faults' = faults
        /\ faults' \in Nat /\ dev[d].call.op = "migrate"
        /\ Move(d, [dev[d] EXCEPT !.pc = "next", !.buf = None])
    BY DEF Drop, Changes, IInv, CallGood, OperandsFit
  <1>2. DriveGood' /\ Grows
    BY <1>1, RequestFits, Executes, SameDrive DEF Drop
  <1>3. Moves(d) /\ CallGood(d)'
    BY <1>1, <1>2, ToNext
  <1>4. QED
    BY <1>1, <1>2, <1>3, StepInv

LEMMA Asking ==
    ASSUME IInv, NEW d \in Device, Fields(d)
    PROVE  IInv'
  <1>1. /\ DriveGood' /\ Grows /\ faults' \in Nat /\ orphans' = orphans
        /\ UNCHANGED <<folders, files, legacy, made>>
    BY ReadsOnly DEF Fields
  <1>2. /\ dev \in [Device -> CallState] /\ CallGood(d) /\ dev[d].pc = "fields"
        /\ DriveGood
    BY DEF IInv, Fields
  <1>3. CASE Failed(d)
    <2>1. Moves(d) /\ CallGood(d)'
      BY <1>1, <1>2, <1>3, Fails
    <2>2. QED
      BY <1>1, <2>1, StepInv
  <1>4. CASE /\ dev[d].hit \in FileIds
             /\ Move(d, [dev[d] EXCEPT !.pc = "get",
                           !.fields = FileWith(dev[d].hit).data])
    <2> DEFINE v == FileWith(dev[d].hit).data
               s == [dev[d] EXCEPT !.pc = "get", !.fields = v]
    <2>1. v \in Data
      BY <1>2, <1>4, HeldData
    <2> HIDE DEF v
    <2>2. /\ s \in CallState
          /\ s.pc = "get" /\ s.call = dev[d].call /\ s.answer = dev[d].answer
          /\ s.cache = dev[d].cache /\ s.folder = dev[d].folder /\ s.key = dev[d].key
          /\ s.hit = dev[d].hit /\ s.buf = dev[d].buf
      <3>1. dev[d] \in CallState /\ "get" \in Step /\ v \in Data \cup {None}
        BY <1>2, <2>1 DEF Step
      <3>2. s \in CallState
        BY ONLY <3>1 DEF CallState
      <3>3. /\ s.pc = "get" /\ s.call = dev[d].call /\ s.answer = dev[d].answer
            /\ s.cache = dev[d].cache /\ s.folder = dev[d].folder
            /\ s.key = dev[d].key /\ s.hit = dev[d].hit /\ s.buf = dev[d].buf
        BY ONLY <3>1 DEF CallState
      <3>4. QED
        BY <3>2, <3>3
    <2>3. Move(d, s)
      BY <1>4 DEF v
    <2> HIDE DEF s
    <2>4. /\ Moves(d)
          /\ dev'[d].pc = "get" /\ dev'[d].call = dev[d].call
          /\ dev'[d].answer = dev[d].answer
          /\ dev'[d].cache = dev[d].cache /\ dev'[d].folder = dev[d].folder
          /\ dev'[d].key = dev[d].key /\ dev'[d].hit = dev[d].hit
          /\ dev'[d].buf = dev[d].buf
      BY <1>2, <2>2, <2>3, MovesTo
    <2>5. OperandsFit(d)'
      BY <1>2, <2>4 DEF CallGood, OperandsFit, OnFile, OnHit
    <2>6. PlacesKnown(d)'
      BY <1>1, <1>2, <2>4
      DEF CallGood, PlacesKnown, Named, OnFile, OnHit, InFolder, Id, FolderId
    <2>7. CopiesWhatWas(d)'
      BY <2>4 DEF CopiesWhatWas
    <2>8. CallGood(d)'
      BY <1>2, <2>4, <2>5, <2>6, <2>7 DEF CallGood
    <2>9. QED
      BY <1>1, <2>4, <2>8, StepInv
  <1>5. QED
    BY <1>3, <1>4 DEF Fields

LEMMA Getting ==
    ASSUME IInv, NEW d \in Device, Get(d)
    PROVE  IInv'
  <1>1. /\ DriveGood' /\ Grows /\ faults' \in Nat /\ orphans' = orphans
        /\ UNCHANGED <<folders, files, legacy, made>>
    BY ReadsOnly DEF Get
  <1>2. /\ dev \in [Device -> CallState] /\ CallGood(d) /\ dev[d].pc = "get"
        /\ DriveGood /\ dev[d].call # None
    BY DEF IInv, Get, CallGood
  <1>3. CASE Failed(d)
    <2>1. Moves(d) /\ CallGood(d)'
      BY <1>1, <1>2, <1>3, Fails
    <2>2. QED
      BY <1>1, <2>1, StepInv
  <1>4. ASSUME dev[d].hit \in FileIds,
               Finish(d, IF dev[d].call.op = "download"
                           THEN [kind |-> "data", data |-> FileWith(dev[d].hit).data]
                           ELSE [kind |-> "metadata", fields |-> dev[d].fields,
                                 data |-> FileWith(dev[d].hit).data])
        PROVE  IInv'
    <2> DEFINE v == FileWith(dev[d].hit).data
    <2>1. v \in Data
      BY <1>2, <1>4, HeldData
    <2> DEFINE a == IF dev[d].call.op = "download" THEN [kind |-> "data", data |-> v]
                    ELSE [kind |-> "metadata", fields |-> dev[d].fields, data |-> v]
    <2>2. Finish(d, a)
      BY <1>4
    <2> HIDE DEF v
    <2>3. a \in Answers
      BY <1>2, <2>1 DEF Answers, CallState
    <2> HIDE DEF a
    <2>4. Moves(d) /\ CallGood(d)'
      BY <1>1, <1>2, <2>2, <2>3, Finished
    <2>5. QED
      BY <1>1, <2>4, StepInv
  <1>5. QED
    BY <1>3, <1>4 DEF Get

LEMMA Listing ==
    ASSUME IInv, NEW d \in Device, List(d)
    PROVE  IInv'
  <1> DEFINE a == [kind |-> "keys",
                   keys |-> {k \in Key : Hits({dev[d].folder}, k) # {}}]
  <1>1. DriveGood' /\ Grows /\ faults' \in Nat /\ orphans' = orphans
    BY ReadsOnly DEF List
  <1>2. dev[d].call # None
    BY DEF IInv, List, CallGood
  <1>3. a \in Answers
    BY DEF Answers
  <1>4. Finish(d, a)
    BY DEF List
  <1> HIDE DEF a
  <1>5. Moves(d) /\ CallGood(d)'
    BY <1>1, <1>2, <1>3, <1>4, Finished
  <1>6. QED
    BY <1>1, <1>5, StepInv

LEMMA ListingLegacy ==
    ASSUME IInv, NEW d \in Device, ListLegacy(d)
    PROVE  IInv'
  <1> DEFINE there == {k \in Key : legacy[k] # None}
             s == [dev[d] EXCEPT !.pc = "next", !.todo = there]
  <1>1. /\ DriveGood' /\ Grows /\ faults' \in Nat /\ orphans' = orphans
        /\ UNCHANGED <<folders, files, legacy, made>>
    BY ReadsOnly DEF ListLegacy
  <1>2. /\ dev \in [Device -> CallState] /\ CallGood(d) /\ dev[d].pc = "legacy"
        /\ dev[d].call # None
    BY DEF IInv, ListLegacy, CallGood
  <1>3. CASE Finish(d, Ok)
    <2>1. Ok \in Answers
      BY DEF Ok, Answers
    <2>2. Moves(d) /\ CallGood(d)'
      BY <1>1, <1>2, <1>3, <2>1, Finished
    <2>3. QED
      BY <1>1, <2>2, StepInv
  <1>4. CASE Move(d, s)
    <2>1. there \in SUBSET Key
      OBVIOUS
    <2> HIDE DEF there
    <2>2. /\ s \in CallState
          /\ s.pc = "next" /\ s.call = dev[d].call /\ s.answer = dev[d].answer
          /\ s.cache = dev[d].cache /\ s.folder = dev[d].folder /\ s.hit = dev[d].hit
      <3>1. dev[d] \in CallState /\ "next" \in Step /\ there \in SUBSET Key
        BY <1>2, <2>1 DEF Step
      <3>2. s \in CallState
        BY ONLY <3>1 DEF CallState
      <3>3. /\ s.pc = "next" /\ s.call = dev[d].call /\ s.answer = dev[d].answer
            /\ s.cache = dev[d].cache /\ s.folder = dev[d].folder
            /\ s.hit = dev[d].hit
        BY ONLY <3>1 DEF CallState
      <3>4. QED
        BY <3>2, <3>3
    <2>3. Move(d, s)
      BY <1>4
    <2> HIDE DEF s
    <2>4. /\ Moves(d)
          /\ dev'[d].pc = "next" /\ dev'[d].call = dev[d].call
          /\ dev'[d].answer = dev[d].answer
          /\ dev'[d].cache = dev[d].cache /\ dev'[d].folder = dev[d].folder
          /\ dev'[d].hit = dev[d].hit
      BY <1>2, <2>2, <2>3, MovesTo
    <2>5. OperandsFit(d)'
      BY <1>2, <2>4 DEF CallGood, OperandsFit, OnFile, OnHit
    <2>6. PlacesKnown(d)'
      BY <1>1, <1>2, <2>4
      DEF CallGood, PlacesKnown, OnFile, OnHit, InFolder, Id, FolderId
    <2>7. CopiesWhatWas(d)'
      BY <2>4 DEF CopiesWhatWas
    <2>8. CallGood(d)'
      BY <1>2, <2>4, <2>5, <2>6, <2>7 DEF CallGood
    <2>9. QED
      BY <1>1, <2>4, <2>8, StepInv
  <1>5. QED
    BY <1>3, <1>4 DEF ListLegacy

LEMMA GoingOn ==
    ASSUME IInv, NEW d \in Device, NextLegacy(d)
    PROVE  IInv'
  <1>1. /\ DriveGood' /\ Grows /\ faults' \in Nat /\ orphans' = orphans
        /\ UNCHANGED <<folders, files, legacy, made>>
    BY ReadsOnly DEF NextLegacy
  <1>2. /\ dev \in [Device -> CallState] /\ CallGood(d) /\ dev[d].pc = "next"
        /\ dev[d].call # None
    BY DEF IInv, NextLegacy, CallGood
  <1>3. CASE Finish(d, Ok)
    <2>1. Ok \in Answers
      BY DEF Ok, Answers
    <2>2. Moves(d) /\ CallGood(d)'
      BY <1>1, <1>2, <1>3, <2>1, Finished
    <2>3. QED
      BY <1>1, <2>2, StepInv
  <1>4. ASSUME NEW k \in dev[d].todo,
               Move(d, [dev[d] EXCEPT !.pc = "find", !.key = k, !.buf = None,
                          !.todo = @ \ {k}])
        PROVE  IInv'
    <2> DEFINE left == dev[d].todo \ {k}
               s == [dev[d] EXCEPT !.pc = "find", !.key = k, !.buf = None, !.todo = left]
    <2>1. left \in SUBSET Key /\ k \in Key /\ k # None
      BY <1>2, DriveAssumption DEF CallState
    <2>2. Move(d, s)
      BY <1>4
    <2> HIDE DEF left
    <2>3. s \in CallState
      <3>1. dev[d] \in CallState /\ "find" \in Step
        BY <1>2 DEF Step
      <3>2. k \in Key \cup {None} /\ None \in Data \cup {None} /\ left \in SUBSET Key
        BY <2>1
      <3>3. QED
        BY <3>1, <3>2 DEF CallState
    <2>4. /\ s.pc = "find" /\ s.call = dev[d].call /\ s.answer = dev[d].answer
          /\ s.cache = dev[d].cache /\ s.folder = dev[d].folder /\ s.hit = dev[d].hit
          /\ s.key = k /\ s.buf = None
      BY <1>2 DEF CallState
    <2> HIDE DEF s
    <2>5. /\ Moves(d)
          /\ dev'[d].pc = "find" /\ dev'[d].call = dev[d].call
          /\ dev'[d].answer = dev[d].answer
          /\ dev'[d].cache = dev[d].cache /\ dev'[d].folder = dev[d].folder
          /\ dev'[d].hit = dev[d].hit /\ dev'[d].key = k /\ dev'[d].buf = None
      BY <1>2, <2>2, <2>3, <2>4, MovesTo
    <2>6. OperandsFit(d)'
      BY <1>2, <2>5 DEF CallGood, OperandsFit, Upload, OnKey
    <2>7. PlacesKnown(d)'
      BY <1>1, <1>2, <2>1, <2>5
      DEF CallGood, PlacesKnown, OnHit, InFolder, Id, FolderId
    <2>8. CopiesWhatWas(d)'
      BY <2>5 DEF CopiesWhatWas
    <2>9. CallGood(d)'
      BY <1>2, <2>5, <2>6, <2>7, <2>8 DEF CallGood
    <2>10. QED
      BY <1>1, <2>5, <2>9, StepInv
  <1>5. QED
    BY <1>3, <1>4 DEF NextLegacy

LEMMA Fetching ==
    ASSUME IInv, NEW d \in Device, Fetch(d)
    PROVE  IInv'
  <1>1. /\ DriveGood' /\ Grows /\ faults' \in Nat /\ orphans' = orphans
        /\ UNCHANGED <<folders, files, legacy, made>>
    BY ReadsOnly DEF Fetch
  <1>2. /\ dev \in [Device -> CallState] /\ CallGood(d) /\ dev[d].pc = "fetch"
        /\ DriveGood
    BY DEF IInv, Fetch
  <1>3. CASE Failed(d)
    <2>1. Moves(d) /\ CallGood(d)'
      BY <1>1, <1>2, <1>3, Fails
    <2>2. QED
      BY <1>1, <2>1, StepInv
  <1>4. CASE /\ legacy[dev[d].key] # None
             /\ Move(d, [dev[d] EXCEPT !.pc = "find", !.buf = legacy[dev[d].key]])
    <2> DEFINE v == legacy[dev[d].key]
               s == [dev[d] EXCEPT !.pc = "find", !.buf = v]
    <2>1. v \in Data /\ v # None
      <3>1. dev[d].key \in Key
        BY <1>2 DEF CallGood, PlacesKnown, CallState
      <3>2. QED
        BY <1>2, <1>4, <3>1 DEF DriveGood
    <2>2. Move(d, s)
      BY <1>4
    <2>3. legacy'[dev[d].key] = v
      BY <1>1
    <2> HIDE DEF v
    <2>4. /\ s \in CallState
          /\ s.pc = "find" /\ s.call = dev[d].call /\ s.answer = dev[d].answer
          /\ s.cache = dev[d].cache /\ s.folder = dev[d].folder /\ s.hit = dev[d].hit
          /\ s.key = dev[d].key /\ s.buf = v
      <3>1. dev[d] \in CallState /\ "find" \in Step /\ v \in Data \cup {None}
        BY <1>2, <2>1 DEF Step
      <3>2. s \in CallState
        BY ONLY <3>1 DEF CallState
      <3>3. /\ s.pc = "find" /\ s.call = dev[d].call /\ s.answer = dev[d].answer
            /\ s.cache = dev[d].cache /\ s.folder = dev[d].folder
            /\ s.hit = dev[d].hit /\ s.key = dev[d].key /\ s.buf = v
        BY ONLY <3>1 DEF CallState
      <3>4. QED
        BY <3>2, <3>3
    <2> HIDE DEF s
    <2>5. /\ Moves(d)
          /\ dev'[d].pc = "find" /\ dev'[d].call = dev[d].call
          /\ dev'[d].answer = dev[d].answer
          /\ dev'[d].cache = dev[d].cache /\ dev'[d].folder = dev[d].folder
          /\ dev'[d].hit = dev[d].hit /\ dev'[d].key = dev[d].key /\ dev'[d].buf = v
      BY <1>2, <2>2, <2>4, MovesTo
    <2>6. OperandsFit(d)'
      BY <1>2, <2>5 DEF CallGood, OperandsFit, Upload, OnKey
    <2>7. PlacesKnown(d)'
      BY <1>1, <1>2, <2>1, <2>5
      DEF CallGood, PlacesKnown, OnHit, InFolder, Id, FolderId
    <2>8. CopiesWhatWas(d)'
      BY <2>3, <2>5 DEF CopiesWhatWas
    <2>9. CallGood(d)'
      BY <1>2, <2>5, <2>6, <2>7, <2>8 DEF CallGood
    <2>10. QED
      BY <1>1, <2>5, <2>9, StepInv
  <1>5. QED
    BY <1>3, <1>4 DEF Fetch

LEMMA Returning ==
    ASSUME IInv, NEW d \in Device, Return(d)
    PROVE  IInv'
  <1> DEFINE cache == dev[d].cache
             s == [Idle EXCEPT !.cache = cache]
  <1>1. /\ DriveGood' /\ Grows /\ faults' \in Nat /\ orphans' = orphans
        /\ UNCHANGED <<folders, files, legacy, made>>
    BY ReadsOnly DEF Return
  <1>2. /\ dev \in [Device -> CallState] /\ CallGood(d)
    BY DEF IInv
  <1>3. cache \in Nat \cup {None} /\ 1 \in 1 .. MAX_ATTEMPTS
    BY <1>2, DriveAssumption DEF CallState
  <1>4. cache \in FolderId \cup {None}
    BY <1>2 DEF CallGood, PlacesKnown
  <1>5. Move(d, s)
    BY DEF Return
  <1> HIDE DEF cache
  <1>6. /\ s \in CallState /\ s.pc = "idle" /\ s.call = None /\ s.answer = None
        /\ s.cache = cache /\ s.folder = None /\ s.hit = None
    BY <1>3 DEF Idle, CallState, Step
  <1> HIDE DEF s
  <1>7. /\ Moves(d) /\ dev'[d].pc = "idle" /\ dev'[d].call = None
        /\ dev'[d].answer = None /\ dev'[d].cache = cache /\ dev'[d].folder = None
        /\ dev'[d].hit = None
    BY <1>2, <1>5, <1>6, MovesTo
  <1>8. OperandsFit(d)'
    BY <1>7 DEF OperandsFit, OnFile, OnHit
  <1>9. PlacesKnown(d)'
    BY <1>1, <1>4, <1>7 DEF PlacesKnown, OnFile, OnHit, InFolder, FolderId
  <1>10. CopiesWhatWas(d)'
    BY <1>7 DEF CopiesWhatWas
  <1>11. CallGood(d)'
    BY <1>7, <1>8, <1>9, <1>10 DEF CallGood
  <1>12. QED
    BY <1>1, <1>7, <1>11, StepInv

-----------------------------------------------------------------------------
LEMMA Faulting ==
    ASSUME IInv, Fault
    PROVE  faults' \in Nat /\ faults' = faults + 1
  BY DEF IInv, Fault

(* An attempt more, at the same step. *)
LEMMA Retrying ==
    ASSUME IInv, NEW d \in Device, Retry(d)
    PROVE  IInv'
  <1> DEFINE n == dev[d].attempt + 1
             s == [dev[d] EXCEPT !.attempt = n]
  <1>1. /\ UNCHANGED drive /\ Remember /\ Fault /\ orphans' = orphans \cup Request(d)
        /\ dev' = [dev EXCEPT ![d] = s]
    BY DEF Retry
  <1>2. DriveGood' /\ Grows /\ faults' \in Nat
    BY <1>1, SameDrive, Faulting
  <1>3. dev \in [Device -> CallState] /\ CallGood(d)
    BY DEF IInv
  <1>4. n \in 1 .. MAX_ATTEMPTS
    BY <1>3, DriveAssumption DEF Retry, CallState
  <1> HIDE DEF n
  <1>5. /\ s \in CallState
        /\ s.pc = dev[d].pc /\ s.call = dev[d].call /\ s.answer = dev[d].answer
        /\ s.cache = dev[d].cache /\ s.folder = dev[d].folder /\ s.hit = dev[d].hit
        /\ s.key = dev[d].key /\ s.buf = dev[d].buf
    BY <1>3, <1>4 DEF CallState
  <1> HIDE DEF s
  <1>6. Moves(d) /\ dev'[d] = s
    BY <1>1, <1>3, <1>5 DEF Moves
  <1>7. OperandsFit(d)'
    BY <1>3, <1>5, <1>6 DEF CallGood, OperandsFit
  <1>8. UNCHANGED <<folders, files, legacy, made>>
    BY <1>1 DEF drive
  <1>9. PlacesKnown(d)'
    BY <1>3, <1>5, <1>6, <1>8 DEF CallGood, PlacesKnown, Named, Id, FolderId
  <1>10. CopiesWhatWas(d)'
    BY <1>2, <1>3, <1>5, <1>6, <1>8 DEF CallGood, CopiesWhatWas, Grows
  <1>11. CallGood(d)'
    BY <1>3, <1>5, <1>6, <1>7, <1>9, <1>10 DEF CallGood
  <1>12. \A r \in orphans' \ orphans : RequestGood(r)'
    BY <1>1, <1>2, RequestFits, RequestStays
  <1>13. QED
    BY <1>2, <1>6, <1>11, <1>12, StepInv

LEMMA GivingUp ==
    ASSUME IInv, NEW d \in Device, GiveUp(d)
    PROVE  IInv'
  <1>1. /\ UNCHANGED drive /\ Remember /\ Fault /\ orphans' = orphans \cup Request(d)
        /\ Failed(d) /\ Sending(d)
    BY DEF GiveUp
  <1>2. DriveGood' /\ Grows /\ faults' \in Nat
    BY <1>1, SameDrive, Faulting
  <1>3. Moves(d) /\ CallGood(d)'
    BY <1>1, <1>2, Fails DEF Sending
  <1>4. \A r \in orphans' \ orphans : RequestGood(r)'
    BY <1>1, <1>2, RequestFits, RequestStays
  <1>5. QED
    BY <1>2, <1>3, <1>4, StepInv

LEMMA BeingRefused ==
    ASSUME IInv, NEW d \in Device, SearchRefused(d)
    PROVE  IInv'
  <1>1. /\ UNCHANGED drive /\ Remember /\ Fault /\ orphans' = orphans
        /\ dev[d].pc = "search" /\ Goto(d, "mkdir")
    BY DEF SearchRefused
  <1>2. DriveGood' /\ Grows /\ faults' \in Nat
    BY <1>1, SameDrive, Faulting
  <1>3. Moves(d) /\ CallGood(d)'
    BY <1>1, <1>2, ToFolder
  <1>4. QED
    BY <1>1, <1>2, <1>3, StepInv

LEMMA NotReading ==
    ASSUME IInv, NEW d \in Device, MkdirUnread(d)
    PROVE  IInv'
  <1>1. /\ MakeFolder /\ Remember /\ Fault /\ orphans' = orphans
        /\ dev[d].pc = "mkdir" /\ Failed(d)
    BY DEF MkdirUnread
  <1>2. DriveGood' /\ Grows /\ faults' \in Nat
    BY <1>1, Makes, Faulting DEF IInv
  <1>3. Moves(d) /\ CallGood(d)'
    BY <1>1, <1>2, Fails
  <1>4. QED
    BY <1>1, <1>2, <1>3, StepInv

(* No call moves. *)
LEMMA NobodyMoves ==
    ASSUME IInv, DriveGood', Grows, dev' = dev, faults' \in Nat, orphans' \subseteq orphans
    PROVE  IInv'
  <1>1. \A d \in Device : CallGood(d)'
    BY CallStays
  <1>2. \A r \in orphans' : RequestGood(r)'
    BY RequestStays DEF IInv
  <1>3. QED
    BY <1>1, <1>2 DEF IInv

LEMMA ExecutingLate ==
    ASSUME IInv, ExecuteLate
    PROVE  IInv'
  <1>1. PICK r \in orphans : Execute(r) /\ orphans' = orphans \ {r}
    BY DEF ExecuteLate
  <1>2. RequestGood(r) /\ Remember /\ dev' = dev /\ faults' \in Nat
    BY DEF IInv, ExecuteLate
  <1>3. DriveGood' /\ Grows
    BY <1>1, <1>2, Executes
  <1>4. QED
    BY <1>1, <1>2, <1>3, NobodyMoves

LEMMA Trashing ==
    ASSUME IInv, Trash
    PROVE  IInv'
  <1>1. PICK id \in Live : folders' = [folders EXCEPT ![id] = "trashed"]
    BY DEF Trash
  <1>2. /\ UNCHANGED <<files, legacy, made, orphans, dev>> /\ Remember /\ Fault
        /\ DriveGood
    BY DEF Trash, IInv
  <1>3. folders' \in Seq({"live", "trashed"}) /\ Len(folders') = Len(folders)
    <2>1. folders \in Seq({"live", "trashed"}) /\ id \in 1 .. Len(folders)
      BY <1>2 DEF DriveGood, Live, FolderId
    <2>2. QED
      BY <1>1, <2>1
  <1>4. DriveGood'
    BY <1>2, <1>3 DEF DriveGood, Id, FolderId
  <1>5. Grows
    <2>1. \A i \in Id, name \in Key : Named(i, name) => Named(i, name)'
      BY <1>2 DEF Named
    <2>2. QED
      BY <1>2, <1>3, <2>1, Wrote DEF Grows, DriveGood
  <1>6. faults' \in Nat
    BY <1>2, Faulting
  <1>7. QED
    BY <1>2, <1>4, <1>5, <1>6, NobodyMoves

(* Every step keeps the invariant. *)
LEMMA StepKeepsInv ==
    ASSUME IInv, [Next]_vars
    PROVE  IInv'
  <1>1. CASE UNCHANGED vars
    <2>1. UNCHANGED <<folders, files, legacy, made, orphans, dev, faults, written>>
      BY <1>1 DEF vars, drive, history
    <2>2. /\ DriveGood' <=> DriveGood
          /\ (dev \in [Device -> CallState])' <=> dev \in [Device -> CallState]
          /\ (faults \in Nat)' <=> faults \in Nat
      BY <2>1 DEF DriveGood, Id, FolderId
    <2>3. \A d \in Device : CallGood(d)' <=> CallGood(d)
      BY <2>1 DEF CallGood, OperandsFit, PlacesKnown, CopiesWhatWas, Named, Id, FolderId
    <2>4. \A r \in orphans : RequestGood(r)' <=> RequestGood(r)
      BY <2>1 DEF RequestGood, Named, Copied, Id, FolderId
    <2>5. QED
      BY <2>1, <2>2, <2>3, <2>4 DEF IInv
  <1>2. ASSUME NEW d \in Device,
               \/ Begin(d) \/ CheckCached(d) \/ Search(d) \/ Mkdir(d)
               \/ Find(d) \/ Patch(d) \/ Create(d) \/ Fields(d) \/ Get(d) \/ Remove(d)
               \/ List(d) \/ ListLegacy(d) \/ NextLegacy(d) \/ Fetch(d) \/ Drop(d)
               \/ Return(d)
               \/ Retry(d) \/ GiveUp(d) \/ SearchRefused(d) \/ MkdirUnread(d)
        PROVE  IInv'
    BY <1>2, Beginning, Checking, Searching, Making, Finding, Patching, Creating,
       Asking, Getting, Removing, Listing, ListingLegacy, GoingOn, Fetching, Dropping,
       Returning, Retrying, GivingUp, BeingRefused, NotReading
  <1>3. CASE ExecuteLate
    BY <1>3, ExecutingLate
  <1>4. CASE Trash
    BY <1>4, Trashing
  <1>5. QED
    BY <1>1, <1>2, <1>3, <1>4 DEF Next

(* It holds at the start. *)
LEMMA InitInv ==
    ASSUME Init
    PROVE  IInv
  <1>1. /\ folders \in {<<>>, <<"live">>} /\ made \in Nat
        /\ folders = <<>> => made = 0
        /\ files \in [1 .. made -> [id : Id, name : Key, folder : {1}, data : Data]]
        /\ \A i \in DOMAIN files : files[i].id = i
        /\ legacy \in [Key -> Data \cup {None}]
    BY DEF Init
  <1>2. folders \in Seq({"live", "trashed"}) /\ (made # 0 => 1 \in FolderId)
    <2>1. CASE folders = <<>>
      BY <1>1, <2>1
    <2>2. CASE folders = <<"live">>
      BY <2>2 DEF FolderId
    <2>3. QED
      BY <1>1, <2>1, <2>2
  <1>3. [id : Id, name : Key, folder : {1}, data : Data] \subseteq File
    BY DEF File, Id
  <1>4. files \in Seq(File) /\ Len(files) = made /\ DOMAIN files = 1 .. made
    <2>1. files \in [1 .. made -> File] /\ DOMAIN files = 1 .. made
      BY <1>1, <1>3
    <2> HIDE DEF File
    <2>2. files \in Seq(File)
      BY <1>1, <2>1, SeqDef
    <2>3. Len(files) = made
      BY <1>1, <2>1, <2>2
    <2>4. QED
      BY <2>1, <2>2, <2>3
  <1>5. DriveGood
    <2>1. \A i \in 1 .. Len(files) : /\ files[i].id = i /\ files[i].id \in Id
                                     /\ files[i].folder = 1
      BY <1>1, <1>4
    <2>2. \A i \in 1 .. Len(files) : files[i].folder \in FolderId
      BY <1>1, <1>2, <1>4, <2>1
    <2>3. QED
      BY <1>1, <1>2, <1>4, <2>1, <2>2 DEF DriveGood
  <1>6. Idle \in CallState
    BY DriveAssumption DEF Idle, CallState, Step
  <1>7. dev = [d \in Device |-> Idle] /\ faults = 0 /\ orphans = {}
    BY DEF Init
  <1>8. \A d \in Device : CallGood(d)
    BY <1>7 DEF CallGood, OperandsFit, PlacesKnown, CopiesWhatWas, Idle, OnFile, OnHit,
                InFolder
  <1>9. QED
    BY <1>5, <1>6, <1>7, <1>8 DEF IInv

LEMMA AlwaysInv == Spec => []IInv
  <1>1. Init => IInv
    BY InitInv
  <1>2. IInv /\ [Next]_vars => IInv'
    BY StepKeepsInv
  <1>3. QED
    BY <1>1, <1>2, PTL DEF Spec

(* As many ids as files. *)
LEMMA IdsCounted ==
    ASSUME DriveGood
    PROVE  Cardinality(FileIds) = Len(files)
  <1> DEFINE n == Len(files)
             f == [i \in 1 .. n |-> files[i].id]
  <1>1. n \in Nat /\ DOMAIN files = 1 .. n
    BY DEF DriveGood
  <1>2. f \in [1 .. n -> FileIds]
    BY <1>1 DEF FileIds
  <1>3. \A i, j \in 1 .. n : f[i] = f[j] => i = j
    BY DEF DriveGood
  <1>4. \A id \in FileIds : \E i \in 1 .. n : f[i] = id
    BY <1>1 DEF FileIds
  <1> HIDE DEF f
  <1>5. f \in Bijection(1 .. n, FileIds)
    BY <1>2, <1>3, <1>4, Fun_IsBij
  <1>6. ExistsBijection(1 .. n, FileIds)
    BY <1>5, Fun_ExistsBij
  <1>7. QED
    BY <1>1, <1>6, FS_CountingElements

(* The invariant is more than the types. *)
LEMMA InvImpliesTypes ==
    ASSUME IInv
    PROVE  TypeOK
  <1>1. DriveGood /\ dev \in [Device -> CallState] /\ \A d \in Device : CallGood(d)
    BY DEF IInv
  <1>2. files \in Seq([id : Id, name : Key, folder : FolderId, data : Data])
    <2> DEFINE Held == [id : Id, name : Key, folder : FolderId, data : Data]
               n == Len(files)
    <2>1. n \in Nat /\ files \in [1 .. n -> File]
      BY <1>1 DEF DriveGood
    <2>2. \A i \in 1 .. n : files[i] \in Held
      BY <1>1, <2>1 DEF DriveGood, File
    <2> HIDE DEF Held
    <2>3. files \in [1 .. n -> Held]
      BY <2>1, <2>2
    <2> HIDE DEF n
    <2>4. files \in Seq(Held)
      BY <2>1, <2>3, SeqDef
    <2>5. QED
      BY <2>4 DEF Held
  <1>3. folders \in Seq({"live", "trashed"}) /\ legacy \in [Key -> Data \cup {None}]
    BY <1>1 DEF DriveGood
  <1>4. Cardinality(FileIds) = Len(files)
    BY <1>1, IdsCounted
  <1>5. ASSUME NEW d \in Device
        PROVE  /\ dev[d].pc \in Step /\ dev[d].call \in Call \cup {None}
               /\ (dev[d].pc = "idle") = (dev[d].call = None)
               /\ (dev[d].pc = "done") = (dev[d].answer # None)
               /\ dev[d].attempt \in 1 .. MAX_ATTEMPTS
               /\ {dev[d].cache, dev[d].folder} \subseteq FolderId \cup {None}
               /\ dev[d].key \in Key \cup {None} /\ dev[d].todo \subseteq Key
               /\ dev[d].hit \in Id \cup {None}
               /\ {dev[d].buf, dev[d].fields} \subseteq Data \cup {None}
    <2>1. dev[d] \in CallState /\ CallGood(d)
      BY <1>1
    <2>2. /\ dev[d].pc \in Step /\ dev[d].call \in Call \cup {None}
          /\ dev[d].attempt \in 1 .. MAX_ATTEMPTS
          /\ dev[d].key \in Key \cup {None} /\ dev[d].todo \subseteq Key
          /\ {dev[d].buf, dev[d].fields} \subseteq Data \cup {None}
      BY <2>1 DEF CallState
    <2>3. /\ (dev[d].pc = "idle") = (dev[d].call = None)
          /\ (dev[d].pc = "done") = (dev[d].answer # None)
      BY <2>1 DEF CallGood
    <2>4. /\ {dev[d].cache, dev[d].folder} \subseteq FolderId \cup {None}
          /\ dev[d].hit \in Id \cup {None}
      BY <2>1 DEF CallGood, PlacesKnown
    <2>5. QED
      BY <2>2, <2>3, <2>4
  <1>6. QED
    BY <1>2, <1>3, <1>4, <1>5 DEF TypeOK

(* Type correctness: Drive holds well-formed files with ids of their own,   *)
(* and every call knows what its step needs.                               *)
THEOREM TypeCorrect == Spec => []TypeOK
  <1>1. IInv => TypeOK
    BY InvImpliesTypes
  <1>2. QED
    BY <1>1, AlwaysInv, PTL

-----------------------------------------------------------------------------
(* What leaves the old place was written: its call knew, or its request.   *)
LEMMA LegacyStep ==
    ASSUME IInv, [Next]_vars, NEW k \in Key, legacy'[k] # legacy[k]
    PROVE  <<k, legacy[k]>> \in written
  <1>1. ASSUME NEW r, RequestGood(r), Execute(r)
        PROVE  <<k, legacy[k]>> \in written
    <2>1. /\ r.kind = "drop" /\ legacy[r.name] # None
          /\ legacy' = [legacy EXCEPT ![r.name] = None]
      BY <1>1 DEF Execute, MakeFolder
    <2>2. k = r.name
      BY <2>1 DEF IInv, DriveGood
    <2>3. QED
      BY <1>1, <2>1, <2>2 DEF RequestGood, Copied
  <1>2. ASSUME NEW d \in Device, Patch(d) \/ Create(d) \/ Remove(d) \/ Drop(d)
        PROVE  <<k, legacy[k]>> \in written
    <2>1. PICK r \in Request(d) : Execute(r)
      BY <1>2 DEF Patch, Create, Remove, Drop, drive
    <2>2. QED
      BY <1>1, <2>1, RequestFits
  <1>3. CASE ExecuteLate
    BY <1>1, <1>3 DEF ExecuteLate, IInv
  <1>4. ASSUME NEW d \in Device,
               \/ Begin(d) \/ CheckCached(d) \/ Search(d) \/ Mkdir(d)
               \/ Find(d) \/ Fields(d) \/ Get(d)
               \/ List(d) \/ ListLegacy(d) \/ NextLegacy(d) \/ Fetch(d) \/ Return(d)
               \/ Retry(d) \/ GiveUp(d) \/ SearchRefused(d) \/ MkdirUnread(d)
        PROVE  FALSE
    BY <1>4 DEF Begin, CheckCached, Search, Mkdir, Find, Fields, Get, List, ListLegacy,
                NextLegacy, Fetch, Return, Retry, GiveUp, SearchRefused, MkdirUnread,
                MakeFolder, Reads, drive
  <1>5. CASE Trash
    BY <1>5 DEF Trash
  <1>6. CASE UNCHANGED vars
    BY <1>6 DEF vars, drive
  <1>7. QED
    BY <1>2, <1>3, <1>4, <1>5, <1>6 DEF Next

(* The migration empties the old place only of what the folder got before:  *)
(* whatever fails, is retried or executes late (migrate_from_appdata).      *)
THEOREM NothingIsLostInMigration == Spec => LegacyCopiedFirst
  <1>1. IInv /\ [Next]_vars =>
          [\A k \in Key : legacy'[k] # legacy[k] => <<k, legacy[k]>> \in written]_legacy
    BY LegacyStep
  <1>2. QED
    BY <1>1, AlwaysInv, PTL DEF Spec, LegacyCopiedFirst
-----------------------------------------------------------------------------
(* Only a search that found nothing, or was refused, leads to a new folder. *)
LEMMA LeadsToMkdir ==
    ASSUME IInv, [Next]_vars, faults' = 0, NEW d \in Device, dev'[d].pc = "mkdir"
    PROVE  dev[d].pc = "mkdir" \/ (dev[d].pc = "search" /\ Live = {})
  <1>1. dev \in [Device -> CallState] /\ dev[d] \in CallState
    BY DEF IInv
  <1>2. ~Fault
    BY DEF Fault, IInv
  <1>3. ASSUME NEW e \in Device, NEW s, Move(e, s), e # d
        PROVE  dev[d].pc = "mkdir"
    BY <1>1, <1>3 DEF Move
  <1>4. ASSUME NEW e \in Device, e # d,
               \/ Begin(e) \/ CheckCached(e) \/ Search(e) \/ Mkdir(e)
               \/ Find(e) \/ Patch(e) \/ Create(e) \/ Fields(e) \/ Get(e) \/ Remove(e)
               \/ List(e) \/ ListLegacy(e) \/ NextLegacy(e) \/ Fetch(e) \/ Drop(e)
               \/ Return(e)
        PROVE  dev[d].pc = "mkdir"
    <2>1. \E s : Move(e, s)
      BY <1>4 DEF Begin, CheckCached, Search, Mkdir, Find, Patch, Create, Fields, Get,
                  Remove, List, ListLegacy, NextLegacy, Fetch, Drop, Return, Stored,
                  Failed, Finish, Goto, EnterFolder
    <2>2. QED
      BY <1>3, <1>4, <2>1
  <1>5. ASSUME NEW id, EnterFolder(d, id)
        PROVE  FALSE
    BY <1>1, <1>5 DEF EnterFolder, Move, CallState
  <1>6. ASSUME NEW a, Finish(d, a)
        PROVE  FALSE
    BY <1>1, <1>6 DEF Finish, Move, CallState
  <1>7. ASSUME NEW pc, Goto(d, pc)
        PROVE  pc = "mkdir"
    BY <1>1, <1>7 DEF Goto, Move, CallState
  <1>8. CASE Failed(d)
    <2>1. CASE Move(d, [dev[d] EXCEPT !.pc = "next", !.buf = None])
      BY <1>1, <2>1 DEF Move, CallState
    <2>2. QED
      BY <1>6, <1>7, <1>8, <2>1 DEF Failed
  <1>9. CASE Stored(d)
    BY <1>6, <1>7, <1>9 DEF Stored
  <1>10. CASE Search(d)
    BY <1>5, <1>7, <1>10 DEF Search
  <1>11. CASE CheckCached(d) \/ Mkdir(d) \/ Patch(d) \/ Create(d) \/ Remove(d) \/ List(d)
    <2>1. CASE CheckCached(d) \/ Mkdir(d)
      BY <1>5, <1>7, <2>1 DEF CheckCached, Mkdir
    <2>2. CASE Patch(d) \/ Create(d) \/ Remove(d) \/ List(d)
      BY <1>6, <1>8, <1>9, <2>2 DEF Patch, Create, Remove, List
    <2>3. QED
      BY <1>11, <2>1, <2>2
  <1>12. CASE Begin(d)
    <2>1. PICK c \in Call, cache \in {dev[d].cache, None} :
            Move(d, [Idle EXCEPT !.call = c, !.cache = cache,
                       !.pc = IF cache = None THEN "search" ELSE "check"])
      BY <1>12 DEF Begin
    <2>2. dev'[d].pc = IF cache = None THEN "search" ELSE "check"
      BY <1>1, <2>1 DEF Move, Idle
    <2>3. QED
      BY <2>2
  <1>13. CASE Return(d)
    BY <1>1, <1>13 DEF Return, Move, Idle
  <1>14. CASE Find(d)
    <2> DEFINE id == files[Newest(Hits({dev[d].folder}, dev[d].key))].id
               pc == CASE dev[d].call.op \in {"upload", "migrate"} -> "patch"
                       [] dev[d].call.op = "download" -> "get"
                       [] dev[d].call.op = "metadata" -> "fields"
                       [] dev[d].call.op = "delete"   -> "remove"
    <2>1. CASE Move(d, [dev[d] EXCEPT !.hit = id, !.pc = pc])
      <3>1. dev[d].call.op \in {"upload", "download", "metadata", "delete", "migrate"}
        BY <1>1, <1>14
        DEF Find, IInv, CallGood, OperandsFit, CallState, Call, Upload, OnKey
      <3>2. pc \in {"patch", "get", "fields", "remove"}
        BY <3>1
      <3> HIDE DEF pc, id
      <3>3. dev'[d].pc = pc
        BY <1>1, <2>1 DEF Move, CallState
      <3>4. QED
        BY <3>2, <3>3
    <2>2. CASE ~Move(d, [dev[d] EXCEPT !.hit = id, !.pc = pc])
      <3>1. \/ Goto(d, "next") \/ Goto(d, "create") \/ Goto(d, "fetch")
            \/ Finish(d, [kind |-> "notFound"])
        BY <1>14, <2>2 DEF Find
      <3>2. QED
        BY <1>6, <1>7, <3>1
    <2>3. QED
      BY <2>1, <2>2
  <1>15. CASE Fields(d) \/ Get(d) \/ ListLegacy(d) \/ NextLegacy(d) \/ Fetch(d) \/ Drop(d)
    <2>1. CASE Fields(d)
      BY <1>1, <1>8, <2>1 DEF Fields, Move, CallState
    <2>2. CASE Get(d)
      BY <1>6, <1>8, <2>2 DEF Get
    <2>3. CASE ListLegacy(d)
      BY <1>1, <1>6, <2>3 DEF ListLegacy, Move, CallState
    <2>4. CASE NextLegacy(d)
      <3>1. ASSUME NEW k, NEW left,
                   Move(d, [dev[d] EXCEPT !.pc = "find", !.key = k, !.buf = None,
                              !.todo = left])
            PROVE  FALSE
        BY <1>1, <3>1 DEF Move, CallState
      <3>2. CASE Finish(d, Ok)
        BY <1>6, <3>2
      <3>3. QED
        BY <2>4, <3>1, <3>2 DEF NextLegacy
    <2>5. CASE Fetch(d)
      BY <1>1, <1>8, <2>5 DEF Fetch, Move, CallState
    <2>6. CASE Drop(d)
      BY <1>1, <2>6 DEF Drop, Move, CallState
    <2>7. QED
      BY <1>15, <2>1, <2>2, <2>3, <2>4, <2>5, <2>6
  <1>16. CASE dev' = dev
    BY <1>16
  <1>17. QED
    <2>1. \A e \in Device : ~Retry(e) /\ ~GiveUp(e) /\ ~SearchRefused(e) /\ ~MkdirUnread(e)
      BY <1>2 DEF Retry, GiveUp, SearchRefused, MkdirUnread
    <2>2. ~Trash
      BY <1>2 DEF Trash
    <2>3. UNCHANGED vars \/ ExecuteLate => dev' = dev
      BY DEF vars, ExecuteLate
    <2>4. QED
      BY <1>4, <1>10, <1>11, <1>12, <1>13, <1>14, <1>15, <1>16, <2>1, <2>2, <2>3
      DEF Next

(* While nothing fails, no folder goes away. *)
LEMMA FoldersStay ==
    ASSUME IInv, [Next]_vars, faults' = 0
    PROVE  Live \subseteq Live'
  <1>1. folders \in Seq({"live", "trashed"})
    BY DEF IInv, DriveGood
  <1>2. ~Trash
    <2>1. Trash => faults' = faults + 1
      BY DEF Trash, Fault
    <2>2. faults \in Nat
      BY DEF IInv
    <2>3. QED
      BY ONLY <2>1, <2>2, faults' = 0
  <1>3. folders' = folders \/ folders' = Append(folders, "live")
    <2>1. \A r : Execute(r) => folders' = folders \/ folders' = Append(folders, "live")
      BY DEF Execute, MakeFolder
    <2>2. ASSUME NEW d \in Device,
                 \/ Begin(d) \/ CheckCached(d) \/ Search(d) \/ Find(d) \/ Fields(d)
                 \/ Get(d) \/ List(d) \/ ListLegacy(d) \/ NextLegacy(d) \/ Fetch(d)
                 \/ Return(d) \/ Retry(d) \/ GiveUp(d) \/ SearchRefused(d)
          PROVE  folders' = folders
      BY <2>2
      DEF Begin, CheckCached, Search, Find, Fields, Get, List, ListLegacy, NextLegacy,
          Fetch, Return, Retry, GiveUp, SearchRefused, Reads, drive
    <2>3. ASSUME NEW d \in Device,
                 \/ Mkdir(d) \/ Patch(d) \/ Create(d) \/ Remove(d) \/ Drop(d)
                 \/ MkdirUnread(d)
          PROVE  folders' = folders \/ folders' = Append(folders, "live")
      BY <2>1, <2>3 DEF Mkdir, Patch, Create, Remove, Drop, MkdirUnread, MakeFolder, drive
    <2>4. ExecuteLate => folders' = folders \/ folders' = Append(folders, "live")
      BY <2>1 DEF ExecuteLate
    <2>5. UNCHANGED vars => folders' = folders
      BY DEF vars, drive
    <2>6. QED
      BY <1>2, <2>2, <2>3, <2>4, <2>5 DEF Next
  <1>4. CASE folders' = folders
    BY <1>4 DEF Live, FolderId
  <1>5. CASE folders' = Append(folders, "live")
    BY <1>1, <1>5 DEF Live, FolderId
  <1>6. QED
    BY <1>3, <1>4, <1>5

(* Known folders stay, and whoever knows one makes none. *)
LEMMA KnownStep ==
    ASSUME IInv, KnownInv, [Next]_vars
    PROVE  KnownInv'
  <1>1. CASE UNCHANGED vars
    <2>1. UNCHANGED <<folders, dev, faults, known>>
      BY <1>1 DEF vars, drive, history
    <2>2. QED
      BY <2>1 DEF KnownInv, Live, FolderId
  <1>2. CASE Next
    <2> SUFFICES ASSUME faults' = 0, NEW d \in Device
                 PROVE  /\ known'[d] \subseteq Live'
                        /\ dev'[d].pc = "mkdir" => known'[d] = {}
      BY DEF KnownInv
    <2>1. Remember
      BY <1>2
      DEF Next, Begin, CheckCached, Search, Mkdir, Find, Patch, Create, Fields, Get,
          Remove, List, ListLegacy, NextLegacy, Fetch, Drop, Return, Retry, GiveUp,
          SearchRefused, MkdirUnread, ExecuteLate, Trash, Reads, Changes
    <2>2. known'[d] = IF dev'[d].pc \in {"check", "search", "mkdir"}
                        THEN IF dev[d].call = None THEN Live ELSE known[d]
                        ELSE {}
      BY <2>1 DEF Remember
    <2>3. faults = 0
      <3>1. faults' = faults \/ faults' = faults + 1
        BY <1>2
        DEF Next, Begin, CheckCached, Search, Mkdir, Find, Patch, Create, Fields, Get,
            Remove, List, ListLegacy, NextLegacy, Fetch, Drop, Return, Retry, GiveUp,
            SearchRefused, MkdirUnread, ExecuteLate, Trash, Reads, Changes, Fault
      <3>2. QED
        BY <3>1 DEF IInv
    <2>4. known[d] \subseteq Live /\ (dev[d].pc = "mkdir" => known[d] = {})
      BY <2>3 DEF KnownInv
    <2>5. Live \subseteq Live'
      BY FoldersStay
    <2>6. ASSUME dev'[d].pc = "mkdir"
          PROVE  known'[d] = {}
      <3>1. dev[d].pc = "mkdir" \/ (dev[d].pc = "search" /\ Live = {})
        BY <2>6, LeadsToMkdir
      <3>2. dev[d].call # None
        BY <3>1 DEF IInv, CallGood
      <3>3. QED
        BY <2>2, <2>4, <2>6, <3>1, <3>2
    <2>7. QED
      BY <2>2, <2>4, <2>5, <2>6
  <1>3. QED
    BY <1>1, <1>2

(* A second folder is made beside one that was there when the call began    *)
(* only if a request failed before (ensure_folder).                        *)
THEOREM OneFolderUnlessFailed == Spec => SecondFolderNeedsFault
  <1>1. Init => KnownInv
    BY DEF Init, KnownInv, Idle
  <1>2. IInv /\ KnownInv /\ [Next]_vars => KnownInv'
    BY KnownStep
  <1>3. IInv /\ KnownInv =>
          [\A d \in Device :
             dev[d].pc = "mkdir" /\ dev'[d].pc = "find" /\ Live \cap known[d] # {}
               => faults > 0]_vars
    BY DEF IInv, KnownInv
  <1>4. QED
    BY <1>1, <1>2, <1>3, AlwaysInv, PTL DEF Spec, SecondFolderNeedsFault
-----------------------------------------------------------------------------
(* What the store shows.  A map between hits that keeps their order leads   *)
(* from the newest to the newest.                                          *)
LEMMA LeastMoves ==
    ASSUME NEW H \in SUBSET Nat, NEW G \in SUBSET Nat, NEW m,
           \A i \in H : m[i] \in G,
           \A g \in G : \E i \in H : m[i] = g,
           \A i, j \in H : i <= j => m[i] <= m[j]
    PROVE  /\ H = {} <=> G = {}
           /\ H # {} => m[Newest(H)] = Newest(G)
  <1>1. H = {} <=> G = {}
    OBVIOUS
  <1>2. ASSUME H # {}
        PROVE  m[Newest(H)] = Newest(G)
    <2>1. Newest(H) \in H /\ \A j \in H : Newest(H) <= j
      BY <1>2, NewestIsAHit
    <2>2. Newest(G) \in G /\ \A j \in G : Newest(G) <= j
      BY <1>1, <1>2, NewestIsAHit
    <2> DEFINE h == Newest(H)
               n == Newest(G)
    <2> HIDE DEF h, n
    <2>3. h \in H /\ (\A j \in H : h <= j) /\ n \in G /\ \A j \in G : n <= j
      BY <2>1, <2>2 DEF h, n
    <2>4. PICK i \in H : m[i] = n
      BY <2>3
    <2>5. m[h] <= m[i] /\ n <= m[h]
      BY <2>3
    <2>6. m[h] \in Nat /\ n \in Nat
      BY <2>3
    <2>7. m[h] = n
      BY <2>4, <2>5, <2>6
    <2>8. QED
      BY <2>7 DEF h, n
  <1>3. QED
    BY <1>1, <1>2

(* What the store shows of a key, now and next. *)
LEMMA Entry ==
    ASSUME NEW k \in Key
    PROVE  /\ Hits(Live, k) = {} => Store[k] = None
           /\ Hits(Live, k) # {} => Store[k] = files[Newest(Hits(Live, k))].data
  BY DEF Store

LEMMA EntryNext ==
    ASSUME NEW k \in Key
    PROVE  /\ Hits(Live, k)' = {} => Store'[k] = None
           /\ Hits(Live, k)' # {} => Store'[k] = files'[Newest(Hits(Live, k)')].data
  BY DEF Store

(* If the hits only move, keeping their order, the entry stays. *)
LEMMA SameEntry ==
    ASSUME DriveGood, DriveGood', NEW k \in Key, NEW m,
           \A i \in Hits(Live, k)' : /\ m[i] \in Hits(Live, k)
                                     /\ files'[i].data = files[m[i]].data,
           \A g \in Hits(Live, k) : \E i \in Hits(Live, k)' : m[i] = g,
           \A i, j \in Hits(Live, k)' : i <= j => m[i] <= m[j]
    PROVE  Store'[k] = Store[k]
  <1> DEFINE H == Hits(Live, k)'
             G == Hits(Live, k)
  <1>1. H \in SUBSET Nat /\ G \in SUBSET Nat
    BY DEF Hits, DriveGood
  <1>2. /\ \A i \in H : m[i] \in G /\ files'[i].data = files[m[i]].data
        /\ \A g \in G : \E i \in H : m[i] = g
        /\ \A i, j \in H : i <= j => m[i] <= m[j]
    OBVIOUS
  <1>3. /\ H = {} => Store'[k] = None
        /\ H # {} => Store'[k] = files'[Newest(H)].data
        /\ G = {} => Store[k] = None
        /\ G # {} => Store[k] = files[Newest(G)].data
    BY Entry, EntryNext
  <1> HIDE DEF H, G
  <1>4. (H = {} <=> G = {}) /\ (H # {} => m[Newest(H)] = Newest(G))
    BY <1>1, <1>2, LeastMoves
  <1>5. H # {} => Newest(H) \in H
    BY <1>1, NewestIsAHit
  <1>6. QED
    BY <1>2, <1>3, <1>4, <1>5

(* The store of a name depends on the files alone that are shown under it. *)
LEMMA EntriesAre ==
    ASSUME DriveGood, NEW k \in Key
    PROVE  Store[k] \in Data \cup {None} /\ (Store[k] = None <=> Hits(Live, k) = {})
  <1>1. CASE Hits(Live, k) = {}
    BY <1>1, Entry
  <1>2. CASE Hits(Live, k) # {}
    <2> DEFINE i == Newest(Hits(Live, k))
    <2>1. files[i] \in File
      BY <1>2, Found
    <2> HIDE DEF i
    <2>2. files[i].data \in Data
      BY <2>1 DEF File
    <2>3. Store[k] = files[i].data
      BY <1>2, Entry DEF i
    <2>4. QED
      BY <1>2, <2>2, <2>3, DriveAssumption
  <1>3. QED
    BY <1>1, <1>2

(* One file is gone: only its name can show something else. *)
LEMMA RemovedShows ==
    ASSUME DriveGood, DriveGood', UNCHANGED folders,
           NEW id \in FileIds, files' = Without(id), NEW k \in Key,
           At(id) \notin Hits(Live, k)
    PROVE  Store'[k] = Store[k]
  <1> DEFINE a == At(id)
             t == Without(id)
             n == Len(files)
             m == [i \in 1 .. n |-> IF i < a THEN i ELSE i + 1]
  <1>1. n \in Nat /\ DOMAIN files = 1 .. n
    BY DEF DriveGood
  <1>2. /\ a \in 1 .. n /\ Len(t) = n - 1 /\ t \in Seq(File)
        /\ \A j \in 1 .. Len(t) : t[j] = files[IF j < a THEN j ELSE j + 1]
    BY WithoutFile
  <1>3. files' = t /\ DOMAIN files' = 1 .. (n - 1) /\ Live' = Live
    BY <1>1, <1>2 DEF Live, FolderId
  <1>4. a \notin Hits(Live, k)
    OBVIOUS
  <1> HIDE DEF a, t, n
  <1>5. \A i \in 1 .. (n - 1) :
          /\ m[i] = IF i < a THEN i ELSE i + 1
          /\ m[i] \in 1 .. n /\ files'[i] = files[m[i]]
    BY <1>1, <1>2, <1>3
  <1>6. \A i, j \in 1 .. (n - 1) : i <= j => m[i] <= m[j]
    BY <1>1, <1>2, <1>5
  <1>7. ASSUME NEW g \in 1 .. n, g # a
        PROVE  \E i \in 1 .. (n - 1) : m[i] = g
    <2>1. CASE g < a
      <3>1. g \in 1 .. (n - 1) /\ m[g] = g
        BY <1>1, <1>2, <1>5, <2>1
      <3>2. QED
        BY <3>1
    <2>2. CASE ~(g < a)
      <3>1. g - 1 \in 1 .. (n - 1) /\ ~(g - 1 < a)
        BY <1>1, <1>2, <1>7, <2>2
      <3>2. m[g - 1] = g
        BY <1>1, <1>5, <3>1
      <3>3. QED
        BY <3>1, <3>2
    <2>3. QED
      BY <2>1, <2>2
  <1>8. /\ Hits(Live, k)' =
             {i \in 1 .. (n - 1) : files'[i].folder \in Live /\ files'[i].name = k}
        /\ Hits(Live, k) =
             {i \in 1 .. n : files[i].folder \in Live /\ files[i].name = k}
    BY <1>1, <1>3 DEF Hits
  <1> HIDE DEF m
  <1>9. \A i \in Hits(Live, k)' : /\ m[i] \in Hits(Live, k)
                                  /\ files'[i].data = files[m[i]].data
    BY <1>5, <1>8
  <1>10. ASSUME NEW g \in Hits(Live, k)
         PROVE  \E i \in Hits(Live, k)' : m[i] = g
    <2>1. g \in 1 .. n /\ g # a
      BY <1>4, <1>8
    <2>2. PICK i \in 1 .. (n - 1) : m[i] = g
      BY <1>7, <2>1
    <2>3. i \in Hits(Live, k)'
      BY <1>5, <1>8, <2>2
    <2>4. QED
      BY <2>2, <2>3
  <1>11. \A i, j \in Hits(Live, k)' : i <= j => m[i] <= m[j]
    BY <1>6, <1>8
  <1>12. QED
    BY <1>9, <1>10, <1>11, SameEntry

(* A file in front is what its name shows. *)
LEMMA FrontShows ==
    ASSUME DriveGood', NEW k \in Key, 1 \in Hits(Live, k)'
    PROVE  Store'[k] = files'[1].data
  <1> DEFINE H == Hits(Live, k)'
  <1>1. H \in SUBSET Nat /\ 1 \in H /\ \A j \in H : 1 <= j
    BY DEF Hits, DriveGood
  <1>2. H # {} => Store'[k] = files'[Newest(H)].data
    BY EntryNext
  <1> HIDE DEF H
  <1>3. Newest(H) \in H /\ Newest(H) <= 1
    BY <1>1, NewestIsAHit
  <1>4. Newest(H) = 1
    <2>1. Newest(H) \in Nat /\ 1 <= Newest(H)
      BY <1>1, <1>3
    <2>2. QED
      BY <1>3, <2>1
  <1>5. QED
    BY <1>1, <1>2, <1>4

(* One file is patched: its name shows the new data, if its folder is there. *)
LEMMA PatchedShows ==
    ASSUME DriveGood, DriveGood', UNCHANGED folders,
           NEW id \in FileIds, NEW v \in Data,
           files' = <<[FileWith(id) EXCEPT !.data = v]>> \o Without(id),
           NEW k \in Key
    PROVE  Store'[k] = IF At(id) \in Hits(Live, k) THEN v ELSE Store[k]
  <1> DEFINE a == At(id)
             t == Without(id)
             n == Len(files)
             H == Hits(Live, k)'
             G == Hits(Live, k)
             f == [FileWith(id) EXCEPT !.data = v]
             m == [i \in 2 .. n |-> IF i - 1 < a THEN i - 1 ELSE i]
  <1>1. n \in Nat /\ DOMAIN files = 1 .. n /\ files \in Seq(File)
    BY DEF DriveGood
  <1>2. /\ a \in 1 .. n /\ Len(t) = n - 1 /\ t \in Seq(File)
        /\ \A j \in 1 .. Len(t) : t[j] = files[IF j < a THEN j ELSE j + 1]
    BY WithoutFile
  <1>3. files[a] \in File
    BY <1>1, <1>2
  <1>4. f \in File /\ f.name = files[a].name /\ f.folder = files[a].folder /\ f.data = v
    BY <1>3 DEF FileWith, File
  <1>5. files' = <<f>> \o t /\ Live' = Live
    BY DEF Live, FolderId
  <1>6. a \in G <=> a \in 1 .. n /\ files[a].folder \in Live /\ files[a].name = k
    BY <1>1 DEF Hits
  <1>7. (At(id) \in Hits(Live, k)) <=> a \in G
    OBVIOUS
  <1> HIDE DEF a, t, f, n
  <1>8. /\ Len(files') = n /\ files'[1] = f
        /\ \A j \in 2 .. n : j - 1 \in 1 .. (n - 1) /\ files'[j] = t[j - 1]
    <2>1. /\ <<f>> \o t \in Seq(File) /\ Len(<<f>> \o t) = Len(t) + 1
          /\ (<<f>> \o t)[1] = f
          /\ \A j \in 2 .. Len(<<f>> \o t) :
               j - 1 \in 1 .. Len(t) /\ (<<f>> \o t)[j] = t[j - 1]
      BY ONLY <1>2, <1>4, InFront
    <2>2. Len(t) + 1 = n
      BY <1>1, <1>2
    <2>3. QED
      BY ONLY <1>2, <1>5, <2>1, <2>2
  <1>9. DOMAIN files' = 1 .. n
    BY <1>8 DEF DriveGood
  <1>10. /\ H \subseteq 1 .. n /\ G \subseteq 1 .. n
         /\ \A i \in 1 .. n :
              /\ i \in H <=> files'[i].folder \in Live /\ files'[i].name = k
              /\ i \in G <=> files[i].folder \in Live /\ files[i].name = k
    BY <1>1, <1>5, <1>9 DEF Hits
  <1> HIDE DEF H, G
  <1>11. CASE a \in G
    <2>1. 1 \in H
      <3>1. 1 \in 1 .. n
        BY <1>1, <1>2
      <3>2. f.folder \in Live /\ f.name = k
        BY <1>4, <1>6, <1>11
      <3>3. 1 \in H <=> files'[1].folder \in Live /\ files'[1].name = k
        BY <1>10, <3>1
      <3>4. QED
        BY <1>8, <3>2, <3>3
    <2>2. QED
      BY <1>4, <1>7, <1>8, <1>11, <2>1, FrontShows DEF H
  <1>12. CASE a \notin G
    <2>1. 1 \notin H
      <3>1. 1 \in 1 .. n
        BY <1>1, <1>2
      <3>2. ~(f.folder \in Live /\ f.name = k)
        BY <1>2, <1>4, <1>10, <1>12
      <3>3. 1 \in H <=> files'[1].folder \in Live /\ files'[1].name = k
        BY <1>10, <3>1
      <3>4. QED
        BY <1>8, <3>2, <3>3
    <2>2. ASSUME NEW i \in 2 .. n
          PROVE  /\ m[i] = IF i - 1 < a THEN i - 1 ELSE i
                 /\ m[i] \in 1 .. n /\ files'[i] = files[m[i]]
      <3>1. m[i] = IF i - 1 < a THEN i - 1 ELSE i
        OBVIOUS
      <3>2. i - 1 \in 1 .. (n - 1) /\ files'[i] = t[i - 1]
        BY <1>8
      <3>3. t[i - 1] = files[IF i - 1 < a THEN i - 1 ELSE (i - 1) + 1]
        BY <1>2, <3>2
      <3>4. (i - 1) + 1 = i
        OBVIOUS
      <3>5. m[i] \in 1 .. n
        BY <1>1, <1>2, <3>1, <3>2
      <3>6. QED
        BY <3>1, <3>2, <3>3, <3>4, <3>5
    <2>3. \A i, j \in 2 .. n : i <= j => m[i] <= m[j]
      BY <1>1, <1>2, <2>2
    <2>4. ASSUME NEW g \in 1 .. n, g # a
          PROVE  \E i \in 2 .. n : m[i] = g
      <3>1. CASE g < a
        <4>1. g + 1 \in 2 .. n /\ (g + 1) - 1 < a /\ (g + 1) - 1 = g
          BY <1>1, <1>2, <3>1
        <4>2. m[g + 1] = g
          BY <2>2, <4>1
        <4>3. QED
          BY <4>1, <4>2
      <3>2. CASE ~(g < a)
        <4>1. g \in 2 .. n /\ ~(g - 1 < a)
          BY <1>1, <1>2, <2>4, <3>2
        <4>2. m[g] = g
          BY <2>2, <4>1
        <4>3. QED
          BY <4>1, <4>2
      <3>3. QED
        BY <3>1, <3>2
    <2> HIDE DEF m
    <2>5. H \subseteq 2 .. n
      BY <1>1, <1>10, <2>1
    <2>6. \A i \in H : /\ m[i] \in G
                       /\ files'[i].data = files[m[i]].data
      <3>1. SUFFICES ASSUME NEW i \in H
                     PROVE  m[i] \in G /\ files'[i].data = files[m[i]].data
        OBVIOUS
      <3>2. i \in 2 .. n /\ i \in 1 .. n
        BY <1>10, <2>5
      <3>3. m[i] \in 1 .. n /\ files'[i] = files[m[i]]
        BY <2>2, <3>2
      <3>4. files'[i].folder \in Live /\ files'[i].name = k
        BY <1>10, <3>2
      <3>5. m[i] \in G
        BY <1>10, <3>3, <3>4
      <3>6. QED
        BY <3>3, <3>5
    <2>7. ASSUME NEW g \in G
          PROVE  \E i \in H : m[i] = g
      <3>1. g \in 1 .. n /\ g # a
        BY <1>10, <1>12
      <3>2. PICK i \in 2 .. n : m[i] = g
        BY <2>4, <3>1
      <3>3. i \in 1 .. n
        BY <1>1
      <3>4. files'[i] = files[g]
        BY <2>2, <3>2
      <3>5. i \in H
        BY <1>10, <3>1, <3>3, <3>4
      <3>6. QED
        BY <3>2, <3>5
    <2>8. \A i, j \in H : i <= j => m[i] <= m[j]
      BY <2>3, <2>5
    <2>9. Store'[k] = Store[k]
      BY <2>6, <2>7, <2>8, SameEntry DEF H, G
    <2>10. QED
      BY <1>7, <1>12, <2>9
  <1>13. QED
    BY <1>11, <1>12

(* One file more: its name shows its data, if its folder is there. *)
LEMMA CreatedShows ==
    ASSUME DriveGood, DriveGood', UNCHANGED folders,
           NEW f \in File, files' = <<f>> \o files, NEW k \in Key
    PROVE  Store'[k] = IF f.folder \in Live /\ f.name = k THEN f.data ELSE Store[k]
  <1> DEFINE n == Len(files)
             H == Hits(Live, k)'
             G == Hits(Live, k)
             m == [i \in 2 .. (n + 1) |-> i - 1]
  <1>1. n \in Nat /\ DOMAIN files = 1 .. n /\ files \in Seq(File)
    BY DEF DriveGood
  <1>2. Live' = Live
    BY DEF Live, FolderId
  <1>3. /\ Len(files') = n + 1 /\ files'[1] = f
        /\ \A j \in 2 .. (n + 1) : j - 1 \in 1 .. n /\ files'[j] = files[j - 1]
    <2>1. /\ <<f>> \o files \in Seq(File) /\ Len(<<f>> \o files) = Len(files) + 1
          /\ (<<f>> \o files)[1] = f
          /\ \A j \in 2 .. Len(<<f>> \o files) :
               j - 1 \in 1 .. Len(files) /\ (<<f>> \o files)[j] = files[j - 1]
      BY ONLY f \in File, <1>1, InFront
    <2>2. files' = <<f>> \o files
      OBVIOUS
    <2>3. QED
      BY ONLY <2>1, <2>2 DEF n
  <1>4. DOMAIN files' = 1 .. (n + 1)
    BY <1>3 DEF DriveGood
  <1> HIDE DEF n
  <1>5. /\ H \subseteq 1 .. (n + 1) /\ G \subseteq 1 .. n
        /\ \A i \in 1 .. (n + 1) :
             i \in H <=> files'[i].folder \in Live /\ files'[i].name = k
        /\ \A i \in 1 .. n :
             i \in G <=> files[i].folder \in Live /\ files[i].name = k
    BY <1>1, <1>2, <1>4 DEF Hits
  <1> HIDE DEF H, G
  <1>6. CASE f.folder \in Live /\ f.name = k
    <2>1. 1 \in H
      BY <1>1, <1>3, <1>5, <1>6
    <2>2. QED
      BY <1>3, <1>6, <2>1, FrontShows DEF H
  <1>7. CASE ~(f.folder \in Live /\ f.name = k)
    <2>1. 1 \notin H
      BY <1>3, <1>5, <1>7
    <2>2. \A i \in 2 .. (n + 1) : /\ m[i] = i - 1 /\ m[i] \in 1 .. n
                                  /\ files'[i] = files[m[i]]
      BY <1>3
    <2>3. ASSUME NEW g \in 1 .. n
          PROVE  g + 1 \in 2 .. (n + 1) /\ m[g + 1] = g
      BY <1>1
    <2> HIDE DEF m
    <2>4. H \subseteq 2 .. (n + 1)
      BY <1>1, <1>5, <2>1
    <2>5. ASSUME NEW i \in H
          PROVE  m[i] \in G /\ files'[i].data = files[m[i]].data
      <3>1. /\ i \in 1 .. (n + 1) /\ m[i] \in 1 .. n /\ files'[i] = files[m[i]]
        BY <1>5, <2>2, <2>4
      <3>2. files'[i].folder \in Live /\ files'[i].name = k
        BY <1>5, <3>1
      <3>3. QED
        BY <1>5, <3>1, <3>2
    <2>6. ASSUME NEW g \in G
          PROVE  \E i \in H : m[i] = g
      <3>1. g \in 1 .. n
        BY <1>5
      <3>2. g + 1 \in 2 .. (n + 1) /\ m[g + 1] = g
        BY <2>3, <3>1
      <3>3. g + 1 \in 1 .. (n + 1) /\ g + 1 \in H
        BY <1>1, <1>5, <2>2, <3>2
      <3>4. QED
        BY <3>2, <3>3
    <2>7. \A i, j \in H : i <= j => m[i] <= m[j]
      BY <2>2, <2>4
    <2>8. Store'[k] = Store[k]
      BY <2>5, <2>6, <2>7, SameEntry DEF H, G
    <2>9. QED
      BY <1>7, <2>8
  <1>8. QED
    BY <1>6, <1>7
-----------------------------------------------------------------------------
(* What executing a request shows of what it asked for. *)
Shows(r) ==
    /\ \A k \in Key : \/ r.kind \in {"patch", "create", "remove"} /\ k = r.name
                      \/ Store'[k] = Store[k]
    /\ r.kind \in {"patch", "create"} => Store'[r.name] \in {Store[r.name], r.data}
    /\ r.kind = "create" /\ r.folder \in Live => Store'[r.name] = r.data
    /\ /\ r.kind = "patch"
       /\ \E i \in 1 .. Len(files) : files[i].id = r.id /\ files[i].folder \in Live
       => Store'[r.name] = r.data

(* Folders stay, and a file that is changed where it can be seen is shown. *)
DriveMoves ==
    /\ Live \subseteq Live'
    /\ \A j \in 1 .. Len(files') :
         \/ \E i \in 1 .. Len(files) : files'[j] = files[i]
         \/ files'[j].id \notin Id
         \/ \E i \in 1 .. Len(files) :
              /\ files'[j].id = files[i].id /\ files'[j].folder = files[i].folder
              /\ files'[j].folder \in Live => Store'[files'[j].name] = files'[j].data

OneFolder == \A i, j \in Live : i = j

(* A first folder has nothing in it. *)
LEMMA MadeShows ==
    ASSUME DriveGood, DriveGood', MakeFolder, OneFolder'
    PROVE  DriveMoves /\ \A k \in Key : Store'[k] = Store[k]
  <1>1. /\ folders \in Seq({"live", "trashed"}) /\ files' = files
        /\ folders' = Append(folders, "live")
    BY DEF DriveGood, MakeFolder
  <1> DEFINE n == Len(folders) + 1
  <1>2. n \in Live' /\ n \notin FolderId /\ Live \subseteq Live'
    BY <1>1 DEF Live, FolderId
  <1> HIDE DEF n
  <1>3. Live' = {n} /\ Live = {}
    BY <1>2 DEF OneFolder, Live
  <1>4. ASSUME NEW k \in Key
        PROVE  Store'[k] = Store[k]
    <2>1. Hits(Live, k) = {}
      BY <1>3 DEF Hits
    <2>2. Hits(Live, k)' = {}
      <3>1. \A i \in DOMAIN files : files[i].folder \in FolderId
        BY DEF DriveGood
      <3>2. \A i \in DOMAIN files' : files'[i].folder \notin Live'
        BY <1>1, <1>2, <1>3, <3>1
      <3>3. QED
        BY <3>2 DEF Hits
    <2>3. QED
      BY <2>1, <2>2, Entry, EntryNext
  <1>5. \A j \in 1 .. Len(files') : \E i \in 1 .. Len(files) : files'[j] = files[i]
    BY <1>1
  <1>6. QED
    BY <1>2, <1>4, <1>5 DEF DriveMoves

(* Without a change to folders and files the store shows what it showed. *)
LEMMA SameShows ==
    ASSUME UNCHANGED <<folders, files>>
    PROVE  DriveMoves /\ \A k \in Key : Store'[k] = Store[k]
  <1>1. Live' = Live /\ \A k \in Key : Hits(Live, k)' = Hits(Live, k)
    BY DEF Live, FolderId, Hits
  <1>2. \A k \in Key : Store'[k] = Store[k]
    BY <1>1, Entry, EntryNext
  <1>3. \A j \in 1 .. Len(files') : \E i \in 1 .. Len(files) : files'[j] = files[i]
    OBVIOUS
  <1>4. QED
    BY <1>1, <1>2, <1>3 DEF DriveMoves

(* The file with an id of its own is the one with its id. *)
LEMMA AtIsUnique ==
    ASSUME DriveGood, NEW id \in FileIds, NEW i \in 1 .. Len(files), files[i].id = id
    PROVE  At(id) = i
  <1>1. At(id) \in 1 .. Len(files) /\ files[At(id)].id = id
    BY WithoutFile
  <1>2. QED
    BY <1>1 DEF DriveGood

(* The file with the id is changed and comes first. *)
LEMMA PatchShows ==
    ASSUME DriveGood, DriveGood', NEW r, RequestGood(r), r.kind = "patch",
           r.id \in FileIds, UNCHANGED <<folders, legacy, made>>,
           files' = <<[FileWith(r.id) EXCEPT !.data = r.data]>> \o Without(r.id)
    PROVE  Shows(r) /\ DriveMoves
  <1> DEFINE a == At(r.id)
             t == Without(r.id)
             f == [FileWith(r.id) EXCEPT !.data = r.data]
  <1>1. /\ r.id \in Id /\ r.name \in Key /\ r.data \in Data /\ Named(r.id, r.name)
    BY DEF RequestGood, ChangeRequest
  <1>2. /\ a \in 1 .. Len(files) /\ files[a].id = r.id
        /\ t \in Seq(File) /\ Len(t) = Len(files) - 1
        /\ \A j \in 1 .. Len(t) : t[j] = files[IF j < a THEN j ELSE j + 1]
    BY WithoutFile
  <1>3. files[a] \in File /\ files[a].name = r.name
    BY <1>1, <1>2 DEF DriveGood, Named
  <1>4. /\ f \in File /\ f.id = r.id /\ f.name = r.name
        /\ f.folder = files[a].folder /\ f.data = r.data
    BY <1>1, <1>2, <1>3 DEF FileWith, File
  <1>5. \A k \in Key : Store'[k] = IF a \in Hits(Live, k) THEN r.data ELSE Store[k]
    BY <1>1, PatchedShows
  <1>6. \A k \in Key : a \in Hits(Live, k) <=> files[a].folder \in Live /\ k = r.name
    BY <1>2, <1>3 DEF Hits, DriveGood
  <1>7. Shows(r)
    <2>1. ASSUME NEW i \in 1 .. Len(files), files[i].id = r.id, files[i].folder \in Live
          PROVE  Store'[r.name] = r.data
      <3>1. i = a
        BY <2>1, AtIsUnique
      <3>2. QED
        BY <1>1, <1>5, <1>6, <2>1, <3>1
    <2> HIDE DEF a
    <2>2. QED
      BY <1>1, <1>5, <1>6, <2>1 DEF Shows
  <1>8. DriveMoves
    <2>1. Live' = Live
      BY DEF Live, FolderId
    <2>2. files' = <<f>> \o t
      OBVIOUS
    <2> HIDE DEF a, t, f
    <2>3. /\ Len(files') = Len(t) + 1 /\ files'[1] = f
          /\ \A j \in 2 .. Len(files') : j - 1 \in 1 .. Len(t) /\ files'[j] = t[j - 1]
      <3>1. /\ <<f>> \o t \in Seq(File) /\ Len(<<f>> \o t) = Len(t) + 1
            /\ (<<f>> \o t)[1] = f
            /\ \A j \in 2 .. Len(<<f>> \o t) :
                 j - 1 \in 1 .. Len(t) /\ (<<f>> \o t)[j] = t[j - 1]
        BY ONLY <1>2, <1>4, InFront
      <3>2. QED
        BY ONLY <2>2, <3>1
    <2>4. ASSUME NEW j \in 1 .. Len(files')
          PROVE  \/ \E i \in 1 .. Len(files) : files'[j] = files[i]
                 \/ \E i \in 1 .. Len(files) :
                      /\ files'[j].id = files[i].id /\ files'[j].folder = files[i].folder
                      /\ files'[j].folder \in Live => Store'[files'[j].name] = files'[j].data
      <3>1. CASE j = 1
        <4>1. files'[j] = f
          BY <2>3, <3>1
        <4>2. f.folder \in Live => Store'[f.name] = f.data
          BY <1>1, <1>4, <1>5, <1>6
        <4>3. QED
          BY <1>2, <1>4, <4>1, <4>2
      <3>2. CASE j # 1
        <4>1. j \in 2 .. Len(files')
          BY <1>2, <2>3, <3>2
        <4>2. j - 1 \in 1 .. Len(t) /\ files'[j] = t[j - 1]
          BY <2>3, <4>1
        <4>3. (IF j - 1 < a THEN j - 1 ELSE (j - 1) + 1) \in 1 .. Len(files)
          BY <1>2, <4>2 DEF DriveGood
        <4>4. QED
          BY <1>2, <4>2, <4>3
      <3>3. QED
        BY <3>1, <3>2
    <2>5. QED
      BY <2>1, <2>4 DEF DriveMoves
  <1>9. QED
    BY <1>7, <1>8

(* A new file comes first. *)
LEMMA CreateShows ==
    ASSUME DriveGood, DriveGood', NEW r, RequestGood(r), r.kind = "create",
           made' = made + 1, UNCHANGED <<folders, legacy>>,
           files' = <<[id |-> made', name |-> r.name, folder |-> r.folder,
                       data |-> r.data]>> \o files
    PROVE  Shows(r) /\ DriveMoves
  <1> DEFINE f == [id |-> made', name |-> r.name, folder |-> r.folder, data |-> r.data]
  <1>1. r.name \in Key /\ r.data \in Data /\ r.folder \in FolderId
    BY DEF RequestGood, ChangeRequest
  <1>2. made' \in Nat /\ made' \notin Id /\ r.folder \in Nat
    BY <1>1 DEF DriveGood, Id, FolderId
  <1>3. f \in File
    BY <1>1, <1>2 DEF File
  <1>4. /\ f.id = made' /\ f.name = r.name /\ f.folder = r.folder /\ f.data = r.data
        /\ files' = <<f>> \o files
    OBVIOUS
  <1> HIDE DEF f
  <1>5. \A k \in Key :
          Store'[k] = IF r.folder \in Live /\ r.name = k THEN r.data ELSE Store[k]
    BY <1>3, <1>4, CreatedShows
  <1>6. Shows(r)
    BY <1>1, <1>5 DEF Shows
  <1>7. DriveMoves
    <2>1. Live' = Live
      BY DEF Live, FolderId
    <2>2. files \in Seq(File)
      BY DEF DriveGood
    <2>3. /\ Len(files') = Len(files) + 1 /\ files'[1] = f
          /\ \A j \in 2 .. Len(files') :
               j - 1 \in 1 .. Len(files) /\ files'[j] = files[j - 1]
      <3>1. /\ <<f>> \o files \in Seq(File) /\ Len(<<f>> \o files) = Len(files) + 1
            /\ (<<f>> \o files)[1] = f
            /\ \A j \in 2 .. Len(<<f>> \o files) :
                 j - 1 \in 1 .. Len(files) /\ (<<f>> \o files)[j] = files[j - 1]
        BY ONLY <1>3, <2>2, InFront
      <3>2. QED
        BY ONLY <1>4, <3>1
    <2>4. ASSUME NEW j \in 1 .. Len(files')
          PROVE  \/ \E i \in 1 .. Len(files) : files'[j] = files[i]
                 \/ files'[j].id \notin Id
      <3>1. CASE j = 1
        BY <1>2, <1>4, <2>3, <3>1
      <3>2. CASE j # 1
        <4>1. j \in 2 .. Len(files')
          BY <2>2, <2>3, <3>2
        <4>2. QED
          BY <2>3, <4>1
      <3>3. QED
        BY <3>1, <3>2
    <2>5. QED
      BY <2>1, <2>4 DEF DriveMoves
  <1>8. QED
    BY <1>6, <1>7

(* Without a file, only the entry of its name may change. *)
LEMMA RemoveShows ==
    ASSUME DriveGood, DriveGood', NEW r, RequestGood(r), r.kind = "remove",
           r.id \in FileIds, UNCHANGED <<folders, legacy, made>>,
           files' = Without(r.id)
    PROVE  Shows(r) /\ DriveMoves
  <1> DEFINE a == At(r.id)
             t == Without(r.id)
  <1>1. r.name \in Key /\ Named(r.id, r.name)
    BY DEF RequestGood, ChangeRequest
  <1>2. /\ a \in 1 .. Len(files) /\ files[a].id = r.id
        /\ Len(t) = Len(files) - 1
        /\ \A j \in 1 .. Len(t) : t[j] = files[IF j < a THEN j ELSE j + 1]
    BY WithoutFile
  <1>3. files[a].name = r.name
    BY <1>1, <1>2 DEF Named
  <1>4. \A k \in Key : k # r.name => a \notin Hits(Live, k)
    BY <1>3 DEF Hits
  <1>5. \A k \in Key : k # r.name => Store'[k] = Store[k]
    BY <1>4, RemovedShows
  <1>6. Shows(r)
    BY <1>5 DEF Shows
  <1>7. Live' = Live /\ files' = t
    BY DEF Live, FolderId
  <1> HIDE DEF a, t
  <1>8. ASSUME NEW j \in 1 .. Len(files')
        PROVE  \E i \in 1 .. Len(files) : files'[j] = files[i]
    <2>1. j \in 1 .. Len(t)
      BY <1>7
    <2>2. (IF j < a THEN j ELSE j + 1) \in 1 .. Len(files)
      BY <1>2, <2>1 DEF DriveGood
    <2>3. QED
      BY <1>2, <1>7, <2>1, <2>2
  <1>9. QED
    BY <1>6, <1>7, <1>8 DEF DriveMoves

(* Drive executes a request, and shows it. *)
LEMMA ExecuteShows ==
    ASSUME IInv, DriveGood', OneFolder', NEW r, RequestGood(r), Execute(r)
    PROVE  Shows(r) /\ DriveMoves
  <1>1. DriveGood
    BY DEF IInv
  <1>2. CASE r.kind = "mkdir" /\ MakeFolder
    <2>1. DriveMoves /\ \A k \in Key : Store'[k] = Store[k]
      BY <1>1, <1>2, MadeShows
    <2>2. QED
      BY <1>2, <2>1 DEF Shows
  <1>3. CASE /\ r.kind = "patch" /\ r.id \in FileIds
             /\ files' = <<[FileWith(r.id) EXCEPT !.data = r.data]>> \o Without(r.id)
             /\ UNCHANGED <<folders, legacy, made>>
    BY <1>1, <1>3, PatchShows
  <1>4. CASE /\ r.kind = "create" /\ made' = made + 1
             /\ files' = <<[id |-> made', name |-> r.name, folder |-> r.folder,
                            data |-> r.data]>> \o files
             /\ UNCHANGED <<folders, legacy>>
    BY <1>1, <1>4, CreateShows
  <1>5. CASE /\ r.kind = "remove" /\ r.id \in FileIds
             /\ files' = Without(r.id)
             /\ UNCHANGED <<folders, legacy, made>>
    BY <1>1, <1>5, RemoveShows
  <1>6. CASE r.kind = "drop" /\ UNCHANGED <<folders, files>>
    <2>1. DriveMoves /\ \A k \in Key : Store'[k] = Store[k]
      BY <1>6, SameShows
    <2>2. QED
      BY <1>6, <2>1 DEF Shows
  <1>7. QED
    BY <1>2, <1>3, <1>4, <1>5, <1>6 DEF Execute
-----------------------------------------------------------------------------
(* A call between its beginning and its answer. *)
InCall(d) == dev[d].call # None /\ dev[d].answer = None

(* What a call holds is what its keys have held since it began. *)
SawTruly(d) ==
    LET s == dev[d]
    IN  /\ \A k \in Key : Store[k] \in seen[d][k]
        /\ s.pc \in InFolder => s.folder \in Live
        /\ s.pc \in OnHit =>
             \A i \in 1 .. Len(files) :
                files[i].id = s.hit => /\ files[i].folder = s.folder
                                       /\ files[i].data \in seen[d][s.key]
        /\ s.pc = "get" /\ s.call.op = "metadata" => s.fields \in seen[d][s.key] \ {None}
        /\ s.pc = "fetch" \/ (s.pc \in {"find", "patch", "create"} /\ Copying(s))
             => None \in seen[d][s.key]

(* As long as there is one folder: whoever is in a call and was not         *)
(* overtaken sees it.                                                      *)
SeenInv ==
    ~split =>
        /\ OneFolder
        /\ overtaken \subseteq {d \in Device : dev[d].call # None}
        /\ \A d \in Device : InCall(d) /\ d \notin overtaken => SawTruly(d)

(* A set that counts at most one has one member at most. *)
LEMMA OneMember ==
    ASSUME NEW n \in Nat, NEW S \in SUBSET (1 .. n), ~(Cardinality(S) > 1)
    PROVE  \A i, j \in S : i = j
  <1> SUFFICES ASSUME NEW i \in S, NEW j \in S, i # j
               PROVE  FALSE
    OBVIOUS
  <1>1. IsFiniteSet(1 .. n)
    BY FS_Interval
  <1>2. IsFiniteSet(S)
    BY <1>1, FS_Subset
  <1>3. Cardinality(S) \in Nat
    BY <1>2, FS_CardinalityType
  <1>4. IsFiniteSet({i}) /\ Cardinality({i}) = 1
    BY FS_Singleton
  <1>5. Cardinality({i} \cup {j}) = 2
    BY <1>4, FS_AddElement
  <1>6. {i} \cup {j} \in SUBSET S
    OBVIOUS
  <1>7. 2 <= Cardinality(S)
    BY <1>2, <1>5, <1>6, FS_Subset
  <1>8. QED
    BY <1>3, <1>7

(* Unless the store is split there is one folder at most. *)
LEMMA StillOne ==
    ASSUME Remember, DriveGood', ~split'
    PROVE  ~split /\ OneFolder'
  <1>1. split' = (split \/ Cardinality(Live') > 1)
    BY DEF Remember
  <1>2. ~split /\ ~(Cardinality(Live') > 1)
    BY <1>1, Zenon
  <1>3. Len(folders') \in Nat /\ Live' \in SUBSET (1 .. Len(folders'))
    BY DEF DriveGood, Live, FolderId
  <1>4. \A i, j \in Live' : i = j
    BY <1>2, <1>3, OneMember
  <1>5. QED
    BY <1>2, <1>4 DEF OneFolder

(* Calls are overtaken only when the folder is trashed. *)
LEMMA NotOvertaken ==
    ASSUME Remember, ~split', \A i \in Live : folders'[i] # "trashed"
    PROVE  overtaken' = {d \in overtaken : dev'[d].call # None}
  <1>1. overtaken' = IF split' THEN {}
                     ELSE IF \E i \in Live : folders'[i] = "trashed"
                       THEN {d \in Device : dev[d].call # None}
                       ELSE {d \in overtaken : dev'[d].call # None}
    BY DEF Remember
  <1>2. QED
    BY <1>1

(* What Remember does to seen is See of the store of keys. *)
LEMMA Sees ==
    ASSUME Remember, ~split'
    PROVE  seen' = [d \in Device |->
                      [k \in Key |->
                         IF dev'[d].call = None \/ dev'[d].answer # None \/ d \in overtaken'
                           THEN {} ELSE seen[d][k] \cup {Store'[k]}]]
  <1>1. seen' = [d \in Device |->
                   [k \in Key |->
                      IF \/ dev'[d].call = None \/ dev'[d].answer # None
                         \/ d \in overtaken' \/ split'
                        THEN {} ELSE seen[d][k] \cup {Store'[k]}]]
    BY DEF Remember
  <1>2. QED
    BY <1>1

LEMMA SeesNow ==
    ASSUME Remember, ~split', NEW d \in Device, InCall(d)', d \notin overtaken',
           NEW k \in Key
    PROVE  seen'[d][k] = seen[d][k] \cup {Store'[k]}
  BY Sees DEF InCall

(* A call that stays where it is goes on seeing what it saw. *)
LEMMA OthersSee ==
    ASSUME IInv, IInv', Remember, ~split', DriveMoves, NEW d \in Device,
           dev'[d] = dev[d], InCall(d)', d \notin overtaken', SawTruly(d)
    PROVE  SawTruly(d)'
  <1>1. dev[d] \in CallState /\ CallGood(d) /\ CallGood(d)' /\ DriveGood'
    BY DEF IInv
  <1>2. \A k \in Key : seen'[d][k] = seen[d][k] \cup {Store'[k]}
    BY SeesNow
  <1>3. \A k \in Key : Store'[k] \in seen'[d][k]
    BY <1>2
  <1>4. dev[d].pc \in InFolder => dev[d].folder \in Live'
    BY DEF SawTruly, DriveMoves
  <1>5. dev[d].pc \in OnFile \cup {"fetch", "drop"} => dev[d].key \in Key
    BY <1>1 DEF CallGood, PlacesKnown, CallState
  <1>6. ASSUME dev[d].pc \in OnHit, NEW j \in 1 .. Len(files'),
               files'[j].id = dev[d].hit
        PROVE  /\ files'[j].folder = dev[d].folder
               /\ files'[j].data \in seen'[d][dev[d].key]
    <2> DEFINE key == dev[d].key
    <2>1. /\ dev[d].hit \in Id /\ key \in Key
          /\ files'[j].name = key
      BY <1>1, <1>5, <1>6 DEF CallGood, PlacesKnown, Named, OnFile
    <2>2. seen'[d][key] = seen[d][key] \cup {Store'[key]}
      BY <1>2, <2>1
    <2>3. CASE \E i \in 1 .. Len(files) : files'[j] = files[i]
      BY <1>6, <2>2, <2>3 DEF SawTruly
    <2>4. CASE \E i \in 1 .. Len(files) :
                 /\ files'[j].id = files[i].id /\ files'[j].folder = files[i].folder
                 /\ files'[j].folder \in Live => Store'[files'[j].name] = files'[j].data
      <3>1. files'[j].folder = dev[d].folder
        BY <1>6, <2>4 DEF SawTruly
      <3>2. dev[d].folder \in Live
        BY <1>6 DEF SawTruly, InFolder, OnFile
      <3>3. Store'[key] = files'[j].data
        BY <2>1, <2>4, <3>1, <3>2
      <3>4. QED
        BY <2>2, <3>1, <3>3
    <2>5. QED
      BY <1>6, <2>1, <2>3, <2>4 DEF DriveMoves
  <1>7. dev[d].pc \in OnHit => dev[d].key \in Key
    BY <1>5 DEF OnFile
  <1>8. dev[d].pc = "get" /\ dev[d].call.op = "metadata" =>
          dev[d].fields \in seen'[d][dev[d].key] \ {None}
    BY <1>2, <1>7 DEF SawTruly, OnHit
  <1>9. dev[d].pc = "fetch" \/ (dev[d].pc \in {"find", "patch", "create"}
                                /\ Copying(dev[d]))
          => None \in seen'[d][dev[d].key]
    BY <1>2, <1>5 DEF SawTruly, OnFile, OnHit
  <1>10. QED
    BY <1>3, <1>4, <1>6, <1>8, <1>9 DEF SawTruly

(* The step of one call. *)
LEMMA SeenStep ==
    ASSUME IInv, IInv', SeenInv, Remember, ~split', DriveMoves,
           \A i \in Live : folders'[i] # "trashed",
           NEW d \in Device, Moves(d),
           InCall(d)' /\ d \notin overtaken' => SawTruly(d)'
    PROVE  SeenInv'
  <1>1. ~split /\ OneFolder'
    BY StillOne DEF IInv
  <1>2. overtaken' = {e \in overtaken : dev'[e].call # None}
    BY NotOvertaken
  <1>3. overtaken' \subseteq {e \in Device : dev'[e].call # None}
    BY <1>1, <1>2 DEF SeenInv
  <1>4. ASSUME NEW e \in Device, InCall(e)', e \notin overtaken'
        PROVE  SawTruly(e)'
    <2>1. CASE e = d
      BY <1>4, <2>1
    <2>2. CASE e # d
      <3>1. dev'[e] = dev[e]
        BY <2>2 DEF Moves
      <3>2. InCall(e) /\ e \notin overtaken
        BY <1>2, <1>4, <3>1 DEF InCall
      <3>3. SawTruly(e)
        BY <1>1, <3>2 DEF SeenInv
      <3>4. QED
        BY <1>4, <3>1, <3>3, OthersSee
    <2>3. QED
      BY <2>1, <2>2
  <1>5. QED
    BY <1>1, <1>3, <1>4 DEF SeenInv
-----------------------------------------------------------------------------
(* The steps of the store of keys.                                         *)
LEMMA RemoteSees ==
    ASSUME Remember, DriveGood', ~split'
    PROVE  ~split /\ Remote!See
  <1>1. ~split
    BY StillOne
  <1>2. seen' = [d \in Device |->
                   [k \in Key |->
                      IF dev'[d].call = None \/ dev'[d].answer # None \/ d \in overtaken'
                        THEN {} ELSE seen[d][k] \cup {Store'[k]}]]
    BY Sees
  <1>3. QED
    BY <1>1, <1>2 DEF Remote!See

(* One call moves and goes on, everything is where it was. *)
LEMMA CallsMove ==
    ASSUME NEW d \in Device, Moves(d), dev'[d].call = dev[d].call
    PROVE  /\ [e \in Device |-> dev'[e].call] = [e \in Device |-> dev[e].call]
           /\ [e \in Device |-> dev'[e].answer] =
                 [[e \in Device |-> dev[e].answer] EXCEPT ![d] = dev'[d].answer]
           /\ dev'[d].answer = dev[d].answer =>
                 [e \in Device |-> dev'[e].answer] = [e \in Device |-> dev[e].answer]
           /\ \A e \in Device : dev'[e].call = dev[e].call
  <1>1. \A e \in Device : dev'[e].call = dev[e].call
    BY DEF Moves
  <1>2. \A e \in Device : e # d => dev'[e].answer = dev[e].answer
    BY DEF Moves
  <1>3. QED
    BY <1>1, <1>2

(* Entry by entry, the store stays or gets one new value. *)
LEMMA StoreStays ==
    ASSUME \A k \in Key : Store'[k] = Store[k]
    PROVE  Store' = Store
  <1>1. Store = [k \in Key |-> Store[k]]
    BY DEF Store
  <1>2. Store' = [k \in Key |-> Store'[k]]
    BY DEF Store
  <1>3. QED
    BY <1>1, <1>2

LEMMA StoreGets ==
    ASSUME NEW name \in Key, \A k \in Key : k # name => Store'[k] = Store[k]
    PROVE  Store' = [Store EXCEPT ![name] = Store'[name]]
  <1>1. Store = [k \in Key |-> Store[k]]
    BY DEF Store
  <1>2. Store' = [k \in Key |-> Store'[k]]
    BY DEF Store
  <1>3. QED
    BY <1>1, <1>2

(* If no call begins or ends and no folder goes, nobody is overtaken. *)
LEMMA OvertakenStay ==
    ASSUME Remember, DriveGood', ~split', SeenInv, Live \subseteq Live',
           \A d \in Device : dev'[d].call = dev[d].call
    PROVE  overtaken' = overtaken
  <1>1. ~split
    BY StillOne
  <1>2. \A i \in Live : folders'[i] # "trashed"
    BY DEF Live
  <1>3. overtaken' = {d \in overtaken : dev'[d].call # None}
    BY <1>2, NotOvertaken
  <1>4. overtaken \subseteq {d \in Device : dev[d].call # None}
    BY <1>1 DEF SeenInv
  <1>5. QED
    BY <1>3, <1>4

(* The steps of the store of keys, from what happens to calls and entries. *)
LEMMA RemoteFades ==
    ASSUME Remember, DriveGood', ~split',
           UNCHANGED [e \in Device |-> dev[e].call],
           UNCHANGED [e \in Device |-> dev[e].answer],
           overtaken' = overtaken, Store' = Store, LostWrites' \subseteq LostWrites
    PROVE  Remote!Next
  <1>1. ~split /\ Remote!See
    BY RemoteSees
  <1>2. Remote!Fade
    BY DEF Remote!Fade
  <1>3. QED
    BY <1>1, <1>2 DEF Remote!Next

LEMMA RemoteAnswers ==
    ASSUME Remember, DriveGood', ~split', NEW d \in Device, InCall(d),
           Moves(d), dev'[d].call = dev[d].call, dev'[d].answer # None,
           Remote!Truthful(d, dev'[d].answer),
           overtaken' = overtaken, Store' = Store, LostWrites' = LostWrites
    PROVE  Remote!Next
  <1>1. ~split /\ Remote!See
    BY RemoteSees
  <1>2. Remote!Answer(d)
    BY CallsMove DEF Remote!Answer, Remote!InProgress, InCall
  <1>3. QED
    BY <1>1, <1>2 DEF Remote!Next

LEMMA RemoteWrites ==
    ASSUME Remember, DriveGood', ~split', NEW d \in Device, InCall(d),
           Moves(d), dev'[d].call = dev[d].call,
           dev'[d].answer \in {dev[d].answer, Ok, [kind |-> "error"]},
           NEW k \in Key, NEW v \in Data \cup {None},
           Remote!MayWrite(d, k, v), Store' = [Store EXCEPT ![k] = v],
           overtaken' = overtaken, LostWrites' = LostWrites
    PROVE  Remote!Next
  <1>1. ~split /\ Remote!See
    BY RemoteSees
  <1>2. Remote!Write(d)
    BY CallsMove DEF Remote!Write, Remote!InProgress, InCall, Ok
  <1>3. QED
    BY <1>1, <1>2 DEF Remote!Next

LEMMA RemoteLoses ==
    ASSUME Remember, DriveGood', ~split', NEW d \in Device, InCall(d),
           Moves(d), dev'[d].call = dev[d].call,
           dev'[d].answer \in {dev[d].answer, [kind |-> "error"]},
           LostWrites \subseteq LostWrites',
           \A w \in LostWrites' \ LostWrites : Remote!MayWrite(d, w[1], w[2]),
           overtaken' = overtaken, Store' = Store
    PROVE  Remote!Next
  <1>1. ~split /\ Remote!See
    BY RemoteSees
  <1>2. Remote!Lose(d)
    BY CallsMove DEF Remote!Lose, Remote!InProgress, InCall
  <1>3. QED
    BY <1>1, <1>2 DEF Remote!Next
-----------------------------------------------------------------------------
(* A call that saw truly and sees what the store holds now. *)
Watches(d) ==
    /\ InCall(d) /\ SawTruly(d)
    /\ \A k \in Key : seen'[d][k] = seen[d][k] \cup {Store'[k]}

(* The steps of one call, as the store of keys sees them: one it does not  *)
(* see, an answer, a write, a lost request.                                *)
LEMMA Unseen ==
    ASSUME IInv, IInv', SeenInv, Remember, ~split', DriveMoves, NEW d \in Device,
           Moves(d), dev'[d].call = dev[d].call, dev'[d].answer = dev[d].answer,
           \A k \in Key : Store'[k] = Store[k], orphans' = orphans,
           Watches(d) => SawTruly(d)'
    PROVE  SeenInv' /\ Remote!Next
  <1>1. DriveGood' /\ Live \subseteq Live'
    BY DEF IInv, DriveMoves
  <1>2. /\ UNCHANGED [e \in Device |-> dev[e].call]
        /\ UNCHANGED [e \in Device |-> dev[e].answer]
        /\ \A e \in Device : dev'[e].call = dev[e].call
    BY CallsMove
  <1>3. overtaken' = overtaken /\ Store' = Store /\ LostWrites' = LostWrites
    BY <1>1, <1>2, OvertakenStay, StoreStays DEF LostWrites
  <1>4. InCall(d)' /\ d \notin overtaken' => SawTruly(d)'
    <2>1. SUFFICES ASSUME InCall(d)', d \notin overtaken'
                   PROVE  SawTruly(d)'
      OBVIOUS
    <2>2. InCall(d) /\ d \notin overtaken
      BY <1>3, <2>1 DEF InCall
    <2>3. ~split
      BY <1>1, StillOne
    <2>4. SawTruly(d)
      BY <2>2, <2>3 DEF SeenInv
    <2>5. Watches(d)
      BY <2>1, <2>2, <2>4, SeesNow DEF Watches
    <2>6. QED
      BY <2>5
  <1>5. \A i \in Live : folders'[i] # "trashed"
    BY <1>1 DEF Live
  <1>6. SeenInv'
    BY <1>4, <1>5, SeenStep
  <1>7. QED
    BY <1>1, <1>2, <1>3, <1>6, RemoteFades

(* A call is answered. *)
LEMMA Answered ==
    ASSUME IInv, IInv', SeenInv, Remember, ~split', DriveMoves, NEW d \in Device,
           Moves(d), InCall(d), dev'[d].call = dev[d].call, dev'[d].answer # None,
           \A k \in Key : Store'[k] = Store[k], orphans' = orphans,
           d \notin overtaken /\ SawTruly(d) => Remote!Truthful(d, dev'[d].answer)
    PROVE  SeenInv' /\ Remote!Next
  <1>1. DriveGood' /\ Live \subseteq Live'
    BY DEF IInv, DriveMoves
  <1>2. \A e \in Device : dev'[e].call = dev[e].call
    BY CallsMove
  <1>3. overtaken' = overtaken /\ Store' = Store /\ LostWrites' = LostWrites
    BY <1>1, <1>2, OvertakenStay, StoreStays DEF LostWrites
  <1>4. ~ InCall(d)'
    BY DEF InCall
  <1>5. \A i \in Live : folders'[i] # "trashed"
    BY <1>1 DEF Live
  <1>6. SeenInv'
    BY <1>4, <1>5, SeenStep
  <1>7. Remote!Truthful(d, dev'[d].answer)
    <2>1. CASE d \in overtaken
      BY <2>1 DEF Remote!Truthful
    <2>2. CASE d \notin overtaken
      <3>1. ~split
        BY <1>1, StillOne
      <3>2. SawTruly(d)
        BY <2>2, <3>1 DEF SeenInv
      <3>3. QED
        BY <2>2, <3>2
    <2>3. QED
      BY <2>1, <2>2
  <1>8. QED
    BY <1>1, <1>3, <1>6, <1>7, RemoteAnswers

(* A call writes one key. *)
LEMMA Written ==
    ASSUME IInv, IInv', SeenInv, Remember, ~split', DriveMoves, NEW d \in Device,
           Moves(d), InCall(d), dev'[d].call = dev[d].call,
           dev'[d].answer \in {dev[d].answer, Ok}, orphans' = orphans,
           NEW name \in Key, Store'[name] \in Data \cup {None},
           \A k \in Key : k # name => Store'[k] = Store[k],
           d \notin overtaken /\ SawTruly(d)
             => Remote!MayWrite(d, name, Store'[name]),
           InCall(d)' /\ Watches(d) => SawTruly(d)',
           d \in overtaken => Remote!MayWrite(d, name, Store'[name])
    PROVE  SeenInv' /\ Remote!Next
  <1>1. DriveGood' /\ Live \subseteq Live'
    BY DEF IInv, DriveMoves
  <1>2. \A e \in Device : dev'[e].call = dev[e].call
    BY CallsMove
  <1>3. overtaken' = overtaken /\ LostWrites' = LostWrites
    BY <1>1, <1>2, OvertakenStay DEF LostWrites
  <1>4. ~split
    BY <1>1, StillOne
  <1>5. d \notin overtaken => SawTruly(d)
    BY <1>4 DEF SeenInv
  <1>6. \A i \in Live : folders'[i] # "trashed"
    BY <1>1 DEF Live
  <1>7. SeenInv'
    <2>1. InCall(d)' /\ d \notin overtaken' => Watches(d)
      BY <1>3, <1>5, SeesNow DEF Watches
    <2>2. InCall(d)' /\ d \notin overtaken' => SawTruly(d)'
      BY <2>1
    <2>3. QED
      BY <1>6, <2>2, SeenStep
  <1>8. Remote!MayWrite(d, name, Store'[name])
    BY <1>5
  <1>9. Store' = [Store EXCEPT ![name] = Store'[name]]
    BY StoreGets
  <1> DEFINE v == Store'[name]
  <1>10. v \in Data \cup {None} /\ Remote!MayWrite(d, name, v)
         /\ Store' = [Store EXCEPT ![name] = v]
    BY <1>8, <1>9
  <1> HIDE DEF v
  <1>11. QED
    BY <1>1, <1>3, <1>7, <1>10, RemoteWrites

(* A request of a call is lost. *)
LEMMA Lost ==
    ASSUME IInv, IInv', SeenInv, Remember, ~split', NEW d \in Device,
           UNCHANGED <<folders, files>>,
           Moves(d), InCall(d), dev'[d].call = dev[d].call,
           dev'[d].answer \in {dev[d].answer, [kind |-> "error"]},
           LostWrites \subseteq LostWrites',
           d \in overtaken \/ SawTruly(d) =>
             \A w \in LostWrites' \ LostWrites : Remote!MayWrite(d, w[1], w[2]),
           InCall(d)' /\ Watches(d) => SawTruly(d)'
    PROVE  SeenInv' /\ Remote!Next
  <1>1. DriveGood' /\ DriveMoves /\ Live \subseteq Live' /\ Store' = Store
    BY SameShows, StoreStays DEF IInv, DriveMoves
  <1>2. \A e \in Device : dev'[e].call = dev[e].call
    BY CallsMove
  <1>3. overtaken' = overtaken
    BY <1>1, <1>2, OvertakenStay
  <1>4. ~split
    BY <1>1, StillOne
  <1>5. d \notin overtaken => SawTruly(d)
    BY <1>4 DEF SeenInv
  <1>6. \A i \in Live : folders'[i] # "trashed"
    BY <1>1 DEF Live
  <1>7. SeenInv'
    <2>1. InCall(d)' /\ d \notin overtaken' => Watches(d)
      BY <1>3, <1>5, SeesNow DEF Watches
    <2>2. InCall(d)' /\ d \notin overtaken' => SawTruly(d)'
      BY <2>1
    <2>3. QED
      BY <1>1, <1>6, <2>2, SeenStep
  <1>8. QED
    BY <1>1, <1>3, <1>5, <1>7, RemoteLoses
-----------------------------------------------------------------------------
(* What a call sees when nothing changes, and where it goes.               *)
LEMMA ReadsShow ==
    ASSUME Reads
    PROVE  /\ Remember /\ DriveMoves /\ orphans' = orphans /\ Live' = Live
           /\ UNCHANGED <<folders, files, legacy, made>>
           /\ \A k \in Key : Store'[k] = Store[k]
  <1>1. Remember /\ orphans' = orphans /\ UNCHANGED <<folders, files, legacy, made>>
    BY DEF Reads, drive
  <1>2. QED
    BY <1>1, SameShows DEF Live, FolderId

(* A call that holds no file has little to see. *)
LEMMA StillTrue ==
    ASSUME NEW d \in Device, Watches(d),
           dev'[d].pc \in InFolder => dev'[d].folder \in Live',
           dev'[d].pc \notin OnHit,
           dev'[d].pc = "fetch" \/ (dev'[d].pc \in {"find", "create"} /\ Copying(dev'[d]))
             => None \in seen'[d][dev'[d].key]
    PROVE  SawTruly(d)'
  <1>1. \A k \in Key : Store'[k] \in seen'[d][k]
    BY DEF Watches
  <1>2. QED
    BY <1>1 DEF SawTruly, OnHit

(* A call between its steps is neither idle nor answered. *)
LEMMA Busy ==
    ASSUME IInv, NEW d \in Device, dev[d].pc \notin {"idle", "done"}
    PROVE  InCall(d) /\ dev[d] \in CallState /\ dev[d].call \in Call
  BY DEF IInv, CallGood, InCall, CallState

(* The one folder a call looks into shows the store. *)
LEMMA FolderShows ==
    ASSUME IInv, OneFolder, NEW d \in Device, SawTruly(d), dev[d].pc \in InFolder,
           NEW k \in Key
    PROVE  /\ Hits({dev[d].folder}, k) = {} => Store[k] = None
           /\ Hits({dev[d].folder}, k) # {} =>
                /\ Store[k] = files[Newest(Hits({dev[d].folder}, k))].data
                /\ Store[k] \in Data
           /\ Hits({dev[d].folder}, k) = Hits(Live, k)
  <1>1. dev[d].folder \in Live
    BY DEF SawTruly
  <1>2. Live = {dev[d].folder}
    BY <1>1 DEF OneFolder
  <1>3. Hits({dev[d].folder}, k) = Hits(Live, k)
    BY <1>2
  <1> DEFINE hits == Hits(Live, k)
  <1>4. ASSUME hits # {}
        PROVE  files[Newest(hits)].data \in Data
    <2>1. files[Newest(hits)] \in File
      BY <1>4, Found DEF IInv
    <2>2. QED
      BY <2>1 DEF File
  <1>5. QED
    BY <1>3, <1>4, Entry

(* A call enters a folder. *)
LEMMA Entering ==
    ASSUME IInv, IInv', SeenInv, Remember, ~split', DriveMoves, NEW d \in Device,
           \A k \in Key : Store'[k] = Store[k], orphans' = orphans,
           NEW id \in Live', EnterFolder(d, id), dev[d].pc \in {"check", "search", "mkdir"}
    PROVE  SeenInv' /\ Remote!Next
  <1>1. InCall(d)
    BY Busy
  <1>2. id \in Nat
    BY DEF Live, FolderId
  <1>3. /\ Moves(d)
        /\ dev'[d].call = dev[d].call /\ dev'[d].answer = None
        /\ dev'[d].folder = id
        /\ dev'[d].pc \in {"list", "legacy", "find"}
        /\ dev'[d].pc = "find" => dev[d].call.op \notin {"list", "migrate"}
    BY <1>1, <1>2, Enters DEF InCall
  <1>4. Watches(d) => SawTruly(d)'
    BY <1>3, StillTrue DEF OnHit, Copying
  <1>5. QED
    BY <1>1, <1>3, <1>4, Unseen DEF InCall

(* A call has to look for the folder, or to make it. *)
LEMMA Going ==
    ASSUME IInv, IInv', SeenInv, Remember, ~split', DriveMoves, NEW d \in Device,
           \A k \in Key : Store'[k] = Store[k], orphans' = orphans,
           dev[d].pc \in {"check", "search"}, NEW pc \in {"search", "mkdir"}, Goto(d, pc)
    PROVE  SeenInv' /\ Remote!Next
  <1>1. dev \in [Device -> CallState] /\ pc \in Step
    BY DEF IInv, Step
  <1>2. /\ Moves(d) /\ dev'[d].pc = pc /\ dev'[d].call = dev[d].call
        /\ dev'[d].answer = dev[d].answer
    BY <1>1, GoesTo
  <1>3. Watches(d) => SawTruly(d)'
    BY <1>2, StillTrue DEF OnHit, OnFile, InFolder
  <1>4. QED
    BY <1>2, <1>3, Unseen

(* A migration goes on with the next file. *)
LEMMA GoingToNext ==
    ASSUME IInv, IInv', SeenInv, Remember, ~split', DriveMoves, NEW d \in Device,
           \A k \in Key : Store'[k] = Store[k], orphans' = orphans,
           dev[d].pc \in InFolder, Moves(d), dev'[d].pc = "next",
           dev'[d].call = dev[d].call, dev'[d].answer = dev[d].answer,
           dev'[d].folder = dev[d].folder
    PROVE  SeenInv' /\ Remote!Next
  <1>1. Watches(d) => SawTruly(d)'
    <2>1. SawTruly(d) => dev'[d].folder \in Live'
      BY DEF SawTruly, DriveMoves
    <2>2. QED
      BY <2>1, StillTrue DEF OnHit, Watches
  <1>2. QED
    BY <1>1, Unseen

(* A call ends with an answer. *)
LEMMA Ended ==
    ASSUME IInv, IInv', SeenInv, Remember, ~split', DriveMoves, NEW d \in Device,
           \A k \in Key : Store'[k] = Store[k], orphans' = orphans,
           dev[d].pc \notin {"idle", "done"}, NEW a \in Answers, Finish(d, a),
           d \notin overtaken /\ SawTruly(d) => Remote!Truthful(d, a)
    PROVE  SeenInv' /\ Remote!Next
  <1>1. InCall(d) /\ dev \in [Device -> CallState] /\ a # None
    BY Busy, DriveAssumption DEF IInv
  <1>2. Moves(d) /\ dev'[d].call = dev[d].call /\ dev'[d].answer = a
    BY <1>1, Finishes
  <1>3. QED
    BY <1>1, <1>2, Answered

(* An error is returned, or the call goes on. *)
LEMMA FailureShows ==
    ASSUME IInv, IInv', SeenInv, Remember, ~split', DriveMoves, NEW d \in Device,
           \A k \in Key : Store'[k] = Store[k], orphans' = orphans,
           dev[d].pc \notin {"idle", "next", "done"}, Failed(d)
    PROVE  SeenInv' /\ Remote!Next
  <1>1. CASE dev[d].pc = "check" /\ Goto(d, "search")
    BY <1>1, Going
  <1>2. CASE dev[d].pc = "legacy" /\ Finish(d, Ok)
    <2>1. dev[d].call.op = "migrate"
      BY <1>2 DEF IInv, CallGood, OperandsFit
    <2>2. Remote!Truthful(d, Ok) /\ Ok \in Answers
      BY <2>1 DEF Remote!Truthful, Ok, Answers
    <2>3. QED
      BY <1>2, <2>2, Ended
  <1>3. CASE /\ dev[d].pc \in {"fetch", "drop", "find", "patch", "create"}
             /\ dev[d].call.op = "migrate"
             /\ Move(d, [dev[d] EXCEPT !.pc = "next", !.buf = None])
    <2> DEFINE s == [dev[d] EXCEPT !.pc = "next", !.buf = None]
    <2>1. dev \in [Device -> CallState]
      BY DEF IInv
    <2>2. /\ s \in CallState /\ s.pc = "next" /\ s.call = dev[d].call
          /\ s.answer = dev[d].answer /\ s.folder = dev[d].folder
      <3>1. dev[d] \in CallState /\ "next" \in Step /\ None \in Data \cup {None}
        BY <2>1 DEF Step
      <3>2. QED
        BY ONLY <3>1 DEF CallState
    <2>3. Move(d, s)
      BY <1>3
    <2> HIDE DEF s
    <2>4. /\ Moves(d) /\ dev'[d].pc = "next" /\ dev'[d].call = dev[d].call
          /\ dev'[d].answer = dev[d].answer /\ dev'[d].folder = dev[d].folder
      BY <2>1, <2>2, <2>3, MovesTo
    <2>5. dev[d].pc \in InFolder
      BY <1>3 DEF InFolder, OnFile, OnHit
    <2>6. QED
      BY <2>4, <2>5, GoingToNext
  <1>4. CASE Finish(d, [kind |-> "error"])
    <2>1. /\ Remote!Truthful(d, [kind |-> "error"])
          /\ [kind |-> "error"] \in Answers
      BY DEF Remote!Truthful, Answers
    <2>2. QED
      BY <1>4, <2>1, Ended
  <1>5. QED
    BY <1>1, <1>2, <1>3, <1>4, FailedMoves
-----------------------------------------------------------------------------
(* Each step, as the store of keys sees it.                                *)
LEMMA CheckShows ==
    ASSUME IInv, IInv', SeenInv, ~split', NEW d \in Device, CheckCached(d)
    PROVE  SeenInv' /\ Remote!Next
  <1>1. /\ Remember /\ DriveMoves /\ orphans' = orphans /\ Live' = Live
        /\ \A k \in Key : Store'[k] = Store[k]
    BY ReadsShow DEF CheckCached
  <1>2. CASE dev[d].cache \in Live
    BY <1>1, <1>2, Entering DEF CheckCached
  <1>3. CASE dev[d].cache \notin Live
    BY <1>1, <1>3, Going DEF CheckCached
  <1>4. QED
    BY <1>2, <1>3

LEMMA SearchShows ==
    ASSUME IInv, IInv', SeenInv, ~split', NEW d \in Device, Search(d)
    PROVE  SeenInv' /\ Remote!Next
  <1>1. /\ Remember /\ DriveMoves /\ orphans' = orphans /\ Live' = Live
        /\ \A k \in Key : Store'[k] = Store[k]
    BY ReadsShow DEF Search
  <1>2. ASSUME NEW id \in Live, EnterFolder(d, id)
        PROVE  SeenInv' /\ Remote!Next
    BY <1>1, <1>2, Entering DEF Search
  <1>3. CASE Goto(d, "mkdir")
    BY <1>1, <1>3, Going DEF Search
  <1>4. QED
    BY <1>2, <1>3 DEF Search

LEMMA MkdirShows ==
    ASSUME IInv, IInv', SeenInv, ~split', NEW d \in Device, Mkdir(d)
    PROVE  SeenInv' /\ Remote!Next
  <1>1. /\ Remember /\ MakeFolder /\ orphans' = orphans /\ dev[d].pc = "mkdir"
        /\ EnterFolder(d, Len(folders')) /\ DriveGood /\ DriveGood'
    BY DEF Mkdir, Changes, IInv
  <1>2. OneFolder'
    BY <1>1, StillOne
  <1>3. DriveMoves /\ \A k \in Key : Store'[k] = Store[k]
    BY <1>1, <1>2, MadeShows
  <1>4. Len(folders') \in Live'
    BY <1>1 DEF MakeFolder, Live, FolderId, DriveGood
  <1>5. QED
    BY <1>1, <1>3, <1>4, Entering

LEMMA UnreadShows ==
    ASSUME IInv, IInv', SeenInv, ~split', NEW d \in Device, MkdirUnread(d)
    PROVE  SeenInv' /\ Remote!Next
  <1>1. /\ Remember /\ MakeFolder /\ orphans' = orphans /\ dev[d].pc = "mkdir"
        /\ Failed(d) /\ DriveGood /\ DriveGood'
    BY DEF MkdirUnread, IInv
  <1>2. OneFolder'
    BY <1>1, StillOne
  <1>3. DriveMoves /\ \A k \in Key : Store'[k] = Store[k]
    BY <1>1, <1>2, MadeShows
  <1>4. QED
    BY <1>1, <1>3, FailureShows

LEMMA RefusalShows ==
    ASSUME IInv, IInv', SeenInv, ~split', NEW d \in Device, SearchRefused(d)
    PROVE  SeenInv' /\ Remote!Next
  <1>1. /\ Remember /\ UNCHANGED <<folders, files>> /\ orphans' = orphans
        /\ dev[d].pc = "search" /\ Goto(d, "mkdir")
    BY DEF SearchRefused, drive
  <1>2. DriveMoves /\ \A k \in Key : Store'[k] = Store[k]
    BY <1>1, SameShows
  <1>3. QED
    BY <1>1, <1>2, Going

LEMMA ListShows ==
    ASSUME IInv, IInv', SeenInv, ~split', NEW d \in Device, List(d)
    PROVE  SeenInv' /\ Remote!Next
  <1> DEFINE keys == {k \in Key : Hits({dev[d].folder}, k) # {}}
             a == [kind |-> "keys", keys |-> keys]
  <1>1. /\ Remember /\ DriveMoves /\ orphans' = orphans
        /\ \A k \in Key : Store'[k] = Store[k]
        /\ dev[d].pc = "list" /\ Finish(d, a)
    BY ReadsShow DEF List
  <1>2. a \in Answers
    BY DEF Answers
  <1>3. ~split /\ OneFolder /\ dev[d].call.op = "list" /\ dev[d].pc \in InFolder
    BY <1>1, StillOne DEF IInv, SeenInv, CallGood, OperandsFit, InFolder
  <1>4. ASSUME SawTruly(d), NEW k \in Key
        PROVE  /\ k \in keys => seen[d][k] # {None}
               /\ k \notin keys => None \in seen[d][k]
    <2>1. Store[k] \in seen[d][k]
      BY <1>4 DEF SawTruly
    <2>2. CASE k \in keys
      <3>1. Store[k] \in Data
        BY <1>3, <1>4, <2>2, FolderShows
      <3>2. QED
        BY <2>1, <2>2, <3>1, DriveAssumption
    <2>3. CASE k \notin keys
      BY <1>3, <1>4, <2>1, <2>3, FolderShows
    <2>4. QED
      BY <2>2, <2>3
  <1> HIDE DEF keys
  <1>5. SawTruly(d) => Remote!Truthful(d, a)
    BY <1>3, <1>4 DEF Remote!Truthful
  <1> HIDE DEF a
  <1>6. QED
    BY <1>1, <1>2, <1>5, Ended

(* What a call found is what its key held. *)
LEMMA Holds ==
    ASSUME IInv, NEW d \in Device, SawTruly(d), dev[d].pc \in OnHit,
           dev[d].hit \in FileIds
    PROVE  FileWith(dev[d].hit).data \in seen[d][dev[d].key] \ {None}
  <1>1. FileWith(dev[d].hit).data \in Data
    BY HeldData DEF IInv
  <1>2. At(dev[d].hit) \in 1 .. Len(files) /\ files[At(dev[d].hit)].id = dev[d].hit
    BY WithoutFile DEF IInv
  <1>3. files[At(dev[d].hit)].data \in seen[d][dev[d].key]
    BY <1>2 DEF SawTruly
  <1>4. QED
    BY <1>1, <1>3, DriveAssumption DEF FileWith

LEMMA FieldsShow ==
    ASSUME IInv, IInv', SeenInv, ~split', NEW d \in Device, Fields(d)
    PROVE  SeenInv' /\ Remote!Next
  <1>1. /\ Remember /\ DriveMoves /\ orphans' = orphans
        /\ \A k \in Key : Store'[k] = Store[k]
        /\ Live' = Live /\ files' = files
        /\ dev[d].pc = "fields"
    BY ReadsShow DEF Fields
  <1>2. CASE Failed(d)
    BY <1>1, <1>2, FailureShows
  <1>3. CASE /\ dev[d].hit \in FileIds
             /\ Move(d, [dev[d] EXCEPT !.pc = "get",
                           !.fields = FileWith(dev[d].hit).data])
    <2> DEFINE v == FileWith(dev[d].hit).data
               s == [dev[d] EXCEPT !.pc = "get", !.fields = v]
    <2>1. v \in Data /\ dev[d] \in CallState /\ dev \in [Device -> CallState]
      BY <1>3, HeldData DEF IInv
    <2>2. Move(d, s)
      BY <1>3
    <2>3. SawTruly(d) => v \in seen[d][dev[d].key] \ {None}
      BY <1>1, <1>3, Holds DEF OnHit
    <2> HIDE DEF v
    <2>4. /\ s \in CallState /\ s.pc = "get" /\ s.call = dev[d].call
          /\ s.answer = dev[d].answer /\ s.folder = dev[d].folder
          /\ s.key = dev[d].key /\ s.hit = dev[d].hit /\ s.fields = v
      <3>1. dev[d] \in CallState /\ "get" \in Step /\ v \in Data \cup {None}
        BY <2>1 DEF Step
      <3>2. s \in CallState
        BY ONLY <3>1 DEF CallState
      <3>3. /\ s.pc = "get" /\ s.call = dev[d].call /\ s.answer = dev[d].answer
            /\ s.folder = dev[d].folder /\ s.key = dev[d].key /\ s.hit = dev[d].hit
            /\ s.fields = v
        BY ONLY <3>1 DEF CallState
      <3>4. QED
        BY <3>2, <3>3
    <2> HIDE DEF s
    <2>5. /\ Moves(d) /\ dev'[d].pc = "get" /\ dev'[d].call = dev[d].call
          /\ dev'[d].answer = dev[d].answer /\ dev'[d].folder = dev[d].folder
          /\ dev'[d].key = dev[d].key /\ dev'[d].hit = dev[d].hit
          /\ dev'[d].fields = v
      BY <2>1, <2>2, <2>4, MovesTo
    <2>6. dev[d].key \in Key
      BY <1>1, <2>1 DEF IInv, CallGood, PlacesKnown, OnFile, OnHit, CallState
    <2>7. ASSUME Watches(d)
          PROVE  SawTruly(d)'
      <3>1. SawTruly(d) /\ \A k \in Key : seen'[d][k] = seen[d][k] \cup {Store'[k]}
        BY <2>7 DEF Watches
      <3>2. /\ dev[d].folder \in Live
            /\ \A i \in 1 .. Len(files) :
                 files[i].id = dev[d].hit => /\ files[i].folder = dev[d].folder
                                             /\ files[i].data \in seen[d][dev[d].key]
        BY <1>1, <3>1 DEF SawTruly, InFolder, OnFile, OnHit
      <3>3. QED
        BY <1>1, <2>3, <2>5, <2>6, <3>1, <3>2 DEF SawTruly
    <2>8. QED
      BY <1>1, <2>5, <2>7, Unseen
  <1>4. QED
    BY <1>2, <1>3 DEF Fields

LEMMA GetShows ==
    ASSUME IInv, IInv', SeenInv, ~split', NEW d \in Device, Get(d)
    PROVE  SeenInv' /\ Remote!Next
  <1>1. /\ Remember /\ DriveMoves /\ orphans' = orphans
        /\ \A k \in Key : Store'[k] = Store[k]
        /\ dev[d].pc = "get"
    BY ReadsShow DEF Get
  <1>2. /\ dev[d].call \in Call /\ dev[d].call.op \in {"download", "metadata"}
        /\ dev[d] \in CallState
        /\ dev[d].call \in OnKey => dev[d].key = dev[d].call.key
    BY <1>1, Busy DEF IInv, CallGood, OperandsFit, OnFile, OnHit
  <1>3. dev[d].key = dev[d].call.key
    BY <1>2 DEF Call, Upload, OnKey
  <1>4. CASE Failed(d)
    BY <1>1, <1>4, FailureShows
  <1>5. ASSUME dev[d].hit \in FileIds,
               Finish(d, IF dev[d].call.op = "download"
                           THEN [kind |-> "data", data |-> FileWith(dev[d].hit).data]
                           ELSE [kind |-> "metadata", fields |-> dev[d].fields,
                                 data |-> FileWith(dev[d].hit).data])
        PROVE  SeenInv' /\ Remote!Next
    <2> DEFINE v == FileWith(dev[d].hit).data
    <2>1. v \in Data
      BY <1>5, HeldData DEF IInv
    <2>2. SawTruly(d) => v \in seen[d][dev[d].key] \ {None}
      BY <1>1, <1>5, Holds DEF OnHit
    <2>3. SawTruly(d) /\ dev[d].call.op = "metadata"
            => dev[d].fields \in seen[d][dev[d].key] \ {None}
      BY <1>1 DEF SawTruly
    <2> HIDE DEF v
    <2>4. CASE dev[d].call.op = "download"
      <3> DEFINE a == [kind |-> "data", data |-> v]
      <3>1. Finish(d, a) /\ a \in Answers
        BY <1>5, <2>1, <2>4 DEF Answers, v
      <3>2. SawTruly(d) => Remote!Truthful(d, a)
        BY <1>3, <2>2, <2>4 DEF Remote!Truthful
      <3> HIDE DEF a
      <3>3. QED
        BY <1>1, <3>1, <3>2, Ended
    <2>5. CASE dev[d].call.op = "metadata"
      <3> DEFINE a == [kind |-> "metadata", fields |-> dev[d].fields, data |-> v]
      <3>1. Finish(d, a) /\ a \in Answers
        BY <1>2, <1>5, <2>1, <2>5 DEF Answers, v, CallState
      <3>2. SawTruly(d) => Remote!Truthful(d, a)
        BY <1>3, <2>2, <2>3, <2>5 DEF Remote!Truthful
      <3> HIDE DEF a
      <3>3. QED
        BY <1>1, <3>1, <3>2, Ended
    <2>6. QED
      BY <1>2, <2>4, <2>5
  <1>6. QED
    BY <1>4, <1>5 DEF Get

LEMMA ListLegacyShows ==
    ASSUME IInv, IInv', SeenInv, ~split', NEW d \in Device, ListLegacy(d)
    PROVE  SeenInv' /\ Remote!Next
  <1> DEFINE there == {k \in Key : legacy[k] # None}
             s == [dev[d] EXCEPT !.pc = "next", !.todo = there]
  <1>1. /\ Remember /\ DriveMoves /\ orphans' = orphans
        /\ \A k \in Key : Store'[k] = Store[k]
        /\ dev[d].pc = "legacy" /\ dev \in [Device -> CallState]
        /\ dev[d].call.op = "migrate" /\ dev[d].pc \in InFolder
    BY ReadsShow DEF ListLegacy, IInv, CallGood, OperandsFit, InFolder
  <1>2. CASE Finish(d, Ok)
    <2>1. Remote!Truthful(d, Ok) /\ Ok \in Answers
      BY <1>1 DEF Remote!Truthful, Ok, Answers
    <2>2. QED
      BY <1>1, <1>2, <2>1, Ended
  <1>3. CASE Move(d, s)
    <2>1. there \in SUBSET Key
      OBVIOUS
    <2> HIDE DEF there
    <2>2. /\ s \in CallState /\ s.pc = "next" /\ s.call = dev[d].call
          /\ s.answer = dev[d].answer /\ s.folder = dev[d].folder
      <3>1. dev[d] \in CallState /\ "next" \in Step /\ there \in SUBSET Key
        BY <1>1, <2>1 DEF Step
      <3>2. QED
        BY ONLY <3>1 DEF CallState
    <2>3. Move(d, s)
      BY <1>3
    <2> HIDE DEF s
    <2>4. /\ Moves(d) /\ dev'[d].pc = "next" /\ dev'[d].call = dev[d].call
          /\ dev'[d].answer = dev[d].answer /\ dev'[d].folder = dev[d].folder
      BY <1>1, <2>2, <2>3, MovesTo
    <2>5. QED
      BY <1>1, <2>4, GoingToNext
  <1>4. QED
    BY <1>2, <1>3 DEF ListLegacy

LEMMA NextLegacyShows ==
    ASSUME IInv, IInv', SeenInv, ~split', NEW d \in Device, NextLegacy(d)
    PROVE  SeenInv' /\ Remote!Next
  <1>1. /\ Remember /\ DriveMoves /\ orphans' = orphans /\ Live' = Live
        /\ \A k \in Key : Store'[k] = Store[k]
        /\ dev[d].pc = "next" /\ dev \in [Device -> CallState]
        /\ dev[d].call.op = "migrate" /\ dev[d].pc \in InFolder
    BY ReadsShow DEF NextLegacy, IInv, CallGood, OperandsFit, InFolder
  <1>2. CASE Finish(d, Ok)
    <2>1. Remote!Truthful(d, Ok) /\ Ok \in Answers
      BY <1>1 DEF Remote!Truthful, Ok, Answers
    <2>2. QED
      BY <1>1, <1>2, <2>1, Ended
  <1>3. ASSUME NEW k \in dev[d].todo,
               Move(d, [dev[d] EXCEPT !.pc = "find", !.key = k, !.buf = None,
                          !.todo = @ \ {k}])
        PROVE  SeenInv' /\ Remote!Next
    <2> DEFINE left == dev[d].todo \ {k}
               s == [dev[d] EXCEPT !.pc = "find", !.key = k, !.buf = None, !.todo = left]
    <2>1. left \in SUBSET Key /\ k \in Key
      BY <1>1 DEF CallState
    <2>2. Move(d, s)
      BY <1>3
    <2> HIDE DEF left
    <2>3. s \in CallState
      <3>1. dev[d] \in CallState /\ "find" \in Step
        BY <1>1 DEF Step
      <3>2. k \in Key \cup {None} /\ None \in Data \cup {None} /\ left \in SUBSET Key
        BY <2>1
      <3>3. QED
        BY <3>1, <3>2 DEF CallState
    <2>4. /\ s.pc = "find" /\ s.call = dev[d].call /\ s.answer = dev[d].answer
          /\ s.folder = dev[d].folder /\ s.buf = None
      BY <1>1 DEF CallState
    <2> HIDE DEF s
    <2>5. /\ Moves(d) /\ dev'[d].pc = "find" /\ dev'[d].call = dev[d].call
          /\ dev'[d].answer = dev[d].answer /\ dev'[d].folder = dev[d].folder
          /\ dev'[d].buf = None
      BY <1>1, <2>2, <2>3, <2>4, MovesTo
    <2>6. Watches(d) => SawTruly(d)'
      <3>1. Watches(d) => dev'[d].folder \in Live'
        BY <1>1, <2>5 DEF Watches, SawTruly
      <3>2. QED
        BY <2>5, <3>1, StillTrue DEF OnHit, Copying
    <2>7. QED
      BY <1>1, <2>5, <2>6, Unseen
  <1>4. QED
    BY <1>2, <1>3 DEF NextLegacy

LEMMA FetchShows ==
    ASSUME IInv, IInv', SeenInv, ~split', NEW d \in Device, Fetch(d)
    PROVE  SeenInv' /\ Remote!Next
  <1>1. /\ Remember /\ DriveMoves /\ orphans' = orphans /\ Live' = Live
        /\ \A k \in Key : Store'[k] = Store[k]
        /\ dev[d].pc = "fetch" /\ dev \in [Device -> CallState] /\ DriveGood
    BY ReadsShow DEF Fetch, IInv
  <1>2. CASE Failed(d)
    BY <1>1, <1>2, FailureShows
  <1>3. CASE /\ legacy[dev[d].key] # None
             /\ Move(d, [dev[d] EXCEPT !.pc = "find", !.buf = legacy[dev[d].key]])
    <2> DEFINE v == legacy[dev[d].key]
               s == [dev[d] EXCEPT !.pc = "find", !.buf = v]
    <2>1. dev[d].key \in Key
      BY <1>1 DEF IInv, CallGood, PlacesKnown, CallState
    <2>2. v \in Data
      BY <1>1, <1>3, <2>1 DEF DriveGood
    <2>3. Move(d, s)
      BY <1>3
    <2> HIDE DEF v
    <2>4. /\ s \in CallState /\ s.pc = "find" /\ s.call = dev[d].call
          /\ s.answer = dev[d].answer /\ s.folder = dev[d].folder
          /\ s.key = dev[d].key
      <3>1. dev[d] \in CallState /\ "find" \in Step /\ v \in Data \cup {None}
        BY <1>1, <2>2 DEF Step
      <3>2. s \in CallState
        BY ONLY <3>1 DEF CallState
      <3>3. /\ s.pc = "find" /\ s.call = dev[d].call /\ s.answer = dev[d].answer
            /\ s.folder = dev[d].folder /\ s.key = dev[d].key
        BY ONLY <3>1 DEF CallState
      <3>4. QED
        BY <3>2, <3>3
    <2> HIDE DEF s
    <2>5. /\ Moves(d) /\ dev'[d].pc = "find" /\ dev'[d].call = dev[d].call
          /\ dev'[d].answer = dev[d].answer /\ dev'[d].folder = dev[d].folder
          /\ dev'[d].key = dev[d].key
      BY <1>1, <2>3, <2>4, MovesTo
    <2>6. ASSUME Watches(d)
          PROVE  SawTruly(d)'
      <3>1. dev'[d].folder \in Live' /\ None \in seen[d][dev[d].key]
        BY <1>1, <2>5, <2>6 DEF Watches, SawTruly, InFolder
      <3>2. None \in seen'[d][dev'[d].key]
        BY <2>1, <2>5, <2>6, <3>1 DEF Watches
      <3>3. QED
        BY <2>5, <2>6, <3>1, <3>2, StillTrue DEF OnHit
    <2>7. QED
      BY <1>1, <2>5, <2>6, Unseen
  <1>4. QED
    BY <1>2, <1>3 DEF Fetch

LEMMA FindShows ==
    ASSUME IInv, IInv', SeenInv, ~split', NEW d \in Device, Find(d)
    PROVE  SeenInv' /\ Remote!Next
  <1> DEFINE hits == Hits({dev[d].folder}, dev[d].key)
             op == dev[d].call.op
             id == files[Newest(hits)].id
             pc == CASE op \in {"upload", "migrate"} -> "patch"
                     [] op = "download" -> "get"
                     [] op = "metadata" -> "fields"
                     [] op = "delete"   -> "remove"
             s == [dev[d] EXCEPT !.hit = id, !.pc = pc]
  <1>1. /\ Remember /\ DriveMoves /\ orphans' = orphans /\ Live' = Live
        /\ \A k \in Key : Store'[k] = Store[k]
        /\ dev[d].pc = "find" /\ files' = files
    BY ReadsShow DEF Find
  <1>2. /\ dev \in [Device -> CallState] /\ CallGood(d) /\ DriveGood /\ dev[d].key \in Key
        /\ dev[d].call \in Call /\ dev[d].pc \in InFolder
    BY <1>1, Busy DEF IInv, CallGood, PlacesKnown, OnFile, InFolder, CallState
  <1>3. ~split /\ OneFolder
    BY <1>1, StillOne DEF IInv, SeenInv
  <1>4. op \in {"upload", "download", "metadata", "delete", "migrate"}
    BY <1>1, <1>2 DEF CallGood, OperandsFit, Call, Upload, OnKey
  <1>5. /\ op = "upload" => dev[d].buf # None
        /\ op \in {"download", "metadata", "delete"} => dev[d].key = dev[d].call.key
    BY <1>1, <1>2, DriveAssumption DEF CallGood, OperandsFit, OnFile, Call, Upload, OnKey
  <1>6. ASSUME SawTruly(d), hits = {}
        PROVE  None \in seen[d][dev[d].key]
    <2>1. Store[dev[d].key] = None
      BY <1>2, <1>3, <1>6, FolderShows
    <2>2. QED
      BY <1>2, <1>6, <2>1 DEF SawTruly
  <1>7. ASSUME NEW to \in {"next", "create", "fetch"}, Goto(d, to),
               Watches(d) /\ (to = "fetch" \/ (to = "create" /\ Copying(dev[d])))
                 => None \in seen[d][dev[d].key]
        PROVE  SeenInv' /\ Remote!Next
    <2>1. to \in Step
      BY DEF Step
    <2>2. /\ Moves(d) /\ dev'[d].pc = to /\ dev'[d].call = dev[d].call
          /\ dev'[d].answer = dev[d].answer /\ dev'[d].folder = dev[d].folder
          /\ dev'[d].key = dev[d].key /\ dev'[d].buf = dev[d].buf
      BY <1>2, <1>7, <2>1, GoesTo
    <2>3. ASSUME Watches(d)
          PROVE  SawTruly(d)'
      <3>1. dev'[d].folder \in Live'
        BY <1>1, <1>2, <2>2, <2>3 DEF Watches, SawTruly
      <3>2. to = "fetch" \/ (to = "create" /\ Copying(dev[d]))
              => None \in seen'[d][dev[d].key]
        BY <1>2, <1>7, <2>3 DEF Watches
      <3>3. Copying(dev'[d]) => Copying(dev[d])
        BY <2>2 DEF Copying
      <3>4. QED
        BY <2>2, <2>3, <3>1, <3>2, <3>3, StillTrue DEF OnHit
    <2>4. QED
      BY <1>1, <2>2, <2>3, Unseen
  <1>8. CASE hits # {} /\ op = "migrate" /\ dev[d].buf = None /\ Goto(d, "next")
    BY <1>7, <1>8
  <1>9. CASE /\ hits # {} /\ ~(op = "migrate" /\ dev[d].buf = None)
             /\ Move(d, s)
    <2>1. id \in Id /\ Newest(hits) \in hits /\ Newest(hits) \in 1 .. Len(files)
      BY <1>2, <1>9, Found
    <2>2. ASSUME NEW i \in 1 .. Len(files), files[i].id = id
          PROVE  files[i].folder = dev[d].folder
                 /\ (SawTruly(d) => files[i].data \in seen[d][dev[d].key])
      <3>1. i = Newest(hits)
        BY <1>2, <2>1, <2>2 DEF DriveGood
      <3>2. files[i].folder = dev[d].folder
        BY <2>1, <3>1 DEF Hits
      <3>3. SawTruly(d) => Store[dev[d].key] = files[i].data
        BY <1>2, <1>3, <1>9, <3>1, FolderShows
      <3>4. QED
        BY <1>2, <3>2, <3>3 DEF SawTruly
    <2> HIDE DEF id
    <2>3. /\ pc \in OnHit /\ pc \in Step
          /\ pc = "patch" => op \in {"upload", "migrate"}
          /\ pc = "get" => op = "download"
      BY <1>4 DEF OnHit, Step
    <2> HIDE DEF pc
    <2>4. s \in CallState
      <3>1. id \in Nat \cup {None} /\ dev[d] \in CallState
        BY <1>2, <2>1 DEF Id
      <3>2. QED
        BY <2>3, <3>1 DEF CallState
    <2>5. /\ s.pc = pc /\ s.call = dev[d].call /\ s.answer = dev[d].answer
          /\ s.folder = dev[d].folder /\ s.key = dev[d].key
          /\ s.hit = id /\ s.buf = dev[d].buf
      BY <1>2 DEF CallState
    <2>6. Move(d, s)
      BY <1>9
    <2> HIDE DEF s
    <2>7. /\ Moves(d) /\ dev'[d].pc = pc /\ dev'[d].call = dev[d].call
          /\ dev'[d].answer = dev[d].answer /\ dev'[d].folder = dev[d].folder
          /\ dev'[d].key = dev[d].key /\ dev'[d].hit = id /\ dev'[d].buf = dev[d].buf
      BY <1>2, <2>4, <2>5, <2>6, MovesTo
    <2>8. ASSUME Watches(d)
          PROVE  SawTruly(d)'
      <3>1. SawTruly(d) /\ \A k \in Key : seen'[d][k] = seen[d][k] \cup {Store'[k]}
        BY <2>8 DEF Watches
      <3>2. \A k \in Key : Store'[k] \in seen'[d][k]
        BY <3>1
      <3>3. dev'[d].folder \in Live'
        BY <1>1, <1>2, <2>7, <3>1 DEF SawTruly
      <3>4. \A i \in 1 .. Len(files') :
              files'[i].id = dev'[d].hit =>
                /\ files'[i].folder = dev'[d].folder
                /\ files'[i].data \in seen'[d][dev'[d].key]
        BY <1>1, <1>2, <2>2, <2>7, <3>1
      <3>5. Copying(dev'[d]) => Copying(dev[d])
        BY <2>7 DEF Copying
      <3>6. Copying(dev[d]) => None \in seen[d][dev[d].key]
        BY <1>1, <3>1 DEF SawTruly
      <3>7. Copying(dev'[d]) => None \in seen'[d][dev'[d].key]
        BY <1>2, <2>7, <3>1, <3>5, <3>6
      <3>8. QED
        BY <2>3, <2>7, <3>2, <3>3, <3>4, <3>7 DEF SawTruly, OnHit
    <2>9. QED
      BY <1>1, <2>7, <2>8, Unseen
  <1>10. CASE hits = {} /\ dev[d].buf # None /\ Goto(d, "create")
    <2>1. Watches(d) => None \in seen[d][dev[d].key]
      BY <1>6, <1>10 DEF Watches
    <2>2. QED
      BY <1>7, <1>10, <2>1
  <1>11. CASE hits = {} /\ dev[d].buf = None /\ op = "migrate" /\ Goto(d, "fetch")
    <2>1. Watches(d) => None \in seen[d][dev[d].key]
      BY <1>6, <1>11 DEF Watches
    <2>2. QED
      BY <1>7, <1>11, <2>1
  <1>12. CASE /\ hits = {} /\ dev[d].buf = None /\ op # "migrate"
              /\ Finish(d, [kind |-> "notFound"])
    <2> DEFINE a == [kind |-> "notFound"]
    <2>1. a \in Answers
      BY DEF Answers
    <2>2. dev[d].key = dev[d].call.key
      BY <1>4, <1>5, <1>12
    <2>3. SawTruly(d) => Remote!Truthful(d, a)
      BY <1>6, <1>12, <2>2 DEF Remote!Truthful
    <2> HIDE DEF a
    <2>4. Finish(d, a)
      BY <1>12 DEF a
    <2>5. QED
      BY <1>1, <2>1, <2>3, <2>4, Ended
  <1>13. QED
    <2>1. CASE hits # {} /\ op = "migrate" /\ dev[d].buf = None
      BY <1>8, <2>1 DEF Find
    <2>2. CASE hits # {} /\ ~(op = "migrate" /\ dev[d].buf = None)
      BY <1>9, <2>2 DEF Find
    <2>3. CASE hits = {} /\ dev[d].buf # None
      <3>1. Goto(d, "create")
        BY <2>3 DEF Find
      <3>2. QED
        BY <1>10, <2>3, <3>1
    <2>4. CASE hits = {} /\ dev[d].buf = None /\ op = "migrate"
      <3>1. Goto(d, "fetch")
        BY <2>4 DEF Find
      <3>2. QED
        BY <1>11, <2>4, <3>1
    <2>5. CASE hits = {} /\ dev[d].buf = None /\ op # "migrate"
      <3>1. Finish(d, [kind |-> "notFound"])
        BY <2>5 DEF Find
      <3>2. QED
        BY <1>12, <2>5, <3>1
    <2>6. QED
      BY <2>1, <2>2, <2>3, <2>4, <2>5

(* A file is written: the store shows it, or the folder was thrown away.   *)
LEMMA PutShows ==
    ASSUME IInv, IInv', SeenInv, Remember, ~split', DriveMoves, orphans' = orphans,
           NEW d \in Device, dev[d].pc \in {"patch", "create"}, Stored(d),
           Store'[dev[d].key] \in {Store[dev[d].key], dev[d].buf},
           \A k \in Key : k # dev[d].key => Store'[k] = Store[k],
           d \notin overtaken => Store'[dev[d].key] = dev[d].buf
    PROVE  SeenInv' /\ Remote!Next
  <1> DEFINE key == dev[d].key
             buf == dev[d].buf
             c == dev[d].call
  <1>1. /\ InCall(d) /\ dev \in [Device -> CallState] /\ dev[d] \in CallState
        /\ c \in Call /\ CallGood(d)
    BY Busy DEF IInv
  <1>2. /\ key \in Key /\ buf \in Data /\ c.op \in {"upload", "migrate"}
        /\ dev[d].pc \in InFolder
    BY <1>1, DriveAssumption
    DEF CallGood, OperandsFit, PlacesKnown, OnFile, OnHit, InFolder, CallState
  <1>3. c.op = "upload" => key = c.key /\ buf = c.data
    BY <1>1 DEF CallGood, OperandsFit, OnFile, OnHit, Call, Upload, OnKey
  <1>4. ASSUME c.op = "upload"
        PROVE  SeenInv' /\ Remote!Next
    <2>1. Finish(d, Ok) /\ Ok \in Answers
      BY <1>4 DEF Stored, Copying, Ok, Answers
    <2>2. CASE Store'[key] = buf
      <3>1. Moves(d) /\ dev'[d].call = dev[d].call /\ dev'[d].answer = Ok
        BY <1>1, <2>1, Finishes
      <3>2. Remote!MayWrite(d, key, Store'[key])
        BY <1>3, <1>4, <2>2 DEF Remote!MayWrite
      <3>3. ~ InCall(d)'
        BY <2>1, <3>1, DriveAssumption DEF InCall
      <3>4. QED
        BY <1>1, <1>2, <2>2, <3>1, <3>2, <3>3, Written
    <2>3. CASE Store'[key] # buf
      <3>1. d \in overtaken /\ \A k \in Key : Store'[k] = Store[k]
        BY <2>3
      <3>2. QED
        BY <2>1, <3>1, Ended
    <2>4. QED
      BY <2>2, <2>3
  <1>5. ASSUME c.op = "migrate"
        PROVE  SeenInv' /\ Remote!Next
    <2>1. Copying(dev[d])
      BY <1>2, <1>5, DriveAssumption DEF Copying
    <2>2. "drop" \in Step /\ Goto(d, "drop")
      BY <2>1 DEF Stored, Step
    <2>3. /\ Moves(d) /\ dev'[d].pc = "drop" /\ dev'[d].call = dev[d].call
          /\ dev'[d].answer = dev[d].answer /\ dev'[d].folder = dev[d].folder
      BY <1>1, <2>2, GoesTo
    <2>4. Watches(d) => SawTruly(d)'
      <3>1. SawTruly(d) => dev'[d].folder \in Live'
        BY <1>2, <2>3 DEF SawTruly, DriveMoves
      <3>2. QED
        BY <2>3, <3>1, StillTrue DEF Watches, OnHit
    <2>5. CASE Store'[key] = buf
      <3>1. SawTruly(d) => None \in seen[d][key]
        BY <2>1 DEF SawTruly
      <3>2. SawTruly(d) \/ d \in overtaken => Remote!MayWrite(d, key, Store'[key])
        BY <1>2, <1>5, <2>5, <3>1 DEF Remote!MayWrite
      <3>3. QED
        BY <1>1, <1>2, <2>3, <2>4, <2>5, <3>2, Written
    <2>6. CASE Store'[key] # buf
      BY <2>3, <2>4, <2>6, Unseen
    <2>7. QED
      BY <2>5, <2>6
  <1>6. QED
    BY <1>2, <1>4, <1>5

LEMMA PatchingShows ==
    ASSUME IInv, IInv', SeenInv, ~split', NEW d \in Device, Patch(d)
    PROVE  SeenInv' /\ Remote!Next
  <1>1. dev[d].pc = "patch" /\ Remember /\ orphans' = orphans /\ DriveGood'
    BY DEF Patch, Changes, IInv
  <1>2. ~split /\ OneFolder'
    BY <1>1, StillOne
  <1>3. ASSUME NEW r \in Request(d), Execute(r), Stored(d)
        PROVE  SeenInv' /\ Remote!Next
    <2>1. r = [kind |-> "patch", id |-> dev[d].hit, name |-> dev[d].key,
               data |-> dev[d].buf]
      BY <1>1 DEF Request
    <2>2. r.kind = "patch" /\ r.id = dev[d].hit /\ r.name = dev[d].key /\ r.data = dev[d].buf
      BY <2>1
    <2>3. RequestGood(r)
      BY RequestFits
    <2>4. Shows(r) /\ DriveMoves
      BY <1>1, <1>2, <1>3, <2>3, ExecuteShows
    <2>5. r.id \in FileIds
      BY <1>3, <2>2 DEF Execute
    <2>6. d \notin overtaken => Store'[dev[d].key] = dev[d].buf
      <3>1. SUFFICES ASSUME d \notin overtaken
                     PROVE  Store'[dev[d].key] = dev[d].buf
        OBVIOUS
      <3>2. SawTruly(d)
        BY <1>1, <1>2, <3>1, Busy DEF SeenInv
      <3>3. PICK i \in 1 .. Len(files) : files[i].id = dev[d].hit
        BY <2>2, <2>5, WithoutFile DEF IInv
      <3>4. files[i].folder \in Live
        BY <1>1, <3>2, <3>3 DEF SawTruly, OnHit, OnFile, InFolder
      <3>5. QED
        BY <2>2, <2>4, <3>3, <3>4 DEF Shows
    <2>7. /\ Store'[dev[d].key] \in {Store[dev[d].key], dev[d].buf}
          /\ \A k \in Key : k # dev[d].key => Store'[k] = Store[k]
      BY <2>2, <2>4 DEF Shows
    <2>8. QED
      BY <1>1, <1>3, <2>4, <2>6, <2>7, PutShows
  <1>4. CASE Failed(d) /\ UNCHANGED drive
    <2>1. UNCHANGED <<folders, files>>
      BY <1>4 DEF drive
    <2>2. DriveMoves /\ \A k \in Key : Store'[k] = Store[k]
      BY <2>1, SameShows
    <2>3. QED
      BY <1>1, <1>4, <2>2, FailureShows
  <1>5. QED
    BY <1>3, <1>4 DEF Patch

LEMMA CreatingShows ==
    ASSUME IInv, IInv', SeenInv, ~split', NEW d \in Device, Create(d)
    PROVE  SeenInv' /\ Remote!Next
  <1>1. /\ dev[d].pc = "create" /\ Remember /\ orphans' = orphans /\ DriveGood'
        /\ Stored(d)
    BY DEF Create, Changes, IInv
  <1>2. ~split /\ OneFolder'
    BY <1>1, StillOne
  <1>3. PICK r \in Request(d) : Execute(r)
    BY DEF Create
  <1>4. r = [kind |-> "create", folder |-> dev[d].folder, name |-> dev[d].key,
             data |-> dev[d].buf]
    BY <1>1 DEF Request
  <1>5. /\ r.kind = "create" /\ r.folder = dev[d].folder /\ r.name = dev[d].key
        /\ r.data = dev[d].buf
    BY <1>4
  <1>6. RequestGood(r)
    BY RequestFits
  <1>7. Shows(r) /\ DriveMoves
    BY <1>1, <1>2, <1>3, <1>6, ExecuteShows
  <1>8. d \notin overtaken => Store'[dev[d].key] = dev[d].buf
    <2>1. SUFFICES ASSUME d \notin overtaken
                   PROVE  Store'[dev[d].key] = dev[d].buf
      OBVIOUS
    <2>2. SawTruly(d)
      BY <1>1, <1>2, <2>1, Busy DEF SeenInv
    <2>3. dev[d].folder \in Live
      BY <1>1, <2>2 DEF SawTruly, OnFile, InFolder
    <2>4. QED
      BY <1>5, <1>7, <2>3 DEF Shows
  <1>9. /\ Store'[dev[d].key] \in {Store[dev[d].key], dev[d].buf}
        /\ \A k \in Key : k # dev[d].key => Store'[k] = Store[k]
    BY <1>5, <1>7 DEF Shows
  <1>10. QED
    BY <1>1, <1>7, <1>8, <1>9, PutShows

(* Whatever there is now, it is data or nothing. *)
LEMMA StoreHolds ==
    ASSUME DriveGood', NEW k \in Key
    PROVE  Store'[k] \in Data \cup {None}
  <1> DEFINE hits == Hits(Live, k)'
  <1>1. hits \subseteq 1 .. Len(files')
    BY DEF Hits, DriveGood
  <1> HIDE DEF hits
  <1>2. CASE hits = {}
    BY <1>2, EntryNext DEF hits
  <1>3. CASE hits # {}
    <2>1. Newest(hits) \in 1 .. Len(files')
      <3>1. Len(files') \in Nat
        BY DEF DriveGood
      <3>2. hits \in SUBSET Nat
        BY <1>1, <3>1
      <3>3. Newest(hits) \in hits
        BY <1>3, <3>2, NewestIsAHit
      <3>4. QED
        BY <1>1, <3>3
    <2>2. files'[Newest(hits)] \in File
      BY <2>1 DEF DriveGood
    <2>3. Store'[k] = files'[Newest(hits)].data
      BY <1>3, EntryNext DEF hits
    <2>4. QED
      BY <2>2, <2>3 DEF File
  <1>4. QED
    BY <1>2, <1>3

LEMMA RemovingShows ==
    ASSUME IInv, IInv', SeenInv, ~split', NEW d \in Device, Remove(d)
    PROVE  SeenInv' /\ Remote!Next
  <1>1. dev[d].pc = "remove" /\ Remember /\ orphans' = orphans /\ DriveGood'
    BY DEF Remove, Changes, IInv
  <1>2. ~split /\ OneFolder'
    BY <1>1, StillOne
  <1>3. ASSUME NEW r \in Request(d), Execute(r), Finish(d, Ok)
        PROVE  SeenInv' /\ Remote!Next
    <2>1. r = [kind |-> "remove", id |-> dev[d].hit, name |-> dev[d].key]
      BY <1>1 DEF Request
    <2>2. r.kind = "remove" /\ r.name = dev[d].key
      BY <2>1
    <2>3. RequestGood(r)
      BY RequestFits
    <2>4. Shows(r) /\ DriveMoves
      BY <1>1, <1>2, <1>3, <2>3, ExecuteShows
    <2>5. /\ InCall(d) /\ dev[d] \in CallState /\ dev[d].call \in Call /\ CallGood(d)
          /\ dev \in [Device -> CallState]
      BY <1>1, Busy DEF IInv
    <2>6. /\ dev[d].key \in Key /\ dev[d].call.op = "delete"
          /\ dev[d].key = dev[d].call.key
      BY <1>1, <2>5
      DEF CallGood, OperandsFit, PlacesKnown, OnFile, OnHit, CallState, Call, Upload, OnKey
    <2>7. Store'[dev[d].key] \in Data \cup {None}
      BY <1>1, <2>6, StoreHolds
    <2>8. Remote!MayWrite(d, dev[d].key, Store'[dev[d].key])
      BY <2>6, <2>7 DEF Remote!MayWrite
    <2>9. Ok \in Answers /\ Ok # None
      BY DriveAssumption DEF Ok, Answers
    <2>10. Moves(d) /\ dev'[d].call = dev[d].call /\ dev'[d].answer = Ok
      BY <1>3, <2>5, <2>9, Finishes
    <2>11. ~ InCall(d)'
      BY <2>9, <2>10 DEF InCall
    <2>12. \A k \in Key : k # dev[d].key => Store'[k] = Store[k]
      BY <2>2, <2>4 DEF Shows
    <2>13. QED
      BY <1>1, <2>4, <2>5, <2>6, <2>7, <2>8, <2>10, <2>11, <2>12, Written
  <1>4. CASE Failed(d) /\ UNCHANGED drive
    <2>1. UNCHANGED <<folders, files>>
      BY <1>4 DEF drive
    <2>2. DriveMoves /\ \A k \in Key : Store'[k] = Store[k]
      BY <2>1, SameShows
    <2>3. QED
      BY <1>1, <1>4, <2>2, FailureShows
  <1>5. QED
    BY <1>3, <1>4 DEF Remove

LEMMA DropShows ==
    ASSUME IInv, IInv', SeenInv, ~split', NEW d \in Device, Drop(d)
    PROVE  SeenInv' /\ Remote!Next
  <1> DEFINE s == [dev[d] EXCEPT !.pc = "next", !.buf = None]
  <1>1. /\ dev[d].pc = "drop" /\ Remember /\ orphans' = orphans
        /\ dev \in [Device -> CallState] /\ Move(d, s)
    BY DEF Drop, Changes, IInv
  <1>2. UNCHANGED <<folders, files>>
    <2>1. ASSUME NEW r \in Request(d), Execute(r)
          PROVE  UNCHANGED <<folders, files>>
      <3>1. r = [kind |-> "drop", name |-> dev[d].key]
        BY <1>1 DEF Request
      <3>2. r.kind = "drop"
        BY <3>1
      <3>3. QED
        BY <2>1, <3>2 DEF Execute
    <2>2. CASE UNCHANGED drive
      BY <2>2 DEF drive
    <2>3. QED
      BY <2>1, <2>2 DEF Drop
  <1>3. DriveMoves /\ \A k \in Key : Store'[k] = Store[k]
    BY <1>2, SameShows
  <1>4. /\ s \in CallState /\ s.pc = "next" /\ s.call = dev[d].call
        /\ s.answer = dev[d].answer /\ s.folder = dev[d].folder
    <2>1. dev[d] \in CallState /\ "next" \in Step /\ None \in Data \cup {None}
      BY <1>1 DEF Step
    <2>2. QED
      BY ONLY <2>1 DEF CallState
  <1> HIDE DEF s
  <1>5. /\ Moves(d) /\ dev'[d].pc = "next" /\ dev'[d].call = dev[d].call
        /\ dev'[d].answer = dev[d].answer /\ dev'[d].folder = dev[d].folder
    BY <1>1, <1>4, MovesTo
  <1>6. dev[d].pc \in InFolder
    BY <1>1 DEF InFolder
  <1>7. QED
    BY <1>1, <1>3, <1>5, <1>6, GoingToNext

LEMMA BeginShows ==
    ASSUME IInv, IInv', SeenInv, ~split', NEW d \in Device, Begin(d)
    PROVE  SeenInv' /\ Remote!Next
  <1>1. /\ Remember /\ UNCHANGED <<folders, files>> /\ orphans' = orphans
        /\ dev[d].pc = "idle" /\ CallGood(d) /\ DriveGood'
    BY DEF Begin, drive, IInv
  <1>2. PICK c \in Call, cache \in {dev[d].cache, None} :
          Move(d, [Idle EXCEPT !.call = c, !.cache = cache,
                     !.pc = IF cache = None THEN "search" ELSE "check"])
    BY DEF Begin
  <1> DEFINE pc == IF cache = None THEN "search" ELSE "check"
             s == [Idle EXCEPT !.call = c, !.cache = cache, !.pc = pc]
  <1>3. dev \in [Device -> CallState] /\ cache \in Nat \cup {None}
        /\ 1 \in 1 .. MAX_ATTEMPTS
    BY DriveAssumption DEF CallState, IInv
  <1>4. pc \in {"search", "check"} /\ pc \in Step
    BY DEF Step
  <1> HIDE DEF pc
  <1>5. s \in CallState
    BY <1>3, <1>4 DEF Idle, CallState
  <1>6. s.pc = pc /\ s.call = c /\ s.answer = None
    BY DEF Idle
  <1>7. Move(d, s)
    BY <1>2 DEF pc
  <1> HIDE DEF s
  <1>8. Moves(d) /\ dev'[d].pc = pc /\ dev'[d].call = c /\ dev'[d].answer = None
    BY <1>3, <1>5, <1>6, <1>7, MovesTo
  <1>9. c # None /\ dev[d].call = None /\ dev[d].answer = None
    BY <1>1, DriveAssumption DEF CallGood
  <1>10. DriveMoves /\ Store' = Store
    BY <1>1, SameShows, StoreStays
  <1>11. \A i \in Live : folders'[i] # "trashed"
    BY <1>1 DEF Live
  <1>12. ~split /\ Remote!See
    BY <1>1, RemoteSees
  <1>13. overtaken' = overtaken
    <2>1. overtaken' = {e \in overtaken : dev'[e].call # None}
      BY <1>1, <1>11, NotOvertaken
    <2>2. overtaken \subseteq {e \in Device : dev[e].call # None}
      BY <1>12 DEF SeenInv
    <2>3. \A e \in overtaken : dev'[e].call # None
      BY <1>8, <1>9, <2>2 DEF Moves
    <2>4. QED
      BY <2>1, <2>3
  <1>14. InCall(d)' /\ d \notin overtaken' => SawTruly(d)'
    <2>1. SUFFICES ASSUME InCall(d)', d \notin overtaken'
                   PROVE  SawTruly(d)'
      OBVIOUS
    <2>2. \A k \in Key : Store'[k] \in seen'[d][k]
      BY <1>1, <2>1, SeesNow
    <2>3. QED
      BY <1>4, <1>8, <2>2 DEF SawTruly, InFolder, OnFile, OnHit
  <1>15. SeenInv'
    BY <1>1, <1>8, <1>10, <1>11, <1>14, SeenStep
  <1>16. LostWrites' = LostWrites
    BY <1>1 DEF LostWrites
  <1>17. Remote!Begin(d)
    <2>1. [e \in Device |-> dev'[e].call] =
            [[e \in Device |-> dev[e].call] EXCEPT ![d] = dev'[d].call]
      BY <1>8 DEF Moves
    <2>2. [e \in Device |-> dev'[e].answer] = [e \in Device |-> dev[e].answer]
      BY <1>8, <1>9 DEF Moves
    <2>3. QED
      BY <1>8, <1>9, <1>10, <1>13, <1>16, <2>1, <2>2 DEF Remote!Begin
  <1>18. QED
    BY <1>12, <1>15, <1>17 DEF Remote!Next

LEMMA ReturnShows ==
    ASSUME IInv, IInv', SeenInv, ~split', NEW d \in Device, Return(d)
    PROVE  SeenInv' /\ Remote!Next
  <1> DEFINE cache == dev[d].cache
             s == [Idle EXCEPT !.cache = cache]
  <1>1. /\ Remember /\ DriveMoves /\ orphans' = orphans /\ Live' = Live
        /\ \A k \in Key : Store'[k] = Store[k]
        /\ UNCHANGED folders /\ DriveGood'
        /\ dev[d].pc = "done" /\ CallGood(d)
    BY ReadsShow DEF Return, IInv
  <1>2. /\ dev \in [Device -> CallState] /\ cache \in Nat \cup {None}
        /\ 1 \in 1 .. MAX_ATTEMPTS
    BY DriveAssumption DEF CallState, IInv
  <1>3. Move(d, s)
    BY DEF Return
  <1> HIDE DEF cache
  <1>4. s \in CallState /\ s.call = None /\ s.answer = None
    BY <1>2 DEF Idle, CallState, Step
  <1> HIDE DEF s
  <1>5. Moves(d) /\ dev'[d].call = None /\ dev'[d].answer = None
    BY <1>2, <1>3, <1>4, MovesTo
  <1>6. \A i \in Live : folders'[i] # "trashed"
    BY <1>1 DEF Live
  <1>7. ~split /\ Remote!See
    BY <1>1, RemoteSees
  <1>8. overtaken' = overtaken \ {d}
    <2>1. overtaken' = {e \in overtaken : dev'[e].call # None}
      BY <1>1, <1>6, NotOvertaken
    <2>2. overtaken \subseteq {e \in Device : dev[e].call # None}
      BY <1>7 DEF SeenInv
    <2>3. \A e \in overtaken \ {d} : dev'[e].call # None
      BY <1>5, <2>2 DEF Moves
    <2>4. QED
      BY <1>5, <2>1, <2>3
  <1>9. ~ InCall(d)'
    BY <1>5 DEF InCall
  <1>10. SeenInv'
    BY <1>1, <1>5, <1>6, <1>9, SeenStep
  <1>11. LostWrites' = LostWrites /\ Store' = Store
    BY <1>1, StoreStays DEF LostWrites
  <1>12. Remote!Return(d)
    <2>1. [e \in Device |-> dev'[e].call] =
            [[e \in Device |-> dev[e].call] EXCEPT ![d] = None]
      BY <1>5 DEF Moves
    <2>2. [e \in Device |-> dev'[e].answer] =
            [[e \in Device |-> dev[e].answer] EXCEPT ![d] = None]
      BY <1>5 DEF Moves
    <2>3. dev[d].answer # None
      BY <1>1 DEF CallGood
    <2>4. QED
      BY <1>8, <1>11, <2>1, <2>2, <2>3 DEF Remote!Return
  <1>13. QED
    BY <1>7, <1>10, <1>12 DEF Remote!Next

(* What a lost request may still write is what its call may write.         *)
Effects(r) ==
    CASE r.kind \in {"patch", "create"} -> {<<r.name, r.data>>}
      [] r.kind = "remove" -> {r.name} \X (Data \cup {None})
      [] OTHER -> {}

(* What may still be written, request by request. *)
LEMMA LostAre ==
    /\ \A w : w \in LostWrites <=> \E r \in orphans : w \in Effects(r)
    /\ \A w : w \in LostWrites' <=> \E r \in orphans' : w \in Effects(r)
  BY DEF LostWrites, Effects

(* A call loses only requests for what it may write. *)
LEMMA LostByCall ==
    ASSUME IInv, NEW d \in Device, InCall(d), orphans' = orphans \cup Request(d)
    PROVE  /\ LostWrites \subseteq LostWrites'
           /\ d \in overtaken \/ SawTruly(d) =>
                \A w \in LostWrites' \ LostWrites : Remote!MayWrite(d, w[1], w[2])
  <1>1. /\ CallGood(d) /\ dev[d] \in CallState /\ dev[d].call \in Call
    BY DEF IInv, InCall, CallState
  <1>2. LostWrites \subseteq LostWrites'
    BY LostAre
  <1>3. ASSUME d \in overtaken \/ SawTruly(d), NEW w \in LostWrites' \ LostWrites
        PROVE  Remote!MayWrite(d, w[1], w[2])
    <2>1. PICK r \in Request(d) : w \in Effects(r)
      BY <1>3, LostAre
    <2>2. CASE dev[d].pc \in {"patch", "create"}
      <3>1. /\ r.kind \in {"patch", "create"} /\ r.name = dev[d].key
            /\ r.data = dev[d].buf
        <4>1. CASE dev[d].pc = "patch"
          <5>1. r = [kind |-> "patch", id |-> dev[d].hit, name |-> dev[d].key,
                     data |-> dev[d].buf]
            BY <4>1 DEF Request
          <5>2. QED
            BY <5>1
        <4>2. CASE dev[d].pc = "create"
          <5>1. r = [kind |-> "create", folder |-> dev[d].folder,
                     name |-> dev[d].key, data |-> dev[d].buf]
            BY <4>2 DEF Request
          <5>2. QED
            BY <5>1
        <4>3. QED
          BY <2>2, <4>1, <4>2
      <3>2. w = <<dev[d].key, dev[d].buf>>
        BY <2>1, <3>1 DEF Effects
      <3>3. w[1] = dev[d].key /\ w[2] = dev[d].buf
        BY <3>2
      <3>4. dev[d].buf \in Data /\ dev[d].call.op \in {"upload", "migrate"}
        BY <1>1, <2>2, DriveAssumption DEF CallGood, OperandsFit, CallState
      <3>5. CASE dev[d].call.op = "upload"
        <4>1. dev[d].key = dev[d].call.key /\ dev[d].buf = dev[d].call.data
          BY <1>1, <2>2, <3>5
          DEF CallGood, OperandsFit, OnFile, OnHit, Call, Upload, OnKey
        <4>2. QED
          BY <3>3, <3>5, <4>1 DEF Remote!MayWrite
      <3>6. CASE dev[d].call.op = "migrate"
        <4>1. Copying(dev[d])
          BY <3>4, <3>6, DriveAssumption DEF Copying
        <4>2. SawTruly(d) => None \in seen[d][dev[d].key]
          BY <2>2, <4>1 DEF SawTruly
        <4>3. QED
          BY <1>3, <3>3, <3>4, <3>6, <4>2 DEF Remote!MayWrite
      <3>7. QED
        BY <3>4, <3>5, <3>6
    <2>3. CASE dev[d].pc = "remove"
      <3>1. r = [kind |-> "remove", id |-> dev[d].hit, name |-> dev[d].key]
        BY <2>3 DEF Request
      <3>2. r.kind = "remove" /\ r.name = dev[d].key
        BY <3>1
      <3>3. w \in {dev[d].key} \X (Data \cup {None})
        BY <2>1, <3>2 DEF Effects
      <3>4. w[1] = dev[d].key /\ w[2] \in Data \cup {None}
        BY <3>3
      <3>5. dev[d].call.op = "delete" /\ dev[d].key = dev[d].call.key
        BY <1>1, <2>3 DEF CallGood, OperandsFit, OnFile, OnHit, Call, Upload, OnKey
      <3>6. QED
        BY <3>4, <3>5 DEF Remote!MayWrite
    <2>4. CASE dev[d].pc \notin {"patch", "create", "remove"}
      <3>1. r.kind \in {"mkdir", "drop"}
        <4>1. CASE dev[d].pc = "mkdir"
          BY <4>1 DEF Request
        <4>2. CASE dev[d].pc = "drop"
          <5>1. r = [kind |-> "drop", name |-> dev[d].key]
            BY <4>2 DEF Request
          <5>2. QED
            BY <5>1
        <4>3. CASE dev[d].pc \notin {"mkdir", "drop"}
          BY <2>4, <4>3 DEF Request
        <4>4. QED
          BY <4>1, <4>2, <4>3
      <3>2. QED
        BY <2>1, <3>1 DEF Effects
    <2>5. QED
      BY <2>2, <2>3, <2>4
  <1>4. QED
    BY <1>2, <1>3

LEMMA RetryShows ==
    ASSUME IInv, IInv', SeenInv, ~split', NEW d \in Device, Retry(d)
    PROVE  SeenInv' /\ Remote!Next
  <1> DEFINE n == dev[d].attempt + 1
             s == [dev[d] EXCEPT !.attempt = n]
  <1>1. /\ UNCHANGED <<folders, files>> /\ Remember
        /\ orphans' = orphans \cup Request(d)
        /\ dev' = [dev EXCEPT ![d] = s] /\ dev[d].pc \notin {"idle", "next", "done"}
    BY DEF Retry, drive, Sending
  <1>2. InCall(d) /\ dev \in [Device -> CallState]
    BY <1>1, Busy DEF IInv
  <1>3. n \in 1 .. MAX_ATTEMPTS
    BY <1>2, DriveAssumption DEF Retry, CallState
  <1> HIDE DEF n
  <1>4. /\ s \in CallState
        /\ s.pc = dev[d].pc /\ s.call = dev[d].call /\ s.answer = dev[d].answer
        /\ s.folder = dev[d].folder /\ s.hit = dev[d].hit
        /\ s.key = dev[d].key /\ s.buf = dev[d].buf /\ s.fields = dev[d].fields
    BY <1>2, <1>3 DEF CallState
  <1> HIDE DEF s
  <1>5. Moves(d) /\ dev'[d] = s
    BY <1>1, <1>2, <1>4 DEF Moves
  <1>6. DriveMoves /\ Live' = Live
    BY <1>1, SameShows DEF Live, FolderId
  <1>7. dev[d].pc \in OnFile \cup {"fetch", "drop"} => dev[d].key \in Key
    BY <1>2 DEF IInv, CallGood, PlacesKnown, CallState
  <1>8. ASSUME Watches(d)
        PROVE  SawTruly(d)'
    <2>1. SawTruly(d) /\ \A k \in Key : seen'[d][k] = seen[d][k] \cup {Store'[k]}
      BY <1>8 DEF Watches
    <2>2. \A k \in Key : Store'[k] \in seen'[d][k]
      BY <2>1
    <2>3. dev[d].pc \in InFolder => dev[d].folder \in Live'
      BY <1>6, <2>1 DEF SawTruly
    <2>4. dev[d].pc \in OnHit =>
            \A i \in 1 .. Len(files') :
               files'[i].id = dev[d].hit => /\ files'[i].folder = dev[d].folder
                                            /\ files'[i].data \in seen'[d][dev[d].key]
      BY <1>1, <1>7, <2>1 DEF SawTruly, OnFile
    <2>5. dev[d].pc = "get" /\ dev[d].call.op = "metadata" =>
            dev[d].fields \in seen'[d][dev[d].key] \ {None}
      BY <1>7, <2>1 DEF SawTruly, OnFile, OnHit
    <2>6. dev[d].pc = "fetch" \/ (dev[d].pc \in {"find", "patch", "create"}
                                  /\ Copying(dev[d]))
            => None \in seen'[d][dev[d].key]
      BY <1>7, <2>1 DEF SawTruly, OnFile, OnHit
    <2>7. Copying(dev'[d]) = Copying(dev[d])
      BY <1>4, <1>5 DEF Copying
    <2>8. QED
      BY <1>4, <1>5, <2>2, <2>3, <2>4, <2>5, <2>6, <2>7 DEF SawTruly
  <1>9. /\ LostWrites \subseteq LostWrites'
        /\ d \in overtaken \/ SawTruly(d) =>
             \A w \in LostWrites' \ LostWrites : Remote!MayWrite(d, w[1], w[2])
    BY <1>1, <1>2, LostByCall
  <1>10. QED
    BY <1>1, <1>2, <1>4, <1>5, <1>8, <1>9, Lost

LEMMA GiveUpShows ==
    ASSUME IInv, IInv', SeenInv, ~split', NEW d \in Device, GiveUp(d)
    PROVE  SeenInv' /\ Remote!Next
  <1>1. /\ UNCHANGED <<folders, files>> /\ Remember
        /\ orphans' = orphans \cup Request(d)
        /\ dev[d].pc \notin {"idle", "next", "done"} /\ Failed(d)
    BY DEF GiveUp, drive, Sending
  <1>2. DriveMoves /\ Live' = Live /\ \A k \in Key : Store'[k] = Store[k]
    BY <1>1, SameShows DEF Live, FolderId
  <1>3. InCall(d) /\ dev \in [Device -> CallState]
    BY <1>1, Busy DEF IInv
  <1>4. CASE dev[d].pc \in {"check", "legacy"}
    <2>1. Request(d) = {}
      BY <1>4 DEF Request
    <2>2. orphans' = orphans
      BY <1>1, <2>1
    <2>3. QED
      BY <1>1, <1>2, <2>2, FailureShows
  <1>5. CASE dev[d].pc \notin {"check", "legacy"}
    <2>1. /\ LostWrites \subseteq LostWrites'
          /\ d \in overtaken \/ SawTruly(d) =>
               \A w \in LostWrites' \ LostWrites : Remote!MayWrite(d, w[1], w[2])
      BY <1>1, <1>3, LostByCall
    <2>2. CASE Finish(d, [kind |-> "error"])
      <3> DEFINE a == [kind |-> "error"]
      <3>1. a \in Answers /\ a # None
        BY DriveAssumption DEF Answers
      <3>2. Moves(d) /\ dev'[d].call = dev[d].call /\ dev'[d].answer = a
        BY <1>3, <2>2, <3>1, Finishes
      <3>3. ~ InCall(d)'
        BY <3>1, <3>2 DEF InCall
      <3>4. QED
        BY <1>1, <1>3, <2>1, <3>2, <3>3, Lost
    <2>3. CASE /\ dev[d].pc \in {"fetch", "drop", "find", "patch", "create"}
               /\ dev[d].call.op = "migrate"
               /\ Move(d, [dev[d] EXCEPT !.pc = "next", !.buf = None])
      <3> DEFINE s == [dev[d] EXCEPT !.pc = "next", !.buf = None]
      <3>1. /\ s \in CallState /\ s.pc = "next" /\ s.call = dev[d].call
            /\ s.answer = dev[d].answer /\ s.folder = dev[d].folder
        <4>1. dev[d] \in CallState /\ "next" \in Step /\ None \in Data \cup {None}
          BY <1>3 DEF Step
        <4>2. QED
          BY ONLY <4>1 DEF CallState
      <3>2. Move(d, s)
        BY <2>3
      <3> HIDE DEF s
      <3>3. /\ Moves(d) /\ dev'[d].pc = "next" /\ dev'[d].call = dev[d].call
            /\ dev'[d].answer = dev[d].answer /\ dev'[d].folder = dev[d].folder
        BY <1>3, <3>1, <3>2, MovesTo
      <3>4. dev[d].pc \in InFolder
        BY <2>3 DEF InFolder, OnFile, OnHit
      <3>5. Watches(d) => SawTruly(d)'
        <4>1. SawTruly(d) => dev'[d].folder \in Live'
          BY <1>2, <3>3, <3>4 DEF SawTruly
        <4>2. QED
          BY <3>3, <4>1, StillTrue DEF OnHit, Watches
      <3>6. QED
        BY <1>1, <1>3, <2>1, <3>3, <3>5, Lost
    <2>4. QED
      BY <1>1, <1>5, <2>2, <2>3, FailedMoves
  <1>6. QED
    BY <1>4, <1>5

LEMMA LateShows ==
    ASSUME IInv, IInv', SeenInv, ~split', ExecuteLate
    PROVE  SeenInv' /\ Remote!Next
  <1>1. PICK r \in orphans : Execute(r) /\ orphans' = orphans \ {r}
    BY DEF ExecuteLate
  <1>2. dev' = dev /\ Remember /\ RequestGood(r) /\ DriveGood'
    BY DEF ExecuteLate, IInv
  <1>3. ~split /\ OneFolder' /\ Remote!See
    BY <1>2, StillOne, RemoteSees
  <1>4. Shows(r) /\ DriveMoves
    BY <1>1, <1>2, <1>3, ExecuteShows
  <1>5. Live \subseteq Live'
    BY <1>4 DEF DriveMoves
  <1>6. overtaken' = overtaken
    BY <1>2, <1>5, OvertakenStay
  <1>7. SeenInv'
    <2>1. ASSUME NEW d \in Device, InCall(d)', d \notin overtaken'
          PROVE  SawTruly(d)'
      <3>1. dev'[d] = dev[d] /\ InCall(d) /\ d \notin overtaken
        BY <1>2, <1>6, <2>1 DEF InCall
      <3>2. SawTruly(d)
        BY <1>3, <3>1 DEF SeenInv
      <3>3. QED
        BY <1>2, <1>4, <2>1, <3>1, <3>2, OthersSee
    <2>2. overtaken' \subseteq {d \in Device : dev'[d].call # None}
      BY <1>2, <1>3, <1>6 DEF SeenInv
    <2>3. QED
      BY <1>3, <2>1, <2>2 DEF SeenInv
  <1>8. LostWrites' \subseteq LostWrites
    BY <1>1, LostAre
  <1>9. /\ UNCHANGED [e \in Device |-> dev[e].call]
        /\ UNCHANGED [e \in Device |-> dev[e].answer]
    BY <1>2
  <1>10. ASSUME NEW name \in Key, \A k \in Key : k # name => Store'[k] = Store[k],
                <<name, Store'[name]>> \in LostWrites
         PROVE  Remote!Next
    <2> DEFINE w == <<name, Store'[name]>>
    <2>1. Store' = [Store EXCEPT ![w[1]] = w[2]]
      BY <1>10, StoreGets
    <2>2. w \in LostWrites
      BY <1>10
    <2> HIDE DEF w
    <2>3. Remote!Late
      BY <1>6, <1>8, <1>9, <2>1, <2>2 DEF Remote!Late
    <2>4. QED
      BY <1>3, <2>3 DEF Remote!Next
  <1>11. CASE \A k \in Key : Store'[k] = Store[k]
    <2>1. Store' = Store
      BY <1>11, StoreStays
    <2>2. QED
      BY <1>2, <1>6, <1>7, <1>8, <1>9, <2>1, RemoteFades
  <1>12. CASE ~ \A k \in Key : Store'[k] = Store[k]
    <2>1. /\ r.kind \in {"patch", "create", "remove"}
          /\ \A k \in Key : k # r.name => Store'[k] = Store[k]
          /\ r.kind \in {"patch", "create"} => Store'[r.name] = r.data
      BY <1>4, <1>12 DEF Shows
    <2>2. r.name \in Key
      BY <1>2, <2>1 DEF RequestGood, ChangeRequest
    <2>3. Store'[r.name] \in Data \cup {None}
      BY <1>2, <2>2, StoreHolds
    <2>4. <<r.name, Store'[r.name]>> \in Effects(r)
      BY <2>1, <2>3 DEF Effects
    <2>5. <<r.name, Store'[r.name]>> \in LostWrites
      BY <2>4, LostAre
    <2>6. QED
      BY <1>7, <1>10, <2>1, <2>2, <2>5
  <1>13. QED
    BY <1>11, <1>12

(* There was one folder, so none is left and no file is seen any more. *)
LEMMA TrashShows ==
    ASSUME IInv, IInv', SeenInv, ~split', Trash
    PROVE  SeenInv' /\ Remote!Next
  <1>1. PICK id \in Live : folders' = [folders EXCEPT ![id] = "trashed"]
    BY DEF Trash
  <1>2. dev' = dev /\ Remember /\ orphans' = orphans /\ DriveGood /\ DriveGood'
    BY DEF Trash, IInv
  <1>3. ~split /\ OneFolder' /\ Remote!See
    BY <1>2, StillOne, RemoteSees
  <1>4. Live = {id}
    BY <1>3 DEF SeenInv, OneFolder
  <1>5. Live' = {} /\ folders'[id] = "trashed"
    BY <1>1, <1>2, <1>4 DEF Live, FolderId, DriveGood
  <1>6. overtaken' = {d \in Device : dev[d].call # None}
    <2>1. overtaken' =
            IF split' THEN {}
            ELSE IF \E i \in Live : folders'[i] = "trashed"
              THEN {d \in Device : dev[d].call # None}
              ELSE {d \in overtaken : dev'[d].call # None}
      BY <1>2 DEF Remember
    <2>2. QED
      BY <1>5, <2>1
  <1>7. SeenInv'
    <2>1. ASSUME NEW d \in Device, InCall(d)', d \notin overtaken'
          PROVE  FALSE
      BY <1>2, <1>6, <2>1 DEF InCall
    <2>2. QED
      BY <1>2, <1>3, <1>6, <2>1 DEF SeenInv
  <1>8. Store' = [k \in Key |-> None]
    <2>1. \A k \in Key : Hits(Live, k)' = {}
      BY <1>5 DEF Hits
    <2>2. \A k \in Key : Store'[k] = None
      BY <2>1, EntryNext
    <2>3. Store' = [k \in Key |-> Store'[k]]
      BY DEF Store
    <2>4. QED
      BY <2>2, <2>3
  <1>9. LostWrites' = LostWrites
    BY <1>2 DEF LostWrites
  <1>10. /\ UNCHANGED [e \in Device |-> dev[e].call]
         /\ UNCHANGED [e \in Device |-> dev[e].answer]
    BY <1>2
  <1>11. Remote!Trash
    BY <1>6, <1>8, <1>9, <1>10 DEF Remote!Trash
  <1>12. QED
    BY <1>3, <1>7, <1>11 DEF Remote!Next

(* Every step is a step of the store of keys, or none. *)
LEMMA StepShows ==
    ASSUME IInv, IInv', SeenInv, [Next]_vars
    PROVE  SeenInv' /\ [Remote!Next]_(Remote!vars)
  <1>1. CASE split'
    <2>1. Remote!Next
      BY <1>1 DEF Remote!Next
    <2>2. SeenInv'
      BY <1>1 DEF SeenInv
    <2>3. QED
      BY <2>1, <2>2
  <1>2. CASE ~split' /\ Next
    <2>1. ASSUME NEW d \in Device,
                 \/ Begin(d) \/ CheckCached(d) \/ Search(d) \/ Mkdir(d)
                 \/ Find(d) \/ Patch(d) \/ Create(d) \/ Fields(d) \/ Get(d) \/ Remove(d)
                 \/ List(d) \/ ListLegacy(d) \/ NextLegacy(d) \/ Fetch(d) \/ Drop(d)
                 \/ Return(d)
                 \/ Retry(d) \/ GiveUp(d) \/ SearchRefused(d) \/ MkdirUnread(d)
          PROVE  SeenInv' /\ Remote!Next
      <3>1. CASE Begin(d) \/ CheckCached(d) \/ Search(d) \/ Mkdir(d) \/ Find(d)
        BY <1>2, <3>1, BeginShows, CheckShows, SearchShows, MkdirShows, FindShows
      <3>2. CASE Patch(d) \/ Create(d) \/ Fields(d) \/ Get(d) \/ Remove(d)
        BY <1>2, <3>2, PatchingShows, CreatingShows, FieldsShow, GetShows, RemovingShows
      <3>3. CASE List(d) \/ ListLegacy(d) \/ NextLegacy(d) \/ Fetch(d) \/ Drop(d)
        BY <1>2, <3>3, ListShows, ListLegacyShows, NextLegacyShows, FetchShows, DropShows
      <3>4. CASE Return(d) \/ Retry(d) \/ GiveUp(d) \/ SearchRefused(d) \/ MkdirUnread(d)
        BY <1>2, <3>4, ReturnShows, RetryShows, GiveUpShows, RefusalShows, UnreadShows
      <3>5. QED
        BY <2>1, <3>1, <3>2, <3>3, <3>4
    <2>2. ExecuteLate \/ Trash => SeenInv' /\ Remote!Next
      BY <1>2, LateShows, TrashShows
    <2>3. SeenInv' /\ Remote!Next
      BY <1>2, <2>1, <2>2 DEF Next
    <2>4. QED
      BY <2>3
  <1>3. CASE UNCHANGED vars
    <2>1. UNCHANGED <<folders, files, orphans, dev, seen, overtaken, split>>
      BY <1>3 DEF vars, drive, history
    <2>2. Live' = Live /\ \A k \in Key : Store'[k] = Store[k]
      BY <2>1, SameShows DEF Live, FolderId
    <2>3. Store' = Store /\ LostWrites' = LostWrites
      BY <2>1, <2>2, StoreStays DEF LostWrites
    <2>4. UNCHANGED Remote!vars
      BY <2>1, <2>3 DEF Remote!vars
    <2>5. SeenInv'
      BY <2>1, <2>2 DEF SeenInv, OneFolder, InCall, SawTruly
    <2>6. QED
      BY <2>4, <2>5
  <1>4. QED
    BY <1>1, <1>2, <1>3

(* It starts as one. *)
LEMMA InitShows ==
    ASSUME Init
    PROVE  SeenInv /\ Remote!Init
  <1>1. /\ dev = [d \in Device |-> Idle] /\ orphans = {} /\ overtaken = {}
        /\ split = FALSE /\ seen = [d \in Device |-> [k \in Key |-> {}]]
        /\ folders \in {<<>>, <<"live">>} /\ IInv
    BY InitInv DEF Init
  <1>2. \A d \in Device : dev[d].call = None /\ dev[d].answer = None
    BY <1>1 DEF Idle
  <1>3. OneFolder
    BY <1>1 DEF OneFolder, Live, FolderId
  <1>4. SeenInv
    BY <1>1, <1>2, <1>3 DEF SeenInv, InCall
  <1>5. \A k \in Key : Store[k] \in Data \cup {None}
    <2>1. ASSUME NEW k \in Key, Hits(Live, k) # {}
          PROVE  Store[k] \in Data
      <3>1. files[Newest(Hits(Live, k))] \in File
        BY <1>1, <2>1, Found DEF IInv
      <3>2. QED
        BY <2>1, <3>1, Entry DEF File
    <2>2. QED
      BY <2>1, Entry
  <1>6. Store \in [Key -> Data \cup {None}]
    <2>1. Store = [k \in Key |-> Store[k]]
      BY DEF Store
    <2>2. QED
      BY <1>5, <2>1
  <1>7. LostWrites = {}
    BY <1>1, LostAre
  <1>8. QED
    BY <1>1, <1>2, <1>4, <1>6, <1>7 DEF Remote!Init

(* Used by any number of devices over requests that fail, are retried or   *)
(* execute late, Drive is the store of keys the sync engine needs: a call  *)
(* that succeeds told or did what it says at a moment between its          *)
(* beginning and its return (upload to migrate_from_appdata).              *)
THEOREM Implementation == Spec => ImplementsRemoteStore
  <1>1. Init => SeenInv /\ Remote!Init
    BY InitShows
  <1>2. IInv /\ IInv' /\ SeenInv /\ [Next]_vars
          => SeenInv' /\ [Remote!Next]_(Remote!vars)
    BY StepShows
  <1>3. QED
    BY <1>1, <1>2, AlwaysInv, PTL DEF Spec, ImplementsRemoteStore, Remote!Spec
=============================================================================
