------------------------------ MODULE DriveStore ------------------------------
(***************************************************************************)
(* The Google Drive backend: a named file in a folder that every device    *)
(* looks up by name, reached by requests that are retried.                 *)
(*                                                                         *)
(* One action is one HTTP request together with what the code does with    *)
(* its answer.  Drive executes a request at once; a request that got lost  *)
(* (a timeout, a broken connection, a 5xx) may execute later or never.     *)
(***************************************************************************)
EXTENDS Naturals, Sequences, FiniteSets

CONSTANTS
    Device, Key, Data, None,
    MAX_ATTEMPTS,               \* of one request
    MaxCalls, MaxFaults         \* bounds of the model

VARIABLES
    folders,    \* by id: each folder with the name lockit-sync, live or trashed
    files,      \* files in these folders, the last modified first
    legacy,     \* appDataFolder
    orphans,    \* lost requests that may still execute
    dev,        \* per device: the call it is in
    made, calls, faults,
    (* what was: for the properties only *)
    seen, overtaken, split, written, known

drive == <<folders, files, legacy, made>>
history == <<seen, overtaken, split, written, known>>
vars == <<drive, orphans, dev, calls, faults, history>>

Upload == [op : {"upload"}, key : Key, data : Data]
OnKey == [op : {"download", "metadata", "delete"}, key : Key]
Call == Upload \cup OnKey \cup [op : {"list", "migrate"}]

(* What a call returns. *)
Answers ==
    [kind : {"ok", "error", "notFound"}]
        \cup [kind : {"data"}, data : Data]
        \cup [kind : {"metadata"}, fields : Data \cup {None}, data : Data]
        \cup [kind : {"keys"}, keys : SUBSET Key]

ASSUME DriveAssumption ==
    /\ MAX_ATTEMPTS \in Nat \ {0} /\ MaxFaults \in Nat
    /\ None \notin Nat /\ None \notin Key /\ None \notin Data
    /\ None \notin Call /\ None \notin Answers

Step == {"idle", "check", "search", "mkdir", "find", "patch", "create", "fields",
         "get", "remove", "list", "legacy", "next", "fetch", "drop", "done"}

Id == 1 .. made
FolderId == 1 .. Len(folders)
Live == {i \in FolderId : folders[i] = "live"}
FileIds == {files[i].id : i \in DOMAIN files}
At(id) == CHOOSE i \in DOMAIN files : files[i].id = id
FileWith(id) == files[At(id)]
Without(id) ==
    SubSeq(files, 1, At(id) - 1) \o SubSeq(files, At(id) + 1, Len(files))

(* Names may repeat: the queries order the hits by modification time.      *)
Hits(found, name) ==
    {i \in DOMAIN files : files[i].folder \in found \cap Live /\ files[i].name = name}
Newest(hits) == CHOOSE i \in hits : \A j \in hits : i <= j

Idle == [pc |-> "idle", call |-> None, answer |-> None, attempt |-> 1,
         cache |-> None, folder |-> None, key |-> None, hit |-> None,
         fields |-> None, buf |-> None, todo |-> {}]

TypeOK ==
    /\ folders \in Seq({"live", "trashed"})
    /\ files \in Seq([id : Id, name : Key, folder : FolderId, data : Data])
    /\ Cardinality(FileIds) = Len(files)
    /\ legacy \in [Key -> Data \cup {None}]
    /\ \A d \in Device :
          LET s == dev[d]
          IN  /\ s.pc \in Step /\ s.call \in Call \cup {None}
              /\ (s.pc = "idle") = (s.call = None)
              /\ (s.pc = "done") = (s.answer # None)
              /\ s.attempt \in 1 .. MAX_ATTEMPTS
              /\ {s.cache, s.folder} \subseteq FolderId \cup {None}
              /\ s.key \in Key \cup {None} /\ s.todo \subseteq Key
              /\ s.hit \in Id \cup {None}
              /\ {s.buf, s.fields} \subseteq Data \cup {None}

(***************************************************************************)
(* Requests that change something                                          *)
(***************************************************************************)

(* The request a call sends at its present step, if it changes something.  *)
Request(d) ==
    LET s == dev[d]
    IN  CASE s.pc = "mkdir"  -> {[kind |-> "mkdir"]}
          [] s.pc = "patch"  -> {[kind |-> "patch", id |-> s.hit, name |-> s.key,
                                  data |-> s.buf]}
          [] s.pc = "create" -> {[kind |-> "create", folder |-> s.folder,
                                  name |-> s.key, data |-> s.buf]}
          [] s.pc = "remove" -> {[kind |-> "remove", id |-> s.hit, name |-> s.key]}
          [] s.pc = "drop"   -> {[kind |-> "drop", name |-> s.key]}
          [] OTHER           -> {}

MakeFolder ==
    /\ folders' = Append(folders, "live")
    /\ UNCHANGED <<files, legacy, made>>

Execute(r) ==
    \/ r.kind = "mkdir" /\ MakeFolder
    \/ /\ r.kind = "patch" /\ r.id \in FileIds
       /\ files' = <<[FileWith(r.id) EXCEPT !.data = r.data]>> \o Without(r.id)
       /\ UNCHANGED <<folders, legacy, made>>
    \/ /\ r.kind = "create"
       /\ made' = made + 1
       /\ files' = <<[id |-> made', name |-> r.name, folder |-> r.folder,
                      data |-> r.data]>> \o files
       /\ UNCHANGED <<folders, legacy>>
    \/ /\ r.kind = "remove" /\ r.id \in FileIds
       /\ files' = Without(r.id)
       /\ UNCHANGED <<folders, legacy, made>>
    \/ /\ r.kind = "drop" /\ legacy[r.name] # None
       /\ legacy' = [legacy EXCEPT ![r.name] = None]
       /\ UNCHANGED <<folders, files, made>>

(***************************************************************************)
(* What the properties remember                                            *)
(***************************************************************************)

(* The store as the calls are meant to see it.                             *)
Store ==
    [k \in Key |->
       IF Hits(Live, k) = {} THEN None ELSE files[Newest(Hits(Live, k))].data]

Remember ==
    /\ split' = (split \/ Cardinality(Live') > 1)
    /\ overtaken' =
          IF split' THEN {}
          ELSE IF \E i \in Live : folders'[i] = "trashed"
            THEN {d \in Device : dev[d].call # None}
            ELSE {d \in overtaken : dev'[d].call # None}
    /\ seen' = [d \in Device |->
                  [k \in Key |->
                     IF \/ dev'[d].call = None \/ dev'[d].answer # None
                        \/ d \in overtaken' \/ split'
                       THEN {} ELSE seen[d][k] \cup {Store'[k]}]]
    /\ written' = written \cup {<<files'[i].name, files'[i].data>> : i \in DOMAIN files'}
    /\ known' = [d \in Device |->
                   IF dev'[d].pc \in {"check", "search", "mkdir"}
                     THEN IF dev[d].call = None THEN Live ELSE known[d]
                     ELSE {}]

(***************************************************************************)
(* How a call goes on                                                      *)
(***************************************************************************)

Move(d, s) == dev' = [dev EXCEPT ![d] = [s EXCEPT !.attempt = 1]]
Goto(d, pc) == Move(d, [dev[d] EXCEPT !.pc = pc])
Finish(d, a) == Move(d, [dev[d] EXCEPT !.pc = "done", !.answer = a])
Ok == [kind |-> "ok"]

(* The folder is known: what each operation does first.                    *)
EnterFolder(d, id) ==
    LET s == dev[d]
    IN  Move(d, [s EXCEPT !.cache = id, !.folder = id,
                   !.pc = CASE s.call.op = "list"    -> "list"
                            [] s.call.op = "migrate" -> "legacy"
                            [] OTHER                 -> "find",
                   !.key = IF s.call \in Upload \cup OnKey THEN s.call.key ELSE None,
                   !.buf = IF s.call \in Upload THEN s.call.data ELSE None])

Copying(s) == s.call.op = "migrate" /\ s.buf # None

(* Mutant of Failed: drops the original whatever became of the upload. *)
FailedDropping(d) ==
    LET s == dev[d]
    IN  CASE s.pc = "check"  -> Goto(d, "search")
          [] s.pc = "legacy" -> Finish(d, Ok)
          [] s.pc \in {"fetch", "drop"} -> Move(d, [s EXCEPT !.pc = "next", !.buf = None])
          [] Copying(s) /\ s.pc # "drop" -> Goto(d, "drop")
          [] OTHER -> Finish(d, [kind |-> "error"])

(* What an error does: the check of the cached folder and the migration    *)
(* carry on, every other step returns it.                                  *)
Failed(d) ==
    LET s == dev[d]
    IN  CASE s.pc = "check"  -> Goto(d, "search")
          [] s.pc = "legacy" -> Finish(d, Ok)
          [] s.pc \in {"fetch", "drop"} \/ Copying(s) ->
                Move(d, [s EXCEPT !.pc = "next", !.buf = None])
          [] OTHER -> Finish(d, [kind |-> "error"])

Reads == UNCHANGED <<drive, orphans, calls, faults>> /\ Remember
Changes == UNCHANGED <<orphans, calls, faults>> /\ Remember

(***************************************************************************)
(* ensure_folder                                                           *)
(***************************************************************************)

(* A call begins, in the process of the last one or in a new one, which    *)
(* has no folder cached.                                                   *)
Begin(d) ==
    /\ calls < MaxCalls /\ calls' = calls + 1
    /\ dev[d].pc = "idle"
    /\ \E c \in Call, cache \in {dev[d].cache, None} :
          Move(d, [Idle EXCEPT !.call = c, !.cache = cache,
                     !.pc = IF cache = None THEN "search" ELSE "check"])
    /\ UNCHANGED <<drive, orphans, faults>> /\ Remember

(* Mutant of CheckCached: does not ask whether the folder was trashed. *)
CheckCachedExists(d) ==
    /\ dev[d].pc = "check"
    /\ EnterFolder(d, dev[d].cache)
    /\ Reads

CheckCached(d) ==
    /\ dev[d].pc = "check"
    /\ IF dev[d].cache \in Live THEN EnterFolder(d, dev[d].cache)
                                ELSE Goto(d, "search")
    /\ Reads

(* Mutant of Search: does not look at the hits. *)
SearchBlind(d) ==
    /\ dev[d].pc = "search"
    /\ Goto(d, "mkdir")
    /\ Reads

Search(d) ==
    /\ dev[d].pc = "search"
    /\ \/ \E id \in Live : EnterFolder(d, id)
       \/ Live = {} /\ Goto(d, "mkdir")
    /\ Reads

Mkdir(d) ==
    /\ dev[d].pc = "mkdir"
    /\ MakeFolder
    /\ EnterFolder(d, Len(folders'))
    /\ Changes

(***************************************************************************)
(* Operations on a file                                                    *)
(***************************************************************************)

Find(d) ==
    /\ dev[d].pc = "find"
    /\ LET s == dev[d]
           hits == Hits({s.folder}, s.key)
           op == s.call.op
       IN  \/ /\ hits # {}
              /\ IF op = "migrate" /\ s.buf = None
                   THEN Goto(d, "next")
                   ELSE Move(d, [s EXCEPT !.hit = files[Newest(hits)].id,
                                  !.pc = CASE op \in {"upload", "migrate"} -> "patch"
                                           [] op = "download" -> "get"
                                           [] op = "metadata" -> "fields"
                                           [] op = "delete"   -> "remove"])
           \/ /\ hits = {}
              /\ CASE s.buf # None -> Goto(d, "create")
                   [] s.buf = None /\ op = "migrate" -> Goto(d, "fetch")
                   [] OTHER -> Finish(d, [kind |-> "notFound"])
    /\ Reads

(* The file is written: an upload is over, a migration drops the original. *)
Stored(d) == IF Copying(dev[d]) THEN Goto(d, "drop") ELSE Finish(d, Ok)

Patch(d) ==
    /\ dev[d].pc = "patch"
    /\ \/ (\E r \in Request(d) : Execute(r)) /\ Stored(d)
       \/ dev[d].hit \notin FileIds /\ Failed(d) /\ UNCHANGED drive
    /\ Changes

Create(d) ==
    /\ dev[d].pc = "create"
    /\ \E r \in Request(d) : Execute(r)
    /\ Stored(d)
    /\ Changes

(* The name and the time come from one request, the checksum from another. *)
Fields(d) ==
    /\ dev[d].pc = "fields"
    /\ \/ /\ dev[d].hit \in FileIds
          /\ Move(d, [dev[d] EXCEPT !.pc = "get", !.fields = FileWith(dev[d].hit).data])
       \/ dev[d].hit \notin FileIds /\ Failed(d)
    /\ Reads

Get(d) ==
    /\ dev[d].pc = "get"
    /\ LET s == dev[d]
           data == FileWith(s.hit).data
       IN  \/ /\ s.hit \in FileIds
              /\ Finish(d, IF s.call.op = "download"
                             THEN [kind |-> "data", data |-> data]
                             ELSE [kind |-> "metadata", fields |-> s.fields,
                                   data |-> data])
           \/ s.hit \notin FileIds /\ Failed(d)
    /\ Reads

Remove(d) ==
    /\ dev[d].pc = "remove"
    /\ \/ (\E r \in Request(d) : Execute(r)) /\ Finish(d, Ok)
       \/ dev[d].hit \notin FileIds /\ Failed(d) /\ UNCHANGED drive
    /\ Changes

List(d) ==
    /\ dev[d].pc = "list"
    /\ Finish(d, [kind |-> "keys",
                  keys |-> {k \in Key : Hits({dev[d].folder}, k) # {}}])
    /\ Reads

(***************************************************************************)
(* migrate_from_appdata                                                    *)
(***************************************************************************)

ListLegacy(d) ==
    /\ dev[d].pc = "legacy"
    /\ LET there == {k \in Key : legacy[k] # None}
       IN  IF there = {} THEN Finish(d, Ok)
           ELSE Move(d, [dev[d] EXCEPT !.pc = "next", !.todo = there])
    /\ Reads

NextLegacy(d) ==
    /\ dev[d].pc = "next"
    /\ \/ \E k \in dev[d].todo :
             Move(d, [dev[d] EXCEPT !.pc = "find", !.key = k, !.buf = None,
                        !.todo = @ \ {k}])
       \/ dev[d].todo = {} /\ Finish(d, Ok)
    /\ Reads

Fetch(d) ==
    /\ dev[d].pc = "fetch"
    /\ LET data == legacy[dev[d].key]
       IN  IF data = None THEN Failed(d)
           ELSE Move(d, [dev[d] EXCEPT !.pc = "find", !.buf = data])
    /\ Reads

(* The answer is ignored.                                                  *)
Drop(d) ==
    /\ dev[d].pc = "drop"
    /\ \/ \E r \in Request(d) : Execute(r)
       \/ legacy[dev[d].key] = None /\ UNCHANGED drive
    /\ Move(d, [dev[d] EXCEPT !.pc = "next", !.buf = None])
    /\ Changes

Return(d) ==
    /\ dev[d].pc = "done"
    /\ Move(d, [Idle EXCEPT !.cache = dev[d].cache])
    /\ Reads

(***************************************************************************)
(* Failures                                                                *)
(***************************************************************************)

Fault == faults < MaxFaults /\ faults' = faults + 1
Sending(d) == dev[d].pc \notin {"idle", "next", "done"}

(* send_async_with_retry: no answer, or one that asks to try again.        *)
Retry(d) ==
    /\ Fault /\ Sending(d)
    /\ dev[d].attempt < MAX_ATTEMPTS
    /\ dev' = [dev EXCEPT ![d].attempt = @ + 1]
    /\ orphans' = orphans \cup Request(d)
    /\ UNCHANGED <<drive, calls>> /\ Remember

(* Mutant of GiveUp: takes a folder for made when making it failed. *)
GiveUpEntering(d) ==
    /\ Fault /\ Sending(d)
    /\ IF dev[d].pc = "mkdir" THEN EnterFolder(d, Len(folders) + 1) ELSE Failed(d)
    /\ orphans' = orphans \cup Request(d)
    /\ UNCHANGED <<drive, calls>> /\ Remember

(* The last attempt failed, or an error that is not retried, or a status.  *)
GiveUp(d) ==
    /\ Fault /\ Sending(d)
    /\ Failed(d)
    /\ orphans' = orphans \cup Request(d)
    /\ UNCHANGED <<drive, calls>> /\ Remember

(* The search does not look at the status: an answer without files reads   *)
(* as no folder.                                                           *)
SearchRefused(d) ==
    /\ Fault /\ dev[d].pc = "search"
    /\ Goto(d, "mkdir")
    /\ UNCHANGED <<drive, orphans, calls>> /\ Remember

(* The folder is made and its id never read.                               *)
MkdirUnread(d) ==
    /\ Fault /\ dev[d].pc = "mkdir"
    /\ MakeFolder /\ Failed(d)
    /\ UNCHANGED <<orphans, calls>> /\ Remember

ExecuteLate ==
    /\ \E r \in orphans : Execute(r) /\ orphans' = orphans \ {r}
    /\ UNCHANGED <<dev, calls, faults>> /\ Remember

(* The user throws the folder away.                                        *)
Trash ==
    /\ Fault
    /\ \E id \in Live : folders' = [folders EXCEPT ![id] = "trashed"]
    /\ UNCHANGED <<files, legacy, made, orphans, dev, calls>> /\ Remember

(* Drive is new, or has been used: a race may have left two files of one   *)
(* name.                                                                   *)
Init ==
    /\ folders \in {<<>>, <<"live">>}
    /\ made \in IF folders = <<>> THEN {0} ELSE {1, 2}
    /\ files \in [1 .. made -> [id : Id, name : Key, folder : {1}, data : Data]]
    /\ \A i \in DOMAIN files : files[i].id = i
    /\ legacy \in [Key -> Data \cup {None}]
    /\ orphans = {} /\ calls = 0 /\ faults = 0
    /\ dev = [d \in Device |-> Idle]
    /\ seen = [d \in Device |-> [k \in Key |-> {}]]
    /\ overtaken = {} /\ split = FALSE
    /\ written = {<<files[i].name, files[i].data>> : i \in DOMAIN files}
    /\ known = [d \in Device |-> {}]

Next ==
    \/ \E d \in Device :
          \/ Begin(d) \/ CheckCached(d) \/ Search(d) \/ Mkdir(d)
          \/ Find(d) \/ Patch(d) \/ Create(d) \/ Fields(d) \/ Get(d) \/ Remove(d)
          \/ List(d) \/ ListLegacy(d) \/ NextLegacy(d) \/ Fetch(d) \/ Drop(d)
          \/ Return(d)
          \/ Retry(d) \/ GiveUp(d) \/ SearchRefused(d) \/ MkdirUnread(d)
    \/ ExecuteLate \/ Trash

Spec == Init /\ [][Next]_vars

(***************************************************************************)
(* Properties                                                              *)
(***************************************************************************)

(* What a lost request may still make of the store; a lost delete may      *)
(* bring any older file to light.                                          *)
LostWrites ==
    UNION {CASE r.kind \in {"patch", "create"} -> {<<r.name, r.data>>}
             [] r.kind = "remove" -> {r.name} \X (Data \cup {None})
             [] OTHER -> {} : r \in orphans}

(* Used by two devices at once, over requests that fail, are retried or    *)
(* execute late, Drive is a store of keys: a call that succeeds told or    *)
(* did what it says at a moment between its beginning and its return, as   *)
(* long as there is one folder (upload to migrate_from_appdata).           *)
Remote == INSTANCE RemoteStore WITH
    store <- Store,
    call <- [d \in Device |-> dev[d].call],
    answer <- [d \in Device |-> dev[d].answer],
    lost <- LostWrites
ImplementsRemoteStore == Remote!Spec

(* The migration removes an old file only after the folder got its         *)
(* contents, whatever fails (migrate_from_appdata deletes what it copied). *)
LegacyCopiedFirst ==
    [][\A k \in Key : legacy'[k] # legacy[k] => <<k, legacy[k]>> \in written]_legacy

(* A second folder is made beside one that was there when the call began   *)
(* only if a request failed (ensure_folder).                               *)
SecondFolderNeedsFault ==
    [][\A d \in Device :
          dev[d].pc = "mkdir" /\ dev'[d].pc = "find" /\ Live \cap known[d] # {}
             => faults > 0]_vars
=============================================================================
