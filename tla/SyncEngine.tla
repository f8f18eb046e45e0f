----------------------------- MODULE SyncEngine -----------------------------
(***************************************************************************)
(* Devices that keep one vault in step through a remote store: the smart   *)
(* sync engine (crates/sync/src/engine/sync.rs) and the `lk sync` commands *)
(* that drive it (crates/cli/src/sync.rs).                                 *)
(*                                                                         *)
(* Each device runs at most one sync command at a time, beside the other   *)
(* programs that rewrite its vault file (EditVault).  A command is cut at  *)
(* every network request and around every write of the vault file; what it *)
(* does between two such points touches nothing another process can see    *)
(* change, or is a single read, and belongs to one step.                   *)
(***************************************************************************)
EXTENDS ConflictDetector

CONSTANTS
    Device,         \* the machines that sync
    Key,            \* 256-bit sync keys
    key,            \* key[d]: the content of d's sync-key.txt, or None
    Garbled,        \* a sync-state.toml that no longer parses
    Commands,       \* the commands users run
    MaxEdits,       \* bound: vault files produced outside of sync
    MaxUploads,     \* bound: no new command after that many uploads
    MaxFaults       \* bound: crashes and failed requests or writes

VARIABLES
    local,          \* local[d]: bytes of vault.lockit
    backup,         \* backup[d]: bytes of vault.lockit.pull_backup
    state,          \* state[d]: sync-state.toml
    rvault,         \* the remote vault.enc
    rman,           \* the vault_checksum of the remote manifest.json
    pc, cmd,        \* where d's sync command is, and which command
    st,             \* the engine's copy of the sync state
    data,           \* the plaintext the command holds
    man,            \* the manifest it fetched, or is about to upload
    saved,          \* handle_pull made a backup
    had,            \* replace_file_with_backup found a vault to copy
    edits, uploads, faults,
    lapsed          \* history: see Lapse

disk == <<local, backup, state>>
remote == <<rvault, rman>>
proc == <<pc, cmd, st, data, man, saved, had>>
counts == <<edits, uploads, faults, lapsed>>
vars == <<disk, remote, proc, counts>>

Strategies == {"KeepLocal", "KeepRemote", "LastWriteWins"}
AllCommands == {"push", "pull"} \cup Strategies

(* A byte string is a vault version, maybe sealed by a key under a nonce,  *)
(* maybe cut short before it was sealed ("inside") or after ("outside").   *)
Bytes == [v : Nat, k : Key \cup {None}, n : Nat,
          damage : {"none", "inside", "outside"}]

SyncState == [local : Bytes, remote : Bytes]

ASSUME SyncAssumption ==
    /\ key \in [Device -> Key \cup {None}]
    /\ None \notin Key
    /\ None \notin Bytes
    /\ None \notin SyncState /\ Garbled \notin SyncState
    /\ None # Garbled
    /\ None \notin AllCommands
    /\ Commands \subseteq AllCommands
    /\ MaxEdits \in Nat /\ MaxUploads \in Nat /\ MaxFaults \in Nat

Plain(v) == [v |-> v, k |-> None, n |-> 0, damage |-> "none"]

(* A file that is being written, or whose writer died. *)
Tear(b) ==
    [b EXCEPT !.damage = IF b.k = None THEN "inside" ELSE "outside"]

(* encrypt_vault: a fresh nonce each time, and without a key the plaintext *)
(* goes out as it is.                                                      *)
EncryptVault(k, b, nonce) ==
    IF k = None THEN b ELSE [b EXCEPT !.k = k, !.n = nonce]

(* decrypt_vault: GCM rejects another key and any damage to the blob. *)
Decryptable(k, b) ==
    k = None \/ (b.k = k /\ b.damage # "outside")

DecryptVault(k, b) ==
    IF k = None THEN b ELSE [b EXCEPT !.k = None, !.n = 0]

PCs == {"idle", "fetch", "pushFetch", "pullFetch", "uploadVault",
        "uploadManifest", "download", "write", "writing", "restore",
        "restoring", "persist"}

(* Types of the variables. *)
TypeOK ==
    /\ local \in [Device -> Bytes \cup {None}]
    /\ backup \in [Device -> Bytes \cup {None}]
    /\ state \in [Device -> SyncState \cup {None, Garbled}]
    /\ rvault \in Bytes \cup {None}
    /\ rman \in Bytes \cup {None}
    /\ pc \in [Device -> PCs]
    /\ cmd \in [Device -> AllCommands \cup {None}]
    /\ st \in [Device -> SyncState \cup {None}]
    /\ data \in [Device -> Bytes \cup {None}]
    /\ man \in [Device -> Bytes \cup {None}]
    /\ saved \in [Device -> BOOLEAN]
    /\ had \in [Device -> BOOLEAN]
    /\ edits \in Nat /\ uploads \in Nat /\ faults \in Nat
    /\ lapsed \in BOOLEAN

Init ==
    /\ local = [d \in Device |-> None]
    /\ backup = [d \in Device |-> None]
    /\ state = [d \in Device |-> None]
    /\ rvault = None /\ rman = None
    /\ pc = [d \in Device |-> "idle"]
    /\ cmd = [d \in Device |-> None]
    /\ st = [d \in Device |-> None]
    /\ data = [d \in Device |-> None]
    /\ man = [d \in Device |-> None]
    /\ saved = [d \in Device |-> FALSE]
    /\ had = [d \in Device |-> FALSE]
    /\ edits = 0 /\ uploads = 0 /\ faults = 0 /\ lapsed = FALSE

-----------------------------------------------------------------------------
(* How a command moves on and how it ends. *)

Goto(d, label) == pc' = [pc EXCEPT ![d] = label]

(* The process is gone and with it everything it held in memory. *)
End(d) ==
    /\ pc' = [pc EXCEPT ![d] = "idle"]
    /\ cmd' = [cmd EXCEPT ![d] = None]
    /\ st' = [st EXCEPT ![d] = None]
    /\ data' = [data EXCEPT ![d] = None]
    /\ man' = [man EXCEPT ![d] = None]
    /\ saved' = [saved EXCEPT ![d] = FALSE]
    /\ had' = [had EXCEPT ![d] = FALSE]

(* An error leaves the engine: handle_pull puts its backup back, the other *)
(* commands just report it.                                                *)
Fail(d) ==
    IF cmd[d] = "pull" /\ saved[d]
    THEN Goto(d, "restore") /\ UNCHANGED <<cmd, st, data, man, saved, had>>
    ELSE End(d)

(* Mutant of RecordSync: checksums the vault file again. *)
RecordSyncReread(d, plaintext, manifest) ==
    st' = [st EXCEPT ![d] = [local |-> local[d], remote |-> manifest]]

(* record_sync: the engine's state, not yet the file's. *)
RecordSync(d, plaintext, manifest) ==
    st' = [st EXCEPT ![d] = [local |-> plaintext, remote |-> manifest]]

Fault == faults < MaxFaults /\ faults' = faults + 1

(* History: from here on the code keeps no copy of the vault for sure,     *)
(* because a command runs on what a fault left, or the fault hit the copy  *)
(* itself, or the first vault of a device (OneFaultLeavesACopy).           *)
Lapse(now) == lapsed' = (lapsed \/ now)

-----------------------------------------------------------------------------
(* Something other than sync replaces the vault file, atomically: a save   *)
(* by a CLI command or by the daemon, which may have read the file long    *)
(* ago, or `lk init` where there was none.                                 *)
EditVault(d) ==
    /\ edits < MaxEdits
    /\ edits' = edits + 1
    /\ local' = [local EXCEPT ![d] = Plain(edits + 1)]
    /\ UNCHANGED <<backup, state, remote, proc, uploads, faults, lapsed>>

(* Mutant of CanStart: starts on a state file that does not parse. *)
CanStartUnparsed(d, c) ==
    pc[d] = "idle" /\ c \in Commands /\ uploads < MaxUploads

(* build_engine: a state file that does not parse ends every command. *)
CanStart(d, c) ==
    /\ pc[d] = "idle"
    /\ c \in Commands
    /\ uploads < MaxUploads
    /\ state[d] # Garbled

(* Mutant of Begin: takes a state it did not load for a first sync. *)
BeginWithoutState(d, c) ==
    /\ cmd' = [cmd EXCEPT ![d] = c]
    /\ UNCHANGED st
    /\ Goto(d, "fetch")
    /\ Lapse(faults > 0)

Begin(d, c) ==
    /\ cmd' = [cmd EXCEPT ![d] = c]
    /\ st' = [st EXCEPT ![d] = state[d]]
    /\ Goto(d, "fetch")
    /\ Lapse(faults > 0)

StartPush(d) ==
    /\ CanStart(d, "push")
    /\ local[d] # None
    /\ Begin(d, "push")
    /\ data' = [data EXCEPT ![d] = local[d]]
    /\ UNCHANGED <<disk, remote, man, saved, had, edits, uploads, faults>>

StartPull(d) ==
    /\ CanStart(d, "pull")
    /\ Begin(d, "pull")
    /\ saved' = [saved EXCEPT ![d] = local[d] # None]
    /\ backup' = [backup EXCEPT ![d] =
                    IF local[d] # None THEN local[d] ELSE @]
    /\ UNCHANGED <<local, state, remote, data, man, had, edits, uploads, faults>>

(* The backup copy of a pull fails half way, or its process dies there:    *)
(* the command ends before it began.                                       *)
BackupFails(d) ==
    /\ CanStart(d, "pull")
    /\ local[d] # None
    /\ Fault
    /\ backup' = [backup EXCEPT ![d] = Tear(local[d])]
    /\ UNCHANGED <<local, state, remote, proc, edits, uploads, lapsed>>

StartSync(d) ==
    \E strategy \in Strategies :
        /\ CanStart(d, strategy)
        /\ Begin(d, strategy)
        /\ data' = [data EXCEPT ![d] = local[d]]
        /\ UNCHANGED <<disk, remote, man, saved, had, edits, uploads, faults>>

-----------------------------------------------------------------------------
(* The manifest arrives and decides what the command does next. *)

(* push: a conflict is an error. *)
PushFetch(d) ==
    /\ pc[d] = "fetch" /\ cmd[d] = "push"
    /\ IF rman # None /\ CheckPushConflict(data[d], rman, st[d])
       THEN Fail(d)
       ELSE Goto(d, "uploadVault") /\ UNCHANGED <<cmd, st, data, man, saved, had>>
    /\ UNCHANGED <<disk, remote, counts>>

(* pull: the vault is read after the manifest came. *)
PullFetch(d) ==
    /\ pc[d] = "fetch" /\ cmd[d] = "pull"
    /\ IF rman = None \/ CheckPullConflict(local[d], st[d])
       THEN Fail(d)
       ELSE /\ Goto(d, "download")
            /\ man' = [man EXCEPT ![d] = rman]
            /\ UNCHANGED <<cmd, st, data, saved, had>>
    /\ UNCHANGED <<disk, remote, counts>>

(* The three ways a sync goes on from a manifest: upload what it holds,    *)
(* download what the manifest announces, or leave both sides alone.        *)
Upload(d, plaintext) ==
    /\ Goto(d, "uploadVault")
    /\ data' = [data EXCEPT ![d] = plaintext]
    /\ UNCHANGED <<cmd, st, man, saved, had>>

DownloadNext(d) ==
    /\ Goto(d, "download")
    /\ man' = [man EXCEPT ![d] = rman]
    /\ UNCHANGED <<cmd, st, data, saved, had>>

UpToDate(d) == Goto(d, "persist") /\ UNCHANGED <<cmd, st, data, man, saved, had>>

(* Without a vault sync downloads unconditionally; without a manifest it   *)
(* uploads; with both and no recorded state it asks for a baseline and     *)
(* changes nothing.                                                        *)
SyncFetchFirst(d) ==
    /\ pc[d] = "fetch" /\ cmd[d] \in Strategies
    /\ \/ data[d] = None /\ rman = None /\ Fail(d)
       \/ data[d] = None /\ rman # None /\ DownloadNext(d)
       \/ data[d] # None /\ rman = None /\ Upload(d, data[d])
       \/ data[d] # None /\ rman # None /\ st[d] = None /\ UpToDate(d)
    /\ UNCHANGED <<disk, remote, counts>>

(* The strategy settles a conflict; a decision against the direction of    *)
(* the step that asked leaves both sides alone.                            *)
PushOnConflict(d, plaintext) ==
    \/ cmd[d] = "KeepLocal" /\ Upload(d, plaintext)
    \/ cmd[d] = "KeepRemote" /\ UpToDate(d)
    \/ /\ cmd[d] = "LastWriteWins"
       /\ \E decision \in LastWriteWinsDecisions :
            \/ decision = "PushWins" /\ Upload(d, plaintext)
            \/ decision = "PullWins" /\ DownloadNext(d)

PullOnConflict(d) ==
    \/ cmd[d] = "KeepRemote" /\ DownloadNext(d)
    \/ cmd[d] = "KeepLocal" /\ UpToDate(d)
    \/ /\ cmd[d] = "LastWriteWins"
       /\ \E decision \in LastWriteWinsDecisions :
            \/ decision = "PushWins" /\ UpToDate(d)
            \/ decision = "PullWins" /\ DownloadNext(d)

SyncOnConflict(d) ==
    \/ cmd[d] = "KeepLocal" /\ Upload(d, data[d])
    \/ cmd[d] = "KeepRemote" /\ DownloadNext(d)
    \/ /\ cmd[d] = "LastWriteWins"
       /\ \E decision \in LastWriteWinsDecisions :
            \/ decision = "PushWins" /\ Upload(d, data[d])
            \/ decision = "PullWins" /\ DownloadNext(d)

(* sync_with_strategy with a vault, a manifest and a baseline.  One-sided  *)
(* changes go through push_with_strategy or pull_with_strategy, which ask  *)
(* for the manifest again; push reads the vault again first.               *)
SyncFetchCompare(d) ==
    /\ pc[d] = "fetch" /\ cmd[d] \in Strategies
    /\ data[d] # None /\ rman # None /\ st[d] # None
    /\ LET localChanged == LocalChanged(st[d], data[d])
           remoteChanged == RemoteChanged(st[d], rman)
       IN  \/ ~localChanged /\ ~remoteChanged /\ UpToDate(d)
           \/ /\ localChanged /\ ~remoteChanged
              /\ Goto(d, "pushFetch")
              /\ data' = [data EXCEPT ![d] = local[d]]
              /\ UNCHANGED <<cmd, st, man, saved, had>>
           \/ /\ ~localChanged /\ remoteChanged
              /\ Goto(d, "pullFetch")
              /\ UNCHANGED <<cmd, st, data, man, saved, had>>
           \/ localChanged /\ remoteChanged /\ SyncOnConflict(d)
    /\ UNCHANGED <<disk, remote, counts>>

(* push_with_strategy *)
SyncPushFetch(d) ==
    /\ pc[d] = "pushFetch"
    /\ IF rman # None /\ CheckPushConflict(data[d], rman, st[d])
       THEN PushOnConflict(d, data[d])
       ELSE Upload(d, data[d])
    /\ UNCHANGED <<disk, remote, counts>>

(* pull_with_strategy *)
SyncPullFetch(d) ==
    /\ pc[d] = "pullFetch"
    /\ \/ rman = None /\ Fail(d)
       \/ rman # None /\ CheckPullConflict(local[d], st[d]) /\ PullOnConflict(d)
       \/ rman # None /\ ~CheckPullConflict(local[d], st[d]) /\ DownloadNext(d)
    /\ UNCHANGED <<disk, remote, counts>>

-----------------------------------------------------------------------------
(* encrypt_and_upload: vault.enc, then manifest.json, then record_sync.    *)
(* The timestamped copy uploaded last is never read and not kept here.     *)
UploadVault(d) ==
    /\ pc[d] = "uploadVault"
    /\ LET blob == EncryptVault(key[d], data[d], uploads + 1)
       IN  rvault' = blob /\ man' = [man EXCEPT ![d] = blob]
    /\ uploads' = uploads + 1
    /\ Goto(d, "uploadManifest")
    /\ UNCHANGED <<disk, rman, cmd, st, data, saved, had, edits, faults, lapsed>>

(* Mutant of UploadManifest: announces the checksum of the plaintext. *)
UploadManifestOfPlaintext(d) ==
    /\ pc[d] = "uploadManifest"
    /\ rman' = data[d]
    /\ RecordSync(d, data[d], data[d])
    /\ Goto(d, "persist")
    /\ UNCHANGED <<disk, rvault, cmd, data, man, saved, had, counts>>

UploadManifest(d) ==
    /\ pc[d] = "uploadManifest"
    /\ rman' = man[d]
    /\ RecordSync(d, data[d], man[d])
    /\ Goto(d, "persist")
    /\ UNCHANGED <<disk, rvault, cmd, data, man, saved, had, counts>>

(* download_and_decrypt up to the write: the blob must be the one the      *)
(* manifest announced and open under the key; then the vault is copied.    *)
DownloadVault(d) ==
    /\ pc[d] = "download"
    /\ IF rvault = man[d] /\ Decryptable(key[d], rvault)
       THEN /\ data' = [data EXCEPT ![d] = DecryptVault(key[d], rvault)]
            /\ had' = [had EXCEPT ![d] = local[d] # None]
            /\ backup' = [backup EXCEPT ![d] =
                            IF local[d] # None THEN local[d] ELSE @]
            /\ Goto(d, "write")
            /\ UNCHANGED <<cmd, st, man, saved>>
       ELSE Fail(d) /\ UNCHANGED backup
    /\ UNCHANGED <<local, state, remote, counts>>

(* That copy fails half way, or its process dies there.  It went over the  *)
(* backup of a pull, which then restores what is left of it.               *)
CopyFails(d) ==
    /\ pc[d] = "download"
    /\ rvault = man[d] /\ Decryptable(key[d], rvault)
    /\ local[d] # None
    /\ Fault
    /\ backup' = [backup EXCEPT ![d] = Tear(local[d])]
    /\ Fail(d) \/ End(d)
    /\ Lapse(pc'[d] = "restore")
    /\ UNCHANGED <<local, state, remote, edits, uploads>>

(* std::fs::write truncates the vault, then fills it. *)
BeginWrite(d) ==
    /\ pc[d] = "write"
    /\ local' = [local EXCEPT ![d] = Tear(data[d])]
    /\ Goto(d, "writing")
    /\ UNCHANGED <<backup, state, remote, cmd, st, data, man, saved, had, counts>>

(* Mutant of Fill: a short write passes for a whole one. *)
FillNothing(d) == local

(* The write reaches the file it truncated: if the vault was replaced      *)
(* meanwhile, that file has no name any more.                              *)
Fill(d) == [local EXCEPT ![d] = IF @ = Tear(data[d]) THEN data[d] ELSE @]

(* Mutant of FinishWrite: forgets record_sync. *)
FinishWriteUnrecorded(d) ==
    /\ pc[d] = "writing"
    /\ local' = Fill(d)
    /\ backup' = [backup EXCEPT ![d] = IF had[d] THEN None ELSE @]
    /\ Goto(d, "persist")
    /\ UNCHANGED <<state, remote, cmd, st, data, man, saved, had, counts>>

FinishWrite(d) ==
    /\ pc[d] = "writing"
    /\ local' = Fill(d)
    /\ backup' = [backup EXCEPT ![d] = IF had[d] THEN None ELSE @]
    /\ RecordSync(d, data[d], man[d])
    /\ Goto(d, "persist")
    /\ UNCHANGED <<state, remote, cmd, data, man, saved, had, counts>>

(* A fault while the first vault of a device is written. *)
FirstVaultFails(d) == pc[d] = "writing" /\ ~had[d]

(* The write fails; the copy is put back and removed. *)
WriteFails(d) ==
    /\ pc[d] \in {"write", "writing"}
    /\ Fault
    /\ \/ /\ had[d]
          /\ local' = [local EXCEPT ![d] = backup[d]]
          /\ backup' = [backup EXCEPT ![d] = None]
       \/ ~had[d] /\ UNCHANGED <<local, backup>>
    /\ End(d)
    /\ Lapse(FirstVaultFails(d))
    /\ UNCHANGED <<state, remote, edits, uploads>>

(* A second fault: putting the copy back fails too, before or after the    *)
(* vault was truncated.  The copy is removed all the same.                 *)
WriteAndRestoreFail(d) ==
    /\ pc[d] \in {"write", "writing"} /\ had[d]
    /\ faults + 2 <= MaxFaults
    /\ faults' = faults + 2
    /\ \E left \in {Tear(backup[d]), local[d]} :
          local' = [local EXCEPT ![d] = left]
    /\ backup' = [backup EXCEPT ![d] = None]
    /\ End(d)
    /\ UNCHANGED <<state, remote, edits, uploads, lapsed>>

(* The vault is written or restored, and removing the copy fails, or the   *)
(* process dies before it: a written vault is not recorded, and a pull     *)
(* puts the old one back.                                                  *)
RemoveFails(d) ==
    /\ \/ pc[d] = "writing" /\ had[d] /\ (Fail(d) \/ End(d))
       \/ pc[d] = "restoring" /\ End(d)
    /\ Fault
    /\ local' = Fill(d)
    /\ UNCHANGED <<backup, state, remote, edits, uploads, lapsed>>

(* persist_state, after a command that succeeded.  A sync that needs a     *)
(* baseline has no state to write.                                         *)
PersistState(d) ==
    /\ pc[d] = "persist"
    /\ state' = [state EXCEPT ![d] = IF st[d] = None THEN @ ELSE st[d]]
    /\ End(d)
    /\ UNCHANGED <<local, backup, remote, counts>>

(* Mutant of BeginRestore: the backup is gone before the vault is back. *)
BeginRestoreByMove(d) ==
    /\ pc[d] = "restore"
    /\ \/ backup[d] = None /\ End(d) /\ UNCHANGED <<local, backup>>
       \/ /\ backup[d] # None
          /\ local' = [local EXCEPT ![d] = Tear(backup[d])]
          /\ backup' = [backup EXCEPT ![d] = None]
          /\ data' = [data EXCEPT ![d] = backup[d]]
          /\ Goto(d, "restoring")
          /\ UNCHANGED <<cmd, st, man, saved, had>>
    /\ UNCHANGED <<state, remote, counts>>

(* restore_backup, after a pull that failed. *)
BeginRestore(d) ==
    /\ pc[d] = "restore"
    /\ \/ backup[d] = None /\ End(d) /\ UNCHANGED local
       \/ /\ backup[d] # None
          /\ local' = [local EXCEPT ![d] = Tear(backup[d])]
          /\ data' = [data EXCEPT ![d] = backup[d]]
          /\ Goto(d, "restoring")
          /\ UNCHANGED <<cmd, st, man, saved, had>>
    /\ UNCHANGED <<backup, state, remote, counts>>

FinishRestore(d) ==
    /\ pc[d] = "restoring"
    /\ local' = Fill(d)
    /\ backup' = [backup EXCEPT ![d] = None]
    /\ End(d)
    /\ UNCHANGED <<state, remote, counts>>

-----------------------------------------------------------------------------
(* A request fails without effect.  An upload whose answer is lost leaves  *)
(* what a crash right after it leaves.                                     *)
RequestFails(d) ==
    /\ pc[d] \in {"fetch", "pushFetch", "pullFetch", "uploadVault",
                  "uploadManifest", "download"}
    /\ Fault
    /\ Fail(d)
    /\ UNCHANGED <<disk, remote, edits, uploads, lapsed>>

(* The process dies, or a restore fails half-way: nothing is cleaned up.   *)
(* The state file is written in place, so dying in that write garbles it.  *)
Crash(d) ==
    /\ pc[d] # "idle"
    /\ Fault
    /\ \/ UNCHANGED state
       \/ /\ pc[d] = "persist" /\ st[d] # None
          /\ state' = [state EXCEPT ![d] = Garbled]
    /\ End(d)
    /\ Lapse(FirstVaultFails(d))
    /\ UNCHANGED <<local, backup, remote, edits, uploads>>

Start(d) == StartPush(d) \/ StartPull(d) \/ StartSync(d)

Fetch(d) ==
    \/ PushFetch(d) \/ PullFetch(d)
    \/ SyncFetchFirst(d) \/ SyncFetchCompare(d)
    \/ SyncPushFetch(d) \/ SyncPullFetch(d)

Proceed(d) ==
    \/ Fetch(d)
    \/ UploadVault(d) \/ UploadManifest(d)
    \/ DownloadVault(d) \/ BeginWrite(d) \/ FinishWrite(d)
    \/ PersistState(d)
    \/ BeginRestore(d) \/ FinishRestore(d)

Next ==
    \E d \in Device :
        \/ EditVault(d)
        \/ Start(d)
        \/ Proceed(d)
        \/ BackupFails(d)
        \/ CopyFails(d)
        \/ WriteFails(d)
        \/ WriteAndRestoreFail(d)
        \/ RemoveFails(d)
        \/ RequestFails(d)
        \/ Crash(d)

Spec == Init /\ [][Next]_vars

(* The discipline of a user who runs one command at a time and edits no    *)
(* vault meanwhile, on machines that do not fail.                          *)
Quiet == \A d \in Device : pc[d] = "idle"

SerialNext ==
    \E d \in Device :
        \/ Quiet /\ EditVault(d)
        \/ Quiet /\ Start(d)
        \/ Proceed(d)

SerialSpec == Init /\ [][SerialNext]_vars

(* Every device runs `lk sync` again and again; edits are never due. *)
FairSerialSpec ==
    /\ SerialSpec
    /\ \A d \in Device : WF_vars(Proceed(d)) /\ SF_vars(StartSync(d))

-----------------------------------------------------------------------------
Recorded(s) == s \notin {None, Garbled}

(* The recorded remote blob opens, under this device's key, to the recorded *)
(* local file.                                                             *)
Sound(d, s) ==
    Recorded(s) =>
        /\ Decryptable(key[d], s.remote)
        /\ DecryptVault(key[d], s.remote) = s.local

(* The two checksums of a baseline describe one vault, in the state file   *)
(* and in every running command.  Were it otherwise, an edit made while a  *)
(* command ran could pass for synced (read_local_vault,                    *)
(* encrypt_and_upload, download_and_decrypt, record_sync, persist_state).  *)
BaselineSound == \A d \in Device : Sound(d, state[d]) /\ Sound(d, st[d])

(* A device with a key has only plaintext on disk and in memory. *)
Unsealed(d, b) ==
    key[d] # None /\ b # None =>
        b.k = None /\ b.n = 0 /\ b.damage # "outside"

HoldsPlaintext(d) ==
    Unsealed(d, local[d]) /\ Unsealed(d, backup[d]) /\ Unsealed(d, data[d])

(* A command holds the bytes its next step needs. *)
HoldsOperands(d) ==
    /\ pc[d] = "idle" => data[d] = None
    /\ pc[d] = "fetch" /\ cmd[d] = "push" => data[d] # None
    /\ pc[d] = "fetch" /\ data[d] # None => local[d] # None
    /\ pc[d] \in {"pushFetch", "uploadVault", "uploadManifest",
                 "write", "writing", "restoring"} => data[d] # None
    /\ pc[d] \in {"uploadManifest", "download", "write", "writing"}
        => man[d] # None
    /\ pc[d] \in {"write", "writing"} /\ had[d] => backup[d] # None

(* The plaintext a command is about to record or write is what the blob    *)
(* beside it opens to.                                                     *)
BlobOpens(d) ==
    pc[d] \in {"uploadManifest", "write", "writing"} =>
        /\ Decryptable(key[d], man[d])
        /\ DecryptVault(key[d], man[d]) = data[d]

DeviceInv(d) ==
    /\ HoldsPlaintext(d) /\ HoldsOperands(d) /\ BlobOpens(d)
    /\ Sound(d, state[d]) /\ Sound(d, st[d])

(* The inductive invariant behind BaselineSound: what a command holds at   *)
(* each of its steps, so that the step which records a baseline records    *)
(* two checksums of one vault (download_and_decrypt, encrypt_and_upload).  *)
IInv == TypeOK /\ \A d \in Device : DeviceInv(d)

(* As long as no process died and no write failed, a damaged vault exists  *)
(* only while a pull of that device is rewriting it: none is backed up,    *)
(* uploaded, downloaded or recorded (replace_file_with_backup, push, pull).*)
Whole(b) == b = None \/ b.damage = "none"

DamageNeedsFault ==
    faults = 0 =>
        /\ Whole(rvault)
        /\ \A d \in Device :
            /\ Whole(backup[d]) /\ Whole(data[d])
            /\ Recorded(state[d]) => Whole(state[d].local)
            /\ Whole(local[d]) \/ pc[d] \in {"writing", "restoring"}

HasCopy(d) == Whole(local[d]) \/ (backup[d] # None /\ Whole(backup[d]))

(* One fault, and the way its command then deals with it, leave a whole    *)
(* copy of the vault of every device on disk, at every moment until the    *)
(* next command starts.  Not when the fault was in the copy a pull makes   *)
(* of the vault before it writes: the pull then restores that copy.  And a *)
(* device that had no vault has no copy (replace_file_with_backup,         *)
(* backup_existing_vault, restore_backup).                                 *)
OneFaultLeavesACopy ==
    faults <= 1 /\ ~lapsed =>
        \A d \in Device : HasCopy(d) \/ FirstVaultFails(d)

(* The remote manifest announces the remote vault, except between the two  *)
(* uploads of one push (encrypt_and_upload, "atomically").                 *)
ManifestMatchesVault ==
    (\A d \in Device : pc[d] # "uploadManifest") => rman = rvault

(* A push, or a sync told to keep the remote, that knows a baseline only   *)
(* replaces the remote vault of that baseline (push, check_push_conflict). *)
NoBlindOverwrite ==
    \A d \in Device :
        /\ pc[d] = "uploadVault" /\ cmd[d] \in {"push", "KeepRemote"}
        /\ st[d] # None
        => rvault \in {None, st[d].remote}

(* A pull, or a sync told to keep the local vault, that knows a baseline   *)
(* only replaces the vault of that baseline (pull, check_pull_conflict).   *)
PullKeepsEdits ==
    \A d \in Device :
        /\ pc[d] = "write" /\ cmd[d] \in {"pull", "KeepLocal"}
        /\ st[d] # None
        => local[d] = st[d].local

(* A command that reports success and has a baseline leaves the vault, the *)
(* remote vault and the manifest at that baseline (push, pull, sync).      *)
SuccessMeansInSync ==
    \A d \in Device :
        pc[d] = "persist" /\ st[d] # None =>
            local[d] = st[d].local /\ rvault = st[d].remote /\ rman = rvault

(* Once edits stop, every device that has a baseline comes to hold the     *)
(* vault the remote holds, and holds it from then on whenever no command   *)
(* runs (sync_with_strategy).  A behaviour that the bound on uploads cuts  *)
(* off says nothing.                                                       *)
EventuallyInSync ==
    [](uploads < MaxUploads) =>
        <>[](\A d \in Device : Quiet /\ state[d] # None =>
                rman = rvault /\ local[d] = DecryptVault(key[d], rvault))
=============================================================================
