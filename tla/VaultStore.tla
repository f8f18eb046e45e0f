------------------------------ MODULE VaultStore ------------------------------
(***************************************************************************)
(* One machine's ~/.lockit and the programs that share it: `lk` commands   *)
(* (crates/cli/src/main.rs, vault.rs, credentials.rs), the daemon's        *)
(* unlocked vault (crates/cli/src/daemon.rs), `lk sync pull`, and a user   *)
(* who deletes the directory.                                              *)
(*                                                                         *)
(* No lock protects the files.  A command is cut wherever it reads or      *)
(* writes one of them: between two such points it waits for a prompt or    *)
(* derives a key, and anyone else may act.                                 *)
(***************************************************************************)
EXTENDS UnlockedVault, FiniteSets

CONSTANTS
    Torn,           \* a file truncated or half written
    Proc,           \* running `lk` commands
    Commands,       \* the commands users run
    Requests,       \* the edits clients send to the daemon
    MaxCredentials, \* check_vault_size: more credentials are not saved
    MaxKeys,        \* bound: device keys and vaults generated
    Events,         \* what else happens: "pull", "newer", "delete"
    MaxEvents,      \* bound: how often
    MaxFaults       \* bound: crashes and failed writes

VARIABLES
    vault,          \* vault.lockit
    devkey,         \* device.key
    creds,          \* the entries whose text the plaintext credentials file holds
    pc, cmd,        \* where each command is, and which
    dk,             \* the device key it loaded
    mem,            \* the vault it holds
    daemon,         \* the vault the daemon holds, None when locked
    veks, keys,     \* VEKs and device keys generated so far
    lastPwd,        \* history: the password last set for this vault
    fresh,          \* history: only the daemon wrote it since its unlock
    stale,          \* history: a daemon that was not fresh has, since lastPwd
    events, faults

files == <<vault, devkey, creds>>
procs == <<pc, cmd, dk, mem>>
history == <<lastPwd, fresh, stale>>
vars == <<files, procs, daemon, veks, keys, history, events, faults>>

Ops == {"init", "add", "import", "delete", "recover", "unlock", "read"}

(* The device key of the machine whose vaults arrive by sync, and their VEK.*)
Foreign == 0

Entry == Name \X Value

Texts(map) == {<<n, map[n]>> : n \in {m \in Name : map[m] # None}}

ASSUME StoreAssumption ==
    /\ Commands \subseteq [op : Ops, edit : Edits]
    /\ Requests \subseteq Edits
    /\ None \notin Commands /\ None \notin Nat /\ None \notin Maps
    /\ None \notin Password
    /\ Torn \notin Nat /\ Torn # None
    /\ {MaxCredentials, MaxKeys, MaxEvents, MaxFaults} \subseteq Nat
    /\ Events \subseteq {"pull", "newer", "delete"}

PCs == {"idle", "key", "keyCreate", "keyWrite", "check", "open", "create",
        "saveNew", "save", "export", "exporting", "recover", "rewrite",
        "send"}

(* Types of the variables. *)
TypeOK ==
    /\ vault \in VaultFile \cup {None}
    /\ devkey \in Nat \cup {None, Torn}
    /\ creds \in (SUBSET Entry) \cup {None}
    /\ pc \in [Proc -> PCs]
    /\ cmd \in [Proc -> Commands \cup {None}]
    /\ dk \in [Proc -> Nat \cup {None}]
    /\ mem \in [Proc -> VaultFile \cup {None}]
    /\ daemon \in VaultFile \cup {None}
    /\ veks \in Nat /\ keys \in Nat
    /\ lastPwd \in Password \cup {None} /\ fresh \in BOOLEAN /\ stale \in BOOLEAN
    /\ events \in Nat /\ faults \in Nat

Init ==
    /\ vault = None /\ devkey = None /\ creds = None
    /\ pc = [p \in Proc |-> "idle"]
    /\ cmd = [p \in Proc |-> None]
    /\ dk = [p \in Proc |-> None]
    /\ mem = [p \in Proc |-> None]
    /\ daemon = None
    /\ veks = 0 /\ keys = 0
    /\ lastPwd = None /\ fresh = FALSE /\ stale = FALSE
    /\ events = 0 /\ faults = 0

-----------------------------------------------------------------------------
Op(p) == cmd[p].op

Goto(p, label) == pc' = [pc EXCEPT ![p] = label]

(* The command ends, with or without an error. *)
End(p) ==
    /\ pc' = [pc EXCEPT ![p] = "idle"]
    /\ cmd' = [cmd EXCEPT ![p] = None]
    /\ dk' = [dk EXCEPT ![p] = None]
    /\ mem' = [mem EXCEPT ![p] = None]

Fault == faults < MaxFaults /\ faults' = faults + 1

(* Who looks for the vault before the device key is loaded: init wants     *)
(* none, open_vault and handle_recover want one.                           *)
Starts(c) ==
    CASE c.op = "init" -> vault = None
      [] c.op \in {"delete", "recover", "read"} -> vault # None
      [] OTHER -> TRUE

Start(p) ==
    /\ pc[p] = "idle"
    /\ \E c \in Commands :
        /\ Starts(c)
        /\ cmd' = [cmd EXCEPT ![p] = c]
    /\ Goto(p, "key")
    /\ UNCHANGED <<files, dk, mem, daemon, veks, keys, history, events, faults>>

-----------------------------------------------------------------------------
(* What follows the device key. *)
AfterKey(p) ==
    CASE Op(p) = "init" -> "create"
      [] Op(p) \in {"add", "import", "unlock"} -> "check"
      [] Op(p) = "recover" -> "recover"
      [] OTHER -> "open"

(* Mutant of LoadKey: takes a key of any length. *)
LoadKeyUnchecked(p) ==
    /\ pc[p] = "key"
    /\ \/ devkey = None /\ Goto(p, "keyCreate") /\ UNCHANGED <<cmd, dk, mem>>
       \/ /\ devkey # None
          /\ dk' = [dk EXCEPT ![p] = devkey]
          /\ Goto(p, AfterKey(p))
          /\ UNCHANGED <<cmd, mem>>
    /\ UNCHANGED <<files, daemon, veks, keys, history, events, faults>>

(* load_or_create_device_key: look, create empty, write.  A key file of    *)
(* another length than 32 bytes ends the command.                          *)
LoadKey(p) ==
    /\ pc[p] = "key"
    /\ \/ devkey = Torn /\ End(p)
       \/ devkey = None /\ Goto(p, "keyCreate") /\ UNCHANGED <<cmd, dk, mem>>
       \/ /\ devkey \notin {None, Torn}
          /\ dk' = [dk EXCEPT ![p] = devkey]
          /\ Goto(p, AfterKey(p))
          /\ UNCHANGED <<cmd, mem>>
    /\ UNCHANGED <<files, daemon, veks, keys, history, events, faults>>

CreateKey(p) ==
    /\ pc[p] = "keyCreate"
    /\ devkey' = Torn
    /\ Goto(p, "keyWrite")
    /\ UNCHANGED <<vault, creds, cmd, dk, mem, daemon, veks, keys, history,
                   events, faults>>

(* Mutant of WriteKey: hands out a key other than the one on disk. *)
WriteKeyTwice(p) ==
    /\ pc[p] = "keyWrite"
    /\ keys < MaxKeys
    /\ keys' = keys + 1
    /\ devkey' = keys + 2
    /\ dk' = [dk EXCEPT ![p] = keys + 1]
    /\ Goto(p, AfterKey(p))
    /\ UNCHANGED <<vault, creds, cmd, mem, daemon, veks, history, events, faults>>

WriteKey(p) ==
    /\ pc[p] = "keyWrite"
    /\ keys < MaxKeys
    /\ keys' = keys + 1
    /\ devkey' = keys + 1
    /\ dk' = [dk EXCEPT ![p] = keys + 1]
    /\ Goto(p, AfterKey(p))
    /\ UNCHANGED <<vault, creds, cmd, mem, daemon, veks, history, events, faults>>

-----------------------------------------------------------------------------
(* handle_add makes a vault where there is none; the others stop. *)
CheckVault(p) ==
    /\ pc[p] = "check"
    /\ \/ vault # None /\ Goto(p, "open") /\ UNCHANGED <<cmd, dk, mem>>
       \/ vault = None /\ Op(p) = "add"
          /\ Goto(p, "create") /\ UNCHANGED <<cmd, dk, mem>>
       \/ vault = None /\ Op(p) # "add" /\ End(p)
    /\ UNCHANGED <<files, daemon, veks, keys, history, events, faults>>

(* check_vault_size runs on what is about to be saved, after an add or an  *)
(* import.                                                                 *)
Fits(v) ==
    Cardinality({n \in Name : v.entries.map[n] # None}) <= MaxCredentials

(* The command's edit, made in memory.  Deleting wants every name there.   *)
Hold(p, v, label) ==
    mem' = [mem EXCEPT ![p] = v] /\ Goto(p, label) /\ UNCHANGED <<cmd, dk>>

AddEntries(p, v) ==
    /\ Op(p) \in {"add", "import"}
    /\ Fits(Edited(v, cmd[p].edit))
    /\ Hold(p, Edited(v, cmd[p].edit), "save")

DeleteEntries(p, v) ==
    /\ Op(p) = "delete"
    /\ \A n \in DOMAIN cmd[p].edit : v.entries.map[n] # None
    /\ Hold(p, Edited(v, cmd[p].edit), "save")

VerifyPassword(p, v) == Op(p) = "unlock" /\ Hold(p, v, "send")

Edit(p, v) == AddEntries(p, v) \/ DeleteEntries(p, v) \/ VerifyPassword(p, v)

(* UnlockedVault::open with the password the user typed.  The command ends *)
(* on any error, on a read, and when the user declines to overwrite.       *)
OpenVault(p) ==
    /\ pc[p] = "open"
    /\ \/ End(p)
       \/ /\ vault # None
          /\ \E pwd \in Password : Opens(vault, pwd, dk[p])
          /\ Edit(p, Opened(vault))
    /\ UNCHANGED <<files, daemon, veks, keys, history, events, faults>>

(* Mutant of SaveToInternal: keeps the header it finds on disk. *)
SaveToInternalUnderDiskHeader(v) ==
    IF vault = None THEN v
    ELSE [v EXCEPT !.wrapped = vault.wrapped, !.recovery = vault.recovery]

(* save_to_internal: the header is the one in memory. *)
SaveToInternal(v) == v

(* init_with_recovery, for `lk init` and for an add without a vault.  The  *)
(* user may decline.                                                       *)
CreateVault(p) ==
    /\ pc[p] = "create"
    /\ \/ End(p) /\ UNCHANGED veks
       \/ /\ veks < MaxKeys
          /\ veks' = veks + 1
          /\ \E pwd \in Password :
                mem' = [mem EXCEPT ![p] = InitWithRecovery(pwd, dk[p], veks')]
          /\ Goto(p, "saveNew")
          /\ UNCHANGED <<cmd, dk>>
    /\ UNCHANGED <<files, daemon, keys, history, events, faults>>

(* save_to, long after the command found no vault there.  An add goes on,  *)
(* unless its arguments or the vault's size stop it.                       *)
SaveNewVault(p) ==
    /\ pc[p] = "saveNew"
    /\ vault' = SaveToInternal(mem[p])
    /\ lastPwd' = mem[p].wrapped.pwd /\ fresh' = FALSE /\ stale' = FALSE
    /\ (Op(p) = "add" /\ Edit(p, mem[p])) \/ End(p)
    /\ UNCHANGED <<devkey, creds, daemon, veks, keys, events, faults>>

(* Mutant of SaveVault: a deletion skips save_and_sync's second half. *)
SaveVaultOnly(p) ==
    /\ pc[p] = "save"
    /\ vault' = SaveToInternal(mem[p])
    /\ IF Op(p) = "delete" THEN End(p)
       ELSE Goto(p, "export") /\ UNCHANGED <<cmd, dk, mem>>
    /\ fresh' = FALSE
    /\ UNCHANGED <<devkey, creds, daemon, veks, keys, lastPwd, stale, events, faults>>

(* save_and_sync: atomic_write replaces the vault in one rename, whatever  *)
(* it holds by now; then write_credentials truncates and fills its file.   *)
SaveVault(p) ==
    /\ pc[p] = "save"
    /\ vault' = SaveToInternal(mem[p])
    /\ Goto(p, "export")
    /\ fresh' = FALSE
    /\ UNCHANGED <<devkey, creds, cmd, dk, mem, daemon, veks, keys, lastPwd,
                   stale, events, faults>>

BeginExport(p) ==
    /\ pc[p] = "export"
    /\ creds' = {}
    /\ Goto(p, "exporting")
    /\ UNCHANGED <<vault, devkey, cmd, dk, mem, daemon, veks, keys, history,
                   events, faults>>

(* How an entry is written down is left out.  A second writer may have     *)
(* filled the file meanwhile; the end of a longer text of its then stands  *)
(* behind the shorter one.                                                 *)
FinishExport(p) ==
    /\ pc[p] = "exporting"
    /\ \E rest \in SUBSET (IF creds = None THEN {} ELSE creds) :
          creds' = Texts(mem[p].entries.map) \cup rest
    /\ End(p)
    /\ UNCHANGED <<vault, devkey, daemon, veks, keys, history, events, faults>>

-----------------------------------------------------------------------------
(* recover_with_mnemonic: reads the file, derives two keys, writes it.     *)
ReadToRecover(p) ==
    /\ pc[p] = "recover"
    /\ \/ End(p)
       \/ /\ vault # None
          /\ \E phrase \in 0..veks, pwd \in Password :
                /\ PhraseFits(vault, phrase)
                /\ mem' = [mem EXCEPT ![p] = Recovered(vault, pwd, dk[p])]
          /\ Goto(p, "rewrite")
          /\ UNCHANGED <<cmd, dk>>
    /\ UNCHANGED <<files, daemon, veks, keys, history, events, faults>>

RewriteVault(p) ==
    /\ pc[p] = "rewrite"
    /\ vault' = mem[p]
    /\ lastPwd' = mem[p].wrapped.pwd /\ fresh' = FALSE /\ stale' = FALSE
    /\ End(p)
    /\ UNCHANGED <<devkey, creds, daemon, veks, keys, events, faults>>

-----------------------------------------------------------------------------
(* Mutant of SendUnlock: an unlocked daemon answers without reading. *)
SendUnlockOnce(p) ==
    /\ pc[p] = "send"
    /\ \/ /\ vault # None /\ Opens(vault, mem[p].wrapped.pwd, dk[p])
          /\ daemon' = IF daemon # None THEN daemon ELSE Opened(vault)
          /\ fresh' = TRUE
       \/ UNCHANGED <<daemon, fresh>>
    /\ End(p)
    /\ UNCHANGED <<files, veks, keys, lastPwd, stale, events, faults>>

(* send_unlock_to_daemon and do_unlock: the daemon reads the file again,   *)
(* with the password the command just checked.  A failure leaves the vault *)
(* it holds, and a daemon that is not running leaves nothing.              *)
SendUnlock(p) ==
    /\ pc[p] = "send"
    /\ \/ /\ vault # None /\ Opens(vault, mem[p].wrapped.pwd, dk[p])
          /\ daemon' = Opened(vault)
          /\ fresh' = TRUE
       \/ UNCHANGED <<daemon, fresh>>
    /\ End(p)
    /\ UNCHANGED <<files, veks, keys, lastPwd, stale, events, faults>>

(* SetCredential and DeleteCredential: memory first, then the file.        *)
(* Deleting answers NotFound where there is nothing.                       *)
Allowed(v, edit) ==
    \A n \in DOMAIN edit : edit[n] # None \/ v.entries.map[n] # None

DaemonEdit(edit) ==
    /\ daemon # None
    /\ Allowed(daemon, edit)
    /\ daemon' = Edited(daemon, edit)
    /\ vault' = SaveToInternal(daemon')
    /\ stale' = (stale \/ ~fresh)
    /\ UNCHANGED <<devkey, creds, procs, veks, keys, lastPwd, fresh, events, faults>>

(* LockVault, the auto-lock, `lk daemon stop`. *)
DaemonLocks ==
    /\ daemon # None
    /\ daemon' = None
    /\ UNCHANGED <<files, procs, veks, keys, history, events, faults>>

-----------------------------------------------------------------------------
(* `lk sync pull` installs the bytes another machine uploaded, unread: its *)
(* own vault, by this or a newer lockit.                                   *)
PullVault ==
    /\ "pull" \in Events /\ events < MaxEvents
    /\ events' = events + 1
    /\ \E pwd \in Password, version \in {VERSION, VERSION + 1} :
        /\ vault' = [InitWithRecovery(pwd, Foreign, Foreign)
                        EXCEPT !.version = version]
        /\ lastPwd' = pwd
    /\ fresh' = FALSE /\ stale' = FALSE
    /\ UNCHANGED <<devkey, creds, procs, daemon, veks, keys, faults>>

(* A newer lockit on this machine saves the vault in its own format. *)
NewerSaves ==
    /\ "newer" \in Events /\ events < MaxEvents
    /\ events' = events + 1
    /\ vault # None
    /\ vault' = [vault EXCEPT !.version = VERSION + 1]
    /\ fresh' = FALSE
    /\ UNCHANGED <<devkey, creds, procs, daemon, veks, keys, lastPwd, stale, faults>>

(* "Delete ~/.lockit to reinitialize", while no command runs.  A daemon     *)
(* keeps the vault it holds, and stays reachable unless its socket was in  *)
(* the directory.                                                          *)
Quiet == \A p \in Proc : pc[p] = "idle"

DeleteDirectory ==
    /\ "delete" \in Events /\ events < MaxEvents
    /\ events' = events + 1
    /\ Quiet
    /\ vault' = None /\ devkey' = None /\ creds' = None
    /\ daemon' \in {daemon, None}
    /\ lastPwd' = None /\ fresh' = FALSE /\ stale' = FALSE
    /\ UNCHANGED <<procs, veks, keys, faults>>

(* The temporary file cannot be written or renamed. *)
SaveFails(p) ==
    /\ pc[p] \in {"saveNew", "save", "rewrite"}
    /\ Fault
    /\ End(p)
    /\ UNCHANGED <<files, daemon, veks, keys, history, events>>

(* The rename is done; opening or syncing the directory fails. *)
SyncDirFails(p) ==
    /\ pc[p] \in {"saveNew", "save", "rewrite"}
    /\ Fault
    /\ vault' = SaveToInternal(mem[p])
    /\ IF pc[p] = "save" THEN UNCHANGED <<lastPwd, stale>>
       ELSE lastPwd' = mem[p].wrapped.pwd /\ stale' = FALSE
    /\ fresh' = FALSE
    /\ End(p)
    /\ UNCHANGED <<devkey, creds, daemon, veks, keys, events>>

(* The daemon answers "save failed" and keeps the edit in memory: a fault, *)
(* or the directory was deleted and no command has made it again.          *)
DaemonSaveFails(edit) ==
    /\ daemon # None
    /\ Allowed(daemon, edit)
    /\ Fault \/ (devkey = None /\ UNCHANGED faults)
    /\ daemon' = Edited(daemon, edit)
    /\ UNCHANGED <<files, procs, veks, keys, history, events>>

Crash(p) ==
    /\ pc[p] # "idle"
    /\ Fault
    /\ End(p)
    /\ UNCHANGED <<files, daemon, veks, keys, history, events>>

(* The vault was synced to the disk before its rename; device.key and      *)
(* credentials never are.                                                  *)
PowerLoss ==
    /\ Fault
    /\ devkey' \in {devkey, IF devkey = None THEN None ELSE Torn}
    /\ creds' \in {creds, IF creds = None THEN None ELSE {}}
    /\ pc' = [p \in Proc |-> "idle"]
    /\ cmd' = [p \in Proc |-> None]
    /\ dk' = [p \in Proc |-> None]
    /\ mem' = [p \in Proc |-> None]
    /\ daemon' = None
    /\ UNCHANGED <<vault, veks, keys, history, events>>

Proceed(p) ==
    \/ LoadKey(p) \/ CreateKey(p) \/ WriteKey(p)
    \/ CheckVault(p) \/ OpenVault(p) \/ CreateVault(p) \/ SaveNewVault(p)
    \/ SaveVault(p) \/ BeginExport(p) \/ FinishExport(p)
    \/ ReadToRecover(p) \/ RewriteVault(p)
    \/ SendUnlock(p)

ProcessFails(p) == SaveFails(p) \/ SyncDirFails(p) \/ Crash(p)

Next ==
    \/ \E p \in Proc : Start(p) \/ Proceed(p) \/ ProcessFails(p)
    \/ \E edit \in Requests : DaemonEdit(edit) \/ DaemonSaveFails(edit)
    \/ DaemonLocks
    \/ PullVault
    \/ NewerSaves
    \/ DeleteDirectory
    \/ PowerLoss

Spec == Init /\ [][Next]_vars

(* A user who waits for each command before the next, and before a request *)
(* to the daemon; whose save may fail, and leave the file alone, at any    *)
(* time.  The daemon need not know what was done to the file since its     *)
(* unlock.                                                                 *)
SerialNext ==
    \/ \E p \in Proc : (Quiet /\ Start(p)) \/ Proceed(p) \/ ProcessFails(p)
    \/ Quiet /\ \E edit \in Requests : DaemonEdit(edit)
    \/ \E edit \in Requests : DaemonSaveFails(edit)
    \/ DaemonLocks
    \/ Quiet /\ PullVault
    \/ Quiet /\ NewerSaves
    \/ DeleteDirectory
    \/ PowerLoss

SerialSpec == Init /\ [][SerialNext]_vars

-----------------------------------------------------------------------------
(* Whatever overwrites whatever, the password and the recovery phrase of   *)
(* the vault file lead to the key its entries are sealed under: nobody is  *)
(* ever told "Vault file corrupted", and the phrase shown once at init     *)
(* stays good (save_to_internal, recover_with_mnemonic).                   *)
VaultConsistent == vault # None => Consistent(vault)

(* Inductive: so is every vault a process holds, and a command holds the   *)
(* vault it is about to write.                                             *)
HoldsOperands(p) ==
    /\ mem[p] # None => Consistent(mem[p])
    /\ pc[p] \in {"saveNew", "save", "export", "exporting", "rewrite", "send"}
        => mem[p] # None
    /\ pc[p] \in {"check", "create", "recover"} => dk[p] # None
    /\ pc[p] # "idle" => cmd[p] # None

(* The inductive invariant behind VaultConsistent: every copy of a vault,  *)
(* on disk, in a command or in the daemon, is consistent by itself.        *)
IInv ==
    /\ TypeOK
    /\ VaultConsistent
    /\ daemon # None => Consistent(daemon)
    /\ \A p \in Proc : HoldsOperands(p)

(* A daemon writes over a file that others changed since its unlock.       *)
StaleSave ==
    /\ daemon # None /\ ~fresh
    /\ vault' = daemon' /\ UNCHANGED procs

(* A user who waits loses no edit but by such a daemon: any other change   *)
(* of the file's credentials is the edit of one command or request and     *)
(* nothing else, made to what the file held before (open, set, delete,     *)
(* save, SetCredential).                                                   *)
Content(f) == IF f = None THEN EmptyMap ELSE f.entries.map

AppliedToDisk(e) ==
    [n \in Name |-> IF n \in DOMAIN e THEN e[n] ELSE Content(vault)[n]]

NoLostUpdate ==
    [][vault # None /\ vault' # None /\ events' = events /\ faults = 0 =>
          \/ Content(vault') = Content(vault)
          \/ \E c \in {cmd[p] : p \in Proc} \ {None} :
                Content(vault') = AppliedToDisk(c.edit)
          \/ \E e \in Requests : Content(vault') = AppliedToDisk(e)
          \/ StaleSave]_vars

(* The vault opens with the password last set for it, by init or recovery, *)
(* and nothing but a daemon unlocked before that brings an older one back  *)
(* (recover_with_mnemonic, save_to_internal).                              *)
PasswordIsTheLastSet == vault # None /\ ~stale => vault.wrapped.pwd = lastPwd

(* A vault in the format of a newer lockit is left alone by everything but *)
(* `lk recover`, which does not look, and a daemon unlocked before it came *)
(* (open: "Please upgrade lockit").                                        *)
Recovering == \E p \in Proc : pc[p] = "rewrite" /\ pc'[p] = "idle"

NewerFormatKept ==
    [][/\ vault # None /\ vault' # None /\ events' = events
       /\ ~Recovering /\ ~StaleSave
       => (vault.version > VERSION => vault' = vault)]_vars

(* A command that saves and succeeds leaves no text in the credentials     *)
(* file of an entry that was deleted or set anew (save_and_sync,           *)
(* write_credentials).                                                     *)
NoStalePlaintext ==
    [][\A p \in Proc :
          /\ pc[p] \in {"save", "exporting"} /\ pc'[p] = "idle"
          /\ faults' = faults
          => creds' = None \/ creds' \subseteq Texts(Content(vault'))]_vars

(* The device key on disk is the one the vault is wrapped under, unless    *)
(* the vault came from another machine or from a daemon unlocked long ago  *)
(* (load_or_create_device_key before every init and open).                 *)
VaultOpensHere ==
    faults = 0 /\ ~stale /\ Quiet /\ vault # None =>
        vault.wrapped.dk \in {devkey, Foreign}

(* A damaged device key does not stop `lk recover` (load_or_create_device_ *)
(* key: "Otherwise run `lk recover` to regain access").                    *)
RecoverRegainsAccess ==
    [][\A p \in Proc :
          /\ pc[p] = "key" /\ cmd[p] # None
          /\ devkey = Torn /\ faults' = faults
          /\ cmd[p].op = "recover"
          => pc'[p] # "idle"]_vars
=============================================================================
