------------------------------- MODULE Keychain -------------------------------
(***************************************************************************)
(* `lk unlock` on macOS: a copy of the vault's password in the Keychain,   *)
(* behind Touch ID, that commands save, read and clear while other         *)
(* commands change the password of the vault.  What a vault is, is         *)
(* VaultStore's; here it has one password.  Vault and device key exist.    *)
(***************************************************************************)
EXTENDS Naturals

CONSTANTS
    Process, Password, None,
    MaxCommands, MaxChanges, MaxFaults      \* bounds of the model

ASSUME KeychainAssumption ==
    /\ None \notin Password
    /\ {MaxCommands, MaxChanges, MaxFaults} \subseteq Nat

VARIABLES
    vault,      \* the password that opens the vault
    item,       \* what the Keychain keeps, or None
    daemon,     \* how its vault was unlocked last, or None
    proc,       \* per process: where its command is
    commands, changes, faults,
    (* what was: for the properties only *)
    past,       \* the passwords the vault has had
    kept,       \* the passwords the Keychain has kept
    saved       \* a save succeeded; nobody cleared, was refused or died since

counts == <<commands, changes, faults>>
vars == <<vault, item, daemon, proc, counts, past, kept, saved>>

Command == {"unlock", "biometric", "save", "clear", "recover"}
Step == {"idle", "load", "prompt", "open", "send", "delete", "add", "deleteAgain",
         "addAgain", "clear", "recover"}
Replacing == {"add", "deleteAgain", "addAgain"}
Source == {"password", "touchid"}

Idle == [pc |-> "idle", op |-> "unlock", password |-> None, source |-> "password"]

TypeOK ==
    /\ vault \in Password /\ item \in Password \cup {None}
    /\ daemon \in [password : Password, source : Source] \cup {None}
    /\ proc \in [Process -> [pc : Step, op : Command, password : Password \cup {None},
                             source : Source]]
    /\ \A p \in Process :
          proc[p].pc \in {"open", "send", "delete"} \cup Replacing => proc[p].password # None
    /\ past \subseteq Password /\ kept \subseteq Password /\ saved \in BOOLEAN

Goto(p, pc) == proc' = [proc EXCEPT ![p].pc = pc]
End(p) == proc' = [proc EXCEPT ![p] = Idle]

Begin(p) ==
    /\ proc[p].pc = "idle"
    /\ commands < MaxCommands /\ commands' = commands + 1
    /\ \E op \in Command :
          proc' = [proc EXCEPT ![p] = [Idle EXCEPT !.op = op,
                     !.pc = CASE op = "biometric" -> "load"
                              [] op \in {"unlock", "save"} -> "prompt"
                              [] OTHER -> op]]
    /\ UNCHANGED <<vault, item, daemon, changes, faults, past, kept, saved>>

(***************************************************************************)
(* The password                                                            *)
(***************************************************************************)

(* load_password: Touch ID passes.                                         *)
LoadItem(p) ==
    /\ proc[p].pc = "load" /\ item # None
    /\ proc' = [proc EXCEPT ![p].pc = "open", ![p].password = item, ![p].source = "touchid"]
    /\ UNCHANGED <<vault, item, daemon, counts, past, kept, saved>>

(* No item, or Touch ID does not pass: the user is asked.                  *)
LoadFails(p) ==
    /\ proc[p].pc = "load"
    /\ Goto(p, "prompt")
    /\ UNCHANGED <<vault, item, daemon, counts, past, kept, saved>>

Prompt(p) ==
    /\ proc[p].pc = "prompt"
    /\ \E w \in Password : proc' = [proc EXCEPT ![p].pc = "open", ![p].password = w]
    /\ UNCHANGED <<vault, item, daemon, counts, past, kept, saved>>

(* Mutant of Open: saves first and looks at the answer later. *)
OpenUnproven(p) ==
    /\ proc[p].pc = "open"
    /\ IF proc[p].op = "save" THEN Goto(p, "delete")
       ELSE IF proc[p].password = vault THEN Goto(p, "send")
       ELSE End(p)
    /\ UNCHANGED <<vault, item, daemon, counts, past, kept, saved>>

(* UnlockedVault::open; a password it refuses ends the command, wherever   *)
(* it came from.                                                           *)
Open(p) ==
    /\ proc[p].pc = "open"
    /\ IF proc[p].password # vault THEN End(p)
       ELSE Goto(p, IF proc[p].op = "save" THEN "delete" ELSE "send")
    /\ UNCHANGED <<vault, item, daemon, counts, past, kept, saved>>

(* send_unlock_to_daemon: it may not be there, and opens the vault itself. *)
Send(p) ==
    /\ proc[p].pc = "send"
    /\ \/ daemon' = daemon
       \/ /\ proc[p].password = vault
          /\ daemon' = [password |-> vault, source |-> proc[p].source]
    /\ End(p)
    /\ UNCHANGED <<vault, item, counts, past, kept, saved>>

(***************************************************************************)
(* save_password and delete_saved_password                                 *)
(***************************************************************************)

Delete(p) ==
    /\ proc[p].pc = "delete"
    /\ item' = None
    /\ Goto(p, "add")
    /\ UNCHANGED <<vault, daemon, counts, past, kept, saved>>

Store(p) ==
    /\ item = None
    /\ item' = proc[p].password
    /\ kept' = kept \cup {proc[p].password}
    /\ saved' = TRUE
    /\ End(p)

(* The Keychain has an item already: another command's.                    *)
Add(p) ==
    /\ proc[p].pc = "add"
    /\ \/ Store(p)
       \/ item # None /\ Goto(p, "deleteAgain") /\ UNCHANGED <<item, kept, saved>>
    /\ UNCHANGED <<vault, daemon, counts, past>>

(* Mutant of DeleteAgain: takes the item that was there for its own. *)
DeleteAgainOnly(p) ==
    /\ proc[p].pc = "deleteAgain"
    /\ item' = None
    /\ End(p)
    /\ UNCHANGED <<vault, daemon, counts, past, kept, saved>>

DeleteAgain(p) ==
    /\ proc[p].pc = "deleteAgain"
    /\ item' = None
    /\ Goto(p, "addAgain")
    /\ UNCHANGED <<vault, daemon, counts, past, kept, saved>>

(* The second duplicate is an error.                                       *)
AddAgain(p) ==
    /\ proc[p].pc = "addAgain"
    /\ \/ Store(p)
       \/ item # None /\ End(p) /\ UNCHANGED <<item, kept, saved>>
    /\ UNCHANGED <<vault, daemon, counts, past>>

(* No access control without Touch ID, or another code of SecItemAdd: the  *)
(* old item is gone by then.                                               *)
Refused(p) ==
    /\ faults < MaxFaults /\ faults' = faults + 1
    /\ proc[p].pc \in {"add", "addAgain"}
    /\ End(p)
    /\ saved' = FALSE
    /\ UNCHANGED <<vault, item, daemon, commands, changes, past, kept>>

(* The Keychain keeps what it has: save_password goes on all the same.      *)
DeleteFails(p) ==
    /\ faults < MaxFaults /\ faults' = faults + 1
    /\ \/ proc[p].pc = "delete" /\ Goto(p, "add")
       \/ proc[p].pc = "deleteAgain" /\ Goto(p, "addAgain")
       \/ proc[p].pc = "clear" /\ End(p)
    /\ UNCHANGED <<vault, item, daemon, commands, changes, past, kept, saved>>

Clear(p) ==
    /\ proc[p].pc = "clear"
    /\ item' = None /\ saved' = FALSE
    /\ End(p)
    /\ UNCHANGED <<vault, daemon, counts, past, kept>>

(***************************************************************************)
(* The vault's password changes                                            *)
(***************************************************************************)

NewPassword == vault' \in Password /\ past' = past \cup {vault'}

(* handle_recover: the Keychain is not told.                               *)
Recover(p) ==
    /\ proc[p].pc = "recover"
    /\ NewPassword
    /\ End(p)
    /\ UNCHANGED <<item, daemon, counts, kept, saved>>

(* A pull brings a vault with another password, or one that was opened     *)
(* earlier is saved over this one.                                         *)
Replaced ==
    /\ changes < MaxChanges /\ changes' = changes + 1
    /\ NewPassword
    /\ UNCHANGED <<item, daemon, proc, commands, faults, kept, saved>>

(* The daemon locks itself, is told to, or starts anew.                    *)
Lock ==
    /\ daemon' = None
    /\ UNCHANGED <<vault, item, proc, counts, past, kept, saved>>

Crash(p) ==
    /\ faults < MaxFaults /\ faults' = faults + 1
    /\ proc[p].pc # "idle"
    /\ End(p)
    /\ saved' = FALSE
    /\ UNCHANGED <<vault, item, daemon, commands, changes, past, kept>>

Init ==
    /\ vault \in Password /\ past = {vault}
    /\ item = None /\ kept = {} /\ saved = FALSE
    /\ daemon = None
    /\ proc = [p \in Process |-> Idle]
    /\ commands = 0 /\ changes = 0 /\ faults = 0

Next ==
    \/ \E p \in Process :
          \/ Begin(p) \/ LoadItem(p) \/ LoadFails(p) \/ Prompt(p) \/ Open(p) \/ Send(p)
          \/ Delete(p) \/ Add(p) \/ DeleteAgain(p) \/ AddAgain(p) \/ Refused(p)
          \/ DeleteFails(p) \/ Clear(p) \/ Recover(p) \/ Crash(p)
    \/ Replaced \/ Lock

Spec == Init /\ [][Next]_vars

(***************************************************************************)
(* Properties                                                              *)
(***************************************************************************)

(* Whatever commands save and change at the same time, the Keychain keeps  *)
(* no password that did not open this vault once (handle_unlock).          *)
KeptWasProven == item # None => item \in past

(* The daemon's log says touchid only for a password that came out of the  *)
(* Keychain, never for one that was typed (UnlockWithBiometric).           *)
TouchMeansKept ==
    daemon # None /\ daemon.source = "touchid" => daemon.password \in kept

(* Two saves that replace each other's item leave one of them there: once  *)
(* nobody is replacing it, a saved password is found (save_password).      *)
SavedIsFound ==
    saved /\ (\A p \in Process : proc[p].pc \notin Replacing) => item # None
=============================================================================
