-------------------------- MODULE VaultStore_proofs --------------------------
(***************************************************************************)
(* Proofs about ~/.lockit, whatever the commands, the daemon and sync do   *)
(* to it (VaultStore).                                                     *)
(*                                                                         *)
(* In whatever order they act, the vault file stays consistent.            *)
(* VaultConsistent is not inductive alone: a command or the daemon may     *)
(* write a vault it read long ago.  IInv says the same of every copy of a  *)
(* vault.  Each action either copies a consistent vault, makes a new one   *)
(* or applies one of four operators that keep consistency.                 *)
(*                                                                         *)
(* To a user who waits for each command the second half promises more,     *)
(* except from a daemon that saves a copy older than the file: no edit is  *)
(* lost, no old password comes back, newer formats are left alone, the     *)
(* device key fits; and the credentials file holds nothing the vault does  *)
(* not.  SerialInv says that what a command has read is still on disk when *)
(* it writes.                                                              *)
(***************************************************************************)
EXTENDS VaultStore, TLAPS

(* What the operators of UnlockedVault make of a consistent vault. *)
LEMMA InitVault ==
    ASSUME NEW pwd \in Password, NEW d \in Nat, NEW vek \in Nat
    PROVE  /\ InitWithRecovery(pwd, d, vek) \in VaultFile
           /\ Consistent(InitWithRecovery(pwd, d, vek))
  <1>1. EmptyMap \in Maps
    BY DEF EmptyMap, Maps
  <1>2. QED
    BY <1>1 DEF InitWithRecovery, VaultFile, Consistent, VERSION

LEMMA OpenedVault ==
    ASSUME NEW f \in VaultFile, Consistent(f)
    PROVE  Opened(f) \in VaultFile /\ Consistent(Opened(f))
  BY DEF Opened, VaultFile, Consistent, VERSION

LEMMA EditedVault ==
    ASSUME NEW v \in VaultFile, Consistent(v), NEW edit \in Edits
    PROVE  Edited(v, edit) \in VaultFile /\ Consistent(Edited(v, edit))
  <1> DEFINE map == [n \in Name |->
                        IF n \in DOMAIN edit THEN edit[n]
                        ELSE v.entries.map[n]]
  <1>1. PICK S \in SUBSET Name : edit \in [S -> Value \cup {None}]
    BY DEF Edits
  <1>2. v.entries.map \in [Name -> Value \cup {None}]
    BY DEF VaultFile, Maps
  <1>3. map \in Maps
    BY <1>1, <1>2 DEF Maps
  <1> HIDE DEF map
  <1>4. Edited(v, edit) = [v EXCEPT !.entries.map = map]
    BY DEF Edited, map
  <1>5. QED
    BY <1>3, <1>4 DEF VaultFile, Consistent

LEMMA RecoveredVault ==
    ASSUME NEW f \in VaultFile, Consistent(f), NEW pwd \in Password, NEW d \in Nat
    PROVE  Recovered(f, pwd, d) \in VaultFile /\ Consistent(Recovered(f, pwd, d))
  BY DEF Recovered, VaultFile, Consistent, VERSION

-----------------------------------------------------------------------------
(* One command moves, the others keep what they hold. *)
Untouched(q) ==
    pc'[q] = pc[q] /\ cmd'[q] = cmd[q] /\ dk'[q] = dk[q] /\ mem'[q] = mem[q]

ProcTypes ==
    /\ pc \in [Proc -> PCs]
    /\ cmd \in [Proc -> Commands \cup {None}]
    /\ dk \in [Proc -> Nat \cup {None}]
    /\ mem \in [Proc -> VaultFile \cup {None}]

FileTypes ==
    /\ vault \in VaultFile \cup {None}
    /\ devkey \in Nat \cup {None, Torn}
    /\ creds \in (SUBSET Entry) \cup {None}
    /\ daemon \in VaultFile \cup {None}
    /\ veks \in Nat /\ keys \in Nat
    /\ lastPwd \in Password \cup {None} /\ fresh \in BOOLEAN /\ stale \in BOOLEAN
    /\ events \in Nat /\ faults \in Nat

Copies == VaultConsistent /\ (daemon # None => Consistent(daemon))

LEMMA Parts == IInv <=> /\ ProcTypes /\ FileTypes /\ Copies
                        /\ \A p \in Proc : HoldsOperands(p)
  BY DEF IInv, TypeOK, ProcTypes, FileTypes, Copies

LEMMA OthersKeep ==
    ASSUME IInv, NEW p \in Proc, \A q \in Proc \ {p} : Untouched(q),
           HoldsOperands(p)'
    PROVE  \A q \in Proc : HoldsOperands(q)'
  BY DEF IInv, HoldsOperands, Untouched

(* A command that ended holds nothing. *)
LEMMA EndFrame ==
    ASSUME ProcTypes, NEW p \in Proc, End(p)
    PROVE  /\ ProcTypes'
           /\ HoldsOperands(p)'
           /\ \A q \in Proc \ {p} : Untouched(q)
  BY DEF ProcTypes, End, HoldsOperands, Untouched, PCs

LEMMA EndStep ==
    ASSUME IInv, NEW p \in Proc, End(p), FileTypes', Copies'
    PROVE  IInv'
  <1>1. /\ ProcTypes' /\ HoldsOperands(p)'
        /\ \A q \in Proc \ {p} : Untouched(q)
    BY EndFrame, Parts
  <1>2. QED
    BY <1>1, OthersKeep, Parts DEF IInv, TypeOK, ProcTypes, FileTypes, Copies

LEMMA GotoFrame ==
    ASSUME ProcTypes, NEW p \in Proc, NEW label \in PCs, Goto(p, label)
    PROVE  /\ pc' \in [Proc -> PCs]
           /\ pc'[p] = label
           /\ \A q \in Proc \ {p} : pc'[q] = pc[q]
  BY DEF ProcTypes, Goto

LEMMA MoveStep ==
    ASSUME IInv, NEW p \in Proc, ProcTypes', HoldsOperands(p)',
           \A q \in Proc \ {p} : Untouched(q), FileTypes', Copies'
    PROVE  IInv'
  BY OthersKeep DEF IInv, TypeOK, ProcTypes, FileTypes, Copies

(* Nothing outside the commands changes. *)
LEMMA Still ==
    ASSUME IInv, UNCHANGED <<vault, daemon>>,
           devkey' \in Nat \cup {None, Torn}, creds' \in (SUBSET Entry) \cup {None},
           veks' \in Nat, keys' \in Nat,
           lastPwd' \in Password \cup {None}, fresh' \in BOOLEAN, stale' \in BOOLEAN,
           events' \in Nat, faults' \in Nat
    PROVE  FileTypes' /\ Copies'
  BY DEF IInv, TypeOK, FileTypes, Copies, VaultConsistent

-----------------------------------------------------------------------------
(* One lemma per action. *)

LEMMA StartStep ==
    ASSUME IInv, NEW p \in Proc, Start(p)
    PROVE  IInv'
  <1> USE DEF Start, files, history
  <1>1. PICK c \in Commands : cmd' = [cmd EXCEPT ![p] = c]
    OBVIOUS
  <1>2. ProcTypes' /\ pc'[p] = "key" /\ cmd'[p] = c /\ mem'[p] = mem[p]
    BY <1>1, GotoFrame, Parts DEF ProcTypes, PCs
  <1>3. \A q \in Proc \ {p} : Untouched(q)
    BY <1>1, GotoFrame, Parts DEF ProcTypes, PCs, Untouched
  <1>4. HoldsOperands(p)'
    BY <1>2, StoreAssumption DEF IInv, HoldsOperands
  <1>5. FileTypes' /\ Copies'
    BY Still DEF IInv, TypeOK
  <1>6. QED
    BY <1>2, <1>3, <1>4, <1>5, MoveStep

LEMMA LoadKeyStep ==
    ASSUME IInv, NEW p \in Proc, LoadKey(p)
    PROVE  IInv'
  <1> USE DEF LoadKey, files, history
  <1>1. FileTypes' /\ Copies'
    BY Still DEF IInv, TypeOK
  <1>2. CASE End(p)
    BY <1>1, <1>2, EndStep
  <1>3. CASE Goto(p, "keyCreate") /\ UNCHANGED <<cmd, dk, mem>>
    <2>1. ProcTypes' /\ pc'[p] = "keyCreate" /\ \A q \in Proc \ {p} : Untouched(q)
      BY <1>3, GotoFrame, Parts DEF ProcTypes, PCs, Untouched
    <2>2. HoldsOperands(p)'
      BY <1>3, <2>1 DEF IInv, HoldsOperands
    <2>3. QED
      BY <1>1, <2>1, <2>2, MoveStep
  <1>4. CASE /\ devkey \notin {None, Torn}
             /\ dk' = [dk EXCEPT ![p] = devkey]
             /\ Goto(p, AfterKey(p)) /\ UNCHANGED <<cmd, mem>>
    <2>1. devkey \in Nat /\ AfterKey(p) \in {"create", "check", "recover", "open"}
      BY <1>4 DEF IInv, TypeOK, AfterKey
    <2>2. AfterKey(p) \in PCs
      BY <2>1 DEF PCs
    <2>3. /\ ProcTypes' /\ pc'[p] = AfterKey(p) /\ dk'[p] = devkey
          /\ \A q \in Proc \ {p} : Untouched(q)
      BY <1>4, <2>1, <2>2, GotoFrame, Parts DEF ProcTypes, Untouched
    <2>4. HoldsOperands(p)'
      BY <1>4, <2>1, <2>3 DEF IInv, HoldsOperands
    <2>5. QED
      BY <1>1, <2>3, <2>4, MoveStep
  <1>5. QED
    BY <1>2, <1>3, <1>4

LEMMA CreateKeyStep ==
    ASSUME IInv, NEW p \in Proc, CreateKey(p)
    PROVE  IInv'
  <1> USE DEF CreateKey, files, history
  <1>1. FileTypes' /\ Copies'
    BY Still DEF IInv, TypeOK
  <1>2. ProcTypes' /\ pc'[p] = "keyWrite" /\ \A q \in Proc \ {p} : Untouched(q)
    BY GotoFrame, Parts DEF ProcTypes, PCs, Untouched
  <1>3. HoldsOperands(p)'
    BY <1>2 DEF IInv, HoldsOperands
  <1>4. QED
    BY <1>1, <1>2, <1>3, MoveStep

LEMMA WriteKeyStep ==
    ASSUME IInv, NEW p \in Proc, WriteKey(p)
    PROVE  IInv'
  <1> USE DEF WriteKey, files, history
  <1>1. keys \in Nat /\ keys + 1 \in Nat
    BY DEF IInv, TypeOK
  <1>2. FileTypes' /\ Copies'
    BY <1>1, Still DEF IInv, TypeOK
  <1>3. AfterKey(p) \in {"create", "check", "recover", "open"}
    BY DEF AfterKey
  <1>4. /\ ProcTypes' /\ pc'[p] = AfterKey(p) /\ dk'[p] = keys + 1
        /\ \A q \in Proc \ {p} : Untouched(q)
    BY <1>1, <1>3, GotoFrame, Parts DEF ProcTypes, Untouched, PCs
  <1>5. HoldsOperands(p)'
    BY <1>1, <1>3, <1>4, StoreAssumption DEF IInv, HoldsOperands
  <1>6. QED
    BY <1>2, <1>4, <1>5, MoveStep

LEMMA CheckVaultStep ==
    ASSUME IInv, NEW p \in Proc, CheckVault(p)
    PROVE  IInv'
  <1> USE DEF CheckVault, files, history
  <1>1. FileTypes' /\ Copies'
    BY Still DEF IInv, TypeOK
  <1>2. CASE End(p)
    BY <1>1, <1>2, EndStep
  <1>3. ASSUME NEW label \in {"open", "create"}, Goto(p, label),
               UNCHANGED <<cmd, dk, mem>>
        PROVE  IInv'
    <2>1. /\ ProcTypes' /\ pc'[p] = label
          /\ \A q \in Proc \ {p} : Untouched(q)
      BY <1>3, GotoFrame, Parts DEF ProcTypes, PCs, Untouched
    <2>2. HoldsOperands(p)'
      BY <1>3, <2>1 DEF IInv, HoldsOperands, CheckVault
    <2>3. QED
      BY <1>1, <2>1, <2>2, MoveStep
  <1>4. QED
    BY <1>2, <1>3

(* A command has edited a consistent vault in memory. *)
LEMMA EditFrame ==
    ASSUME IInv, NEW p \in Proc, cmd[p] # None,
           NEW v \in VaultFile, Consistent(v), Edit(p, v)
    PROVE  /\ ProcTypes' /\ HoldsOperands(p)'
           /\ \A q \in Proc \ {p} : Untouched(q)
  <1> DEFINE edited == Edited(v, cmd[p].edit)
  <1>1. cmd[p].edit \in Edits
    BY StoreAssumption DEF IInv, TypeOK
  <1>2. edited \in VaultFile /\ Consistent(edited)
    BY <1>1, EditedVault
  <1> HIDE DEF edited
  <1>3. ASSUME NEW held \in VaultFile, Consistent(held),
               NEW label \in {"save", "send"},
               mem' = [mem EXCEPT ![p] = held], Goto(p, label),
               UNCHANGED <<cmd, dk>>
        PROVE  /\ ProcTypes' /\ HoldsOperands(p)'
               /\ \A q \in Proc \ {p} : Untouched(q)
    <2>1. /\ ProcTypes' /\ pc'[p] = label /\ mem'[p] = held
          /\ \A q \in Proc \ {p} : Untouched(q)
      BY <1>3, GotoFrame, Parts DEF ProcTypes, PCs, Untouched
    <2>2. HoldsOperands(p)'
      BY <1>3, <2>1, VaultAssumption DEF HoldsOperands
    <2>3. QED
      BY <2>1, <2>2
  <1>4. \/ mem' = [mem EXCEPT ![p] = edited] /\ Goto(p, "save") /\ UNCHANGED <<cmd, dk>>
        \/ mem' = [mem EXCEPT ![p] = v] /\ Goto(p, "send") /\ UNCHANGED <<cmd, dk>>
    BY DEF Edit, AddEntries, DeleteEntries, VerifyPassword, Hold, edited
  <1>5. QED
    BY <1>2, <1>3, <1>4

LEMMA OpenVaultStep ==
    ASSUME IInv, NEW p \in Proc, OpenVault(p)
    PROVE  IInv'
  <1> USE DEF OpenVault, files, history
  <1>1. FileTypes' /\ Copies'
    BY Still DEF IInv, TypeOK
  <1>2. CASE End(p)
    BY <1>1, <1>2, EndStep
  <1>3. CASE vault # None /\ Edit(p, Opened(vault))
    <2>1. Opened(vault) \in VaultFile /\ Consistent(Opened(vault))
      BY <1>3, OpenedVault DEF IInv, TypeOK, VaultConsistent
    <2>2. cmd[p] # None
      BY DEF IInv, HoldsOperands
    <2>3. /\ ProcTypes' /\ HoldsOperands(p)'
          /\ \A q \in Proc \ {p} : Untouched(q)
      BY <1>3, <2>1, <2>2, EditFrame
    <2>4. QED
      BY <1>1, <2>3, MoveStep
  <1>4. QED
    BY <1>2, <1>3

LEMMA CreateVaultStep ==
    ASSUME IInv, NEW p \in Proc, CreateVault(p)
    PROVE  IInv'
  <1> USE DEF CreateVault, files, history
  <1>1. FileTypes' /\ Copies'
    BY Still DEF IInv, TypeOK
  <1>2. CASE End(p)
    BY <1>1, <1>2, EndStep
  <1>3. CASE ~End(p)
    <2>1. PICK pwd \in Password :
              mem' = [mem EXCEPT ![p] = InitWithRecovery(pwd, dk[p], veks')]
      BY <1>3
    <2>2. dk[p] \in Nat /\ veks' \in Nat /\ Goto(p, "saveNew") /\ UNCHANGED <<cmd, dk>>
      BY <1>3 DEF IInv, TypeOK, HoldsOperands
    <2> DEFINE new == InitWithRecovery(pwd, dk[p], veks')
    <2>3. new \in VaultFile /\ Consistent(new)
      BY <2>2, InitVault
    <2> HIDE DEF new
    <2>4. /\ ProcTypes' /\ pc'[p] = "saveNew" /\ mem'[p] = new
          /\ \A q \in Proc \ {p} : Untouched(q)
      BY <2>1, <2>2, <2>3, GotoFrame, Parts DEF ProcTypes, PCs, Untouched, new
    <2>5. HoldsOperands(p)'
      BY <2>2, <2>3, <2>4, VaultAssumption DEF IInv, HoldsOperands
    <2>6. QED
      BY <1>1, <2>4, <2>5, MoveStep
  <1>4. QED
    BY <1>2, <1>3

(* What a command writes is the consistent vault it holds. *)
LEMMA Written ==
    ASSUME IInv, NEW p \in Proc, mem[p] # None,
           vault' = SaveToInternal(mem[p]), UNCHANGED daemon,
           devkey' \in Nat \cup {None, Torn}, creds' \in (SUBSET Entry) \cup {None},
           veks' \in Nat, keys' \in Nat,
           lastPwd' \in {lastPwd, mem[p].wrapped.pwd},
           fresh' \in BOOLEAN, stale' \in BOOLEAN,
           events' \in Nat, faults' \in Nat
    PROVE  FileTypes' /\ Copies'
  <1>1. mem[p] \in VaultFile /\ Consistent(mem[p])
    BY DEF IInv, TypeOK, HoldsOperands
  <1>2. mem[p].wrapped.pwd \in Password
    BY <1>1 DEF VaultFile
  <1>3. QED
    BY <1>1, <1>2 DEF IInv, TypeOK, FileTypes, Copies, VaultConsistent,
                      SaveToInternal

LEMMA SaveNewVaultStep ==
    ASSUME IInv, NEW p \in Proc, SaveNewVault(p)
    PROVE  IInv'
  <1> USE DEF SaveNewVault, files, history
  <1>1. mem[p] # None /\ cmd[p] # None
    BY DEF IInv, HoldsOperands
  <1>2. FileTypes' /\ Copies'
    BY <1>1, Written DEF IInv, TypeOK
  <1>3. CASE End(p)
    BY <1>2, <1>3, EndStep
  <1>4. CASE Edit(p, mem[p])
    <2>1. mem[p] \in VaultFile /\ Consistent(mem[p])
      BY <1>1 DEF IInv, TypeOK, HoldsOperands
    <2>2. /\ ProcTypes' /\ HoldsOperands(p)'
          /\ \A q \in Proc \ {p} : Untouched(q)
      BY <1>1, <1>4, <2>1, EditFrame
    <2>3. QED
      BY <1>2, <2>2, MoveStep
  <1>5. QED
    BY <1>3, <1>4

(* A step that only moves a command forward. *)
LEMMA ForwardFrame ==
    ASSUME IInv, NEW p \in Proc, NEW label \in {"export", "exporting"},
           Goto(p, label), UNCHANGED <<cmd, dk, mem>>, mem[p] # None,
           cmd[p] # None
    PROVE  /\ ProcTypes' /\ HoldsOperands(p)'
           /\ \A q \in Proc \ {p} : Untouched(q)
  <1>1. /\ ProcTypes' /\ pc'[p] = label
        /\ \A q \in Proc \ {p} : Untouched(q)
    BY GotoFrame, Parts DEF ProcTypes, PCs, Untouched
  <1>2. HoldsOperands(p)'
    BY <1>1 DEF IInv, HoldsOperands
  <1>3. QED
    BY <1>1, <1>2

LEMMA SaveVaultStep ==
    ASSUME IInv, NEW p \in Proc, SaveVault(p)
    PROVE  IInv'
  <1> USE DEF SaveVault, history
  <1>1. mem[p] # None /\ cmd[p] # None
    BY DEF IInv, HoldsOperands
  <1>2. FileTypes' /\ Copies'
    BY <1>1, Written DEF IInv, TypeOK
  <1>3. QED
    BY <1>1, <1>2, ForwardFrame, MoveStep

LEMMA BeginExportStep ==
    ASSUME IInv, NEW p \in Proc, BeginExport(p)
    PROVE  IInv'
  <1> USE DEF BeginExport, history
  <1>1. mem[p] # None /\ cmd[p] # None
    BY DEF IInv, HoldsOperands
  <1>2. FileTypes' /\ Copies'
    BY Still DEF IInv, TypeOK
  <1>3. QED
    BY <1>1, <1>2, ForwardFrame, MoveStep

LEMMA FinishExportStep ==
    ASSUME IInv, NEW p \in Proc, FinishExport(p)
    PROVE  IInv'
  <1> USE DEF FinishExport, history
  <1>1. mem[p].entries.map \in Maps
    BY DEF IInv, TypeOK, HoldsOperands, VaultFile
  <1>a. Texts(mem[p].entries.map) \subseteq Entry
    BY <1>1 DEF Texts, Entry, Maps
  <1>b. creds' \in SUBSET Entry
    <2>1. PICK rest \in SUBSET (IF creds = None THEN {} ELSE creds) :
            creds' = Texts(mem[p].entries.map) \cup rest
      OBVIOUS
    <2>2. rest \subseteq Entry
      BY <2>1 DEF IInv, TypeOK
    <2>3. QED
      BY <1>a, <2>1, <2>2
  <1>2. FileTypes' /\ Copies'
    BY <1>b, Still DEF IInv, TypeOK
  <1>3. QED
    BY <1>2, EndStep

LEMMA ReadToRecoverStep ==
    ASSUME IInv, NEW p \in Proc, ReadToRecover(p)
    PROVE  IInv'
  <1> USE DEF ReadToRecover, files, history
  <1>1. FileTypes' /\ Copies'
    BY Still DEF IInv, TypeOK
  <1>2. CASE End(p)
    BY <1>1, <1>2, EndStep
  <1>3. CASE ~End(p)
    <2>1. vault # None /\ Goto(p, "rewrite") /\ UNCHANGED <<cmd, dk>>
      BY <1>3
    <2>2. PICK pwd \in Password :
              mem' = [mem EXCEPT ![p] = Recovered(vault, pwd, dk[p])]
      BY <1>3
    <2> DEFINE new == Recovered(vault, pwd, dk[p])
    <2>3. vault \in VaultFile /\ Consistent(vault) /\ dk[p] \in Nat
      BY <2>1 DEF IInv, TypeOK, VaultConsistent, HoldsOperands
    <2>4. new \in VaultFile /\ Consistent(new)
      BY <2>3, RecoveredVault
    <2> HIDE DEF new
    <2>5. /\ ProcTypes' /\ pc'[p] = "rewrite" /\ mem'[p] = new
          /\ \A q \in Proc \ {p} : Untouched(q)
      BY <2>1, <2>2, <2>4, GotoFrame, Parts DEF ProcTypes, PCs, Untouched, new
    <2>6. HoldsOperands(p)'
      BY <2>1, <2>4, <2>5, VaultAssumption DEF IInv, HoldsOperands
    <2>7. QED
      BY <1>1, <2>5, <2>6, MoveStep
  <1>4. QED
    BY <1>2, <1>3

LEMMA RewriteVaultStep ==
    ASSUME IInv, NEW p \in Proc, RewriteVault(p)
    PROVE  IInv'
  <1> USE DEF RewriteVault
  <1>1. mem[p] # None
    BY DEF IInv, HoldsOperands
  <1>2. FileTypes' /\ Copies'
    BY <1>1, Written DEF IInv, TypeOK, SaveToInternal
  <1>3. QED
    BY <1>2, EndStep

LEMMA SendUnlockStep ==
    ASSUME IInv, NEW p \in Proc, SendUnlock(p)
    PROVE  IInv'
  <1> USE DEF SendUnlock, files
  <1>1. daemon' = daemon \/ (vault # None /\ daemon' = Opened(vault))
    OBVIOUS
  <1>2. vault # None => Opened(vault) \in VaultFile /\ Consistent(Opened(vault))
    BY OpenedVault DEF IInv, TypeOK, VaultConsistent
  <1>3. FileTypes' /\ Copies'
    BY <1>1, <1>2 DEF IInv, TypeOK, FileTypes, Copies, VaultConsistent
  <1>4. QED
    BY <1>3, EndStep

(* The commands are as they were. *)
LEMMA ProcsStay ==
    ASSUME IInv, UNCHANGED procs, FileTypes', Copies'
    PROVE  IInv'
  BY DEF IInv, TypeOK, FileTypes, Copies, procs, HoldsOperands

LEMMA DaemonStep ==
    ASSUME IInv, NEW edit \in Requests,
           DaemonEdit(edit) \/ DaemonSaveFails(edit)
    PROVE  IInv'
  <1>1. /\ daemon # None /\ daemon' = Edited(daemon, edit)
        /\ vault' \in {vault, daemon'}
        /\ UNCHANGED <<devkey, creds, procs, veks, keys, lastPwd, fresh, events>>
        /\ faults' \in Nat
    BY DEF history, DaemonEdit, DaemonSaveFails, SaveToInternal, files, Fault, IInv, TypeOK
  <1>2. edit \in Edits /\ daemon \in VaultFile /\ Consistent(daemon)
    BY <1>1, StoreAssumption DEF IInv, TypeOK
  <1>3. daemon' \in VaultFile /\ Consistent(daemon)'
    <2>1. Edited(daemon, edit) \in VaultFile /\ Consistent(Edited(daemon, edit))
      BY <1>2, EditedVault
    <2>2. QED
      BY <1>1, <2>1 DEF Consistent
  <1>a. stale' \in BOOLEAN
    <2>1. stale' = stale \/ stale' = (stale \/ ~fresh)
      BY Zenon DEF DaemonEdit, DaemonSaveFails, history
    <2>2. QED
      BY <2>1, Zenon DEF IInv, TypeOK
  <1>4. FileTypes'
    BY <1>1, <1>3, <1>a DEF IInv, TypeOK, FileTypes
  <1>5. Copies'
    BY <1>1, <1>3 DEF IInv, Copies, VaultConsistent, Consistent
  <1>6. QED
    BY <1>1, <1>4, <1>5, ProcsStay

LEMMA DaemonLocksStep ==
    ASSUME IInv, DaemonLocks
    PROVE  IInv'
  <1>1. FileTypes' /\ Copies'
    BY DEF DaemonLocks, IInv, TypeOK, FileTypes, Copies, VaultConsistent,
           files, history
  <1>2. QED
    BY <1>1, ProcsStay DEF DaemonLocks

LEMMA PullVaultStep ==
    ASSUME IInv, PullVault
    PROVE  IInv'
  <1>1. PICK pwd \in Password, version \in {VERSION, VERSION + 1} :
            /\ vault' = [InitWithRecovery(pwd, Foreign, Foreign)
                            EXCEPT !.version = version]
            /\ lastPwd' = pwd
    BY DEF PullVault
  <1> DEFINE new == InitWithRecovery(pwd, Foreign, Foreign)
  <1>2. new \in VaultFile /\ Consistent(new)
    BY InitVault DEF Foreign
  <1>3. version \in Nat
    BY DEF VERSION
  <1>4. vault' \in VaultFile /\ Consistent(vault)'
    <2> HIDE DEF new
    <2>1. [new EXCEPT !.version = version] \in VaultFile
      BY <1>2, <1>3 DEF VaultFile
    <2>2. Consistent([new EXCEPT !.version = version])
      BY <1>2, <1>3 DEF VaultFile, Consistent
    <2>3. QED
      BY <1>1, <2>1, <2>2 DEF Consistent, new
  <1> HIDE DEF new
  <1>5. fresh' \in BOOLEAN /\ stale' \in BOOLEAN
    BY Zenon DEF PullVault
  <1>6. events' \in Nat /\ UNCHANGED <<devkey, creds, procs, daemon, veks, keys, faults>>
    BY DEF PullVault, IInv, TypeOK
  <1>7. FileTypes'
    BY <1>1, <1>4, <1>5, <1>6 DEF IInv, TypeOK, FileTypes
  <1>8. Copies'
    BY <1>4, <1>6 DEF IInv, Copies, VaultConsistent, Consistent
  <1>9. QED
    BY <1>6, <1>7, <1>8, ProcsStay

LEMMA NewerSavesStep ==
    ASSUME IInv, NewerSaves
    PROVE  IInv'
  <1>1. /\ vault # None /\ vault' = [vault EXCEPT !.version = VERSION + 1]
        /\ UNCHANGED <<devkey, creds, procs, daemon, veks, keys, lastPwd, faults>>
        /\ events' \in Nat
    BY DEF NewerSaves, IInv, TypeOK
  <1>2. vault \in VaultFile /\ Consistent(vault)
    BY <1>1 DEF IInv, TypeOK, VaultConsistent
  <1>3. vault' \in VaultFile /\ Consistent(vault)'
    BY <1>1, <1>2 DEF VaultFile, Consistent, VERSION
  <1>4. fresh' \in BOOLEAN /\ stale' \in BOOLEAN
    BY Zenon DEF NewerSaves, IInv, TypeOK
  <1>5. FileTypes'
    BY <1>1, <1>3, <1>4 DEF IInv, TypeOK, FileTypes
  <1>6. Copies'
    BY <1>1, <1>3 DEF IInv, Copies, VaultConsistent, Consistent
  <1>7. QED
    BY <1>1, <1>5, <1>6, ProcsStay

LEMMA DeleteDirectoryStep ==
    ASSUME IInv, DeleteDirectory
    PROVE  IInv'
  <1>1. fresh' \in BOOLEAN /\ stale' \in BOOLEAN
    BY Zenon DEF DeleteDirectory
  <1>2. /\ vault' = None /\ devkey' = None /\ creds' = None /\ lastPwd' = None
        /\ daemon' \in {daemon, None}
        /\ events' \in Nat /\ UNCHANGED <<procs, veks, keys, faults>>
    BY DEF DeleteDirectory, IInv, TypeOK
  <1>3. FileTypes'
    BY <1>1, <1>2 DEF IInv, TypeOK, FileTypes
  <1>4. Copies'
    BY <1>2 DEF IInv, Copies, VaultConsistent, Consistent
  <1>5. QED
    BY <1>2, <1>3, <1>4, ProcsStay

LEMMA ProcessFailsStep ==
    ASSUME IInv, NEW p \in Proc, ProcessFails(p)
    PROVE  IInv'
  <1>1. CASE SaveFails(p) \/ Crash(p)
    <2>1. FileTypes' /\ Copies' /\ End(p)
      BY <1>1, Still DEF SaveFails, Crash, Fault, files, history, IInv, TypeOK
    <2>2. QED
      BY <2>1, EndStep
  <1>2. CASE SyncDirFails(p)
    <2>1. mem[p] # None
      BY <1>2 DEF SyncDirFails, IInv, HoldsOperands
    <2>2. lastPwd' \in {lastPwd, mem[p].wrapped.pwd}
      BY <1>2 DEF SyncDirFails
    <2>3. fresh' \in BOOLEAN /\ stale' \in BOOLEAN
      <3>1. stale' = stale \/ stale' = FALSE
        BY <1>2, Zenon DEF SyncDirFails
      <3>2. QED
        BY <1>2, <3>1, Zenon DEF SyncDirFails, IInv, TypeOK
    <2>4. /\ vault' = SaveToInternal(mem[p]) /\ faults' \in Nat /\ End(p)
          /\ UNCHANGED <<devkey, creds, daemon, veks, keys, events>>
      BY <1>2 DEF SyncDirFails, Fault, IInv, TypeOK
    <2>5. FileTypes' /\ Copies'
      BY <2>1, <2>2, <2>3, <2>4, Written DEF IInv, TypeOK
    <2>6. QED
      BY <2>4, <2>5, EndStep
  <1>3. QED
    BY <1>1, <1>2 DEF ProcessFails

LEMMA PowerLossStep ==
    ASSUME IInv, PowerLoss
    PROVE  IInv'
  <1>1. FileTypes' /\ Copies'
    BY DEF PowerLoss, Fault, history, IInv, TypeOK, FileTypes, Copies,
           VaultConsistent
  <1>2. ProcTypes' /\ \A p \in Proc : HoldsOperands(p)'
    BY DEF PowerLoss, ProcTypes, HoldsOperands, PCs
  <1>3. QED
    BY <1>1, <1>2 DEF IInv, TypeOK, FileTypes, Copies, ProcTypes

-----------------------------------------------------------------------------
LEMMA InitInv == Init => IInv
  <1> SUFFICES ASSUME Init
               PROVE  IInv
    OBVIOUS
  <1>1. fresh \in BOOLEAN /\ stale \in BOOLEAN
    BY Zenon DEF Init
  <1>2. TypeOK
    BY <1>1 DEF Init, TypeOK, PCs
  <1>3. QED
    BY <1>2 DEF Init, IInv, VaultConsistent, HoldsOperands

LEMMA NextInv == IInv /\ [Next]_vars => IInv'
  <1> SUFFICES ASSUME IInv, [Next]_vars
               PROVE  IInv'
    OBVIOUS
  <1>1. ASSUME NEW p \in Proc, Start(p) \/ Proceed(p) \/ ProcessFails(p)
        PROVE  IInv'
    BY <1>1, StartStep, LoadKeyStep, CreateKeyStep, WriteKeyStep,
       CheckVaultStep, OpenVaultStep, CreateVaultStep, SaveNewVaultStep,
       SaveVaultStep, BeginExportStep, FinishExportStep, ReadToRecoverStep,
       RewriteVaultStep, SendUnlockStep, ProcessFailsStep DEF Proceed
  <1>2. ASSUME NEW edit \in Requests, DaemonEdit(edit) \/ DaemonSaveFails(edit)
        PROVE  IInv'
    BY <1>2, DaemonStep
  <1>3. CASE DaemonLocks \/ PullVault \/ NewerSaves \/ DeleteDirectory \/ PowerLoss
    BY <1>3, DaemonLocksStep, PullVaultStep, NewerSavesStep, DeleteDirectoryStep,
       PowerLossStep
  <1>4. CASE UNCHANGED vars
    <2>1. /\ FileTypes' /\ Copies' /\ UNCHANGED procs
      BY <1>4 DEF vars, files, history, IInv, TypeOK, FileTypes, Copies,
                  VaultConsistent
    <2>2. QED
      BY <2>1, ProcsStay
  <1>5. QED
    BY <1>1, <1>2, <1>3, <1>4 DEF Next

(* Every reachable state of ~/.lockit satisfies the inductive invariant    *)
(* (all of crates/core/src/vault.rs under crates/cli/src/main.rs).         *)
THEOREM AlwaysInv == Spec => []IInv
  BY InitInv, NextInv, PTL DEF Spec

(* The files, the commands and the daemon hold what their types say; in    *)
(* particular no command ever works with a device key that is not whole    *)
(* (load_or_create_device_key).                                            *)
THEOREM TypeCorrect == Spec => []TypeOK
  <1>1. IInv => TypeOK
    BY DEF IInv
  <1>2. QED
    BY <1>1, AlwaysInv, PTL

(* For any number of commands, names, values and passwords, the password   *)
(* and the recovery phrase of the vault file lead to the key of its        *)
(* entries (save_to_internal, recover_with_mnemonic).                      *)
THEOREM VaultsAreConsistent == Spec => []VaultConsistent
  <1>1. IInv => VaultConsistent
    BY DEF IInv
  <1>2. QED
    BY <1>1, AlwaysInv, PTL

-----------------------------------------------------------------------------
(* A user who waits for each command (SerialSpec).  At most one command    *)
(* runs, and nobody else changes the files while it does; so what it read  *)
(* is still true when it writes.  SerialInv says what each command has     *)
(* read, step by step, and what the daemon holds as long as only it wrote. *)
OneCommand ==
    \A p, q \in Proc : pc[p] # "idle" /\ pc[q] # "idle" => p = q

KeyOpens ==
    faults = 0 /\ ~stale /\ vault # None => vault.wrapped.dk \in {devkey, Foreign}

(* fresh: since the daemon's unlock, nobody but the daemon has written.    *)
DaemonCurrent ==
    /\ daemon # None => daemon.version <= VERSION
    /\ fresh => vault # None /\ vault.version <= VERSION /\ devkey # None
    /\ fresh /\ daemon # None => daemon.wrapped = vault.wrapped
    /\ fresh /\ daemon # None /\ faults = 0 =>
        daemon.entries.map = vault.entries.map

FindsNoVault(p) ==
    /\ pc[p] \in {"key", "keyCreate", "keyWrite"} /\ Op(p) = "init" => vault = None
    /\ pc[p] \in {"create", "saveNew"} => vault = None

HasTheKey(p) ==
    /\ pc[p] = "keyCreate" => devkey = None
    /\ pc[p] = "keyWrite" => devkey = Torn
    /\ pc[p] \notin {"idle", "key", "keyCreate", "keyWrite"} => dk[p] = devkey
    /\ pc[p] \in {"saveNew", "rewrite"} => mem[p].wrapped.dk = devkey

HoldsTheVault(p) ==
    /\ pc[p] = "saveNew" => mem[p].version = VERSION
    /\ pc[p] = "save" =>
        /\ vault # None /\ vault.version <= VERSION
        /\ mem[p].wrapped = vault.wrapped
        /\ mem[p].entries.map = AppliedToDisk(cmd[p].edit)
    /\ pc[p] \in {"export", "exporting"} => mem[p] = vault
    /\ pc[p] = "exporting" => creds = {}
    /\ pc[p] = "rewrite" => vault # None /\ mem[p].entries = vault.entries

HoldsCurrent(p) == FindsNoVault(p) /\ HasTheKey(p) /\ HoldsTheVault(p)

FilesGood == PasswordIsTheLastSet /\ KeyOpens /\ DaemonCurrent

CommandsGood == OneCommand /\ \A p \in Proc : HoldsCurrent(p)

SerialInv == IInv /\ FilesGood /\ CommandsGood

(* A user who waits is one of the users of Spec. *)
LEMMA SerialIsNext == [SerialNext]_vars => [Next]_vars
  BY DEF SerialNext, Next

(* A command that is idle holds nothing. *)
LEMMA IdleHoldsNothing ==
    ASSUME NEW q \in Proc, (pc[q] = "idle")'
    PROVE  HoldsCurrent(q)'
  BY DEF HoldsCurrent, FindsNoVault, HasTheKey, HoldsTheVault

(* While a command runs, the others are idle and stay so. *)
LEMMA RunsOn ==
    ASSUME CommandsGood, NEW p \in Proc, pc[p] # "idle",
           \A q \in Proc \ {p} : Untouched(q), HoldsCurrent(p)'
    PROVE  CommandsGood'
  <1>1. \A q \in Proc \ {p} : pc'[q] = "idle"
    BY DEF CommandsGood, OneCommand, Untouched
  <1>2. OneCommand'
    BY <1>1 DEF OneCommand
  <1>3. \A q \in Proc : HoldsCurrent(q)'
    BY <1>1, IdleHoldsNothing
  <1>4. QED
    BY <1>2, <1>3 DEF CommandsGood

(* A command ends. *)
LEMMA Ends ==
    ASSUME IInv, CommandsGood, NEW p \in Proc, pc[p] # "idle", End(p)
    PROVE  CommandsGood' /\ pc'[p] = "idle"
  <1>1. pc'[p] = "idle" /\ \A q \in Proc \ {p} : Untouched(q)
    BY EndFrame, Parts DEF End, ProcTypes
  <1>2. QED
    BY <1>1, IdleHoldsNothing, RunsOn

(* Something happens while no command runs. *)
LEMMA StaysQuiet ==
    ASSUME Quiet, UNCHANGED procs
    PROVE  CommandsGood'
  <1>1. \A q \in Proc : pc'[q] = "idle"
    BY DEF Quiet, procs
  <1>2. QED
    BY <1>1, IdleHoldsNothing DEF CommandsGood, OneCommand

(* The files the vault's key is told by have not changed. *)
LEMMA FilesKept ==
    ASSUME FilesGood, UNCHANGED <<vault, devkey, daemon, lastPwd, fresh, stale>>,
           faults' = 0 => faults = 0
    PROVE  FilesGood'
  BY DEF FilesGood, PasswordIsTheLastSet, KeyOpens, DaemonCurrent

(* A step that moves a command forward and changes nothing it holds.       *)
LEMMA MovesOn ==
    ASSUME IInv, NEW p \in Proc, NEW label \in PCs, Goto(p, label),
           UNCHANGED <<cmd, dk, mem>>
    PROVE  /\ pc'[p] = label /\ cmd'[p] = cmd[p] /\ dk'[p] = dk[p] /\ mem'[p] = mem[p]
           /\ \A q \in Proc \ {p} : Untouched(q)
  BY GotoFrame, Parts DEF Untouched

-----------------------------------------------------------------------------
(* One lemma per action. *)

LEMMA SerialStart ==
    ASSUME SerialInv, NEW p \in Proc, Quiet, Start(p)
    PROVE  FilesGood' /\ CommandsGood'
  <1>1. FilesGood'
    BY FilesKept DEF SerialInv, Start, files, history
  <1>2. PICK c \in Commands : Starts(c) /\ cmd' = [cmd EXCEPT ![p] = c]
    BY DEF Start
  <1>3. pc'[p] = "key" /\ cmd'[p] = c /\ vault' = vault
    BY <1>2, GotoFrame, Parts DEF Start, files, SerialInv, ProcTypes, PCs
  <1>4. \A q \in Proc \ {p} : pc'[q] = "idle"
    BY GotoFrame, Parts DEF Start, Quiet, SerialInv, PCs
  <1>5. HoldsCurrent(p)'
    BY <1>2, <1>3 DEF HoldsCurrent, FindsNoVault, HasTheKey, HoldsTheVault, Op, Starts
  <1>6. CommandsGood'
    BY <1>4, <1>5, IdleHoldsNothing DEF CommandsGood, OneCommand
  <1>7. QED
    BY <1>1, <1>6

(* What follows the device key finds what it expects. *)
LEMMA KeyLoaded ==
    ASSUME SerialInv, NEW p \in Proc, pc[p] \in {"key", "keyWrite"},
           Goto(p, AfterKey(p)), UNCHANGED <<vault, cmd, mem>>,
           dk' = [dk EXCEPT ![p] = devkey'], devkey' \in Nat
    PROVE  CommandsGood'
  <1>1. AfterKey(p) \in {"create", "check", "recover", "open"}
    BY DEF AfterKey
  <1>2. AfterKey(p) \in PCs
    BY <1>1 DEF PCs
  <1>3. /\ pc'[p] = AfterKey(p) /\ dk'[p] = devkey'
        /\ \A q \in Proc \ {p} : Untouched(q)
    BY <1>2, GotoFrame, Parts DEF SerialInv, ProcTypes, Untouched
  <1>4. pc'[p] = "create" => vault' = None
    BY <1>3 DEF AfterKey, SerialInv, CommandsGood, HoldsCurrent, FindsNoVault
  <1>5. HoldsCurrent(p)'
    BY <1>1, <1>3, <1>4 DEF HoldsCurrent, FindsNoVault, HasTheKey, HoldsTheVault
  <1>6. QED
    BY <1>3, <1>5, RunsOn DEF SerialInv

LEMMA SerialLoadKey ==
    ASSUME SerialInv, NEW p \in Proc, LoadKey(p)
    PROVE  FilesGood' /\ CommandsGood'
  <1> USE DEF LoadKey
  <1>1. FilesGood'
    BY FilesKept DEF SerialInv, files, history
  <1>2. CASE End(p)
    BY <1>1, <1>2, Ends DEF SerialInv
  <1>3. CASE devkey = None /\ Goto(p, "keyCreate") /\ UNCHANGED <<cmd, dk, mem>>
    <2>1. /\ pc'[p] = "keyCreate" /\ cmd'[p] = cmd[p]
          /\ \A q \in Proc \ {p} : Untouched(q)
      BY <1>3, MovesOn DEF PCs, SerialInv
    <2>2. UNCHANGED <<vault, devkey>>
      BY DEF files
    <2>3. HoldsCurrent(p)'
      BY <1>3, <2>1, <2>2 DEF SerialInv, CommandsGood, HoldsCurrent, FindsNoVault,
                              HasTheKey, HoldsTheVault, Op
    <2>4. QED
      BY <1>1, <2>1, <2>3, RunsOn DEF SerialInv
  <1>4. CASE /\ devkey \notin {None, Torn}
             /\ dk' = [dk EXCEPT ![p] = devkey]
             /\ Goto(p, AfterKey(p)) /\ UNCHANGED <<cmd, mem>>
    <2>1. devkey' = devkey /\ devkey' \in Nat /\ vault' = vault
      BY <1>4 DEF files, SerialInv, IInv, TypeOK
    <2>2. QED
      BY <1>1, <1>4, <2>1, KeyLoaded
  <1>5. QED
    BY <1>2, <1>3, <1>4

LEMMA SerialCreateKey ==
    ASSUME SerialInv, NEW p \in Proc, CreateKey(p)
    PROVE  FilesGood' /\ CommandsGood'
  <1>1. /\ devkey' = Torn /\ devkey = None /\ pc[p] = "keyCreate"
        /\ UNCHANGED <<vault, daemon, lastPwd, fresh, stale, faults, cmd, dk, mem>>
    BY DEF CreateKey, history, SerialInv, CommandsGood, HoldsCurrent, HasTheKey
  <1>2. faults = 0 /\ ~stale /\ vault # None => vault.wrapped.dk = Foreign
    BY <1>1, StoreAssumption DEF SerialInv, FilesGood, KeyOpens, IInv, TypeOK, VaultFile
  <1>3. FilesGood'
    BY <1>1, <1>2, StoreAssumption
       DEF SerialInv, FilesGood, PasswordIsTheLastSet, KeyOpens, DaemonCurrent
  <1>4. /\ pc'[p] = "keyWrite" /\ cmd'[p] = cmd[p]
        /\ \A q \in Proc \ {p} : Untouched(q)
    BY <1>1, MovesOn DEF CreateKey, PCs, SerialInv
  <1>5. HoldsCurrent(p)'
    BY <1>1, <1>4 DEF SerialInv, CommandsGood, HoldsCurrent, FindsNoVault,
                      HasTheKey, HoldsTheVault, Op
  <1>6. QED
    BY <1>1, <1>3, <1>4, <1>5, RunsOn DEF SerialInv

LEMMA SerialWriteKey ==
    ASSUME SerialInv, NEW p \in Proc, WriteKey(p)
    PROVE  FilesGood' /\ CommandsGood'
  <1>1. /\ devkey = Torn /\ pc[p] = "keyWrite" /\ devkey' = keys + 1
        /\ dk' = [dk EXCEPT ![p] = devkey'] /\ Goto(p, AfterKey(p))
        /\ UNCHANGED <<vault, daemon, lastPwd, fresh, stale, faults, cmd, mem>>
    BY DEF WriteKey, history, SerialInv, CommandsGood, HoldsCurrent, HasTheKey
  <1>2. devkey' \in Nat
    BY <1>1 DEF SerialInv, IInv, TypeOK
  <1>3. faults = 0 /\ ~stale /\ vault # None => vault.wrapped.dk = Foreign
    BY <1>1, StoreAssumption DEF SerialInv, FilesGood, KeyOpens, IInv, TypeOK, VaultFile
  <1>4. FilesGood'
    BY <1>1, <1>2, <1>3, StoreAssumption
       DEF SerialInv, FilesGood, PasswordIsTheLastSet, KeyOpens, DaemonCurrent
  <1>5. QED
    BY <1>1, <1>2, <1>4, KeyLoaded

LEMMA SerialCheckVault ==
    ASSUME SerialInv, NEW p \in Proc, CheckVault(p)
    PROVE  FilesGood' /\ CommandsGood'
  <1> USE DEF CheckVault
  <1>1. FilesGood'
    BY FilesKept DEF SerialInv, files, history
  <1>2. CASE End(p)
    BY <1>1, <1>2, Ends DEF SerialInv
  <1>3. ASSUME NEW label \in {"open", "create"}, Goto(p, label),
               UNCHANGED <<cmd, dk, mem>>, label = "create" => vault = None
        PROVE  CommandsGood'
    <2>1. /\ pc'[p] = label /\ dk'[p] = dk[p]
          /\ \A q \in Proc \ {p} : Untouched(q)
      BY <1>3, MovesOn DEF PCs, SerialInv
    <2>2. UNCHANGED <<vault, devkey>> /\ pc[p] = "check"
      BY DEF files
    <2>3. HoldsCurrent(p)'
      BY <1>3, <2>1, <2>2 DEF SerialInv, CommandsGood, HoldsCurrent, FindsNoVault,
                              HasTheKey, HoldsTheVault
    <2>4. QED
      BY <2>1, <2>2, <2>3, RunsOn DEF SerialInv
  <1>4. QED
    BY <1>1, <1>2, <1>3

(* What Edit makes of a vault: the command holds it, edited, about to save *)
(* it, or holds it as it is, about to send it.                             *)
LEMMA EditMade ==
    ASSUME IInv, NEW p \in Proc, cmd[p] # None,
           NEW v \in VaultFile, Edit(p, v)
    PROVE  /\ UNCHANGED <<cmd, dk>> /\ \A q \in Proc \ {p} : Untouched(q)
           /\ \/ pc'[p] = "send" /\ mem'[p] = v
              \/ pc'[p] = "save" /\ mem'[p] = Edited(v, cmd[p].edit)
  <1>1. ASSUME NEW held, NEW label \in {"save", "send"}, Hold(p, held, label)
        PROVE  /\ UNCHANGED <<cmd, dk>> /\ \A q \in Proc \ {p} : Untouched(q)
               /\ pc'[p] = label /\ mem'[p] = held
    BY <1>1, GotoFrame, Parts DEF Hold, Untouched, ProcTypes, PCs
  <1>2. Hold(p, Edited(v, cmd[p].edit), "save") \/ Hold(p, v, "send")
    BY DEF Edit, AddEntries, DeleteEntries, VerifyPassword
  <1> DEFINE edited == Edited(v, cmd[p].edit)
  <1> HIDE DEF edited
  <1>3. Hold(p, edited, "save") \/ Hold(p, v, "send")
    BY <1>2 DEF edited
  <1>4. /\ UNCHANGED <<cmd, dk>> /\ \A q \in Proc \ {p} : Untouched(q)
        /\ \/ pc'[p] = "send" /\ mem'[p] = v
           \/ pc'[p] = "save" /\ mem'[p] = edited
    BY <1>1, <1>3
  <1>5. QED
    BY <1>4 DEF edited

(* An edit touches nothing but the credentials it names. *)
LEMMA EditTouches ==
    ASSUME NEW v \in VaultFile, NEW edit
    PROVE  /\ Edited(v, edit).version = v.version
           /\ Edited(v, edit).wrapped = v.wrapped
           /\ Edited(v, edit).recovery = v.recovery
           /\ Edited(v, edit).entries.vek = v.entries.vek
           /\ Edited(v, edit).entries.map =
                 [n \in Name |-> IF n \in DOMAIN edit THEN edit[n]
                                 ELSE v.entries.map[n]]
  <1> DEFINE map == [n \in Name |-> IF n \in DOMAIN edit THEN edit[n]
                                    ELSE v.entries.map[n]]
  <1>1. Edited(v, edit) = [v EXCEPT !.entries.map = map]
    BY DEF Edited
  <1> HIDE DEF map
  <1>2. /\ Edited(v, edit).version = v.version
        /\ Edited(v, edit).wrapped = v.wrapped
        /\ Edited(v, edit).recovery = v.recovery
        /\ Edited(v, edit).entries.vek = v.entries.vek
        /\ Edited(v, edit).entries.map = map
    BY <1>1 DEF VaultFile
  <1>3. QED
    BY <1>2 DEF map

LEMMA OpenTouches ==
    ASSUME NEW f \in VaultFile
    PROVE  /\ Opened(f).version = VERSION
           /\ Opened(f).wrapped = f.wrapped
           /\ Opened(f).recovery = f.recovery
           /\ Opened(f).entries = f.entries
  BY DEF Opened, VaultFile

(* A command that has edited what the file holds. *)
LEMMA EditsTheDisk ==
    ASSUME IInv, NEW p \in Proc, cmd[p] # None, NEW v \in VaultFile, Edit(p, v),
           vault' # None, vault'.version <= VERSION, v.wrapped = vault'.wrapped,
           v.entries.map = vault'.entries.map, dk[p] = devkey'
    PROVE  HoldsCurrent(p)' /\ \A q \in Proc \ {p} : Untouched(q)
  <1> DEFINE edited == Edited(v, cmd[p].edit)
  <1>1. /\ edited.wrapped = v.wrapped
        /\ edited.entries.map = [n \in Name |->
              IF n \in DOMAIN cmd[p].edit THEN cmd[p].edit[n]
              ELSE v.entries.map[n]]
    BY EditTouches
  <1>2. Content(vault)' = v.entries.map
    BY DEF Content
  <1> HIDE DEF edited
  <1>3. edited.entries.map = AppliedToDisk(cmd[p].edit)' \/ cmd' # cmd
    BY <1>1, <1>2 DEF AppliedToDisk
  <1>4. /\ UNCHANGED <<cmd, dk>> /\ \A q \in Proc \ {p} : Untouched(q)
        /\ \/ pc'[p] = "send"
           \/ pc'[p] = "save" /\ mem'[p] = edited
    BY EditMade DEF edited
  <1>5. CASE pc'[p] = "send"
    BY <1>4, <1>5 DEF HoldsCurrent, FindsNoVault, HasTheKey, HoldsTheVault
  <1>6. CASE pc'[p] = "save" /\ mem'[p] = edited
    <2>1. edited.entries.map = AppliedToDisk(cmd[p].edit)'
      BY <1>3, <1>4
    <2>2. HoldsTheVault(p)'
      BY <1>1, <1>6, <2>1 DEF HoldsTheVault
    <2>3. QED
      BY <1>4, <1>6, <2>2 DEF HoldsCurrent, FindsNoVault, HasTheKey
  <1>7. QED
    BY <1>4, <1>5, <1>6

LEMMA SerialOpenVault ==
    ASSUME SerialInv, NEW p \in Proc, OpenVault(p)
    PROVE  FilesGood' /\ CommandsGood'
  <1> USE DEF OpenVault
  <1>1. FilesGood'
    BY FilesKept DEF SerialInv, files, history
  <1>2. CASE End(p)
    BY <1>1, <1>2, Ends DEF SerialInv
  <1>3. CASE ~End(p)
    <2>1. PICK pwd \in Password : Opens(vault, pwd, dk[p])
      BY <1>3
    <2>2. /\ vault # None /\ Edit(p, Opened(vault)) /\ UNCHANGED <<vault, devkey>>
          /\ pc[p] = "open" /\ vault.version <= VERSION
      BY <1>3, <2>1 DEF files, Opens
    <2>3. vault \in VaultFile /\ Consistent(vault) /\ cmd[p] # None /\ dk[p] = devkey
      BY <2>2 DEF SerialInv, IInv, TypeOK, VaultConsistent, HoldsOperands,
                  CommandsGood, HoldsCurrent, HasTheKey
    <2> DEFINE v == Opened(vault)
    <2>4. v \in VaultFile /\ v.wrapped = vault.wrapped /\ v.entries = vault.entries
      BY <2>3, OpenedVault, OpenTouches
    <2>5. Edit(p, v)
      BY <2>2
    <2> HIDE DEF v
    <2>6. HoldsCurrent(p)' /\ \A q \in Proc \ {p} : Untouched(q)
      BY <2>2, <2>3, <2>4, <2>5, EditsTheDisk DEF SerialInv
    <2>7. QED
      BY <1>1, <2>2, <2>6, RunsOn DEF SerialInv
  <1>4. QED
    BY <1>2, <1>3

LEMMA SerialCreateVault ==
    ASSUME SerialInv, NEW p \in Proc, CreateVault(p)
    PROVE  FilesGood' /\ CommandsGood'
  <1> USE DEF CreateVault
  <1>1. FilesGood'
    BY FilesKept DEF SerialInv, files, history
  <1>2. CASE End(p)
    BY <1>1, <1>2, Ends DEF SerialInv
  <1>3. CASE ~End(p)
    <2>1. PICK pwd \in Password :
              mem' = [mem EXCEPT ![p] = InitWithRecovery(pwd, dk[p], veks')]
      BY <1>3
    <2>2. /\ Goto(p, "saveNew") /\ UNCHANGED <<cmd, dk, vault, devkey>>
          /\ pc[p] = "create" /\ vault = None /\ dk[p] = devkey
      BY <1>3 DEF files, SerialInv, CommandsGood, HoldsCurrent, FindsNoVault, HasTheKey
    <2> DEFINE new == InitWithRecovery(pwd, dk[p], veks')
    <2>3. new.version = VERSION /\ new.wrapped.dk = dk[p]
      BY DEF InitWithRecovery
    <2> HIDE DEF new
    <2>4. /\ pc'[p] = "saveNew" /\ mem'[p] = new /\ dk'[p] = dk[p]
          /\ \A q \in Proc \ {p} : Untouched(q)
      BY <2>1, <2>2, GotoFrame, Parts
         DEF SerialInv, ProcTypes, PCs, Untouched, new
    <2>5. HoldsCurrent(p)'
      BY <2>2, <2>3, <2>4 DEF HoldsCurrent, FindsNoVault, HasTheKey, HoldsTheVault
    <2>6. QED
      BY <1>1, <2>2, <2>4, <2>5, RunsOn DEF SerialInv
  <1>4. QED
    BY <1>2, <1>3

(* A vault made or recovered here is wrapped under this machine's key.     *)
LEMMA WritesAnew ==
    ASSUME SerialInv, NEW p \in Proc, pc[p] \in {"saveNew", "rewrite"},
           vault' = mem[p], lastPwd' = mem[p].wrapped.pwd, fresh' = FALSE, stale' = FALSE,
           UNCHANGED <<devkey, daemon>>
    PROVE  FilesGood'
  BY DEF SerialInv, CommandsGood, HoldsCurrent, HasTheKey, FilesGood,
         PasswordIsTheLastSet, KeyOpens, DaemonCurrent

LEMMA SerialSaveNewVault ==
    ASSUME SerialInv, NEW p \in Proc, SaveNewVault(p)
    PROVE  FilesGood' /\ CommandsGood'
  <1>1. /\ pc[p] = "saveNew" /\ vault' = mem[p] /\ UNCHANGED <<devkey, daemon>>
        /\ lastPwd' = mem[p].wrapped.pwd /\ fresh' = FALSE /\ stale' = FALSE
    BY DEF SaveNewVault, SaveToInternal
  <1>2. FilesGood'
    BY <1>1, WritesAnew
  <1>3. CASE End(p)
    BY <1>1, <1>2, <1>3, Ends DEF SerialInv
  <1>4. CASE Edit(p, mem[p])
    <2>1. /\ mem[p] # None /\ mem[p] \in VaultFile /\ cmd[p] # None
          /\ dk[p] = devkey /\ mem[p].version = VERSION
      BY <1>1 DEF SerialInv, IInv, TypeOK, HoldsOperands, CommandsGood,
                  HoldsCurrent, HasTheKey, HoldsTheVault
    <2>2. mem[p].version <= VERSION
      BY <2>1 DEF VERSION
    <2> DEFINE v == mem[p]
    <2> HIDE DEF v
    <2>3. HoldsCurrent(p)' /\ \A q \in Proc \ {p} : Untouched(q)
      BY <1>1, <1>4, <2>1, <2>2, EditsTheDisk DEF SerialInv, v
    <2>4. QED
      BY <1>1, <1>2, <2>3, RunsOn DEF SerialInv
  <1>5. QED
    BY <1>3, <1>4 DEF SaveNewVault

(* A save of what was opened keeps the header that is on disk. *)
LEMMA WritesBack ==
    ASSUME SerialInv, NEW p \in Proc, pc[p] = "save",
           vault' = mem[p], fresh' = FALSE,
           UNCHANGED <<devkey, daemon, lastPwd, stale>>, faults' = 0 => faults = 0
    PROVE  FilesGood'
  BY DEF SerialInv, CommandsGood, HoldsCurrent, HoldsTheVault, FilesGood,
         PasswordIsTheLastSet, KeyOpens, DaemonCurrent

LEMMA SerialSaveVault ==
    ASSUME SerialInv, NEW p \in Proc, SaveVault(p)
    PROVE  FilesGood' /\ CommandsGood'
  <1>1. /\ pc[p] = "save" /\ vault' = mem[p] /\ fresh' = FALSE /\ Goto(p, "export")
        /\ UNCHANGED <<devkey, daemon, lastPwd, stale, faults, cmd, dk, mem>>
    BY DEF SaveVault, SaveToInternal
  <1>2. FilesGood'
    BY <1>1, WritesBack
  <1>3. /\ pc'[p] = "export" /\ mem'[p] = mem[p] /\ dk'[p] = dk[p]
        /\ \A q \in Proc \ {p} : Untouched(q)
    BY <1>1, MovesOn DEF PCs, SerialInv
  <1>4. HoldsCurrent(p)'
    BY <1>1, <1>3 DEF SerialInv, CommandsGood, HoldsCurrent, FindsNoVault,
                      HasTheKey, HoldsTheVault
  <1>5. QED
    BY <1>1, <1>2, <1>3, <1>4, RunsOn DEF SerialInv

LEMMA SerialBeginExport ==
    ASSUME SerialInv, NEW p \in Proc, BeginExport(p)
    PROVE  FilesGood' /\ CommandsGood'
  <1>1. /\ pc[p] = "export" /\ Goto(p, "exporting") /\ creds' = {}
        /\ UNCHANGED <<vault, devkey, daemon, lastPwd, fresh, stale, faults, cmd, dk, mem>>
    BY DEF BeginExport, history
  <1>2. FilesGood'
    BY <1>1, FilesKept DEF SerialInv
  <1>3. /\ pc'[p] = "exporting" /\ mem'[p] = mem[p] /\ dk'[p] = dk[p]
        /\ \A q \in Proc \ {p} : Untouched(q)
    BY <1>1, MovesOn DEF PCs, SerialInv
  <1>4. HoldsCurrent(p)'
    BY <1>1, <1>3 DEF SerialInv, CommandsGood, HoldsCurrent, FindsNoVault,
                      HasTheKey, HoldsTheVault
  <1>5. QED
    BY <1>1, <1>2, <1>3, <1>4, RunsOn DEF SerialInv

LEMMA SerialFinishExport ==
    ASSUME SerialInv, NEW p \in Proc, FinishExport(p)
    PROVE  FilesGood' /\ CommandsGood'
  <1>1. /\ pc[p] = "exporting" /\ End(p)
        /\ UNCHANGED <<vault, devkey, daemon, lastPwd, fresh, stale, faults>>
    BY DEF FinishExport, history
  <1>2. QED
    BY <1>1, FilesKept, Ends DEF SerialInv

LEMMA SerialReadToRecover ==
    ASSUME SerialInv, NEW p \in Proc, ReadToRecover(p)
    PROVE  FilesGood' /\ CommandsGood'
  <1> USE DEF ReadToRecover
  <1>1. FilesGood'
    BY FilesKept DEF SerialInv, files, history
  <1>2. CASE End(p)
    BY <1>1, <1>2, Ends DEF SerialInv
  <1>3. CASE ~End(p)
    <2>1. PICK pwd \in Password :
              mem' = [mem EXCEPT ![p] = Recovered(vault, pwd, dk[p])]
      BY <1>3
    <2>2. /\ Goto(p, "rewrite") /\ UNCHANGED <<cmd, dk, vault, devkey>>
          /\ pc[p] = "recover" /\ vault # None /\ dk[p] = devkey
          /\ vault \in VaultFile
      BY <1>3 DEF files, SerialInv, IInv, TypeOK, CommandsGood, HoldsCurrent, HasTheKey
    <2> DEFINE new == Recovered(vault, pwd, dk[p])
    <2>3. new.entries = vault.entries /\ new.wrapped.dk = dk[p]
      BY <2>2 DEF Recovered, VaultFile
    <2> HIDE DEF new
    <2>4. /\ pc'[p] = "rewrite" /\ mem'[p] = new /\ dk'[p] = dk[p]
          /\ \A q \in Proc \ {p} : Untouched(q)
      BY <2>1, <2>2, GotoFrame, Parts
         DEF SerialInv, ProcTypes, PCs, Untouched, new
    <2>5. HoldsCurrent(p)'
      BY <2>2, <2>3, <2>4 DEF HoldsCurrent, FindsNoVault, HasTheKey, HoldsTheVault
    <2>6. QED
      BY <1>1, <2>2, <2>4, <2>5, RunsOn DEF SerialInv
  <1>4. QED
    BY <1>2, <1>3

LEMMA SerialRewriteVault ==
    ASSUME SerialInv, NEW p \in Proc, RewriteVault(p)
    PROVE  FilesGood' /\ CommandsGood'
  <1>1. /\ pc[p] = "rewrite" /\ End(p) /\ vault' = mem[p] /\ fresh' = FALSE
        /\ lastPwd' = mem[p].wrapped.pwd /\ stale' = FALSE /\ UNCHANGED <<devkey, daemon>>
    BY DEF RewriteVault
  <1>2. QED
    BY <1>1, WritesAnew, Ends DEF SerialInv

LEMMA SerialSendUnlock ==
    ASSUME SerialInv, NEW p \in Proc, SendUnlock(p)
    PROVE  FilesGood' /\ CommandsGood'
  <1>1. /\ pc[p] = "send" /\ End(p) /\ UNCHANGED <<vault, devkey, lastPwd, stale, faults>>
    BY DEF SendUnlock, files
  <1>2. CASE UNCHANGED <<daemon, fresh>>
    BY <1>1, <1>2, FilesKept, Ends DEF SerialInv
  <1>3. CASE ~UNCHANGED <<daemon, fresh>>
    <2>1. /\ vault # None /\ Opens(vault, mem[p].wrapped.pwd, dk[p])
          /\ daemon' = Opened(vault)
      BY <1>3 DEF SendUnlock
    <2>2. vault \in VaultFile /\ dk[p] = devkey
      BY <1>1, <2>1 DEF SerialInv, IInv, TypeOK, CommandsGood, HoldsCurrent, HasTheKey
    <2>3. vault.version <= VERSION /\ devkey \in Nat
      BY <2>1, <2>2 DEF Opens, VaultFile
    <2>4. devkey # None
      BY <2>3, StoreAssumption
    <2>5. /\ daemon'.version <= VERSION /\ daemon'.wrapped = vault.wrapped
          /\ daemon'.entries = vault.entries
      BY <2>1, <2>2, OpenTouches DEF VERSION
    <2>6. FilesGood'
      BY <1>1, <2>1, <2>3, <2>4, <2>5
         DEF SerialInv, FilesGood, PasswordIsTheLastSet, KeyOpens, DaemonCurrent
    <2>7. QED
      BY <1>1, <2>6, Ends DEF SerialInv
  <1>4. QED
    BY <1>2, <1>3

(* A daemon that is not fresh may bring an old header, and is called stale.*)
LEMMA SerialDaemonEdit ==
    ASSUME SerialInv, NEW edit \in Requests, Quiet, DaemonEdit(edit)
    PROVE  FilesGood' /\ CommandsGood'
  <1>1. /\ daemon # None /\ daemon' = Edited(daemon, edit) /\ vault' = daemon'
        /\ UNCHANGED <<devkey, procs, lastPwd, fresh, faults>>
        /\ stale' = (stale \/ ~fresh)
    BY Zenon DEF DaemonEdit, SaveToInternal
  <1>2. daemon \in VaultFile
    BY <1>1 DEF SerialInv, IInv, TypeOK
  <1>3. Edited(daemon, edit) \in VaultFile
    BY <1>1, <1>2, EditedVault, StoreAssumption DEF SerialInv, IInv
  <1>4. vault' # None
    BY <1>1, <1>3, VaultAssumption
  <1>5. daemon'.version = daemon.version /\ daemon'.wrapped = daemon.wrapped
    BY <1>1, <1>2, EditTouches
  <1>6. FilesGood'
    BY <1>1, <1>4, <1>5
       DEF SerialInv, FilesGood, PasswordIsTheLastSet, KeyOpens, DaemonCurrent
  <1>7. QED
    BY <1>1, <1>6, StaysQuiet

(* A save that fails is a fault, or the directory is gone and the daemon   *)
(* is not fresh.                                                           *)
LEMMA SerialDaemonSaveFails ==
    ASSUME SerialInv, NEW edit \in Requests, DaemonSaveFails(edit)
    PROVE  FilesGood' /\ CommandsGood'
  <1>1. /\ daemon # None /\ daemon' = Edited(daemon, edit)
        /\ UNCHANGED <<vault, devkey, creds, procs, lastPwd, fresh, stale>>
        /\ faults' = faults + 1 \/ (devkey = None /\ faults' = faults)
        /\ faults \in Nat
    BY DEF DaemonSaveFails, Fault, files, history, SerialInv, IInv, TypeOK
  <1>2. daemon \in VaultFile
    BY <1>1 DEF SerialInv, IInv, TypeOK
  <1>3. daemon'.version = daemon.version /\ daemon'.wrapped = daemon.wrapped
    BY <1>1, <1>2, EditTouches
  <1>4. faults' = 0 => faults = 0 /\ devkey = None
    BY <1>1
  <1>5. FilesGood'
    BY <1>1, <1>3, <1>4
       DEF SerialInv, FilesGood, PasswordIsTheLastSet, KeyOpens, DaemonCurrent
  <1>6. CommandsGood'
    BY <1>1 DEF procs, SerialInv, CommandsGood, OneCommand, HoldsCurrent,
                FindsNoVault, HasTheKey, HoldsTheVault, Op, AppliedToDisk, Content
  <1>7. QED
    BY <1>5, <1>6

(* Nothing a command holds has changed. *)
LEMMA CommandsStay ==
    ASSUME CommandsGood, UNCHANGED <<files, procs>>
    PROVE  CommandsGood'
  BY DEF files, procs, CommandsGood, OneCommand, HoldsCurrent,
         FindsNoVault, HasTheKey, HoldsTheVault, Op, AppliedToDisk, Content

LEMMA SerialDaemonLocks ==
    ASSUME SerialInv, DaemonLocks
    PROVE  FilesGood' /\ CommandsGood'
  <1>1. daemon' = None /\ UNCHANGED <<files, procs, lastPwd, fresh, stale, faults>>
    BY DEF DaemonLocks, history
  <1>2. FilesGood'
    BY <1>1 DEF files, SerialInv, FilesGood, PasswordIsTheLastSet, KeyOpens,
                DaemonCurrent
  <1>3. QED
    BY <1>1, <1>2, CommandsStay DEF SerialInv

LEMMA SerialPullVault ==
    ASSUME SerialInv, Quiet, PullVault
    PROVE  FilesGood' /\ CommandsGood'
  <1>1. PICK pwd \in Password, version \in {VERSION, VERSION + 1} :
            /\ vault' = [InitWithRecovery(pwd, Foreign, Foreign)
                            EXCEPT !.version = version]
            /\ lastPwd' = pwd
    BY DEF PullVault
  <1>2. fresh' = FALSE /\ stale' = FALSE /\ UNCHANGED <<devkey, procs, daemon>>
    BY DEF PullVault
  <1>3. vault'.wrapped.pwd = pwd /\ vault'.wrapped.dk = Foreign
    BY <1>1 DEF InitWithRecovery
  <1>4. FilesGood'
    BY <1>1, <1>2, <1>3
       DEF SerialInv, FilesGood, PasswordIsTheLastSet, KeyOpens, DaemonCurrent
  <1>5. QED
    BY <1>2, <1>4, StaysQuiet

LEMMA SerialNewerSaves ==
    ASSUME SerialInv, Quiet, NewerSaves
    PROVE  FilesGood' /\ CommandsGood'
  <1>1. /\ vault # None /\ vault' = [vault EXCEPT !.version = VERSION + 1]
        /\ fresh' = FALSE /\ UNCHANGED <<devkey, procs, daemon, lastPwd, stale, faults>>
    BY DEF NewerSaves
  <1>2. vault'.wrapped = vault.wrapped
    BY <1>1 DEF SerialInv, IInv, TypeOK, VaultFile
  <1>3. FilesGood'
    BY <1>1, <1>2
       DEF SerialInv, FilesGood, PasswordIsTheLastSet, KeyOpens, DaemonCurrent
  <1>4. QED
    BY <1>1, <1>3, StaysQuiet

LEMMA SerialDeleteDirectory ==
    ASSUME SerialInv, DeleteDirectory
    PROVE  FilesGood' /\ CommandsGood'
  <1>1. /\ Quiet /\ vault' = None /\ fresh' = FALSE /\ daemon' \in {daemon, None}
        /\ UNCHANGED procs
    BY DEF DeleteDirectory
  <1>2. FilesGood'
    BY <1>1 DEF SerialInv, FilesGood, PasswordIsTheLastSet, KeyOpens, DaemonCurrent
  <1>3. QED
    BY <1>1, <1>2, StaysQuiet

LEMMA SerialProcessFails ==
    ASSUME SerialInv, NEW p \in Proc, ProcessFails(p)
    PROVE  FilesGood' /\ CommandsGood'
  <1>1. /\ pc[p] # "idle" /\ End(p) /\ faults' = faults + 1
        /\ UNCHANGED <<devkey, daemon>> /\ faults \in Nat
    BY DEF ProcessFails, SaveFails, SyncDirFails, Crash, Fault, files,
           SerialInv, IInv, TypeOK
  <1>2. CASE SaveFails(p) \/ Crash(p)
    <2>1. UNCHANGED <<vault, lastPwd, fresh, stale>>
      BY <1>2 DEF SaveFails, Crash, files, history
    <2>2. QED
      BY <1>1, <2>1, FilesKept, Ends DEF SerialInv
  <1>3. CASE SyncDirFails(p)
    <2>1. /\ pc[p] \in {"saveNew", "save", "rewrite"} /\ vault' = mem[p]
          /\ fresh' = FALSE
          /\ IF pc[p] = "save" THEN UNCHANGED <<lastPwd, stale>>
             ELSE lastPwd' = mem[p].wrapped.pwd /\ stale' = FALSE
      BY <1>3 DEF SyncDirFails, SaveToInternal
    <2>2. ~(faults' = 0)
      BY <1>1
    <2>3. ASSUME pc[p] = "save" PROVE FilesGood'
      <3>1. UNCHANGED <<devkey, daemon, lastPwd, stale>>
        BY <1>1, <2>1, <2>3
      <3>2. QED
        BY <2>1, <2>2, <2>3, <3>1, WritesBack
    <2>4. ASSUME pc[p] \in {"saveNew", "rewrite"} PROVE FilesGood'
      <3>1. /\ lastPwd' = mem[p].wrapped.pwd /\ stale' = FALSE
            /\ UNCHANGED <<devkey, daemon>>
        BY <1>1, <2>1, <2>4
      <3>2. QED
        BY <2>1, <2>4, <3>1, WritesAnew
    <2>5. FilesGood'
      BY <2>1, <2>3, <2>4
    <2>6. QED
      BY <1>1, <2>5, Ends DEF SerialInv
  <1>4. QED
    BY <1>2, <1>3 DEF ProcessFails

(* The device key may be torn by a power failure, the vault may not.       *)
LEMMA SerialPowerLoss ==
    ASSUME SerialInv, PowerLoss
    PROVE  FilesGood' /\ CommandsGood'
  <1>1. /\ faults' = faults + 1 /\ faults \in Nat /\ daemon' = None
        /\ devkey' \in {devkey, IF devkey = None THEN None ELSE Torn}
        /\ UNCHANGED <<vault, lastPwd, fresh, stale>>
        /\ \A p \in Proc : pc'[p] = "idle"
    BY DEF PowerLoss, Fault, history, SerialInv, IInv, TypeOK
  <1>2. FilesGood'
    BY <1>1, StoreAssumption
       DEF SerialInv, FilesGood, PasswordIsTheLastSet, KeyOpens, DaemonCurrent
  <1>3. CommandsGood'
    BY <1>1, IdleHoldsNothing DEF CommandsGood, OneCommand
  <1>4. QED
    BY <1>2, <1>3

-----------------------------------------------------------------------------
LEMMA SerialInit == Init => SerialInv
  <1> SUFFICES ASSUME Init
               PROVE  SerialInv
    OBVIOUS
  <1>1. IInv
    BY InitInv
  <1>2. vault = None /\ daemon = None /\ fresh = FALSE /\ \A p \in Proc : pc[p] = "idle"
    BY DEF Init
  <1>3. FilesGood
    BY <1>2 DEF FilesGood, PasswordIsTheLastSet, KeyOpens, DaemonCurrent
  <1>4. CommandsGood
    BY <1>2 DEF CommandsGood, OneCommand, HoldsCurrent, FindsNoVault, HasTheKey,
                HoldsTheVault
  <1>5. QED
    BY <1>1, <1>3, <1>4 DEF SerialInv

LEMMA SerialNextInv == SerialInv /\ [SerialNext]_vars => SerialInv'
  <1> SUFFICES ASSUME SerialInv, [SerialNext]_vars
               PROVE  FilesGood' /\ CommandsGood'
    BY NextInv, SerialIsNext DEF SerialInv
  <1>1. ASSUME NEW p \in Proc, (Quiet /\ Start(p)) \/ Proceed(p) \/ ProcessFails(p)
        PROVE  FilesGood' /\ CommandsGood'
    BY <1>1, SerialStart, SerialLoadKey, SerialCreateKey, SerialWriteKey,
       SerialCheckVault, SerialOpenVault, SerialCreateVault, SerialSaveNewVault,
       SerialSaveVault, SerialBeginExport, SerialFinishExport,
       SerialReadToRecover, SerialRewriteVault, SerialSendUnlock,
       SerialProcessFails DEF Proceed
  <1>2. ASSUME NEW edit \in Requests,
               (Quiet /\ DaemonEdit(edit)) \/ DaemonSaveFails(edit)
        PROVE  FilesGood' /\ CommandsGood'
    BY <1>2, SerialDaemonEdit, SerialDaemonSaveFails
  <1>3. CASE \/ DaemonLocks
             \/ Quiet /\ PullVault
             \/ Quiet /\ NewerSaves
             \/ DeleteDirectory
             \/ PowerLoss
    BY <1>3, SerialDaemonLocks, SerialPullVault, SerialNewerSaves,
       SerialDeleteDirectory, SerialPowerLoss
  <1>4. CASE UNCHANGED vars
    <2>1. UNCHANGED <<vault, devkey, daemon, lastPwd, fresh, stale, faults, files, procs>>
      BY <1>4 DEF vars, files, history
    <2>2. QED
      BY <2>1, FilesKept, CommandsStay DEF SerialInv
  <1>5. CASE SerialNext
    <2>1. \/ \E p \in Proc : (Quiet /\ Start(p)) \/ Proceed(p) \/ ProcessFails(p)
          \/ \E edit \in Requests :
                (Quiet /\ DaemonEdit(edit)) \/ DaemonSaveFails(edit)
          \/ \/ DaemonLocks
             \/ Quiet /\ PullVault
             \/ Quiet /\ NewerSaves
             \/ DeleteDirectory
             \/ PowerLoss
      BY <1>5, Zenon DEF SerialNext
    <2>2. QED
      BY <2>1, <1>1, <1>2, <1>3, Zenon
  <1>6. QED
    BY <1>4, <1>5

(* Every state a user who waits can reach satisfies the serial invariant.  *)
THEOREM AlwaysSerialInv == SerialSpec => []SerialInv
  BY SerialInit, SerialNextInv, PTL DEF SerialSpec

(* To a user who waits for each command the vault opens with the password  *)
(* last set for it, unless a daemon unlocked before the file last changed  *)
(* has saved since; no other save brings an older header back              *)
(* (save_to_internal, recover_with_mnemonic).                              *)
THEOREM OldPasswordsStayDead == SerialSpec => []PasswordIsTheLastSet
  <1>1. SerialInv => PasswordIsTheLastSet
    BY DEF SerialInv, FilesGood
  <1>2. QED
    BY <1>1, AlwaysSerialInv, PTL

(* To a user who waits, and while nothing fails, the device key on disk is *)
(* the one the vault is wrapped under, or the vault came by sync or from a *)
(* daemon that was not fresh (load_or_create_device_key before every init, *)
(* open and recover).                                                      *)
THEOREM TheDeviceKeyFits == SerialSpec => []VaultOpensHere
  <1>1. SerialInv => VaultOpensHere
    BY DEF SerialInv, FilesGood, KeyOpens, VaultOpensHere
  <1>2. QED
    BY <1>1, AlwaysSerialInv, PTL
-----------------------------------------------------------------------------
(* The only steps that change the vault file, but for the user's other     *)
(* events: a command that saves what it opened, made or recovered, and the *)
(* daemon, fresh or not.                                                   *)
Writers ==
    \/ vault' = vault
    \/ events' # events
    \/ \E p \in Proc : pc[p] = "saveNew"
    \/ \E p \in Proc : pc[p] = "save" /\ vault' = mem[p]
    \/ \E p \in Proc : pc[p] = "rewrite" /\ vault' = mem[p] /\ pc'[p] = "idle"
    \/ /\ fresh /\ daemon # None
       /\ \E edit \in Requests : vault' = Edited(daemon, edit)
    \/ StaleSave

LEMMA WhoWrites ==
    ASSUME SerialInv, [SerialNext]_vars
    PROVE  Writers
  <1>1. ASSUME NEW p \in Proc, Proceed(p)
        PROVE  Writers
    <2>1. CASE SaveNewVault(p)
      BY <2>1 DEF SaveNewVault, Writers
    <2>2. CASE SaveVault(p)
      BY <2>2 DEF SaveVault, SaveToInternal, Writers
    <2>3. CASE RewriteVault(p)
      <3>1. End(p) /\ pc[p] = "rewrite" /\ vault' = mem[p]
        BY <2>3 DEF RewriteVault
      <3>2. pc'[p] = "idle"
        BY <3>1 DEF End, SerialInv, IInv, TypeOK
      <3>3. QED
        BY <3>1, <3>2 DEF Writers
    <2>4. CASE \/ LoadKey(p) \/ CreateKey(p) \/ WriteKey(p)
               \/ CheckVault(p) \/ OpenVault(p) \/ CreateVault(p)
      BY <2>4 DEF LoadKey, CreateKey, WriteKey, CheckVault, OpenVault,
                  CreateVault, files, Writers
    <2>5. CASE \/ BeginExport(p) \/ FinishExport(p) \/ ReadToRecover(p)
               \/ SendUnlock(p)
      BY <2>5 DEF BeginExport, FinishExport, ReadToRecover, SendUnlock, files,
                  Writers
    <2>6. QED
      BY <1>1, <2>1, <2>2, <2>3, <2>4, <2>5 DEF Proceed
  <1>2. ASSUME NEW p \in Proc, ProcessFails(p)
        PROVE  Writers
    <2>1. CASE SaveFails(p) \/ Crash(p)
      BY <2>1 DEF SaveFails, Crash, files, Writers
    <2>2. CASE SyncDirFails(p)
      <3>1. /\ pc[p] \in {"saveNew", "save", "rewrite"} /\ End(p) /\ vault' = mem[p]
        BY <2>2 DEF SyncDirFails, SaveToInternal
      <3>2. pc'[p] = "idle"
        BY <3>1 DEF End, SerialInv, IInv, TypeOK
      <3>3. QED
        BY <3>1, <3>2 DEF Writers
    <2>3. QED
      BY <1>2, <2>1, <2>2 DEF ProcessFails
  <1>3. ASSUME NEW p \in Proc, Start(p)
        PROVE  Writers
    BY <1>3 DEF Start, files, Writers
  <1>4. ASSUME NEW edit \in Requests, DaemonEdit(edit)
        PROVE  Writers
    <2>1. /\ daemon # None /\ vault' = Edited(daemon, edit) /\ vault' = daemon'
          /\ UNCHANGED procs
      BY <1>4 DEF DaemonEdit, SaveToInternal
    <2>2. QED
      BY <1>4, <2>1 DEF Writers, StaleSave
  <1>5. ASSUME NEW edit \in Requests, DaemonSaveFails(edit)
        PROVE  Writers
    BY <1>5 DEF DaemonSaveFails, files, Writers
  <1>6. CASE DaemonLocks \/ PowerLoss \/ UNCHANGED vars
    BY <1>6 DEF DaemonLocks, PowerLoss, vars, files, Writers
  <1>7. CASE PullVault \/ NewerSaves \/ DeleteDirectory
    <2>1. events' = events + 1 /\ events \in Nat
      BY <1>7 DEF PullVault, NewerSaves, DeleteDirectory, SerialInv, IInv, TypeOK
    <2>2. QED
      BY <2>1 DEF Writers
  <1>8. CASE SerialNext
    <2>1. \/ \E p \in Proc : Start(p) \/ Proceed(p) \/ ProcessFails(p)
          \/ \E edit \in Requests : DaemonEdit(edit)
          \/ \E edit \in Requests : DaemonSaveFails(edit)
          \/ DaemonLocks \/ PullVault \/ NewerSaves \/ DeleteDirectory \/ PowerLoss
      BY <1>8, Zenon DEF SerialNext
    <2>2. QED
      BY <2>1, <1>1, <1>2, <1>3, <1>4, <1>5, <1>6, <1>7
  <1>9. QED
    BY <1>6, <1>8

(* What one step may do to the credentials of the file (NoLostUpdate).     *)
OneEdit ==
    vault # None /\ vault' # None /\ events' = events /\ faults = 0 =>
        \/ Content(vault') = Content(vault)
        \/ \E c \in {cmd[p] : p \in Proc} \ {None} :
              Content(vault') = AppliedToDisk(c.edit)
        \/ \E e \in Requests : Content(vault') = AppliedToDisk(e)
        \/ StaleSave

LEMMA EditsOnce ==
    ASSUME SerialInv, [SerialNext]_vars
    PROVE  OneEdit
  <1> SUFFICES ASSUME vault # None, vault' # None, events' = events, faults = 0
               PROVE  \/ Content(vault') = Content(vault)
                      \/ \E c \in {cmd[p] : p \in Proc} \ {None} :
                            Content(vault') = AppliedToDisk(c.edit)
                      \/ \E e \in Requests : Content(vault') = AppliedToDisk(e)
                      \/ StaleSave
    BY DEF OneEdit
  <1>1. Writers
    BY WhoWrites
  <1>2. CASE vault' = vault
    BY <1>2
  <1>3. CASE \E p \in Proc : pc[p] = "saveNew"
    BY <1>3 DEF SerialInv, CommandsGood, HoldsCurrent, FindsNoVault
  <1>4. ASSUME NEW p \in Proc, pc[p] = "save", vault' = mem[p]
        PROVE  \E c \in {cmd[q] : q \in Proc} \ {None} :
                    Content(vault') = AppliedToDisk(c.edit)
    <2>1. mem[p].entries.map = AppliedToDisk(cmd[p].edit) /\ cmd[p] # None
      BY <1>4 DEF SerialInv, CommandsGood, HoldsCurrent, HoldsTheVault,
                  IInv, HoldsOperands
    <2>2. Content(vault') = AppliedToDisk(cmd[p].edit)
      BY <1>4, <2>1 DEF Content
    <2>3. QED
      BY <2>1, <2>2
  <1>5. ASSUME NEW p \in Proc, pc[p] = "rewrite", vault' = mem[p]
        PROVE  Content(vault') = Content(vault)
    BY <1>5 DEF SerialInv, CommandsGood, HoldsCurrent, HoldsTheVault, Content
  <1>6. ASSUME fresh, daemon # None, NEW edit \in Requests,
               vault' = Edited(daemon, edit)
        PROVE  Content(vault') = AppliedToDisk(edit)
    <2>1. daemon \in VaultFile /\ daemon.entries.map = vault.entries.map
      BY <1>6 DEF SerialInv, IInv, TypeOK, FilesGood, DaemonCurrent
    <2>2. Edited(daemon, edit).entries.map =
             [n \in Name |-> IF n \in DOMAIN edit THEN edit[n]
                             ELSE daemon.entries.map[n]]
      BY <2>1, EditTouches
    <2>3. Content(vault') = Edited(daemon, edit).entries.map
      BY <1>6 DEF Content
    <2>4. Content(vault) = daemon.entries.map
      BY <2>1 DEF Content
    <2>5. QED
      BY <2>2, <2>3, <2>4 DEF AppliedToDisk
  <1>7. QED
    BY <1>1, <1>2, <1>3, <1>4, <1>5, <1>6 DEF Writers

(* For any number of commands one after the other, and a daemon: while no  *)
(* save fails, each change of the file's credentials is the edit of one    *)
(* command or request, made to what the file held before (open, set,       *)
(* delete, save_to_internal, SetCredential), or the save of a daemon       *)
(* unlocked before somebody else changed the file.                         *)
THEOREM NoEditIsLost == SerialSpec => NoLostUpdate
  <1>1. SerialInv /\ [SerialNext]_vars => [OneEdit]_vars
    BY EditsOnce
  <1>2. QED
    BY <1>1, AlwaysSerialInv, PTL DEF SerialSpec, NoLostUpdate, OneEdit

(* What one step may do to a vault of a newer format (NewerFormatKept).    *)
LeftAlone ==
    /\ vault # None /\ vault' # None /\ events' = events
    /\ ~Recovering /\ ~StaleSave
    => (vault.version > VERSION => vault' = vault)

LEMMA LeavesAlone ==
    ASSUME SerialInv, [SerialNext]_vars
    PROVE  LeftAlone
  <1> SUFFICES ASSUME vault # None, events' = events, ~Recovering, ~StaleSave,
                      vault.version > VERSION
               PROVE  vault' = vault
    BY DEF LeftAlone
  <1>1. Writers
    BY WhoWrites
  <1>2. vault.version \in Nat /\ ~(vault.version <= VERSION)
    BY DEF SerialInv, IInv, TypeOK, VaultFile, VERSION
  <1>3. ~ \E p \in Proc : pc[p] \in {"saveNew", "save"}
    BY <1>2 DEF SerialInv, CommandsGood, HoldsCurrent, FindsNoVault, HoldsTheVault
  <1>4. ~ \E p \in Proc : pc[p] = "rewrite" /\ pc'[p] = "idle"
    BY DEF Recovering
  <1>5. ~fresh
    BY <1>2 DEF SerialInv, FilesGood, DaemonCurrent
  <1>6. QED
    BY <1>1, <1>3, <1>4, <1>5 DEF Writers

(* To a user who waits nothing but `lk recover`, a daemon unlocked before  *)
(* it came and another program ever writes over a vault in the format of a *)
(* newer lockit (open: "Please upgrade lockit").                           *)
THEOREM NewerVaultsAreLeftAlone == SerialSpec => NewerFormatKept
  <1>1. SerialInv /\ [SerialNext]_vars => [LeftAlone]_vars
    BY LeavesAlone
  <1>2. QED
    BY <1>1, AlwaysSerialInv, PTL DEF SerialSpec, NewerFormatKept, LeftAlone

(* How a command that saves may end (NoStalePlaintext).                    *)
NothingStale ==
    \A p \in Proc :
        /\ pc[p] \in {"save", "exporting"} /\ pc'[p] = "idle"
        /\ faults' = faults
        => creds' = None \/ creds' \subseteq Texts(Content(vault'))

LEMMA CleanAtTheEnd ==
    ASSUME SerialInv, [SerialNext]_vars
    PROVE  NothingStale
  <1> SUFFICES ASSUME NEW p \in Proc, pc[p] \in {"save", "exporting"},
                      pc'[p] = "idle", faults' = faults
               PROVE  creds' \subseteq Texts(Content(vault'))
    BY DEF NothingStale
  <1>1. ~Quiet /\ ~UNCHANGED procs
    BY DEF Quiet, procs
  <1>2. faults \in Nat /\ faults' # faults + 1
    BY DEF SerialInv, IInv, TypeOK
  <1>3. ~PowerLoss /\ ~ \E q \in Proc : ProcessFails(q)
    BY <1>2 DEF PowerLoss, ProcessFails, SaveFails, SyncDirFails, Crash, Fault
  <1>4. ~DaemonLocks /\ ~ \E edit \in Requests : DaemonSaveFails(edit)
    BY <1>1 DEF DaemonLocks, DaemonSaveFails
  <1>5. ~UNCHANGED vars /\ ~DeleteDirectory
    BY <1>1 DEF vars, procs, DeleteDirectory
  <1>6. PICK q \in Proc : Proceed(q)
    BY <1>1, <1>3, <1>4, <1>5, Zenon DEF SerialNext
  <1>7. pc[q] # "idle"
    BY <1>6 DEF Proceed, LoadKey, CreateKey, WriteKey, CheckVault, OpenVault,
                CreateVault, SaveNewVault, SaveVault, BeginExport, FinishExport,
                ReadToRecover, RewriteVault, SendUnlock
  <1>8. q = p
    BY <1>7 DEF SerialInv, CommandsGood, OneCommand
  <1>9. SaveVault(p) \/ FinishExport(p)
    BY <1>6, <1>8 DEF Proceed, LoadKey, CreateKey, WriteKey, CheckVault, OpenVault,
                CreateVault, SaveNewVault, BeginExport,
                ReadToRecover, RewriteVault, SendUnlock
  <1>10. ~SaveVault(p)
    BY GotoFrame, Parts DEF SaveVault, SerialInv, PCs
  <1>11. FinishExport(p) /\ pc[p] = "exporting"
    BY <1>9, <1>10 DEF FinishExport
  <1>12. creds = {} /\ mem[p] = vault /\ mem[p] # None
    BY <1>11 DEF SerialInv, CommandsGood, HoldsCurrent, HoldsTheVault, IInv,
                 HoldsOperands
  <1>13. creds' = Texts(mem[p].entries.map) /\ vault' = vault
    BY <1>11, <1>12 DEF FinishExport
  <1>14. QED
    BY <1>12, <1>13 DEF Content

(* To a user who waits a command that saves and succeeds leaves no text in *)
(* the credentials file of an entry that was deleted or set anew           *)
(* (save_and_sync, write_credentials).                                     *)
THEOREM SuccessLeavesNoStaleText == SerialSpec => NoStalePlaintext
  <1>1. SerialInv /\ [SerialNext]_vars => [NothingStale]_vars
    BY CleanAtTheEnd
  <1>2. QED
    BY <1>1, AlwaysSerialInv, PTL DEF SerialSpec, NoStalePlaintext, NothingStale
=============================================================================
