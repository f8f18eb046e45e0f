-------------------------- MODULE SyncEngine_proofs --------------------------
(***************************************************************************)
(* The sync engine, for any devices, keys and bounds.  First what holds    *)
(* whatever commands overlap, requests fail and processes die: baselines   *)
(* are sound.  Then what it guarantees to a user who runs one command at a *)
(* time and edits no vault meanwhile, on machines that do not fail: its    *)
(* conflict checks protect both sides, success means in sync, and with one *)
(* key on all devices it implements VaultSync.                             *)
(***************************************************************************)
EXTENDS SyncRefinement, TLAPS

USE DEF Strategies, AllCommands, PCs

(* Sealing a plaintext gives a blob that opens to it under the same key    *)
(* (encrypt_vault, decrypt_vault).                                         *)
LEMMA SealOpens ==
    ASSUME NEW d \in Device, NEW b \in Bytes, NEW n \in Nat, Unsealed(d, b)
    PROVE  /\ EncryptVault(key[d], b, n) \in Bytes
           /\ Decryptable(key[d], EncryptVault(key[d], b, n))
           /\ DecryptVault(key[d], EncryptVault(key[d], b, n)) = b
  <1>1. CASE key[d] = None
    BY <1>1 DEF EncryptVault, Decryptable, DecryptVault
  <1>2. CASE key[d] # None
    <2> DEFINE sealed == [b EXCEPT !.k = key[d], !.n = n]
    <2>1. key[d] \in Key
      BY <1>2, SyncAssumption
    <2>2. b.k = None /\ b.n = 0 /\ b.damage # "outside"
      BY <1>2, SyncAssumption DEF Unsealed
    <2>3. sealed \in Bytes /\ sealed.k = key[d] /\ sealed.damage = b.damage
      BY <2>1 DEF Bytes
    <2>4. [sealed EXCEPT !.k = None, !.n = 0] = b
      BY <2>1, <2>2 DEF Bytes
    <2>5. QED
      BY <1>2, <2>2, <2>3, <2>4 DEF EncryptVault, Decryptable, DecryptVault
  <1>3. QED
    BY <1>1, <1>2

(* What opens under a device's key is plaintext (decrypt_vault). *)
LEMMA OpenIsUnsealed ==
    ASSUME NEW d \in Device, NEW b \in Bytes, Decryptable(key[d], b)
    PROVE  /\ DecryptVault(key[d], b) \in Bytes
           /\ Unsealed(d, DecryptVault(key[d], b))
  BY DEF Decryptable, DecryptVault, Unsealed, Bytes

(* Cutting a plaintext short leaves a plaintext. *)
LEMMA TearUnsealed ==
    ASSUME NEW d \in Device, NEW b \in Bytes, Unsealed(d, b)
    PROVE  Tear(b) \in Bytes /\ Unsealed(d, Tear(b))
  <1>1. b # None
    BY SyncAssumption
  <1>2. CASE b.k = None
    BY <1>1, <1>2 DEF Tear, Unsealed, Bytes
  <1>3. CASE b.k # None
    BY <1>1, <1>3 DEF Tear, Unsealed, Bytes
  <1>4. QED
    BY <1>2, <1>3

-----------------------------------------------------------------------------
(* One device moves: nothing of any other device changes. *)
Untouched(e) ==
    /\ local'[e] = local[e] /\ backup'[e] = backup[e] /\ state'[e] = state[e]
    /\ pc'[e] = pc[e] /\ cmd'[e] = cmd[e] /\ st'[e] = st[e]
    /\ data'[e] = data[e] /\ man'[e] = man[e] /\ had'[e] = had[e]

Others(d) == \A e \in Device \ {d} : Untouched(e)

LEMMA OneDeviceMoves ==
    ASSUME IInv, NEW d \in Device, TypeOK', Others(d), DeviceInv(d)'
    PROVE  IInv'
  <1>1. ASSUME NEW e \in Device, e # d
        PROVE  DeviceInv(e)'
    BY <1>1 DEF IInv, Others, Untouched, DeviceInv, HoldsPlaintext,
                HoldsOperands, BlobOpens
  <1>2. QED
    BY <1>1 DEF IInv

(* A command that ended holds nothing; the other devices' commands go on. *)
LEMMA EndFrame ==
    ASSUME TypeOK, NEW d \in Device, End(d)
    PROVE  /\ pc' \in [Device -> PCs]
           /\ cmd' \in [Device -> AllCommands \cup {None}]
           /\ st' \in [Device -> SyncState \cup {None}]
           /\ data' \in [Device -> Bytes \cup {None}]
           /\ man' \in [Device -> Bytes \cup {None}]
           /\ saved' \in [Device -> BOOLEAN]
           /\ had' \in [Device -> BOOLEAN]
           /\ pc'[d] = "idle" /\ data'[d] = None /\ st'[d] = None
           /\ \A e \in Device \ {d} :
                /\ pc'[e] = pc[e] /\ cmd'[e] = cmd[e] /\ st'[e] = st[e]
                /\ data'[e] = data[e] /\ man'[e] = man[e] /\ had'[e] = had[e]
  BY DEF TypeOK, End

LEMMA EndInv ==
    ASSUME TypeOK, NEW d \in Device, End(d), Unsealed(d, local'[d]),
           Unsealed(d, backup'[d]), Sound(d, state'[d])
    PROVE  DeviceInv(d)'
  BY EndFrame DEF DeviceInv, HoldsPlaintext, HoldsOperands, BlobOpens, Sound,
                  Recorded, Unsealed

LEMMA GotoFrame ==
    ASSUME TypeOK, NEW d \in Device, NEW label \in PCs, Goto(d, label)
    PROVE  /\ pc' \in [Device -> PCs]
           /\ pc'[d] = label
           /\ \A e \in Device \ {d} : pc'[e] = pc[e]
  BY DEF TypeOK, Goto

(* A command that failed holds nothing any more, or is about to put the    *)
(* backup back.                                                            *)
LEMMA FailInv ==
    ASSUME IInv, NEW d \in Device, Fail(d) \/ End(d), Unsealed(d, local'[d]),
           Unsealed(d, backup'[d]), Sound(d, state'[d])
    PROVE  /\ pc' \in [Device -> PCs]
           /\ cmd' \in [Device -> AllCommands \cup {None}]
           /\ st' \in [Device -> SyncState \cup {None}]
           /\ data' \in [Device -> Bytes \cup {None}]
           /\ man' \in [Device -> Bytes \cup {None}]
           /\ saved' \in [Device -> BOOLEAN]
           /\ had' \in [Device -> BOOLEAN]
           /\ DeviceInv(d)'
           /\ \A e \in Device \ {d} :
                /\ pc'[e] = pc[e] /\ cmd'[e] = cmd[e] /\ st'[e] = st[e]
                /\ data'[e] = data[e] /\ man'[e] = man[e] /\ had'[e] = had[e]
  <1>1. CASE End(d)
    BY <1>1, EndFrame, EndInv DEF IInv
  <1>2. CASE Goto(d, "restore") /\ UNCHANGED <<cmd, st, data, man, saved, had>>
    <2>1. /\ pc' \in [Device -> PCs] /\ pc'[d] = "restore"
          /\ \A e \in Device \ {d} : pc'[e] = pc[e]
      BY <1>2, GotoFrame DEF IInv
    <2>2. DeviceInv(d)'
      BY <1>2, <2>1 DEF IInv, DeviceInv, HoldsPlaintext, HoldsOperands,
                        BlobOpens
    <2>3. QED
      BY <1>2, <2>1, <2>2 DEF IInv, TypeOK
  <1>3. QED
    BY <1>1, <1>2 DEF Fail

LEMMA FailStep ==
    ASSUME IInv, NEW d \in Device, Fail(d),
           UNCHANGED <<local, backup, state, rvault, rman, edits, uploads>>,
           faults' \in Nat, lapsed' \in BOOLEAN
    PROVE  IInv'
  <1>1. Unsealed(d, local'[d]) /\ Unsealed(d, backup'[d]) /\ Sound(d, state'[d])
    BY DEF IInv, DeviceInv, HoldsPlaintext
  <1>2. TypeOK' /\ Others(d) /\ DeviceInv(d)'
    BY <1>1, FailInv DEF IInv, TypeOK, Others, Untouched
  <1>3. QED
    BY <1>2, OneDeviceMoves

-----------------------------------------------------------------------------
(* One lemma per action. *)

LEMMA EditVaultStep ==
    ASSUME IInv, NEW d \in Device, EditVault(d)
    PROVE  IInv'
  <1>1. Plain(edits + 1) \in Bytes /\ Unsealed(d, Plain(edits + 1))
    BY DEF IInv, TypeOK, Plain, Bytes, Unsealed
  <1>2. TypeOK' /\ Others(d) /\ local'[d] = Plain(edits + 1)
    BY <1>1 DEF IInv, TypeOK, EditVault, remote, proc, Others, Untouched
  <1>3. Plain(edits + 1) # None
    BY <1>1, SyncAssumption
  <1>4. DeviceInv(d)'
    BY <1>1, <1>2, <1>3 DEF IInv, DeviceInv, HoldsPlaintext, HoldsOperands,
                            BlobOpens, EditVault, remote, proc
  <1>5. QED
    BY <1>2, <1>4, OneDeviceMoves

LEMMA StartPushStep ==
    ASSUME IInv, NEW d \in Device, StartPush(d)
    PROVE  IInv'
  <1> USE DEF StartPush, CanStart, Begin, Lapse, disk, remote
  <1>1. TypeOK' /\ Others(d)
    BY GotoFrame DEF IInv, TypeOK, Others, Untouched
  <1>2. DeviceInv(d)'
    BY GotoFrame DEF IInv, TypeOK, DeviceInv, HoldsPlaintext, HoldsOperands,
                     BlobOpens
  <1>3. QED
    BY <1>1, <1>2, OneDeviceMoves

LEMMA StartPullStep ==
    ASSUME IInv, NEW d \in Device, StartPull(d)
    PROVE  IInv'
  <1> USE DEF StartPull, CanStart, Begin, Lapse, remote
  <1>1. TypeOK' /\ Others(d)
    BY GotoFrame DEF IInv, TypeOK, Others, Untouched
  <1>2. /\ pc'[d] = "fetch" /\ cmd'[d] = "pull" /\ data'[d] = None
        /\ backup'[d] \in {local[d], backup[d]} /\ st'[d] = state[d]
    BY GotoFrame DEF IInv, TypeOK, DeviceInv, HoldsOperands, PCs
  <1>3. DeviceInv(d)'
    BY <1>2 DEF IInv, DeviceInv, HoldsPlaintext, HoldsOperands, BlobOpens
  <1>4. QED
    BY <1>1, <1>3, OneDeviceMoves

LEMMA BackupFailsStep ==
    ASSUME IInv, NEW d \in Device, BackupFails(d)
    PROVE  IInv'
  <1> USE DEF BackupFails, Fault, remote, proc
  <1>1. Tear(local[d]) \in Bytes /\ Unsealed(d, Tear(local[d]))
    BY TearUnsealed DEF IInv, TypeOK, DeviceInv, HoldsPlaintext
  <1>2. TypeOK' /\ Others(d) /\ backup'[d] = Tear(local[d]) /\ pc[d] = "idle"
    BY <1>1 DEF IInv, TypeOK, Others, Untouched, CanStart
  <1>3. DeviceInv(d)'
    BY <1>1, <1>2 DEF IInv, DeviceInv, HoldsPlaintext, HoldsOperands, BlobOpens
  <1>4. QED
    BY <1>2, <1>3, OneDeviceMoves

LEMMA StartSyncStep ==
    ASSUME IInv, NEW d \in Device, StartSync(d)
    PROVE  IInv'
  <1> USE DEF StartSync, CanStart, Begin, Lapse, disk, remote
  <1>1. TypeOK' /\ Others(d)
    BY GotoFrame DEF IInv, TypeOK, Others, Untouched
  <1>2. DeviceInv(d)'
    BY GotoFrame, SyncAssumption DEF IInv, TypeOK, DeviceInv, HoldsPlaintext,
                  HoldsOperands, BlobOpens
  <1>3. QED
    BY <1>1, <1>2, OneDeviceMoves

(* The three ways on from a manifest. *)
LEMMA UploadStep ==
    ASSUME IInv, NEW d \in Device, UNCHANGED <<disk, remote, counts>>,
           data[d] # None, Upload(d, data[d])
    PROVE  IInv'
  <1> USE DEF Upload, disk, remote, counts
  <1>1. TypeOK' /\ Others(d)
    BY GotoFrame DEF IInv, TypeOK, Others, Untouched
  <1>2. DeviceInv(d)'
    BY GotoFrame DEF IInv, TypeOK, DeviceInv, HoldsPlaintext, HoldsOperands,
                     BlobOpens
  <1>3. QED
    BY <1>1, <1>2, OneDeviceMoves

LEMMA DownloadNextStep ==
    ASSUME IInv, NEW d \in Device, UNCHANGED <<disk, remote, counts>>,
           rman # None, DownloadNext(d)
    PROVE  IInv'
  <1> USE DEF DownloadNext, disk, remote, counts
  <1>1. TypeOK' /\ Others(d)
    BY GotoFrame DEF IInv, TypeOK, Others, Untouched
  <1>2. DeviceInv(d)'
    BY GotoFrame DEF IInv, TypeOK, DeviceInv, HoldsPlaintext, HoldsOperands,
                     BlobOpens
  <1>3. QED
    BY <1>1, <1>2, OneDeviceMoves

LEMMA UpToDateStep ==
    ASSUME IInv, NEW d \in Device, UNCHANGED <<disk, remote, counts>>,
           UpToDate(d)
    PROVE  IInv'
  <1> USE DEF UpToDate, disk, remote, counts
  <1>1. TypeOK' /\ Others(d)
    BY GotoFrame DEF IInv, TypeOK, Others, Untouched
  <1>2. DeviceInv(d)'
    BY GotoFrame DEF IInv, TypeOK, DeviceInv, HoldsPlaintext, HoldsOperands,
                     BlobOpens
  <1>3. QED
    BY <1>1, <1>2, OneDeviceMoves

LEMMA PushFetchStep ==
    ASSUME IInv, NEW d \in Device, PushFetch(d)
    PROVE  IInv'
  <1> USE DEF PushFetch
  <1>1. CASE Fail(d)
    BY <1>1, FailStep DEF IInv, TypeOK, disk, remote, counts
  <1>2. CASE Goto(d, "uploadVault") /\ UNCHANGED <<cmd, st, data, man, saved, had>>
    <2>1. TypeOK' /\ Others(d) /\ pc'[d] = "uploadVault"
      BY <1>2, GotoFrame DEF IInv, TypeOK, Others, Untouched, disk, remote, counts
    <2>2. DeviceInv(d)'
      BY <1>2, <2>1 DEF IInv, DeviceInv, HoldsPlaintext, HoldsOperands,
                        BlobOpens, disk
    <2>3. QED
      BY <2>1, <2>2, OneDeviceMoves
  <1>3. QED
    BY <1>1, <1>2

LEMMA PullFetchStep ==
    ASSUME IInv, NEW d \in Device, PullFetch(d)
    PROVE  IInv'
  <1> USE DEF PullFetch
  <1>1. CASE Fail(d)
    BY <1>1, FailStep DEF IInv, TypeOK, disk, remote, counts
  <1>2. CASE rman # None /\ DownloadNext(d)
    BY <1>2, DownloadNextStep
  <1>3. QED
    BY <1>1, <1>2 DEF DownloadNext

LEMMA SyncFetchFirstStep ==
    ASSUME IInv, NEW d \in Device, SyncFetchFirst(d)
    PROVE  IInv'
  <1> USE DEF SyncFetchFirst
  <1>1. CASE Fail(d)
    BY <1>1, FailStep DEF IInv, TypeOK, disk, remote, counts
  <1>2. CASE rman # None /\ DownloadNext(d)
    BY <1>2, DownloadNextStep
  <1>3. CASE data[d] # None /\ Upload(d, data[d])
    BY <1>3, UploadStep
  <1>4. CASE UpToDate(d)
    BY <1>4, UpToDateStep
  <1>5. QED
    BY <1>1, <1>2, <1>3, <1>4

LEMMA SyncFetchCompareStep ==
    ASSUME IInv, NEW d \in Device, SyncFetchCompare(d)
    PROVE  IInv'
  <1> USE DEF SyncFetchCompare
  <1>1. CASE UpToDate(d)
    BY <1>1, UpToDateStep
  <1>2. CASE /\ Goto(d, "pushFetch")
             /\ data' = [data EXCEPT ![d] = local[d]]
             /\ UNCHANGED <<cmd, st, man, saved, had>>
    <2>1. TypeOK' /\ Others(d) /\ pc'[d] = "pushFetch" /\ data'[d] = local[d]
      BY <1>2, GotoFrame DEF IInv, TypeOK, Others, Untouched, disk, remote, counts
    <2>2. DeviceInv(d)'
      BY <1>2, <2>1 DEF IInv, DeviceInv, HoldsPlaintext, HoldsOperands,
                        BlobOpens, disk
    <2>3. QED
      BY <2>1, <2>2, OneDeviceMoves
  <1>3. CASE /\ Goto(d, "pullFetch")
             /\ UNCHANGED <<cmd, st, data, man, saved, had>>
    <2>1. TypeOK' /\ Others(d) /\ pc'[d] = "pullFetch"
      BY <1>3, GotoFrame DEF IInv, TypeOK, Others, Untouched, disk, remote, counts
    <2>2. DeviceInv(d)'
      BY <1>3, <2>1 DEF IInv, DeviceInv, HoldsPlaintext, HoldsOperands,
                        BlobOpens, disk
    <2>3. QED
      BY <2>1, <2>2, OneDeviceMoves
  <1>4. CASE SyncOnConflict(d)
    BY <1>4, UploadStep, DownloadNextStep DEF SyncOnConflict
  <1>5. QED
    BY <1>1, <1>2, <1>3, <1>4

LEMMA SyncPushFetchStep ==
    ASSUME IInv, NEW d \in Device, SyncPushFetch(d)
    PROVE  IInv'
  <1> USE DEF SyncPushFetch
  <1>1. data[d] # None
    BY DEF IInv, DeviceInv, HoldsOperands
  <1>2. CASE rman # None /\ PushOnConflict(d, data[d])
    BY <1>1, <1>2, UploadStep, DownloadNextStep, UpToDateStep DEF PushOnConflict
  <1>3. CASE Upload(d, data[d])
    BY <1>1, <1>3, UploadStep
  <1>4. QED
    BY <1>2, <1>3

LEMMA SyncPullFetchStep ==
    ASSUME IInv, NEW d \in Device, SyncPullFetch(d)
    PROVE  IInv'
  <1> USE DEF SyncPullFetch
  <1>1. CASE Fail(d)
    BY <1>1, FailStep DEF IInv, TypeOK, disk, remote, counts
  <1>2. CASE rman # None /\ PullOnConflict(d)
    BY <1>2, DownloadNextStep, UpToDateStep DEF PullOnConflict
  <1>3. CASE rman # None /\ DownloadNext(d)
    BY <1>3, DownloadNextStep
  <1>4. QED
    BY <1>1, <1>2, <1>3

LEMMA UploadVaultStep ==
    ASSUME IInv, NEW d \in Device, UploadVault(d)
    PROVE  IInv'
  <1> DEFINE blob == EncryptVault(key[d], data[d], uploads + 1)
  <1> USE DEF UploadVault, disk
  <1>1. data[d] \in Bytes /\ Unsealed(d, data[d]) /\ uploads + 1 \in Nat
    BY DEF IInv, TypeOK, DeviceInv, HoldsPlaintext, HoldsOperands
  <1>2. blob \in Bytes /\ Decryptable(key[d], blob) /\ DecryptVault(key[d], blob) = data[d]
    BY <1>1, SealOpens
  <1>3. blob # None
    BY <1>2, SyncAssumption
  <1> HIDE DEF blob
  <1>4. rvault' = blob /\ man' = [man EXCEPT ![d] = blob]
    BY DEF blob
  <1>5. TypeOK' /\ Others(d) /\ man'[d] = blob
    BY <1>1, <1>2, <1>4, GotoFrame DEF IInv, TypeOK, Others, Untouched
  <1>6. DeviceInv(d)'
    BY <1>2, <1>3, <1>5, GotoFrame DEF IInv, TypeOK, DeviceInv, HoldsPlaintext,
                                       HoldsOperands, BlobOpens
  <1>7. QED
    BY <1>5, <1>6, OneDeviceMoves

(* Both ends of a transfer record what the blob opens to. *)
LEMMA RecordSyncSound ==
    ASSUME IInv, NEW d \in Device, pc[d] \in {"uploadManifest", "writing"},
           RecordSync(d, data[d], man[d])
    PROVE  /\ st' \in [Device -> SyncState \cup {None}]
           /\ Sound(d, st'[d])
           /\ \A e \in Device \ {d} : st'[e] = st[e]
  <1>1. data[d] \in Bytes /\ man[d] \in Bytes
    BY DEF IInv, TypeOK, DeviceInv, HoldsOperands
  <1>2. [local |-> data[d], remote |-> man[d]] \in SyncState
    BY <1>1 DEF SyncState
  <1>3. st' \in [Device -> SyncState \cup {None}]
    BY <1>2 DEF RecordSync, IInv, TypeOK
  <1>4. st'[d] = [local |-> data[d], remote |-> man[d]]
    BY DEF RecordSync, IInv, TypeOK
  <1>5. Sound(d, st'[d])
    BY <1>4 DEF Sound, IInv, DeviceInv, BlobOpens
  <1>6. QED
    BY <1>3, <1>5 DEF RecordSync, IInv, TypeOK

LEMMA UploadManifestStep ==
    ASSUME IInv, NEW d \in Device, UploadManifest(d)
    PROVE  IInv'
  <1> USE DEF UploadManifest, disk, counts
  <1>1. TypeOK' /\ Others(d)
    BY GotoFrame, RecordSyncSound DEF IInv, TypeOK, Others, Untouched
  <1>2. DeviceInv(d)'
    BY GotoFrame, RecordSyncSound DEF IInv, TypeOK, DeviceInv, HoldsPlaintext,
                                      HoldsOperands, BlobOpens
  <1>3. QED
    BY <1>1, <1>2, OneDeviceMoves

LEMMA DownloadVaultStep ==
    ASSUME IInv, NEW d \in Device, DownloadVault(d)
    PROVE  IInv'
  <1> USE DEF DownloadVault
  <1>1. CASE ~(rvault = man[d] /\ Decryptable(key[d], rvault))
    BY <1>1, FailStep DEF IInv, TypeOK, remote, counts
  <1>2. CASE rvault = man[d] /\ Decryptable(key[d], rvault)
    <2> DEFINE plaintext == DecryptVault(key[d], man[d])
    <2>1. man[d] \in Bytes /\ Decryptable(key[d], man[d])
      BY <1>2 DEF IInv, TypeOK, DeviceInv, HoldsOperands
    <2>2. plaintext \in Bytes /\ Unsealed(d, plaintext) /\ plaintext # None
      BY <2>1, OpenIsUnsealed, SyncAssumption
    <2> HIDE DEF plaintext
    <2>3. /\ data' = [data EXCEPT ![d] = plaintext]
          /\ had' = [had EXCEPT ![d] = local[d] # None]
          /\ backup' = [backup EXCEPT ![d] =
                            IF local[d] # None THEN local[d] ELSE @]
          /\ Goto(d, "write")
          /\ UNCHANGED <<cmd, st, man, saved, local, state, rvault, rman,
                         edits, uploads, faults, lapsed>>
      BY <1>2 DEF plaintext, remote, counts
    <2>4. TypeOK' /\ Others(d)
      BY <2>2, <2>3, GotoFrame DEF IInv, TypeOK, Others, Untouched
    <2>5. DeviceInv(d)'
      <3>1. pc'[d] = "write" /\ data'[d] = plaintext
        BY <2>3, GotoFrame DEF IInv, TypeOK
      <3>2. had'[d] => backup'[d] # None
        BY <2>3 DEF IInv, TypeOK
      <3>3. HoldsPlaintext(d)'
        BY <2>2, <2>3, <3>1 DEF IInv, TypeOK, DeviceInv, HoldsPlaintext
      <3>4. HoldsOperands(d)' /\ BlobOpens(d)'
        BY <2>1, <2>2, <2>3, <3>1, <3>2, SyncAssumption
           DEF HoldsOperands, BlobOpens, plaintext
      <3>5. QED
        BY <2>3, <3>3, <3>4 DEF IInv, DeviceInv
    <2>6. QED
      BY <2>4, <2>5, OneDeviceMoves
  <1>3. QED
    BY <1>1, <1>2

LEMMA CopyFailsStep ==
    ASSUME IInv, NEW d \in Device, CopyFails(d)
    PROVE  IInv'
  <1> USE DEF CopyFails, Fault, Lapse, remote
  <1>1. Tear(local[d]) \in Bytes /\ Unsealed(d, Tear(local[d]))
    BY TearUnsealed DEF IInv, TypeOK, DeviceInv, HoldsPlaintext
  <1>2. backup'[d] = Tear(local[d])
    BY DEF IInv, TypeOK
  <1>3. Unsealed(d, local'[d]) /\ Unsealed(d, backup'[d]) /\ Sound(d, state'[d])
    BY <1>1, <1>2 DEF IInv, DeviceInv, HoldsPlaintext
  <1>4. TypeOK' /\ Others(d) /\ DeviceInv(d)'
    BY <1>1, <1>3, FailInv DEF IInv, TypeOK, Others, Untouched
  <1>5. QED
    BY <1>4, OneDeviceMoves

LEMMA BeginWriteStep ==
    ASSUME IInv, NEW d \in Device, BeginWrite(d)
    PROVE  IInv'
  <1> USE DEF BeginWrite, remote, counts
  <1>1. data[d] \in Bytes /\ Unsealed(d, data[d])
    BY DEF IInv, TypeOK, DeviceInv, HoldsPlaintext, HoldsOperands
  <1>2. Tear(data[d]) \in Bytes /\ Unsealed(d, Tear(data[d]))
    BY <1>1, TearUnsealed
  <1>3. TypeOK' /\ Others(d) /\ local'[d] = Tear(data[d]) /\ pc'[d] = "writing"
    BY <1>2, GotoFrame DEF IInv, TypeOK, Others, Untouched
  <1>4. DeviceInv(d)'
    BY <1>2, <1>3 DEF IInv, DeviceInv, HoldsPlaintext, HoldsOperands, BlobOpens
  <1>5. QED
    BY <1>3, <1>4, OneDeviceMoves

(* What a write leaves in the vault is plaintext of a plaintext. *)
LEMMA FillFrame ==
    ASSUME IInv, NEW d \in Device, data[d] # None, local' = Fill(d)
    PROVE  /\ local' \in [Device -> Bytes \cup {None}]
           /\ local'[d] \in {local[d], data[d]}
           /\ Unsealed(d, local'[d])
           /\ \A e \in Device \ {d} : local'[e] = local[e]
  BY DEF Fill, IInv, TypeOK, DeviceInv, HoldsPlaintext

LEMMA FinishWriteStep ==
    ASSUME IInv, NEW d \in Device, FinishWrite(d)
    PROVE  IInv'
  <1> USE DEF FinishWrite, remote, counts
  <1>1. data[d] # None
    BY DEF IInv, DeviceInv, HoldsOperands
  <1>2. TypeOK' /\ Others(d)
    BY <1>1, GotoFrame, RecordSyncSound, FillFrame
       DEF IInv, TypeOK, Others, Untouched
  <1>3. DeviceInv(d)'
    <2>1. pc'[d] = "persist" /\ data'[d] = data[d]
      BY GotoFrame DEF IInv, TypeOK
    <2>2. backup'[d] \in {backup[d], None}
      BY DEF IInv, TypeOK
    <2>3. HoldsPlaintext(d)'
      BY <1>1, <2>1, <2>2, FillFrame
         DEF IInv, DeviceInv, HoldsPlaintext, Unsealed
    <2>4. HoldsOperands(d)' /\ BlobOpens(d)'
      BY <2>1 DEF HoldsOperands, BlobOpens
    <2>5. QED
      BY <2>3, <2>4, RecordSyncSound DEF IInv, DeviceInv
  <1>4. QED
    BY <1>2, <1>3, OneDeviceMoves

LEMMA WriteFailsStep ==
    ASSUME IInv, NEW d \in Device, WriteFails(d)
    PROVE  IInv'
  <1> USE DEF WriteFails, Fault, Lapse, remote
  <1>1. TypeOK' /\ Others(d)
    BY EndFrame DEF IInv, TypeOK, Others, Untouched
  <1>2. local'[d] \in {local[d], backup[d]} /\ backup'[d] \in {backup[d], None}
    BY DEF IInv, TypeOK
  <1>3. Unsealed(d, local'[d]) /\ Unsealed(d, backup'[d]) /\ Sound(d, state'[d])
    BY <1>2 DEF IInv, DeviceInv, HoldsPlaintext, Unsealed
  <1>4. DeviceInv(d)'
    BY <1>3, EndInv DEF IInv
  <1>5. QED
    BY <1>1, <1>4, OneDeviceMoves

LEMMA WriteAndRestoreFailStep ==
    ASSUME IInv, NEW d \in Device, WriteAndRestoreFail(d)
    PROVE  IInv'
  <1> USE DEF WriteAndRestoreFail, remote
  <1>1. backup[d] \in Bytes /\ Unsealed(d, backup[d])
    BY DEF IInv, TypeOK, DeviceInv, HoldsOperands, HoldsPlaintext
  <1>2. Tear(backup[d]) \in Bytes /\ Unsealed(d, Tear(backup[d]))
    BY <1>1, TearUnsealed
  <1>3. TypeOK' /\ Others(d)
    BY <1>2, EndFrame, SyncAssumption DEF IInv, TypeOK, Others, Untouched
  <1>4. local'[d] \in {Tear(backup[d]), local[d]} /\ backup'[d] = None
    BY DEF IInv, TypeOK
  <1>5. Unsealed(d, local'[d]) /\ Unsealed(d, backup'[d]) /\ Sound(d, state'[d])
    <2>1. Unsealed(d, local[d])
      BY DEF IInv, DeviceInv, HoldsPlaintext
    <2>2. Unsealed(d, None)
      BY DEF Unsealed
    <2>3. QED
      BY <1>2, <1>4, <2>1, <2>2 DEF IInv, DeviceInv
  <1>6. DeviceInv(d)'
    BY <1>5, EndInv DEF IInv
  <1>7. QED
    BY <1>3, <1>6, OneDeviceMoves

LEMMA RemoveFailsStep ==
    ASSUME IInv, NEW d \in Device, RemoveFails(d)
    PROVE  IInv'
  <1> USE DEF RemoveFails, Fault, remote
  <1>1. data[d] # None
    BY DEF IInv, DeviceInv, HoldsOperands
  <1>2. Unsealed(d, local'[d]) /\ Unsealed(d, backup'[d]) /\ Sound(d, state'[d])
    BY <1>1, FillFrame DEF IInv, DeviceInv, HoldsPlaintext
  <1>3. TypeOK' /\ Others(d) /\ DeviceInv(d)'
    BY <1>1, <1>2, FillFrame, FailInv DEF IInv, TypeOK, Others, Untouched
  <1>4. QED
    BY <1>3, OneDeviceMoves

LEMMA PersistStateStep ==
    ASSUME IInv, NEW d \in Device, PersistState(d)
    PROVE  IInv'
  <1> USE DEF PersistState, remote, counts
  <1>1. TypeOK' /\ Others(d)
    BY EndFrame DEF IInv, TypeOK, Others, Untouched
  <1>2. state'[d] \in {state[d], st[d]}
    BY DEF IInv, TypeOK
  <1>3. Unsealed(d, local'[d]) /\ Unsealed(d, backup'[d]) /\ Sound(d, state'[d])
    BY <1>2 DEF IInv, DeviceInv, HoldsPlaintext
  <1>4. DeviceInv(d)'
    BY <1>3, EndInv DEF IInv
  <1>5. QED
    BY <1>1, <1>4, OneDeviceMoves

LEMMA BeginRestoreStep ==
    ASSUME IInv, NEW d \in Device, BeginRestore(d)
    PROVE  IInv'
  <1> USE DEF BeginRestore, remote, counts
  <1>1. CASE End(d) /\ UNCHANGED local
    <2>1. TypeOK' /\ Others(d)
      BY <1>1, EndFrame DEF IInv, TypeOK, Others, Untouched
    <2>2. DeviceInv(d)'
      BY <1>1, EndInv DEF IInv, DeviceInv, HoldsPlaintext
    <2>3. QED
      BY <2>1, <2>2, OneDeviceMoves
  <1>2. CASE /\ backup[d] # None
             /\ local' = [local EXCEPT ![d] = Tear(backup[d])]
             /\ data' = [data EXCEPT ![d] = backup[d]]
             /\ Goto(d, "restoring")
             /\ UNCHANGED <<cmd, st, man, saved, had>>
    <2>1. backup[d] \in Bytes /\ Unsealed(d, backup[d])
      BY <1>2 DEF IInv, TypeOK, DeviceInv, HoldsPlaintext
    <2>2. Tear(backup[d]) \in Bytes /\ Unsealed(d, Tear(backup[d]))
      BY <2>1, TearUnsealed
    <2>3. /\ TypeOK' /\ Others(d)
          /\ local'[d] = Tear(backup[d]) /\ data'[d] = backup[d]
          /\ pc'[d] = "restoring"
      BY <1>2, <2>1, <2>2, GotoFrame DEF IInv, TypeOK, Others, Untouched
    <2>4. DeviceInv(d)'
      BY <1>2, <2>1, <2>2, <2>3
         DEF IInv, DeviceInv, HoldsPlaintext, HoldsOperands, BlobOpens
    <2>5. QED
      BY <2>3, <2>4, OneDeviceMoves
  <1>3. QED
    BY <1>1, <1>2

LEMMA FinishRestoreStep ==
    ASSUME IInv, NEW d \in Device, FinishRestore(d)
    PROVE  IInv'
  <1> USE DEF FinishRestore, remote, counts
  <1>1. data[d] # None
    BY DEF IInv, DeviceInv, HoldsOperands
  <1>2. TypeOK' /\ Others(d)
    BY <1>1, EndFrame, FillFrame DEF IInv, TypeOK, Others, Untouched
  <1>3. backup'[d] = None
    BY DEF IInv, TypeOK
  <1>4. Unsealed(d, local'[d]) /\ Unsealed(d, backup'[d]) /\ Sound(d, state'[d])
    BY <1>1, <1>3, FillFrame DEF IInv, DeviceInv, Unsealed
  <1>5. DeviceInv(d)'
    BY <1>4, EndInv DEF IInv
  <1>6. QED
    BY <1>2, <1>5, OneDeviceMoves

LEMMA RequestFailsStep ==
    ASSUME IInv, NEW d \in Device, RequestFails(d)
    PROVE  IInv'
  <1>1. faults' \in Nat /\ lapsed' \in BOOLEAN
    BY DEF RequestFails, Fault, IInv, TypeOK
  <1>2. QED
    BY <1>1, FailStep DEF RequestFails, disk, remote

LEMMA CrashStep ==
    ASSUME IInv, NEW d \in Device, Crash(d)
    PROVE  IInv'
  <1> USE DEF Crash, Fault, Lapse, remote
  <1>1. TypeOK' /\ Others(d)
    BY EndFrame DEF IInv, TypeOK, Others, Untouched
  <1>2. state'[d] \in {state[d], Garbled}
    BY DEF IInv, TypeOK
  <1>3. Unsealed(d, local'[d]) /\ Unsealed(d, backup'[d]) /\ Sound(d, state'[d])
    BY <1>2 DEF IInv, DeviceInv, HoldsPlaintext, Sound, Recorded
  <1>4. DeviceInv(d)'
    BY <1>3, EndInv DEF IInv
  <1>5. QED
    BY <1>1, <1>4, OneDeviceMoves

-----------------------------------------------------------------------------
LEMMA InitInv == Init => IInv
  <1>1. Init => TypeOK
    <2> SUFFICES ASSUME Init
                 PROVE  TypeOK
      OBVIOUS
    <2>1. lapsed \in BOOLEAN /\ edits \in Nat /\ uploads \in Nat /\ faults \in Nat
      BY DEF Init
    <2>2. QED
      BY <2>1 DEF Init, TypeOK
  <1>2. Init => \A d \in Device : DeviceInv(d)
    BY DEF Init, DeviceInv, HoldsPlaintext, HoldsOperands, BlobOpens, Sound,
           Recorded, Unsealed
  <1>3. QED
    BY <1>1, <1>2 DEF IInv

LEMMA NextInv == IInv /\ [Next]_vars => IInv'
  <1> SUFFICES ASSUME IInv, [Next]_vars
               PROVE  IInv'
    OBVIOUS
  <1>1. ASSUME NEW d \in Device, Start(d)
        PROVE  IInv'
    BY <1>1, StartPushStep, StartPullStep, StartSyncStep DEF Start
  <1>2. ASSUME NEW d \in Device, Fetch(d)
        PROVE  IInv'
    BY <1>2, PushFetchStep, PullFetchStep, SyncFetchFirstStep,
       SyncFetchCompareStep, SyncPushFetchStep, SyncPullFetchStep DEF Fetch
  <1>3. ASSUME NEW d \in Device, Proceed(d)
        PROVE  IInv'
    BY <1>2, <1>3, UploadVaultStep, UploadManifestStep, DownloadVaultStep,
       BeginWriteStep, FinishWriteStep, PersistStateStep, BeginRestoreStep,
       FinishRestoreStep DEF Proceed
  <1>4. CASE UNCHANGED vars
    BY <1>4 DEF vars, disk, remote, proc, counts, IInv, TypeOK, DeviceInv,
                HoldsPlaintext, HoldsOperands, BlobOpens
  <1>5. QED
    BY <1>1, <1>3, <1>4, EditVaultStep, BackupFailsStep, CopyFailsStep,
       WriteFailsStep, WriteAndRestoreFailStep, RemoveFailsStep,
       RequestFailsStep, CrashStep DEF Next

LEMMA AlwaysInv == Spec => []IInv
  BY InitInv, NextInv, PTL DEF Spec

(* The variables of the sync engine have their types. *)
THEOREM TypeCorrect == Spec => []TypeOK
  <1>1. IInv => TypeOK
    BY DEF IInv
  <1>2. QED
    BY <1>1, AlwaysInv, PTL

(* The baseline a device goes by, on disk and in a running command, names  *)
(* a local and a remote file that hold the same vault (SmartSyncEngine).   *)
THEOREM BaselinesAreSound == Spec => []BaselineSound
  <1>1. IInv => BaselineSound
    BY DEF IInv, DeviceInv, BaselineSound
  <1>2. QED
    BY <1>1, AlwaysInv, PTL

-----------------------------------------------------------------------------
(* The invariant behind DamageNeedsFault and OneFaultLeavesACopy: nothing  *)
(* a command copies is damaged, and a vault that is, is the one a pull of  *)
(* that device is just filling from the whole bytes it holds.              *)
WholeInv(d) ==
    /\ Whole(backup[d]) /\ Whole(data[d])
    /\ Recorded(state[d]) => Whole(state[d].local)
    /\ Recorded(st[d]) => Whole(st[d].local)
    /\ \/ Whole(local[d])
       \/ pc[d] \in {"writing", "restoring"} /\ local[d] = Tear(data[d])
    /\ pc[d] = "restoring" => backup[d] # None

DamageInv == faults = 0 => Whole(rvault) /\ \A d \in Device : WholeInv(d)

(* A step of d's command keeps it that way. *)
StaysWhole(d) == Others(d) /\ Whole(rvault)' /\ WholeInv(d)'

LEMMA OthersWhole ==
    ASSUME NEW d \in Device, NEW e \in Device \ {d}, Others(d), WholeInv(e)
    PROVE  WholeInv(e)'
  BY DEF Others, Untouched, WholeInv

(* A step of a command that moves no bytes on disk: at most it takes a     *)
(* copy of the vault or of the state, or drops what it held.               *)
LEMMA NoBytesMoved ==
    ASSUME NEW d \in Device, WholeInv(d), Whole(rvault), Others(d),
           UNCHANGED <<local, backup, state, rvault>>,
           pc[d] \notin {"writing", "restoring"},
           pc'[d] \notin {"writing", "restoring"},
           data'[d] \in {data[d], local[d], None},
           st'[d] \in {st[d], state[d], None}
    PROVE  StaysWhole(d)
  <1>1. Whole(rvault)'
    BY DEF Whole
  <1>2. WholeInv(d)'
    BY DEF WholeInv, Whole, Recorded
  <1>3. QED
    BY <1>1, <1>2 DEF StaysWhole

LEMMA StartWhole ==
    ASSUME IInv, NEW d \in Device, WholeInv(d), Whole(rvault), Start(d)
    PROVE  StaysWhole(d)
  <1>1. CASE StartPush(d) \/ StartSync(d)
    <2>1. /\ Others(d) /\ UNCHANGED <<local, backup, state, rvault>>
          /\ pc[d] = "idle" /\ pc'[d] = "fetch"
          /\ data'[d] = local[d] /\ st'[d] = state[d]
      BY <1>1 DEF IInv, TypeOK, StartPush, StartSync, CanStart, Begin, Goto,
                  disk, remote, Others, Untouched
    <2>2. QED
      BY <2>1, NoBytesMoved
  <1>2. CASE StartPull(d)
    <2>1. /\ Others(d) /\ UNCHANGED <<local, state, rvault>>
          /\ pc[d] = "idle" /\ pc'[d] = "fetch"
          /\ data'[d] = data[d] /\ st'[d] = state[d]
          /\ backup'[d] \in {local[d], backup[d]}
      BY <1>2 DEF IInv, TypeOK, StartPull, CanStart, Begin, Goto, remote,
                  Others, Untouched
    <2>2. WholeInv(d)' /\ Whole(rvault)'
      BY <2>1 DEF WholeInv, Whole, Recorded
    <2>3. QED
      BY <2>1, <2>2 DEF StaysWhole
  <1>3. QED
    BY <1>1, <1>2 DEF Start

(* A fetch only decides how to go on. *)
LEMMA FailFrame ==
    ASSUME IInv, NEW d \in Device, Fail(d)
    PROVE  /\ pc'[d] \in {"idle", "restore"} /\ data'[d] \in {data[d], None}
           /\ st'[d] \in {st[d], None}
           /\ \A e \in Device \ {d} :
                /\ pc'[e] = pc[e] /\ cmd'[e] = cmd[e] /\ st'[e] = st[e]
                /\ data'[e] = data[e] /\ man'[e] = man[e] /\ had'[e] = had[e]
  <1>1. CASE End(d)
    BY <1>1, EndFrame DEF IInv
  <1>2. CASE Goto(d, "restore") /\ UNCHANGED <<cmd, st, data, man, saved, had>>
    BY <1>2, GotoFrame DEF IInv
  <1>3. QED
    BY <1>1, <1>2 DEF Fail

LEMMA FetchFrame ==
    ASSUME IInv, NEW d \in Device, Fetch(d)
    PROVE  /\ Others(d) /\ UNCHANGED <<local, backup, state, rvault, rman, counts>>
           /\ pc[d] \in {"fetch", "pushFetch", "pullFetch"}
           /\ pc'[d] \in {"idle", "restore", "uploadVault", "download", "persist",
                          "pushFetch", "pullFetch"}
           /\ data'[d] \in {data[d], local[d], None} /\ st'[d] \in {st[d], None}
  <1>1. /\ UNCHANGED <<local, backup, state, rvault, rman, counts>>
        /\ pc[d] \in {"fetch", "pushFetch", "pullFetch"}
    BY DEF Fetch, PushFetch, PullFetch, SyncFetchFirst, SyncFetchCompare,
           SyncPushFetch, SyncPullFetch, disk, remote
  <1>2. \/ Fail(d)
        \/ Upload(d, data[d]) \/ DownloadNext(d) \/ UpToDate(d)
        \/ Goto(d, "uploadVault") /\ UNCHANGED <<cmd, st, data, man, had>>
        \/ /\ Goto(d, "pushFetch") \/ Goto(d, "pullFetch")
           /\ data' = data \/ data' = [data EXCEPT ![d] = local[d]]
           /\ UNCHANGED <<cmd, st, man, had>>
    BY DEF Fetch, PushFetch, PullFetch, SyncFetchFirst, SyncFetchCompare,
           SyncPushFetch, SyncPullFetch, PushOnConflict, PullOnConflict,
           SyncOnConflict, DownloadNext
  <1>3. CASE Fail(d)
    BY <1>1, <1>3, FailFrame DEF Others, Untouched
  <1>4. CASE Upload(d, data[d]) \/ DownloadNext(d) \/ UpToDate(d)
    BY <1>1, <1>4 DEF Upload, DownloadNext, UpToDate, Goto, IInv, TypeOK,
                      Others, Untouched
  <1>5. CASE Goto(d, "uploadVault") /\ UNCHANGED <<cmd, st, data, man, had>>
    BY <1>1, <1>5 DEF Goto, IInv, TypeOK, Others, Untouched
  <1>6. CASE /\ Goto(d, "pushFetch") \/ Goto(d, "pullFetch")
             /\ data' = data \/ data' = [data EXCEPT ![d] = local[d]]
             /\ UNCHANGED <<cmd, st, man, had>>
    BY <1>1, <1>6 DEF Goto, IInv, TypeOK, Others, Untouched
  <1>7. QED
    BY <1>2, <1>3, <1>4, <1>5, <1>6

LEMMA FetchWhole ==
    ASSUME IInv, NEW d \in Device, WholeInv(d), Whole(rvault), Fetch(d)
    PROVE  StaysWhole(d)
  BY FetchFrame, NoBytesMoved

(* Sealing and opening neither damage nor repair a vault. *)
LEMMA CryptoKeepsDamage ==
    ASSUME NEW k, NEW b \in Bytes, NEW n
    PROVE  /\ EncryptVault(k, b, n).damage = b.damage
           /\ DecryptVault(k, b).damage = b.damage
  BY DEF EncryptVault, DecryptVault, Bytes

LEMMA UploadWhole ==
    ASSUME IInv, NEW d \in Device, WholeInv(d), Whole(rvault), 
           UploadVault(d) \/ UploadManifest(d)
    PROVE  StaysWhole(d)
  <1>1. WholeInv(d) /\ Whole(rvault) /\ TypeOK /\ data[d] \in Bytes
    BY DEF IInv, TypeOK, DeviceInv, HoldsOperands, UploadVault,
           UploadManifest
  <1>2. CASE UploadVault(d)
    <2>1. /\ Others(d) /\ UNCHANGED <<local, backup, state, data, st>>
          /\ pc[d] = "uploadVault" /\ pc'[d] = "uploadManifest"
          /\ rvault' = EncryptVault(key[d], data[d], uploads + 1)
      BY <1>1, <1>2 DEF TypeOK, UploadVault, Goto, disk, Others, Untouched
    <2>2. rvault'.damage = data[d].damage /\ data[d] # None
      <3>1. EncryptVault(key[d], data[d], uploads + 1).damage = data[d].damage
        BY <1>1, CryptoKeepsDamage
      <3>2. QED
        BY <1>1, <2>1, <3>1, SyncAssumption
    <2>3. WholeInv(d)' /\ Whole(rvault)'
      BY <1>1, <2>1, <2>2 DEF WholeInv, Whole, Recorded
    <2>4. QED
      BY <2>1, <2>3 DEF StaysWhole
  <1>3. CASE UploadManifest(d)
    <2>1. /\ Others(d) /\ UNCHANGED <<local, backup, state, data, rvault>>
          /\ pc[d] = "uploadManifest" /\ pc'[d] = "persist"
          /\ st'[d] = [local |-> data[d], remote |-> man[d]]
      BY <1>1, <1>3 DEF TypeOK, UploadManifest, RecordSync, Goto, disk, Others,
                        Untouched
    <2>2. WholeInv(d)' /\ Whole(rvault)'
      BY <1>1, <2>1 DEF WholeInv, Whole, Recorded
    <2>3. QED
      BY <2>1, <2>2 DEF StaysWhole
  <1>4. QED
    BY <1>2, <1>3

LEMMA DownloadWhole ==
    ASSUME IInv, NEW d \in Device, WholeInv(d), Whole(rvault), DownloadVault(d)
    PROVE  StaysWhole(d)
  <1>1. /\ WholeInv(d) /\ Whole(rvault) /\ TypeOK /\ pc[d] = "download"
        /\ man[d] \in Bytes
    BY DEF IInv, TypeOK, DeviceInv, HoldsOperands, DownloadVault
  <1>2. CASE ~(rvault = man[d] /\ Decryptable(key[d], rvault))
    <2>1. Fail(d) /\ UNCHANGED <<local, backup, state, rvault>>
      BY <1>2 DEF DownloadVault, remote
    <2>2. Others(d)
      BY <2>1, FailFrame DEF Others, Untouched
    <2>3. QED
      BY <1>1, <2>1, <2>2, FailFrame, NoBytesMoved
  <1>3. CASE rvault = man[d] /\ Decryptable(key[d], rvault)
    <2>1. /\ Others(d) /\ UNCHANGED <<local, state, rvault, st>>
          /\ pc'[d] = "write" /\ data'[d] = DecryptVault(key[d], rvault)
          /\ backup'[d] \in {local[d], backup[d]}
      BY <1>1, <1>3 DEF TypeOK, DownloadVault, Goto, remote, Others, Untouched
    <2>2. data'[d].damage = rvault.damage /\ rvault # None
      BY <1>1, <1>3, <2>1, CryptoKeepsDamage, SyncAssumption
    <2>3. WholeInv(d)' /\ Whole(rvault)'
      BY <1>1, <2>1, <2>2 DEF WholeInv, Whole, Recorded
    <2>4. QED
      BY <2>1, <2>3 DEF StaysWhole
  <1>4. QED
    BY <1>2, <1>3

(* Writes tear the vault of the device that writes, and fill it whole. *)
LEMMA WriteWhole ==
    ASSUME IInv, NEW d \in Device, WholeInv(d), Whole(rvault), 
           BeginWrite(d) \/ FinishWrite(d)
    PROVE  StaysWhole(d)
  <1>1. WholeInv(d) /\ Whole(rvault) /\ TypeOK
    BY DEF IInv
  <1>2. CASE BeginWrite(d)
    <2>1. /\ Others(d) /\ UNCHANGED <<backup, state, rvault, data, st>>
          /\ pc'[d] = "writing" /\ local'[d] = Tear(data[d])
      BY <1>1, <1>2 DEF TypeOK, BeginWrite, Goto, remote, Others, Untouched
    <2>2. WholeInv(d)' /\ Whole(rvault)'
      BY <1>1, <2>1 DEF WholeInv, Whole, Recorded
    <2>3. QED
      BY <2>1, <2>2 DEF StaysWhole
  <1>3. CASE FinishWrite(d)
    <2>1. /\ Others(d) /\ UNCHANGED <<state, rvault, data>>
          /\ pc[d] = "writing" /\ pc'[d] = "persist"
          /\ local'[d] = IF local[d] = Tear(data[d]) THEN data[d] ELSE local[d]
          /\ backup'[d] \in {backup[d], None}
          /\ st'[d] = [local |-> data[d], remote |-> man[d]]
      BY <1>1, <1>3 DEF TypeOK, FinishWrite, Fill, RecordSync, Goto, remote,
                        Others, Untouched
    <2>2. WholeInv(d)' /\ Whole(rvault)'
      BY <1>1, <2>1 DEF WholeInv, Whole, Recorded
    <2>3. QED
      BY <2>1, <2>2 DEF StaysWhole
  <1>4. QED
    BY <1>2, <1>3

LEMMA RestoreWhole ==
    ASSUME IInv, NEW d \in Device, WholeInv(d), Whole(rvault), 
           BeginRestore(d) \/ FinishRestore(d)
    PROVE  StaysWhole(d)
  <1>1. WholeInv(d) /\ Whole(rvault) /\ TypeOK
    BY DEF IInv
  <1>2. CASE BeginRestore(d) /\ backup[d] = None
    <2>1. /\ End(d) /\ UNCHANGED <<local, backup, state, rvault>>
          /\ pc[d] = "restore"
      BY <1>2 DEF BeginRestore, remote
    <2>2. Others(d) /\ pc'[d] = "idle" /\ data'[d] = None /\ st'[d] = None
      BY <1>1, <2>1, EndFrame DEF Others, Untouched
    <2>3. QED
      BY <2>1, <2>2, NoBytesMoved
  <1>3. CASE BeginRestore(d) /\ backup[d] # None
    <2>1. /\ Others(d) /\ UNCHANGED <<backup, state, rvault, st>>
          /\ pc'[d] = "restoring" /\ data'[d] = backup[d]
          /\ local'[d] = Tear(backup[d])
      BY <1>1, <1>3 DEF TypeOK, BeginRestore, Goto, remote, Others, Untouched
    <2>2. WholeInv(d)' /\ Whole(rvault)'
      BY <1>1, <1>3, <2>1 DEF WholeInv, Whole, Recorded
    <2>3. QED
      BY <2>1, <2>2 DEF StaysWhole
  <1>4. CASE FinishRestore(d)
    <2>1. /\ UNCHANGED <<state, rvault>> /\ End(d)
          /\ \A e \in Device \ {d} : local'[e] = local[e] /\ backup'[e] = backup[e]
          /\ local'[d] = IF local[d] = Tear(data[d]) THEN data[d] ELSE local[d]
          /\ backup'[d] = None
      BY <1>1, <1>4 DEF TypeOK, FinishRestore, Fill, remote
    <2>2. Others(d) /\ pc'[d] = "idle" /\ data'[d] = None /\ st'[d] = None
      BY <1>1, <2>1, EndFrame DEF Others, Untouched
    <2>3. WholeInv(d)' /\ Whole(rvault)'
      BY <1>1, <2>1, <2>2 DEF WholeInv, Whole, Recorded
    <2>4. QED
      BY <2>2, <2>3 DEF StaysWhole
  <1>5. QED
    BY <1>2, <1>3, <1>4

LEMMA PersistWhole ==
    ASSUME IInv, NEW d \in Device, WholeInv(d), Whole(rvault), PersistState(d)
    PROVE  StaysWhole(d)
  <1>1. WholeInv(d) /\ Whole(rvault) /\ TypeOK
    BY DEF IInv
  <1>2. /\ UNCHANGED <<local, backup, rvault>> /\ End(d) /\ pc[d] = "persist"
        /\ state'[d] \in {state[d], st[d]}
        /\ \A e \in Device \ {d} : state'[e] = state[e]
    BY <1>1 DEF TypeOK, PersistState, remote
  <1>3. Others(d) /\ pc'[d] = "idle" /\ data'[d] = None /\ st'[d] = None
    BY <1>1, <1>2, EndFrame DEF Others, Untouched
  <1>4. WholeInv(d)' /\ Whole(rvault)'
    BY <1>1, <1>2, <1>3 DEF WholeInv, Whole, Recorded
  <1>5. QED
    BY <1>3, <1>4 DEF StaysWhole

LEMMA EditWhole ==
    ASSUME IInv, NEW d \in Device, WholeInv(d), Whole(rvault), EditVault(d)
    PROVE  StaysWhole(d)
  <1>1. WholeInv(d) /\ Whole(rvault) /\ TypeOK
    BY DEF IInv
  <1>2. /\ Others(d) /\ UNCHANGED <<backup, state, rvault, pc, data, st>>
        /\ local'[d] = Plain(edits + 1)
    BY <1>1 DEF TypeOK, EditVault, remote, proc, Others, Untouched
  <1>3. Whole(local'[d])
    BY <1>2 DEF Whole, Plain
  <1>4. WholeInv(d)' /\ Whole(rvault)'
    BY <1>1, <1>2, <1>3 DEF WholeInv, Whole, Recorded
  <1>5. QED
    BY <1>2, <1>4 DEF StaysWhole

LEMMA ProceedWhole ==
    ASSUME IInv, NEW d \in Device, WholeInv(d), Whole(rvault), Proceed(d)
    PROVE  StaysWhole(d)
  BY FetchWhole, UploadWhole, DownloadWhole, WriteWhole, RestoreWhole,
     PersistWhole DEF Proceed

(* Which steps are faults, and which of the rest start a command. *)
LEMMA ProceedFrame ==
    ASSUME IInv, NEW d \in Device, Proceed(d)
    PROVE  pc[d] # "idle" /\ UNCHANGED <<faults, lapsed>>
  <1>1. CASE Fetch(d)
    BY <1>1, FetchFrame DEF counts
  <1>2. QED
    BY <1>1 DEF Proceed, UploadVault, UploadManifest, DownloadVault,
       BeginWrite, FinishWrite, PersistState, BeginRestore, FinishRestore,
       counts

FaultStep(d) ==
    \/ BackupFails(d) \/ CopyFails(d) \/ WriteFails(d)
    \/ WriteAndRestoreFail(d) \/ RemoveFails(d) \/ RequestFails(d) \/ Crash(d)

LEMMA FaultFrame ==
    ASSUME IInv, NEW d \in Device, FaultStep(d)
    PROVE  faults' \in {faults + 1, faults + 2}
  BY DEF FaultStep, BackupFails, CopyFails, WriteFails, WriteAndRestoreFail,
         RemoveFails, RequestFails, Crash, Fault

LEMMA StartFrame ==
    ASSUME IInv, NEW d \in Device, Start(d)
    PROVE  pc[d] = "idle" /\ faults' = faults /\ (lapsed' <=> lapsed \/ faults > 0)
  BY DEF Start, StartPush, StartPull, StartSync, CanStart, Begin, Lapse

LEMMA NextDamage == IInv /\ DamageInv /\ [Next]_vars => DamageInv'
  <1> SUFFICES ASSUME IInv, DamageInv, [Next]_vars, faults' = 0
               PROVE  DamageInv'
    BY DEF DamageInv
  <1>1. faults \in Nat
    BY DEF IInv, TypeOK
  <1>2. ASSUME NEW d \in Device
        PROVE  ~FaultStep(d)
    BY <1>1, FaultFrame
  <1>3. CASE Next
    <2>1. PICK d \in Device : EditVault(d) \/ Start(d) \/ Proceed(d)
      BY <1>2, <1>3 DEF Next, FaultStep
    <2>2. faults = 0
      BY <2>1, ProceedFrame, StartFrame DEF EditVault
    <2>3. Whole(rvault) /\ \A e \in Device : WholeInv(e)
      BY <2>2 DEF DamageInv
    <2>4. StaysWhole(d)
      BY <2>1, <2>3, EditWhole, StartWhole, ProceedWhole
    <2>5. \A e \in Device \ {d} : WholeInv(e)'
      BY <2>3, <2>4, OthersWhole DEF StaysWhole
    <2>6. QED
      BY <2>4, <2>5 DEF DamageInv, StaysWhole
  <1>4. CASE UNCHANGED vars
    BY <1>4 DEF vars, disk, remote, proc, counts, DamageInv, WholeInv
  <1>5. QED
    BY <1>3, <1>4

LEMMA AlwaysDamageInv == Spec => []DamageInv
  <1>1. Init => DamageInv
    BY DEF Init, DamageInv, WholeInv, Whole, Recorded
  <1>2. IInv /\ DamageInv /\ [Next]_vars => DamageInv'
    BY NextDamage
  <1>3. QED
    BY <1>1, <1>2, AlwaysInv, PTL DEF Spec

(* Until something fails, a damaged vault is only ever the one that a pull *)
(* is filling: none is backed up, uploaded, downloaded or recorded.        *)
THEOREM DamageComesFromFaults == Spec => []DamageNeedsFault
  <1>1. DamageInv => DamageNeedsFault
    BY DEF DamageInv, DamageNeedsFault, WholeInv
  <1>2. QED
    BY <1>1, AlwaysDamageInv, PTL

(* After one fault: the device it struck has a copy of its vault, and the  *)
(* commands that go on, its own error handling too, move only whole bytes. *)
Spared(d) == IF pc[d] = "idle" THEN HasCopy(d) ELSE WholeInv(d)

LossInv ==
    faults = 1 /\ ~lapsed => Whole(rvault) /\ \A d \in Device : Spared(d)

LEMMA OneDeviceSpared ==
    ASSUME NEW d \in Device, Others(d), Whole(rvault)', Spared(d)',
           \A e \in Device : Spared(e)
    PROVE  LossInv'
  <1>1. ASSUME NEW e \in Device, e # d
        PROVE  Spared(e)'
    BY <1>1, OthersWhole DEF Others, Untouched, Spared, HasCopy
  <1>2. QED
    BY <1>1 DEF LossInv

LEMMA WholeIsSpared ==
    ASSUME NEW d \in Device, WholeInv(d)
    PROVE  Spared(d)
  BY DEF WholeInv, Spared, HasCopy

LEMMA StaysSpared ==
    ASSUME NEW d \in Device, StaysWhole(d)
    PROVE  Spared(d)'
  BY DEF StaysWhole, WholeInv, Spared, HasCopy

(* What the first fault leaves on the device it strikes. *)
LEMMA BackupFailsSpares ==
    ASSUME IInv, NEW d \in Device, WholeInv(d), BackupFails(d)
    PROVE  Others(d) /\ rvault' = rvault /\ Spared(d)'
  <1>1. /\ Others(d) /\ UNCHANGED <<local, rvault, pc>> /\ pc[d] = "idle"
    BY DEF BackupFails, CanStart, remote, proc, Others, Untouched, IInv, TypeOK
  <1>2. QED
    BY <1>1 DEF WholeInv, Spared, HasCopy

LEMMA CopyFailsSpares ==
    ASSUME IInv, NEW d \in Device, WholeInv(d), CopyFails(d), ~lapsed'
    PROVE  Others(d) /\ rvault' = rvault /\ Spared(d)'
  <1>1. End(d) /\ UNCHANGED <<local, rvault, state>> /\ pc[d] = "download"
    <2>1. pc'[d] # "restore"
      BY DEF CopyFails, Lapse
    <2>2. End(d)
      BY <2>1, GotoFrame DEF CopyFails, Fail, IInv
    <2>3. QED
      BY <2>2 DEF CopyFails, remote
  <1>2. \A e \in Device \ {d} : backup'[e] = backup[e]
    BY DEF CopyFails, IInv, TypeOK
  <1>3. Others(d) /\ pc'[d] = "idle"
    BY <1>1, <1>2, EndFrame DEF IInv, Others, Untouched
  <1>4. QED
    BY <1>1, <1>3 DEF WholeInv, Spared, HasCopy

LEMMA WriteFailsSpares ==
    ASSUME IInv, NEW d \in Device, WholeInv(d), WriteFails(d), ~lapsed'
    PROVE  Others(d) /\ rvault' = rvault /\ Spared(d)'
  <1>1. End(d) /\ UNCHANGED <<state, rvault>> /\ pc[d] \in {"write", "writing"}
    BY DEF WriteFails, remote
  <1>2. /\ \A e \in Device \ {d} : local'[e] = local[e] /\ backup'[e] = backup[e]
        /\ \/ local'[d] = backup[d]
           \/ local'[d] = local[d] /\ pc[d] = "write"
    BY DEF WriteFails, Lapse, FirstVaultFails, IInv, TypeOK
  <1>3. Others(d) /\ pc'[d] = "idle"
    BY <1>1, <1>2, EndFrame DEF IInv, Others, Untouched
  <1>4. QED
    BY <1>1, <1>2, <1>3 DEF WholeInv, Spared, HasCopy

LEMMA RemoveFailsSpares ==
    ASSUME IInv, NEW d \in Device, WholeInv(d), RemoveFails(d)
    PROVE  Others(d) /\ rvault' = rvault /\ Spared(d)'
  <1>1. /\ Fail(d) \/ End(d)
        /\ UNCHANGED <<backup, state, rvault>>
        /\ pc[d] \in {"writing", "restoring"}
        /\ local'[d] = IF local[d] = Tear(data[d]) THEN data[d] ELSE local[d]
        /\ \A e \in Device \ {d} : local'[e] = local[e]
    BY DEF RemoveFails, Fill, remote, IInv, TypeOK
  <1>2. Whole(local'[d])
    BY <1>1 DEF WholeInv
  <1>3. /\ Others(d) /\ pc'[d] \in {"idle", "restore"}
        /\ data'[d] \in {data[d], None} /\ st'[d] \in {st[d], None}
    BY <1>1, FailFrame, EndFrame DEF IInv, Others, Untouched
  <1>4. QED
    BY <1>1, <1>2, <1>3 DEF WholeInv, Whole, Recorded, Spared, HasCopy

LEMMA RequestFailsSpares ==
    ASSUME IInv, NEW d \in Device, WholeInv(d), Whole(rvault), RequestFails(d)
    PROVE  Others(d) /\ rvault' = rvault /\ Spared(d)'
  <1>1. /\ Fail(d) /\ UNCHANGED <<local, backup, state, rvault>>
        /\ pc[d] \notin {"writing", "restoring"}
    BY DEF RequestFails, disk, remote
  <1>2. Others(d)
    BY <1>1, FailFrame DEF Others, Untouched
  <1>3. StaysWhole(d)
    BY <1>1, <1>2, FailFrame, NoBytesMoved
  <1>4. QED
    BY <1>1, <1>2, <1>3, StaysSpared

LEMMA CrashSpares ==
    ASSUME IInv, NEW d \in Device, WholeInv(d), Crash(d), ~lapsed'
    PROVE  Others(d) /\ rvault' = rvault /\ Spared(d)'
  <1>1. /\ End(d) /\ UNCHANGED <<local, backup, rvault>>
        /\ \A e \in Device \ {d} : state'[e] = state[e]
        /\ ~FirstVaultFails(d)
    BY DEF Crash, Lapse, remote, IInv, TypeOK
  <1>2. Others(d) /\ pc'[d] = "idle"
    BY <1>1, EndFrame DEF IInv, Others, Untouched
  <1>3. HasCopy(d)
    BY <1>1 DEF WholeInv, HasCopy, FirstVaultFails, IInv, DeviceInv, HoldsOperands
  <1>4. QED
    BY <1>1, <1>2, <1>3 DEF Spared, HasCopy

LEMMA NextLoss == IInv /\ DamageInv /\ LossInv /\ [Next]_vars => LossInv'
  <1> SUFFICES ASSUME IInv, DamageInv, LossInv, [Next]_vars, faults' = 1, ~lapsed'
               PROVE  LossInv'
    BY DEF LossInv
  <1>1. faults \in Nat
    BY DEF IInv, TypeOK
  <1>2. ASSUME NEW d \in Device, FaultStep(d)
        PROVE  LossInv'
    <2>1. faults = 0 /\ ~WriteAndRestoreFail(d)
      BY <1>1, <1>2, FaultFrame DEF WriteAndRestoreFail
    <2>2. Whole(rvault) /\ \A e \in Device : WholeInv(e)
      BY <2>1 DEF DamageInv
    <2>3. Others(d) /\ rvault' = rvault /\ Spared(d)'
      BY <1>2, <2>1, <2>2, BackupFailsSpares, CopyFailsSpares, WriteFailsSpares,
         RemoveFailsSpares, RequestFailsSpares, CrashSpares DEF FaultStep
    <2>4. \A e \in Device : Spared(e)
      BY <2>2, WholeIsSpared
    <2>5. QED
      BY <2>2, <2>3, <2>4, OneDeviceSpared DEF Whole
  <1>3. ASSUME NEW d \in Device, Proceed(d)
        PROVE  LossInv'
    <2>1. pc[d] # "idle" /\ Whole(rvault) /\ \A e \in Device : Spared(e)
      BY <1>3, ProceedFrame DEF LossInv
    <2>2. StaysWhole(d)
      BY <1>3, <2>1, ProceedWhole DEF Spared
    <2>3. QED
      BY <2>1, <2>2, StaysSpared, OneDeviceSpared DEF StaysWhole
  <1>4. ASSUME NEW d \in Device, EditVault(d)
        PROVE  LossInv'
    <2>1. /\ Others(d) /\ UNCHANGED <<rvault, pc>> /\ Whole(local'[d])
          /\ faults = 1 /\ ~lapsed
      BY <1>4 DEF EditVault, remote, proc, Others, Untouched, IInv, TypeOK,
                  Plain, Whole
    <2>2. Whole(rvault) /\ \A e \in Device : Spared(e)
      BY <2>1 DEF LossInv
    <2>3. Spared(d)'
      <3>1. CASE pc[d] = "idle"
        BY <2>1, <3>1 DEF Spared, HasCopy
      <3>2. CASE pc[d] # "idle"
        BY <1>4, <2>2, <3>2, EditWhole, StaysSpared DEF Spared
      <3>3. QED
        BY <3>1, <3>2
    <2>4. QED
      BY <2>1, <2>2, <2>3, OneDeviceSpared DEF Whole
  <1>5. ASSUME NEW d \in Device, Start(d)
        PROVE  FALSE
    BY <1>5, StartFrame
  <1>6. CASE UNCHANGED vars
    BY <1>6 DEF vars, disk, remote, proc, counts, LossInv, Spared, HasCopy,
                WholeInv
  <1>7. QED
    BY <1>2, <1>3, <1>4, <1>5, <1>6 DEF Next, FaultStep

(* One fault, and what its command does about it, leave a whole copy of    *)
(* every vault on disk until another command starts, unless the fault was  *)
(* in the copy itself, under a pull, or in the first vault of a device.    *)
THEOREM OneFaultSparesACopy == Spec => []OneFaultLeavesACopy
  <1>1. Init => LossInv
    BY DEF Init, LossInv
  <1>2. IInv /\ DamageInv /\ LossInv /\ [Next]_vars => LossInv'
    BY NextLoss
  <1>3. IInv /\ DamageInv /\ LossInv => OneFaultLeavesACopy
    <2> SUFFICES ASSUME IInv, DamageInv, LossInv, faults <= 1, ~lapsed,
                        NEW d \in Device
                 PROVE  HasCopy(d) \/ FirstVaultFails(d)
      BY DEF OneFaultLeavesACopy
    <2>1. HasCopy(d) \/ WholeInv(d)
      BY DEF IInv, TypeOK, DamageInv, LossInv, Spared
    <2>2. QED
      BY <2>1 DEF WholeInv, HasCopy, FirstVaultFails, IInv, DeviceInv,
                  HoldsOperands
  <1>4. QED
    BY <1>1, <1>2, <1>3, AlwaysInv, AlwaysDamageInv, PTL DEF Spec

(***************************************************************************)
(* One command at a time, no edit meanwhile, no failure                    *)
(***************************************************************************)

(* With a baseline, a remote that moved on is only overwritten by a vault  *)
(* that moved on, and a vault that moved on only by a remote that did.     *)
MayUpload(d) ==
    st[d] # None /\ rman \notin {None, st[d].remote} => local[d] # st[d].local

MayDownload(d, vault) ==
    st[d] # None /\ vault # st[d].local => rman # st[d].remote

(* Nothing moves while a command runs but by that command, so what it      *)
(* learnt from a manifest or from the vault file stays true until it acts. *)
CommandInv(d) ==
    /\ \/ pc[d] = "fetch" /\ cmd[d] # "pull"
       \/ pc[d] \in {"pushFetch", "uploadVault", "uploadManifest"}
       => data[d] = local[d]
    /\ pc[d] = "pushFetch" => st[d] # None /\ st[d].remote = rman
    /\ pc[d] = "pullFetch" => st[d] # None /\ st[d].local = local[d] /\ rman # None
    /\ pc[d] \in {"uploadManifest", "download", "write", "writing"}
       => man[d] = rvault
    /\ pc[d] = "uploadVault" /\ cmd[d] \in {"push", "KeepRemote"} /\ st[d] # None
       => rvault \in {None, st[d].remote}
    /\ pc[d] \in {"download", "write"} /\ cmd[d] \in {"pull", "KeepLocal"}
       /\ st[d] # None
       => local[d] = st[d].local
    /\ pc[d] \in {"uploadVault", "uploadManifest"} => MayUpload(d)
    /\ pc[d] \in {"download", "write"} => MayDownload(d, local[d])
    /\ pc[d] = "writing" => local[d] = Tear(data[d])
    /\ pc[d] = "persist" /\ st[d] # None
       => local[d] = st[d].local /\ rvault = st[d].remote /\ rman = rvault
    /\ Recorded(state[d]) \/ Recorded(st[d]) => local[d] # None

OneCommand ==
    \A d, e \in Device : pc[d] # "idle" /\ pc[e] # "idle" => d = e

SerialInv ==
    /\ OneCommand
    /\ ManifestMatchesVault
    /\ \A d \in Device : CommandInv(d)

-----------------------------------------------------------------------------
(* What a serial step does is a step of Spec. *)
LEMMA SerialIsNext == [SerialNext]_vars => [Next]_vars
  BY DEF SerialNext, Next

LEMMA AlwaysIInv == SerialSpec => []IInv
  <1>1. Init => IInv
    BY InitInv
  <1>2. IInv /\ [SerialNext]_vars => IInv'
    BY SerialIsNext, NextInv
  <1>3. QED
    BY <1>1, <1>2, PTL DEF SerialSpec

(* The device that moves is the only one with a command. *)
Alone(d) == \A e \in Device \ {d} : pc[e] = "idle"

LEMMA OneDeviceSerial ==
    ASSUME SerialInv, NEW d \in Device, Alone(d), Others(d), CommandInv(d)',
           ManifestMatchesVault'
    PROVE  SerialInv'
  <1>1. \A e \in Device \ {d} : pc'[e] = "idle"
    BY DEF Alone, Others, Untouched
  <1>2. OneCommand'
    BY <1>1 DEF OneCommand
  <1>3. ASSUME NEW e \in Device, e # d
        PROVE  CommandInv(e)'
    BY <1>1, <1>3 DEF SerialInv, Others, Untouched, CommandInv
  <1>4. QED
    BY <1>2, <1>3 DEF SerialInv

(* Between its uploads no command leaves the manifest behind. *)
LEMMA ManifestIsCurrent ==
    ASSUME SerialInv, NEW d \in Device, Alone(d), pc[d] # "uploadManifest"
    PROVE  rman = rvault
  BY DEF SerialInv, ManifestMatchesVault, Alone

-----------------------------------------------------------------------------
(* The ways on from a manifest, and what a command must know to take them. *)
LEMMA FailKeepsCommandInv ==
    ASSUME IInv, NEW d \in Device, CommandInv(d), Fail(d), UNCHANGED <<local, state>>
    PROVE  CommandInv(d)'
  <1>1. pc'[d] \in {"idle", "restore"} /\ st'[d] \in {st[d], None}
    BY FailFrame
  <1>2. QED
    BY <1>1 DEF CommandInv, Recorded

LEMMA UploadKeepsCommandInv ==
    ASSUME IInv, NEW d \in Device, CommandInv(d), data[d] = local[d],
           pc' = [pc EXCEPT ![d] = "uploadVault"], data'[d] = data[d],
           UNCHANGED <<local, state, rvault, rman, cmd, st>>,
           cmd[d] \in {"push", "KeepRemote"} /\ st[d] # None
           => rvault \in {None, st[d].remote},
           MayUpload(d)
    PROVE  CommandInv(d)'
  <1>1. pc'[d] = "uploadVault"
    BY DEF IInv, TypeOK
  <1>2. QED
    BY <1>1 DEF CommandInv, MayUpload, Recorded

LEMMA DownloadKeepsCommandInv ==
    ASSUME IInv, NEW d \in Device, CommandInv(d), rman = rvault, DownloadNext(d),
           UNCHANGED <<local, state, rvault, rman>>,
           cmd[d] \in {"pull", "KeepLocal"} /\ st[d] # None
           => local[d] = st[d].local,
           MayDownload(d, local[d])
    PROVE  CommandInv(d)'
  <1>1. /\ pc'[d] = "download" /\ man'[d] = rman
        /\ cmd' = cmd /\ st' = st
    BY DEF IInv, TypeOK, DownloadNext, Goto
  <1>2. QED
    BY <1>1 DEF CommandInv, MayDownload, Recorded

LEMMA UpToDateKeepsCommandInv ==
    ASSUME IInv, NEW d \in Device, CommandInv(d), UpToDate(d),
           UNCHANGED <<local, state, rvault, rman>>,
           st[d] # None
           => local[d] = st[d].local /\ rvault = st[d].remote /\ rman = rvault
    PROVE  CommandInv(d)'
  <1>1. pc'[d] = "persist" /\ st' = st
    BY DEF IInv, TypeOK, UpToDate, Goto
  <1>2. QED
    BY <1>1 DEF CommandInv, Recorded

(* A fetch takes only the ways its command may take. *)
LEMMA FetchSerial ==
    ASSUME IInv, SerialInv, NEW d \in Device, Alone(d), Fetch(d)
    PROVE  SerialInv'
  <1>1. /\ TypeOK /\ HoldsOperands(d) /\ CommandInv(d)
        /\ Others(d) /\ UNCHANGED <<local, backup, state, rvault, rman>>
        /\ pc[d] \in {"fetch", "pushFetch", "pullFetch"}
        /\ pc'[d] \in {"idle", "restore", "uploadVault", "download", "persist",
                      "pushFetch", "pullFetch"}
    BY FetchFrame DEF IInv, DeviceInv, SerialInv
  <1>2. rman = rvault
    BY <1>1, ManifestIsCurrent
  <1>3. ManifestMatchesVault'
    BY <1>1, <1>2 DEF ManifestMatchesVault
  <1>4. st[d] # None => Recorded(st[d]) /\ local[d] # None
    <2>1. st[d] # Garbled
      BY <1>1, SyncAssumption DEF TypeOK
    <2>2. QED
      BY <1>1, <2>1 DEF CommandInv, Recorded
  <1>5. CommandInv(d)'
    <2>1. CASE Fail(d)
      BY <1>1, <2>1, FailKeepsCommandInv
    <2>2. CASE PushFetch(d) /\ ~Fail(d)
      <3>1. /\ pc[d] = "fetch" /\ cmd[d] = "push" /\ data[d] = local[d]
            /\ rman = None \/ ~CheckPushConflict(data[d], rman, st[d])
            /\ pc' = [pc EXCEPT ![d] = "uploadVault"] /\ UNCHANGED <<cmd, st, data>>
        BY <1>1, <2>2 DEF PushFetch, CommandInv, Goto
      <3>2. (st[d] # None => rvault \in {None, st[d].remote}) /\ MayUpload(d)
        BY <1>2, <3>1 DEF CheckPushConflict, RemoteChanged, MayUpload
      <3>3. QED
        BY <1>1, <3>1, <3>2, UploadKeepsCommandInv
    <2>3. CASE PullFetch(d) /\ ~Fail(d)
      <3>1. /\ pc[d] = "fetch" /\ cmd[d] = "pull" /\ DownloadNext(d)
            /\ ~CheckPullConflict(local[d], st[d])
        BY <2>3 DEF PullFetch, DownloadNext
      <3>2. (st[d] # None => local[d] = st[d].local) /\ MayDownload(d, local[d])
        BY <3>1 DEF CheckPullConflict, LocalChanged, MayDownload
      <3>3. QED
        BY <1>1, <1>2, <3>1, <3>2, DownloadKeepsCommandInv
    <2>4. CASE SyncFetchFirst(d) /\ ~Fail(d)
      <3>1. data[d] = local[d] /\ cmd[d] \in Strategies
        BY <1>1, <2>4 DEF SyncFetchFirst, CommandInv
      <3>2. CASE data[d] = None /\ DownloadNext(d)
        BY <1>1, <1>2, <1>4, <3>1, <3>2, DownloadKeepsCommandInv DEF MayDownload
      <3>3. CASE rman = None /\ Upload(d, data[d])
        <4>1. pc' = [pc EXCEPT ![d] = "uploadVault"] /\ UNCHANGED <<cmd, st>>
              /\ data'[d] = data[d]
          BY <1>1, <3>3 DEF Upload, Goto, TypeOK
        <4>2. QED
          BY <1>1, <1>2, <3>1, <3>3, <4>1, UploadKeepsCommandInv DEF MayUpload
      <3>4. CASE st[d] = None /\ UpToDate(d)
        BY <1>1, <3>4, UpToDateKeepsCommandInv
      <3>5. QED
        BY <2>4, <3>2, <3>3, <3>4 DEF SyncFetchFirst
    <2>5. CASE SyncFetchCompare(d)
      <3>1. /\ data[d] = local[d] /\ cmd[d] \in Strategies
            /\ data[d] # None /\ rman # None /\ st[d] # None
        BY <1>1, <2>5 DEF SyncFetchCompare, CommandInv
      <3>2. CASE /\ ~LocalChanged(st[d], data[d]) /\ ~RemoteChanged(st[d], rman)
                 /\ UpToDate(d)
        BY <1>1, <1>2, <3>1, <3>2, UpToDateKeepsCommandInv
           DEF LocalChanged, RemoteChanged
      <3>3. CASE /\ ~RemoteChanged(st[d], rman) /\ Goto(d, "pushFetch")
                 /\ data' = [data EXCEPT ![d] = local[d]] /\ UNCHANGED st
        <4>1. pc'[d] = "pushFetch" /\ data'[d] = local[d] /\ st[d].remote = rman
          BY <1>1, <3>3 DEF TypeOK, Goto, RemoteChanged
        <4>2. QED
          BY <1>1, <1>4, <3>1, <3>3, <4>1 DEF CommandInv, Recorded
      <3>4. CASE /\ ~LocalChanged(st[d], data[d]) /\ Goto(d, "pullFetch")
                 /\ UNCHANGED st
        <4>1. pc'[d] = "pullFetch" /\ st[d].local = local[d]
          BY <1>1, <3>1, <3>4 DEF TypeOK, Goto, LocalChanged
        <4>2. QED
          BY <1>1, <1>4, <3>1, <3>4, <4>1 DEF CommandInv, Recorded
      <3>5. CASE /\ LocalChanged(st[d], data[d]) /\ RemoteChanged(st[d], rman)
                 /\ SyncOnConflict(d)
        <4> MayUpload(d) /\ MayDownload(d, local[d])
          BY <3>1, <3>5 DEF LocalChanged, RemoteChanged, MayUpload, MayDownload
        <4>1. CASE cmd[d] \in {"KeepLocal", "LastWriteWins"} /\ Upload(d, data[d])
          <5>1. pc' = [pc EXCEPT ![d] = "uploadVault"] /\ UNCHANGED <<cmd, st>>
                /\ data'[d] = data[d]
            BY <1>1, <4>1 DEF Upload, Goto, TypeOK
          <5>2. QED
            BY <1>1, <3>1, <4>1, <5>1, UploadKeepsCommandInv
        <4>2. CASE cmd[d] \in {"KeepRemote", "LastWriteWins"} /\ DownloadNext(d)
          BY <1>1, <1>2, <4>2, DownloadKeepsCommandInv
        <4>3. QED
          BY <3>5, <4>1, <4>2 DEF SyncOnConflict
      <3>6. QED
        BY <2>5, <3>2, <3>3, <3>4, <3>5 DEF SyncFetchCompare
    <2>6. CASE SyncPushFetch(d)
      <3>1. data[d] = local[d] /\ st[d] # None /\ st[d].remote = rman
        BY <1>1, <2>6 DEF SyncPushFetch, CommandInv
      <3>2. Upload(d, data[d])
        BY <2>6, <3>1 DEF SyncPushFetch, CheckPushConflict, RemoteChanged
      <3>3. pc' = [pc EXCEPT ![d] = "uploadVault"] /\ UNCHANGED <<cmd, st>>
            /\ data'[d] = data[d]
        BY <1>1, <3>2 DEF Upload, Goto, TypeOK
      <3>4. QED
        BY <1>1, <1>2, <3>1, <3>3, UploadKeepsCommandInv DEF MayUpload
    <2>7. CASE SyncPullFetch(d)
      <3>1. st[d] # None /\ st[d].local = local[d] /\ rman # None
        BY <1>1, <2>7 DEF SyncPullFetch, CommandInv
      <3>2. DownloadNext(d)
        BY <2>7, <3>1 DEF SyncPullFetch, CheckPullConflict, LocalChanged
      <3>3. QED
        BY <1>1, <1>2, <3>1, <3>2, DownloadKeepsCommandInv DEF MayDownload
    <2>8. QED
      BY <2>1, <2>2, <2>3, <2>4, <2>5, <2>6, <2>7 DEF Fetch
  <1>6. QED
    BY <1>1, <1>3, <1>5, OneDeviceSerial

(* Edits and new commands come when nothing runs. *)
LEMMA QuietSerial ==
    ASSUME IInv, SerialInv, NEW d \in Device, Quiet, EditVault(d) \/ Start(d)
    PROVE  SerialInv'
  <1>1. /\ TypeOK /\ CommandInv(d) /\ Alone(d) /\ pc[d] = "idle" /\ rman = rvault
    BY DEF IInv, SerialInv, Quiet, Alone, ManifestMatchesVault
  <1>2. CASE EditVault(d)
    <2>1. /\ Others(d) /\ UNCHANGED <<state, rvault, rman, pc, cmd, st, data, man>>
          /\ local'[d] = Plain(edits + 1)
      BY <1>1, <1>2 DEF TypeOK, EditVault, remote, proc, Others, Untouched
    <2>2. Plain(edits + 1) # None
      <3>1. Plain(edits + 1) \in Bytes
        BY <1>1 DEF TypeOK, Plain, Bytes
      <3>2. QED
        BY <3>1, SyncAssumption
    <2>3. CommandInv(d)' /\ ManifestMatchesVault'
      BY <1>1, <2>1, <2>2 DEF CommandInv, ManifestMatchesVault
    <2>4. QED
      BY <1>1, <2>1, <2>3, OneDeviceSerial
  <1>3. CASE Start(d)
    <2>1. /\ Others(d) /\ UNCHANGED <<local, state, rvault, rman>>
          /\ pc'[d] = "fetch" /\ st'[d] = state[d]
          /\ cmd'[d] = "pull" \/ data'[d] = local[d]
      BY <1>1, <1>3 DEF TypeOK, Start, StartPush, StartPull, StartSync, CanStart,
                        Begin, Goto, disk, remote, Others, Untouched
    <2>2. CommandInv(d)' /\ ManifestMatchesVault'
      BY <1>1, <2>1 DEF CommandInv, ManifestMatchesVault
    <2>3. QED
      BY <1>1, <2>1, <2>2, OneDeviceSerial
  <1>4. QED
    BY <1>2, <1>3

LEMMA UploadSerial ==
    ASSUME IInv, SerialInv, NEW d \in Device, Alone(d),
           UploadVault(d) \/ UploadManifest(d)
    PROVE  SerialInv'
  <1>1. TypeOK /\ CommandInv(d)
    BY DEF IInv, SerialInv
  <1>2. CASE UploadVault(d)
    <2>1. /\ Others(d) /\ UNCHANGED <<local, state, data, st, rman>>
          /\ pc[d] = "uploadVault" /\ pc'[d] = "uploadManifest"
          /\ man'[d] = rvault'
      BY <1>1, <1>2 DEF TypeOK, UploadVault, Goto, disk, Others, Untouched
    <2>2. CommandInv(d)' /\ ManifestMatchesVault'
      BY <1>1, <2>1 DEF CommandInv, ManifestMatchesVault, MayUpload
    <2>3. QED
      BY <2>1, <2>2, OneDeviceSerial
  <1>3. CASE UploadManifest(d)
    <2>1. /\ Others(d) /\ UNCHANGED <<local, state, rvault>>
          /\ pc[d] = "uploadManifest" /\ pc'[d] = "persist"
          /\ rman' = man[d] /\ st'[d] = [local |-> data[d], remote |-> man[d]]
          /\ data[d] # None
      BY <1>1, <1>3 DEF TypeOK, UploadManifest, RecordSync, Goto, disk, Others,
                        Untouched, IInv, DeviceInv, HoldsOperands
    <2>2. CommandInv(d)' /\ ManifestMatchesVault'
      BY <1>1, <2>1 DEF CommandInv, ManifestMatchesVault
    <2>3. QED
      BY <2>1, <2>2, OneDeviceSerial
  <1>4. QED
    BY <1>2, <1>3

LEMMA DownloadSerial ==
    ASSUME IInv, SerialInv, NEW d \in Device, Alone(d), DownloadVault(d)
    PROVE  SerialInv'
  <1>1. /\ TypeOK /\ CommandInv(d) /\ pc[d] = "download" /\ rman = rvault
        /\ UNCHANGED <<local, state, rvault, rman>>
    BY ManifestIsCurrent DEF IInv, SerialInv, DownloadVault, remote
  <1>2. ManifestMatchesVault'
    BY <1>1 DEF ManifestMatchesVault
  <1>3. CASE Fail(d) /\ UNCHANGED backup
    <2>1. Others(d)
      BY <1>1, <1>3, FailFrame DEF Others, Untouched
    <2>2. QED
      BY <1>1, <1>2, <1>3, <2>1, FailKeepsCommandInv, OneDeviceSerial
  <1>4. CASE rvault = man[d] /\ Decryptable(key[d], rvault)
    <2>1. /\ Others(d) /\ pc'[d] = "write" /\ UNCHANGED <<cmd, st, man>>
      BY <1>1, <1>4 DEF TypeOK, DownloadVault, Goto, Others, Untouched
    <2>2. CommandInv(d)'
      BY <1>1, <2>1 DEF CommandInv, MayDownload
    <2>3. QED
      BY <1>2, <2>1, <2>2, OneDeviceSerial
  <1>5. QED
    BY <1>3, <1>4 DEF DownloadVault

LEMMA WriteSerial ==
    ASSUME IInv, SerialInv, NEW d \in Device, Alone(d),
           BeginWrite(d) \/ FinishWrite(d)
    PROVE  SerialInv'
  <1>1. /\ TypeOK /\ CommandInv(d) /\ rman = rvault
        /\ data[d] \in Bytes /\ Tear(data[d]) \in Bytes /\ None \notin Bytes
    <2>1. /\ TypeOK /\ CommandInv(d) /\ data[d] \in Bytes /\ Unsealed(d, data[d])
          /\ pc[d] # "uploadManifest"
      BY DEF IInv, TypeOK, DeviceInv, HoldsOperands, HoldsPlaintext, SerialInv,
             BeginWrite, FinishWrite
    <2>2. QED
      BY <2>1, TearUnsealed, ManifestIsCurrent, SyncAssumption
  <1>2. CASE BeginWrite(d)
    <2>1. /\ Others(d) /\ UNCHANGED <<state, rvault, rman, data, st, man>>
          /\ pc[d] = "write" /\ pc'[d] = "writing" /\ local'[d] = Tear(data[d])
      BY <1>1, <1>2 DEF TypeOK, BeginWrite, Goto, remote, Others, Untouched
    <2>2. CommandInv(d)' /\ ManifestMatchesVault'
      BY <1>1, <2>1 DEF CommandInv, ManifestMatchesVault
    <2>3. QED
      BY <2>1, <2>2, OneDeviceSerial
  <1>3. CASE FinishWrite(d)
    <2>1. /\ Others(d) /\ UNCHANGED <<state, rvault, rman>>
          /\ pc[d] = "writing" /\ pc'[d] = "persist"
          /\ local'[d] = IF local[d] = Tear(data[d]) THEN data[d] ELSE local[d]
          /\ st'[d] = [local |-> data[d], remote |-> man[d]]
      BY <1>1, <1>3 DEF TypeOK, FinishWrite, Fill, RecordSync, Goto, remote,
                        Others, Untouched
    <2>2. CommandInv(d)' /\ ManifestMatchesVault'
      BY <1>1, <2>1 DEF CommandInv, ManifestMatchesVault
    <2>3. QED
      BY <2>1, <2>2, OneDeviceSerial
  <1>4. QED
    BY <1>2, <1>3

LEMMA EndSerial ==
    ASSUME IInv, SerialInv, NEW d \in Device, Alone(d),
           PersistState(d) \/ BeginRestore(d) \/ FinishRestore(d)
    PROVE  SerialInv'
  <1>1. /\ TypeOK /\ CommandInv(d) /\ rman = rvault /\ UNCHANGED <<rvault, rman>>
    BY ManifestIsCurrent DEF IInv, SerialInv, PersistState, BeginRestore,
                             FinishRestore, remote
  <1>2. ManifestMatchesVault'
    BY <1>1 DEF ManifestMatchesVault
  <1>3. CASE PersistState(d)
    <2>1. /\ UNCHANGED <<local, backup>> /\ End(d)
          /\ state'[d] \in {state[d], st[d]}
          /\ \A e \in Device \ {d} : state'[e] = state[e]
      BY <1>1, <1>3 DEF TypeOK, PersistState
    <2>2. Others(d) /\ pc'[d] = "idle" /\ st'[d] = None
      BY <1>1, <2>1, EndFrame DEF Others, Untouched
    <2>3. CommandInv(d)'
      BY <1>1, <2>1, <2>2 DEF CommandInv, Recorded
    <2>4. QED
      BY <1>2, <2>2, <2>3, OneDeviceSerial
  <1>4. CASE BeginRestore(d) /\ backup[d] = None
    <2>1. End(d) /\ UNCHANGED <<local, backup, state>>
      BY <1>4 DEF BeginRestore
    <2>2. Others(d) /\ pc'[d] = "idle" /\ st'[d] = None
      BY <1>1, <2>1, EndFrame DEF Others, Untouched
    <2>3. CommandInv(d)'
      BY <1>1, <2>1, <2>2 DEF CommandInv, Recorded
    <2>4. QED
      BY <1>2, <2>2, <2>3, OneDeviceSerial
  <1>5. CASE BeginRestore(d) /\ backup[d] # None
    <2>1. /\ Others(d) /\ UNCHANGED <<backup, state, st>>
          /\ pc'[d] = "restoring" /\ local'[d] = Tear(backup[d])
      BY <1>1, <1>5 DEF TypeOK, BeginRestore, Goto, Others, Untouched
    <2>2. local'[d] # None
      <3>1. backup[d] \in Bytes /\ Unsealed(d, backup[d])
        BY <1>1, <1>5 DEF TypeOK, IInv, DeviceInv, HoldsPlaintext
      <3>2. QED
        BY <2>1, <3>1, TearUnsealed, SyncAssumption
    <2>3. CommandInv(d)'
      BY <1>1, <2>1, <2>2 DEF CommandInv
    <2>4. QED
      BY <1>2, <2>1, <2>3, OneDeviceSerial
  <1>6. CASE FinishRestore(d)
    <2>1. /\ UNCHANGED state /\ End(d) /\ data[d] # None
          /\ \A e \in Device \ {d} : local'[e] = local[e] /\ backup'[e] = backup[e]
          /\ local'[d] = IF local[d] = Tear(data[d]) THEN data[d] ELSE local[d]
      BY <1>1, <1>6 DEF TypeOK, FinishRestore, Fill, IInv, DeviceInv,
                        HoldsOperands
    <2>2. Others(d) /\ pc'[d] = "idle" /\ st'[d] = None
      BY <1>1, <2>1, EndFrame DEF Others, Untouched
    <2>3. CommandInv(d)'
      BY <1>1, <2>1, <2>2 DEF CommandInv, Recorded
    <2>4. QED
      BY <1>2, <2>2, <2>3, OneDeviceSerial
  <1>7. QED
    BY <1>3, <1>4, <1>5, <1>6

(* A device that proceeds is in the middle of a command. *)
LEMMA ProceedsAlone ==
    ASSUME SerialInv, NEW d \in Device, Proceed(d)
    PROVE  Alone(d)
  <1>1. pc[d] # "idle"
    BY DEF Proceed, Fetch, PushFetch, PullFetch, SyncFetchFirst, SyncFetchCompare,
           SyncPushFetch, SyncPullFetch, UploadVault, UploadManifest, DownloadVault,
           BeginWrite, FinishWrite, PersistState, BeginRestore, FinishRestore
  <1>2. QED
    BY <1>1 DEF SerialInv, OneCommand, Alone

LEMMA SerialNextInv == IInv /\ SerialInv /\ [SerialNext]_vars => SerialInv'
  <1> SUFFICES ASSUME IInv, SerialInv, [SerialNext]_vars
               PROVE  SerialInv'
    OBVIOUS
  <1>1. ASSUME NEW d \in Device, Proceed(d)
        PROVE  SerialInv'
    BY <1>1, ProceedsAlone, FetchSerial, UploadSerial, DownloadSerial, WriteSerial,
       EndSerial DEF Proceed
  <1>2. CASE UNCHANGED vars
    BY <1>2 DEF vars, disk, remote, proc, counts, SerialInv, OneCommand,
                ManifestMatchesVault, CommandInv, MayUpload, MayDownload
  <1>3. QED
    BY <1>1, <1>2, QuietSerial DEF SerialNext

LEMMA AlwaysSerialInv == SerialSpec => []SerialInv
  <1>1. Init => SerialInv
    BY DEF Init, SerialInv, OneCommand, ManifestMatchesVault, CommandInv, Recorded
  <1>2. IInv /\ SerialInv /\ [SerialNext]_vars => SerialInv'
    BY SerialNextInv
  <1>3. QED
    BY <1>1, <1>2, AlwaysIInv, PTL DEF SerialSpec

(* The manifest announces the vault whenever no push is between its two    *)
(* uploads.                                                                *)
THEOREM ManifestIsUpToDate == SerialSpec => []ManifestMatchesVault
  <1>1. SerialInv => ManifestMatchesVault
    BY DEF SerialInv
  <1>2. QED
    BY <1>1, AlwaysSerialInv, PTL

(* A push never replaces a remote vault that its device did not know. *)
THEOREM PushesAreNotBlind == SerialSpec => []NoBlindOverwrite
  <1>1. SerialInv => NoBlindOverwrite
    BY DEF SerialInv, CommandInv, NoBlindOverwrite
  <1>2. QED
    BY <1>1, AlwaysSerialInv, PTL

(* A pull never replaces a vault that was edited since the last sync. *)
THEOREM PullsKeepEdits == SerialSpec => []PullKeepsEdits
  <1>1. SerialInv => PullKeepsEdits
    BY DEF SerialInv, CommandInv, PullKeepsEdits
  <1>2. QED
    BY <1>1, AlwaysSerialInv, PTL

(* A command that reports success leaves both sides at its baseline. *)
THEOREM SuccessIsInSync == SerialSpec => []SuccessMeansInSync
  <1>1. SerialInv => SuccessMeansInSync
    BY DEF SerialInv, CommandInv, SuccessMeansInSync
  <1>2. QED
    BY <1>1, AlwaysSerialInv, PTL

-----------------------------------------------------------------------------
(* All devices were given one sync key. *)
OneKey == \A d, e \in Device : key[d] # None /\ key[d] = key[e]

(* What the refinement needs besides: a command goes by the baseline on    *)
(* disk until it records another, the bytes it backed up are the vault it  *)
(* found, and what it uploads gets a serial within the bounds.             *)
BytesInv(d) ==
    /\ pc[d] \in {"fetch", "pushFetch", "pullFetch", "uploadVault", "uploadManifest",
                 "download", "write", "writing"}
       => st[d] = state[d]
    /\ pc[d] \in {"fetch", "pushFetch", "pullFetch", "uploadVault"}
       => uploads < MaxUploads
    /\ pc[d] = "uploadManifest" => man[d].n \in 1 .. MaxUploads
    /\ \/ /\ pc[d] \in {"fetch", "pushFetch", "pullFetch", "download"}
          /\ cmd[d] = "pull" /\ saved[d]
       \/ pc[d] = "restore"
       => local[d] # None /\ backup[d] = local[d]
    /\ pc[d] = "write"
       => had[d] = (local[d] # None) /\ (had[d] => backup[d] = local[d])
    /\ pc[d] = "writing" => MayDownload(d, VaultOf(d))
    /\ pc[d] = "restoring" => data[d] = backup[d] /\ local[d] = Tear(data[d])
    /\ rman # None => rman.k = key[d]

RefinementInv == \A d \in Device : BytesInv(d)

(* One device moved, and the abstract state with it or not. *)
LEMMA OneDeviceRefines ==
    ASSUME OneKey, NEW d \in Device, Alone(d), Others(d), BytesInv(d)'
    PROVE  RefinementInv'
  <1>1. ASSUME NEW e \in Device, e # d
        PROVE  BytesInv(e)'
    BY <1>1 DEF OneKey, Alone, Others, Untouched, BytesInv
  <1>2. QED
    BY <1>1 DEF RefinementInv

LEMMA OthersUnmoved ==
    ASSUME NEW d \in Device, Others(d), NEW e \in Device, e # d
    PROVE  VaultOf(e)' = VaultOf(e) /\ BaselineOf(e)' = BaselineOf(e)
  BY DEF Others, Untouched, VaultOf, BaselineOf

LEMMA Unseen ==
    ASSUME NEW d \in Device, Others(d), VaultOf(d)' = VaultOf(d),
           BaselineOf(d)' = BaselineOf(d), UNCHANGED rman
    PROVE  UNCHANGED Abstract!vars
  <1>1. \A e \in Device : VaultOf(e)' = VaultOf(e) /\ BaselineOf(e)' = BaselineOf(e)
    BY OthersUnmoved
  <1>2. QED
    BY <1>1 DEF Abstract!vars

(* Under one key a publication is its blob, and holds what the blob opens  *)
(* to.                                                                     *)
LEMMA PublicationIsBlob ==
    ASSUME OneKey, NEW d \in Device, NEW b \in Bytes
    PROVE  /\ Publication(b) = [vault |-> DecryptVault(key[d], b), serial |-> b.n]
           /\ Publication(b) # None
           /\ \A c \in Bytes : b.k = key[d] /\ c.k = key[d] /\ b # c
                               => Publication(b) # Publication(c)
  <1> DEFINE opened == [b EXCEPT !.k = None, !.n = 0]
  <1>1. opened \in Bytes /\ b.n \in Nat /\ b # None /\ key[d] # None
    BY SyncAssumption DEF Bytes, OneKey
  <1>2. /\ Publication(b) = [vault |-> opened, serial |-> b.n]
        /\ opened = DecryptVault(key[d], b)
    BY <1>1 DEF Publication, DecryptVault
  <1>3. Publication(b) # None
    <2>1. [vault |-> opened, serial |-> b.n] \in [vault : Bytes, serial : Nat]
      BY <1>1
    <2>2. QED
      BY <1>2, <2>1, PublicationAssumption
  <1>4. ASSUME NEW c \in Bytes, b.k = key[d], c.k = key[d],
               Publication(b) = Publication(c)
        PROVE  b = c
    <2>1. Publication(c) = [vault |-> [c EXCEPT !.k = None, !.n = 0], serial |-> c.n]
      BY SyncAssumption DEF Publication
    <2>2. b.n = c.n /\ opened = [c EXCEPT !.k = None, !.n = 0]
      BY <1>2, <1>4, <2>1
    <2>3. b.v = c.v /\ b.damage = c.damage
      <3>1. opened.v = b.v /\ opened.damage = b.damage
        BY DEF Bytes
      <3>2. /\ [c EXCEPT !.k = None, !.n = 0].v = c.v
            /\ [c EXCEPT !.k = None, !.n = 0].damage = c.damage
        BY DEF Bytes
      <3>3. QED
        BY <2>2, <3>1, <3>2
    <2>4. QED
      BY <1>4, <2>2, <2>3 DEF Bytes
  <1>5. QED
    BY <1>2, <1>3, <1>4

(* What a fetch leaves of its own command. *)
LEMMA FetchOwnFrame ==
    ASSUME IInv, NEW d \in Device, Fetch(d)
    PROVE  \/ pc'[d] = "idle"
           \/ /\ UNCHANGED <<cmd, st, saved>>
              /\ pc'[d] = "restore" => cmd[d] = "pull" /\ saved[d]
              /\ pc'[d] \in {"restore", "uploadVault", "download", "persist",
                             "pushFetch", "pullFetch"}
  <1>1. \/ Fail(d) \/ Upload(d, data[d]) \/ DownloadNext(d) \/ UpToDate(d)
        \/ /\ \/ Goto(d, "uploadVault") \/ Goto(d, "pushFetch")
              \/ Goto(d, "pullFetch")
           /\ UNCHANGED <<cmd, st, saved>>
    BY DEF Fetch, PushFetch, PullFetch, SyncFetchFirst, SyncFetchCompare,
           SyncPushFetch, SyncPullFetch, PushOnConflict, PullOnConflict,
           SyncOnConflict, DownloadNext
  <1>2. CASE Fail(d)
    BY <1>2 DEF Fail, End, Goto, IInv, TypeOK
  <1>3. CASE \/ Upload(d, data[d]) \/ DownloadNext(d) \/ UpToDate(d)
             \/ /\ \/ Goto(d, "uploadVault") \/ Goto(d, "pushFetch")
                   \/ Goto(d, "pullFetch")
                /\ UNCHANGED <<cmd, st, saved>>
    BY <1>3 DEF Upload, DownloadNext, UpToDate, Goto, IInv, TypeOK
  <1>4. QED
    BY <1>1, <1>2, <1>3

-----------------------------------------------------------------------------
(* Step by step: what keeps RefinementInv, and what VaultSync sees. *)
LEMMA FetchRefines ==
    ASSUME OneKey, IInv, SerialInv, RefinementInv, NEW d \in Device, Alone(d),
           Fetch(d)
    PROVE  RefinementInv' /\ UNCHANGED Abstract!vars
  <1>1. /\ Others(d) /\ UNCHANGED <<local, backup, state, rvault, rman>>
        /\ pc[d] \in {"fetch", "pushFetch", "pullFetch"}
        /\ BytesInv(d) /\ UNCHANGED uploads
    BY FetchFrame DEF RefinementInv, Fetch, PushFetch, PullFetch, SyncFetchFirst,
                      SyncFetchCompare, SyncPushFetch, SyncPullFetch, counts
  <1>2. st[d] # Garbled
    BY SyncAssumption DEF IInv, TypeOK
  <1>3. BytesInv(d)'
    <2>1. CASE pc'[d] = "idle"
      BY <1>1, <2>1 DEF BytesInv
    <2>2. CASE UNCHANGED <<cmd, st, saved>> /\ pc'[d] # "idle"
      BY <1>1, <2>2, FetchOwnFrame DEF BytesInv
    <2>3. QED
      BY <2>1, <2>2, FetchOwnFrame
  <1>4. VaultOf(d)' = VaultOf(d)
    BY <1>1, FetchOwnFrame DEF VaultOf
  <1>5. BaselineOf(d)' = BaselineOf(d)
    <2>1. CASE pc'[d] # "persist"
      BY <1>1, <2>1 DEF BaselineOf
    <2>2. CASE pc'[d] = "persist"
      BY <1>1, <1>2, <2>2, FetchOwnFrame DEF BaselineOf, BytesInv
    <2>3. QED
      BY <2>1, <2>2
  <1>6. QED
    BY <1>1, <1>3, <1>4, <1>5, Unseen, OneDeviceRefines

LEMMA StartRefines ==
    ASSUME OneKey, IInv, SerialInv, RefinementInv, NEW d \in Device, Alone(d),
           Start(d)
    PROVE  RefinementInv' /\ UNCHANGED Abstract!vars
  <1>1. TypeOK /\ BytesInv(d)
    BY DEF IInv, RefinementInv
  <1>2. /\ Others(d) /\ UNCHANGED <<local, state, rman, uploads>>
        /\ pc[d] = "idle" /\ pc'[d] = "fetch" /\ st'[d] = state[d]
        /\ uploads < MaxUploads
        /\ cmd'[d] = "pull" /\ saved'[d] => local[d] # None /\ backup'[d] = local[d]
    <2>1. CASE StartPush(d)
      BY <1>1, <2>1 DEF TypeOK, StartPush, CanStart, Begin, Goto, disk, remote,
                        counts, Others, Untouched
    <2>2. CASE StartPull(d)
      BY <1>1, <2>2 DEF TypeOK, StartPull, CanStart, Begin, Goto, remote,
                        counts, Others, Untouched
    <2>3. CASE StartSync(d)
      BY <1>1, <2>3 DEF TypeOK, StartSync, CanStart, Begin, Goto, disk, remote,
                        counts, Others, Untouched
    <2>4. QED
      BY <2>1, <2>2, <2>3 DEF Start
  <1>3. BytesInv(d)'
    BY <1>1, <1>2 DEF BytesInv
  <1>4. VaultOf(d)' = VaultOf(d) /\ BaselineOf(d)' = BaselineOf(d)
    BY <1>2 DEF VaultOf, BaselineOf
  <1>5. QED
    BY <1>2, <1>3, <1>4, Unseen, OneDeviceRefines

LEMMA EditRefines ==
    ASSUME OneKey, IInv, SerialInv, RefinementInv, NEW d \in Device, Quiet,
           EditVault(d)
    PROVE  RefinementInv' /\ Abstract!Edit(d)
  <1>1. TypeOK /\ BytesInv(d) /\ Alone(d) /\ pc[d] = "idle"
    BY DEF IInv, RefinementInv, Quiet, Alone
  <1>2. /\ Others(d) /\ UNCHANGED <<state, rman, pc, st>>
        /\ local'[d] = Plain(edits + 1) /\ edits + 1 \in 1 .. MaxEdits
    BY <1>1, SyncAssumption DEF TypeOK, EditVault, remote, proc, Others, Untouched
  <1>3. BytesInv(d)'
    BY <1>1, <1>2 DEF BytesInv
  <1>4. VaultOf(d)' = Plain(edits + 1) /\ BaselineOf(d)' = BaselineOf(d)
    BY <1>1, <1>2 DEF VaultOf, BaselineOf
  <1> DEFINE vaults == [e \in Device |-> VaultOf(e)]
             baselines == [e \in Device |-> BaselineOf(e)]
  <1>5. vaults' = [vaults EXCEPT ![d] = Plain(edits + 1)]
    BY <1>2, <1>4, OthersUnmoved
  <1>6. baselines' = baselines
    BY <1>2, <1>4, OthersUnmoved
  <1>7. Abstract!Edit(d)
    BY <1>2, <1>5, <1>6 DEF Abstract!Edit
  <1>8. QED
    BY <1>1, <1>2, <1>3, <1>7, OneDeviceRefines

LEMMA UploadVaultRefines ==
    ASSUME OneKey, IInv, SerialInv, RefinementInv, NEW d \in Device, Alone(d),
           UploadVault(d)
    PROVE  RefinementInv' /\ UNCHANGED Abstract!vars
  <1>1. TypeOK /\ BytesInv(d) /\ pc[d] = "uploadVault" /\ data[d] \in Bytes
    BY DEF IInv, RefinementInv, UploadVault, DeviceInv, HoldsOperands, TypeOK
  <1>2. /\ Others(d) /\ UNCHANGED <<local, backup, state, st, rman>>
        /\ pc'[d] = "uploadManifest"
        /\ man'[d] = EncryptVault(key[d], data[d], uploads + 1)
    BY <1>1 DEF TypeOK, UploadVault, Goto, disk, Others, Untouched
  <1>3. man'[d].n \in 1 .. MaxUploads
    <2>1. man'[d].n = uploads + 1
      BY <1>1, <1>2 DEF EncryptVault, Bytes, OneKey
    <2>2. QED
      BY <1>1, <2>1, SyncAssumption DEF BytesInv, TypeOK
  <1>4. BytesInv(d)'
    BY <1>1, <1>2, <1>3 DEF BytesInv
  <1>5. VaultOf(d)' = VaultOf(d) /\ BaselineOf(d)' = BaselineOf(d)
    BY <1>1, <1>2 DEF VaultOf, BaselineOf
  <1>6. QED
    BY <1>2, <1>4, <1>5, Unseen, OneDeviceRefines

(* The manifest upload is the moment a push shows. *)
LEMMA UploadManifestRefines ==
    ASSUME OneKey, IInv, SerialInv, RefinementInv, NEW d \in Device, Alone(d),
           UploadManifest(d)
    PROVE  RefinementInv' /\ Abstract!Publish(d)
  <1>1. /\ TypeOK /\ BytesInv(d) /\ CommandInv(d) /\ pc[d] = "uploadManifest"
        /\ data[d] \in Bytes /\ man[d] \in Bytes /\ key[d] # None
        /\ Decryptable(key[d], man[d]) /\ DecryptVault(key[d], man[d]) = data[d]
        /\ Sound(d, state[d])
    BY DEF IInv, RefinementInv, SerialInv, UploadManifest, DeviceInv, BlobOpens,
           HoldsOperands, TypeOK, OneKey
  <1>2. /\ Others(d) /\ UNCHANGED <<local, backup, state>>
        /\ pc'[d] = "persist" /\ rman' = man[d]
        /\ st'[d] = [local |-> data[d], remote |-> man[d]]
    BY <1>1 DEF TypeOK, UploadManifest, RecordSync, Goto, disk, Others, Untouched
  <1>3. local[d] = data[d] /\ st[d] = state[d] /\ MayUpload(d) /\ man[d].k = key[d]
    BY <1>1 DEF CommandInv, BytesInv, Decryptable
  <1>4. st'[d] # None
    BY <1>1, <1>2, SyncAssumption DEF SyncState
  <1>5. RefinementInv'
    <2>1. ASSUME NEW e \in Device
          PROVE  BytesInv(e)'
      <3>1. CASE e = d
        BY <1>2, <1>3, <3>1 DEF BytesInv
      <3>2. CASE e # d
        BY <1>2, <1>3, <3>2 DEF OneKey, Alone, Others, Untouched, BytesInv
      <3>3. QED
        BY <3>1, <3>2
    <2>2. QED
      BY <2>1 DEF RefinementInv
  <1> DEFINE vaults == [e \in Device |-> VaultOf(e)]
             baselines == [e \in Device |-> BaselineOf(e)]
             published == [vault |-> vaults[d], serial |-> man[d].n]
  <1>6. vaults[d] = local[d] /\ vaults' = vaults
    BY <1>1, <1>2, OthersUnmoved DEF VaultOf
  <1>7. Publication(rman)' = published /\ man[d].n \in 1 .. MaxUploads
    <2>1. /\ Publication(man[d])
             = [vault |-> DecryptVault(key[d], man[d]), serial |-> man[d].n]
          /\ man[d].n \in 1 .. MaxUploads
      BY <1>1, PublicationIsBlob DEF BytesInv
    <2>2. Publication(rman)' = Publication(man[d])
      BY <1>2
    <2>3. QED
      BY <1>1, <1>3, <1>6, <2>1, <2>2
  <1>8. baselines' = [baselines EXCEPT ![d] = Publication(rman)']
    <2>1. BaselineOf(d)' = Publication(rman)'
      BY <1>2, <1>4 DEF BaselineOf, Publication
    <2>2. QED
      BY <1>2, <2>1, OthersUnmoved
  <1>9. baselines[d] # None /\ Abstract!RemoteMoved(d) => Abstract!VaultMoved(d)
    <2>1. SUFFICES ASSUME baselines[d] # None, Publication(rman) # None,
                          Publication(rman) # baselines[d]
                   PROVE  vaults[d] # baselines[d].vault
      BY DEF Abstract!RemoteMoved, Abstract!VaultMoved
    <2>2. Recorded(state[d]) /\ baselines[d] = Publication(st[d].remote)
      BY <1>1, <1>3, <2>1 DEF BaselineOf, Recorded
    <2>3. st[d] \in SyncState /\ st[d] # None
      BY <1>1, <1>3, <2>2 DEF TypeOK, Recorded
    <2>4. baselines[d].vault = st[d].local
      BY <1>1, <1>3, <2>2, <2>3, PublicationIsBlob DEF Sound, SyncState
    <2>5. rman \notin {None, st[d].remote}
      BY <2>1, <2>2 DEF Publication
    <2>6. QED
      BY <1>3, <1>6, <2>3, <2>4, <2>5 DEF MayUpload
  <1>10. vaults[d] # None
    BY <1>1, <1>3, <1>6, SyncAssumption
  <1>11. QED
    BY <1>5, <1>6, <1>7, <1>8, <1>9, <1>10 DEF Abstract!Publish

LEMMA DownloadRefines ==
    ASSUME OneKey, IInv, SerialInv, RefinementInv, NEW d \in Device, Alone(d),
           DownloadVault(d)
    PROVE  RefinementInv' /\ UNCHANGED Abstract!vars
  <1>1. /\ TypeOK /\ BytesInv(d) /\ CommandInv(d) /\ pc[d] = "download"
        /\ UNCHANGED <<local, state, rman>>
    BY DEF IInv, RefinementInv, SerialInv, DownloadVault, remote
  <1>2. CASE Fail(d) /\ UNCHANGED backup
    <2>1. Others(d)
      BY <1>1, <1>2, FailFrame DEF Others, Untouched
    <2>2. \/ pc'[d] = "idle"
          \/ pc'[d] = "restore" /\ cmd[d] = "pull" /\ saved[d]
      BY <1>1, <1>2 DEF Fail, End, Goto, TypeOK
    <2>3. BytesInv(d)'
      BY <1>1, <1>2, <2>2 DEF BytesInv
    <2>4. VaultOf(d)' = VaultOf(d) /\ BaselineOf(d)' = BaselineOf(d)
      BY <1>1, <2>2 DEF VaultOf, BaselineOf
    <2>5. QED
      BY <1>1, <2>1, <2>3, <2>4, Unseen, OneDeviceRefines
  <1>3. CASE rvault = man[d] /\ Decryptable(key[d], rvault)
    <2>1. /\ Others(d) /\ pc'[d] = "write" /\ UNCHANGED st
          /\ had'[d] = (local[d] # None)
          /\ had'[d] => backup'[d] = local[d]
      <3>1. /\ had' = [had EXCEPT ![d] = local[d] # None]
            /\ backup' = [backup EXCEPT ![d] = IF local[d] # None THEN local[d] ELSE @]
            /\ pc' = [pc EXCEPT ![d] = "write"]
            /\ data' = [data EXCEPT ![d] = DecryptVault(key[d], rvault)]
            /\ UNCHANGED <<local, state, remote, cmd, st, man, saved, counts>>
        BY <1>1, <1>3 DEF DownloadVault, Goto
      <3>2. /\ had \in [Device -> BOOLEAN] /\ DOMAIN backup = Device
            /\ DOMAIN pc = Device /\ DOMAIN data = Device
        BY <1>1 DEF TypeOK
      <3>3. Others(d)
        BY <3>1, <3>2 DEF Others, Untouched
      <3>4. /\ pc'[d] = "write" /\ had'[d] = (local[d] # None)
            /\ had'[d] => backup'[d] = local[d]
        BY ONLY <3>1, <3>2
      <3>5. QED BY <3>1, <3>3, <3>4
    <2>2. BytesInv(d)'
      BY <1>1, <2>1 DEF BytesInv
    <2>3. VaultOf(d)' = VaultOf(d) /\ BaselineOf(d)' = BaselineOf(d)
      BY <1>1, <2>1 DEF VaultOf, BaselineOf
    <2>4. QED
      BY <1>1, <2>1, <2>2, <2>3, Unseen, OneDeviceRefines
  <1>4. QED
    BY <1>2, <1>3 DEF DownloadVault

LEMMA BeginWriteRefines ==
    ASSUME OneKey, IInv, SerialInv, RefinementInv, NEW d \in Device, Alone(d),
           BeginWrite(d)
    PROVE  RefinementInv' /\ UNCHANGED Abstract!vars
  <1>1. TypeOK /\ BytesInv(d) /\ CommandInv(d) /\ pc[d] = "write"
    BY DEF IInv, RefinementInv, SerialInv, BeginWrite
  <1>2. /\ Others(d) /\ UNCHANGED <<backup, state, rman, had, st>>
        /\ pc'[d] = "writing"
    BY <1>1 DEF TypeOK, BeginWrite, Goto, remote, Others, Untouched
  <1>3. VaultOf(d) = local[d] /\ VaultOf(d)' = VaultOf(d)
    BY <1>1, <1>2 DEF VaultOf, BytesInv
  <1>4. BytesInv(d)'
    BY <1>1, <1>2, <1>3 DEF BytesInv, CommandInv, MayDownload
  <1>5. BaselineOf(d)' = BaselineOf(d)
    BY <1>1, <1>2 DEF BaselineOf
  <1>6. QED
    BY <1>2, <1>3, <1>4, <1>5, Unseen, OneDeviceRefines

(* The end of the write is the moment a pull shows. *)
LEMMA FinishWriteRefines ==
    ASSUME OneKey, IInv, SerialInv, RefinementInv, NEW d \in Device, Alone(d),
           FinishWrite(d)
    PROVE  RefinementInv' /\ Abstract!Adopt(d)
  <1>1. /\ TypeOK /\ BytesInv(d) /\ CommandInv(d) /\ pc[d] = "writing"
        /\ data[d] \in Bytes /\ man[d] \in Bytes /\ key[d] # None
        /\ Decryptable(key[d], man[d]) /\ DecryptVault(key[d], man[d]) = data[d]
        /\ Sound(d, state[d])
    BY DEF IInv, RefinementInv, SerialInv, FinishWrite, DeviceInv, BlobOpens,
           HoldsOperands, TypeOK, OneKey
  <1>2. /\ Others(d) /\ UNCHANGED <<state, rman>>
        /\ pc'[d] = "persist"
        /\ st'[d] = [local |-> data[d], remote |-> man[d]]
        /\ local'[d] = data[d]
    BY <1>1 DEF TypeOK, FinishWrite, Fill, RecordSync, Goto, remote, CommandInv,
                Others, Untouched
  <1>3. /\ st[d] = state[d] /\ MayDownload(d, VaultOf(d)) /\ man[d].k = key[d]
        /\ man[d] = rvault
    BY <1>1 DEF CommandInv, BytesInv, Decryptable
  <1>4. st'[d] # None
    BY <1>1, <1>2, SyncAssumption DEF SyncState
  <1>5. rman = man[d]
    BY <1>1, <1>3, ManifestIsCurrent
  <1>6. BytesInv(d)'
    BY <1>1, <1>2 DEF BytesInv
  <1> DEFINE vaults == [e \in Device |-> VaultOf(e)]
             baselines == [e \in Device |-> BaselineOf(e)]
             shared == Publication(rman)
  <1>7. shared # None /\ shared.vault = data[d] /\ shared' = shared
    BY <1>1, <1>2, <1>5, PublicationIsBlob
  <1>8. vaults' = [vaults EXCEPT ![d] = shared.vault]
    <2>1. VaultOf(d)' = shared.vault
      BY <1>2, <1>7 DEF VaultOf
    <2>2. QED
      BY <1>2, <2>1, OthersUnmoved
  <1>9. baselines' = [baselines EXCEPT ![d] = shared]
    <2>1. BaselineOf(d)' = shared
      BY <1>2, <1>4, <1>5 DEF BaselineOf, Publication
    <2>2. QED
      BY <1>2, <2>1, OthersUnmoved
  <1>10. baselines[d] # None /\ Abstract!VaultMoved(d) => Abstract!RemoteMoved(d)
    <2>1. SUFFICES ASSUME baselines[d] # None, vaults[d] # baselines[d].vault
                   PROVE  shared # baselines[d]
      BY <1>7 DEF Abstract!RemoteMoved, Abstract!VaultMoved
    <2>2. Recorded(state[d]) /\ baselines[d] = Publication(st[d].remote)
      BY <1>1, <1>3, <2>1 DEF BaselineOf, Recorded
    <2>3. st[d] \in SyncState /\ st[d] # None /\ st[d].remote \in Bytes
      BY <1>1, <1>3, <2>2 DEF TypeOK, Recorded, SyncState
    <2>4. /\ Decryptable(key[d], st[d].remote)
          /\ DecryptVault(key[d], st[d].remote) = st[d].local
      BY <1>1, <1>3, <2>2 DEF Sound
    <2>5. baselines[d].vault = st[d].local /\ st[d].remote.k = key[d]
      BY <1>1, <2>2, <2>3, <2>4, PublicationIsBlob DEF Decryptable
    <2>6. rman # st[d].remote
      BY <1>3, <2>1, <2>3, <2>5 DEF MayDownload
    <2>7. QED
      BY <1>1, <1>3, <1>5, <2>2, <2>3, <2>5, <2>6, PublicationIsBlob
  <1>11. QED
    BY <1>2, <1>6, <1>7, <1>8, <1>9, <1>10, OneDeviceRefines DEF Abstract!Adopt

LEMMA EndRefines ==
    ASSUME OneKey, IInv, SerialInv, RefinementInv, NEW d \in Device, Alone(d),
           PersistState(d) \/ BeginRestore(d) \/ FinishRestore(d)
    PROVE  RefinementInv' /\ UNCHANGED Abstract!vars
  <1>1. /\ TypeOK /\ BytesInv(d) /\ UNCHANGED rman /\ None \notin Bytes
        /\ st[d] # Garbled
    BY SyncAssumption DEF IInv, TypeOK, RefinementInv, PersistState, BeginRestore,
                          FinishRestore, remote
  <1>2. CASE PersistState(d)
    <2>1. /\ Others(d) /\ UNCHANGED local
          /\ pc[d] = "persist" /\ pc'[d] = "idle"
          /\ state'[d] = IF st[d] = None THEN state[d] ELSE st[d]
      BY <1>1, <1>2, EndFrame DEF TypeOK, PersistState, Others, Untouched
    <2>2. BytesInv(d)'
      BY <1>1, <2>1 DEF BytesInv
    <2>3. VaultOf(d)' = VaultOf(d) /\ BaselineOf(d)' = BaselineOf(d)
      BY <1>1, <2>1 DEF VaultOf, BaselineOf
    <2>4. QED
      BY <1>1, <2>1, <2>2, <2>3, Unseen, OneDeviceRefines
  <1>3. CASE BeginRestore(d)
    <2>1. pc[d] = "restore" /\ backup[d] = local[d] /\ local[d] # None
      BY <1>1, <1>3 DEF BeginRestore, BytesInv
    <2>2. /\ Others(d) /\ UNCHANGED <<backup, state>> /\ pc'[d] = "restoring"
          /\ data'[d] = backup[d] /\ local'[d] = Tear(backup[d])
      BY <1>1, <1>3, <2>1 DEF TypeOK, BeginRestore, Goto, Others, Untouched
    <2>3. BytesInv(d)'
      BY <1>1, <2>2 DEF BytesInv
    <2>4. VaultOf(d)' = VaultOf(d) /\ BaselineOf(d)' = BaselineOf(d)
      BY <2>1, <2>2 DEF VaultOf, BaselineOf
    <2>5. QED
      BY <1>1, <2>2, <2>3, <2>4, Unseen, OneDeviceRefines
  <1>4. CASE FinishRestore(d)
    <2>1. pc[d] = "restoring" /\ data[d] = backup[d] /\ local[d] = Tear(data[d])
      BY <1>1, <1>4 DEF FinishRestore, BytesInv
    <2>2. /\ Others(d) /\ UNCHANGED state /\ pc'[d] = "idle"
          /\ local'[d] = data[d]
      BY <1>1, <1>4, <2>1, EndFrame DEF TypeOK, FinishRestore, Fill, Others, Untouched
    <2>3. BytesInv(d)'
      BY <1>1, <2>2 DEF BytesInv
    <2>4. VaultOf(d)' = VaultOf(d) /\ BaselineOf(d)' = BaselineOf(d)
      BY <2>1, <2>2 DEF VaultOf, BaselineOf
    <2>5. QED
      BY <1>1, <2>2, <2>3, <2>4, Unseen, OneDeviceRefines
  <1>5. QED
    BY <1>2, <1>3, <1>4

(* A serial step is a step of VaultSync, or one that it does not see. *)
LEMMA StepRefines ==
    OneKey /\ IInv /\ SerialInv /\ RefinementInv /\ [SerialNext]_vars
    => RefinementInv' /\ [Abstract!Next]_(Abstract!vars)
  <1> SUFFICES ASSUME OneKey, IInv, SerialInv, RefinementInv, [SerialNext]_vars
               PROVE  RefinementInv' /\ [Abstract!Next]_(Abstract!vars)
    OBVIOUS
  <1>1. ASSUME NEW d \in Device, Proceed(d)
        PROVE  RefinementInv' /\ [Abstract!Next]_(Abstract!vars)
    <2>1. Alone(d)
      BY <1>1, ProceedsAlone
    <2>2. CASE UploadManifest(d)
      BY <2>1, <2>2, UploadManifestRefines DEF Abstract!Next
    <2>3. CASE FinishWrite(d)
      BY <2>1, <2>3, FinishWriteRefines DEF Abstract!Next
    <2>4. CASE \/ Fetch(d) \/ UploadVault(d) \/ DownloadVault(d) \/ BeginWrite(d)
               \/ PersistState(d) \/ BeginRestore(d) \/ FinishRestore(d)
      BY <2>1, <2>4, FetchRefines, UploadVaultRefines, DownloadRefines,
         BeginWriteRefines, EndRefines
    <2>5. QED
      BY <1>1, <2>2, <2>3, <2>4 DEF Proceed
  <1>2. ASSUME NEW d \in Device, Quiet, EditVault(d)
        PROVE  RefinementInv' /\ [Abstract!Next]_(Abstract!vars)
    BY <1>2, EditRefines DEF Abstract!Next
  <1>3. ASSUME NEW d \in Device, Quiet, Start(d)
        PROVE  RefinementInv' /\ [Abstract!Next]_(Abstract!vars)
    <2>1. Alone(d)
      BY <1>3 DEF Quiet, Alone
    <2>2. QED
      BY <1>3, <2>1, StartRefines
  <1>4. CASE UNCHANGED vars
    <2>1. RefinementInv'
      BY <1>4 DEF vars, disk, remote, proc, counts, RefinementInv, BytesInv,
                  MayDownload, VaultOf
    <2>2. UNCHANGED Abstract!vars
      BY <1>4 DEF vars, disk, remote, proc, counts, Abstract!vars, VaultOf,
                  BaselineOf
    <2>3. QED
      BY <2>1, <2>2
  <1>5. QED
    BY <1>1, <1>2, <1>3, <1>4 DEF SerialNext

(* With one key on all devices the sync engine implements VaultSync: a     *)
(* push or pull that other devices can see took effect in one step, and    *)
(* none overwrote what VaultSync protects (push, pull,                     *)
(* sync_with_strategy).                                                    *)
THEOREM Implementation == OneKey /\ SerialSpec => ImplementsVaultSync
  <1>1. ASSUME Init
        PROVE  RefinementInv /\ Abstract!Init
    <2>1. RefinementInv
      BY <1>1 DEF Init, RefinementInv, BytesInv
    <2>2. Abstract!Init
      BY <1>1 DEF Init, Abstract!Init, VaultOf, BaselineOf, Publication
    <2>3. QED
      BY <2>1, <2>2
  <1>2. OneKey /\ IInv /\ SerialInv /\ RefinementInv /\ [SerialNext]_vars
        => RefinementInv' /\ [Abstract!Next]_(Abstract!vars)
    BY StepRefines
  <1>3. SUFFICES ASSUME OneKey
                 PROVE  SerialSpec => ImplementsVaultSync
    OBVIOUS
  <1>4. Init => RefinementInv /\ Abstract!Init
    BY <1>1
  <1>5. IInv /\ SerialInv /\ RefinementInv /\ [SerialNext]_vars
        => RefinementInv' /\ [Abstract!Next]_(Abstract!vars)
    BY <1>2, <1>3
  <1>6. QED
    BY <1>4, <1>5, AlwaysIInv, AlwaysSerialInv, PTL
       DEF SerialSpec, ImplementsVaultSync, Abstract!Spec
=============================================================================
