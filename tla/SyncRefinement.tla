--------------------------- MODULE SyncRefinement ---------------------------
(***************************************************************************)
(* Used one command at a time on machines that do not fail, and with one   *)
(* key on all devices, the sync engine implements VaultSync.  A push takes *)
(* effect when the manifest is uploaded, a pull when the vault is filled;  *)
(* the baseline counts from then on, although it is persisted later.       *)
(***************************************************************************)
EXTENDS SyncEngine

(* A publication is not the absence of one. *)
ASSUME PublicationAssumption == None \notin [vault : Bytes, serial : Nat]

Publication(blob) ==
    IF blob = None THEN None
    ELSE [vault |-> [blob EXCEPT !.k = None, !.n = 0], serial |-> blob.n]

(* While a command rewrites the vault, the vault is what it was. *)
VaultOf(d) ==
    IF pc[d] \in {"writing", "restoring"}
    THEN IF pc[d] = "writing" /\ ~had[d] THEN None ELSE backup[d]
    ELSE local[d]

BaselineOf(d) ==
    IF pc[d] = "persist" /\ st[d] # None THEN Publication(st[d].remote)
    ELSE IF state[d] \in {None, Garbled} THEN None
    ELSE Publication(state[d].remote)

Abstract == INSTANCE VaultSync WITH
    Vault <- {Plain(v) : v \in 1 .. MaxEdits},
    Serial <- 1 .. MaxUploads,
    vault <- [d \in Device |-> VaultOf(d)],
    shared <- Publication(rman),
    baseline <- [d \in Device |-> BaselineOf(d)]

(* Every serial, fault-free behaviour of the engine is one of VaultSync:   *)
(* no interruption of a command by itself shows, and every overwriting of  *)
(* a vault or of the remote is one that VaultSync allows (push, pull,      *)
(* sync_with_strategy).                                                    *)
ImplementsVaultSync == Abstract!Spec
=============================================================================
