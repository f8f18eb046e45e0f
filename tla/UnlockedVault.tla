---------------------------- MODULE UnlockedVault ----------------------------
(***************************************************************************)
(* The vault file and what crates/core/src/vault.rs does to it.            *)
(*                                                                         *)
(* Entries are sealed under a vault encryption key (VEK).  The VEK is      *)
(* wrapped twice: under the master password and the device key, and under  *)
(* the recovery phrase.  Authenticated encryption is what the cipher       *)
(* promises: a wrapped or sealed item opens under its own key and under no *)
(* other.  Keys and phrases are numbered in the order they are generated;  *)
(* salts and nonces are fresh and tell nothing apart.                      *)
(***************************************************************************)
EXTENDS Naturals

CONSTANTS
    None,           \* Rust's Option::None: no file, no value, no vault
    Name,           \* (profile, key) pairs
    Value,          \* credential values, with their expiry
    Password

VERSION == 3

Maps == [Name -> Value \cup {None}]
EmptyMap == [n \in Name |-> None]

(* One command's change: a value to set or None to delete, per name. *)
Edits == UNION {[S -> Value \cup {None}] : S \in SUBSET Name}

(* VaultFileData.  An UnlockedVault is the same record: the header it was  *)
(* opened with, its VEK, and the credentials in memory.                    *)
VaultFile == [version : Nat,
              wrapped : [pwd : Password, dk : Nat, vek : Nat],
              recovery : [phrase : Nat, vek : Nat],
              entries : [vek : Nat, map : Maps]]

ASSUME VaultAssumption ==
    /\ None \notin Value
    /\ None \notin VaultFile

(* UnlockedVault::init_with_recovery; vek numbers the key and the phrase   *)
(* generated with it.                                                      *)
InitWithRecovery(pwd, dk, vek) ==
    [version |-> VERSION,
     wrapped |-> [pwd |-> pwd, dk |-> dk, vek |-> vek],
     recovery |-> [phrase |-> vek, vek |-> vek],
     entries |-> [vek |-> vek, map |-> EmptyMap]]

(* Mutant of Opens: reads whatever version the file has. *)
OpensAnyVersion(f, pwd, dk) ==
    /\ f.wrapped.pwd = pwd /\ f.wrapped.dk = dk
    /\ f.entries.vek = f.wrapped.vek

(* UnlockedVault::open succeeds: a newer format is refused, the wrapped    *)
(* VEK must open (IncorrectPassword) and open the entries (VaultCorrupted).*)
Opens(f, pwd, dk) ==
    /\ f.version <= VERSION
    /\ f.wrapped.pwd = pwd /\ f.wrapped.dk = dk
    /\ f.entries.vek = f.wrapped.vek

(* An older format is upgraded by the next save. *)
Opened(f) == [f EXCEPT !.version = VERSION]

(* set_with_expiry and delete, for all the names of one command. *)
Edited(v, edit) ==
    [v EXCEPT !.entries.map =
        [n \in Name |-> IF n \in DOMAIN edit THEN edit[n] ELSE @[n]]]

(* recover_with_mnemonic, up to the write.  The version of the file is not *)
(* looked at, and what is written claims the current one.                  *)
PhraseFits(f, phrase) == f.recovery.phrase = phrase

Recovered(f, pwd, dk) ==
    [f EXCEPT !.version = VERSION,
              !.wrapped = [pwd |-> pwd, dk |-> dk, vek |-> f.recovery.vek]]

(* The password and the phrase both lead to the key of the entries. *)
Consistent(f) ==
    /\ f.wrapped.vek = f.entries.vek
    /\ f.recovery.vek = f.entries.vek
    /\ f.recovery.phrase = f.recovery.vek
=============================================================================
