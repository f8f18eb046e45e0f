------------------------------ MODULE VaultSync ------------------------------
(***************************************************************************)
(* What syncing promises, whatever the command and the strategy: devices   *)
(* with a vault each and one remote vault, which whole vaults move between *)
(* in single steps.                                                        *)
(*                                                                         *)
(* A device that remembers what it last exchanged may publish over a       *)
(* remote that moved on only when its own vault moved on as well, and may  *)
(* give up a vault that moved on only for a remote that moved on as well.  *)
(* A device that remembers nothing may do either.                          *)
(***************************************************************************)
CONSTANTS
    Device,
    Vault,          \* the vaults there can be
    Serial,         \* names of publications
    None

VARIABLES
    vault,          \* vault[d]: the vault of d, or None
    shared,         \* the remote publication [vault, serial], or None
    baseline        \* baseline[d]: the publication d last exchanged, or None

vars == <<vault, shared, baseline>>

Publication == [vault : Vault, serial : Serial]

Init ==
    /\ vault = [d \in Device |-> None]
    /\ shared = None
    /\ baseline = [d \in Device |-> None]

Edit(d) ==
    /\ \E v \in Vault : vault' = [vault EXCEPT ![d] = v]
    /\ UNCHANGED <<shared, baseline>>

RemoteMoved(d) == shared # None /\ shared # baseline[d]

VaultMoved(d) == vault[d] # baseline[d].vault

Publish(d) ==
    /\ vault[d] # None
    /\ baseline[d] # None /\ RemoteMoved(d) => VaultMoved(d)
    /\ \E s \in Serial : shared' = [vault |-> vault[d], serial |-> s]
    /\ baseline' = [baseline EXCEPT ![d] = shared']
    /\ UNCHANGED vault

Adopt(d) ==
    /\ shared # None
    /\ baseline[d] # None /\ VaultMoved(d) => RemoteMoved(d)
    /\ vault' = [vault EXCEPT ![d] = shared.vault]
    /\ baseline' = [baseline EXCEPT ![d] = shared]
    /\ UNCHANGED shared

Next == \E d \in Device : Edit(d) \/ Publish(d) \/ Adopt(d)

Spec == Init /\ [][Next]_vars
=============================================================================
