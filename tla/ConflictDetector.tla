-------------------------- MODULE ConflictDetector --------------------------
(***************************************************************************)
(* The decisions of crates/sync/src/engine/conflict.rs and state.rs.       *)
(*                                                                         *)
(* A checksum is represented by the bytes it was computed from: SHA-256 is *)
(* taken to be free of collisions, so equal checksums are equal bytes.     *)
(* The size the code compares beside the remote checksum is a function of  *)
(* the same bytes and travels with it.                                     *)
(***************************************************************************)
EXTENDS Naturals

CONSTANTS
    None,           \* Rust's Option::None: no state, no key, no file
    Timestamps      \* readings of the clocks of the machines involved

ASSUME TimestampsAssumption == Timestamps \subseteq Nat /\ Timestamps # {}

RecentSecs == 60

(* SyncState::local_changed and SyncState::remote_changed. *)
LocalChanged(state, localSum) == state.local # localSum

(* Mutant of RemoteChanged: compares the sizes only, and sealed vaults of  *)
(* the same credentials have the same size.                                *)
RemoteSizeChanged(state, remoteSum) == FALSE

RemoteChanged(state, remoteSum) == state.remote # remoteSum

(* Mutant of CheckPushConflict: lets a stale, unchanged vault through. *)
CheckPushConflictBothOnly(localSum, remoteSum, state) ==
    /\ state # None
    /\ LocalChanged(state, localSum) /\ RemoteChanged(state, remoteSum)

(* check_push_conflict: with no recorded state there is no conflict; with  *)
(* one, both arms that report a conflict need the remote to have changed.  *)
CheckPushConflict(localSum, remoteSum, state) ==
    /\ state # None
    /\ \/ LocalChanged(state, localSum) /\ RemoteChanged(state, remoteSum)
       \/ RemoteChanged(state, remoteSum)

(* Mutant of CheckPullConflict: pulls whatever the local side holds. *)
CheckPullConflictDropped(localSum, state) == FALSE

(* check_pull_conflict: only the local side is looked at. *)
CheckPullConflict(localSum, state) ==
    /\ state # None
    /\ LocalChanged(state, localSum)

SaturatingSub(a, b) == IF a >= b THEN a - b ELSE 0

(* resolve_last_write_wins: a remote younger than a minute is pulled. *)
ResolveLastWriteWins(remoteTimestamp, now) ==
    IF remoteTimestamp > SaturatingSub(now, RecentSecs)
    THEN "PullWins"
    ELSE "PushWins"

(* remoteTimestamp was read from the clock of the machine that uploaded,   *)
(* now from this machine's: the two are not related, and an updated_at     *)
(* that does not parse counts as 0.                                        *)
LastWriteWinsDecisions ==
    {ResolveLastWriteWins(remoteTimestamp, now) :
        remoteTimestamp \in Timestamps \cup {0}, now \in Timestamps}
=============================================================================
