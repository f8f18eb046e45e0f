---------------------------- MODULE MCSyncEngine ----------------------------
(* Values for the constants of SyncEngine that a cfg cannot spell. *)
EXTENDS SyncRefinement, FiniteSets

OneKey == CHOOSE k \in Key : TRUE

(* All devices were given the same sync key. *)
SharedKey == [d \in Device |-> OneKey]

(* Clocks a minute apart, on both sides of the boundary. *)
MCTimestamps == {0, RecentSecs, RecentSecs + 1}

ASSUME LastWriteWinsDecisions = {"PullWins", "PushWins"}
=============================================================================
