------------------------------- MODULE MCDaemon -------------------------------
(* Values for the constants of Daemon. *)
EXTENDS Daemon

(* Everything a client can ask. *)
All == Requests
=============================================================================
