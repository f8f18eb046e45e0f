-------------------------- MODULE MCDaemonLifecycle --------------------------
(* Values for the constants of DaemonLifecycle. *)
EXTENDS DaemonLifecycle

AllStages == Stages
=============================================================================
