---------------------------- MODULE MCHeartbeat ----------------------------
(* An instance of Heartbeat with two episodes.                             *)
EXTENDS Heartbeat

TwoJobs == 1..2
=============================================================================
