------------------------------ MODULE MCEventLog ------------------------------
(***************************************************************************)
(* A batch of EventLog for TLC.  All the constants are numbers.            *)
(***************************************************************************)
EXTENDS EventLog
=============================================================================
