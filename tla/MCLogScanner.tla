---------------------------- MODULE MCLogScanner ----------------------------
(* Instance of LogScanner: one file of each kind, one kind of error. *)
EXTENDS LogScanner

CONSTANTS app, audit, heartbeat

MCFiles == <<app, audit, heartbeat>>
=============================================================================
