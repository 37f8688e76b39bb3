-------------------------- MODULE MCSessionRecovery --------------------------
(***************************************************************************)
(* Small instances of SessionRecovery for TLC.                             *)
(***************************************************************************)
EXTENDS SessionRecovery
=============================================================================
