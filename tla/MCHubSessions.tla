---------------------------- MODULE MCHubSessions ----------------------------
(***************************************************************************)
(* Small instances of HubSessions for TLC.                                 *)
(***************************************************************************)
EXTENDS HubSessions, TLC

(* The threads run the same code.                                          *)
ThreadSymmetry == Permutations(Thread)
=============================================================================
