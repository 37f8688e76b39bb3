----------------------------- MODULE MCMonitoring -----------------------------
(***************************************************************************)
(* The hang trackers and the profilers.  They share no state, so a         *)
(* behaviour is about one of them; nothing of the other is ever enabled    *)
(* that its fairness asks for.                                             *)
(***************************************************************************)
EXTENDS HangTracker, Profilers

VARIABLE focus

mcVars == <<focus, hangVars, profileVars>>

MCInit ==
    /\ focus \in {"hangs", "profiles"} /\ HangInit /\ ProfilersInit
    /\ focus = "hangs" => mode = "trace"
    /\ focus = "profiles" => version = 1

MCNext ==
    /\ UNCHANGED focus
    /\ \/ focus = "hangs" /\ HangNext /\ UNCHANGED profileVars
       \/ focus = "profiles" /\ ProfilersNext /\ UNCHANGED hangVars

MCSpec == MCInit /\ [][MCNext]_mcVars /\ HangFairness /\ ProfilersFairness

=============================================================================
