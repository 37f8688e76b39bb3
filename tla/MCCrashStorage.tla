---------------------------- MODULE MCCrashStorage ----------------------------
(***************************************************************************)
(* What the crash handler and the next launch find in memory and on disk:  *)
(* the caches and the copy of the scope, which the handler reads without a *)
(* lock, the store of reports, and the files of breadcrumbs that tell of a *)
(* watchdog termination.  They share no state, so a behaviour is about one *)
(* of them.  The directory of reports depends on nothing that the app does *)
(* but start and end, the crash state file on nothing in the directory: a  *)
(* behaviour of the store is about one of the two.  The copies of a scope  *)
(* are in memory only: where there are some, nothing fails and nothing is  *)
(* killed.                                                                 *)
(***************************************************************************)
EXTENDS CrashReportStore, BinaryImageCache, ThreadCache, ScopeSync, Scope, Breadcrumbs

VARIABLE focus

scopesVars == <<scopeVars, fieldVars, crumbVars>>

mcVars == <<focus, vars, imageVars, threadVars, scopesVars>>

MCThreadLists == {<<>>, <<1, 2>>, <<3, 1, 2>>}

MCRingSizes == {0, 1, 2}

MCInit ==
    /\ Init /\ ImagesInit /\ ThreadsInit /\ ScopeInit /\ FieldsInit /\ CrumbsInit
    /\ focus \in {"reports", "state", "images", "threads", "sync", "fields", "crumbs", "copies"}
    /\ focus \in {"crumbs", "copies"} \/ limit = 0

MCNext ==
    /\ UNCHANGED focus
    /\ \/ /\ UNCHANGED <<imageVars, threadVars, scopesVars>>
          /\ \/ focus = "reports" /\ Next /\ app' \in {"off", "inactive"}
             \/ focus = "state" /\ Next /\ UNCHANGED disk
       \/ focus = "images" /\ ImagesNext /\ UNCHANGED <<vars, threadVars, scopesVars>>
       \/ focus = "threads" /\ ThreadsNext /\ UNCHANGED <<vars, imageVars, scopesVars>>
       \/ /\ UNCHANGED <<vars, imageVars, threadVars>>
          /\ \/ focus = "sync" /\ ScopeNext /\ UNCHANGED <<fieldVars, crumbVars>>
             \/ focus = "fields" /\ FieldsNext /\ UNCHANGED <<scopeVars, crumbVars>>
             \/ focus = "crumbs" /\ CrumbsNext /\ UNCHANGED <<copy, scopeVars, fieldVars>>
             \/ focus = "copies" /\ CrumbsNext /\ UNCHANGED <<kills, faults, scopeVars, fieldVars>>

MCSpec == MCInit /\ [][MCNext]_mcVars

=============================================================================
