---------------------------- MODULE CrashReportStore ----------------------------
(***************************************************************************)
(* What a crash leaves on disk and how later launches use it: the reports  *)
(* directory (SentryCrashReportStore.c), the crash state file              *)
(* (SentryCrashMonitor_AppState.c), and the start of the SDK that prunes,  *)
(* lists, sends and deletes the reports (SentryCrashC.c, SentryCrash.m,    *)
(* SentryCrashReportSink.m).  A launch may end by a crash or be killed at  *)
(* any step; a launch may close and restart the SDK.                       *)
(*                                                                         *)
(* A report id is made of the second in which the launch initialised the   *)
(* store and a counter, so two launches in one second share their ids.     *)
(***************************************************************************)
EXTENDS Integers, Sequences, FiniteSets

CONSTANTS MaxReportCount,   \* g_maxReportCount
          Attachments,      \* whether g_saveScreenShot or g_saveViewHierarchy is set
          IdsPerSecond,     \* bound: 2^23 in the code
          MaxTime,          \* bound: seconds that pass
          MaxLaunches       \* bound: launches

ASSUME CrashReportStoreAssumption ==
    /\ MaxReportCount \in Nat /\ Attachments \in BOOLEAN
    /\ IdsPerSecond \in Nat \ {0} /\ MaxTime \in Nat /\ MaxLaunches \in Nat

VARIABLES disk,       \* entries of the reports directory: [id, ext]
          file,       \* CrashState.json
          g,          \* g_state
          launch,     \* the running launch
          app,        \* "off", or the state of the application
          now,        \* seconds
          fate,       \* id -> what became of the report of a crash
          history     \* what really happened

vars == <<disk, file, g, launch, app, now, fate, history>>

Ids == 1 .. (MaxTime + 1) * IdsPerSecond

----------------------------------------------------------------------------
(* The reports directory *)

Entry(id, ext) == [id |-> id, ext |-> ext]

IsDirectory(e) == e.ext = "attachments"

Reports(d) == {e.id : e \in {x \in d : x.ext = "json"}}

\* getReportCount: files, whatever follows the id in their names.
GetReportCount(d) == Cardinality({e \in d : ~IsDirectory(e)})

\* getReportIDs: the first count entries in the order of the directory, of which
\* nothing is known; directories count here.
GetReportIDs(d, count) ==
    LET n == IF count < Cardinality(d) THEN count ELSE Cardinality(d)
    IN  {S \in SUBSET d : Cardinality(S) = n}

\* The place of an entry in the list after qsort: those before it.
Before(S, e) == {x \in S : x.id < e.id \/ (x.id = e.id /\ x.ext = "json" /\ e.ext # "json")}

\* mutant: as many reports are deleted as may stay
PruneReports_Keeps(d, listed) ==
    IF GetReportCount(d) <= MaxReportCount THEN d
    ELSE LET over == {e.id : e \in {x \in listed : Cardinality(Before(listed, x)) < MaxReportCount + 1}}
         IN  {e \in d : ~(e.ext = "json" /\ e.id \in over)}

\* pruneReports, with what getReportIDs listed.
PruneReports(d, listed) ==
    IF GetReportCount(d) <= MaxReportCount THEN d
    ELSE LET over == {e.id : e \in {x \in listed :
                                 Cardinality(Before(listed, x)) < Cardinality(listed) - MaxReportCount}}
         IN  {e \in d : ~(e.ext = "json" /\ e.id \in over)}

\* getNextUniqueID of the running launch.
NextUniqueID == launch.base + launch.low + 1

----------------------------------------------------------------------------
(* The crash state file *)

NoFile == [exists |-> FALSE, full |-> FALSE, flag |-> FALSE, crashed |-> FALSE, launches |-> 0, active |-> 0]

\* mutant: the flag of the last launch is written again
SaveState_OldFlag(s) ==
    [exists |-> TRUE, full |-> TRUE, flag |-> TRUE, crashed |-> s.crashedLastLaunch \/ s.crashedThisLaunch,
     launches |-> s.launchesSinceLastCrash, active |-> s.activeDurationSinceLastCrash]

\* saveState: this launch's flag becomes the flag of the last launch.
SaveState(s) ==
    [exists |-> TRUE, full |-> TRUE, flag |-> TRUE, crashed |-> s.crashedThisLaunch,
     launches |-> s.launchesSinceLastCrash, active |-> s.activeDurationSinceLastCrash]

\* What is left when the process dies in saveState after O_TRUNC: nothing, or the
\* file up to the flag.
Torn(s) == { [SaveState(s) EXCEPT !.full = FALSE, !.flag = f] : f \in BOOLEAN }

EmptyState ==
    [crashedLastLaunch |-> FALSE, crashedThisLaunch |-> FALSE, applicationIsActive |-> FALSE,
     appStateTransitionTime |-> 0, launchesSinceLastCrash |-> 0, activeDurationSinceLastCrash |-> 0]

\* The callbacks of the decoder set a field as soon as they see it.
Decoded(s, f) ==
    [s EXCEPT !.crashedLastLaunch = f.flag /\ f.crashed,
              !.launchesSinceLastCrash = IF f.full THEN f.launches ELSE @,
              !.activeDurationSinceLastCrash = IF f.full THEN f.active ELSE @]

\* sentrycrashstate_initialize: memset and loadState, which keeps what was decoded
\* before an error.
LoadState(f) == IF f.exists THEN Decoded(EmptyState, f) ELSE EmptyState

\* sentrycrashstate_reset without its save.
Reset(s) ==
    [s EXCEPT !.crashedThisLaunch = FALSE,
              !.launchesSinceLastCrash = (IF s.crashedLastLaunch THEN 0 ELSE @) + 1,
              !.activeDurationSinceLastCrash = IF s.crashedLastLaunch THEN 0 ELSE @]

----------------------------------------------------------------------------
(* States of a launch *)

NoLaunch == [n |-> 0, step |-> "off", base |-> 0, low |-> 0, listed |-> {}, failed |-> {},
             restarted |-> FALSE]

Init ==
    /\ disk = {} /\ file = NoFile /\ g = EmptyState
    /\ launch = NoLaunch /\ app = "off" /\ now = 0
    /\ fate = [id \in Ids |-> "none"]
    /\ history = [crashed |-> FALSE, launches |-> 0, active |-> 0, torn |-> FALSE, clean |-> TRUE]

Running == app # "off"

\* The process ends.
Ends == app' = "off" /\ launch' = [launch EXCEPT !.step = "off", !.listed = {}, !.failed = {}]

\* A report that is not on disk any more was pruned, or lost.
Pruned(d) ==
    [id \in Ids |->
        IF fate[id] = "disk" /\ id \notin Reports(d)
        THEN IF Cardinality({x \in Reports(disk) : x > id}) >= MaxReportCount THEN "pruned" ELSE "lost"
        ELSE fate[id]]

----------------------------------------------------------------------------
(* Actions *)

Tick ==
    /\ now < MaxTime
    /\ now' = now + 1
    /\ history' = [history EXCEPT !.active = IF app = "active" THEN @ + 1 ELSE @]
    /\ UNCHANGED <<disk, file, g, launch, app, fate>>

\* sentrycrashcrs_initialize at the first sentrycrash_install of a launch: prune,
\* then initializeIDs.
InitializeStore ==
    /\ launch.step = "off" /\ launch.n < MaxLaunches
    /\ app' = "inactive"
    /\ launch' = [n |-> launch.n + 1, step |-> "store", base |-> now * IdsPerSecond, low |-> 0,
                  listed |-> {}, failed |-> {}, restarted |-> FALSE]
    /\ g' = EmptyState
    /\ \E listed \in GetReportIDs(disk, GetReportCount(disk)) :
           /\ disk' = PruneReports(disk, listed)
           /\ fate' = Pruned(disk')
    /\ UNCHANGED <<file, now, history>>

\* sentrycrashstate_initialize
InitializeState ==
    /\ launch.step = "store"
    /\ g' = LoadState(file)
    /\ launch' = [launch EXCEPT !.step = "loaded"]
    /\ UNCHANGED <<disk, file, app, now, fate, history>>

\* setEnabled of the state monitor: reset and save.
Enable ==
    /\ launch.step = "loaded"
    /\ g' = Reset(g)
    /\ file' = SaveState(Reset(g))
    /\ launch' = [launch EXCEPT !.step = IF launch.restarted THEN "up" ELSE "list"]
    /\ history' = [history EXCEPT !.launches = (IF history.crashed THEN 0 ELSE @) + 1,
                                  !.active = IF history.crashed THEN 0 ELSE @]
    /\ UNCHANGED <<disk, app, now, fate>>

\* allReports.  reportWithIntID returns nil for a report that the fixer drops, of which
\* only the last 2,000,000 bytes were read, or whose JSON cannot be decoded.
ListReports ==
    /\ launch.step = "list"
    /\ \E listed \in GetReportIDs(disk, GetReportCount(disk)) :
           LET ids == {e.id : e \in listed} \cap Reports(disk)
           IN  \E unloaded \in SUBSET ids :
                   launch' = [launch EXCEPT !.step = "send", !.listed = ids, !.failed = unloaded]
    /\ UNCHANGED <<disk, file, g, app, now, fate, history>>

\* sendReports of the sink, on a background queue.  client: whether the hub still has
\* one for the last report; convertReportToEvent returns nil where it catches an
\* exception.
SendReports(client) ==
    /\ launch.step = "send"
    /\ \E sent \in SUBSET (launch.listed \ launch.failed) :
           /\ fate' = [id \in Ids |-> IF id \in sent /\ fate[id] = "disk" THEN "sent" ELSE fate[id]]
           /\ launch' = [launch EXCEPT !.step = IF client THEN "delete" ELSE "drop",
                                       !.failed = launch.listed \ sent]
    /\ UNCHANGED <<disk, file, g, app, now, history>>

\* The completion of sendAllReportsWithCompletion deletes whatever came of it.
DeleteAllReports ==
    /\ launch.step \in {"delete", "drop"}
    /\ disk' = {}
    /\ fate' = [id \in Ids |-> IF fate[id] = "disk" THEN "lost" ELSE fate[id]]
    /\ launch' = [launch EXCEPT !.step = "up", !.listed = {}, !.failed = {}]
    /\ UNCHANGED <<file, g, app, now, history>>

Enabled == launch.step \in {"list", "send", "delete", "drop", "up"}

\* sentrycrash_addUserReport.  The file may not open; one of that id is written over
\* (no O_EXCL).  A report that was loaded before is counted as lost all the same.
AddUserReport ==
    /\ Enabled /\ launch.low + 1 < IdsPerSecond
    /\ launch' = [launch EXCEPT !.low = @ + 1]
    /\ \/ /\ disk' = disk \cup {Entry(NextUniqueID, "json")}
          /\ fate' = [fate EXCEPT ![NextUniqueID] = IF @ = "disk" THEN "lost" ELSE @]
       \/ UNCHANGED <<disk, fate>>
    /\ UNCHANGED <<file, g, app, now, history>>

\* uninstall and install again: the store is initialised once more, the state is
\* loaded from what this launch saved.
Restart ==
    /\ launch.step = "up" /\ ~launch.restarted
    /\ launch' = [launch EXCEPT !.step = "store", !.base = now * IdsPerSecond, !.low = 0, !.restarted = TRUE]
    /\ \E listed \in GetReportIDs(disk, GetReportCount(disk)) :
           /\ disk' = PruneReports(disk, listed)
           /\ fate' = Pruned(disk')
    /\ history' = [history EXCEPT !.clean = FALSE]
    /\ UNCHANGED <<file, g, app, now>>

\* sentrycrashstate_notifyAppActive, g_isEnabled or not.
BecomeActive ==
    /\ app = "inactive" /\ app' = "active"
    /\ g' = IF Enabled THEN [g EXCEPT !.applicationIsActive = TRUE, !.appStateTransitionTime = now] ELSE g
    /\ history' = [history EXCEPT !.clean = @ /\ Enabled]
    /\ UNCHANGED <<disk, file, launch, now, fate>>

ResignActive ==
    /\ app = "active" /\ app' = "inactive"
    /\ g' = IF Enabled
            THEN [g EXCEPT !.applicationIsActive = FALSE,
                           !.activeDurationSinceLastCrash = @ + (now - g.appStateTransitionTime)]
            ELSE g
    /\ UNCHANGED <<disk, file, launch, now, fate, history>>

\* sentrycrashstate_notifyAppInForeground(false) saves, (true) does not.
EnterBackground ==
    /\ app = "inactive" /\ app' = "background"
    /\ g' = IF Enabled THEN [g EXCEPT !.appStateTransitionTime = now] ELSE g
    /\ file' = IF Enabled THEN SaveState(g) ELSE file
    /\ UNCHANGED <<disk, launch, now, fate, history>>

EnterForeground ==
    /\ app = "background" /\ app' = "inactive"
    /\ UNCHANGED <<disk, file, g, launch, now, fate, history>>

\* The end of a launch that was no crash, as later launches remember it: one that
\* never enabled the monitor does not count.
ExitHistory == [history EXCEPT !.crashed = @ /\ ~Enabled]

\* applicationWillTerminate, from the foreground or the background.
Terminate ==
    /\ app \in {"inactive", "background"}
    /\ file' = IF Enabled THEN SaveState(g) ELSE file
    /\ history' = ExitHistory
    /\ Ends
    /\ UNCHANGED <<disk, g, now, fate>>

\* The system kills the process, possibly while it saves its state.
Kill ==
    /\ Running
    /\ history' = ExitHistory
    /\ Ends
    /\ UNCHANGED <<disk, file, g, now, fate>>

KillInSave ==
    /\ Running /\ (launch.step = "loaded" \/ (Enabled /\ app # "active"))
    /\ file' \in Torn(IF Enabled THEN g ELSE Reset(g))
    /\ history' = [history EXCEPT !.crashed = @ /\ ~Enabled, !.torn = TRUE]
    /\ Ends
    /\ UNCHANGED <<disk, g, now, fate>>

\* sentrycrashstate_notifyAppCrash without its save.
NotifyAppCrash(s) ==
    [s EXCEPT !.crashedThisLaunch = TRUE,
              !.activeDurationSinceLastCrash = IF s.applicationIsActive
                                               THEN @ + (now - s.appStateTransitionTime) ELSE @]

\* The entries of a report that onCrash can leave: of the standard report, and of
\* a crash in between, which renames it to .old and writes it anew.  A report
\* that exists already is not opened (O_EXCL).
Written(id) ==
    IF Entry(id, "json") \in disk THEN {{}}
    ELSE {{}, {Entry(id, "json")}, {Entry(id, "old")}, {Entry(id, "json"), Entry(id, "old")}}

\* makePath of the attachments, if there are callbacks for them.
Attached(id) == IF Attachments THEN {{}, {Entry(id, "attachments")}} ELSE {{}}

\* onCrash
Crash ==
    /\ Enabled
    /\ g' = NotifyAppCrash(g)
    /\ file' = SaveState(g')
    /\ \E w \in Written(NextUniqueID), a \in Attached(NextUniqueID) :
           /\ disk' = disk \cup w \cup a
           /\ fate' = [fate EXCEPT ![NextUniqueID] =
                          IF Entry(NextUniqueID, "json") \in w THEN "disk" ELSE @]
    /\ history' = [history EXCEPT !.crashed = TRUE]
    /\ Ends
    /\ UNCHANGED now

\* The handler dies while it saves the state.
CrashInSave ==
    /\ Enabled
    /\ g' = NotifyAppCrash(g)
    /\ file' \in Torn(g')
    /\ history' = [history EXCEPT !.crashed = TRUE, !.torn = TRUE]
    /\ Ends
    /\ UNCHANGED <<disk, now, fate>>

Next ==
    \/ Tick
    \/ InitializeStore \/ InitializeState \/ Enable
    \/ ListReports \/ (\E client \in BOOLEAN : SendReports(client)) \/ DeleteAllReports
    \/ AddUserReport \/ Restart
    \/ BecomeActive \/ ResignActive \/ EnterBackground \/ EnterForeground
    \/ Terminate \/ Kill \/ KillInSave \/ Crash \/ CrashInSave

Spec == Init /\ [][Next]_vars

----------------------------------------------------------------------------
(* Properties *)

\* A user report takes the id, which a launch that began in the same second gave out before.
IdIsTaken(id) == id = NextUniqueID /\ launch'.low = launch.low + 1

\* The report of a crash stays on disk over any number of crashes and killed
\* launches until it was given to the client, or was pruned for newer ones
\* (pruneReports, deleteAllReports).  It is lost unsent in these cases only: the
\* SDK was closed before the background queue sent it; it was listed, but could
\* not be loaded or converted to an event (reportWithIntID, convertReportToEvent
\* are nil) and the completion deleted it all the same; the directory held
\* something else than reports when it was listed or pruned; or a user report
\* was written over it.
NoReportLost ==
    [][\A id \in Ids : fate[id] = "disk" /\ fate'[id] = "lost" =>
           \/ launch.step = "drop"
           \/ launch.step = "delete" /\ id \in launch.failed
           \/ \E e \in disk : e.ext # "json"
           \/ IdIsTaken(id)]_vars

\* ReportStore.h promises "a list of IDs for all reports on disk": what is
\* deleted after sending was in the list.
AllReportsListed ==
    launch.step = "delete" => \A id \in Ids : fate[id] = "disk" => id \in launch.listed

\* The state that a launch loads is the truth about earlier launches: the flag
\* that ends the last session as crashed is set only after a crash and always
\* after one whose save was not interrupted, launches are counted since the
\* last crash, and never more active time than there was.  A restart of the SDK
\* in the same process, and becoming active before the monitor was on, are left
\* out: there the code forgets the crash, or counts from the epoch.
CrashStateIsTrue ==
    Enabled /\ history.clean =>
        /\ g.crashedLastLaunch => history.crashed
        /\ history.crashed /\ ~history.torn => g.crashedLastLaunch
        /\ ~history.torn => g.launchesSinceLastCrash = history.launches
        /\ g.activeDurationSinceLastCrash <= history.active

=============================================================================
