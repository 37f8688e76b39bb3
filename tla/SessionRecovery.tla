--------------------------- MODULE SessionRecovery ---------------------------
(***************************************************************************)
(* How sessions survive the death of the process: SentrySessionTracker,    *)
(* SentrySessionCrashedHandler, the sending of crash reports and the       *)
(* watchdog termination check, over the files that SentryFileManager and   *)
(* SentryCrash keep.                                                       *)
(*                                                                         *)
(* The main thread works through "todo", one step per file that it writes, *)
(* so that the process may die between any two of them.  Two serial queues *)
(* capture crash events beside it: the one of the crash integration and    *)
(* "io.sentry.watchdog-termination-tracker".  A third one applies the app  *)
(* state updates.  What threads do to the session of a living process is   *)
(* the subject of HubSessions; here an error is one step.                  *)
(***************************************************************************)
EXTENDS Sessions, FiniteSets

CONSTANTS
    Deaths,             \* how the process may die, a subset of Death
    WatchdogTracking,   \* SentryOptions.enableWatchdogTerminationTracking
    MaxDeaths,          \* bound on the deaths of the process
    MaxMoves            \* bound on foreground changes and errors in all

Death == {"kill", "crash", "terminate"}

ASSUME RecoveryAssumption ==
    /\ Deaths \subseteq Death
    /\ WatchdogTracking \in BOOLEAN
    /\ MaxDeaths \in Nat
    /\ MaxMoves \in Nat

VARIABLES
    \* Files
    currentFile,        \* session.current
    crashedFile,        \* session.crashed
    lastInForeground,   \* whether the timestamp file exists
    crashState,         \* crashedLastLaunch in CrashState.json
    reports,            \* the number of crash reports
    appState,           \* app.state, or NoState
    previousAppState,   \* previous.app.state, or NoState
    \* Memory
    session,            \* _session of the hub
    mine,               \* the session the main thread is about to capture
    closingTimestamp,   \* whether endCachedSession read a timestamp
    crashedLastLaunch,  \* what SentryCrash loaded from CrashState.json
    comparable,         \* no upgrade, reboot, debugger or ANR since the last app state
    wasActive,          \* wasDidBecomeActiveCalled
    todo,               \* what the main thread has still to do, see Label
    work,               \* what the two crash event queues have still to do
    stateUpdates,       \* values of isActive queued for the app state file
    \* Environment
    foreground,         \* whether the app is active
    deaths, moves,
    \* History
    captured,           \* session updates in the order the client was given them
    nextSid,
    fate,               \* how the process of each session died, see Fate
    lastDeath,          \* how the last process that had started the SDK died
    lost,               \* sessions whose end was lost, see NoSessionLost
    unsettled           \* sessions whose recovery was itself cut short

files == <<currentFile, crashedFile, lastInForeground, crashState, reports, appState,
           previousAppState>>
memory == <<session, mine, closingTimestamp, crashedLastLaunch, comparable, wasActive>>
environment == <<foreground, deaths, moves>>
history == <<captured, nextSid, fate, lastDeath, lost, unsettled>>
vars == <<files, memory, todo, work, stateUpdates, environment, history>>

Queue == {"crash", "watchdog"}

Label == {"boot", "install", "endCrashed", "deleteCurrent", "sendReports", "awaitReports",
          "storeAppState", "endCached", "closeCached", "capture",
          "start", "captureInit", "end", "deleteTimestamp", "exit"}

WorkLabel == {"check", "event", "deleteCrashed", "deleteReports"}

AppState == [exists: BOOLEAN, isActive: BOOLEAN, wasTerminated: BOOLEAN]
NoState == [exists |-> FALSE, isActive |-> FALSE, wasTerminated |-> FALSE]
FreshState == [NoState EXCEPT !.exists = TRUE]    \* buildCurrentAppState

(* "active": killed while in the foreground, or before the app state file  *)
(* said otherwise; "background": killed in the background.                 *)
Fate == {"alive", "crashed", "active", "background", "exited"}

(* [SentrySDK start] and the installation of its integrations, in order.   *)
Launch == <<"boot", "install", "endCrashed", "deleteCurrent", "sendReports", "awaitReports",
            "storeAppState", "endCached", "closeCached", "capture">>

Sids == 1 .. (MaxMoves + 1)

TypeOK ==
    /\ {currentFile, crashedFile, session, mine} \subseteq MaybeSession
    /\ {lastInForeground, crashState, closingTimestamp, crashedLastLaunch, comparable,
        wasActive, foreground} \subseteq BOOLEAN
    /\ reports \in 0 .. MaxDeaths
    /\ {appState, previousAppState} \subseteq AppState
    /\ todo \in Seq(Label)
    /\ work \in [Queue -> Seq(WorkLabel)]
    /\ stateUpdates \in Seq(BOOLEAN)
    /\ deaths \in 0 .. MaxDeaths
    /\ moves \in 0 .. MaxMoves
    /\ captured \in Seq(Session)
    /\ nextSid \in 1 .. (MaxMoves + 1)
    /\ fate \in [Sids -> Fate]
    /\ lastDeath \in Fate
    /\ lost \subseteq Sids
    /\ unsettled \subseteq Sids

(* The memory of a process that starts.                                    *)
Started ==
    /\ session' = NoSession
    /\ mine' = NoSession
    /\ closingTimestamp' = FALSE
    /\ crashedLastLaunch' = FALSE
    /\ comparable' \in BOOLEAN
    /\ wasActive' = FALSE
    /\ todo' = Launch
    /\ work' = [q \in Queue |-> <<>>]
    /\ stateUpdates' = <<>>
    /\ foreground' = FALSE

Init ==
    /\ currentFile = NoSession
    /\ crashedFile = NoSession
    /\ lastInForeground = FALSE
    /\ crashState = FALSE
    /\ reports = 0
    /\ appState = NoState
    /\ previousAppState = NoState
    /\ session = NoSession
    /\ mine = NoSession
    /\ closingTimestamp = FALSE
    /\ crashedLastLaunch = FALSE
    /\ comparable = TRUE
    /\ wasActive = FALSE
    /\ todo = Launch
    /\ work = [q \in Queue |-> <<>>]
    /\ stateUpdates = <<>>
    /\ foreground = FALSE
    /\ deaths = 0
    /\ moves = 0
    /\ captured = <<>>
    /\ nextSid = 1
    /\ fate = [s \in Sids |-> "alive"]
    /\ lastDeath = "alive"
    /\ lost = {}
    /\ unsettled = {}

-----------------------------------------------------------------------------
(* The main thread takes the step it has come to.                          *)
At(label) == todo # <<>> /\ Head(todo) = label
Doing(label) == At(label) /\ todo' = Tail(todo)

SidOf(s) == {s.sid} \ {0}

WasTerminated_Ignored == FALSE    \* mutant: wasTerminated is not tested
WasTerminated == previousAppState.wasTerminated

WasActive == previousAppState.isActive

(* isWatchdogTermination.  The conditions that compare the two app states, *)
(* and isDebugging, isANROngoing and isSDKRunning, are in "comparable".    *)
IsWatchdogTermination ==
    /\ WatchdogTracking
    /\ previousAppState.exists
    /\ comparable
    /\ ~WasTerminated
    /\ ~crashedLastLaunch
    /\ WasActive

(* moveAppStateToPreviousAppState.                                         *)
Boot ==
    /\ Doing("boot")
    /\ previousAppState' = appState
    /\ appState' = NoState
    /\ UNCHANGED <<currentFile, crashedFile, lastInForeground, crashState, reports, memory,
                   work, stateUpdates, environment, history>>

(* sentrycrash_install loads the crash state and saves it reset.           *)
CrashStateAfterInstall_Kept == crashState    \* mutant: the state is not reset
CrashStateAfterInstall == FALSE

Install ==
    /\ Doing("install")
    /\ crashedLastLaunch' = crashState
    /\ crashState' = CrashStateAfterInstall
    /\ UNCHANGED <<currentFile, crashedFile, lastInForeground, reports, appState,
                   previousAppState, session, mine, closingTimestamp, comparable, wasActive,
                   work, stateUpdates, environment, history>>

(* endCurrentSessionAsCrashedWhenCrashOrOOM: store the crashed session ... *)
MustEndAsCrashed ==
    /\ crashedLastLaunch \/ IsWatchdogTermination
    /\ currentFile # NoSession

EndCrashedSession ==
    /\ Doing("endCrashed")
    /\ crashedFile' = IF MustEndAsCrashed THEN EndCrashed(currentFile) ELSE crashedFile
    /\ lost' = IF MustEndAsCrashed THEN lost \cup SidOf(crashedFile) ELSE lost
    /\ UNCHANGED <<currentFile, lastInForeground, crashState, reports, appState,
                   previousAppState, memory, work, stateUpdates, environment,
                   captured, nextSid, fate, lastDeath, unsettled>>

(* ... then delete the current one.                                        *)
CurrentAfterCrash == IF MustEndAsCrashed THEN NoSession ELSE currentFile

DeleteCurrent ==
    /\ Doing("deleteCurrent")
    /\ currentFile' = CurrentAfterCrash
    /\ UNCHANGED <<crashedFile, lastInForeground, crashState, reports, appState,
                   previousAppState, memory, work, stateUpdates, environment, history>>

(* sendAllReports: all reports are read; a startup crash makes the main    *)
(* thread send them itself, which is to wait for the queue.                *)
SendReports ==
    /\ At("sendReports")
    /\ work' = IF reports = 0 THEN work
               ELSE [work EXCEPT !["crash"] =
                        [i \in 1 .. reports |-> "event"] \o <<"deleteReports">>]
    /\ \E startupCrash \in BOOLEAN :
          /\ startupCrash => crashedLastLaunch
          /\ todo' = IF startupCrash THEN Tail(todo) ELSE Tail(Tail(todo))
    /\ UNCHANGED <<files, memory, stateUpdates, environment, history>>

AwaitReports ==
    /\ work["crash"] = <<>>
    /\ Doing("awaitReports")
    /\ UNCHANGED <<files, memory, work, stateUpdates, environment, history>>

(* The watchdog tracker starts the app state manager and checks on its     *)
(* queue.                                                                  *)
StoreAppState ==
    /\ Doing("storeAppState")
    /\ IF WatchdogTracking
       THEN /\ appState' = FreshState
            /\ work' = [work EXCEPT !["watchdog"] = <<"check">>]
       ELSE UNCHANGED <<appState, work>>
    /\ UNCHANGED <<currentFile, crashedFile, lastInForeground, crashState, reports,
                   previousAppState, memory, stateUpdates, environment, history>>

(* endCachedSession.                                                       *)
EndCachedSession ==
    /\ Doing("endCached")
    /\ closingTimestamp' = lastInForeground
    /\ lastInForeground' = FALSE
    /\ UNCHANGED <<currentFile, crashedFile, crashState, reports, appState, previousAppState,
                   session, mine, crashedLastLaunch, comparable, wasActive, work,
                   stateUpdates, environment, history>>

(* closeCachedSessionWithTimestamp; the session it closed is captured in   *)
(* the step after.                                                         *)
MayClose_OnlyExited ==    \* mutant: a session without timestamp is left alone
    currentFile # NoSession /\ ~crashedLastLaunch /\ closingTimestamp
MayClose == currentFile # NoSession /\ ~crashedLastLaunch

CloseCachedSession ==
    /\ Doing("closeCached")
    /\ IF MayClose
       THEN /\ mine' = IF closingTimestamp THEN EndExited(currentFile)
                                           ELSE EndAbnormal(currentFile)
            /\ currentFile' = NoSession
       ELSE UNCHANGED <<mine, currentFile>>
    /\ UNCHANGED <<crashedFile, lastInForeground, crashState, reports, appState,
                   previousAppState, session, closingTimestamp, crashedLastLaunch, comparable,
                   wasActive, work, stateUpdates, environment, history>>

(* captureSession of the session that was closed or replaced, if any.      *)
CaptureMine ==
    /\ Doing("capture")
    /\ captured' = IF mine = NoSession THEN captured ELSE Append(captured, mine)
    /\ mine' = NoSession
    /\ UNCHANGED <<files, session, closingTimestamp, crashedLastLaunch, comparable, wasActive,
                   work, stateUpdates, environment, nextSid, fate, lastDeath, lost, unsettled>>

-----------------------------------------------------------------------------
(* startSession: replace and store the session, capture its init, then     *)
(* capture the one it replaced.                                            *)
LastSession == IF session = NoSession THEN NoSession ELSE EndExited(session)

StartSession ==
    /\ Doing("start")
    /\ mine' = LastSession
    /\ session' = NewSession(nextSid, 0)
    /\ currentFile' = session'
    /\ nextSid' = nextSid + 1
    /\ UNCHANGED <<crashedFile, lastInForeground, crashState, reports, appState,
                   previousAppState, closingTimestamp, crashedLastLaunch, comparable, wasActive,
                   work, stateUpdates, environment, captured, fate, lastDeath, lost, unsettled>>

CaptureInit ==
    /\ Doing("captureInit")
    /\ captured' = Append(captured, session)
    /\ UNCHANGED <<files, memory, work, stateUpdates, environment, nextSid, fate, lastDeath,
                   lost, unsettled>>

(* endSessionWithTimestamp: take the session and delete its file.          *)
EndSession ==
    /\ Doing("end")
    /\ mine' = LastSession
    /\ session' = NoSession
    /\ currentFile' = NoSession
    /\ UNCHANGED <<crashedFile, lastInForeground, crashState, reports, appState,
                   previousAppState, closingTimestamp, crashedLastLaunch, comparable, wasActive,
                   work, stateUpdates, environment, history>>

DeleteTimestamp ==
    /\ Doing("deleteTimestamp")
    /\ lastInForeground' = FALSE
    /\ UNCHANGED <<currentFile, crashedFile, crashState, reports, appState, previousAppState,
                   memory, work, stateUpdates, environment, history>>

MainStep ==
    \/ Boot \/ Install \/ EndCrashedSession \/ DeleteCurrent
    \/ SendReports \/ AwaitReports \/ StoreAppState
    \/ EndCachedSession \/ CloseCachedSession \/ CaptureMine
    \/ StartSession \/ CaptureInit \/ EndSession \/ DeleteTimestamp

-----------------------------------------------------------------------------
(* Notifications arrive on the main thread when it has nothing to do.      *)
Notified == todo = <<>> /\ moves < MaxMoves /\ moves' = moves + 1

(* The app state manager queues its update; without it there is none.      *)
QueueUpdate(active) ==
    stateUpdates' = IF WatchdogTracking THEN Append(stateUpdates, active) ELSE stateUpdates

(* What didBecomeActive does the first time, depending on how long the app *)
(* was in the background.                                                  *)
Start == <<"start", "captureInit", "capture">>
End == <<"end", "capture">>

ActivationWork ==
    {IF ~lastInForeground THEN Start \o <<"deleteTimestamp">>
     ELSE IF long THEN End \o Start \o <<"deleteTimestamp">>
     ELSE <<"deleteTimestamp">> : long \in BOOLEAN}

(* didBecomeActive may be posted again while the app is active.            *)
DidBecomeActive ==
    /\ Notified
    /\ foreground' = TRUE
    /\ QueueUpdate(TRUE)
    /\ wasActive' = TRUE
    /\ IF wasActive THEN UNCHANGED todo ELSE todo' \in ActivationWork
    /\ UNCHANGED <<files, session, mine, closingTimestamp, crashedLastLaunch, comparable, work,
                   deaths, history>>

WillResignActive ==
    /\ Notified
    /\ foreground
    /\ foreground' = FALSE
    /\ QueueUpdate(FALSE)
    /\ lastInForeground' = TRUE
    /\ wasActive' = FALSE
    /\ UNCHANGED <<currentFile, crashedFile, crashState, reports, appState, previousAppState,
                   session, mine, closingTimestamp, crashedLastLaunch, comparable, todo, work,
                   deaths, history>>

(* The app state is updated before willTerminate returns.                  *)
WillTerminate ==
    /\ "terminate" \in Deaths
    /\ deaths < MaxDeaths
    /\ todo = <<>>
    /\ appState' = IF appState.exists THEN [appState EXCEPT !.wasTerminated = TRUE] ELSE appState
    /\ wasActive' = FALSE
    /\ todo' = End \o <<"deleteTimestamp", "exit">>
    /\ UNCHANGED <<currentFile, crashedFile, lastInForeground, crashState, reports,
                   previousAppState, session, mine, closingTimestamp, crashedLastLaunch,
                   comparable, work, stateUpdates, environment, history>>

(* updateAppStateInBackground, on its queue.                               *)
UpdateAppState ==
    /\ stateUpdates # <<>>
    /\ stateUpdates' = Tail(stateUpdates)
    /\ appState' = IF appState.exists
                   THEN [appState EXCEPT !.isActive = Head(stateUpdates)]
                   ELSE appState
    /\ UNCHANGED <<currentFile, crashedFile, lastInForeground, crashState, reports,
                   previousAppState, memory, todo, work, environment, history>>

(* incrementSessionErrors on another thread, outside startSession's lock.  *)
CaptureError ==
    /\ session # NoSession
    /\ ~At("captureInit")
    /\ moves < MaxMoves
    /\ moves' = moves + 1
    /\ session' = IncrementErrors(session)
    /\ currentFile' = session'
    /\ captured' = Append(captured, session')
    /\ UNCHANGED <<crashedFile, lastInForeground, crashState, reports, appState,
                   previousAppState, mine, closingTimestamp, crashedLastLaunch, comparable,
                   wasActive, todo, work, stateUpdates, foreground, deaths, nextSid, fate,
                   lastDeath, lost, unsettled>>

-----------------------------------------------------------------------------
(* The two queues that capture crash events.                               *)
NextWork(q, label) == work[q] # <<>> /\ Head(work[q]) = label

WorkLeft(q, more) == work' = [work EXCEPT ![q] = more \o Tail(@)]

CheckWatchdog ==
    /\ NextWork("watchdog", "check")
    /\ WorkLeft("watchdog", IF IsWatchdogTermination THEN <<"event">> ELSE <<>>)
    /\ UNCHANGED <<files, memory, todo, stateUpdates, environment, history>>

(* captureCrashEvent: the crashed session goes with the event, and is gone *)
(* with it when the event is dropped.  A report that cannot be converted   *)
(* to an event leaves everything as it is.                                 *)
CaptureCrashEvent(q) ==
    /\ NextWork(q, "event")
    /\ crashedFile # NoSession
    /\ \/ captured' = Append(captured, crashedFile) /\ UNCHANGED lost
       \/ lost' = lost \cup SidOf(crashedFile) /\ UNCHANGED captured
    /\ WorkLeft(q, <<"deleteCrashed">>)
    /\ UNCHANGED <<files, memory, todo, stateUpdates, environment, nextSid, fate, lastDeath,
                   unsettled>>

EventWithoutSession(q) ==
    /\ NextWork(q, "event")
    /\ crashedFile = NoSession \/ q = "crash"
    /\ WorkLeft(q, <<>>)
    /\ UNCHANGED <<files, memory, todo, stateUpdates, environment, history>>

DeleteCrashedSession(q) ==
    /\ NextWork(q, "deleteCrashed")
    /\ crashedFile' = NoSession
    /\ WorkLeft(q, <<>>)
    /\ UNCHANGED <<currentFile, lastInForeground, crashState, reports, appState,
                   previousAppState, memory, todo, stateUpdates, environment, history>>

(* The completion of sendAllReports.                                       *)
DeleteAllReports ==
    /\ NextWork("crash", "deleteReports")
    /\ reports' = 0
    /\ WorkLeft("crash", <<>>)
    /\ UNCHANGED <<currentFile, crashedFile, lastInForeground, crashState, appState,
                   previousAppState, memory, todo, stateUpdates, environment, history>>

WorkStep(q) ==
    \/ CaptureCrashEvent(q)
    \/ EventWithoutSession(q)
    \/ DeleteCrashedSession(q)

-----------------------------------------------------------------------------
(* The process dies as "how" and is launched again.                        *)
Dies(how) ==
    /\ deaths < MaxDeaths
    /\ deaths' = deaths + 1
    /\ fate' = IF session = NoSession THEN fate ELSE [fate EXCEPT ![session.sid] = how]
    /\ lastDeath' = IF At("boot") THEN lastDeath ELSE how
    /\ lost' = lost \cup SidOf(mine)
    /\ unsettled' = unsettled \cup
                      ((SidOf(currentFile) \cup SidOf(crashedFile)) \ SidOf(session))
    /\ Started
    /\ UNCHANGED <<moves, captured, nextSid, currentFile, crashedFile, lastInForeground,
                   appState, previousAppState>>

(* By the system or the user, or by a crash before SentryCrash is there.   *)
Killed ==
    /\ "kill" \in Deaths
    /\ Dies(IF foreground \/ stateUpdates # <<>> THEN "active" ELSE "background")
    /\ UNCHANGED <<crashState, reports>>

(* onCrash: the crash state is saved, then the report is written, if the   *)
(* process gets that far.                                                  *)
Crashes ==
    /\ "crash" \in Deaths
    /\ ~At("boot") /\ ~At("install")
    /\ Dies("crashed")
    /\ crashState' = TRUE
    /\ reports' \in {reports, reports + 1}

Exits ==
    /\ At("exit")
    /\ Dies("exited")
    /\ UNCHANGED <<crashState, reports>>

-----------------------------------------------------------------------------
(* Nothing is left to do.                                                  *)
Quiet == todo = <<>> /\ stateUpdates = <<>> /\ \A q \in Queue : work[q] = <<>>
Rest == Quiet /\ UNCHANGED vars

Next ==
    \/ MainStep
    \/ DidBecomeActive \/ WillResignActive \/ WillTerminate
    \/ UpdateAppState
    \/ CaptureError
    \/ CheckWatchdog
    \/ DeleteAllReports
    \/ \E q \in Queue : WorkStep(q)
    \/ Killed \/ Crashes \/ Exits
    \/ Rest

Spec == Init /\ [][Next]_vars

-----------------------------------------------------------------------------
(* Every session is the current one, or on disk, or about to be captured,  *)
(* or was captured with an end.  Its end is lost only if the process dies  *)
(* with it in hand, if the crash event it goes with is dropped, or if the  *)
(* next crashed session is stored over it.  And when a launch has done its *)
(* work, the session file is that of this process, or there is none, and   *)
(* no crash report is left: what a dead process left behind was closed and *)
(* sent.                                                                   *)
NoSessionLost ==
    /\ \A sid \in 1 .. (nextSid - 1) :
           \/ sid \in {session.sid, mine.sid, currentFile.sid, crashedFile.sid}
           \/ EndedIn(captured, sid)
           \/ sid \in lost
    /\ Quiet => currentFile = session /\ reports = 0

(* How a session ended is how its process died, unless the process that    *)
(* was to recover it died too: after a crash it is reported as crashed,    *)
(* never as exited or abnormal; it is reported as crashed only after a     *)
(* crash or a death in the foreground, and as abnormal only after the      *)
(* latter.  Nor do two different updates of a session carry the same       *)
(* sequence number, through any number of launches, so the server does not *)
(* have to choose between two ends.                                        *)
EndIsTruthful ==
    /\ \A i \in DOMAIN captured :
           LET u == captured[i]
           IN  (IsEnded(u) /\ u.sid \notin unsettled)
                 => /\ fate[u.sid] = "crashed" => u.status = "crashed"
                    /\ u.status = "crashed" => fate[u.sid] \in {"crashed", "active"}
                    /\ u.status = "abnormal" => fate[u.sid] = "active"
    /\ \A p \in SamePair(captured) :
           LET u == captured[p[1]] v == captured[p[2]]
           IN  (u.sid \notin unsettled /\ u.seq = v.seq) => u = v

(* A watchdog termination is reported only when the last process that ran  *)
(* the SDK was killed in the foreground, or before its last app state      *)
(* update reached the file.                                                *)
WatchdogIsReal ==
    (IsWatchdogTermination /\ (At("endCrashed") \/ NextWork("watchdog", "check")))
      => lastDeath = "active"

=============================================================================
