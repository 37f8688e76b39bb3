------------------------------ MODULE CrashMonitors ------------------------------
(***************************************************************************)
(* The crash handlers of SentryCrash while a process dies: the monitors of *)
(* Mach exceptions, signals, C++ and Objective-C exceptions, the flags of  *)
(* SentryCrashMonitor.c that tell a crash of the handler from a first      *)
(* crash, the suspension of the other threads, onCrash with the files it   *)
(* writes, and what the next launch reads of the replay info.              *)
(*                                                                         *)
(* Threads take their steps one at a time.  A thread that crashes inside a *)
(* handler never comes back to it (either the process dies in the inner    *)
(* handler or the kernel kills it), so one record per thread is enough.    *)
(* Suspending and resuming "all other threads" is one step.                *)
(***************************************************************************)
EXTENDS Integers, FiniteSets, Sequences

CONSTANTS App,          \* the threads of the application
          Main,         \* the one that starts and closes the SDK
          Primary,      \* the Mach exception thread
          Secondary,    \* the spare Mach exception thread
          MaxCrashes,   \* bound on crashes, those of the handlers included
          MaxInstalls   \* bound on installations of the reporter

ASSUME CrashMonitorsAssumption ==
    /\ Main \in App /\ IsFiniteSet(App)
    /\ Primary # Secondary /\ Primary \notin App /\ Secondary \notin App
    /\ MaxCrashes \in Nat /\ MaxInstalls \in Nat

VARIABLES mon,     \* the monitors and the handlers of the process
          core,    \* flags of SentryCrashMonitor.c and paths of SentryCrashC.c
          thr,     \* every thread
          port,    \* messages waiting at the exception port
          alive,   \* the process runs
          disk,    \* files, by name and by inode
          hist     \* what happened: crashes, installations, reports finished

vars == <<mon, core, thr, port, alive, disk, hist>>

----------------------------------------------------------------------------
(* Monitor types *)

MonitorTypeAll == {"mach", "signal", "cpp", "ns", "appstate"}

MonitorTypeDebuggerUnsafe == {"mach", "signal", "cpp", "ns"}

MonitorTypeAsyncSafe == {"mach", "signal"}

HandlerThread == {Primary, Secondary}

Thread == App \cup HandlerThread

Steps == {"run", "closing", "listen", "gone", "blocked", "signalled", "enter",
          "notify", "notified", "context", "state", "path", "open", "write",
          "replay", "replayed", "rename", "reopen", "embed", "rmold", "rewrite",
          "callbacks", "done", "resume", "exit"}

\* The steps in which handler code reads the memory of a broken process.
OnCrashSteps == {"state", "path", "open", "write", "replay", "replayed", "rename",
                 "reopen", "embed", "rmold", "rewrite", "callbacks"}

----------------------------------------------------------------------------
(* sentrycrashcm_setActiveMonitors and the setEnabled of every monitor     *)

Mask(types, traced, async) ==
    LET a == IF traced THEN types \ MonitorTypeDebuggerUnsafe ELSE types
    IN  IF async THEN a \cap MonitorTypeAsyncSafe ELSE a

\* g_isEnabled of the Mach monitor is the result of installExceptionHandler;
\* the exception ports are installed once and stay when it is disabled.
MachSetEnabled(m, on, works) ==
    LET isEnabled == on /\ (m.installed \/ works)
    IN  [m EXCEPT !.enabled = IF isEnabled THEN @ \cup {"mach"} ELSE @ \ {"mach"},
                  !.ports = IF isEnabled /\ ~m.installed THEN "sentry" ELSE @,
                  !.installed = @ \/ isEnabled]

\* A failed installSignalHandler leaves g_isEnabled set.
SignalSetEnabled(m, on, works) ==
    IF on = ("signal" \in m.enabled) THEN m
    ELSE [m EXCEPT !.enabled = IF on THEN @ \cup {"signal"} ELSE @ \ {"signal"},
                   !.sig = IF ~on THEN "original" ELSE IF works THEN "sentry" ELSE @]

NSSetEnabled(m, on) ==
    IF on = ("ns" \in m.enabled) THEN m
    ELSE [m EXCEPT !.enabled = IF on THEN @ \cup {"ns"} ELSE @ \ {"ns"},
                   !.ns = IF on THEN "sentry" ELSE "original"]

\* Disabling also forgets the original terminate handler.
CPPSetEnabled(m, on) ==
    IF on = ("cpp" \in m.enabled) THEN m
    ELSE [m EXCEPT !.enabled = IF on THEN @ \cup {"cpp"} ELSE @ \ {"cpp"},
                   !.term = IF on THEN "sentry" ELSE "original",
                   !.originalTerm = on]

AppStateSetEnabled(m, on) ==
    [m EXCEPT !.enabled = IF on THEN @ \cup {"appstate"} ELSE @ \ {"appstate"}]

SetActiveMonitors(types, machWorks, sigWorks) ==
    LET on == Mask(types, mon.traced, core.async)
    IN  AppStateSetEnabled(
          CPPSetEnabled(
            NSSetEnabled(
              SignalSetEnabled(
                MachSetEnabled(mon, "mach" \in on, machWorks),
                "signal" \in on, sigWorks),
              "ns" \in on),
            "cpp" \in on),
          "appstate" \in on)

NoMonitors == SetActiveMonitors({}, FALSE, FALSE)

RestoreExceptionPorts(m) == [m EXCEPT !.ports = "original"]

----------------------------------------------------------------------------
(* Threads *)

Runs(t) == alive /\ thr[t].susp = 0

Goes(t, step) == [thr EXCEPT ![t].at = step]

Moves(t, step) == thr' = Goes(t, step)

\* sentrycrashcm_isReservedThread: the exception threads are never suspended.
Others(t) == App \ {t}

SuspendEnvironment(t, step) ==
    [u \in Thread |->
        IF u = t THEN [thr[u] EXCEPT !.at = step, !.held = Others(t)]
        ELSE IF u \in Others(t) THEN [thr[u] EXCEPT !.susp = @ + 1]
        ELSE thr[u]]

\* thread_resume of a thread that is not suspended fails and is logged.
ThreadResume(r) == [r EXCEPT !.susp = IF @ > 0 THEN @ - 1 ELSE 0]

ResumeEnvironment(t, step) ==
    [u \in Thread |->
        IF u = t THEN [thr[u] EXCEPT !.at = step, !.held = {}]
        ELSE IF u \in thr[t].held THEN ThreadResume(thr[u])
        ELSE thr[u]]

----------------------------------------------------------------------------
(* Installing and closing the reporter, on the main thread *)

Install(machWorks, sigWorks) ==
    /\ Runs(Main) /\ thr[Main].at = "run"
    /\ ~core.installed /\ hist.installs < MaxInstalls
    /\ mon' = SetActiveMonitors(MonitorTypeAll, machWorks, sigWorks)
    /\ core' = [core EXCEPT !.installed = TRUE, !.callback = TRUE]
    /\ hist' = [hist EXCEPT !.installs = @ + 1]
    /\ UNCHANGED <<thr, port, alive, disk>>

\* SentryCrash.uninstall first switches the monitors off and then, in
\* sentrycrash_uninstall, takes the callback away.
BeginUninstall ==
    /\ Runs(Main) /\ thr[Main].at = "run" /\ core.installed
    /\ mon' = NoMonitors
    /\ Moves(Main, "closing")
    /\ hist' = [hist EXCEPT !.closed = TRUE]
    /\ UNCHANGED <<core, port, alive, disk>>

Uninstall ==
    /\ Runs(Main) /\ thr[Main].at = "closing"
    /\ core' = [core EXCEPT !.installed = FALSE, !.callback = FALSE]
    /\ Moves(Main, "run")
    /\ UNCHANGED <<mon, port, alive, disk, hist>>

\* sentrySessionReplaySync_start: a replay begins, its info file has a path.
StartReplay ==
    /\ Runs(Main) /\ thr[Main].at = "run" /\ core.installed /\ ~core.replay
    /\ core' = [core EXCEPT !.replay = TRUE]
    /\ UNCHANGED <<mon, thr, port, alive, disk, hist>>

----------------------------------------------------------------------------
(* Crashes *)

\* A bad access of thread t: the kernel sends it to the exception port, or, when
\* the port is not ours, turns it into a signal.
BadAccess(t) ==
    IF mon.ports = "sentry"
    THEN /\ port' = Append(port, t)
         /\ Moves(t, "blocked")
    ELSE /\ thr' = [thr EXCEPT ![t].at = "signalled", ![t].sig = "SEGV"]
         /\ UNCHANGED port

Counted(t) ==
    /\ hist.crashes < MaxCrashes
    /\ hist' = [hist EXCEPT !.crashes = @ + 1,
                            !.threads = @ \cup {t}]

AppFault(t) ==
    /\ Runs(t) /\ thr[t].at \in {"run", "closing"} /\ Counted(t)
    /\ BadAccess(t)
    /\ UNCHANGED <<mon, core, alive, disk>>

\* abort() raises SIGABRT, which the exception mask leaves out.
Abort(t) ==
    /\ Runs(t) /\ thr[t].at \in {"run", "closing"} /\ Counted(t)
    /\ thr' = [thr EXCEPT ![t].at = "signalled", ![t].sig = "ABRT"]
    /\ UNCHANGED <<mon, core, port, alive, disk>>

\* An uncaught exception ends in the terminate handler, ours or the one of the
\* Objective-C runtime, which runs the uncaught exception handler and aborts.
Throw(t, what) ==
    /\ Runs(t) /\ thr[t].at \in {"run", "closing"} /\ Counted(t)
    /\ thr' = CASE mon.term = "sentry" ->
                     [thr EXCEPT ![t].at = "enter", ![t].kind = "cpp", ![t].what = what]
                [] mon.term # "sentry" /\ what = "ns" /\ mon.ns = "sentry" ->
                     [thr EXCEPT ![t].at = "enter", ![t].kind = "ns", ![t].what = what]
                [] OTHER -> [thr EXCEPT ![t].at = "signalled", ![t].sig = "ABRT"]
    /\ UNCHANGED <<mon, core, port, alive, disk>>

\* The handler itself touches bad memory.
HandlerFault(t) ==
    /\ Runs(t) /\ thr[t].at \in OnCrashSteps
    /\ hist.crashes < MaxCrashes
    /\ hist' = [hist EXCEPT !.crashes = @ + 1]
    /\ BadAccess(t)
    /\ UNCHANGED <<mon, core, alive, disk>>

----------------------------------------------------------------------------
(* Entry into the handlers *)

\* Delivery of a signal: to handleSignal, or the default action.  A signal that
\* is raised again while its own handler runs kills the process.
TakeSignal(t) ==
    /\ Runs(t) /\ thr[t].at = "signalled"
    /\ IF mon.sig = "sentry" /\ thr[t].sig \notin thr[t].mask
       THEN /\ thr' = [thr EXCEPT ![t].at = "enter", ![t].kind = "signal",
                                  ![t].mask = @ \cup {thr[t].sig}]
            /\ UNCHANGED alive
       ELSE alive' = FALSE /\ UNCHANGED thr
    /\ UNCHANGED <<mon, core, port, disk, hist>>

\* mach_msg of handleExceptions.
Receive(h) ==
    /\ Runs(h) /\ mon.installed /\ thr[h].at = "listen" /\ port # <<>>
    /\ port' = Tail(port)
    /\ thr' = [thr EXCEPT ![h].at = "enter", ![h].kind = "mach", ![h].from = Head(port)]
    /\ UNCHANGED <<mon, core, alive, disk, hist>>

\* A handler suspends the other threads and goes through the steps from "notify"
\* to "resume"; while its monitor is not enabled it goes straight to its exit.
HandleExceptions(t) == IF "mach" \in mon.enabled THEN SuspendEnvironment(t, "notify") ELSE Goes(t, "exit")

HandleSignal(t) == IF "signal" \in mon.enabled THEN SuspendEnvironment(t, "notify") ELSE Goes(t, "exit")

\* handleException of the NSException monitor.
HandleNSException(t) == IF "ns" \in mon.enabled THEN SuspendEnvironment(t, "notify") ELSE Goes(t, "exit")

\* Works whether or not its monitor is enabled, and leaves an NSException to the
\* handler it replaced.
CPPExceptionTerminate(t) == SuspendEnvironment(t, IF thr[t].what = "ns" THEN "resume" ELSE "notify")

Enter(t) ==
    /\ Runs(t) /\ thr[t].at = "enter"
    /\ thr' = CASE thr[t].kind = "mach"   -> HandleExceptions(t)
                [] thr[t].kind = "signal" -> HandleSignal(t)
                [] thr[t].kind = "ns"     -> HandleNSException(t)
                [] thr[t].kind = "cpp"    -> CPPExceptionTerminate(t)
    /\ UNCHANGED <<mon, core, port, alive, disk, hist>>

\* mutant: the flag is raised before it is tested
Notify_RaisedFirst(t) ==
    /\ Runs(t) /\ thr[t].at = "notify"
    /\ core' = [core EXCEPT !.async = @ \/ thr[t].kind = "mach",
                            !.handling = TRUE, !.recrashed = TRUE]
    /\ Moves(t, "notified")
    /\ UNCHANGED <<mon, port, alive, disk, hist>>

\* sentrycrashcm_notifyFatalExceptionCaptured reads the flag and sets it in two
\* steps: the flags are plain variables.
Notify(t) ==
    /\ Runs(t) /\ thr[t].at = "notify"
    /\ core' = [core EXCEPT !.async = @ \/ thr[t].kind = "mach",
                            !.recrashed = @ \/ core.handling]
    /\ Moves(t, "notified")
    /\ UNCHANGED <<mon, port, alive, disk, hist>>

\* ... and the first exception thread gives the ports back and wakes the second.
Notified(t) ==
    /\ Runs(t) /\ thr[t].at = "notified"
    /\ core' = [core EXCEPT !.handling = TRUE]
    /\ mon' = LET m == IF core.recrashed THEN NoMonitors ELSE mon
              IN  IF t = Primary THEN RestoreExceptionPorts(m) ELSE m
    /\ thr' = IF t = Primary
              THEN [thr EXCEPT ![t].at = "context", ![Secondary] = ThreadResume(@)]
              ELSE Goes(t, "context")
    /\ UNCHANGED <<port, alive, disk, hist>>

\* The context of every monitor is a static variable: cleared for each crash,
\* except the one of the Mach monitor, which its two threads share.
Context(t) ==
    /\ Runs(t) /\ thr[t].at = "context"
    /\ core' = [core EXCEPT !.context[thr[t].kind] =
                   core.recrashed \/ (thr[t].kind = "mach" /\ @)]
    /\ Moves(t, "state")
    /\ UNCHANGED <<mon, port, alive, disk, hist>>

----------------------------------------------------------------------------
(* onCrash *)

Name(id, ext) == <<id, ext>>

Inode(type) == [type |-> type, complete |-> FALSE, inner |-> "none"]

\* A directory is a function from the names of its files to their inodes.
Link(dir, name, inode) ==
    [n \in DOMAIN dir \cup {name} |-> IF n = name THEN inode ELSE dir[n]]

Unlink(dir, name) == [n \in DOMAIN dir \ {name} |-> dir[n]]

FileIn(d, name) == name \in DOMAIN d.dir

\* open with O_CREAT | O_EXCL: a new inode becomes the named file.
Create(d, name, type) ==
    [d EXCEPT !.data = Append(@, Inode(type)),
              !.dir = Link(@, name, Len(d.data) + 1)]

\* sentrycrashstate_notifyAppCrash, and the choice between the two reports.  A
\* callback that was taken away is a call through NULL.
NotifyAppCrash(t) ==
    /\ Runs(t) /\ thr[t].at = "state"
    /\ \/ /\ core.callback
          /\ disk' = [disk EXCEPT !.crashState = @ \/ "appstate" \in mon.enabled]
          /\ Moves(t, IF core.context[thr[t].kind] THEN "rename" ELSE "path")
          /\ UNCHANGED port
       \/ /\ ~core.callback
          /\ BadAccess(t)
          /\ UNCHANGED disk
    /\ UNCHANGED <<mon, core, alive, hist>>

\* sentrycrashcrs_getNextCrashReportPath
NextCrashReportPath(t) ==
    /\ Runs(t) /\ thr[t].at = "path"
    /\ core' = [core EXCEPT !.nextID = @ + 1, !.lastPath = core.nextID]
    /\ thr' = [thr EXCEPT ![t].at = "open", ![t].path = core.nextID]
    /\ UNCHANGED <<mon, port, alive, disk, hist>>

\* sentrycrashreport_writeStandardReport opens the file ...
OpenStandardReport(t) ==
    /\ Runs(t) /\ thr[t].at = "open"
    /\ disk' = Create(disk, Name(thr[t].path, "json"), "standard")
    /\ thr' = [thr EXCEPT ![t].at = "write", ![t].fd = Len(disk.data) + 1]
    /\ UNCHANGED <<mon, core, port, alive, hist>>

\* ... and fills it section by section until it closes it.
WriteStandardReport(t) ==
    /\ Runs(t) /\ thr[t].at = "write"
    /\ disk' = [disk EXCEPT !.data[thr[t].fd].complete = TRUE]
    /\ hist' = [hist EXCEPT !.finished = TRUE]
    /\ Moves(t, "replay")
    /\ UNCHANGED <<mon, core, port, alive>>

\* sentrySessionReplaySync_writeInfo truncates the info file ...
OpenReplayInfo(t) ==
    /\ Runs(t) /\ thr[t].at = "replay"
    /\ disk' = IF core.replay THEN [disk EXCEPT !.replayInfo = "empty"] ELSE disk
    /\ Moves(t, IF core.replay THEN "replayed" ELSE "callbacks")
    /\ UNCHANGED <<mon, core, port, alive, hist>>

\* ... and writes the segment and its end.
WriteReplayInfo(t) ==
    /\ Runs(t) /\ thr[t].at = "replayed"
    /\ disk' = [disk EXCEPT !.replayInfo = "written"]
    /\ Moves(t, "callbacks")
    /\ UNCHANGED <<mon, core, port, alive, hist>>

\* mutant: the first report is removed, not moved away
RenameReport_Removes(t) ==
    /\ Runs(t) /\ thr[t].at = "rename"
    /\ disk' = IF core.lastPath # 0
               THEN [disk EXCEPT !.dir = Unlink(@, Name(core.lastPath, "json"))]
               ELSE disk
    /\ thr' = [thr EXCEPT ![t].at = "reopen", ![t].path = core.lastPath]
    /\ UNCHANGED <<mon, core, port, alive, hist>>

\* sentrycrashreport_writeRecrashReport first moves the report away; with no
\* report so far the path is empty and rename and open both fail.
RenameReport(t) ==
    /\ Runs(t) /\ thr[t].at = "rename"
    /\ LET json == Name(core.lastPath, "json")
           old  == Name(core.lastPath, "old")
       IN  disk' = IF FileIn(disk, json)
                   THEN [disk EXCEPT !.dir = Link(Unlink(@, json), old, @[json])]
                   ELSE disk
    /\ thr' = [thr EXCEPT ![t].at = "reopen", ![t].path = core.lastPath]
    /\ UNCHANGED <<mon, core, port, alive, hist>>

OpenRecrashReport(t) ==
    /\ Runs(t) /\ thr[t].at = "reopen"
    /\ LET json == Name(thr[t].path, "json")
       IN  IF thr[t].path # 0 /\ ~FileIn(disk, json)
           THEN /\ disk' = Create(disk, json, "recrash")
                /\ thr' = [thr EXCEPT ![t].at = "embed", ![t].fd = Len(disk.data) + 1]
           ELSE /\ Moves(t, "callbacks")
                /\ UNCHANGED disk
    /\ UNCHANGED <<mon, core, port, alive, hist>>

\* writeRecrash copies the old file, as it is now, into the new one and flushes.
EmbedOldReport(t) ==
    /\ Runs(t) /\ thr[t].at = "embed"
    /\ LET old == Name(thr[t].path, "old")
       IN  disk' = [disk EXCEPT !.data[thr[t].fd].inner =
                       IF ~FileIn(disk, old) THEN "none"
                       ELSE IF disk.data[disk.dir[old]].complete THEN "complete" ELSE "partial"]
    /\ Moves(t, "rmold")
    /\ UNCHANGED <<mon, core, port, alive, hist>>

RemoveOldReport(t) ==
    /\ Runs(t) /\ thr[t].at = "rmold"
    /\ disk' = [disk EXCEPT !.dir = Unlink(@, Name(thr[t].path, "old"))]
    /\ Moves(t, "rewrite")
    /\ UNCHANGED <<mon, core, port, alive, hist>>

WriteRecrashReport(t) ==
    /\ Runs(t) /\ thr[t].at = "rewrite"
    /\ disk' = [disk EXCEPT !.data[thr[t].fd].complete = TRUE]
    /\ Moves(t, "callbacks")
    /\ UNCHANGED <<mon, core, port, alive, hist>>

\* Screenshots, view hierarchy and the running transaction.
RunCallbacks(t) ==
    /\ Runs(t) /\ thr[t].at = "callbacks"
    /\ Moves(t, "done")
    /\ UNCHANGED <<mon, core, port, alive, disk, hist>>

----------------------------------------------------------------------------
(* Leaving the handlers *)

\* The end of sentrycrashcm_handleException.
RestoreHandlers(t) ==
    /\ Runs(t) /\ thr[t].at = "done"
    /\ mon' = IF core.handling /\ ~core.recrashed THEN NoMonitors ELSE mon
    /\ Moves(t, "resume")
    /\ UNCHANGED <<core, port, alive, disk, hist>>

\* mutant: no handler resumes the threads it suspended
Resume_Nobody(t) ==
    /\ Runs(t) /\ thr[t].at = "resume"
    /\ Moves(t, "exit")
    /\ UNCHANGED <<mon, core, port, alive, disk, hist>>

\* The Objective-C handler never resumes what it suspended.
Resume(t) ==
    /\ Runs(t) /\ thr[t].at = "resume"
    /\ thr' = IF thr[t].kind = "ns" THEN Goes(t, "exit") ELSE ResumeEnvironment(t, "exit")
    /\ UNCHANGED <<mon, core, port, alive, disk, hist>>

Signalled(f, t, sig) == [f EXCEPT ![t].at = "signalled", ![t].sig = sig, ![t].mask = {}]

\* The reply "I did not handle this" turns the exception into a signal of the
\* thread that raised it; the exception thread ends.
Reply(t) ==
    [thr EXCEPT ![t].at = "gone", ![thr[t].from].at = "signalled", ![thr[t].from].sig = "SEGV"]

\* The original terminate handler is that of the Objective-C runtime; it is only
\* known while the C++ monitor is enabled.
CallOriginalTerminationHandler(t) ==
    IF mon.originalTerm /\ thr[t].what = "ns" /\ mon.ns = "sentry"
    THEN [thr EXCEPT ![t].at = "enter", ![t].kind = "ns"]
    ELSE Signalled(thr, t, "ABRT")

Exit(t) ==
    /\ Runs(t) /\ thr[t].at = "exit"
    /\ thr' = CASE thr[t].kind = "mach"   -> Reply(t)
                [] thr[t].kind = "signal" -> Signalled(thr, t, thr[t].sig)
                [] thr[t].kind = "cpp"    -> CallOriginalTerminationHandler(t)
                [] thr[t].kind = "ns"     -> Signalled(thr, t, "ABRT")
    /\ UNCHANGED <<mon, core, port, alive, disk, hist>>

----------------------------------------------------------------------------
(* The next launch, when it turns the crash report into an event *)

\* resumePreviousSessionReplay reads the info file of the replay.
NextLaunch ==
    /\ ~alive /\ disk.launch = "no"
    /\ \E n \in DOMAIN disk.dir : n[2] = "json"
    /\ disk' = [disk EXCEPT !.launch = "reading"]
    /\ UNCHANGED <<mon, core, thr, port, alive, hist>>

\* sentrySessionReplaySync_readInfo; sentrycrashfu_readBytesFromFD loops until it
\* has all bytes, and at the end of an empty file it gets none, for ever.
ReadReplayInfo ==
    /\ disk.launch = "reading" /\ disk.replayInfo # "empty"
    /\ disk' = [disk EXCEPT !.launch = "done"]
    /\ UNCHANGED <<mon, core, thr, port, alive, hist>>

----------------------------------------------------------------------------
(* Specification *)

Init ==
    /\ mon \in [enabled : {{}}, traced : BOOLEAN, installed : {FALSE}, originalTerm : {FALSE},
                ports : {"original"}, sig : {"original"}, ns : {"original"}, term : {"original"}]
    /\ core = [installed |-> FALSE, callback |-> FALSE, handling |-> FALSE, recrashed |-> FALSE,
               async |-> FALSE, replay |-> FALSE, nextID |-> 1, lastPath |-> 0,
               context |-> [k \in MonitorTypeDebuggerUnsafe |-> FALSE]]
    /\ thr = [t \in Thread |->
                [at |-> IF t \in App THEN "run" ELSE "listen",
                 susp |-> IF t = Secondary THEN 1 ELSE 0,
                 kind |-> "mach", what |-> "cpp", sig |-> "SEGV", mask |-> {}, held |-> {},
                 from |-> Main, path |-> 0, fd |-> 0]]
    /\ port = <<>>
    /\ alive = TRUE
    /\ disk = [dir |-> <<>>, data |-> <<>>,
               crashState |-> FALSE, replayInfo |-> "absent", launch |-> "no"]
    /\ hist = [crashes |-> 0, threads |-> {}, installs |-> 0, finished |-> FALSE, closed |-> FALSE]

OnCrash(t) ==
    \/ NotifyAppCrash(t)
    \/ NextCrashReportPath(t)
    \/ OpenStandardReport(t)
    \/ WriteStandardReport(t)
    \/ OpenReplayInfo(t)
    \/ WriteReplayInfo(t)
    \/ RenameReport(t)
    \/ OpenRecrashReport(t)
    \/ EmbedOldReport(t)
    \/ RemoveOldReport(t)
    \/ WriteRecrashReport(t)
    \/ RunCallbacks(t)

HandlerStep(t) ==
    \/ TakeSignal(t)
    \/ Enter(t)
    \/ Notify(t)
    \/ Notified(t)
    \/ Context(t)
    \/ OnCrash(t)
    \/ RestoreHandlers(t)
    \/ Resume(t)
    \/ Exit(t)

Next ==
    \/ \E machWorks, sigWorks \in BOOLEAN : Install(machWorks, sigWorks)
    \/ BeginUninstall
    \/ Uninstall
    \/ StartReplay
    \/ \E t \in App : AppFault(t)
    \/ \E t \in App : Abort(t)
    \/ \E t \in App, what \in {"cpp", "ns"} : Throw(t, what)
    \/ \E t \in Thread : HandlerFault(t)
    \/ \E h \in HandlerThread : Receive(h)
    \/ \E t \in Thread : HandlerStep(t)
    \/ NextLaunch
    \/ ReadReplayInfo

\* The kernel lets every thread that is not suspended run, and the next launch
\* goes on; nothing makes a thread crash.
Fairness ==
    /\ \A t \in Thread : WF_vars(HandlerStep(t))
    /\ \A h \in HandlerThread : WF_vars(Receive(h))
    /\ WF_vars(Uninstall)
    /\ WF_vars(NextLaunch)
    /\ WF_vars(ReadReplayInfo)

Spec == Init /\ [][Next]_vars /\ Fairness

----------------------------------------------------------------------------
(* Properties *)

\* The program only crashed in one thread; all other crashes are the handlers'.
Alone == Cardinality(hist.threads) <= 1

\* Types of the variables (SentryCrashMonitorContext.h, SentryCrashMonitorType.h).
TypeOK ==
    /\ mon \in [enabled : SUBSET MonitorTypeAll, traced : BOOLEAN, installed : BOOLEAN,
                originalTerm : BOOLEAN, ports : {"original", "sentry"},
                sig : {"original", "sentry"}, ns : {"original", "sentry"},
                term : {"original", "sentry"}]
    /\ core \in [installed : BOOLEAN, callback : BOOLEAN, handling : BOOLEAN,
                 recrashed : BOOLEAN, async : BOOLEAN, replay : BOOLEAN, nextID : Nat,
                 lastPath : Nat, context : [MonitorTypeDebuggerUnsafe -> BOOLEAN]]
    /\ thr \in [Thread -> [at : Steps, susp : Nat, kind : MonitorTypeDebuggerUnsafe,
                           what : {"cpp", "ns"}, sig : {"SEGV", "ABRT"},
                           mask : SUBSET {"SEGV", "ABRT"}, held : SUBSET App,
                           from : Thread, path : Nat, fd : Nat]]
    /\ port \in Seq(Thread)
    /\ alive \in BOOLEAN
    /\ disk \in [dir : {disk.dir}, crashState : BOOLEAN, launch : {"no", "reading", "done"},
                 replayInfo : {"absent", "empty", "written"},
                 data : Seq([type : {"standard", "recrash"}, complete : BOOLEAN,
                             inner : {"none", "partial", "complete"}])]
    /\ \A n \in DOMAIN disk.dir :
           n \in Nat \X {"json", "old"} /\ disk.dir[n] \in DOMAIN disk.data
    /\ hist \in [crashes : Nat, threads : SUBSET App, installs : Nat,
                 finished : BOOLEAN, closed : BOOLEAN]

\* A finished report of the first crash outlives every crash of the handlers
\* that follow it: it lies under its own name, as the .old file, or inside the
\* report of the second crash (sentrycrashreport_writeRecrashReport).
ReportKept ==
    hist.finished /\ Alone =>
        \E n \in DOMAIN disk.dir :
            LET i == disk.data[disk.dir[n]]
            IN  (i.type = "standard" /\ i.complete) \/ i.inner = "complete"

\* A crash is judged as what it is.  It is only taken for a crash of the crash
\* handler if something crashed before it: one crash that passes through several
\* handlers (terminate, then abort, then SIGABRT) is one crash
\* (sentrycrashcm_notifyFatalExceptionCaptured; the flag is never reset, so a
\* reporter installed again while a thread is dying takes the second half of
\* that crash for a new one, which is excluded).  And if one thread crashed and
\* the SDK was not being closed, a report on disk comes with a crash state that
\* says so: the next launch ends the session as crashed if and only if it finds
\* that state (onCrash, notifyAppCrash).
CrashIsJudged ==
    /\ (\E k \in DOMAIN core.context : core.context[k]) => hist.crashes > 1 \/ hist.installs > 1
    /\ DOMAIN disk.dir # {} /\ Alone /\ ~hist.closed => disk.crashState

\* Crashes, also of two threads at once and of the handlers, end the process:
\* no thread waits for one that another handler suspended.  (Closing the SDK
\* leaves the exception port installed with nobody behind it; excluded.)
Terminates == (hist.threads # {}) ~> (~alive \/ hist.closed)

=============================================================================
