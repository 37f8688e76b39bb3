# A TLA+ model of the Sentry SDK for Apple platforms

The SDK runs inside somebody else's application. It is called on any thread,
keeps its queue of outgoing data in files, and must give a true account of
sessions and losses although the process can die at any instruction. This
directory holds TLA+ modules for the parts where that is hard, TLC
configurations that check them on small instances, and TLAPS proofs for every
value of the constants. `PROJECT.json` maps every definition to the source lines
it stands for and lists the hazards, the runs, the mutants, the findings and the
theorems.

Contents: [inventory](#1-inventory), [modules](#2-the-modules),
[runs](#3-the-runs), [proofs](#4-what-is-proved),
[disagreements](#5-where-the-code-and-its-documents-disagree),
[limits](#6-what-is-not-modelled), [plan](#7-plan).

## 1. Inventory

`Sources/Sentry` is the SDK (Objective-C), `Sources/Swift` its newer parts and
`Sources/SentryCrash` the crash reporter (C). How they hang together:

```
 application threads       timers, notifications, run loop        process death
        |                              |                                |
        v                              v                                v
  SentryHub  <---- sessions ---- SentrySessionTracker            SentryCrash monitors
   |  |  |  \                    SentryWatchdogTermination..       | crash state, reports
   |  |  |   \-- SentryTracer, SentrySpan <- performance trackers  | (writer, codec, tools)
   |  |  |            |    \                 idle/deadline timers  | read without locks:
   |  |  |            |     \-- profilers -> sampling thread       |  images, thread names,
   |  |  |            |                      hang tracker thread   |  copy of the scope
   |  v  |            |                                            v
   | SentryScope -- observers -> copy of the scope, breadcrumb files
   |     v            v                               SentryCrashIntegration
   |  SentryClient (beforeSend, sampling, attachments)  <- report sink (own queue)
   |     |
   v     v
 files <-> SentryFileManager <-> SentryHttpTransport <-> request manager <-> server
 (envelopes, sessions,            |  serial queue, reachability, flush
  app state, timestamp)           +-- rate limits, client reports, Spotlight
```

Components, the state they keep, and what makes them correct. The first block is
modelled.

| component | state | operations | hard because | correct when |
|---|---|---|---|---|
| HTTP transport | `isSending`, `isFlushing`, dispatch group, not-stored envelopes | `sendEnvelope`, `storeEnvelope`, `flush`, `sendAllCachedEnvelopes`, completion handler, wakeup | five kinds of threads call it; flags under two locks; delayed blocks | one sender at a time, nothing lost uncounted, nothing sent again once answered, flush ends |
| envelope cache | directory of envelope files | store, evict, migrate session init, list, load, delete, delete old | the lock is released between listing and loading; eviction hits the file being sent; death between write and eviction | bounded; an evicted session init moves to the next envelope of its session |
| rate limits | category -> date | update from a response, filter an envelope | responses in any order, 429 without header | never sends what the server asked to hold back |
| client reports | category, reason -> quantity | record loss, attach report | counters leave memory with an envelope that may be lost | every lost item is counted |
| hub sessions | `_session`, `_errorsBeforeSession`, session file | start, end, captureError, hybrid envelopes | some reads and one counter outside the lock; copies sent after the lock | updates of a session are ordered by `seq` and never contradict |
| session recovery | session, crashed session, timestamp, app state, crash state files; reports | launch sequence, foreground and background, three queues | death between any two file operations, also while recovering | each session gets one true end |
| tracer | children, `isFinished`, `wasFinishCalled`, idle block, deadline timer | start child, finish child, finish, idle timeout, deadline, finish for crash | all of them on different threads, two nested locks, read before lock | captured once, with its children, and always in the end |
| crash monitors | flags and static contexts of the handlers, exception port, suspended threads, the report file | install, uninstall, Mach, signal, C++ and NSException handlers, `onCrash` | run in a dying process; crash themselves; two threads crash at once; no locks allowed | the first report survives, one crash is one crash, the process dies |
| crash state and report store | state file, directory of reports, ids | load, save, notifications; list, prune, add, delete, send | death between truncation and write; ids from the clock; other files in the directory | the next launch is told the truth and sends every report |
| report writer, codec, crash tools | the report as it is written; none | write, rewrite after a crash of the handler, fix; read memory, objects, stacks, text, files | input is a corrupted process; everything has a limit | the report can be read, nothing unchecked is followed, each tool gives what its definition says |
| crash caches | image list, thread names | dyld callbacks, start, stop; the monitor thread's update | read by the crash handler without a lock between any two stores | nothing freed is read; every image is there |
| scope, observers, copy for the crash handler | tags, extras, contexts, span ..., breadcrumb ring; their copies in C memory | setters, clear, addBreadcrumb, copying | a lock per field or none; clear takes the user away without it and tells the observers outside the locks; a crash between two assignments | the copy agrees with the scope; the ring keeps the newest crumbs in order |
| breadcrumb files | two files, handle, counter | add, switch, clear; move and read at launch | killed at any step; no header says which file is older | the next launch reads the last breadcrumbs in order |
| hang trackers | thread state, listeners, `reported` | add, remove, clear; the thread; the block on the main queue | start, stop and clear race the thread's own exit; a plain flag shared with the main thread | one thread watches while there are listeners; a hang that was told is told to be over |
| trace and continuous profiler | profiler, tracers per profiler, timers, `_stopCalled` | start, end, timeout, chunk timer, background | shared by concurrent tracers under two locks; stop is deferred | a profile lasts as long as somebody wants it, and ends |
| sampling profiler | sampling thread, clock alarm, suspended thread | start, stop, sample | suspends threads that hold locks; stop joins with a lock held | no thread stays suspended; stop returns |

| component, not modelled yet | state | why it is hard | property wanted |
|---|---|---|---|
| app start measurement | static measurement, read flag | several transactions finish at once | attached to at most one transaction |
| session replay | segment id, pause state, frame buffer | video is made on a queue while the session changes (`SentrySessionReplay.swift:242`) | segment ids of a replay are consecutive |
| launch profile | configuration file, tracer of the launch | starts before the SDK, ends with another tracer | ends exactly once |
| rate limit parsers, sampling, frames delay | none | corner cases of pure functions | equal to a reference definition |

Everything else (formats, UIKit walks, feedback widgets, logging, swizzling,
MetricKit conversion) is listed in `PROJECT.json` with the reason it stays out.

## 2. The modules

| module | models | notes |
|---|---|---|
| `Envelopes` | envelope items, `SentryMigrateSessionInit`, the directory | an envelope is `[id, types, init]` with at most one item of a kind; files are named by ascending numbers |
| `RateLimits` | `SentryDefaultRateLimits`, `SentryEnvelopeRateLimit`, `SentryDateUtil` | a response carries parsed limits; dates are numbers |
| `ClientReports` | `recordLostEvent`, spans of a lost transaction, the report item | counters per category and reason |
| `HttpTransport` | `SentryHttpTransport` with the above, `SentryFileManager`, the queues and the request manager | composes the three modules |
| `TransportRest` | the same with a history of how the last pass ended | for the run on liveness |
| `Sessions` | `SentrySession` | session record, sequence numbers, ends |
| `HubSessions` | the session half of `SentryHub` on several threads | extends `Sessions` |
| `SessionRecovery` | what several launches do with the session files | extends `Sessions` |
| `Tracer` | one `SentryTracer` with its children and timers | four configurations: manual, screen load, UI event, launch profile |
| `CrashMonitors` | the four handlers, `SentryCrashMonitor.c`, `onCrash` and its files, the replay info | application threads and the two exception threads |
| `JsonCodec` | `SentryCrashJSONCodec.c` | a text is a sequence of tokens |
| `ObjCRuntime` | `SentryCrashObjC.c` | memory is a function from readable addresses |
| `CrashReport` | `SentryCrashReport.c`, `SentryCrashReportFixer.c` | composes the two above; a section is the calls it makes on the writer |
| `CrashTools` | memory, text, buffered files, tables of signals | loops as recursive operators |
| `StackUnwinding` | machine contexts, the stack cursors, the profiler's walk, images and symbols | likewise |
| `CrashReportStore` | report directory, crash state file, sending at start | over several launches |
| `BinaryImageCache`, `ThreadCache` | what the handler reads without a lock | each store is a step |
| `ScopeSync` | `SentryScopeSyncC.c` | each assignment is a step, also of the clear that has no lock; implements `CrumbLog` |
| `CrumbLog` | nothing in the code: what the breadcrumbs of a report promise | abstract specification, with a log that two calls may spoil |
| `Scope` | fields and locks of `SentryScope`, `SentryCrashScopeObserver` | threads set and clear; the user is cleared without its lock |
| `Breadcrumbs` | ring and copies in `SentryScope`, `SentryWatchdogTerminationScopeObserver`, the move and the reading in `SentryFileManager` | several killed launches, and the clear that has no lock |
| `HangTracker` | both versions of the tracker | one life cycle, two ways to wake up |
| `Profilers` | trace and continuous profiler | above `SamplingProfiler` |
| `SamplingProfiler` | the sampling thread, its alarm, the threads it suspends | |
| `MC...` | the small instances | contents of envelopes, configurations, jobs; parts that share no state share an instance and a variable `focus` says which one a behaviour is about |
| `HttpTransportProofs`, `HubSessionsProofs`, `SessionRecoveryProofs`, `TracerProofs`, `CrashMonitorsProofs`, `SamplingProofs` | the proofs about one module each | |
| `CrashStorageProofs` | the proofs about `CrashReportStore`, `BinaryImageCache`, `ThreadCache`, `Scope`, `ScopeSync` and the ring of `Breadcrumbs` | they share no variable |
| `MonitoringProofs` | the proofs about `HangTracker` and `Profilers` | |

**Steps.** A step ends where the code releases a lock, returns to a queue or
writes a file, because that is where another thread, or a death, can come in.
Work that no other thread can observe is merged into the step. Where a crash
handler reads memory without a lock, every store is a step.

*HttpTransport.* The threads are the one that creates the transport (`init`), the
reachability queue (`reach`), the transport's serial queue (`queue`), the
delegate queue of the URL session (`session`) and one that calls `storeEnvelope`
(`app`); `pc` says where each is in `sendAllCachedEnvelopes`. `StartSending` is the
test and set of `isSending`; `TakeNotStored`, `ListEnvelopes` and `LoadEnvelope`
follow; loading, rate limiting and building the request are one step, because
they touch nothing shared but the limits. `DeleteEnvelopeAndSendNext` removes the
file, resets `isSending` and starts the delayed block. `Evict` is one turn of the
eviction loop with the monitor held. `flush` is `FlushRefused`, `FlushBegin`,
`FlushDispatch`, and ends by the group or by `FlushTimesOut`. `Crash` empties
memory and starts a new process. Local failures (a file that cannot be written, a
request that cannot be built, a migration that cannot be stored) are in the
constant `Faults`. History variables remember what was accepted, answered,
counted, given up by design (`excused`), and told by the server.

*HubSessions.* Each locked region is a step. `startSession` is two, since the
unlocked `_errorsBeforeSession++` can fall between its read and its reset; the
increment itself is a load and a store. A session that a thread has taken out of
`_session` is its own, so ending it is merged with the taking.

*SessionRecovery.* The main thread works through `todo`, one label per file it
writes; the crash report queue, the watchdog queue and the app state queue run
beside it. `Killed`, `Crashes` and `Exits` can come between any two steps and put
the process back to `Launch`. The comparisons of app version, OS version, boot
time, debugger and hang that rule out a watchdog termination are folded into one
input, `comparable`. `unsettled` marks sessions whose recovery was itself cut
short by a death; several properties except them, see section 5.

*Tracer.* `pc` follows a worker through `startChild`, `canBeFinished`,
`finishInternal` and `deadlineTimerFired`. The lock on `_children` is kept in a
variable because the deadline's loop holds it while every finished child calls
back into the tracer. The main thread also makes application calls; the idle
timeout runs on the SDK's serial queue, so it runs once at a time. The crash
handler runs with all other threads suspended: if one of them may be inside a
locked region the outcome can be `hangs`. A transaction may be found too long
(nondeterministic for automatic transactions). `dispatch_block_create` is assumed
to succeed: if it did not, `finishInternal` would run under the locks on self and
on the timeout and take the one on `_children`, against the order of
`deadlineTimerFired` (`SentryTracer.m:244` and `:299`).

*CrashMonitors.* `thr` says for each thread in which handler it is and where,
which signals it masks and whom it has suspended. The test of the flag
`g_handlingFatalException` and its setting are two steps. A crash can come at any
step of a handler; the thread then enters the next handler that is installed. The
report file passes through opened, written, renamed to `.old` and embedded, and
`Alone` says that only one thread of the application crashed. The directory is a
function from names to files, so that a file that was renamed (`Unlink`, `Link`) is
still the one its writer has open. `NextLaunch` reads the replay info.

*CrashReport, JsonCodec, ObjCRuntime, CrashTools, StackUnwinding.* Functions, not
processes. `MCCrashData` chooses a job in its initial states (a crash to write, an
object to inspect, a text to encode and decode, a memory to search, a stack to
walk), an action does it with the translated loops, and the invariants compare the
result with a definition of what was wanted: a report parses and holds the
sections in order; a walk over objects touches only checked addresses and ends; a
string comes back from the codec; the last readable byte is the last one; a stack
is a prefix of the true chain of frames. The texts of a report are classes: one that
is fine, one with a control character that has no escape, one that cannot be decoded
midway, one too long for the writer and one too long for the fixer. A document goes
through the decoder and the encoder of the writer as in `addJSONElement`; what does
not pass leaves the JSON open, and `ReportIsReadable` says which sections are where
then, and when it is no JSON at all. The fixer drops a report that is deeper than its
`MaxDepth`, or with a text too long for its buffers (the reason of the crash, or JSON
that did not pass); its output buffer of one and a half times the input is never
filled, since the report is printed with white space that the fixer leaves out. Bytes
of memory are text exactly when they have the *form* of UTF-8, which in
`SentryCrashString.c:139` includes five and six bytes and overlong forms. The sampled
stack is compared frame by frame with the frames that climb from one to the next.

*CrashReportStore.* One step per file operation. Whether a listed report can be
loaded, and one that was loaded can be converted, is open; `failed` collects those
that were not. A user report takes the next id and writes over a file of that name.
`Ids` are made of the second of the launch and a counter. `history` remembers what
really happened.

*BinaryImageCache, ThreadCache.* dyld calls back one call at a time on the thread
that loads an image. A cancelled monitor thread goes on until it sleeps, so two may
overlap.

*Scope.* A setter is two steps, the field and the observer, with the lock held from
the first to the second unless the field has none. `clear` is one step for each
field (what is left to empty is a set, `Place` gives the order) and one for the
observers. It waits for the locks of the fields but for that of the user
(`ClearedFreely`). `stale` collects the fields whose copy may differ
for one of the reasons `ScopeIsMirrored` names, and a later set takes the field out
again.

*Breadcrumbs.* The lock on the array is held while the observer writes, so one
addition is in progress at a time and its steps are the two writes, the switch and
its removal and creation of a file. `Killed` can come at any of them; `MoveFirst`
and `MoveSecond` are the next launch. A file is a sequence of breadcrumbs and line
ends. The second clear of the observer (`SentryScope.m:192`), outside the lock, is a
process of its own (`wiper`): it deletes the two files and opens the first again while
a call of another thread may be anywhere in its writes; where the two meet, the
handle, the counter and the files take any of the values the calls may leave.

*ScopeSync.* `call` is the call that holds the lock and `wipe` the clear that does
not. Any step of one may come between any two of the other. `mingled` remembers that
they met, until a clear or a configuration begins alone.

*HangTracker.* The thread's locked regions, its sleeps and its reports are steps;
in version 1 the three accesses of the block on the main queue are steps of their
own, for `reported` is a plain variable. Version 2 asks the frames tracker for the
delay of frames, an input that is constrained only after a whole quiet interval, and
unknown (-1) while that tracker is paused in the background or stopped. It is started
and stopped by profiles, unless something else keeps it (`SentryProfiler.mm:130`).

*Profilers.* The start of a trace profile holds the lock of the trace profiler over
three steps, the end of a tracer takes only the lock of the maps. The main thread
holds a decision (timeout, background, clean-up) between reading and acting.

*SamplingProfiler.* The sampling thread waits for an alarm, lists threads, reads
what needs a lock, suspends, walks and resumes; waiting for the alarm or setting the
next may fail, which ends it; application threads take and
release one lock, come and go, and a handle may be reused.

**External definitions.** Grand Central Dispatch, the URL session and the file
system are modelled by how the code uses them: serial queues, delayed blocks,
group counts, requests that end in a response, an error or both.

## 3. The runs

Each run takes at most about two minutes with two workers. In the first six a
self-loop named `Rest` is enabled exactly in the states in which nothing is left to
do, so every other stop is an error. The others say `CHECK_DEADLOCK FALSE`, because
there the system may stop: the process is dead, the bounded number of launches or
calls is used up, a job is done.

| run | instance | distinct states | shows |
|---|---|---|---|
| `transport_delivery` | the init of a session and two updates with errors, cache of 2, one connectivity change, answers ok, error, none, limit of 1 or 2, clock to 1 | 976,862 | `OneSender`, `InitLostOnlyByEviction`, `AnsweredOnce`, `BackOffRespected` |
| `transport_crash` | five envelopes, three of them found on disk (one corrupt, one too old), a transaction, a direct store, Spotlight, all local failures, 429, no response, one death | 1,068,936 | `NoSilentLoss` through failures and death, `CacheBounded` |
| `transport_liveness` | two envelopes, cache of 1, two flushing threads or one and a connectivity change, Spotlight, writes that fail, answers ok or none, fair | 375,004 | `GroupBalanced`, `ComesToRest` |
| `hub_sessions` | three threads, calls of any kind, fair | 177,890 | `UpdatesAreOrdered`, `FileIsCurrent`, `EndIsCaptured` |
| `recovery` | two deaths of any kind, three foreground changes or errors | 1,243,737 | `NoSessionLost`, `EndIsTruthful`, `WatchdogIsReal` |
| `tracer` | four configurations, main thread, another thread and the queue, two children, fair | 215,785 | `CapturedOnce`, `ChildrenAreSent`, `OpenForAReason`, `ScopeIsReleased`, `AutoFinishes` |
| `crash_handling` | two application and two exception threads, three crashes, two installations, fair | 245,409 | `ReportKept`, `CrashIsJudged`, `Terminates` |
| `crash_data` | every job of `MCCrashData`, with buffers and depths of a few units | 221,998 | `ReportIsReadable`, `InspectionIsSafe`, `TextSurvives`, `DataIsExact`, `StackIsWalked` |
| `crash_storage` | report store: three launches, one report kept, attachments; caches: three images (one unreadable), two starts, two monitor threads; scope: two threads, five fields with the user and one without lock, four calls; ring of the copy: sizes 0 to 2, eight calls, two at once; breadcrumbs: limits 0 to 2, five crumbs, two in the copy, one clear, one fault, two kills | 3,164,695 | `NoReportLost`, `CrashStateIsTrue`, `ImagesAreComplete`, `ThreadNamesAreSafe`, `ScopeIsMirrored`, `CrumbsAreKept`, and the refinement `CrumbsAreLogged` |
| `sampling_profiler` | two threads, two handles, two clients, two starts, fair | 765,670 | `QuietWhenStopped`, `StopEnds` |
| `monitoring` | hang tracker: both versions, one listener and three calls, two threads, two hangs, trips to the background or profiles that start or stop the frames tracker; profilers: three tracers or three starts, two trips; fair | 344,290 | `HangsAreWatched`, `HangsAreOver`, `ProfilesAreShared`, `ProfilesEnd` |
| `claim_all_report_ids` | the report store of `crash_storage` | - | ends in a violation, section 5 |

What the exceptions in the properties say is part of the result: each was needed
because the code without it violates the rest, and each is named in the comment of
the property and, where it is a defect, in section 5.

**Bounds, and why they are enough.** Three envelopes are one more than the cache
holds, so that an eviction happens, and with two updates behind the init it
matters to which of them the init migrates. One connectivity change puts a second
thread into `sendAllCachedEnvelopes` while the first is at any of its steps
(`transport_liveness` has it with one thread that flushes, and two of these without
it: `MaxPrompts`). Clock
values 0 and 1 with limits of 1 and 2 give a limit that has passed, one that has
not, and a shorter one after a longer one. Two deaths let the launch that recovers
a session die too; the third launch settles it. Two children are enough for a last
child and a late one. Three crashes are a crash, one in its handler and one in the
handler of that, or of another thread. Three launches with one report kept let a
report be pruned by a newer one. Rings of 0, 1 and 2 are none, one that always
wraps, and one that has an order; five breadcrumbs fill a file of two, the other,
and begin the first again, with one fault on the way; two kills let the launch that
moves the files die, and one clear of the scope meets an addition, or another clear of
the breadcrumbs, at any step of its part without the lock. The directory of reports
and the crash state file depend on nothing of each other but the start and the end of
a launch, so a behaviour of `crash_storage` is about one of the two. Three calls let a listener come, go and come again while the
thread of the first is anywhere; a third tracer can join a profile that the second
has just ended. Named bounds: `MaxWakeups`, `MaxPrompts`, `MaxCrashes`, `MaxTime`, `MaxCalls`,
`MaxDeaths`, `MaxMoves`, `MaxInstalls`, `IdsPerSecond`, `MaxLaunches`, `MaxLoads`,
`MaxStarts`, `MaxUpdates`, `MaxFreezes`, `MaxScopeCalls`, `MaxCrumbs`, `MaxCopied`,
`MaxClears`, `MaxFaults`, `MaxKills`, `MaxSpawns`, `MaxSamples`, `MaxBlocks`, `MaxListenerCalls`,
`MaxHangs`, `MaxResigns`; each flusher flushes once per launch. The tracer needs no
bound. Buffer sizes and bit widths of `crash_data` are the code's limits scaled
down so that inputs of a few tokens reach them.

**Fairness.** `HttpTransport`: every dispatched block runs, every delayed block
fires, every request ends (the URL session has a timeout), and a thread inside the
transport goes on. Nothing is assumed of the application, the network or the
clock. `ComesToRest` says that the chain of passes always ends, and names the four ways
in which it ends with envelopes left (no response, a lost wakeup, an eviction between
listing and loading, a queue full of Spotlight requests); all four happen in
`transport_liveness`, and nothing in the code or in the fairness would take what is
left before the next call. `HubSessions`: a thread inside a call
goes on. `Tracer`: likewise, and strong fairness for the main run loop's timer and
queue, since the application returns to the run loop again and again but need not
stay there. `CrashMonitors`: a handler that runs goes on, the kernel delivers
exceptions to a waiting thread. `SamplingProfiler`: alarms ring, threads that run
release their lock, clients go on; strong fairness for the sampling thread, which
is enabled again and again when another thread releases the lock. `HangTracker`:
threads and queues go on and a hang or a stay in the background ends; nobody need
start the frames tracker again. `Profilers`: a
start that began goes on, the main queue runs, timers go off; tracers need not end.

**Refinement.** `CrumbsAreLogged` is the specification of `CrumbLog` with `log` the
breadcrumbs that the crash handler would write now, `capacity` the configured
maximum, `clearing` whether a clear is under way and `spoilt` whether two calls met
(`INSTANCE CrumbLog WITH` in `ScopeSync`). Every assignment of `sentrycrash_scopesync_addBreadcrumb`, of a clear or
of a configuration must be a step of the log or leave it as it is, which is what makes
a crash between any two of them harmless. Beside the clear that has no lock it is
not: then the log is spoilt, and promises nothing until a clear or a configuration
begins alone. The runs show it for limits up to 2, section
4 proves it for every limit.

**Mutants.** For each property of a passing run a definition is replaced by a
version with a plausible bug (named `Definition_What`), and TLC must then refute
the property; `PROJECT.json` lists the pairs.

## 4. What is proved

Every theorem holds for any values of the constants that satisfy the assumptions of
the modules it is about (`ContentAssumption`, `TransportAssumption`, `HubAssumption`
and so on: types, naturals, sets that differ, finiteness where the code has a
finite thing; TLC evaluates them in every run). The bounds that runs need are
constants too: the theorems hold for any number of deaths, calls, launches or
crashes. Everything the proofs use of a data structure (a directory, a table of
limits, two arrays, a list of images) is a lemma beside the theorem.

| module | theorem | states |
|---|---|---|
| `HttpTransport` | `TypeCorrect`, `SendingIsExclusive`, `GroupIsBalanced`, `CacheIsBounded`, `RateLimitsRespected`, `LossesAreCounted`, `AnswersAreFinal`, `InitsComeFirst` | `TypeOK`, `OneSender`, `GroupBalanced`, `CacheBounded`, `BackOffRespected`, `NoSilentLoss`, `AnsweredOnce`, `InitLostOnlyByEviction` |
| `HubSessions` | `TypeCorrect`, `FileFollowsMemory`, `UpdatesOrdered` | `TypeOK`, `FileIsCurrent`, `UpdatesAreOrdered` |
| `SessionRecovery` | `TerminationsAreReal`, `SessionsSurvive`, `EndsAreReported` | `WatchdogIsReal`, `NoSessionLost`, `EndIsTruthful` |
| `Tracer` | `TracerTypeCorrect`, `TransactionCapturedOnce`, `TransactionIsComplete`, `TransactionFinishes`, `ScopeReleased` | `TypeOK`, `CapturedOnce`, `ChildrenAreSent`, `OpenForAReason`, `ScopeIsReleased` |
| `CrashMonitors` | `TypeCorrect`, `FirstReportKept`, `CrashesAreJudged` | `TypeOK`, `ReportKept`, `CrashIsJudged` |
| `CrashReportStore` | `ReportsAreKept`, `LoadedStateIsTrue` | `NoReportLost`, `CrashStateIsTrue` |
| `BinaryImageCache` | `LoadedImagesAreComplete` | `ImagesAreComplete` |
| `ThreadCache` | `CachedNamesAreSafe` | `ThreadNamesAreSafe` |
| `Scope` | `MirrorFollowsScope` | `ScopeIsMirrored` |
| `ScopeSync` | `CrumbsLogged` | `CrumbsAreLogged` (`RingSpec` implements `CrumbLog`) |
| `Breadcrumbs` | `RingsKeepTheLast` | `RingsShowTheLast`, the first part of `CrumbsAreKept` |
| `HangTracker` | `HangsWatched` | `HangsAreWatched` |
| `Profilers` | `OneSharedProfile` | `ProfilesAreShared` |
| `SamplingProfiler` | `StoppedIsQuiet` | `QuietWhenStopped` |

None of these properties is inductive alone. What each proof adds to it:

*HttpTransport.* `IndInv == TypeOK /\ Monitor /\ GroupBalanced /\ OneSender /\
LimitsKept`. The group count is natural only because it is entered exactly while
`isFlushing` is set, and an evicting thread has a file to evict only because it owns
the monitor and the directory is over its limit (`Monitor`). `LimitsKept` says that
the stored limits are no earlier than any date the server asked for; from it, and
from what filtering removes, `BackOffRespected` follows.
`LossInv == NothingLost /\ DeletedIsSettled /\ RequestCarries` is what losing nothing
means in the middle of things: each accepted item is held somewhere or settled
(answered, counted or excused), what a thread is about to delete is settled, and a
request carries whatever is not yet settled of the file it was read from. The last
two need that a file name is never used again (`PathsAreOld`), or else a late answer
would delete a newer envelope.
`Places` says that, before the first death, an item is in one place of file,
not-stored list and block, that an item in a request is nowhere else but in its file,
and one that was answered nowhere but in the file about to go; `AnsweredOnce` is what
it says of the next step.
`LedInv` is the order behind `InitLostOnlyByEviction`. A session is led when the server
saw its init or the loss of the init was counted (`Led`). Otherwise an update carries
the init itself or has an envelope of its session before it: in an earlier file
(`FilesLed`), in a file or an earlier block (`BlocksLed`); and the session of any
accepted update is led or has an envelope in a file or a block, for the next update to
follow (`StartedLed`). The file that is read is the oldest
(`LoadsOldest`), so what a request carries is an init or led (`RequestLed`), and a
file is deleted only after its session was led by the answer (`DeletedLed`). An
eviction takes the oldest file: the next of the session becomes its head (`Headed`), or
none is there and the loss is counted. `NothingElseFails` names what the property
supposes of the configuration; without it other losses, each by design, can come first.

*HubSessions.* Any two updates that were made of one session agree in the order of
their numbers (`Compatible`), whether they were captured or are still in the hands of
a thread that has left the lock (`PendingInv`); no update is ahead of the session in
memory (`Behind`); and the init was captured before any other update is made
(`InitInv`). `CurrentIsOpen` keeps an ended session from being ended again.

*SessionRecovery.* The main thread works through a suffix of one of three programs,
launch, activation and termination (`Control`), so that its place is a number and the
invariants say what holds until, from and between two steps. `WatchdogInd`: the state
file says active only if the process was killed while active, or with the update that
says otherwise still in the queue. `SessionsInd`: each session that was started is in
memory, in a hand, in one of the two files, ended among what was captured, or lost
for a named reason (`Accounted`); the copy of a crashed session is deleted only after
it was captured (`Work`). `TruthInd`: what the last process left (flag, timestamp)
tells how it died (`DeathIsTold`), a session is in one place only (`Apart`), and
captures of one session have ascending numbers, so that the last update is the one
that counts (`SequenceNumbers`).

*Tracer.* `IndInv == TypeOK /\ OneCloser /\ NewChildren /\ Complete`: at most one worker
is between setting `isFinished` and the capture, and nothing was captured before; a
child being created is not yet a child and nobody else creates it, or a late
`AddChild` could reopen one the transaction was about to take; the children the
tracer had are finished when they are copied. `RestInv == WillFinish /\ WillTimeOut /\
WillRelease` turns the two properties of a tracer at rest into ones of a tracer at
work: if nothing keeps it open, some worker is still to look.

*CrashMonitors.* The proof follows the one thread that deals with a crash. While the
program crashed in one thread only (`Few`), either that thread is somewhere in a
handler or its message waits at the port (`OneCrash`), and where it is says what
the files hold (`Standard`, `Report`): the report of the first crash is under its
name, or moved away, or complete inside the second, at every step. `Flags` has the
reason why the main thread cannot install monitors meanwhile: it is the thread
itself, or suspended. `Once` follows one crash through all its handlers, of
which the first to be done switches the rest off. `Broken` is the state in which the
handler of the second crash crashed too.

*CrashReportStore.* `ReportIsOnDisk` and `SendIsComplete`: what was listed is all that
is there, if the directory holds nothing else, and what is deleted after the sending
was sent or had failed. `StateInd` relates the
state file to what happened (`FileIsTrue`) while the reporter is off and the state
in memory while it is on (`MemoryIsTrue`), with the time not yet counted.
*BinaryImageCache.* No node of the list is freed (`ListIsLive`); for a loaded
image that is not in the list yet dyld still owes a call (`CallsAreDue`,
`ListIsComplete`), and the cache of the SDK follows (`CacheIsComplete`).
*ThreadCache.* Which pair of arrays is published at each of the stores of an update
(`AtStep`), and that the pair not published is the one that is freed. *Scope.* A setter that holds its lock is about to
copy the value the field has, unless clear takes the field away without the lock
(`SetterHolds`); a field that is not mirrored is about to
be (`MirroredOrTouched`); a clear leaves fields empty unless somebody sets them
meanwhile (`ClearsAll`).

*ScopeSync.* `RingInd == RingTyped /\ RingShape /\ EmptyFirst /\ SlotsEmptied`: unless
the ring is `mingled`, of which only its type and size are known, the
slots, counted from the oldest, are filled from some place on, except for those that
a clear under way has emptied; the one being replaced is the first. The breadcrumbs of
the report are an enumeration of the filled slots (`Nth`), and the lemmas say what
becomes of an enumeration when its set loses an element, grows at its end or is
counted from another start (`Rank` is its inverse). With them every assignment of the C
functions is a step of the log or none; a step that mingles two calls spoils the log,
and a clear that begins alone takes up whatever enumeration it finds.

*Breadcrumbs.* A ring that is not full is its log, and in a full one each place has
the breadcrumb of this round, before the index, or of the last round, from the index
on (`RingHolds`, `LastIn`); `FullRingShows` puts the two parts together again. While
the observers delete their files in a clear, the ring is new and the log is not.

*HangTracker.* At most one thread is active, and the state says where it is
(`OneThread`, `StateOfThread`). *Profilers.* Whoever starts a trace profile holds its
lock (`StartHolds`), each profile's count is the number of tracers that map to it
(`TracksItsTracers`), a running one is wanted by somebody or just being handed over
(`RunsForSomebody`), and a clean-up meets the profile that was asked to stop
(`StopsWhatWasAsked`). *SamplingProfiler.* The handle that is visited is still held, it
belongs to one thread, only that thread is suspended and only while its stack is read
(`HeldIsVisited`, `OwnHandles`, `WalkedIsSuspended`); a new sampling thread is made only
when there is none (`OneClient`).

The inductive invariants were checked with TLC before they were proved, on the
instances of the runs. What the proofs asked of the models: the directory of crash
reports became a function to inodes, what a clear has left became a set, `excused`
learnt of the migration that fails (section 5), the ring of breadcrumbs is enumerated
by position and that of a scope by its two parts instead of filtered, `CrumbLog` learnt that a clear takes several steps,
`InitLostOnlyByEviction` names its suppositions (`NothingElseFails`), and the
assumptions name what the instances had taken for granted (a lock's free value is no
thread, an envelope is in one cached file).

Only model-checked:

- all liveness (`ComesToRest`, `EndIsCaptured`, `AutoFinishes`, `Terminates`,
  `StopEnds`, `HangsAreOver`, `ProfilesEnd`), which TLAPS cannot prove under fairness;
- what `CrashReport`, `JsonCodec`, `ObjCRuntime`, `CrashTools` and `StackUnwinding`
  compute (`ReportIsReadable`, `InspectionIsSafe`, `TextSurvives`, `DataIsExact`,
  `StackIsWalked`): their loops are recursive over data, which is out of the prover's
  reach, and `CrashTools` and `StackUnwinding` declare `RECURSIVE` operators;
- the part of `CrumbsAreKept` about the files, which speaks of filtered and
  concatenated sequences of any length (the lines of two files): it needs induction
  over the sequence.

A type invariant is proved with the theorems of its module, as a theorem of its own or
as the first part of the inductive invariant (`ThreadsTyped`, `HangTyped` ...). It has
no run of its own.

## 5. Where the code and its documents disagree

`claim_all_report_ids`: "Get a list of IDs for all reports on disk"
(`SentryCrashReportStore.h:58`). The directory of attachments of a report takes a
place in the list (`SentryCrashReportStore.c:135`), the id of another report falls
off its end, and that report is deleted unsent after the others were sent.

Shown by TLC while modelling, by a counterexample to a stronger property, without a
run of their own:

- flush waits for "all queued and cached items" (`SentrySDK.h:354`) but leaves the
  group when one pass ends, also after a request without response
  (`SentryHttpTransport.m:403`);
- "Schedule for sending" (`SentryHttpTransport.m:139`): the wakeup is lost if another
  thread is just ending its pass (`:141`), or if two requests of Spotlight are in the
  queue; a pass also ends, with envelopes left, when a file was evicted between its
  listing and its loading (`ComesToRest` names these, and the missing response);
- a lost transaction should count its spans, but an existing counter grows by one
  whatever the quantity (`SentryHttpTransport.m:173`); a client report item that is
  evicted or rate limited is itself counted (`:237`, against the comment at `:419`);
- "Don't update session for dropped events" (`CHANGELOG.md:1201`): errors before a
  session are counted before the event is dropped (`SentryHub.m:470`), and that
  counter loses or repeats errors between threads;
- the crashed session goes with the first crash event (`SentryHub.m:238`), but two
  queues read it before either deletes it (`:256`);
- "finished only if all children have been finished"
  (`SentryTracerConfiguration.h:23`): the idle timeout does not look at the children
  (`SentryTracer.m:237`), and canBeFinished looks too early; a child that passed the
  check for a finished tracer can be added afterwards (`:376`); a transaction given up
  for its length stays on the scope (`:630`);
- a rate limit on sessions removes an init without migrating it
  (`SentryEnvelopeRateLimit.m:52`);
- "YES if the function migrated the session init" (`SentryMigrateSessionInit.h`):
  `setInitFlagIfContainsSameSessionId` returns YES after a write that may have failed,
  and was only logged (`SentryMigrateSessionInit.m:82`, `:107`). The evicted init is then
  neither sent nor migrated nor counted as lost. The proof of `NoSilentLoss` did not go
  through without it; a store whose eviction meets a failing rewrite shows it in eight
  states, and `excused` now names this case;
- for an unhandled error `storeEnvelope` ends a copy, and the session is later ended
  again with the same `seq` (`SentryHub.m:675`; `stored` excepts these sessions);
- a death after SentryCrash has reset the crash flag on disk and before the session
  is moved makes a crashed session end as exited or abnormal
  (`SentryCrashIntegration.m:182`; `unsettled` excepts these);
- two threads that crash at once are taken for a crash of the crash handler
  (`SentryCrashMonitor.c:196`); closing the SDK leaves the exception port installed
  with nobody behind it;
- an SDK closed before the background queue has sent the reports deletes them unsent,
  and so does one that could not load a report (`SentryCrash.m:482`) or convert it
  (`SentryCrashReportSink.m:73`); a user report is written over a crash report of the
  same id (`SentryCrashReportStore.c:258`);
  two launches in one second share report ids, and the second report cannot be
  created; a restart of the SDK in one process forgets the crash of the last launch;
- image callbacks of dyld are never taken back, so after a restart later images are
  listed twice (`SentryCrashBinaryImageCache.c:166`); two monitor threads whose
  updates overlap share static variables and free an array twice
  (`SentryCrashCachedData.c:62`);
- the observer's clear runs outside the locks (`SentryScope.m:191`), so that a field
  set meanwhile may be in only one of scope and mirror, the ring of breadcrumbs for the
  crash handler may lose or mix what is added meanwhile (`CrumbsAreLogged` excepts a
  ring where two calls met), and the breadcrumb files lose what was added between the
  two clears, or are torn (`CrumbsAreKept`); the user is cleared without its lock
  (`:186`); `removeContextForKey` gives observers the context as extras (`:243`); dist,
  environment and level have no lock; the copy's clear keeps the trace; a value that
  cannot be encoded leaves the old one in the copy;
- a copy of a scope with a full ring hides its next breadcrumb and shows the others
  in the wrong order (`SentryScope.m:95`);
- which breadcrumb file is older is told by line counts (`SentryFileManager.m:584`): a
  kill between the last write of the second file and the switch makes a tie, the order
  is wrong and the newest are cut off; a launch killed between the two moves loses the
  first file; a write failing at the line end spoils two breadcrumbs;
- the hang tracker's state stays Stopping for good when it is stopped with no thread
  running, and a listener that comes while the thread is stopping has no thread until
  another comes after it (`SentryANRTrackerV1.m:169`); when a hang ends while version 1 reports it, the end
  can be told before the hang or never (`:102`); version 2 never tells it when the end of
  a profile has stopped the frames tracker it asks (`SentryProfiler.mm:130`,
  `SentryANRTrackerV2.m:129`), unless a later profile starts it again;
- a trace profile can be joined after its stop (`SentryTraceProfiler.mm:35`); the
  timeout of an earlier profile cuts a later one short (`:99`); a continuous start
  after a stop is ignored until the chunk ends, the last chunk is dropped when the app
  resigns active, and a chunk timer left over can stop a new profile
  (`SentryContinuousProfiler.mm:142`, `:206`);
- if the first clock alarm fails, `stopSampling` waits for ever with its lock held
  (`SentrySamplingProfiler.cpp:151`).

Read while translating the tools, and kept in the translated definitions: a decoded
surrogate pair lacks 0x10000 (`SentryCrashJSONCodec.c:1046`); a text of the scope with
a control character that has no escape leaves the JSON of the report open (`:227`), so
that the sections after it end up inside, and breaks it if it is in a name; bytes of
memory are taken for UTF-8 that are not (`SentryCrashString.c:139`);
`maxReadableBytes` may give more than was asked for and `isMemoryReadable` tests the
same bytes again beyond its buffer (`SentryCrashMemory.c:48`); `getThreadList` reads
beyond its array for more than 100 threads and the crashed one can be missing
(`SentryCrashMachineContext.c:60`); reading an empty replay info file does not end
(`SentryCrashFileUtils.c`).

## 6. What is not modelled

Envelope, event and option formats, rate limit headers and the DSN, sampling
decisions, attachments, screenshots, UIKit instrumentation and logging carry no
protocol, or one that lies in the data. Of modelled parts: timestamps, durations and
statuses of sessions and spans, the app start and frame data of transactions, the
release name check of `startSession` (a release is assumed), hybrid SDK calls across a
death, the weak references of timers (somebody holds the tracer), the finish callback
of the time to display tracker, which finishes a child that finishTracer would finish
a moment later; the system monitor, which collects facts about the device; the doctor,
which words a diagnosis; functions of the crash tools that nobody calls
(`IsKindOfClass`, `IvarNamed`, `DictionaryFirstEntry`, `ReadLineFromFD`); what the
scope serializes into an event; what a profile chunk holds; the event made of a hang;
`sentrycrash_scopesync_reset`, which nobody calls.

Interleavings left out: two clears of one scope that are both at their part without the
lock, and a configuration of the ring beside a call of a scope that outlived the SDK it
was made for; the walk of `binaryImageRemoved`, which takes no lock and may stand on a
node that `stopCache` frees (`SentryCrashBinaryImageCache.c:119`); a cancellation of
the sampling thread in the write of a logged error (`SentryAsyncSafeLog.c:88`), which
would keep the handles it holds; the process dies where two calls free one breadcrumb,
which is a kill of the model. In `crash_storage` the copies of a scope are checked
where no file fails and nothing is killed, since they are in memory only.

## 7. Plan

1. Proofs, in the modules there are: the files of `CrumbsAreKept`, enumerated by
   position as the ring of `ScopeSync` is.
2. `RateLimitParser`: both header parsers and `Retry-After` as functions over short
   token sequences, against a reference, feeding `RateLimits`.
3. `Replay`: segments against pause, resume and session end.
4. App start measurement, launch profile and `PerformanceTracker`: several tracers, the
   span stack, the scope's span.
5. `Delivery`: an abstract specification (each accepted item is delivered, counted or
   excused) that `HttpTransport` implements.

Runs are kept few: related parts share an instance, and a disagreement of section 5
keeps a run of its own only while it is the best evidence for its kind.
