--------------------------- MODULE SamplingProfiler ---------------------------
(***************************************************************************)
(* The thread that samples the stacks of all other threads                 *)
(* (SentrySamplingProfiler.cpp, SentryBacktrace.cpp,                       *)
(* SentryThreadHandle.cpp, SentryThreadMetadataCache.cpp).  A clock alarm  *)
(* wakes it; it suspends one thread at a time and must not need a lock     *)
(* that this thread may hold.  The threads of the app take and release the *)
(* lock of malloc and of the pthread list (one lock here), come and go,    *)
(* and the handle of a thread that is gone may name a new one.  Clients    *)
(* start and stop the profiler at any time.                                *)
(***************************************************************************)
EXTENDS Integers, FiniteSets

CONSTANTS Threads,       \* threads of the app
          SentryOwned,   \* those whose name begins with io.sentry
          Handles,       \* mach ports, the native handles of threads
          Clients,       \* threads that start and stop the profiler
          MaxStarts,     \* bound: calls to startSampling
          MaxSpawns,     \* bound: threads that start
          MaxSamples     \* bound: numSamples counts no further


VARIABLES app,           \* for each thread: [handle, idle, suspended]
          lock,          \* who holds the lock of malloc and of the pthread list
          spawns,        \* number of threads that started
          profiler,      \* isSampling_, who holds isSamplingLock_, the port, numSamples_
          client,        \* what each client does
          sampler,       \* the sampling thread
          alarms,        \* alarms that the clock will send
          messages,      \* messages in the port
          cache          \* threadMetadataCache_: handle -> the thread it was made for

vars == <<app, lock, spawns, profiler, client, sampler, alarms, messages, cache>>

NoHandle == "no handle"

NoThread == "no thread"

Free == "free"

ASSUME SamplingProfilerAssumption ==
    /\ SentryOwned \subseteq Threads /\ MaxStarts \in Nat /\ MaxSpawns \in Nat /\ MaxSamples \in Nat
    /\ NoHandle \notin Handles /\ NoThread \notin Threads /\ Free \notin Clients \cup Threads

Alive(t) == app[t].handle # NoHandle

\* The thread that a handle names now.
ThreadOf(h) == IF \E t \in Threads : app[t].handle = h THEN CHOOSE t \in Threads : app[t].handle = h ELSE NoThread

\* The constructor may fail; then startSampling and stopSampling do nothing.
Init ==
    /\ app = [t \in Threads |-> [handle |-> NoHandle, idle |-> FALSE, suspended |-> 0]]
    /\ lock = Free /\ spawns = 0
    /\ profiler \in [isInitialized : BOOLEAN, isSampling : {FALSE}, owner : {Free}, starts : {0}, numSamples : {0}]
    /\ client = [c \in Clients |-> "idle"]
    /\ sampler = [step |-> "none", cancelled |-> FALSE, held |-> {}, todo |-> {}, target |-> NoHandle, bounds |-> FALSE]
    /\ alarms = 0 /\ messages = 0
    /\ cache = [h \in Handles |-> NoThread]

----------------------------------------------------------------------------
(* The threads of the app *)

Runs(t) == Alive(t) /\ app[t].suspended = 0

\* The kernel does not give away a handle that the sampler still holds.
Spawn(t, h) ==
    /\ ~Alive(t) /\ spawns < MaxSpawns
    /\ h \notin sampler.held /\ ThreadOf(h) = NoThread
    /\ app' = [app EXCEPT ![t] = [handle |-> h, idle |-> FALSE, suspended |-> 0]]
    /\ spawns' = spawns + 1
    /\ UNCHANGED <<lock, profiler, client, sampler, alarms, messages, cache>>

Exit(t) ==
    /\ Runs(t) /\ lock # t
    /\ app' = [app EXCEPT ![t].handle = NoHandle]
    /\ UNCHANGED <<lock, spawns, profiler, client, sampler, alarms, messages, cache>>

\* A thread blocks or goes on.
Blocks(t) ==
    /\ Runs(t) /\ lock # t
    /\ app' = [app EXCEPT ![t].idle = ~@]
    /\ UNCHANGED <<lock, spawns, profiler, client, sampler, alarms, messages, cache>>

Lock(t) ==
    /\ Runs(t) /\ ~app[t].idle /\ lock = Free
    /\ lock' = t
    /\ UNCHANGED <<app, spawns, profiler, client, sampler, alarms, messages, cache>>

Unlock(t) ==
    /\ Runs(t) /\ lock = t
    /\ lock' = Free
    /\ UNCHANGED <<app, spawns, profiler, client, sampler, alarms, messages, cache>>

----------------------------------------------------------------------------
(* The clients *)

\* startSampling: the flag is set before the thread is made, and stays when that fails.
StartSampling(c) ==
    /\ client[c] = "idle" /\ profiler.isInitialized /\ profiler.owner = Free
    /\ ~profiler.isSampling /\ profiler.starts < MaxStarts
    /\ profiler' = [profiler EXCEPT !.isSampling = TRUE, !.owner = c, !.starts = @ + 1, !.numSamples = 0]
    /\ client' = [client EXCEPT ![c] = "create"]
    /\ UNCHANGED <<app, lock, spawns, sampler, alarms, messages, cache>>

CreateThread(c) ==
    /\ client[c] = "create"
    /\ \/ /\ sampler' = [sampler EXCEPT !.step = "start", !.cancelled = FALSE]
          /\ client' = [client EXCEPT ![c] = "alarm"]
          /\ UNCHANGED profiler
       \/ /\ client' = [client EXCEPT ![c] = "idle"]
          /\ profiler' = [profiler EXCEPT !.owner = Free]
          /\ UNCHANGED sampler
    /\ UNCHANGED <<app, lock, spawns, alarms, messages, cache>>

\* The first alarm; nobody looks at its result.
FirstAlarm(c) ==
    /\ client[c] = "alarm"
    /\ alarms' \in {alarms, alarms + 1}
    /\ profiler' = [profiler EXCEPT !.owner = Free]
    /\ client' = [client EXCEPT ![c] = "idle"]
    /\ UNCHANGED <<app, lock, spawns, sampler, messages, cache>>

Cancels == sampler' = [sampler EXCEPT !.cancelled = sampler.step \notin {"none", "ended"}]

\* mutant: the thread is cancelled, and nobody waits for it
StopSampling_NoJoin(c) ==
    /\ client[c] = "idle" /\ profiler.isInitialized /\ profiler.owner = Free /\ profiler.isSampling
    /\ profiler' = [profiler EXCEPT !.isSampling = FALSE]
    /\ Cancels
    /\ UNCHANGED <<app, lock, spawns, client, alarms, messages, cache>>

\* stopSampling holds isSamplingLock_ while it waits.
StopSampling(c) ==
    /\ client[c] = "idle" /\ profiler.isInitialized /\ profiler.owner = Free /\ profiler.isSampling
    /\ profiler' = [profiler EXCEPT !.owner = c]
    /\ Cancels
    /\ client' = [client EXCEPT ![c] = "join"]
    /\ UNCHANGED <<app, lock, spawns, alarms, messages, cache>>

\* pthread_join; a thread that was never made is no thread to wait for.
Join(c) ==
    /\ client[c] = "join" /\ sampler.step \in {"none", "ended"}
    /\ profiler' = [profiler EXCEPT !.isSampling = FALSE, !.owner = Free]
    /\ sampler' = [sampler EXCEPT !.step = "none", !.cancelled = FALSE]
    /\ client' = [client EXCEPT ![c] = "idle"]
    /\ UNCHANGED <<app, lock, spawns, alarms, messages, cache>>

\* The destructor: stopSampling has returned, the port goes.
Destroy ==
    /\ profiler.isInitialized /\ profiler.owner = Free /\ ~profiler.isSampling
    /\ profiler' = [profiler EXCEPT !.isInitialized = FALSE]
    /\ alarms' = 0 /\ messages' = 0
    /\ UNCHANGED <<app, lock, spawns, client, sampler, cache>>

----------------------------------------------------------------------------
(* The sampling thread *)

At(step) == sampler.step = step

Goes(step) == sampler' = [sampler EXCEPT !.step = step]

\* malloc of the reply buffer
StartThread ==
    /\ At("start") /\ lock = Free
    /\ Goes("test")
    /\ UNCHANGED <<app, lock, spawns, profiler, client, alarms, messages, cache>>

\* pthread_testcancel.  A failing call that is logged is a cancellation point too
\* (the write of SentryAsyncSafeLog.c:88), and is left out.
TestCancel ==
    /\ At("test") /\ lock = Free
    /\ Goes(IF sampler.cancelled THEN "ended" ELSE "receive")
    /\ UNCHANGED <<app, lock, spawns, profiler, client, alarms, messages, cache>>

\* mach_msg waits without a timeout.
Receive ==
    /\ At("receive") /\ messages > 0
    /\ messages' = messages - 1
    /\ Goes("alarm")
    /\ UNCHANGED <<app, lock, spawns, profiler, client, alarms, cache>>

\* mach_msg fails at any time; that ends the thread as well.
ReceiveFails ==
    /\ At("receive")
    /\ Goes("ended")
    /\ UNCHANGED <<app, lock, spawns, profiler, client, alarms, messages, cache>>

\* clock_alarm; a failure ends the thread while isSampling_ stays.
NextAlarm ==
    /\ At("alarm")
    /\ \/ /\ alarms' = alarms + 1
          /\ profiler' = [profiler EXCEPT !.numSamples = IF @ < MaxSamples THEN @ + 1 ELSE @]
          /\ Goes("list")
       \/ Goes("ended") /\ UNCHANGED <<alarms, profiler>>
    /\ UNCHANGED <<app, lock, spawns, client, messages, cache>>

\* ThreadHandle::allExcludingCurrent owns the handles until the last was visited.
AllThreads ==
    /\ At("list") /\ lock = Free
    /\ LET live == {app[t].handle : t \in {x \in Threads : Alive(x)}}
       IN  sampler' = [sampler EXCEPT !.step = "next", !.held = live, !.todo = live]
    /\ UNCHANGED <<app, lock, spawns, profiler, client, alarms, messages, cache>>

\* isIdle: a thread that is gone counts as idle.
IsIdle(t) == IF t = NoThread THEN TRUE ELSE app[t].idle

\* Idle threads are reported with an empty stack.
NextThread(h) ==
    /\ At("next") /\ h \in sampler.todo
    /\ sampler' = [sampler EXCEPT !.todo = @ \ {h}, !.target = h, !.bounds = FALSE,
                     !.step = IF IsIdle(ThreadOf(h)) THEN "deliver" ELSE "metadata"]
    /\ UNCHANGED <<app, lock, spawns, profiler, client, alarms, messages, cache>>

LastThread ==
    /\ At("next") /\ sampler.todo = {} /\ lock = Free
    /\ sampler' = [sampler EXCEPT !.step = "test", !.held = {}, !.target = NoHandle]
    /\ UNCHANGED <<app, lock, spawns, profiler, client, alarms, messages, cache>>

\* By the name of the thread, which is empty when it is gone.
IsSentryOwned(t) == t \in SentryOwned

\* metadataForThread: what is cached for the handle, or what the thread says;
\* a thread that is gone is not cached, one of the SDK is skipped.
Metadata ==
    /\ At("metadata") /\ lock = Free
    /\ LET t == IF cache[sampler.target] # NoThread THEN cache[sampler.target] ELSE ThreadOf(sampler.target)
       IN  /\ cache' = [cache EXCEPT ![sampler.target] = t]
           /\ Goes(IF IsSentryOwned(t) THEN "next" ELSE "bounds")
    /\ UNCHANGED <<app, lock, spawns, profiler, client, alarms, messages>>

\* stackBounds asks for the pthread, which takes the lock.
Bounds ==
    /\ At("bounds") /\ lock = Free
    /\ sampler' = [sampler EXCEPT !.step = "suspend", !.bounds = ThreadOf(sampler.target) # NoThread]
    /\ UNCHANGED <<app, lock, spawns, profiler, client, alarms, messages, cache>>

ThreadSuspend(t) == app' = [app EXCEPT ![t].suspended = @ + 1]

ThreadResume(t) == app' = [app EXCEPT ![t].suspended = @ - 1]

\* thread_suspend fails for a thread that is gone.
Suspend ==
    /\ At("suspend")
    /\ LET t == ThreadOf(sampler.target)
       IN  IF t = NoThread THEN Goes("next") /\ UNCHANGED app
           ELSE ThreadSuspend(t) /\ Goes("walk")
    /\ UNCHANGED <<lock, spawns, profiler, client, alarms, messages, cache>>

\* mutant: the bounds of the stack are asked for when the thread is suspended
Walk_AsksBounds ==
    /\ At("walk") /\ lock = Free
    /\ ThreadResume(ThreadOf(sampler.target))
    /\ sampler' \in {[sampler EXCEPT !.step = s] : s \in IF sampler.bounds THEN {"deliver", "next"} ELSE {"next"}}
    /\ UNCHANGED <<lock, spawns, profiler, client, alarms, messages, cache>>

\* backtrace and resume, which take no lock; the stack counts when its end was
\* reached, which takes valid bounds.
Walk ==
    /\ At("walk")
    /\ ThreadResume(ThreadOf(sampler.target))
    /\ sampler' \in {[sampler EXCEPT !.step = s] : s \in IF sampler.bounds THEN {"deliver", "next"} ELSE {"next"}}
    /\ UNCHANGED <<lock, spawns, profiler, client, alarms, messages, cache>>

\* The callback copies the sample, with the lock of malloc.
Deliver ==
    /\ At("deliver") /\ lock = Free
    /\ Goes("next")
    /\ UNCHANGED <<app, lock, spawns, profiler, client, alarms, messages, cache>>

\* The clock
AlarmRings ==
    /\ alarms > 0
    /\ alarms' = alarms - 1 /\ messages' = messages + 1
    /\ UNCHANGED <<app, lock, spawns, profiler, client, sampler, cache>>

SamplerStep ==
    \/ StartThread \/ TestCancel \/ Receive \/ NextAlarm \/ AllThreads
    \/ (\E h \in Handles : NextThread(h)) \/ LastThread
    \/ Metadata \/ Bounds \/ Suspend \/ Walk \/ Deliver

ClientStep(c) == CreateThread(c) \/ FirstAlarm(c) \/ Join(c)

Next ==
    \/ \E t \in Threads : (\E h \in Handles : Spawn(t, h)) \/ Exit(t) \/ Blocks(t) \/ Lock(t) \/ Unlock(t)
    \/ \E c \in Clients : StartSampling(c) \/ StopSampling(c) \/ ClientStep(c)
    \/ Destroy \/ SamplerStep \/ ReceiveFails \/ AlarmRings

\* A thread that runs leaves its critical sections, so a lock that is asked for
\* again and again is got at last; the clock rings; clients finish their calls.
Spec ==
    /\ Init /\ [][Next]_vars
    /\ SF_vars(SamplerStep) /\ WF_vars(AlarmRings)
    /\ \A t \in Threads : WF_vars(Unlock(t))
    /\ \A c \in Clients : WF_vars(ClientStep(c))

----------------------------------------------------------------------------
(* Properties *)

\* No thread is ever suspended but the one whose stack is being read, and once
\* stopSampling has returned no thread is or will be: the sampling thread is
\* gone, whatever it was doing when it was cancelled.
QuietWhenStopped ==
    /\ \A t \in Threads : app[t].suspended = IF At("walk") /\ ThreadOf(sampler.target) = t THEN 1 ELSE 0
    /\ profiler.owner = Free /\ ~profiler.isSampling => sampler.step = "none"

\* The thread waits for an alarm that nobody has set: the first one failed.
AlarmIsLost == At("receive") /\ alarms = 0 /\ messages = 0

\* stopSampling returns.  The sampling thread it waits for never waits for a
\* lock that a thread it has suspended holds, and it looks at its cancellation
\* again because an alarm is always under way; unless the first alarm failed,
\* after which a stop holds isSamplingLock_ for ever.
StopEnds == \A c \in Clients : client[c] = "join" ~> (client[c] = "idle" \/ AlarmIsLost)

=============================================================================
