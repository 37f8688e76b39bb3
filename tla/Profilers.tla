------------------------------- MODULE Profilers -------------------------------
(***************************************************************************)
(* The profilers above the sampling thread.  In trace mode                 *)
(* (SentryTraceProfiler.mm, SentryProfiledTracerConcurrency.mm) one        *)
(* profiler is shared by the tracers that overlap; it ends with the last   *)
(* of them, by a timeout or when the app resigns active.  In continuous    *)
(* mode (SentryContinuousProfiler.mm) it goes on until it is stopped: a    *)
(* timer sends a chunk now and then and looks whether a stop was called.   *)
(*                                                                         *)
(* The start of a trace profile holds the lock of the trace profiler, the  *)
(* end of a tracer takes only that of the maps of tracers.  To stop the    *)
(* sampling is one step (SamplingProfiler has its steps).  A profile is    *)
(* named for the tracer or the call that made it; the options choose the   *)
(* mode for good, so the two sets of names may be one.                     *)
(***************************************************************************)
EXTENDS Naturals, FiniteSets

CONSTANTS Tracers,          \* transactions that are sampled
          ContinuousStarts, \* calls to SentryContinuousProfiler.start
          MaxResigns        \* bound: times the app resigns active

VARIABLES mode,             \* "trace" or "continuous"
          profiles,         \* for each profile: [running, reason]
          current,          \* the profiler of the mode
          traceLock,        \* who holds _threadUnsafe_gTraceProfilerLock
          tracers,          \* where the start of each tracer's profile is
          counts,           \* _gProfilersToTracers
          profilerOf,       \* _gTracersToProfilers
          starts,           \* where each call to start is
          stopCalled,       \* _stopCalled
          observers,        \* observers of resign active, and _observerToken
          timer,            \* the timeout timer or the chunk timer: nil, armed or spent
          timerBlocks,      \* blocks on the main queue that would set it
          mainDoes,         \* what the main thread is in the middle of
          resigns,
          \* History
          joinedLate,       \* tracers tracked with a profile that had ended
          asked,            \* profiles somebody asked to stop
          leftover          \* the chunk timer went off without a profile

profileVars == <<mode, profiles, current, traceLock, tracers, counts, profilerOf, starts, stopCalled,
                 observers, timer, timerBlocks, mainDoes, resigns, joinedLate, asked, leftover>>

NoProfile == "no profile"

Unlocked == "unlocked"

Nothing == [step |-> "nothing", of |-> NoProfile]

OnMain == "main thread"

Profile == Tracers \cup ContinuousStarts

ASSUME ProfilersAssumption ==
    /\ IsFiniteSet(Profile) /\ MaxResigns \in Nat
    /\ NoProfile \notin Profile /\ {Unlocked, OnMain} \cap Tracers = {}

IsRunning(p) == p # NoProfile /\ profiles[p].running

ProfilersInit ==
    /\ mode \in {"trace", "continuous"}
    /\ profiles = [p \in Profile |-> [running |-> FALSE, reason |-> "none"]]
    /\ current = NoProfile /\ traceLock = Unlocked
    /\ tracers = [t \in Tracers |-> "new"]
    /\ counts = [p \in Tracers |-> 0] /\ profilerOf = [t \in Tracers |-> NoProfile]
    /\ starts = [n \in ContinuousStarts |-> "new"]
    /\ stopCalled = FALSE /\ observers = [tokens |-> {}, token |-> NoProfile]
    /\ timer = "nil" /\ timerBlocks = 0 /\ mainDoes = Nothing /\ resigns = 0
    /\ joinedLate = {} /\ asked = {} /\ leftover = FALSE

\* initWithMode: the sampling may fail to start, and then never runs.
NewProfiler(p) ==
    /\ profiles' \in {[profiles EXCEPT ![p].running = r] : r \in BOOLEAN}
    /\ current' = p

\* stopForReason: the reason is stored even if the profiler has stopped before.
StopForReason(p, reason) == profiles' = [profiles EXCEPT ![p] = [running |-> FALSE, reason |-> reason]]

----------------------------------------------------------------------------
(* Trace profiles *)

UnchangedContinuous == UNCHANGED <<mode, starts, stopCalled, observers, asked, leftover>>

\* startWithTracer: the test of isRunning.
StartWithTracer(t) ==
    /\ mode = "trace" /\ tracers[t] = "new" /\ traceLock = Unlocked
    /\ traceLock' = t
    /\ tracers' = [tracers EXCEPT ![t] = IF IsRunning(current) THEN "join" ELSE "create"]
    /\ UnchangedContinuous
    /\ UNCHANGED <<profiles, current, counts, profilerOf, timer, timerBlocks, mainDoes, resigns, joinedLate>>

CreateProfiler(t) ==
    /\ tracers[t] = "create"
    /\ NewProfiler(t)
    /\ tracers' = [tracers EXCEPT ![t] = "track"]
    /\ UnchangedContinuous
    /\ UNCHANGED <<traceLock, counts, profilerOf, timer, timerBlocks, mainDoes, resigns, joinedLate>>

\* sentry_trackProfilerForTracer, and the end of the locked region.
TrackProfiler(t) ==
    /\ tracers[t] \in {"join", "track"}
    /\ counts' = [counts EXCEPT ![current] = @ + 1]
    /\ profilerOf' = [profilerOf EXCEPT ![t] = current]
    /\ joinedLate' = IF tracers[t] = "join" /\ ~IsRunning(current) THEN joinedLate \cup {t} ELSE joinedLate
    /\ traceLock' = Unlocked
    /\ tracers' = [tracers EXCEPT ![t] = IF tracers[t] = "join" THEN "on" ELSE "schedule"]
    /\ UnchangedContinuous
    /\ UNCHANGED <<profiles, current, timer, timerBlocks, mainDoes, resigns>>

ScheduleTimeoutTimer(t) ==
    /\ tracers[t] = "schedule"
    /\ timerBlocks' = timerBlocks + 1
    /\ tracers' = [tracers EXCEPT ![t] = "on"]
    /\ UnchangedContinuous
    /\ UNCHANGED <<profiles, current, traceLock, counts, profilerOf, timer, mainDoes, resigns, joinedLate>>

\* mutant: the profiler stops with the first of its tracers
CleanUpProfiler_AnyTracer(t) ==
    LET p == profilerOf[t]
    IN  /\ profilerOf' = [profilerOf EXCEPT ![t] = NoProfile]
        /\ counts' = [counts EXCEPT ![p] = @ - 1]
        /\ IF IsRunning(p) THEN StopForReason(p, "normal") ELSE UNCHANGED profiles

\* _unsafe_cleanUpProfiler
CleanUpProfiler(t) ==
    LET p == profilerOf[t]
    IN  /\ profilerOf' = [profilerOf EXCEPT ![t] = NoProfile]
        /\ counts' = [counts EXCEPT ![p] = @ - 1]
        /\ IF counts'[p] = 0 /\ IsRunning(p) THEN StopForReason(p, "normal") ELSE UNCHANGED profiles

\* sentry_profilerForFinishedTracer and sentry_discardProfilerForTracer
EndOfTracer(t) ==
    /\ tracers[t] = "on"
    /\ CleanUpProfiler(t)
    /\ tracers' = [tracers EXCEPT ![t] = "done"]
    /\ UnchangedContinuous
    /\ UNCHANGED <<current, traceLock, timer, timerBlocks, mainDoes, resigns, joinedLate>>

\* mutant: the timer that went off is kept
TimeoutTimerExpired_TimerKept ==
    /\ mode = "trace" /\ timer = "armed" /\ mainDoes = Nothing /\ traceLock = Unlocked
    /\ timer' = "spent"
    /\ mainDoes' = IF IsRunning(current) THEN [step |-> "timeout", of |-> current] ELSE Nothing
    /\ traceLock' = IF IsRunning(current) THEN OnMain ELSE Unlocked
    /\ UnchangedContinuous
    /\ UNCHANGED <<profiles, current, tracers, counts, profilerOf, timerBlocks, resigns, joinedLate>>

\* timeoutTimerExpired: the profile that runs now may be a later one.
TimeoutTimerExpired ==
    /\ mode = "trace" /\ timer = "armed" /\ mainDoes = Nothing /\ traceLock = Unlocked
    /\ timer' = "nil"
    /\ mainDoes' = IF IsRunning(current) THEN [step |-> "timeout", of |-> current] ELSE Nothing
    /\ traceLock' = IF IsRunning(current) THEN OnMain ELSE Unlocked
    /\ UnchangedContinuous
    /\ UNCHANGED <<profiles, current, tracers, counts, profilerOf, timerBlocks, resigns, joinedLate>>

\* backgroundAbort of the profiler that runs, without a lock.
BackgroundAbort ==
    /\ mode = "trace" /\ resigns < MaxResigns /\ mainDoes = Nothing /\ IsRunning(current)
    /\ resigns' = resigns + 1
    /\ mainDoes' = [step |-> "abort", of |-> current]
    /\ UnchangedContinuous
    /\ UNCHANGED <<profiles, current, traceLock, tracers, counts, profilerOf, timer, timerBlocks, joinedLate>>

\* The stop that either decided on; meanwhile the last tracer may have ended, and
\* another profile may have begun.
MainStops(why, reason) ==
    /\ mainDoes.step = why
    /\ StopForReason(mainDoes.of, reason)
    /\ mainDoes' = Nothing
    /\ traceLock' = IF why = "timeout" THEN Unlocked ELSE traceLock
    /\ UnchangedContinuous
    /\ UNCHANGED <<current, tracers, counts, profilerOf, timer, timerBlocks, resigns, joinedLate>>

----------------------------------------------------------------------------
(* Both: the block that sets the timer *)

SetsTimer ==
    /\ timerBlocks > 0 /\ mainDoes = Nothing /\ traceLock = Unlocked
    /\ timerBlocks' = timerBlocks - 1
    /\ timer' = IF timer = "nil" THEN "armed" ELSE timer
    /\ UNCHANGED <<mode, profiles, current, traceLock, tracers, counts, profilerOf, starts, stopCalled,
                   observers, mainDoes, resigns, joinedLate, asked, leftover>>

----------------------------------------------------------------------------
(* The continuous profile *)

UnchangedTrace == UNCHANGED <<mode, traceLock, tracers, counts, profilerOf, joinedLate>>

\* start: also when the profile that runs is about to stop.
ContinuousStart(n) ==
    /\ mode = "continuous" /\ starts[n] = "new"
    /\ IF IsRunning(current)
       THEN starts' = [starts EXCEPT ![n] = "done"] /\ UNCHANGED <<profiles, current, stopCalled>>
       ELSE NewProfiler(n) /\ stopCalled' = FALSE /\ starts' = [starts EXCEPT ![n] = "schedule"]
    /\ UnchangedTrace
    /\ UNCHANGED <<observers, timer, timerBlocks, mainDoes, resigns, asked, leftover>>

ScheduleTimer(n) ==
    /\ starts[n] = "schedule"
    /\ timerBlocks' = timerBlocks + 1
    /\ starts' = [starts EXCEPT ![n] = "observe"]
    /\ UnchangedTrace
    /\ UNCHANGED <<profiles, current, stopCalled, observers, timer, mainDoes, resigns, asked, leftover>>

Observe(n) ==
    /\ starts[n] = "observe"
    /\ observers' = [tokens |-> observers.tokens \cup {n}, token |-> n]
    /\ starts' = [starts EXCEPT ![n] = "done"]
    /\ UnchangedTrace
    /\ UNCHANGED <<profiles, current, stopCalled, timer, timerBlocks, mainDoes, resigns, asked, leftover>>

ContinuousStop ==
    /\ mode = "continuous" /\ IsRunning(current)
    /\ stopCalled' = TRUE
    /\ asked' = asked \cup {current}
    /\ UnchangedTrace
    /\ UNCHANGED <<profiles, current, starts, observers, timer, timerBlocks, mainDoes, resigns, leftover>>

\* timerExpired: the chunk of what runs, if anything; the lock is released
\* before the clean-up.
TimerExpired ==
    /\ mode = "continuous" /\ timer = "armed" /\ mainDoes = Nothing
    /\ timer' = IF IsRunning(current) THEN timer ELSE "nil"
    /\ leftover' = (leftover \/ ~IsRunning(current))
    /\ mainDoes' = IF stopCalled THEN [step |-> "cleanup", of |-> NoProfile] ELSE Nothing
    /\ UnchangedTrace
    /\ UNCHANGED <<profiles, current, starts, stopCalled, observers, timerBlocks, resigns, asked>>

\* The observer goes, and stopTimerAndCleanup stops what runs by then.
CleansUp ==
    /\ observers' = [observers EXCEPT !.tokens = @ \ {observers.token}]
    /\ timer' = "nil"
    /\ IF current = NoProfile THEN UNCHANGED profiles ELSE StopForReason(current, "normal")
    /\ current' = NoProfile

StopTimerAndCleanup ==
    /\ mainDoes.step = "cleanup"
    /\ CleansUp
    /\ mainDoes' = Nothing
    /\ UnchangedTrace
    /\ UNCHANGED <<starts, stopCalled, timerBlocks, resigns, asked, leftover>>

\* The observers' blocks; what was sampled since the last chunk is lost.
WillResignActive ==
    /\ mode = "continuous" /\ resigns < MaxResigns /\ mainDoes = Nothing /\ observers.tokens # {}
    /\ resigns' = resigns + 1
    /\ CleansUp
    /\ asked' = IF current = NoProfile THEN asked ELSE asked \cup {current}
    /\ UnchangedTrace
    /\ UNCHANGED <<starts, stopCalled, timerBlocks, mainDoes, leftover>>

----------------------------------------------------------------------------
StartSteps(t) == CreateProfiler(t) \/ TrackProfiler(t) \/ ScheduleTimeoutTimer(t)

ContinuousSteps(n) == ScheduleTimer(n) \/ Observe(n)

MainSteps == MainStops("timeout", "timeout") \/ MainStops("abort", "background") \/ StopTimerAndCleanup

ProfilersNext ==
    \/ \E t \in Tracers : StartWithTracer(t) \/ StartSteps(t) \/ EndOfTracer(t)
    \/ \E n \in ContinuousStarts : ContinuousStart(n) \/ ContinuousSteps(n)
    \/ TimeoutTimerExpired \/ BackgroundAbort \/ MainSteps \/ SetsTimer
    \/ ContinuousStop \/ TimerExpired \/ WillResignActive

\* A start that began ends, the main queue runs its blocks and timers go off;
\* tracers need not end.
ProfilersFairness ==
    /\ \A t \in Tracers : WF_profileVars(StartSteps(t))
    /\ \A n \in ContinuousStarts : WF_profileVars(ContinuousSteps(n))
    /\ WF_profileVars(MainSteps) /\ WF_profileVars(SetsTimer)
    /\ WF_profileVars(TimeoutTimerExpired) /\ WF_profileVars(TimerExpired)

ProfilersSpec == ProfilersInit /\ [][ProfilersNext]_profileVars /\ ProfilersFairness

----------------------------------------------------------------------------
(* Properties *)

\* Tracers that overlap share one profile.  Never do two profilers sample at once;
\* one that samples in trace mode has a tracer that will end it, or is just being
\* started; and it goes on until the last of its tracers ended, the timeout or the
\* background, although tracers start and end under different locks: a tracer
\* with a profile that was stopped otherwise joined after the stop.  A continuous
\* profile ends when somebody asked, but for a start that meets the clean-up of a
\* timer left over from an earlier profile.
ProfilesAreShared ==
    /\ Cardinality({p \in Profile : profiles[p].running}) <= 1
    /\ \A p \in Tracers :
           /\ counts[p] = Cardinality({t \in Tracers : profilerOf[t] = p})
           /\ mode = "trace" /\ profiles[p].running => counts[p] > 0 \/ tracers[p] = "track"
    /\ \A t \in Tracers :
           profilerOf[t] # NoProfile /\ profiles[profilerOf[t]].reason = "normal" => t \in joinedLate
    /\ mode = "continuous" =>
           \A n \in ContinuousStarts : profiles[n].reason = "normal" => n \in asked \/ leftover

\* A profile ends in trace mode although none of its tracers does, also when the
\* timer of an earlier profile is still set at its start; and in continuous mode
\* when stop was called, whatever was started, scheduled or cleaned up meanwhile.
ProfilesEnd ==
    \A p \in Profile :
        profiles[p].running /\ (mode = "trace" \/ (current = p /\ stopCalled)) ~> ~profiles[p].running

=============================================================================
