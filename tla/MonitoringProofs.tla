--------------------------- MODULE MonitoringProofs ---------------------------
(***************************************************************************)
(* Proofs about the app hang trackers and the profilers, for any number of *)
(* listeners, threads, hangs, transactions and calls.                      *)
(***************************************************************************)
EXTENDS HangTracker, Profilers, FiniteSetTheorems, TLAPS

(***************************************************************************)
(* The hang trackers.                                                      *)
(***************************************************************************)
RunSteps == {"loop", "asleep", "report", "tell"}

HangRecord == [step : RunSteps \cup {"none", "detached", "leave", "gone"}, ticks : Nat, since : Nat,
               reported : BOOLEAN, late : BOOLEAN]

HangTyped ==
    /\ hang \in [HangThreads -> HangRecord]
    /\ state \in {"NotRunning", "Starting", "Running", "Stopping"}

Active(t) == hang[t].step = "detached" \/ Watching(t)

OneThread == \A t, u \in HangThreads : Active(t) /\ Active(u) => t = u

(* What the state says of the thread.                                      *)
StateOfThread ==
    /\ state = "NotRunning" => \A t \in HangThreads : ~Active(t)
    /\ state = "Starting" => \E t \in HangThreads : hang[t].step = "detached"
    /\ state = "Running" => \E t \in HangThreads : hang[t].step \in RunSteps
    /\ \A t \in HangThreads : hang[t].step = "leave" => state = "Stopping"

(* And of the listeners.                                                   *)
NobodyListens == state \in {"NotRunning", "Stopping"} /\ ~missed => listeners = {}

(* The inductive invariant.                                                *)
HangInd == HangTyped /\ OneThread /\ StateOfThread /\ NobodyListens

LEMMA HangInitInd == HangInit => HangInd
<1> SUFFICES ASSUME HangInit PROVE HangInd
  OBVIOUS
<1>1. HangTyped
  BY HangTrackerAssumption DEF HangInit, HangTyped, HangRecord, RunSteps
<1>2. \A t \in HangThreads : ~Active(t) /\ hang[t].step = "none"
  BY DEF HangInit, Active, Watching
<1>3. QED
  BY <1>1, <1>2 DEF HangInit, HangInd, OneThread, StateOfThread, NobodyListens

(* Steps after which the thread is where it was, or elsewhere in its loop. *)
LEMMA ThreadGoesOn ==
    ASSUME HangInd, hang' \in [HangThreads -> HangRecord], UNCHANGED <<state, listeners, missed>>,
           \A t \in HangThreads : \/ hang'[t].step = hang[t].step
                                  \/ hang[t].step \in RunSteps /\ hang'[t].step \in RunSteps
    PROVE  HangInd'
<1>1. \A t \in HangThreads : Active(t)' <=> Active(t)
  BY DEF Active, Watching, RunSteps
<1>2. StateOfThread'
  BY <1>1 DEF HangInd, StateOfThread, RunSteps
<1>3. QED
  BY <1>1, <1>2 DEF HangInd, HangTyped, OneThread, NobodyListens

(* Listeners come and go.                                                  *)
LEMMA ListenersNext ==
    ASSUME HangInd, (\E l \in Listeners : AddListener(l) \/ RemoveListener(l)) \/ ClearListeners
    PROVE  HangInd'
<1> USE DEF HangInd
<1>1. ASSUME NEW l \in Listeners, AddListener(l) PROVE HangInd'
  <2>1. CASE state = "NotRunning"
    <3>1. PICK t \in HangThreads : /\ hang' = [hang EXCEPT ![t].step = "detached"] /\ state' = "Starting"
      BY <1>1, <2>1 DEF AddListener
    <3>2. hang' \in [HangThreads -> HangRecord] /\ hang'[t].step = "detached"
          /\ \A u \in HangThreads \ {t} : hang'[u] = hang[u]
      BY <3>1 DEF HangTyped, HangRecord
    <3>3. \A u \in HangThreads : ~Active(u) /\ (Active(u)' <=> u = t)
      BY <2>1, <3>2 DEF StateOfThread, Active, Watching
    <3>4. StateOfThread'
      BY <3>1, <3>2, <3>3 DEF StateOfThread, Active, Watching
    <3>5. QED
      BY <3>1, <3>2, <3>3, <3>4 DEF HangTyped, OneThread, NobodyListens
  <2>2. CASE state # "NotRunning"
    <3>1. UNCHANGED <<hang, state>> /\ missed' = (missed \/ state = "Stopping")
      BY <1>1, <2>2 DEF AddListener
    <3>2. \A t \in HangThreads : Active(t)' <=> Active(t)
      BY <3>1 DEF Active, Watching
    <3>3. QED
      BY <2>2, <3>1, <3>2 DEF HangTyped, OneThread, StateOfThread, NobodyListens
  <2>3. QED
    BY <2>1, <2>2
<1>2. ASSUME UNCHANGED hang, listeners' \subseteq listeners,
             UNCHANGED <<state, missed>> \/ (listeners' = {} /\ state' = "Stopping")
      PROVE  HangInd'
  <2>1. \A t \in HangThreads : Active(t)' <=> Active(t)
    BY <1>2 DEF Active, Watching
  <2>2. QED
    BY <1>2, <2>1 DEF HangTyped, OneThread, StateOfThread, NobodyListens
<1>3. ASSUME NEW l \in Listeners, RemoveListener(l) PROVE HangInd'
  BY <1>2, <1>3 DEF RemoveListener, Stop
<1>4. CASE ClearListeners
  BY <1>2, <1>4 DEF ClearListeners, Stop
<1>5. QED
  BY <1>1, <1>3, <1>4

(* The thread.                                                             *)
LEMMA HangThreadNext ==
    ASSUME HangInd, NEW t \in HangThreads, HangStep(t)
    PROVE  HangInd'
<1> USE HangTrackerAssumption DEF HangInd
<1>1. CASE HangBegins(t)
  <2>1. hang[t].step = "detached" /\ Active(t) /\ UNCHANGED <<listeners, missed>>
    BY <1>1 DEF HangBegins, Active
  <2>2. PICK s \in {"loop", "gone"} : /\ hang' = [hang EXCEPT ![t].step = s]
                                      /\ s = "loop" => state = "Starting" /\ state' = "Running"
                                      /\ s = "gone" => state # "Starting" /\ state' = state
    BY <1>1 DEF HangBegins
  <2>3. hang' \in [HangThreads -> HangRecord] /\ hang'[t].step = s
        /\ \A u \in HangThreads \ {t} : hang'[u] = hang[u]
    BY <2>2 DEF HangTyped, HangRecord, RunSteps
  <2>4. \A u \in HangThreads \ {t} : ~Active(u) /\ ~Active(u)'
    BY <2>1, <2>3 DEF OneThread, Active, Watching
  <2>5. s = "gone" => state = "Stopping" /\ ~Active(t)'
    BY <2>1, <2>2, <2>3, <2>4 DEF StateOfThread, HangTyped, Active, Watching, RunSteps
  <2>6. OneThread'
    BY <2>4 DEF OneThread
  <2>7. StateOfThread'
    BY <2>2, <2>3, <2>4, <2>5 DEF StateOfThread, Active, Watching, RunSteps
  <2>8. HangTyped' /\ NobodyListens'
    BY <2>1, <2>2, <2>3, <2>5 DEF HangTyped, NobodyListens
  <2>9. QED
    BY <2>6, <2>7, <2>8
<1>2. CASE HangLoops(t)
  <2>1. hang[t].step = "loop" /\ UNCHANGED <<state, listeners, missed>>
    BY <1>2 DEF HangLoops
  <2>2. CASE state # "Running"
    <3>1. hang' = [hang EXCEPT ![t].step = "leave"]
      BY <1>2, <2>2 DEF HangLoops
    <3>2. hang' \in [HangThreads -> HangRecord] /\ hang'[t].step = "leave"
          /\ \A u \in HangThreads \ {t} : hang'[u] = hang[u]
      BY <3>1 DEF HangTyped, HangRecord
    <3>3. Active(t) /\ Active(t)' /\ \A u \in HangThreads \ {t} : ~Active(u) /\ ~Active(u)'
      BY <2>1, <3>2 DEF OneThread, Active, Watching
    <3>4. state = "Stopping"
      BY <2>1, <2>2, <3>3 DEF StateOfThread, HangTyped, Active, Watching
    <3>5. QED
      BY <2>1, <3>2, <3>3, <3>4 DEF HangTyped, OneThread, StateOfThread, NobodyListens
  <2>3. CASE state = "Running"
    <3>1. PICK n \in Nat : hang' = [hang EXCEPT ![t].step = "asleep", ![t].late = FALSE, ![t].ticks = n]
      <4>1. (IF version = 1 THEN Min2(hang[t].ticks + 1, ReportThreshold) ELSE hang[t].ticks) \in Nat
        BY DEF HangTyped, HangRecord, Min2
      <4>2. QED
        BY <1>2, <2>3, <4>1 DEF HangLoops
    <3>2. hang' \in [HangThreads -> HangRecord] /\ hang'[t].step = "asleep"
          /\ \A u \in HangThreads \ {t} : hang'[u] = hang[u]
      <4>1. \A h \in HangRecord :
              /\ [h EXCEPT !.step = "asleep", !.late = FALSE, !.ticks = n] \in HangRecord
              /\ [h EXCEPT !.step = "asleep", !.late = FALSE, !.ticks = n].step = "asleep"
        BY DEF HangRecord, RunSteps
      <4>2. PICK q \in HangRecord : hang' = [hang EXCEPT ![t] = q] /\ q.step = "asleep"
        BY <3>1, <4>1 DEF HangTyped
      <4>3. QED
        BY <4>2 DEF HangTyped
    <3>3. QED
      BY <2>1, <3>2, ThreadGoesOn DEF RunSteps
  <2>4. QED
    BY <2>2, <2>3
<1>3. CASE WakesV1(t) \/ ReportsV1(t) \/ Tells(t)
  <2>1. PICK s \in {"loop", "report", "tell"}, r \in BOOLEAN :
          hang' = [hang EXCEPT ![t].step = s] \/ hang' = [hang EXCEPT ![t].reported = r, ![t].step = s]
    BY <1>3 DEF WakesV1, ReportsV1, Tells
  <2>2. hang[t].step \in RunSteps /\ UNCHANGED <<state, listeners, missed>>
    BY <1>3 DEF WakesV1, ReportsV1, Tells, RunSteps
  <2>3. hang' \in [HangThreads -> HangRecord] /\ hang'[t].step = s
        /\ \A u \in HangThreads \ {t} : hang'[u] = hang[u]
    BY <2>1 DEF HangTyped, HangRecord, RunSteps
  <2>4. QED
    BY <2>2, <2>3, ThreadGoesOn DEF RunSteps
<1>4. CASE WakesV2(t)
  <2>1. PICK s \in {"loop", "tell"}, r \in BOOLEAN, n \in Nat :
          hang' = [hang EXCEPT ![t].step = s, ![t].reported = r, ![t].since = n]
    <3>1. Min2(hang[t].since + 1, ReportThreshold) \in Nat /\ 0 \in Nat
      BY DEF HangTyped, HangRecord, Min2
    <3>2. PICK m \in Nat : m = Min2(hang[t].since + 1, ReportThreshold)
      BY <3>1
    <3>3. PICK detected \in BOOLEAN, stopped \in BOOLEAN :
            hang' = [hang EXCEPT ![t].step = IF detected THEN "tell" ELSE "loop",
                            ![t].reported = (hang[t].reported \/ detected) /\ ~stopped,
                            ![t].since = IF stopped THEN 0 ELSE m]
      BY <1>4, <3>2, ZenonT(60) DEF WakesV2
    <3>4. PICK r \in BOOLEAN : r = ((hang[t].reported \/ detected) /\ ~stopped)
      OBVIOUS
    <3>5. (IF detected THEN "tell" ELSE "loop") \in {"loop", "tell"} /\ (IF stopped THEN 0 ELSE m) \in Nat
      OBVIOUS
    <3>6. QED
      BY <3>3, <3>4, <3>5, Zenon
  <2>2. hang[t].step = "asleep" /\ UNCHANGED <<state, listeners, missed>>
    BY <1>4 DEF WakesV2
  <2>3. hang' \in [HangThreads -> HangRecord] /\ hang'[t].step = s
        /\ \A u \in HangThreads \ {t} : hang'[u] = hang[u]
    <3>1. \A h \in HangRecord :
            /\ [h EXCEPT !.step = s, !.reported = r, !.since = n] \in HangRecord
            /\ [h EXCEPT !.step = s, !.reported = r, !.since = n].step = s
      BY DEF HangRecord, RunSteps
    <3>2. PICK q \in HangRecord : hang' = [hang EXCEPT ![t] = q] /\ q.step = s
      BY <2>1, <3>1 DEF HangTyped
    <3>3. QED
      BY <3>2 DEF HangTyped
  <2>4. QED
    BY <2>2, <2>3, ThreadGoesOn DEF RunSteps
<1>5. CASE HangLeaves(t)
  <2>1. hang[t].step = "leave" /\ hang' = [hang EXCEPT ![t].step = "gone"] /\ state' = "NotRunning"
        /\ UNCHANGED <<listeners, missed>>
    BY <1>5 DEF HangLeaves
  <2>2. hang' \in [HangThreads -> HangRecord] /\ hang'[t].step = "gone"
        /\ \A u \in HangThreads \ {t} : hang'[u] = hang[u]
    BY <2>1 DEF HangTyped, HangRecord
  <2>3. Active(t) /\ state = "Stopping" /\ \A u \in HangThreads : ~Active(u)'
    BY <2>1, <2>2 DEF OneThread, StateOfThread, Active, Watching
  <2>4. StateOfThread'
    BY <2>1, <2>3 DEF StateOfThread, Active, Watching
  <2>5. QED
    BY <2>1, <2>2, <2>3, <2>4 DEF HangTyped, OneThread, NobodyListens
<1>6. QED
  BY <1>1, <1>2, <1>3, <1>4, <1>5 DEF HangStep

(* The main thread, the app and the queue: no thread takes a step.         *)
LEMMA HangInvariance == HangInd /\ [HangNext]_hangVars => HangInd'
<1> SUFFICES ASSUME HangInd, [HangNext]_hangVars PROVE HangInd'
  OBVIOUS
<1>1. CASE BlockStores \/ BlockResets
  <2>1. PICK x : hang' = [hang EXCEPT ![x].ticks = 0] \/ hang' = [hang EXCEPT ![x].reported = FALSE]
    BY <1>1 DEF BlockStores, BlockResets
  <2>2. hang' \in [HangThreads -> HangRecord] /\ \A t \in HangThreads : hang'[t].step = hang[t].step
    <3>1. CASE hang' = [hang EXCEPT ![x].ticks = 0]
      BY <3>1 DEF HangInd, HangTyped, HangRecord
    <3>2. CASE hang' = [hang EXCEPT ![x].reported = FALSE]
      BY <3>2 DEF HangInd, HangTyped, HangRecord
    <3>3. QED
      BY <2>1, <3>1, <3>2
  <2>3. QED
    BY <1>1, <2>2, ThreadGoesOn DEF BlockStores, BlockResets, MainBlock
<1>2. CASE ResignsActive
  <2>1. PICK away \in BOOLEAN :
            hang' = IF away THEN [t \in HangThreads |-> [hang[t] EXCEPT !.late = hang[t].step = "asleep"]]
                    ELSE hang
    BY <1>2 DEF ResignsActive
  <2>2. CASE away
    <3>1. ASSUME NEW t \in HangThreads PROVE hang'[t] \in HangRecord /\ hang'[t].step = hang[t].step
      <4>1. PICK b \in BOOLEAN : b = (hang[t].step = "asleep")
        OBVIOUS
      <4>2. hang'[t] = [hang[t] EXCEPT !.late = b]
        BY <2>1, <2>2, <4>1
      <4>3. QED
        BY <4>2 DEF HangInd, HangTyped, HangRecord
    <3>2. QED
      BY <1>2, <2>1, <2>2, <3>1, ThreadGoesOn DEF ResignsActive
  <2>3. CASE ~away
    BY <1>2, <2>1, <2>3, ThreadGoesOn DEF HangInd, HangTyped, ResignsActive
  <2>4. QED
    BY <2>2, <2>3
<1>3. CASE BlockTests \/ StopBlockRuns \/ Hangs \/ Recovers \/ ComesBack \/ ProfileBegins
           \/ ProfileEnds \/ UNCHANGED hangVars
  <2>1. UNCHANGED <<hang, state, listeners, missed>>
    BY <1>3 DEF BlockTests, MainBlock, StopBlockRuns, Hangs, Recovers, ComesBack, ProfileBegins,
                ProfileEnds, Unhung, hangVars
  <2>2. QED
    BY <2>1, ThreadGoesOn DEF HangInd, HangTyped
<1>4. QED
  BY <1>1, <1>2, <1>3, ListenersNext, HangThreadNext DEF HangNext

(***************************************************************************)
(* Never do two threads watch the main thread, and while somebody listens  *)
(* one does or is about to, whatever the order in which listeners come and *)
(* go while a thread starts or leaves; but for the two cases in missed.    *)
(***************************************************************************)
THEOREM HangsWatched == HangSpec => []HangsAreWatched
<1>1. HangInd => HangsAreWatched
  <2> SUFFICES ASSUME HangInd PROVE HangsAreWatched
    OBVIOUS
  <2>1. Cardinality({t \in HangThreads : Watching(t)}) <= 1
    <3>1. CASE {t \in HangThreads : Watching(t)} = {}
      BY <3>1, FS_EmptySet
    <3>2. ASSUME NEW u \in HangThreads, Watching(u) PROVE {t \in HangThreads : Watching(t)} = {u}
      BY <3>2 DEF HangInd, OneThread, Active
    <3>3. QED
      BY <3>1, <3>2, FS_Singleton
  <2>2. ASSUME listeners # {}, ~missed
        PROVE  \E t \in HangThreads : hang[t].step = "detached" \/ Watching(t)
    BY <2>2 DEF HangInd, HangTyped, NobodyListens, StateOfThread, Watching, RunSteps
  <2>3. QED
    BY <2>1, <2>2 DEF HangsAreWatched
<1>2. QED
  BY <1>1, HangInitInd, HangInvariance, PTL DEF HangSpec

----------------------------------------------------------------------------
(***************************************************************************)
(* The profilers.  Between the test of isRunning and the tracking a start  *)
(* of a trace profile holds the lock (StartHolds), so the profile that it  *)
(* tested is still the current one; ends of tracers, the timeout and the   *)
(* background only ever stop a profile.                                    *)
(***************************************************************************)
Starting == {"join", "create", "track"}

TracersOf(p) == {t \in Tracers : profilerOf[t] = p}

ProfileRecord == [running : BOOLEAN, reason : {"none", "normal", "timeout", "background"}]

ProfilersTyped ==
    /\ mode \in {"trace", "continuous"}
    /\ profiles \in [Profile -> ProfileRecord]
    /\ current \in Profile \cup {NoProfile}
    /\ tracers \in [Tracers -> Starting \cup {"new", "schedule", "on", "done"}]
    /\ counts \in [Tracers -> Nat]
    /\ profilerOf \in [Tracers -> Tracers \cup {NoProfile}]
    /\ starts \in [ContinuousStarts -> {"new", "schedule", "observe", "done"}]

\* Only the current profile may be running.
OneRuns == \A p \in Profile : profiles[p].running => p = current

\* The mode is chosen once, and the other mode's variables stay as they were.
TraceOnly ==
    mode = "trace" => /\ starts = [n \in ContinuousStarts |-> "new"]
                      /\ current \in Tracers \cup {NoProfile}
                      /\ mainDoes.step # "cleanup"
                      /\ mainDoes.step # "nothing" => mainDoes.of \in Tracers

ContinuousOnly ==
    mode = "continuous" => /\ tracers = [t \in Tracers |-> "new"]
                           /\ mainDoes.step \in {"nothing", "cleanup"}

\* Who starts a trace profile holds the lock, and so does the timeout.
StartHolds ==
    /\ \A t \in Tracers : tracers[t] \in Starting <=> traceLock = t
    /\ mainDoes.step = "timeout" => traceLock = OnMain
    /\ \A t \in Tracers :
           /\ tracers[t] = "create" => ~IsRunning(current)
           /\ tracers[t] = "track" => current = t
           /\ tracers[t] = "join" => current \in Tracers

\* The current profile was made by a tracer that is past its test.
CurrentIsStarted ==
    mode = "trace" => \A t \in Tracers : tracers[t] \in {"new", "join", "create"} => current # t

\* The maps of tracers, and what a profile that nobody tracked yet is like.
TracksItsTracers ==
    /\ \A t \in Tracers : profilerOf[t] # NoProfile <=> tracers[t] \in {"schedule", "on"}
    /\ \A p \in Tracers : counts[p] = Cardinality(TracersOf(p))
    /\ \A p \in Tracers : tracers[p] \in Starting \cup {"new"} =>
                              TracersOf(p) = {} /\ (mode = "trace" => profiles[p].reason # "normal")

RunsForSomebody ==
    mode = "trace" => \A p \in Tracers : profiles[p].running =>
                          /\ profiles[p].reason # "normal"
                          /\ counts[p] > 0 \/ tracers[p] = "track"

NormalEnd ==
    \A t \in Tracers :
        profilerOf[t] # NoProfile /\ profiles[profilerOf[t]].reason = "normal" => t \in joinedLate

\* A clean-up that the timer decided on meets the profile that was asked to stop.
StopsWhatWasAsked ==
    mode = "continuous" =>
        /\ stopCalled /\ IsRunning(current) => current \in asked
        /\ mainDoes.step = "cleanup" /\ ~leftover => IsRunning(current) /\ current \in asked
        /\ \A n \in ContinuousStarts : profiles[n].reason = "normal" => n \in asked \/ leftover

ProfilersInd ==
    /\ ProfilersTyped /\ OneRuns /\ TraceOnly /\ ContinuousOnly /\ StartHolds
    /\ CurrentIsStarted /\ TracksItsTracers /\ RunsForSomebody /\ NormalEnd /\ StopsWhatWasAsked

LEMMA ProfilersInitInd == ProfilersInit => ProfilersInd
<1> SUFFICES ASSUME ProfilersInit PROVE ProfilersInd
  OBVIOUS
<1> USE ProfilersAssumption
<1>1. ProfilersTyped /\ OneRuns
  BY DEF ProfilersInit, ProfilersTyped, ProfileRecord, OneRuns, Starting
<1>2. TraceOnly /\ ContinuousOnly /\ StartHolds /\ CurrentIsStarted
  BY DEF ProfilersInit, TraceOnly, ContinuousOnly, StartHolds, CurrentIsStarted, Nothing, Starting, Unlocked, Profile
<1>3. \A p \in Tracers : TracersOf(p) = {}
  BY DEF ProfilersInit, TracersOf, Profile
<1>4. TracksItsTracers
  BY <1>3, FS_EmptySet DEF ProfilersInit, TracksItsTracers, Starting, Profile
<1>5. RunsForSomebody /\ NormalEnd /\ StopsWhatWasAsked
  BY DEF ProfilersInit, RunsForSomebody, NormalEnd, StopsWhatWasAsked, IsRunning, Nothing, Profile
<1>6. QED
  BY <1>1, <1>2, <1>4, <1>5 DEF ProfilersInd

\* What a stop and a new profiler do to the profiles.
LEMMA StopStops ==
    ASSUME ProfilersTyped, NEW p \in Profile, NEW r \in {"normal", "timeout", "background"}, StopForReason(p, r)
    PROVE  /\ profiles' \in [Profile -> ProfileRecord]
           /\ \A q \in Profile \ {p} : profiles'[q] = profiles[q]
           /\ profiles'[p].running = FALSE /\ profiles'[p].reason = r
  BY DEF ProfilersTyped, ProfileRecord, StopForReason

LEMMA NewProfilerIsCurrent ==
    ASSUME ProfilersTyped, NEW p \in Profile, NewProfiler(p)
    PROVE  /\ profiles' \in [Profile -> ProfileRecord]
           /\ \A q \in Profile \ {p} : profiles'[q] = profiles[q]
           /\ profiles'[p].reason = profiles[p].reason
           /\ current' = p
<1>1. PICK r \in BOOLEAN : profiles' = [profiles EXCEPT ![p].running = r]
  BY DEF NewProfiler
<1>2. QED
  BY <1>1 DEF ProfilersTyped, ProfileRecord, NewProfiler

(* Steps that touch neither the profiles nor the maps of tracers.          *)
LEMMA ProfilesStay ==
    ASSUME ProfilersInd, UNCHANGED <<mode, profiles, current, tracers, counts, profilerOf, starts, asked, joinedLate>>,
           TraceOnly', ContinuousOnly', StartHolds', StopsWhatWasAsked'
    PROVE  ProfilersInd'
<1>1. ProfilersTyped' /\ OneRuns' /\ CurrentIsStarted' /\ RunsForSomebody' /\ NormalEnd'
  BY DEF ProfilersInd, ProfilersTyped, OneRuns, CurrentIsStarted, RunsForSomebody, NormalEnd
<1>2. \A p \in Tracers : TracersOf(p)' = TracersOf(p)
  BY DEF TracersOf
<1>3. TracksItsTracers'
  BY <1>2 DEF ProfilersInd, TracksItsTracers
<1>4. QED
  BY <1>1, <1>3 DEF ProfilersInd

(* The start of a trace profile: the test of isRunning takes the lock.     *)
LEMMA StartWithTracerNext ==
    ASSUME ProfilersInd, NEW t \in Tracers, StartWithTracer(t)
    PROVE  ProfilersInd'
<1> USE ProfilersAssumption
<1>1. /\ mode = "trace" /\ tracers[t] = "new" /\ traceLock = Unlocked /\ traceLock' = t
      /\ UNCHANGED <<mode, profiles, current, counts, profilerOf, starts, stopCalled, mainDoes, joinedLate, asked, leftover>>
      /\ tracers' = [tracers EXCEPT ![t] = IF IsRunning(current) THEN "join" ELSE "create"]
  BY DEF StartWithTracer, UnchangedContinuous
<1>2. ProfilersTyped' /\ OneRuns' /\ TraceOnly' /\ ContinuousOnly' /\ CurrentIsStarted' /\ NormalEnd'
  BY <1>1 DEF ProfilersInd, ProfilersTyped, OneRuns, TraceOnly, ContinuousOnly, CurrentIsStarted, NormalEnd, Starting
<1>3. StartHolds'
  <2>1. \A u \in Tracers : u # t => tracers'[u] = tracers[u] /\ tracers[u] \notin Starting
    BY <1>1 DEF ProfilersInd, ProfilersTyped, StartHolds
  <2>2. \/ tracers'[t] = "join" /\ current' \in Tracers
        \/ tracers'[t] = "create" /\ ~IsRunning(current)'
    BY <1>1 DEF ProfilersInd, ProfilersTyped, TraceOnly, IsRunning
  <2>3. QED
    BY <1>1, <2>1, <2>2 DEF ProfilersInd, StartHolds, Starting, Unlocked, OnMain
<1>4. TracksItsTracers'
  <2>1. \A p \in Tracers : TracersOf(p)' = TracersOf(p)
    BY <1>1 DEF TracersOf
  <2>2. QED
    BY <1>1, <2>1 DEF ProfilersInd, ProfilersTyped, TracksItsTracers, Starting
<1>5. RunsForSomebody' /\ StopsWhatWasAsked'
  BY <1>1 DEF ProfilersInd, ProfilersTyped, RunsForSomebody, StopsWhatWasAsked
<1>6. QED
  BY <1>2, <1>3, <1>4, <1>5 DEF ProfilersInd

(* It makes a profiler if none ran ...                                     *)
LEMMA CreateProfilerNext ==
    ASSUME ProfilersInd, NEW t \in Tracers, CreateProfiler(t)
    PROVE  ProfilersInd'
<1> USE ProfilersAssumption
<1>1. /\ mode = "trace" /\ tracers[t] = "create" /\ traceLock = t /\ NewProfiler(t)
      /\ UNCHANGED <<mode, traceLock, counts, profilerOf, starts, stopCalled, mainDoes, joinedLate, asked, leftover>>
      /\ tracers' = [tracers EXCEPT ![t] = "track"]
  BY DEF CreateProfiler, UnchangedContinuous, ProfilersInd, ProfilersTyped, StartHolds, ContinuousOnly, Starting
<1>2. /\ profiles' \in [Profile -> ProfileRecord]
      /\ \A q \in Profile \ {t} : profiles'[q] = profiles[q]
      /\ profiles'[t].reason = profiles[t].reason
      /\ current' = t
  BY <1>1, NewProfilerIsCurrent DEF ProfilersInd, Profile
<1>3. \A p \in Profile : ~profiles[p].running
  BY <1>1 DEF ProfilersInd, OneRuns, StartHolds, IsRunning
<1>4. ProfilersTyped' /\ OneRuns' /\ TraceOnly' /\ ContinuousOnly'
  BY <1>1, <1>2, <1>3 DEF ProfilersInd, ProfilersTyped, OneRuns, TraceOnly, ContinuousOnly, Starting, Profile
<1>5. StartHolds' /\ CurrentIsStarted'
  BY <1>1, <1>2 DEF ProfilersInd, ProfilersTyped, StartHolds, CurrentIsStarted, Starting
<1>6. TracksItsTracers'
  <2>1. \A p \in Tracers : TracersOf(p)' = TracersOf(p)
    BY <1>1 DEF TracersOf
  <2>2. \A p \in Tracers : profiles'[p].reason = profiles[p].reason
    BY <1>2 DEF Profile
  <2>3. QED
    BY <1>1, <2>1, <2>2 DEF ProfilersInd, ProfilersTyped, TracksItsTracers, Starting
<1>7. RunsForSomebody'
  <2>1. profiles[t].reason # "normal"
    BY <1>1 DEF ProfilersInd, TracksItsTracers, Starting
  <2>2. QED
    BY <1>1, <1>2, <1>3, <2>1 DEF ProfilersInd, ProfilersTyped, RunsForSomebody, Profile
<1>8. NormalEnd'
  BY <1>1, <1>2 DEF ProfilersInd, ProfilersTyped, NormalEnd, Profile
<1>9. QED
  BY <1>1, <1>4, <1>5, <1>6, <1>7, <1>8 DEF ProfilersInd, StopsWhatWasAsked

(* ... and tracks it: a profile that ended since the test is joined late.  *)
LEMMA TrackProfilerNext ==
    ASSUME ProfilersInd, NEW t \in Tracers, TrackProfiler(t)
    PROVE  ProfilersInd'
<1> USE ProfilersAssumption
<1>1. /\ mode = "trace" /\ tracers[t] \in {"join", "track"} /\ traceLock = t /\ traceLock' = Unlocked
      /\ UNCHANGED <<mode, profiles, current, starts, stopCalled, mainDoes, asked, leftover>>
      /\ tracers' = [tracers EXCEPT ![t] = IF tracers[t] = "join" THEN "on" ELSE "schedule"]
      /\ counts' = [counts EXCEPT ![current] = @ + 1]
      /\ profilerOf' = [profilerOf EXCEPT ![t] = current]
      /\ joinedLate' = IF tracers[t] = "join" /\ ~IsRunning(current) THEN joinedLate \cup {t} ELSE joinedLate
  BY DEF TrackProfiler, UnchangedContinuous, ProfilersInd, ProfilersTyped, StartHolds, ContinuousOnly, Starting
<1>2. current \in Tracers /\ current # NoProfile /\ (tracers[t] = "track" => current = t)
  BY <1>1 DEF ProfilersInd, StartHolds, Profile
<1>3. ProfilersTyped' /\ OneRuns' /\ TraceOnly' /\ ContinuousOnly' /\ StopsWhatWasAsked'
  BY <1>1, <1>2 DEF ProfilersInd, ProfilersTyped, OneRuns, TraceOnly, ContinuousOnly, StopsWhatWasAsked, Starting
<1>4. StartHolds' /\ CurrentIsStarted'
  <2>1. \A u \in Tracers : u # t => tracers'[u] = tracers[u] /\ tracers[u] \notin Starting
    BY <1>1 DEF ProfilersInd, ProfilersTyped, StartHolds
  <2>2. tracers'[t] \in {"on", "schedule"} /\ mainDoes.step # "timeout"
    BY <1>1 DEF ProfilersInd, ProfilersTyped, StartHolds
  <2>3. QED
    BY <1>1, <2>1, <2>2 DEF ProfilersInd, StartHolds, CurrentIsStarted, Starting
<1>5. profilerOf[t] = NoProfile
  BY <1>1 DEF ProfilersInd, TracksItsTracers
<1>6. /\ TracersOf(current)' = TracersOf(current) \cup {t} /\ t \notin TracersOf(current)
      /\ \A p \in Tracers : p # current => TracersOf(p)' = TracersOf(p)
  BY <1>1, <1>2, <1>5 DEF TracersOf, ProfilersInd, ProfilersTyped, Profile
<1>7. TracksItsTracers'
  <2>1. IsFiniteSet(TracersOf(current))
    BY FS_Subset DEF TracersOf, Profile
  <2>2. Cardinality(TracersOf(current)') = Cardinality(TracersOf(current)) + 1
    BY <1>6, <2>1, FS_AddElement
  <2>3. \A p \in Tracers : counts'[p] = Cardinality(TracersOf(p)')
    BY <1>1, <1>2, <1>6, <2>2 DEF ProfilersInd, ProfilersTyped, TracksItsTracers
  <2>4. \A u \in Tracers : profilerOf'[u] # NoProfile <=> tracers'[u] \in {"schedule", "on"}
    BY <1>1, <1>2 DEF ProfilersInd, ProfilersTyped, TracksItsTracers
  <2>5. ASSUME NEW p \in Tracers, tracers'[p] \in Starting \cup {"new"}
        PROVE  TracersOf(p)' = {} /\ profiles'[p].reason # "normal"
    <3>1. p # t /\ tracers'[p] = tracers[p]
      BY <1>1, <2>5 DEF ProfilersInd, ProfilersTyped, Starting
    <3>2. tracers[p] = "new"
      BY <1>1, <2>5, <3>1 DEF ProfilersInd, StartHolds
    <3>3. current # p
      BY <1>1, <3>2 DEF ProfilersInd, CurrentIsStarted
    <3>4. QED
      BY <1>1, <1>6, <3>2, <3>3 DEF ProfilersInd, TracksItsTracers
  <2>6. QED
    BY <2>3, <2>4, <2>5 DEF TracksItsTracers
<1>8. RunsForSomebody'
  <2>1. counts'[current] > 0 /\ \A p \in Tracers \ {current} : counts'[p] = counts[p]
    BY <1>1, <1>2 DEF ProfilersInd, ProfilersTyped
  <2>2. \A p \in Tracers \ {current} : tracers[p] = "track" => tracers'[p] = "track"
    BY <1>1, <1>2 DEF ProfilersInd, StartHolds, ProfilersTyped
  <2>3. QED
    BY <1>1, <2>1, <2>2 DEF ProfilersInd, RunsForSomebody
<1>9. NormalEnd'
  <2>1. profiles[current].reason = "normal" => tracers[t] = "join" /\ ~IsRunning(current)
    BY <1>1, <1>2 DEF ProfilersInd, TracksItsTracers, RunsForSomebody, IsRunning, Starting
  <2>2. QED
    BY <1>1, <1>2, <2>1 DEF ProfilersInd, ProfilersTyped, NormalEnd
<1>10. QED
  BY <1>3, <1>4, <1>7, <1>8, <1>9 DEF ProfilersInd

(* The end of a tracer stops the profile with the last of them.            *)
LEMMA EndOfTracerNext ==
    ASSUME ProfilersInd, NEW t \in Tracers, EndOfTracer(t)
    PROVE  ProfilersInd'
<1> USE ProfilersAssumption
<1>1. PICK p \in Tracers : p = profilerOf[t]
  BY DEF EndOfTracer, ProfilersInd, ProfilersTyped, TracksItsTracers
<1>2. /\ mode = "trace" /\ tracers[t] = "on"
      /\ UNCHANGED <<mode, current, traceLock, starts, stopCalled, mainDoes, joinedLate, asked, leftover>>
      /\ tracers' = [tracers EXCEPT ![t] = "done"]
      /\ profilerOf' = [profilerOf EXCEPT ![t] = NoProfile]
      /\ counts' = [counts EXCEPT ![p] = @ - 1]
      /\ IF counts'[p] = 0 /\ IsRunning(p) THEN StopForReason(p, "normal") ELSE UNCHANGED profiles
  BY <1>1 DEF EndOfTracer, CleanUpProfiler, UnchangedContinuous, ProfilersInd, ProfilersTyped, ContinuousOnly
<1>3. /\ TracersOf(p)' = TracersOf(p) \ {t} /\ t \in TracersOf(p)
      /\ \A q \in Tracers : q # p => TracersOf(q)' = TracersOf(q)
  BY <1>1, <1>2 DEF TracersOf, ProfilersInd, ProfilersTyped, Profile
<1>4. /\ IsFiniteSet(TracersOf(p)') /\ Cardinality(TracersOf(p)') = Cardinality(TracersOf(p)) - 1
      /\ Cardinality(TracersOf(p)') \in Nat
  <2>1. IsFiniteSet(TracersOf(p))
    BY FS_Subset DEF TracersOf, Profile
  <2>2. QED
    BY <1>3, <2>1, FS_RemoveElement, FS_CardinalityType
<1>5. counts' \in [Tracers -> Nat] /\ \A q \in Tracers : counts'[q] = Cardinality(TracersOf(q)')
  BY <1>2, <1>3, <1>4 DEF ProfilersInd, ProfilersTyped, TracksItsTracers
<1>6. /\ profiles' \in [Profile -> ProfileRecord]
      /\ \A q \in Profile \ {p} : profiles'[q] = profiles[q]
      /\ profiles'[p].running => profiles'[p] = profiles[p] /\ counts'[p] # 0
      /\ profiles'[p] # profiles[p] => counts'[p] = 0
  <2>1. CASE counts'[p] = 0 /\ IsRunning(p)
    BY <1>2, <2>1, StopStops DEF ProfilersInd, Profile
  <2>2. CASE ~(counts'[p] = 0 /\ IsRunning(p))
    BY <1>2, <2>2 DEF ProfilersInd, ProfilersTyped, IsRunning, Profile
  <2>3. QED
    BY <2>1, <2>2
<1>7. ProfilersTyped' /\ OneRuns' /\ TraceOnly' /\ ContinuousOnly'
  BY <1>2, <1>5, <1>6 DEF ProfilersInd, ProfilersTyped, OneRuns, TraceOnly, ContinuousOnly
<1>8. StartHolds' /\ CurrentIsStarted'
  <2>1. IsRunning(current)' => IsRunning(current)
    BY <1>2, <1>6 DEF ProfilersInd, ProfilersTyped, IsRunning
  <2>2. QED
    BY <1>2, <2>1 DEF ProfilersInd, ProfilersTyped, StartHolds, CurrentIsStarted, Starting
<1>9. TracksItsTracers'
  <2>1. \A u \in Tracers : profilerOf'[u] # NoProfile <=> tracers'[u] \in {"schedule", "on"}
    BY <1>2 DEF ProfilersInd, ProfilersTyped, TracksItsTracers
  <2>2. ASSUME NEW q \in Tracers, tracers'[q] \in Starting \cup {"new"}
        PROVE  TracersOf(q)' = {} /\ profiles'[q].reason # "normal"
    <3>1. q # t /\ tracers[q] \in Starting \cup {"new"}
      BY <1>2, <2>2 DEF ProfilersInd, ProfilersTyped, Starting
    <3>2. q # p
      BY <1>3, <3>1 DEF ProfilersInd, TracksItsTracers
    <3>3. QED
      BY <1>2, <1>3, <1>6, <3>1, <3>2 DEF ProfilersInd, TracksItsTracers, Profile
  <2>3. QED
    BY <1>5, <2>1, <2>2 DEF TracksItsTracers
<1>10. RunsForSomebody'
  BY <1>2, <1>5, <1>6 DEF ProfilersInd, ProfilersTyped, RunsForSomebody, Profile
<1>11. NormalEnd'
  <2>1. ASSUME NEW u \in Tracers, profilerOf'[u] # NoProfile, profiles'[profilerOf'[u]].reason = "normal"
        PROVE  u \in joinedLate
    <3>1. u # t /\ profilerOf'[u] = profilerOf[u] /\ profilerOf[u] \in Tracers
      BY <1>2, <2>1 DEF ProfilersInd, ProfilersTyped
    <3>2. CASE profilerOf[u] = p
      <4>1. u \in TracersOf(p)'
        BY <3>1, <3>2 DEF TracersOf
      <4>2. counts'[p] # 0
        BY <1>4, <1>5, <4>1, FS_EmptySet
      <4>3. QED
        BY <1>6, <2>1, <3>1, <3>2, <4>2 DEF ProfilersInd, NormalEnd
    <3>3. CASE profilerOf[u] # p
      BY <1>6, <2>1, <3>1, <3>3 DEF ProfilersInd, NormalEnd, Profile
    <3>4. QED
      BY <3>2, <3>3
  <2>2. QED
    BY <1>2, <2>1 DEF NormalEnd
<1>12. QED
  BY <1>2, <1>7, <1>8, <1>9, <1>10, <1>11 DEF ProfilersInd, StopsWhatWasAsked

(* The main thread decides on a stop, and carries it out.                  *)
LEMMA MainThreadNext ==
    ASSUME ProfilersInd, TimeoutTimerExpired \/ BackgroundAbort
    PROVE  ProfilersInd'
<1> USE ProfilersAssumption
<1>1. /\ mode = "trace" /\ mainDoes = Nothing
      /\ UNCHANGED <<mode, profiles, current, tracers, counts, profilerOf, starts, stopCalled, joinedLate, asked, leftover>>
      /\ \/ mainDoes' = [step |-> "timeout", of |-> current] /\ current \in Tracers
            /\ traceLock = Unlocked /\ traceLock' = OnMain
         \/ mainDoes' = Nothing /\ UNCHANGED traceLock
         \/ mainDoes' = [step |-> "abort", of |-> current] /\ current \in Tracers /\ UNCHANGED traceLock
  BY DEF TimeoutTimerExpired, BackgroundAbort, UnchangedContinuous, ProfilersInd, TraceOnly, IsRunning
<1>2. TraceOnly' /\ ContinuousOnly' /\ StopsWhatWasAsked'
  BY <1>1 DEF ProfilersInd, TraceOnly, ContinuousOnly, StopsWhatWasAsked, Nothing
<1>3. StartHolds'
  <2>1. IsRunning(current)' <=> IsRunning(current)
    BY <1>1 DEF IsRunning
  <2>2. /\ mainDoes'.step = "timeout" => traceLock' = OnMain
        /\ \A t \in Tracers : traceLock' = t <=> traceLock = t
    BY <1>1 DEF Nothing
  <2>3. QED
    BY <1>1, <2>1, <2>2 DEF ProfilersInd, StartHolds
<1>4. QED
  BY <1>1, <1>2, <1>3, ProfilesStay

LEMMA MainStopsNext ==
    ASSUME ProfilersInd, MainStops("timeout", "timeout") \/ MainStops("abort", "background")
    PROVE  ProfilersInd'
<1> USE ProfilersAssumption
<1>1. PICK p \in Tracers, r \in {"timeout", "background"} :
         /\ mode = "trace" /\ mainDoes' = Nothing /\ StopForReason(p, r)
         /\ UNCHANGED <<mode, current, tracers, counts, profilerOf, starts, stopCalled, joinedLate, asked, leftover>>
         /\ \/ UNCHANGED traceLock
            \/ traceLock = OnMain /\ traceLock' = Unlocked
  BY DEF MainStops, UnchangedContinuous, ProfilersInd, ProfilersTyped, TraceOnly, ContinuousOnly, StartHolds
<1>2. /\ profiles' \in [Profile -> ProfileRecord]
      /\ \A q \in Profile \ {p} : profiles'[q] = profiles[q]
      /\ profiles'[p].running = FALSE /\ profiles'[p].reason # "normal"
  BY <1>1, StopStops DEF ProfilersInd, Profile
<1>3. ProfilersTyped' /\ OneRuns' /\ TraceOnly' /\ ContinuousOnly' /\ CurrentIsStarted'
  BY <1>1, <1>2 DEF ProfilersInd, ProfilersTyped, OneRuns, TraceOnly, ContinuousOnly, CurrentIsStarted, Nothing
<1>4. StartHolds'
  <2>1. IsRunning(current)' => IsRunning(current)
    BY <1>1, <1>2 DEF ProfilersInd, ProfilersTyped, IsRunning
  <2>2. QED
    BY <1>1, <2>1 DEF ProfilersInd, StartHolds, Nothing, Unlocked, OnMain
<1>5. TracksItsTracers'
  <2>1. \A q \in Tracers : TracersOf(q)' = TracersOf(q)
    BY <1>1 DEF TracersOf
  <2>2. QED
    BY <1>1, <1>2, <2>1 DEF ProfilersInd, TracksItsTracers, Profile
<1>6. RunsForSomebody' /\ StopsWhatWasAsked'
  BY <1>1, <1>2 DEF ProfilersInd, RunsForSomebody, StopsWhatWasAsked, Profile
<1>7. NormalEnd'
  BY <1>1, <1>2 DEF ProfilersInd, ProfilersTyped, NormalEnd, Profile
<1>8. QED
  BY <1>3, <1>4, <1>5, <1>6, <1>7 DEF ProfilersInd

(* In continuous mode no tracer has begun: what is left of the invariant.  *)
LEMMA ContinuousGoesOn ==
    ASSUME ProfilersInd, mode = "continuous",
           UNCHANGED <<mode, traceLock, tracers, counts, profilerOf, joinedLate>>,
           profiles' \in [Profile -> ProfileRecord], current' \in Profile \cup {NoProfile},
           starts' \in [ContinuousStarts -> {"new", "schedule", "observe", "done"}],
           mainDoes'.step \in {"nothing", "cleanup"}, OneRuns', StopsWhatWasAsked'
    PROVE  ProfilersInd'
<1>1. \A t \in Tracers : tracers[t] = "new" /\ profilerOf[t] = NoProfile
  BY DEF ProfilersInd, ContinuousOnly, TracksItsTracers
<1>2. ProfilersTyped' /\ TraceOnly' /\ ContinuousOnly' /\ CurrentIsStarted' /\ RunsForSomebody' /\ NormalEnd'
  BY <1>1 DEF ProfilersInd, ProfilersTyped, TraceOnly, ContinuousOnly, CurrentIsStarted, RunsForSomebody, NormalEnd
<1>3. StartHolds'
  BY <1>1 DEF ProfilersInd, StartHolds, Starting
<1>4. TracksItsTracers'
  <2>1. \A q \in Tracers : TracersOf(q)' = TracersOf(q)
    BY DEF TracersOf
  <2>2. QED
    BY <2>1 DEF ProfilersInd, TracksItsTracers
<1>5. QED
  BY <1>2, <1>3, <1>4 DEF ProfilersInd

(* A start is refused while a profile runs, even one about to stop.        *)
LEMMA ContinuousStartNext ==
    ASSUME ProfilersInd, NEW n \in ContinuousStarts, ContinuousStart(n)
    PROVE  ProfilersInd'
<1> USE ProfilersAssumption
<1>1. /\ mode = "continuous"
      /\ UNCHANGED <<mode, traceLock, tracers, counts, profilerOf, joinedLate, mainDoes, asked, leftover>>
  BY DEF ContinuousStart, UnchangedTrace
<1>2. CASE IsRunning(current)
  <2>1. UNCHANGED <<profiles, current, stopCalled>> /\ starts' = [starts EXCEPT ![n] = "done"]
    BY <1>2 DEF ContinuousStart
  <2>2. OneRuns' /\ StopsWhatWasAsked' /\ mainDoes'.step \in {"nothing", "cleanup"}
    BY <1>1, <2>1 DEF ProfilersInd, OneRuns, StopsWhatWasAsked, IsRunning, ContinuousOnly
  <2>3. QED
    BY <1>1, <2>1, <2>2, ContinuousGoesOn DEF ProfilersInd, ProfilersTyped
<1>3. CASE ~IsRunning(current)
  <2>1. NewProfiler(n) /\ stopCalled' = FALSE /\ starts' = [starts EXCEPT ![n] = "schedule"]
    BY <1>3 DEF ContinuousStart
  <2>2. /\ profiles' \in [Profile -> ProfileRecord]
        /\ \A q \in Profile \ {n} : profiles'[q] = profiles[q]
        /\ profiles'[n].reason = profiles[n].reason
        /\ current' = n
    BY <2>1, NewProfilerIsCurrent DEF ProfilersInd, Profile
  <2>3. OneRuns'
    BY <1>3, <2>2 DEF ProfilersInd, OneRuns, IsRunning
  <2>4. StopsWhatWasAsked' /\ mainDoes'.step \in {"nothing", "cleanup"}
    BY <1>1, <1>3, <2>1, <2>2 DEF ProfilersInd, StopsWhatWasAsked, ContinuousOnly, Profile
  <2>5. QED
    BY <1>1, <2>1, <2>2, <2>3, <2>4, ContinuousGoesOn DEF ProfilersInd, ProfilersTyped, Profile
<1>4. QED
  BY <1>2, <1>3

LEMMA ContinuousStepsNext ==
    ASSUME ProfilersInd, NEW n \in ContinuousStarts, ContinuousSteps(n)
    PROVE  ProfilersInd'
<1>1. /\ UNCHANGED <<mode, profiles, current, stopCalled, traceLock, tracers, counts, profilerOf, joinedLate, mainDoes, asked, leftover>>
      /\ starts[n] \in {"schedule", "observe"} /\ starts' \in [ContinuousStarts -> {"new", "schedule", "observe", "done"}]
  BY DEF ContinuousSteps, ScheduleTimer, Observe, UnchangedTrace, ProfilersInd, ProfilersTyped
<1>2. mode = "continuous"
  BY <1>1 DEF ProfilersInd, ProfilersTyped, TraceOnly
<1>3. OneRuns' /\ StopsWhatWasAsked' /\ mainDoes'.step \in {"nothing", "cleanup"}
  BY <1>1, <1>2 DEF ProfilersInd, OneRuns, StopsWhatWasAsked, ContinuousOnly, IsRunning
<1>4. QED
  BY <1>1, <1>2, <1>3, ContinuousGoesOn DEF ProfilersInd, ProfilersTyped

(* A call to stop, and the timer that finds it.                            *)
LEMMA ContinuousStopNext ==
    ASSUME ProfilersInd, ContinuousStop \/ TimerExpired
    PROVE  ProfilersInd'
<1>1. /\ mode = "continuous"
      /\ UNCHANGED <<mode, profiles, current, starts, traceLock, tracers, counts, profilerOf, joinedLate>>
  BY DEF ContinuousStop, TimerExpired, UnchangedTrace
<1>2. OneRuns' /\ (IsRunning(current)' <=> IsRunning(current))
  BY <1>1 DEF ProfilersInd, OneRuns, IsRunning
<1>3. CASE ContinuousStop
  <2>1. IsRunning(current) /\ asked' = asked \cup {current} /\ UNCHANGED <<mainDoes, leftover>>
    BY <1>3 DEF ContinuousStop
  <2>2. StopsWhatWasAsked' /\ mainDoes'.step \in {"nothing", "cleanup"}
    BY <1>1, <1>2, <2>1 DEF ProfilersInd, StopsWhatWasAsked, ContinuousOnly
  <2>3. QED
    BY <1>1, <1>2, <2>2, ContinuousGoesOn DEF ProfilersInd, ProfilersTyped
<1>4. CASE TimerExpired
  <2>1. /\ UNCHANGED <<stopCalled, asked>> /\ leftover' = (leftover \/ ~IsRunning(current))
        /\ mainDoes' = IF stopCalled THEN [step |-> "cleanup", of |-> NoProfile] ELSE Nothing
    BY <1>4 DEF TimerExpired
  <2>2. mainDoes'.step \in {"nothing", "cleanup"} /\ (mainDoes'.step = "cleanup" => stopCalled)
    BY <2>1 DEF Nothing
  <2>3. (leftover => leftover') /\ (~IsRunning(current) => leftover')
    BY <2>1
  <2>4. StopsWhatWasAsked'
    BY <1>1, <1>2, <2>1, <2>2, <2>3 DEF ProfilersInd, StopsWhatWasAsked
  <2>5. QED
    BY <1>1, <1>2, <2>2, <2>4, ContinuousGoesOn DEF ProfilersInd, ProfilersTyped
<1>5. QED
  BY <1>3, <1>4

(* The clean-up stops the profile that is there by then.                   *)
LEMMA CleansUpNext ==
    ASSUME ProfilersInd, StopTimerAndCleanup \/ WillResignActive
    PROVE  ProfilersInd'
<1> USE ProfilersAssumption
<1>1. /\ mode = "continuous" /\ CleansUp
      /\ UNCHANGED <<mode, starts, leftover, traceLock, tracers, counts, profilerOf, joinedLate>>
      /\ mainDoes'.step = "nothing"
      /\ \A n \in asked : n \in asked'
      /\ current # NoProfile => current \in asked' \/ leftover'
  <2>1. CASE StopTimerAndCleanup
    BY <2>1 DEF StopTimerAndCleanup, UnchangedTrace, ProfilersInd, ProfilersTyped, TraceOnly, StopsWhatWasAsked, Nothing
  <2>2. CASE WillResignActive
    BY <2>2 DEF WillResignActive, UnchangedTrace, Nothing
  <2>3. QED
    BY <2>1, <2>2
<1>2. /\ profiles' \in [Profile -> ProfileRecord] /\ current' = NoProfile
      /\ \A q \in Profile : q # current => profiles'[q] = profiles[q]
      /\ current # NoProfile => profiles'[current].running = FALSE
  <2>1. CASE current = NoProfile
    BY <1>1, <2>1 DEF CleansUp, ProfilersInd, ProfilersTyped
  <2>2. CASE current # NoProfile
    <3>1. current \in Profile /\ StopForReason(current, "normal") /\ current' = NoProfile
      BY <1>1, <2>2 DEF CleansUp, ProfilersInd, ProfilersTyped
    <3>2. QED
      BY <3>1, StopStops DEF ProfilersInd
  <2>3. QED
    BY <2>1, <2>2
<1>3. OneRuns'
  BY <1>2 DEF ProfilersInd, ProfilersTyped, OneRuns
<1>4. StopsWhatWasAsked'
  BY <1>1, <1>2 DEF ProfilersInd, StopsWhatWasAsked, IsRunning, Profile
<1>5. QED
  BY <1>1, <1>2, <1>3, <1>4, ContinuousGoesOn DEF ProfilersInd, ProfilersTyped

(* Steps that only arm or schedule a timer.                                *)
LEMMA ProfilersInvariance == ProfilersInd /\ [ProfilersNext]_profileVars => ProfilersInd'
<1> SUFFICES ASSUME ProfilersInd, [ProfilersNext]_profileVars PROVE ProfilersInd'
  OBVIOUS
<1>1. CASE SetsTimer \/ UNCHANGED profileVars
  <2>1. UNCHANGED <<mode, profiles, current, traceLock, tracers, counts, profilerOf, starts, stopCalled, mainDoes, joinedLate, asked, leftover>>
    BY <1>1 DEF SetsTimer, profileVars
  <2>2. TraceOnly' /\ ContinuousOnly' /\ StartHolds' /\ StopsWhatWasAsked'
    BY <2>1 DEF ProfilersInd, TraceOnly, ContinuousOnly, StartHolds, StopsWhatWasAsked, IsRunning
  <2>3. QED
    BY <2>1, <2>2, ProfilesStay
<1>2. ASSUME NEW t \in Tracers, ScheduleTimeoutTimer(t) PROVE ProfilersInd'
  <2>1. /\ mode = "trace" /\ tracers[t] = "schedule" /\ tracers' = [tracers EXCEPT ![t] = "on"]
        /\ UNCHANGED <<mode, profiles, current, traceLock, counts, profilerOf, starts, stopCalled, mainDoes, joinedLate, asked, leftover>>
    BY <1>2 DEF ScheduleTimeoutTimer, UnchangedContinuous, ProfilersInd, ProfilersTyped, ContinuousOnly
  <2>2. ProfilersTyped' /\ OneRuns' /\ TraceOnly' /\ ContinuousOnly' /\ CurrentIsStarted' /\ RunsForSomebody' /\ NormalEnd'
    BY <2>1 DEF ProfilersInd, ProfilersTyped, OneRuns, TraceOnly, ContinuousOnly, CurrentIsStarted, RunsForSomebody, NormalEnd
  <2>3. StartHolds' /\ StopsWhatWasAsked'
    BY <2>1 DEF ProfilersInd, ProfilersTyped, StartHolds, StopsWhatWasAsked, Starting, IsRunning
  <2>4. \A q \in Tracers : TracersOf(q)' = TracersOf(q)
    BY <2>1 DEF TracersOf
  <2>5. TracksItsTracers'
    BY <2>1, <2>4 DEF ProfilersInd, ProfilersTyped, TracksItsTracers, Starting
  <2>6. QED
    BY <2>2, <2>3, <2>5 DEF ProfilersInd
<1>3. QED
  BY <1>1, <1>2, StartWithTracerNext, CreateProfilerNext, TrackProfilerNext, EndOfTracerNext, MainThreadNext,
     MainStopsNext, ContinuousStartNext, ContinuousStepsNext, ContinuousStopNext, CleansUpNext
     DEF ProfilersNext, StartSteps, MainSteps

(***************************************************************************)
(* Tracers that overlap share one profile and it ends with the last of     *)
(* them, although starts and ends take different locks and the main thread *)
(* stops profiles between them; a continuous profile ends when asked.      *)
(***************************************************************************)
THEOREM OneSharedProfile == ProfilersSpec => []ProfilesAreShared
<1>1. ProfilersInd => ProfilesAreShared
  <2> SUFFICES ASSUME ProfilersInd PROVE ProfilesAreShared
    OBVIOUS
  <2>1. Cardinality({p \in Profile : profiles[p].running}) <= 1
    <3>1. CASE {p \in Profile : profiles[p].running} = {}
      BY <3>1, FS_EmptySet
    <3>2. CASE {p \in Profile : profiles[p].running} # {}
      <4>1. {p \in Profile : profiles[p].running} = {current}
        BY <3>2 DEF ProfilersInd, OneRuns
      <4>2. Cardinality({current}) = 1
        BY FS_Singleton
      <4>3. QED
        BY <4>1, <4>2
    <3>3. QED
      BY <3>1, <3>2
  <2>2. \A p \in Tracers : counts[p] = Cardinality({t \in Tracers : profilerOf[t] = p})
    BY DEF ProfilersInd, TracksItsTracers, TracersOf
  <2>3. QED
    BY <2>1, <2>2 DEF ProfilesAreShared, ProfilersInd, RunsForSomebody, NormalEnd, StopsWhatWasAsked
<1>2. QED
  BY <1>1, ProfilersInitInd, ProfilersInvariance, PTL DEF ProfilersSpec
=============================================================================
