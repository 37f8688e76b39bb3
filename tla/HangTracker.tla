------------------------------ MODULE HangTracker ------------------------------
(***************************************************************************)
(* The two app hang trackers (SentryANRTrackerV1.m, SentryANRTrackerV2.m): *)
(* a thread that runs while there are listeners and tells them when the    *)
(* main thread hangs and when it goes on.  Version 1 counts the sleeps     *)
(* since the main thread last ran a block, version 2 asks the frames       *)
(* tracker for the delay of frames.  The life cycle of the thread is the   *)
(* same in both.                                                           *)
(*                                                                         *)
(* A block that finds MaxBlocks others of its kind waiting is left out: it *)
(* would do what they do.  A sleep takes the time it was asked for, unless *)
(* the app was suspended meanwhile.                                        *)
(***************************************************************************)
EXTENDS Integers, Sequences, FiniteSets

CONSTANTS Listeners,         \* objects that may listen
          ReportThreshold,   \* sleeps until a hang is reported, 5 in the code
          MaxBlocks,         \* bound: blocks of one kind in a queue
          HangThreads,       \* the threads that may be started, as numbers
          MaxListenerCalls,  \* bound: calls to add, remove and clear
          MaxHangs           \* bound: hangs, profiles and times the app is not active

ASSUME HangTrackerAssumption ==
    /\ ReportThreshold \in Nat \ {0} /\ MaxBlocks \in Nat \ {0} /\ HangThreads \subseteq Nat
    /\ MaxListenerCalls \in Nat /\ MaxHangs \in Nat

VARIABLES version,      \* 1 or 2
          listeners,    \* _listeners
          state,        \* state
          hang,         \* for each thread: [step, ticks, since, reported, late]
          blocks,       \* main queue: the threads whose blocks wait
          mainAt,       \* where the block that runs is
          stops,        \* blocks on the SDK's queue that call ANRStopped
          heard,        \* what each listener heard last
          phone,        \* [hanging, calm, active, foreground, changes]
          frames,       \* the frames tracker: [kept, isStarted, isRunning]
          listenerCalls,
          missed,       \* a listener came, or a stop, when no thread could take it
          raced         \* the main thread went on while a hang was being reported

hangVars == <<version, listeners, state, hang, blocks, mainAt, stops, heard, phone,
              frames, listenerCalls, missed, raced>>

HangInit ==
    /\ version \in {1, 2}
    /\ listeners = {} /\ state = "NotRunning"
    /\ hang = [t \in HangThreads |-> [step |-> "none", ticks |-> 0, since |-> ReportThreshold,
                                      reported |-> FALSE, late |-> FALSE]]
    /\ blocks = <<>> /\ mainAt = "idle" /\ stops = 0
    /\ heard = [l \in Listeners |-> "nothing"]
    /\ phone = [hanging |-> FALSE, calm |-> TRUE, active |-> TRUE, foreground |-> TRUE, changes |-> 0]
    /\ \E kept \in IF version = 2 THEN BOOLEAN ELSE {TRUE}, profiling \in BOOLEAN :
           /\ kept => profiling
           /\ frames = [kept |-> kept, isStarted |-> profiling, isRunning |-> profiling]
    /\ listenerCalls = 0 /\ missed = FALSE /\ raced = FALSE

----------------------------------------------------------------------------
(* Listeners *)

Called == listenerCalls < MaxListenerCalls /\ listenerCalls' = listenerCalls + 1

\* addListener: locks listeners and then the thread lock.
AddListener(l) ==
    /\ Called
    /\ listeners' = listeners \cup {l}
    /\ IF state = "NotRunning"
       THEN \E t \in HangThreads :
                /\ hang[t].step = "none"
                /\ hang' = [hang EXCEPT ![t].step = "detached"]
                /\ state' = "Starting"
       ELSE UNCHANGED <<hang, state>>
    /\ missed' = (missed \/ state = "Stopping")
    /\ UNCHANGED <<version, blocks, mainAt, stops, heard, phone, frames, raced>>

\* mutant: a tracker that is being stopped counts as stopped
Stop_AtOnce ==
    /\ state' = "NotRunning"
    /\ missed' = (missed \/ state # "Running")

\* stop: also when there is nothing to stop.
Stop ==
    /\ state' = "Stopping"
    /\ missed' = (missed \/ state # "Running")

\* removeListener, also of one that is not there.
RemoveListener(l) ==
    /\ Called
    /\ listeners' = listeners \ {l}
    /\ heard' = [heard EXCEPT ![l] = "nothing"]
    /\ IF listeners' = {} THEN Stop ELSE UNCHANGED <<state, missed>>
    /\ UNCHANGED <<version, hang, blocks, mainAt, stops, phone, frames, raced>>

ClearListeners ==
    /\ Called
    /\ listeners' = {}
    /\ heard' = [l \in Listeners |-> "nothing"]
    /\ Stop
    /\ UNCHANGED <<version, hang, blocks, mainAt, stops, phone, frames, raced>>

ANRDetected == heard' = [l \in Listeners |-> IF l \in listeners THEN "detected" ELSE heard[l]]

ANRStopped == heard' = [l \in Listeners |-> IF l \in listeners THEN "stopped" ELSE heard[l]]

----------------------------------------------------------------------------
(* The thread: detectANRs *)

HangBegins(t) ==
    /\ hang[t].step = "detached"
    /\ IF state = "Starting"
       THEN state' = "Running" /\ hang' = [hang EXCEPT ![t].step = "loop"]
       ELSE hang' = [hang EXCEPT ![t].step = "gone"] /\ UNCHANGED state
    /\ UNCHANGED <<version, listeners, blocks, mainAt, stops, heard, phone, frames, listenerCalls, missed, raced>>

BlocksOf(t) == Len(SelectSeq(blocks, LAMBDA b : b = t))

\* The main thread is in the middle of a block of t.
BlockRuns(t) == mainAt # "idle" /\ Head(blocks) = t

Min2(m, n) == IF m < n THEN m ELSE n

\* The head of the loop; version 1 also counts and dispatches its block.
HangLoops(t) ==
    /\ hang[t].step = "loop"
    /\ IF state # "Running"
       THEN hang' = [hang EXCEPT ![t].step = "leave"] /\ UNCHANGED blocks
       ELSE /\ hang' = [hang EXCEPT ![t].step = "asleep", ![t].late = FALSE,
                            ![t].ticks = IF version = 1 THEN Min2(@ + 1, ReportThreshold) ELSE @]
            /\ blocks' = IF version = 1 /\ BlocksOf(t) < MaxBlocks THEN Append(blocks, t) ELSE blocks
    /\ UNCHANGED <<version, listeners, state, mainAt, stops, heard, phone, frames, listenerCalls, missed, raced>>

\* Version 1 after its sleep: a wakeup that is too late is ignored.
WakesV1(t) ==
    /\ version = 1 /\ hang[t].step = "asleep"
    /\ \/ hang[t].late /\ hang' = [hang EXCEPT ![t].step = "loop"]
       \/ hang' = [hang EXCEPT ![t].step = IF hang[t].ticks >= ReportThreshold /\ ~hang[t].reported
                                           THEN "report" ELSE "loop"]
    /\ UNCHANGED <<version, listeners, state, blocks, mainAt, stops, heard, phone, frames, listenerCalls, missed, raced>>

\* The hang counts as reported also in the background, where nobody is told.
ReportsV1(t) ==
    /\ hang[t].step = "report"
    /\ hang' = [hang EXCEPT ![t].reported = TRUE, ![t].step = IF phone.foreground THEN "tell" ELSE "loop"]
    /\ raced' = (raced \/ BlockRuns(t))
    /\ UNCHANGED <<version, listeners, state, blocks, mainAt, stops, heard, phone, frames, listenerCalls, missed>>

\* getFramesDelay: unknown, or how long frames were delayed in the interval; once
\* a whole interval has passed since the hang there is no delay.  A frames tracker
\* that does not run never knows.
FramesDelay ==
    IF ~frames.isRunning THEN {"unknown"}
    ELSE IF phone.calm THEN {"none"} ELSE {"unknown", "none", "some", "all"}

\* Version 2 after its sleep.
WakesV2(t) ==
    /\ version = 2 /\ hang[t].step = "asleep"
    /\ phone' = [phone EXCEPT !.calm = ~phone.hanging]
    /\ \E delay \in FramesDelay, late \in IF hang[t].late THEN BOOLEAN ELSE {FALSE} :
           LET ignored == ~phone.foreground \/ late
               stopped == ~ignored /\ hang[t].reported /\ delay = "none"
               detected == /\ ~ignored /\ ~hang[t].reported /\ hang[t].since >= ReportThreshold
                           /\ delay \in {"some", "all"}
           IN  /\ hang' = [hang EXCEPT ![t].step = IF detected THEN "tell" ELSE "loop",
                               ![t].reported = (@ \/ detected) /\ ~stopped,
                               ![t].since = IF stopped THEN 0 ELSE Min2(@ + 1, ReportThreshold)]
               /\ stops' = IF stopped THEN Min2(stops + 1, MaxBlocks) ELSE stops
    /\ UNCHANGED <<version, listeners, state, blocks, mainAt, heard, frames, listenerCalls, missed, raced>>

Tells(t) ==
    /\ hang[t].step = "tell"
    /\ ANRDetected
    /\ hang' = [hang EXCEPT ![t].step = "loop"]
    /\ raced' = (raced \/ BlockRuns(t))
    /\ UNCHANGED <<version, listeners, state, blocks, mainAt, stops, phone, frames, listenerCalls, missed>>

HangLeaves(t) ==
    /\ hang[t].step = "leave"
    /\ state' = "NotRunning"
    /\ hang' = [hang EXCEPT ![t].step = "gone"]
    /\ UNCHANGED <<version, listeners, blocks, mainAt, stops, heard, phone, frames, listenerCalls, missed, raced>>

HangStep(t) ==
    \/ HangBegins(t) \/ HangLoops(t) \/ WakesV1(t) \/ ReportsV1(t) \/ WakesV2(t)
    \/ Tells(t) \/ HangLeaves(t)

----------------------------------------------------------------------------
(* The block of version 1 on the main thread; reported is a plain variable *)

MainBlock(at) ==
    /\ mainAt = at /\ blocks # <<>> /\ (at = "idle" => ~phone.hanging)
    /\ raced' = (raced \/ hang[Head(blocks)].step \in {"report", "tell"})
    /\ UNCHANGED <<version, listeners, state, heard, phone, frames, listenerCalls, missed>>

\* mutant: the flag is reset together with the count
BlockStores_Both ==
    /\ MainBlock("idle")
    /\ hang' = [hang EXCEPT ![Head(blocks)].ticks = 0, ![Head(blocks)].reported = FALSE]
    /\ mainAt' = "test"
    /\ UNCHANGED <<blocks, stops>>

BlockStores ==
    /\ MainBlock("idle")
    /\ hang' = [hang EXCEPT ![Head(blocks)].ticks = 0]
    /\ mainAt' = "test"
    /\ UNCHANGED <<blocks, stops>>

BlockTests ==
    /\ MainBlock("test")
    /\ stops' = IF hang[Head(blocks)].reported THEN Min2(stops + 1, MaxBlocks) ELSE stops
    /\ mainAt' = "reset"
    /\ UNCHANGED <<hang, blocks>>

BlockResets ==
    /\ MainBlock("reset")
    /\ hang' = [hang EXCEPT ![Head(blocks)].reported = FALSE]
    /\ blocks' = Tail(blocks)
    /\ mainAt' = "idle"
    /\ UNCHANGED stops

\* The block on the SDK's queue, of either version.
StopBlockRuns ==
    /\ stops > 0
    /\ stops' = stops - 1
    /\ ANRStopped
    /\ UNCHANGED <<version, listeners, state, hang, blocks, mainAt, phone, frames, listenerCalls, missed, raced>>

----------------------------------------------------------------------------
(* The app *)

Changes == phone.changes < MaxHangs

Hangs ==
    /\ Changes /\ ~phone.hanging /\ mainAt = "idle"
    /\ phone' = [phone EXCEPT !.hanging = TRUE, !.calm = FALSE, !.changes = @ + 1]
    /\ UNCHANGED <<version, listeners, state, hang, blocks, mainAt, stops, heard, frames, listenerCalls, missed, raced>>

Recovers ==
    /\ phone.hanging
    /\ phone' = [phone EXCEPT !.hanging = FALSE]
    /\ UNCHANGED <<version, listeners, state, hang, blocks, mainAt, stops, heard, frames, listenerCalls, missed, raced>>

\* The app resigns active, which pauses the frames tracker, and may go on to the
\* background, where it may be suspended.
ResignsActive ==
    /\ Changes /\ phone.active
    /\ \E away \in BOOLEAN :
           /\ phone' = [phone EXCEPT !.active = FALSE, !.foreground = ~away, !.changes = @ + 1]
           /\ hang' = IF away THEN [t \in HangThreads |->
                                     [hang[t] EXCEPT !.late = hang[t].step = "asleep"]]
                      ELSE hang
    /\ frames' = [frames EXCEPT !.isRunning = FALSE]
    /\ UNCHANGED <<version, listeners, state, blocks, mainAt, stops, heard, listenerCalls, missed, raced>>

\* The frame that spans the pause is a delayed one.
ComesBack ==
    /\ ~phone.active
    /\ phone' = [phone EXCEPT !.active = TRUE, !.foreground = TRUE, !.calm = FALSE]
    /\ frames' = [frames EXCEPT !.isRunning = @ \/ frames.isStarted]
    /\ UNCHANGED <<version, listeners, state, hang, blocks, mainAt, stops, heard, listenerCalls, missed, raced>>

Unhung == UNCHANGED <<version, listeners, state, hang, blocks, mainAt, stops, heard,
                      listenerCalls, missed, raced>>

\* A profile begins: start of the frames tracker.
ProfileBegins ==
    /\ version = 2 /\ Changes /\ ~frames.isStarted
    /\ frames' = [frames EXCEPT !.isStarted = TRUE, !.isRunning = TRUE]
    /\ phone' = [phone EXCEPT !.calm = FALSE, !.changes = @ + 1]
    /\ Unhung

\* A profile ends and takes the frames tracker with it if nothing else keeps it
\* (enableAutoPerformanceTracing); the hang tracker does not count.
ProfileEnds ==
    /\ version = 2 /\ ~frames.kept /\ frames.isStarted
    /\ frames' = [frames EXCEPT !.isStarted = FALSE, !.isRunning = FALSE]
    /\ UNCHANGED phone /\ Unhung

HangNext ==
    \/ (\E l \in Listeners : AddListener(l) \/ RemoveListener(l)) \/ ClearListeners
    \/ \E t \in HangThreads : HangStep(t)
    \/ BlockStores \/ BlockTests \/ BlockResets \/ StopBlockRuns
    \/ Hangs \/ Recovers \/ ResignsActive \/ ComesBack \/ ProfileBegins \/ ProfileEnds

\* The threads and queues go on, and the app does not hang or stay inactive for
\* ever.  Nobody promises another profile.
HangFairness ==
    /\ \A t \in HangThreads : WF_hangVars(HangStep(t))
    /\ WF_hangVars(BlockStores \/ BlockTests \/ BlockResets) /\ WF_hangVars(StopBlockRuns)
    /\ WF_hangVars(Recovers) /\ WF_hangVars(ComesBack)

HangSpec == HangInit /\ [][HangNext]_hangVars /\ HangFairness

----------------------------------------------------------------------------
(* Properties *)

Watching(t) == hang[t].step \in {"loop", "asleep", "report", "tell", "leave"}

\* There is never more than one thread that watches, whatever the order in which
\* listeners come and go while a thread starts or leaves; and while there are
\* listeners a thread watches or is about to.  It is not so if a listener was
\* added while the last thread had been asked to stop, until another is added
\* after that thread has left; and never again once the tracker was stopped when
\* no thread was running: the state then stays Stopping.
HangsAreWatched ==
    /\ Cardinality({t \in HangThreads : Watching(t)}) <= 1
    /\ listeners # {} /\ ~missed =>
           \E t \in HangThreads : hang[t].step = "detached" \/ Watching(t)

\* A listener that was told of a hang is told that it is over (the watchdog
\* tracker keeps isANROngoing in the app state until then).  There are three
\* exceptions: the main thread went on in the very moment of the report, which
\* version 1 shares a plain variable with; the listener was added after the thread
\* that told it had been asked to stop, or found the tracker stopped for good
\* (`missed`); and the end of a profile stopped the frames tracker, without which
\* version 2 goes round its loop and says nothing, and no profile started it again.
HangsAreOver ==
    \A l \in Listeners :
        heard[l] = "detected" ~> \/ heard[l] # "detected" \/ raced \/ missed
                                 \/ [](version = 2 /\ ~frames.isStarted)

=============================================================================
