-------------------------------- MODULE Tracer --------------------------------
(***************************************************************************)
(* One SentryTracer, a transaction with its child spans, used by several   *)
(* threads: startChild, the finish of a child, the finish of the tracer,   *)
(* the idle timeout of the transactions of UI events, the deadline timer   *)
(* of every transaction the SDK starts by itself, and finishForCrash.      *)
(*                                                                         *)
(* Two locks matter, @synchronized(self) and @synchronized(_children).  A  *)
(* step ends where one is released.  deadlineTimerFired holds _children    *)
(* while it finishes the children one by one, and each of them calls back  *)
(* into the tracer and takes the lock on self: that region is several      *)
(* steps, with the owner of _children in "lock".  The idle timeout runs on *)
(* the SDK's serial queue, the deadline timer on the main thread, and the  *)
(* main thread calls the tracer as any thread of the application does.     *)
(*                                                                         *)
(* Left out: names, timestamps, statuses, measurements, the app start and  *)
(* frame data of the transaction, and profiling.  Somebody holds the       *)
(* tracer, so the weak references of its timers are never nil, and         *)
(* dispatch_block_create succeeds.                                         *)
(***************************************************************************)
EXTENDS Naturals, FiniteSets

CONSTANTS
    Thread,         \* application threads besides the main thread
    Span,           \* identities of child spans
    Configs,        \* the configurations of the instance, a subset of Config
    NoSpan          \* no child span

Main == "main"      \* the main thread
Queue == "queue"    \* the serial queue of SentryDispatchQueueWrapper
Free == "free"      \* nobody holds the lock on _children

Worker == Thread \cup {Main, Queue}

(* SentryTracerConfiguration, whether the tracer has a hub, and the        *)
(* children shouldIgnoreWaitForChildrenCallback says not to wait for.      *)
Config == [wait : BOOLEAN, must : BOOLEAN, idle : BOOLEAN, hub : BOOLEAN,
           ignored : SUBSET Span]

(* SentrySDK.startTransaction.                                             *)
Manual == [wait |-> FALSE, must |-> FALSE, idle |-> FALSE, hub |-> TRUE,
           ignored |-> {}]

(* SentryPerformanceTracker, for a view controller that loads.             *)
ScreenLoad(ignored) ==
    [wait |-> TRUE, must |-> TRUE, idle |-> FALSE, hub |-> TRUE,
     ignored |-> ignored]

(* SentryUIEventTrackerTransactionMode.                                    *)
UIEvent == [wait |-> TRUE, must |-> FALSE, idle |-> TRUE, hub |-> TRUE,
            ignored |-> {}]

(* The tracer of a launch profile, before the SDK has started.             *)
Launch == [wait |-> FALSE, must |-> FALSE, idle |-> FALSE, hub |-> FALSE,
           ignored |-> {}]

ASSUME TracerAssumption ==
    /\ Configs \subseteq Config
    /\ NoSpan \notin Span
    /\ Thread \cap {Main, Queue, Free} = {}

VARIABLES
    config,         \* _configuration
    finished,       \* isFinished of the tracer
    finishCalled,   \* wasFinishCalled
    children,       \* _children
    open,           \* the children whose isFinished is NO
    lock,           \* the owner of @synchronized(_children) between two steps
    idleBlock,      \* an _idleTimeoutBlock is dispatched and not cancelled
    deadline,       \* the deadline timer
    bound,          \* the tracer is the span of the scope
    pc,             \* where each worker is
    child,          \* the child each worker is creating
    busy,           \* hasUnfinishedChildSpansToWaitFor, as each worker read it
    alive,          \* the process runs
    \* History
    present,        \* the children the tracer had when it finished
    outcome,        \* what became of the transaction
    captured,       \* how often it was captured or saved
    sent,           \* the spans it was captured with
    sentOpen        \* those of them that were not finished

vars == <<config, finished, finishCalled, children, open, lock, idleBlock,
          deadline, bound, pc, child, busy, alive,
          present, outcome, captured, sent, sentOpen>>
timers == <<idleBlock, deadline>>
history == <<present, outcome, captured, sent, sentOpen>>

(* "start" .. "add": in startChild; "check", "count", "decide": in         *)
(* canBeFinished; "finish" .. "copy": in finishInternal; "deadline" and    *)
(* "closing": in deadlineTimerFired before and inside its loop.            *)
PC == {"idle", "start", "add", "check", "count", "decide", "finish", "close",
       "discard", "children", "copy", "deadline", "closing"}

Deadline == {"off", "queued", "set", "cancelling"}

Outcome == {"none", "sent", "tooLong", "noHub", "notCalled", "empty", "hangs"}

-----------------------------------------------------------------------------
(* What the handlers share.                                                *)

IsAutoGeneratedTransaction == config.wait \/ config.idle

(* w can enter @synchronized(_children): the lock is recursive.            *)
MayLockChildren(w) == lock \in {Free, w}

(* Where w goes on after a call into the tracer: the deadline timer's loop *)
(* makes such calls itself.                                                *)
Return(w) == IF lock = w THEN "closing" ELSE "idle"

Goto(w, l) == pc' = [pc EXCEPT ![w] = l]

HasUnfinishedChildSpansToWaitFor ==
    /\ config.wait
    /\ \E s \in children \ config.ignored : s \in open

(* dispatchIdleTimeout cancels the block there may be and dispatches one.  *)
DispatchIdleTimeout == idleBlock' = TRUE

CancelIdleTimeout == idleBlock' = FALSE

(* dispatchAsyncOnMainQueue runs the block at once on the main thread.     *)
CancelDeadlineTimer(w) ==
    deadline' = IF deadline \notin {"set", "cancelling"} THEN deadline
                ELSE IF w = Main THEN "off" ELSE "cancelling"

-----------------------------------------------------------------------------
(* startChildWithParentId.                                                 *)

(* The idle timeout is cancelled whether or not a child can be added.      *)
StartChild(w, s) ==
    /\ pc[w] = "idle" /\ w # Queue
    /\ s \notin children /\ \A v \in Worker : child[v] # s
    /\ child' = [child EXCEPT ![w] = s]
    /\ CancelIdleTimeout
    /\ Goto(w, "start")
    /\ UNCHANGED <<config, finished, finishCalled, children, open, lock,
                   deadline, bound, busy, alive, history>>

(* A finished tracer answers with the no-op span.                          *)
ChildIsNoOp(w) ==
    /\ pc[w] = "start" /\ finished
    /\ child' = [child EXCEPT ![w] = NoSpan]
    /\ Goto(w, "idle")
    /\ UNCHANGED <<config, finished, finishCalled, children, open, lock,
                   timers, bound, busy, alive, history>>

CreateChild(w) ==
    /\ pc[w] = "start" /\ ~finished
    /\ Goto(w, "add")
    /\ UNCHANGED <<config, finished, finishCalled, children, open, lock,
                   timers, bound, child, busy, alive, history>>

AddChild(w) ==
    /\ pc[w] = "add" /\ MayLockChildren(w)
    /\ children' = children \cup {child[w]}
    /\ open' = open \cup {child[w]}
    /\ child' = [child EXCEPT ![w] = NoSpan]
    /\ Goto(w, "idle")
    /\ UNCHANGED <<config, finished, finishCalled, lock, timers, bound, busy,
                   alive, history>>

-----------------------------------------------------------------------------
(* Finishing a child, or the tracer, and what canBeFinished decides.       *)

(* finish of a child.  Nothing keeps a caller from finishing it twice.     *)
FinishSpan(w, s) ==
    /\ pc[w] = "idle" /\ w # Queue
    /\ s \in children
    /\ open' = open \ {s}
    /\ Goto(w, "check")
    /\ UNCHANGED <<config, finished, finishCalled, children, lock, timers,
                   bound, child, busy, alive, history>>

(* finish of the tracer.                                                   *)
FinishTransaction(w) ==
    /\ pc[w] = "idle" /\ w # Queue
    /\ finishCalled' = TRUE
    /\ Goto(w, "check")
    /\ UNCHANGED <<config, finished, children, open, lock, timers, bound,
                   child, busy, alive, history>>

(* canBeFinished first looks whether the tracer is finished.               *)
CheckFinished(w) ==
    /\ pc[w] = "check"
    /\ Goto(w, IF finished THEN Return(w) ELSE "count")
    /\ UNCHANGED <<config, finished, finishCalled, children, open, lock,
                   timers, bound, child, busy, alive, history>>

(* It then looks at the children, and lets go of them.                     *)
CountChildren(w) ==
    /\ pc[w] = "count" /\ (config.wait => MayLockChildren(w))
    /\ busy' = [busy EXCEPT ![w] = HasUnfinishedChildSpansToWaitFor]
    /\ Goto(w, "decide")
    /\ UNCHANGED <<config, finished, finishCalled, children, open, lock,
                   timers, bound, child, alive, history>>

(* What it decides from what it saw.                                       *)
MustRearm_Never(w) == FALSE    \* mutant: the last child leaves the timeout cancelled
MustRearm(w) == ~finishCalled /\ ~busy[w] /\ config.idle
MustWait(w) == ~finishCalled \/ busy[w]

Decide(w) ==
    /\ pc[w] = "decide"
    /\ \/ /\ MustRearm(w)
          /\ DispatchIdleTimeout
          /\ Goto(w, Return(w))
       \/ /\ ~MustRearm(w) /\ MustWait(w)
          /\ Goto(w, Return(w))
          /\ UNCHANGED idleBlock
       \/ /\ ~MustRearm(w) /\ ~MustWait(w)
          /\ Goto(w, "finish")
          /\ UNCHANGED idleBlock
    /\ busy' = [busy EXCEPT ![w] = FALSE]
    /\ UNCHANGED <<config, finished, finishCalled, children, open, lock,
                   deadline, bound, child, alive, history>>

(* A UI event with the same action as the transaction: the tracker calls   *)
(* dispatchIdleTimeout on it.                                              *)
RepeatUIEvent(w) ==
    /\ pc[w] = "idle" /\ w = Main
    /\ config.idle
    /\ DispatchIdleTimeout
    /\ UNCHANGED <<config, finished, finishCalled, children, open, lock,
                   deadline, bound, pc, child, busy, alive, history>>

-----------------------------------------------------------------------------
(* finishInternal and finishTracer.                                        *)

BeginFinish(w) ==
    /\ pc[w] = "finish"
    /\ CancelDeadlineTimer(w)
    /\ Goto(w, "close")
    /\ UNCHANGED <<config, finished, finishCalled, children, open, lock,
                   idleBlock, bound, child, busy, alive, history>>

(* The tracer is finished under @synchronized(self), once.                 *)
MayClose_Unchecked == TRUE    \* mutant: the check under the lock is missing

MayClose == ~finished

CloseTracer(w) ==
    /\ pc[w] = "close" /\ MayClose
    /\ finished' = TRUE
    /\ present' = children
    /\ Goto(w, "discard")
    /\ UNCHANGED <<config, finishCalled, children, open, lock, timers, bound,
                   child, busy, alive, outcome, captured, sent, sentOpen>>

AlreadyFinished(w) ==
    /\ pc[w] = "close" /\ ~MayClose
    /\ Goto(w, Return(w))
    /\ UNCHANGED <<config, finished, finishCalled, children, open, lock,
                   timers, bound, child, busy, alive, history>>

(* An automatic transaction that lasted too long, or one without a hub, is *)
(* given up at once; otherwise the tracer leaves the scope, and is given   *)
(* up when finish had to be called and was not.                            *)
(* Mutant: the tracer leaves the scope last. *)
DiscardTransaction_ScopeLast(w) ==
    /\ pc[w] = "discard"
    /\ IF ~config.hub \/ (config.must /\ ~finishCalled)
       THEN /\ outcome' = IF config.hub THEN "notCalled" ELSE "noHub"
            /\ Goto(w, Return(w))
            /\ UNCHANGED bound
       ELSE /\ bound' = FALSE
            /\ Goto(w, "children")
            /\ UNCHANGED outcome
    /\ UNCHANGED <<config, finished, finishCalled, children, open, lock,
                   timers, child, busy, alive, present, captured, sent,
                   sentOpen>>

DiscardTransaction(w) ==
    /\ pc[w] = "discard"
    /\ \/ /\ IsAutoGeneratedTransaction
          /\ outcome' = "tooLong" /\ Goto(w, Return(w)) /\ UNCHANGED bound
       \/ /\ ~config.hub
          /\ outcome' = "noHub" /\ Goto(w, Return(w)) /\ UNCHANGED bound
       \/ /\ config.hub
          /\ bound' = FALSE
          /\ IF config.must /\ ~finishCalled
             THEN outcome' = "notCalled" /\ Goto(w, Return(w))
             ELSE outcome' = outcome /\ Goto(w, "children")
    /\ UNCHANGED <<config, finished, finishCalled, children, open, lock,
                   timers, child, busy, alive, present, captured, sent,
                   sentOpen>>

(* Children that are still open are finished with their tracer; each calls *)
(* canBeFinished, which finds the tracer finished.                         *)
OpenAfterFinish_LeftOpen == open    \* mutant: open children stay open

OpenAfterFinish == open \ children

FinishChildren(w) ==
    /\ pc[w] = "children" /\ MayLockChildren(w)
    /\ IF config.idle /\ children = {}
       THEN outcome' = "empty" /\ Goto(w, Return(w)) /\ UNCHANGED open
       ELSE /\ open' = OpenAfterFinish
            /\ Goto(w, "copy")
            /\ UNCHANGED outcome
    /\ UNCHANGED <<config, finished, finishCalled, children, lock, timers,
                   bound, child, busy, alive, present, captured, sent,
                   sentOpen>>

(* toTransaction copies the children, and the hub captures the copy.       *)
CaptureTransaction(w) ==
    /\ pc[w] = "copy" /\ MayLockChildren(w)
    /\ sent' = children
    /\ sentOpen' = open
    /\ captured' = captured + 1
    /\ outcome' = "sent"
    /\ Goto(w, Return(w))
    /\ UNCHANGED <<config, finished, finishCalled, children, open, lock,
                   timers, bound, child, busy, alive, present>>

-----------------------------------------------------------------------------
(* The timers.                                                             *)

IdleTimeoutFires ==
    /\ pc[Queue] = "idle" /\ idleBlock
    /\ idleBlock' = FALSE
    /\ Goto(Queue, "finish")
    /\ UNCHANGED <<config, finished, finishCalled, children, open, lock,
                   deadline, bound, child, busy, alive, history>>

SetDeadlineTimer ==
    /\ pc[Main] = "idle" /\ deadline = "queued"
    /\ deadline' = "set"
    /\ UNCHANGED <<config, finished, finishCalled, children, open, lock,
                   idleBlock, bound, pc, child, busy, alive, history>>

InvalidateDeadlineTimer ==
    /\ pc[Main] = "idle" /\ deadline = "cancelling"
    /\ deadline' = "off"
    /\ UNCHANGED <<config, finished, finishCalled, children, open, lock,
                   idleBlock, bound, pc, child, busy, alive, history>>

(* The timer may fire before its invalidation reaches the main thread.     *)
DeadlineTimerFires ==
    /\ pc[Main] = "idle" /\ deadline \in {"set", "cancelling"}
    /\ deadline' = "off"
    /\ Goto(Main, IF finished THEN "idle" ELSE "deadline")
    /\ UNCHANGED <<config, finished, finishCalled, children, open, lock,
                   idleBlock, bound, child, busy, alive, history>>

LockChildren ==
    /\ pc[Main] = "deadline" /\ MayLockChildren(Main)
    /\ lock' = Main
    /\ Goto(Main, "closing")
    /\ UNCHANGED <<config, finished, finishCalled, children, open, timers,
                   bound, child, busy, alive, history>>

(* The loop finishes an open child, which calls canBeFinished.             *)
FinishNextChild(s) ==
    /\ pc[Main] = "closing" /\ s \in open \cap children
    /\ open' = open \ {s}
    /\ Goto(Main, "check")
    /\ UNCHANGED <<config, finished, finishCalled, children, lock, timers,
                   bound, child, busy, alive, history>>

(* Mutant: the deadline does not finish the tracer. *)
AllChildrenFinished_NothingMore ==
    /\ pc[Main] = "closing" /\ open \cap children = {}
    /\ lock' = Free
    /\ Goto(Main, "idle")
    /\ UNCHANGED <<config, finished, finishCalled, children, open, timers,
                   bound, child, busy, alive, history>>

AllChildrenFinished ==
    /\ pc[Main] = "closing" /\ open \cap children = {}
    /\ lock' = Free
    /\ Goto(Main, "finish")
    /\ UNCHANGED <<config, finished, finishCalled, children, open, timers,
                   bound, child, busy, alive, history>>

-----------------------------------------------------------------------------
(* finishForCrash, which the crash handler runs on the tracer of the scope *)
(* while every other thread is suspended where it is.  Without its cleanup *)
(* finishTracer leaves timers, scope and callbacks alone.                  *)

(* A suspended thread may hold one of the locks for good.                  *)
MayHang(w) ==
    \/ ~MayLockChildren(w)
    \/ \E v \in Worker : pc[v] \in {"add", "count", "decide", "close",
                                     "children", "copy"}

SaveForCrash ==
    /\ finished' = TRUE
    /\ present' = children
    /\ \/ /\ IsAutoGeneratedTransaction
          /\ outcome' = "tooLong"
          /\ UNCHANGED <<open, captured, sent, sentOpen>>
       \/ /\ config.idle /\ children = {}
          /\ outcome' = "empty"
          /\ UNCHANGED <<open, captured, sent, sentOpen>>
       \/ /\ ~(config.idle /\ children = {})
          /\ outcome' = "sent"
          /\ open' = OpenAfterFinish
          /\ captured' = captured + 1
          /\ sent' = children
          /\ sentOpen' = open'

(* A thread crashes in the application's code.                             *)
Crash(w) ==
    /\ pc[w] = "idle" /\ w # Queue
    /\ alive' = FALSE
    /\ finishCalled' = (finishCalled \/ bound)
    /\ \/ /\ ~bound \/ finished
          /\ UNCHANGED <<finished, open, history>>
       \/ /\ bound /\ ~finished /\ MayHang(w)
          /\ outcome' = "hangs"
          /\ UNCHANGED <<finished, open, present, captured, sent, sentOpen>>
       \/ /\ bound /\ ~finished /\ MayLockChildren(w)
          /\ SaveForCrash
    /\ UNCHANGED <<config, children, lock, timers, bound, pc, child, busy>>

-----------------------------------------------------------------------------
Init ==
    /\ config \in Configs
    /\ finished = FALSE /\ finishCalled = FALSE
    /\ children = {} /\ open = {}
    /\ lock = Free
    /\ idleBlock = config.idle
    /\ deadline \in IF IsAutoGeneratedTransaction THEN {"queued", "set"}
                    ELSE {"off"}
    /\ bound \in IF config.hub THEN BOOLEAN ELSE {FALSE}
    /\ pc = [w \in Worker |-> "idle"]
    /\ child = [w \in Worker |-> NoSpan]
    /\ busy = [w \in Worker |-> FALSE]
    /\ alive = TRUE
    /\ present = {} /\ outcome = "none" /\ captured = 0
    /\ sent = {} /\ sentOpen = {}

(* A worker goes on with the call it is in.                                *)
Proceed(w) ==
    \/ ChildIsNoOp(w)
    \/ CreateChild(w)
    \/ AddChild(w)
    \/ CheckFinished(w)
    \/ CountChildren(w)
    \/ Decide(w)
    \/ BeginFinish(w)
    \/ CloseTracer(w)
    \/ AlreadyFinished(w)
    \/ DiscardTransaction(w)
    \/ FinishChildren(w)
    \/ CaptureTransaction(w)

(* The application calls the tracer.                                       *)
AppCalls(w) ==
    \/ \E s \in Span : StartChild(w, s) \/ FinishSpan(w, s)
    \/ FinishTransaction(w)
    \/ RepeatUIEvent(w)

DeadlineLoop ==
    \/ LockChildren
    \/ \E s \in Span : FinishNextChild(s)
    \/ AllChildrenFinished

Next ==
    /\ alive
    /\ \/ \E w \in Worker : Proceed(w) \/ AppCalls(w) \/ Crash(w)
       \/ IdleTimeoutFires
       \/ SetDeadlineTimer
       \/ InvalidateDeadlineTimer
       \/ DeadlineTimerFires
       \/ DeadlineLoop

(* The process is gone.                                                    *)
Rest == ~alive /\ UNCHANGED vars

Spec == Init /\ [][Next \/ Rest]_vars

(* A thread that is in a call goes on with it; the main run loop, which    *)
(* the application returns to again and again, serves its queue and its    *)
(* timers, and the serial queue its timer.  Nothing makes the application  *)
(* call the tracer.                                                        *)
Fairness ==
    /\ \A w \in Worker : WF_vars(alive /\ Proceed(w))
    /\ SF_vars(alive /\ SetDeadlineTimer)
    /\ SF_vars(alive /\ DeadlineTimerFires)
    /\ WF_vars(alive /\ DeadlineLoop)
    /\ WF_vars(alive /\ IdleTimeoutFires)

FairSpec == Spec /\ Fairness

-----------------------------------------------------------------------------
(* Properties.                                                             *)

TypeOK ==
    /\ config \in Configs
    /\ finished \in BOOLEAN /\ finishCalled \in BOOLEAN
    /\ open \subseteq children /\ children \subseteq Span
    /\ lock \in {Free, Main}
    /\ idleBlock \in BOOLEAN /\ deadline \in Deadline /\ bound \in BOOLEAN
    /\ pc \in [Worker -> PC]
    /\ child \in [Worker -> Span \cup {NoSpan}]
    /\ busy \in [Worker -> BOOLEAN]
    /\ alive \in BOOLEAN
    /\ present \subseteq Span /\ outcome \in Outcome /\ captured \in Nat
    /\ sent \subseteq Span /\ sentOpen \subseteq sent

(* No worker is inside a call.                                             *)
AtRest == alive /\ \A w \in Worker : pc[w] = "idle"

(* finish, the last child, the idle timeout, the deadline and the crash    *)
(* handler may all finish the tracer at the same time: the transaction is  *)
(* captured at most once, for two with one id would be an error            *)
(* (canBeFinished's comment, finishTracer's two checks).                   *)
CapturedOnce == captured <= 1 /\ (captured = 1 => finished)

(* Every child the tracer had when it finished is in the transaction, and  *)
(* finished there; a transaction is given up for having no children only   *)
(* if it had none.                                                         *)
ChildrenAreSent ==
    /\ captured > 0 => present \subseteq sent /\ present \cap sentOpen = {}
    /\ outcome = "empty" => present = {}

(* A tracer at rest stays open for a reason.  Once finish was called it    *)
(* has a child to wait for, whichever of finish and the last child came    *)
(* first (SentryTracerConfiguration.waitForChildren); and a transaction of *)
(* a UI event with no open child has its idle timeout running, which       *)
(* startChild cancels and the last child brings back.                      *)
OpenForAReason ==
    AtRest /\ ~finished =>
        /\ finishCalled => HasUnfinishedChildSpansToWaitFor
        /\ (config.idle /\ ~finishCalled /\ open = {}) => idleBlock

(* A finished tracer has left the scope, except the one that lasted too    *)
(* long: finishTracer gives that one up before it comes to the scope.      *)
ScopeIsReleased ==
    AtRest /\ finished /\ bound => outcome = "tooLong"

(* Every transaction the SDK starts by itself is decided on in the end,    *)
(* whatever children stay open: its deadline sees to it, also when the     *)
(* timer is cancelled or fires while another thread finishes the tracer.   *)
AutoFinishes ==
    IsAutoGeneratedTransaction ~> (outcome # "none" \/ ~alive)
===============================================================================
