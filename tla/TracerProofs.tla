----------------------------- MODULE TracerProofs -----------------------------
(***************************************************************************)
(* Proofs about Tracer, for any number of threads and spans and any set of *)
(* configurations: its state stays well typed, a transaction is captured   *)
(* at most once, and with the children it had, and a tracer at rest is     *)
(* open or on the scope only for a reason.                                 *)
(***************************************************************************)
EXTENDS Tracer, TLAPS

(* A worker that has finished the tracer and not yet decided what becomes  *)
(* of the transaction.                                                     *)
Ending == {"discard", "children", "copy"}

(* Only the worker that set isFinished gets to capture the transaction.    *)
OneCloser ==
    /\ \A v, w \in Worker : pc[v] \in Ending /\ pc[w] \in Ending => v = w
    /\ \A w \in Worker : pc[w] \in Ending => finished /\ captured = 0
    /\ ~finished => captured = 0 /\ outcome # "empty"
    /\ captured <= 1

(* A child that is being created is new, and no other worker creates it.   *)
NewChildren ==
    /\ \A w \in Worker : pc[w] \in {"start", "add"} => child[w] \in Span
    /\ \A w \in Worker : child[w] \notin children
    /\ \A v, w \in Worker : child[v] = child[w] /\ child[v] \in Span => v = w

(* Between FinishChildren and the copy only new children can be open.      *)
Complete ==
    /\ present \subseteq children
    /\ \A w \in Worker : pc[w] = "copy" => present \cap open = {}
    /\ ChildrenAreSent

(* The inductive invariant.                                                *)
IndInv == TypeOK /\ OneCloser /\ NewChildren /\ Complete

(* A worker that is to decide whether the tracer is finished, and sees that*)
(* it may be; one that is to add a child.                                  *)
Deciding(w) ==
    \/ pc[w] \in {"check", "count", "finish", "close", "deadline", "closing"}
    \/ pc[w] = "decide" /\ ~busy[w]

Adding(w) == pc[w] \in {"start", "add"}

(* What keeps an open tracer open, or somebody is about to look.           *)
WillFinish ==
    alive /\ finishCalled /\ ~finished =>
        HasUnfinishedChildSpansToWaitFor \/ \E w \in Worker : Deciding(w)

WillTimeOut ==
    config.idle /\ ~finishCalled /\ ~finished /\ open = {} =>
        idleBlock \/ \E w \in Worker : Deciding(w) \/ Adding(w)

(* Who finished the tracer takes it from the scope before anything else.   *)
WillRelease ==
    /\ bound => config.hub
    /\ \A w \in Worker : pc[w] \in {"children", "copy"} => ~bound
    /\ alive /\ finished /\ bound =>
           outcome = "tooLong" \/ \E w \in Worker : pc[w] = "discard"

(* The inductive invariant of a tracer at rest.                            *)
RestInv == WillFinish /\ WillTimeOut /\ WillRelease

(* A new tracer satisfies it.                                              *)
LEMMA InitInd == Init => IndInv
<1> SUFFICES ASSUME Init PROVE IndInv
  OBVIOUS
<1>1. config.idle \in BOOLEAN /\ config.hub \in BOOLEAN
  BY TracerAssumption DEF Init, Config
<1>2. bound \in BOOLEAN /\ idleBlock \in BOOLEAN
  BY <1>1 DEF Init
<1>3. TypeOK
  BY <1>2 DEF Init, TypeOK, PC, Deadline, Outcome
<1>4. OneCloser /\ NewChildren
  BY TracerAssumption DEF Init, OneCloser, NewChildren, Ending
<1>5. Complete
  BY DEF Init, Complete, ChildrenAreSent
<1>6. QED
  BY <1>3, <1>4, <1>5 DEF IndInv

(* Each step keeps the types.                                              *)
LEMMA TypeNext ==
    ASSUME IndInv, [Next \/ Rest]_vars
    PROVE  TypeOK'
<1> USE TracerAssumption DEF IndInv, TypeOK, NewChildren, Goto, PC, Deadline, Outcome, Worker, history, timers
<1>1. ASSUME NEW w \in Worker, Proceed(w) PROVE TypeOK'
  <2>1. CASE ChildIsNoOp(w)
    BY <2>1 DEF ChildIsNoOp
  <2>2. CASE CreateChild(w)
    BY <2>2 DEF CreateChild
  <2>3. CASE AddChild(w)
    BY <2>3 DEF AddChild
  <2>4. CASE CheckFinished(w)
    BY <2>4 DEF CheckFinished, Return
  <2>5. CASE CountChildren(w)
    <3>1. HasUnfinishedChildSpansToWaitFor \in BOOLEAN
      BY DEF HasUnfinishedChildSpansToWaitFor
    <3>2. busy' \in [Worker -> BOOLEAN]
      BY <2>5, <3>1 DEF CountChildren
    <3>3. QED
      BY <2>5, <3>2 DEF CountChildren
  <2>6. CASE Decide(w)
    <3>1. idleBlock' \in BOOLEAN /\ busy' \in [Worker -> BOOLEAN]
      BY <2>6 DEF Decide, DispatchIdleTimeout
    <3>2. pc' \in [Worker -> PC]
      BY <2>6 DEF Decide, Return
    <3>3. QED
      BY <2>6, <3>1, <3>2 DEF Decide
  <2>7. CASE BeginFinish(w)
    BY <2>7 DEF BeginFinish, CancelDeadlineTimer, Deadline
  <2>8. CASE CloseTracer(w)
    BY <2>8 DEF CloseTracer, MayClose
  <2>9. CASE AlreadyFinished(w)
    BY <2>9 DEF AlreadyFinished, Return
  <2>10. CASE DiscardTransaction(w)
    <3>1. bound' \in BOOLEAN /\ outcome' \in Outcome
      BY <2>10 DEF DiscardTransaction
    <3>2. pc' \in [Worker -> PC]
      BY <2>10 DEF DiscardTransaction, Return
    <3>3. QED
      BY <2>10, <3>1, <3>2 DEF DiscardTransaction
  <2>11. CASE FinishChildren(w)
    BY <2>11 DEF FinishChildren, Return, OpenAfterFinish
  <2>12. CASE CaptureTransaction(w)
    BY <2>12 DEF CaptureTransaction, Return
  <2>13. QED
    BY <1>1, <2>1, <2>2, <2>3, <2>4, <2>5, <2>6, <2>7, <2>8, <2>9, <2>10, <2>11, <2>12 DEF Proceed
<1>2. ASSUME NEW w \in Worker, AppCalls(w) PROVE TypeOK'
  <2>1. CASE \E s \in Span : StartChild(w, s)
    <3>1. idleBlock' \in BOOLEAN
      BY <2>1 DEF StartChild, CancelIdleTimeout
    <3>2. QED
      BY <2>1, <3>1 DEF StartChild
  <2>2. CASE \E s \in Span : FinishSpan(w, s)
    BY <2>2 DEF FinishSpan
  <2>3. CASE FinishTransaction(w)
    BY <2>3 DEF FinishTransaction
  <2>4. CASE RepeatUIEvent(w)
    BY <2>4 DEF RepeatUIEvent, DispatchIdleTimeout
  <2>5. QED
    BY <1>2, <2>1, <2>2, <2>3, <2>4 DEF AppCalls
<1>3. ASSUME NEW w \in Worker, Crash(w) PROVE TypeOK'
  <2>1. finished' \in BOOLEAN /\ finishCalled' \in BOOLEAN /\ alive' \in BOOLEAN
    BY <1>3 DEF Crash, SaveForCrash
  <2>2. open' \subseteq children' /\ sentOpen' \subseteq sent' /\ sent' \subseteq Span
    BY <1>3 DEF Crash, SaveForCrash, OpenAfterFinish
  <2>3. present' \subseteq Span /\ outcome' \in Outcome /\ captured' \in Nat
    BY <1>3 DEF Crash, SaveForCrash
  <2>4. QED
    BY <1>3, <2>1, <2>2, <2>3 DEF Crash
<1>4. CASE IdleTimeoutFires
  BY <1>4 DEF IdleTimeoutFires
<1>5. CASE SetDeadlineTimer \/ InvalidateDeadlineTimer
  BY <1>5 DEF SetDeadlineTimer, InvalidateDeadlineTimer
<1>6. CASE DeadlineTimerFires
  BY <1>6 DEF DeadlineTimerFires
<1>7. CASE DeadlineLoop
  <2>1. CASE LockChildren
    BY <2>1 DEF LockChildren
  <2>2. CASE \E s \in Span : FinishNextChild(s)
    BY <2>2 DEF FinishNextChild
  <2>3. CASE AllChildrenFinished
    BY <2>3 DEF AllChildrenFinished
  <2>4. QED
    BY <1>7, <2>1, <2>2, <2>3 DEF DeadlineLoop
<1>8. CASE Rest \/ UNCHANGED vars
  BY <1>8 DEF Rest, vars
<1>9. QED
  BY <1>1, <1>2, <1>3, <1>4, <1>5, <1>6, <1>7, <1>8 DEF Next

(* Only CloseTracer lets a worker in, and it finds the tracer unfinished.  *)
LEMMA OneCloserNext ==
    ASSUME IndInv, [Next \/ Rest]_vars
    PROVE  OneCloser'
<1> USE TracerAssumption DEF IndInv, TypeOK, OneCloser, Ending, Goto, PC, Worker, history, timers
<1>1. ASSUME NEW w \in Worker, Proceed(w) PROVE OneCloser'
  <2>1. CASE ChildIsNoOp(w)
    BY <2>1 DEF ChildIsNoOp
  <2>2. CASE CreateChild(w)
    BY <2>2 DEF CreateChild
  <2>3. CASE AddChild(w)
    BY <2>3 DEF AddChild
  <2>4. CASE CheckFinished(w)
    BY <2>4 DEF CheckFinished, Return
  <2>5. CASE CountChildren(w)
    BY <2>5 DEF CountChildren
  <2>6. CASE Decide(w)
    BY <2>6 DEF Decide, Return, DispatchIdleTimeout
  <2>7. CASE BeginFinish(w)
    BY <2>7 DEF BeginFinish, CancelDeadlineTimer, Deadline
  <2>8. CASE CloseTracer(w)
    BY <2>8 DEF CloseTracer, MayClose
  <2>9. CASE AlreadyFinished(w)
    BY <2>9 DEF AlreadyFinished, Return
  <2>10. CASE DiscardTransaction(w)
    BY <2>10 DEF DiscardTransaction, Return
  <2>11. CASE FinishChildren(w)
    BY <2>11 DEF FinishChildren, Return, OpenAfterFinish
  <2>12. CASE CaptureTransaction(w)
    BY <2>12 DEF CaptureTransaction, Return
  <2>13. QED
    BY <1>1, <2>1, <2>2, <2>3, <2>4, <2>5, <2>6, <2>7, <2>8, <2>9, <2>10, <2>11, <2>12 DEF Proceed
<1>2. ASSUME NEW w \in Worker, AppCalls(w) PROVE OneCloser'
  <2>1. CASE \E s \in Span : StartChild(w, s)
    BY <2>1 DEF StartChild, CancelIdleTimeout
  <2>2. CASE \E s \in Span : FinishSpan(w, s)
    BY <2>2 DEF FinishSpan
  <2>3. CASE FinishTransaction(w)
    BY <2>3 DEF FinishTransaction
  <2>4. CASE RepeatUIEvent(w)
    BY <2>4 DEF RepeatUIEvent, DispatchIdleTimeout
  <2>5. QED
    BY <1>2, <2>1, <2>2, <2>3, <2>4 DEF AppCalls
<1>3. ASSUME NEW w \in Worker, Crash(w) PROVE OneCloser'
  BY <1>3 DEF Crash, SaveForCrash, OpenAfterFinish
<1>4. CASE IdleTimeoutFires
  BY <1>4 DEF IdleTimeoutFires
<1>5. CASE SetDeadlineTimer \/ InvalidateDeadlineTimer
  BY <1>5 DEF SetDeadlineTimer, InvalidateDeadlineTimer
<1>6. CASE DeadlineTimerFires
  BY <1>6 DEF DeadlineTimerFires
<1>7. CASE DeadlineLoop
  <2>1. CASE LockChildren
    BY <2>1 DEF LockChildren
  <2>2. CASE \E s \in Span : FinishNextChild(s)
    BY <2>2 DEF FinishNextChild
  <2>3. CASE AllChildrenFinished
    BY <2>3 DEF AllChildrenFinished
  <2>4. QED
    BY <1>7, <2>1, <2>2, <2>3 DEF DeadlineLoop
<1>8. CASE Rest \/ UNCHANGED vars
  BY <1>8 DEF Rest, vars
<1>9. QED
  BY <1>1, <1>2, <1>3, <1>4, <1>5, <1>6, <1>7, <1>8 DEF Next

(* Only StartChild takes a child, and only AddChild puts it in.            *)
LEMMA NewChildrenNext ==
    ASSUME IndInv, [Next \/ Rest]_vars
    PROVE  NewChildren'
<1> USE TracerAssumption DEF IndInv, TypeOK, NewChildren, Goto, PC, Worker, history, timers
<1>1. ASSUME NEW w \in Worker, Proceed(w) PROVE NewChildren'
  <2>1. CASE ChildIsNoOp(w)
    BY <2>1 DEF ChildIsNoOp
  <2>2. CASE CreateChild(w)
    BY <2>2 DEF CreateChild
  <2>3. CASE AddChild(w)
    BY <2>3 DEF AddChild
  <2>4. CASE CheckFinished(w)
    BY <2>4 DEF CheckFinished, Return
  <2>5. CASE CountChildren(w)
    BY <2>5 DEF CountChildren
  <2>6. CASE Decide(w)
    BY <2>6 DEF Decide, Return, DispatchIdleTimeout
  <2>7. CASE BeginFinish(w)
    BY <2>7 DEF BeginFinish, CancelDeadlineTimer, Deadline
  <2>8. CASE CloseTracer(w)
    BY <2>8 DEF CloseTracer, MayClose
  <2>9. CASE AlreadyFinished(w)
    BY <2>9 DEF AlreadyFinished, Return
  <2>10. CASE DiscardTransaction(w)
    BY <2>10 DEF DiscardTransaction, Return
  <2>11. CASE FinishChildren(w)
    BY <2>11 DEF FinishChildren, Return, OpenAfterFinish
  <2>12. CASE CaptureTransaction(w)
    BY <2>12 DEF CaptureTransaction, Return
  <2>13. QED
    BY <1>1, <2>1, <2>2, <2>3, <2>4, <2>5, <2>6, <2>7, <2>8, <2>9, <2>10, <2>11, <2>12 DEF Proceed
<1>2. ASSUME NEW w \in Worker, AppCalls(w) PROVE NewChildren'
  <2>1. CASE \E s \in Span : StartChild(w, s)
    BY <2>1 DEF StartChild, CancelIdleTimeout
  <2>2. CASE \E s \in Span : FinishSpan(w, s)
    BY <2>2 DEF FinishSpan
  <2>3. CASE FinishTransaction(w)
    BY <2>3 DEF FinishTransaction
  <2>4. CASE RepeatUIEvent(w)
    BY <2>4 DEF RepeatUIEvent, DispatchIdleTimeout
  <2>5. QED
    BY <1>2, <2>1, <2>2, <2>3, <2>4 DEF AppCalls
<1>3. ASSUME NEW w \in Worker, Crash(w) PROVE NewChildren'
  BY <1>3 DEF Crash, SaveForCrash, OpenAfterFinish
<1>4. CASE IdleTimeoutFires
  BY <1>4 DEF IdleTimeoutFires
<1>5. CASE SetDeadlineTimer \/ InvalidateDeadlineTimer
  BY <1>5 DEF SetDeadlineTimer, InvalidateDeadlineTimer
<1>6. CASE DeadlineTimerFires
  BY <1>6 DEF DeadlineTimerFires
<1>7. CASE DeadlineLoop
  <2>1. CASE LockChildren
    BY <2>1 DEF LockChildren
  <2>2. CASE \E s \in Span : FinishNextChild(s)
    BY <2>2 DEF FinishNextChild
  <2>3. CASE AllChildrenFinished
    BY <2>3 DEF AllChildrenFinished
  <2>4. QED
    BY <1>7, <2>1, <2>2, <2>3 DEF DeadlineLoop
<1>8. CASE Rest \/ UNCHANGED vars
  BY <1>8 DEF Rest, vars
<1>9. QED
  BY <1>1, <1>2, <1>3, <1>4, <1>5, <1>6, <1>7, <1>8 DEF Next

(* Children are only added, and what is finished stays finished.           *)
LEMMA CompleteNext ==
    ASSUME IndInv, [Next \/ Rest]_vars
    PROVE  Complete'
<1> USE TracerAssumption DEF IndInv, TypeOK, OneCloser, NewChildren, Complete, ChildrenAreSent, Ending, Goto, PC, Worker, history, timers
<1>1. ASSUME NEW w \in Worker, Proceed(w) PROVE Complete'
  <2>1. CASE ChildIsNoOp(w)
    BY <2>1 DEF ChildIsNoOp
  <2>2. CASE CreateChild(w)
    BY <2>2 DEF CreateChild
  <2>3. CASE AddChild(w)
    BY <2>3 DEF AddChild
  <2>4. CASE CheckFinished(w)
    BY <2>4 DEF CheckFinished, Return
  <2>5. CASE CountChildren(w)
    BY <2>5 DEF CountChildren
  <2>6. CASE Decide(w)
    BY <2>6 DEF Decide, Return, DispatchIdleTimeout
  <2>7. CASE BeginFinish(w)
    BY <2>7 DEF BeginFinish, CancelDeadlineTimer, Deadline
  <2>8. CASE CloseTracer(w)
    BY <2>8 DEF CloseTracer, MayClose
  <2>9. CASE AlreadyFinished(w)
    BY <2>9 DEF AlreadyFinished, Return
  <2>10. CASE DiscardTransaction(w)
    BY <2>10 DEF DiscardTransaction, Return
  <2>11. CASE FinishChildren(w)
    BY <2>11 DEF FinishChildren, Return, OpenAfterFinish
  <2>12. CASE CaptureTransaction(w)
    BY <2>12 DEF CaptureTransaction, Return
  <2>13. QED
    BY <1>1, <2>1, <2>2, <2>3, <2>4, <2>5, <2>6, <2>7, <2>8, <2>9, <2>10, <2>11, <2>12 DEF Proceed
<1>2. ASSUME NEW w \in Worker, AppCalls(w) PROVE Complete'
  <2>1. CASE \E s \in Span : StartChild(w, s)
    BY <2>1 DEF StartChild, CancelIdleTimeout
  <2>2. CASE \E s \in Span : FinishSpan(w, s)
    BY <2>2 DEF FinishSpan
  <2>3. CASE FinishTransaction(w)
    BY <2>3 DEF FinishTransaction
  <2>4. CASE RepeatUIEvent(w)
    BY <2>4 DEF RepeatUIEvent, DispatchIdleTimeout
  <2>5. QED
    BY <1>2, <2>1, <2>2, <2>3, <2>4 DEF AppCalls
<1>3. ASSUME NEW w \in Worker, Crash(w) PROVE Complete'
  BY <1>3 DEF Crash, SaveForCrash, OpenAfterFinish
<1>4. CASE IdleTimeoutFires
  BY <1>4 DEF IdleTimeoutFires
<1>5. CASE SetDeadlineTimer \/ InvalidateDeadlineTimer
  BY <1>5 DEF SetDeadlineTimer, InvalidateDeadlineTimer
<1>6. CASE DeadlineTimerFires
  BY <1>6 DEF DeadlineTimerFires
<1>7. CASE DeadlineLoop
  <2>1. CASE LockChildren
    BY <2>1 DEF LockChildren
  <2>2. CASE \E s \in Span : FinishNextChild(s)
    BY <2>2 DEF FinishNextChild
  <2>3. CASE AllChildrenFinished
    BY <2>3 DEF AllChildrenFinished
  <2>4. QED
    BY <1>7, <2>1, <2>2, <2>3 DEF DeadlineLoop
<1>8. CASE Rest \/ UNCHANGED vars
  BY <1>8 DEF Rest, vars
<1>9. QED
  BY <1>1, <1>2, <1>3, <1>4, <1>5, <1>6, <1>7, <1>8 DEF Next

(* Who finds nothing to wait for goes on to finish the tracer or to bring  *)
(* back the idle timeout.                                                  *)
LEMMA RestByProceed ==
    ASSUME IndInv, RestInv, NEW w \in Worker, Proceed(w)
    PROVE  RestInv'
<1> USE TracerAssumption DEF IndInv, TypeOK, OneCloser, Ending, Goto, PC, Worker, history, timers
<1>1. CASE ChildIsNoOp(w)
  <2>1. WillFinish'
    BY <1>1 DEF RestInv, WillFinish, Deciding, HasUnfinishedChildSpansToWaitFor, ChildIsNoOp
  <2>2. WillTimeOut'
    BY <1>1 DEF RestInv, WillTimeOut, Deciding, Adding, ChildIsNoOp
  <2>3. WillRelease'
    BY <1>1 DEF RestInv, WillRelease, ChildIsNoOp
  <2>4. QED
    BY <2>1, <2>2, <2>3 DEF RestInv
<1>2. CASE CreateChild(w)
  <2>1. WillFinish'
    BY <1>2 DEF RestInv, WillFinish, Deciding, HasUnfinishedChildSpansToWaitFor, CreateChild
  <2>2. WillTimeOut'
    BY <1>2 DEF RestInv, WillTimeOut, Deciding, Adding, CreateChild
  <2>3. WillRelease'
    BY <1>2 DEF RestInv, WillRelease, CreateChild
  <2>4. QED
    BY <2>1, <2>2, <2>3 DEF RestInv
<1>3. CASE AddChild(w)
  <2>1. WillFinish'
    BY <1>3 DEF RestInv, WillFinish, Deciding, HasUnfinishedChildSpansToWaitFor, AddChild
  <2>2. WillTimeOut'
    BY <1>3 DEF RestInv, WillTimeOut, Deciding, Adding, AddChild
  <2>3. WillRelease'
    BY <1>3 DEF RestInv, WillRelease, AddChild
  <2>4. QED
    BY <2>1, <2>2, <2>3 DEF RestInv
<1>4. CASE CheckFinished(w)
  <2>1. WillFinish'
    BY <1>4 DEF RestInv, WillFinish, Deciding, HasUnfinishedChildSpansToWaitFor, CheckFinished, Return
  <2>2. WillTimeOut'
    BY <1>4 DEF RestInv, WillTimeOut, Deciding, Adding, CheckFinished, Return
  <2>3. WillRelease'
    BY <1>4 DEF RestInv, WillRelease, CheckFinished, Return
  <2>4. QED
    BY <2>1, <2>2, <2>3 DEF RestInv
<1>5. CASE CountChildren(w)
  <2>1. WillFinish'
    <3>1. UNCHANGED <<config, children, open, alive, finishCalled, finished>> /\ pc'[w] = "decide"
      BY <1>5 DEF CountChildren
    <3>2. HasUnfinishedChildSpansToWaitFor => HasUnfinishedChildSpansToWaitFor'
      BY <3>1 DEF HasUnfinishedChildSpansToWaitFor
    <3>3. ~HasUnfinishedChildSpansToWaitFor => ~busy'[w]
      BY <1>5 DEF CountChildren
    <3>4. QED
      BY <3>1, <3>2, <3>3 DEF WillFinish, Deciding
  <2>2. WillTimeOut'
    <3>1. UNCHANGED <<config, open, finishCalled, finished, idleBlock>> /\ pc'[w] = "decide"
      BY <1>5 DEF CountChildren
    <3>2. open = {} => ~busy'[w]
      BY <1>5 DEF CountChildren, HasUnfinishedChildSpansToWaitFor
    <3>3. \A v \in Worker : v # w => pc'[v] = pc[v] /\ busy'[v] = busy[v]
      BY <1>5 DEF CountChildren
    <3>4. QED
      BY <3>1, <3>2, <3>3 DEF RestInv, WillTimeOut, Deciding, Adding
  <2>3. WillRelease'
    BY <1>5 DEF RestInv, WillRelease, CountChildren
  <2>4. QED
    BY <2>1, <2>2, <2>3 DEF RestInv
<1>6. CASE Decide(w)
  <2>1. WillFinish'
    BY <1>6 DEF RestInv, WillFinish, Deciding, HasUnfinishedChildSpansToWaitFor, Decide, Return, DispatchIdleTimeout, MustRearm, MustWait
  <2>2. WillTimeOut'
    BY <1>6 DEF RestInv, WillTimeOut, Deciding, Adding, Decide, Return, DispatchIdleTimeout, MustRearm, MustWait
  <2>3. WillRelease'
    BY <1>6 DEF RestInv, WillRelease, Decide, Return, DispatchIdleTimeout, MustRearm, MustWait
  <2>4. QED
    BY <2>1, <2>2, <2>3 DEF RestInv
<1>7. CASE BeginFinish(w)
  <2>1. WillFinish'
    BY <1>7 DEF RestInv, WillFinish, Deciding, HasUnfinishedChildSpansToWaitFor, BeginFinish, CancelDeadlineTimer
  <2>2. WillTimeOut'
    BY <1>7 DEF RestInv, WillTimeOut, Deciding, Adding, BeginFinish, CancelDeadlineTimer
  <2>3. WillRelease'
    BY <1>7 DEF RestInv, WillRelease, BeginFinish, CancelDeadlineTimer
  <2>4. QED
    BY <2>1, <2>2, <2>3 DEF RestInv
<1>8. CASE CloseTracer(w)
  <2>1. WillFinish'
    BY <1>8 DEF RestInv, WillFinish, Deciding, HasUnfinishedChildSpansToWaitFor, CloseTracer, MayClose
  <2>2. WillTimeOut'
    BY <1>8 DEF RestInv, WillTimeOut, Deciding, Adding, CloseTracer, MayClose
  <2>3. WillRelease'
    BY <1>8 DEF RestInv, WillRelease, CloseTracer, MayClose
  <2>4. QED
    BY <2>1, <2>2, <2>3 DEF RestInv
<1>9. CASE AlreadyFinished(w)
  <2>1. WillFinish'
    BY <1>9 DEF RestInv, WillFinish, Deciding, HasUnfinishedChildSpansToWaitFor, AlreadyFinished, MayClose, Return
  <2>2. WillTimeOut'
    BY <1>9 DEF RestInv, WillTimeOut, Deciding, Adding, AlreadyFinished, MayClose, Return
  <2>3. WillRelease'
    BY <1>9 DEF RestInv, WillRelease, AlreadyFinished, MayClose, Return
  <2>4. QED
    BY <2>1, <2>2, <2>3 DEF RestInv
<1>10. CASE DiscardTransaction(w)
  <2>1. WillFinish'
    BY <1>10 DEF RestInv, WillFinish, Deciding, HasUnfinishedChildSpansToWaitFor, DiscardTransaction, Return
  <2>2. WillTimeOut'
    BY <1>10 DEF RestInv, WillTimeOut, Deciding, Adding, DiscardTransaction, Return
  <2>3. WillRelease'
    BY <1>10 DEF RestInv, WillRelease, DiscardTransaction, Return
  <2>4. QED
    BY <2>1, <2>2, <2>3 DEF RestInv
<1>11. CASE FinishChildren(w)
  <2>1. WillFinish'
    BY <1>11 DEF RestInv, WillFinish, Deciding, HasUnfinishedChildSpansToWaitFor, FinishChildren, Return, OpenAfterFinish
  <2>2. WillTimeOut'
    BY <1>11 DEF RestInv, WillTimeOut, Deciding, Adding, FinishChildren, Return, OpenAfterFinish
  <2>3. WillRelease'
    BY <1>11 DEF RestInv, WillRelease, FinishChildren, Return, OpenAfterFinish
  <2>4. QED
    BY <2>1, <2>2, <2>3 DEF RestInv
<1>12. CASE CaptureTransaction(w)
  <2>1. WillFinish'
    BY <1>12 DEF RestInv, WillFinish, Deciding, HasUnfinishedChildSpansToWaitFor, CaptureTransaction, Return
  <2>2. WillTimeOut'
    BY <1>12 DEF RestInv, WillTimeOut, Deciding, Adding, CaptureTransaction, Return
  <2>3. WillRelease'
    BY <1>12 DEF RestInv, WillRelease, CaptureTransaction, Return
  <2>4. QED
    BY <2>1, <2>2, <2>3 DEF RestInv
<1>13. QED
  BY <1>1, <1>2, <1>3, <1>4, <1>5, <1>6, <1>7, <1>8, <1>9, <1>10, <1>11, <1>12 DEF Proceed

(* A child is added, or a call begins that is to decide.                   *)
LEMMA RestByCalls ==
    ASSUME IndInv, RestInv, NEW w \in Worker, AppCalls(w)
    PROVE  RestInv'
<1> USE TracerAssumption DEF IndInv, TypeOK, OneCloser, Ending, Goto, PC, Worker, history, timers
<1>1. CASE \E s \in Span : StartChild(w, s)
  <2>1. WillFinish'
    BY <1>1 DEF RestInv, WillFinish, Deciding, HasUnfinishedChildSpansToWaitFor, StartChild, CancelIdleTimeout
  <2>2. WillTimeOut'
    BY <1>1 DEF RestInv, WillTimeOut, Deciding, Adding, StartChild, CancelIdleTimeout
  <2>3. WillRelease'
    BY <1>1 DEF RestInv, WillRelease, StartChild, CancelIdleTimeout
  <2>4. QED
    BY <2>1, <2>2, <2>3 DEF RestInv
<1>2. CASE \E s \in Span : FinishSpan(w, s)
  <2>1. WillFinish'
    BY <1>2 DEF RestInv, WillFinish, Deciding, HasUnfinishedChildSpansToWaitFor, FinishSpan
  <2>2. WillTimeOut'
    BY <1>2 DEF RestInv, WillTimeOut, Deciding, Adding, FinishSpan
  <2>3. WillRelease'
    BY <1>2 DEF RestInv, WillRelease, FinishSpan
  <2>4. QED
    BY <2>1, <2>2, <2>3 DEF RestInv
<1>3. CASE FinishTransaction(w)
  <2>1. WillFinish'
    BY <1>3 DEF RestInv, WillFinish, Deciding, HasUnfinishedChildSpansToWaitFor, FinishTransaction
  <2>2. WillTimeOut'
    BY <1>3 DEF RestInv, WillTimeOut, Deciding, Adding, FinishTransaction
  <2>3. WillRelease'
    BY <1>3 DEF RestInv, WillRelease, FinishTransaction
  <2>4. QED
    BY <2>1, <2>2, <2>3 DEF RestInv
<1>4. CASE RepeatUIEvent(w)
  <2>1. WillFinish'
    BY <1>4 DEF RestInv, WillFinish, Deciding, HasUnfinishedChildSpansToWaitFor, RepeatUIEvent, DispatchIdleTimeout
  <2>2. WillTimeOut'
    BY <1>4 DEF RestInv, WillTimeOut, Deciding, Adding, RepeatUIEvent, DispatchIdleTimeout
  <2>3. WillRelease'
    BY <1>4 DEF RestInv, WillRelease, RepeatUIEvent, DispatchIdleTimeout
  <2>4. QED
    BY <2>1, <2>2, <2>3 DEF RestInv
<1>5. QED
  BY <1>1, <1>2, <1>3, <1>4 DEF AppCalls

(* The timers finish the tracer.                                           *)
LEMMA RestByTimers ==
    ASSUME IndInv, RestInv,
           IdleTimeoutFires \/ SetDeadlineTimer \/ InvalidateDeadlineTimer \/ DeadlineTimerFires \/ DeadlineLoop
    PROVE  RestInv'
<1> USE TracerAssumption DEF IndInv, TypeOK, OneCloser, Ending, Goto, PC, Worker, history, timers
<1>1. CASE IdleTimeoutFires
  <2>1. WillFinish'
    BY <1>1 DEF RestInv, WillFinish, Deciding, HasUnfinishedChildSpansToWaitFor, IdleTimeoutFires
  <2>2. WillTimeOut'
    BY <1>1 DEF RestInv, WillTimeOut, Deciding, Adding, IdleTimeoutFires
  <2>3. WillRelease'
    BY <1>1 DEF RestInv, WillRelease, IdleTimeoutFires
  <2>4. QED
    BY <2>1, <2>2, <2>3 DEF RestInv
<1>2. CASE SetDeadlineTimer \/ InvalidateDeadlineTimer
  <2>1. WillFinish'
    BY <1>2 DEF RestInv, WillFinish, Deciding, HasUnfinishedChildSpansToWaitFor, SetDeadlineTimer, InvalidateDeadlineTimer
  <2>2. WillTimeOut'
    BY <1>2 DEF RestInv, WillTimeOut, Deciding, Adding, SetDeadlineTimer, InvalidateDeadlineTimer
  <2>3. WillRelease'
    BY <1>2 DEF RestInv, WillRelease, SetDeadlineTimer, InvalidateDeadlineTimer
  <2>4. QED
    BY <2>1, <2>2, <2>3 DEF RestInv
<1>3. CASE DeadlineTimerFires
  <2>1. WillFinish'
    BY <1>3 DEF RestInv, WillFinish, Deciding, HasUnfinishedChildSpansToWaitFor, DeadlineTimerFires
  <2>2. WillTimeOut'
    BY <1>3 DEF RestInv, WillTimeOut, Deciding, Adding, DeadlineTimerFires
  <2>3. WillRelease'
    BY <1>3 DEF RestInv, WillRelease, DeadlineTimerFires
  <2>4. QED
    BY <2>1, <2>2, <2>3 DEF RestInv
<1>4. CASE LockChildren
  <2>1. WillFinish'
    BY <1>4 DEF RestInv, WillFinish, Deciding, HasUnfinishedChildSpansToWaitFor, LockChildren
  <2>2. WillTimeOut'
    BY <1>4 DEF RestInv, WillTimeOut, Deciding, Adding, LockChildren
  <2>3. WillRelease'
    BY <1>4 DEF RestInv, WillRelease, LockChildren
  <2>4. QED
    BY <2>1, <2>2, <2>3 DEF RestInv
<1>5. CASE \E s \in Span : FinishNextChild(s)
  <2>1. WillFinish'
    BY <1>5 DEF RestInv, WillFinish, Deciding, HasUnfinishedChildSpansToWaitFor, FinishNextChild
  <2>2. WillTimeOut'
    BY <1>5 DEF RestInv, WillTimeOut, Deciding, Adding, FinishNextChild
  <2>3. WillRelease'
    BY <1>5 DEF RestInv, WillRelease, FinishNextChild
  <2>4. QED
    BY <2>1, <2>2, <2>3 DEF RestInv
<1>6. CASE AllChildrenFinished
  <2>1. WillFinish'
    BY <1>6 DEF RestInv, WillFinish, Deciding, HasUnfinishedChildSpansToWaitFor, AllChildrenFinished
  <2>2. WillTimeOut'
    BY <1>6 DEF RestInv, WillTimeOut, Deciding, Adding, AllChildrenFinished
  <2>3. WillRelease'
    BY <1>6 DEF RestInv, WillRelease, AllChildrenFinished
  <2>4. QED
    BY <2>1, <2>2, <2>3 DEF RestInv
<1>7. QED
  BY <1>1, <1>2, <1>3, <1>4, <1>5, <1>6 DEF DeadlineLoop

LEMMA RestNext ==
    ASSUME IndInv, RestInv, [Next \/ Rest]_vars
    PROVE  RestInv'
<1>1. ASSUME NEW w \in Worker, Crash(w) PROVE RestInv'
  <2>1. WillFinish' /\ WillRelease'
    BY <1>1 DEF RestInv, WillFinish, WillRelease, Crash
  <2>2. UNCHANGED <<config, idleBlock, pc, busy>>
    BY <1>1 DEF Crash, timers
  <2>3. ~finished' /\ ~finishCalled' => ~finished /\ ~finishCalled /\ UNCHANGED open
    BY <1>1 DEF Crash, SaveForCrash, IndInv, TypeOK
  <2>4. WillTimeOut'
    BY <2>2, <2>3 DEF RestInv, WillTimeOut, Deciding, Adding
  <2>5. QED
    BY <2>1, <2>4 DEF RestInv
<1>2. CASE Rest \/ UNCHANGED vars
  BY <1>2 DEF RestInv, WillFinish, WillTimeOut, WillRelease, Deciding, Adding, HasUnfinishedChildSpansToWaitFor,
              Rest, vars
<1>3. QED
  BY <1>1, <1>2, RestByProceed, RestByCalls, RestByTimers DEF Next

LEMMA RestInit == Init => RestInv
  BY TracerAssumption DEF Init, RestInv, WillFinish, WillTimeOut, WillRelease

-----------------------------------------------------------------------------
(* It holds in every reachable state.                                      *)
LEMMA SpecInd == Spec => []IndInv
<1>1. IndInv /\ [Next \/ Rest]_vars => IndInv'
  BY TypeNext, OneCloserNext, NewChildrenNext, CompleteNext DEF IndInv
<1>2. QED
  BY <1>1, InitInd, PTL DEF Spec

LEMMA SpecRest == Spec => []RestInv
<1>1. IndInv /\ RestInv /\ [Next \/ Rest]_vars => RestInv'
  BY RestNext
<1>2. QED
  BY <1>1, RestInit, SpecInd, PTL DEF Spec

-----------------------------------------------------------------------------
(* The theorems.                                                           *)

(* All state of the tracer stays well typed; every span that counts as     *)
(* open is one of its children.                                            *)
THEOREM TracerTypeCorrect == Spec => []TypeOK
BY SpecInd, PTL DEF IndInv

(* However many threads, timers and children finish the tracer at once,    *)
(* one transaction is captured.                                            *)
THEOREM TransactionCapturedOnce == Spec => []CapturedOnce
<1>1. IndInv => CapturedOnce
  BY DEF IndInv, TypeOK, OneCloser, CapturedOnce
<1>2. QED
  BY <1>1, SpecInd, PTL

(* Whatever children are started and finished meanwhile, the transaction   *)
(* has every child that the tracer had when it finished, and finished.     *)
THEOREM TransactionIsComplete == Spec => []ChildrenAreSent
BY SpecInd, PTL DEF IndInv, Complete

(* Whichever of finish, the last child and the timers comes first          *)
(* (canBeFinished, deadlineTimerFired): when all calls have returned, a    *)
(* tracer that is still open has a child to wait for or its idle timeout.  *)
THEOREM TransactionFinishes == Spec => []OpenForAReason
<1>1. WillFinish /\ WillTimeOut => OpenForAReason
  BY DEF WillFinish, WillTimeOut, OpenForAReason, AtRest, Deciding, Adding
<1>2. QED
  BY <1>1, SpecRest, PTL DEF RestInv

(* When all calls have returned, a finished tracer is no longer the span   *)
(* of the scope (finishTracer), unless it was given up for its length.     *)
THEOREM ScopeReleased == Spec => []ScopeIsReleased
<1>1. WillRelease => ScopeIsReleased
  BY DEF WillRelease, ScopeIsReleased, AtRest
<1>2. QED
  BY <1>1, SpecRest, PTL DEF RestInv
===============================================================================
