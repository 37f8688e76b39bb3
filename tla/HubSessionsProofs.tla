-------------------------- MODULE HubSessionsProofs --------------------------
(***************************************************************************)
(* Proofs about HubSessions, for any number of threads and calls, any      *)
(* subset of the operations, with automatic tracking or without: the state *)
(* stays well typed, the file follows the session in memory, and the       *)
(* updates of a session reach the client in an order the server can use.   *)
(***************************************************************************)
EXTENDS HubSessions, TLAPS

(* The lock is held by the thread that is inside startSession.             *)
LockIsOwned ==
    \A t \in Thread : lock = t <=> pc[t] = "started"

(* The session between the two parts of startSession is a fresh one.       *)
IsFresh(s) == s # NoSession /\ s.init /\ s.sid = nextSid - 1

(* The session in memory has not ended, and has a number that was given    *)
(* out.                                                                    *)
CurrentIsOpen ==
    /\ session # NoSession => ~IsEnded(session) /\ session.sid < nextSid
    /\ lock # Free => IsFresh(session)

(* Of two updates of one session the later one in the order of their       *)
(* sequence numbers supersedes the other.                                  *)
Compatible(x, y) ==
    x.sid = y.sid /\ x.sid \notin stored =>
        /\ x.seq # y.seq
        /\ x.seq < y.seq => ~IsEnded(x) /\ x.errors <= y.errors

(* An update of the session in memory is not ahead of it.                  *)
Behind(x) ==
    session # NoSession /\ x.sid = session.sid /\ x.sid \notin stored =>
        x.seq <= session.seq /\ ~IsEnded(x) /\ x.errors <= session.errors

(* The init update of the session was captured.                            *)
Announced(sid) == \E i \in DOMAIN captured : captured[i].sid = sid /\ captured[i].init

(* What is known of an update that was made, captured or not: its number   *)
(* was given out, the fresh session has none so far.                       *)
Made(x) ==
    /\ x.sid < nextSid
    /\ lock # Free => x.sid < nextSid - 1
    /\ Behind(x)

CapturedInv ==
    /\ \A i \in DOMAIN captured : Made(captured[i])
    /\ \A i, j \in DOMAIN captured : i # j => Compatible(captured[i], captured[j])

(* A thread that is about to hand over an update.                          *)
PendingInv ==
    \A t \in Thread : mine[t] # NoSession =>
        /\ Made(mine[t])
        /\ ~mine[t].init
        /\ Announced(mine[t].sid)
        /\ \A i \in DOMAIN captured :
               Compatible(captured[i], mine[t]) /\ Compatible(mine[t], captured[i])
        /\ \A u \in Thread : u # t /\ mine[u] # NoSession => Compatible(mine[t], mine[u])

HandsOver == \A t \in Thread : pc[t] = "send" => mine[t] # NoSession

InitInv ==
    /\ lock = Free /\ session # NoSession => Announced(session.sid)
    /\ \A j \in DOMAIN captured :
           captured[j].init
             \/ \E i \in 1 .. (j - 1) : captured[i].sid = captured[j].sid /\ captured[i].init

(* The inductive invariant.                                                *)
IndInv ==
    /\ TypeOK
    /\ LockIsOwned
    /\ FileIsCurrent
    /\ CurrentIsOpen
    /\ HandsOver
    /\ CapturedInv
    /\ PendingInv
    /\ InitInv

-----------------------------------------------------------------------------
(* What the operations of SentrySession return.                            *)
LEMMA SessionTypes ==
    /\ NoSession \in MaybeSession
    /\ \A sid \in Nat \ {0}, n \in Nat :
           /\ NewSession(sid, n) \in Session
           /\ NewSession(sid, n).sid = sid
           /\ NewSession(sid, n).init
           /\ ~IsEnded(NewSession(sid, n))
    /\ \A s \in Session : s # NoSession
BY DEF NoSession, MaybeSession, Session, Status, NewSession, IsEnded

(* Each change of a session gives the next update of it.                   *)
IsNextUpdate(x, s) ==
    x.sid = s.sid /\ x.seq = s.seq + 1 /\ ~x.init /\ s.errors <= x.errors

LEMMA ChangedType ==
    ASSUME NEW s \in Session
    PROVE  /\ Changed(s) \in Session
           /\ Changed(s).sid = s.sid /\ ~Changed(s).init /\ Changed(s).status = s.status
           /\ Changed(s).seq = s.seq + 1 /\ Changed(s).errors = s.errors
<1> DEFINE later == [s EXCEPT !.init = FALSE]
<1>1. later \in Session /\ later.seq = s.seq
  BY DEF Session
<1>2. Changed(s) = [later EXCEPT !.seq = s.seq + 1]
  BY <1>1 DEF Changed
<1>3. Changed(s) \in Session
  <2> HIDE DEF later
  <2>1. s.seq + 1 \in Nat \ {0}
    BY DEF Session
  <2>2. QED
    BY <1>1, <1>2, <2>1 DEF Session
<1>4. QED
  BY <1>3 DEF Changed, Session

LEMMA NextUpdates ==
    ASSUME NEW s \in Session
    PROVE  /\ EndExited(s) \in Session /\ IsNextUpdate(EndExited(s), s)
           /\ EndCrashed(s) \in Session /\ IsNextUpdate(EndCrashed(s), s)
           /\ IncrementErrors(s) \in Session /\ IsNextUpdate(IncrementErrors(s), s)
           /\ IsEnded(IncrementErrors(s)) <=> IsEnded(s)
<1>1. s.errors \in Nat /\ s.errors <= s.errors + 1 /\ s.errors <= s.errors
  BY DEF Session
<1>2. EndExited(s) \in Session /\ EndCrashed(s) \in Session /\ IncrementErrors(s) \in Session
  BY ChangedType DEF EndExited, EndCrashed, IncrementErrors, Session, Status
<1>3. IsNextUpdate(EndExited(s), s)
  BY <1>1, ChangedType DEF EndExited, IsNextUpdate, Session
<1>4. IsNextUpdate(EndCrashed(s), s)
  BY <1>1, ChangedType DEF EndCrashed, IsNextUpdate, Session
<1>5. IsNextUpdate(IncrementErrors(s), s) /\ (IsEnded(IncrementErrors(s)) <=> IsEnded(s))
  BY <1>1, ChangedType DEF IncrementErrors, IsNextUpdate, IsEnded, Session
<1>6. QED
  BY <1>2, <1>3, <1>4, <1>5

-----------------------------------------------------------------------------
(* What a thread that ends the session hands over.                         *)
LEMMA LastSessionType ==
    ASSUME TypeOK
    PROVE  /\ LastSession \in MaybeSession
           /\ LastSession # NoSession =>
                 /\ session \in Session
                 /\ LastSession \in Session /\ IsNextUpdate(LastSession, session)
<1>1. CASE session = NoSession
  BY <1>1, SessionTypes DEF LastSession
<1>2. CASE session # NoSession
  <2>1. session \in Session
    BY <1>2 DEF TypeOK, MaybeSession
  <2>2. QED
    BY <1>2, <2>1, NextUpdates DEF LastSession, MaybeSession
<1>3. QED
  BY <1>1, <1>2

LEMMA IncrementedType ==
    ASSUME TypeOK
    PROVE  /\ Incremented \in MaybeSession
           /\ Incremented = NoSession <=> session = NoSession
           /\ session # NoSession =>
                 /\ session \in Session
                 /\ Incremented \in Session /\ IsNextUpdate(Incremented, session)
                 /\ IsEnded(Incremented) <=> IsEnded(session)
<1>1. CASE session = NoSession
  BY <1>1, SessionTypes DEF Incremented
<1>2. CASE session # NoSession
  <2>1. session \in Session
    BY <1>2 DEF TypeOK, MaybeSession
  <2>2. QED
    BY <1>2, <2>1, NextUpdates, SessionTypes DEF Incremented, MaybeSession
<1>3. QED
  BY <1>1, <1>2

(* A new state satisfies the invariant.                                    *)
LEMMA InitInd == Init => IndInv
<1> SUFFICES ASSUME Init PROVE IndInv
  OBVIOUS
<1>1. TypeOK
  BY HubAssumption, SessionTypes DEF Init, TypeOK, PC
<1>2. LockIsOwned /\ FileIsCurrent /\ CurrentIsOpen /\ HandsOver
  BY HubAssumption DEF Init, LockIsOwned, FileIsCurrent, CurrentIsOpen, HandsOver
<1>3. CapturedInv /\ PendingInv /\ InitInv
  BY DEF Init, CapturedInv, PendingInv, InitInv
<1>4. QED
  BY <1>1, <1>2, <1>3 DEF IndInv

(* Each step keeps the types.                                              *)
LEMMA TypeNext ==
    ASSUME IndInv, [Next]_vars
    PROVE  TypeOK'
<1> USE HubAssumption DEF IndInv, TypeOK, Goto, HandOver, PC, hub, Synchronized
<1>1. LastSession \in MaybeSession /\ Incremented \in MaybeSession
      /\ (session # NoSession => session \in Session)
  BY LastSessionType, IncrementedType DEF MaybeSession
<1>2. ASSUME NEW t \in Thread, NEW last \in MaybeSession, BeginSession(t, last)
      PROVE  /\ session' \in Session /\ nextSid' = nextSid + 1 /\ lock' \in Thread
             /\ mine' \in [Thread -> MaybeSession] /\ pc' \in [Thread -> PC]
             /\ UNCHANGED <<errorsBefore, currentFile, seen, captured>>
  BY <1>2, SessionTypes DEF BeginSession, TakeErrors
<1>3. ASSUME NEW t \in Thread, NEW c, Calling(t, c)
      PROVE  calls' \in 0 .. MaxCalls
  BY <1>3 DEF Calling
<1>4. ASSUME NEW t \in Thread, StartSession(t) PROVE TypeOK'
  <2>1. calls' \in 0 .. MaxCalls /\ UNCHANGED stored /\ BeginSession(t, LastSession)
    BY <1>3, <1>4 DEF StartSession
  <2>2. QED
    BY <1>1, <1>2, <2>1 DEF MaybeSession
<1>5. ASSUME NEW t \in Thread, EndSession(t) PROVE TypeOK'
  BY <1>1, <1>3, <1>5, SessionTypes DEF EndSession, SessionAfterEnd
<1>6. ASSUME NEW t \in Thread, CaptureErrorInSession(t) PROVE TypeOK'
  BY <1>3, <1>6 DEF CaptureErrorInSession
<1>7. ASSUME NEW t \in Thread, CaptureErrorBeforeSession(t) PROVE TypeOK'
  BY <1>3, <1>7 DEF CaptureErrorBeforeSession
<1>8. ASSUME NEW t \in Thread, IncrementRegion(t), calls' \in 0 .. MaxCalls PROVE TypeOK'
  BY <1>1, <1>8 DEF IncrementRegion, FileAfterIncrement
<1>9. ASSUME NEW t \in Thread, EnvelopeHandled(t) PROVE TypeOK'
  BY <1>3, <1>8, <1>9 DEF EnvelopeHandled
<1>10. ASSUME NEW t \in Thread, CaptureEnvelopeUnhandled(t) PROVE TypeOK'
  <2>1. calls' \in 0 .. MaxCalls /\ UNCHANGED stored /\ BeginSession(t, EndCrashed(session))
        /\ EndCrashed(session) \in MaybeSession
    BY <1>1, <1>3, <1>10, NextUpdates DEF CaptureEnvelopeUnhandled, MaybeSession
  <2>2. QED
    BY <1>2, <2>1 DEF MaybeSession
<1>11. ASSUME NEW t \in Thread, StoreEnvelopeUnhandled(t) PROVE TypeOK'
  <2>1. EndCrashed(session) \in MaybeSession /\ session.sid \in 1 .. (nextSid - 1)
    <3>1. session \in Session /\ session.sid < nextSid
      BY <1>1, <1>11 DEF StoreEnvelopeUnhandled, HasSession, CurrentIsOpen
    <3>2. QED
      BY <3>1, NextUpdates DEF MaybeSession, Session
  <2>2. QED
    BY <1>3, <1>11, <2>1 DEF StoreEnvelopeUnhandled
<1>12. ASSUME NEW t \in Thread, StoreAndCapture(t) PROVE TypeOK'
  <2>1. lock = t /\ session \in Session /\ session.errors \in Nat
    BY <1>1, <1>12 DEF StoreAndCapture, LockIsOwned, CurrentIsOpen, IsFresh, Session
  <2>2. captured' \in Seq(Session) /\ errorsBefore' \in Nat /\ lock' = Free
    BY <1>12, <2>1 DEF StoreAndCapture
  <2>3. mine' \in [Thread -> MaybeSession] /\ pc' \in [Thread -> PC]
    BY <1>12 DEF StoreAndCapture
  <2>4. QED
    BY <1>12, <2>1, <2>2, <2>3 DEF StoreAndCapture, MaybeSession
<1>13. ASSUME NEW t \in Thread, Send(t) PROVE TypeOK'
  <2>1. mine[t] \in Session
    BY <1>13 DEF Send, HandsOver, MaybeSession
  <2>2. QED
    BY <1>13, <2>1, SessionTypes DEF Send
<1>14. ASSUME NEW t \in Thread, CountErrorBeforeSession(t) PROVE TypeOK'
  BY <1>14 DEF CountErrorBeforeSession
<1>15. ASSUME NEW t \in Thread, IncrementSessionErrors(t) PROVE TypeOK'
  BY <1>8, <1>15 DEF IncrementSessionErrors
<1>16. CASE UNCHANGED vars
  BY <1>16 DEF vars
<1>17. QED
  BY <1>4, <1>5, <1>6, <1>7, <1>9, <1>10, <1>11, <1>12, <1>13, <1>14, <1>15, <1>16
     DEF Next, Step, Rest

-----------------------------------------------------------------------------
(* The steps, by what they do to the sessions.                             *)

(* A region that begins a session; last is the update of the one before.   *)
Begins(t, last) ==
    /\ lock = Free /\ BeginSession(t, last) /\ UNCHANGED stored
    /\ last # NoSession => session \in Session /\ last \in Session /\ IsNextUpdate(last, session)

(* A region that ends the session.                                         *)
Takes(t) ==
    /\ lock = Free /\ session' = NoSession /\ currentFile' = NoSession
    /\ HandOver(t, LastSession)
    /\ UNCHANGED <<lock, captured, nextSid, stored>>

(* A region that hands over an update of the session; s is the session     *)
(* after it.                                                               *)
Hands(t, x, s) ==
    /\ lock = Free /\ session \in Session
    /\ x \in Session /\ IsNextUpdate(x, session)
    /\ session' = s /\ currentFile' = s
    /\ HandOver(t, x)
    /\ UNCHANGED <<lock, captured, nextSid>>

(* A step that leaves the sessions alone.                                  *)
Passes(t) ==
    /\ UNCHANGED <<session, currentFile, lock, mine, captured, nextSid, stored>>
    /\ \E l \in {"idle", "increment", "count"} : Goto(t, l)
    /\ pc[t] \in {"idle", "count"}

LEMMA StepKinds ==
    ASSUME IndInv, [Next]_vars
    PROVE  \/ UNCHANGED vars
           \/ \E t \in Thread :
                 \/ \E last : Begins(t, last)
                 \/ Takes(t)
                 \/ Hands(t, Incremented, Incremented) /\ UNCHANGED stored /\ ~IsEnded(Incremented)
                 \/ Hands(t, EndCrashed(session), session) /\ stored' = stored \cup {session.sid}
                 \/ StoreAndCapture(t)
                 \/ Send(t)
                 \/ Passes(t)
                 \/ UNCHANGED <<session, currentFile, lock, captured, nextSid, stored>>
                       /\ HandOver(t, NoSession) /\ session = NoSession /\ pc[t] = "increment"
<1> USE DEF IndInv
<1>1. session # NoSession => session \in Session
  BY DEF TypeOK, MaybeSession
<1>2. ASSUME NEW t \in Thread, StartSession(t) PROVE Begins(t, LastSession)
  BY <1>2, LastSessionType DEF StartSession, BeginSession, MayEnter, Begins
<1>3. ASSUME NEW t \in Thread, EndSession(t) PROVE Takes(t)
  BY <1>3 DEF EndSession, Synchronized, MayEnter, Takes, SessionAfterEnd
<1>4. ASSUME NEW t \in Thread, CaptureErrorInSession(t) \/ CaptureErrorBeforeSession(t)
                                  \/ CountErrorBeforeSession(t)
      PROVE  Passes(t)
  BY <1>4 DEF CaptureErrorInSession, CaptureErrorBeforeSession, CountErrorBeforeSession, Calling,
              Passes, hub, Goto
<1>5. ASSUME NEW t \in Thread, IncrementRegion(t), session # NoSession
      PROVE  Hands(t, Incremented, Incremented) /\ UNCHANGED stored /\ ~IsEnded(Incremented)
  BY <1>1, <1>5, IncrementedType
     DEF IncrementRegion, Synchronized, MayEnter, FileAfterIncrement, Hands, CurrentIsOpen
<1>6. ASSUME NEW t \in Thread, EnvelopeHandled(t)
      PROVE  Hands(t, Incremented, Incremented) /\ UNCHANGED stored /\ ~IsEnded(Incremented)
  BY <1>5, <1>6 DEF EnvelopeHandled
<1>7. ASSUME NEW t \in Thread, CaptureEnvelopeUnhandled(t)
      PROVE  Begins(t, EndCrashed(session))
  BY <1>1, <1>7, NextUpdates DEF CaptureEnvelopeUnhandled, BeginSession, MayEnter, Begins
<1>8. ASSUME NEW t \in Thread, StoreEnvelopeUnhandled(t)
      PROVE  Hands(t, EndCrashed(session), session) /\ stored' = stored \cup {session.sid}
  BY <1>1, <1>8, NextUpdates
     DEF StoreEnvelopeUnhandled, HasSession, Synchronized, MayEnter, Hands, FileIsCurrent
<1>9. ASSUME NEW t \in Thread, IncrementSessionErrors(t), session = NoSession
      PROVE  UNCHANGED <<session, currentFile, lock, captured, nextSid, stored>>
             /\ HandOver(t, NoSession) /\ pc[t] = "increment"
  BY <1>9 DEF IncrementSessionErrors, IncrementRegion, Synchronized, Incremented, FileAfterIncrement
<1>10. ASSUME NEW t \in Thread, IncrementSessionErrors(t), session # NoSession
       PROVE  Hands(t, Incremented, Incremented) /\ UNCHANGED stored /\ ~IsEnded(Incremented)
  BY <1>5, <1>10 DEF IncrementSessionErrors
<1>11. QED
  BY <1>2, <1>3, <1>4, <1>6, <1>7, <1>8, <1>9, <1>10 DEF Next, Step, Rest

(* Each step keeps the lock, the file and the current session.             *)
LEMMA ControlNext ==
    ASSUME IndInv, [Next]_vars
    PROVE  LockIsOwned' /\ FileIsCurrent' /\ CurrentIsOpen' /\ HandsOver'
<1> USE HubAssumption DEF IndInv, TypeOK, LockIsOwned, FileIsCurrent, CurrentIsOpen, HandsOver, IsFresh,
        HandOver, Goto
<1>1. ASSUME NEW t \in Thread, NEW last, Begins(t, last)
      PROVE  LockIsOwned' /\ FileIsCurrent' /\ CurrentIsOpen' /\ HandsOver'
  <2>1. session' = NewSession(nextSid, TakeErrors) /\ TakeErrors \in Nat
    BY <1>1 DEF Begins, BeginSession, TakeErrors
  <2>2. session' \in Session /\ session'.init /\ session'.sid = nextSid /\ ~IsEnded(session')
        /\ session' # NoSession
    BY <2>1, SessionTypes
  <2>3. pc' = [pc EXCEPT ![t] = "started"] /\ lock = Free /\ lock' = t
        /\ mine' = [mine EXCEPT ![t] = last] /\ nextSid' = nextSid + 1
    BY <1>1 DEF Begins, BeginSession
  <2>4. QED
    BY <2>2, <2>3
<1>2. ASSUME NEW t \in Thread, Takes(t)
      PROVE  LockIsOwned' /\ FileIsCurrent' /\ CurrentIsOpen' /\ HandsOver'
  BY <1>2 DEF Takes
<1>3. ASSUME NEW t \in Thread, NEW x, NEW s, Hands(t, x, s), ~IsEnded(s),
             s # NoSession, s.sid = session.sid
      PROVE  LockIsOwned' /\ FileIsCurrent' /\ CurrentIsOpen' /\ HandsOver'
  BY <1>3, SessionTypes DEF Hands
<1>4. ASSUME NEW t \in Thread, Hands(t, Incremented, Incremented), ~IsEnded(Incremented)
      PROVE  LockIsOwned' /\ FileIsCurrent' /\ CurrentIsOpen' /\ HandsOver'
  BY <1>3, <1>4, SessionTypes DEF Hands, IsNextUpdate
<1>5. ASSUME NEW t \in Thread, Hands(t, EndCrashed(session), session)
      PROVE  LockIsOwned' /\ FileIsCurrent' /\ CurrentIsOpen' /\ HandsOver'
  BY <1>3, <1>5, SessionTypes DEF Hands
<1>6. ASSUME NEW t \in Thread, StoreAndCapture(t)
      PROVE  LockIsOwned' /\ FileIsCurrent' /\ CurrentIsOpen' /\ HandsOver'
  BY <1>6 DEF StoreAndCapture
<1>7. ASSUME NEW t \in Thread, Send(t)
      PROVE  LockIsOwned' /\ FileIsCurrent' /\ CurrentIsOpen' /\ HandsOver'
  BY <1>7 DEF Send, hub
<1>8. ASSUME NEW t \in Thread, Passes(t)
      PROVE  LockIsOwned' /\ FileIsCurrent' /\ CurrentIsOpen' /\ HandsOver'
  BY <1>8 DEF Passes
<1>9. ASSUME NEW t \in Thread, HandOver(t, NoSession), pc[t] = "increment",
             UNCHANGED <<session, currentFile, lock, captured, nextSid, stored>>
      PROVE  LockIsOwned' /\ FileIsCurrent' /\ CurrentIsOpen' /\ HandsOver'
  BY <1>9
<1>10. CASE UNCHANGED vars
  BY <1>10 DEF vars
<1>11. QED
  BY <1>1, <1>2, <1>4, <1>5, <1>6, <1>7, <1>8, <1>9, <1>10, StepKinds

-----------------------------------------------------------------------------
(* The next update of the session in memory supersedes all that were made  *)
(* before.                                                                 *)
LEMMA NextSupersedes ==
    ASSUME session \in Session, NEW x \in Session, IsNextUpdate(x, session),
           NEW y \in Session, Behind(y)
    PROVE  Compatible(x, y) /\ Compatible(y, x)
<1> SUFFICES ASSUME x.sid = y.sid, x.sid \notin stored
             PROVE  y.seq < x.seq /\ ~(x.seq < y.seq) /\ y.seq # x.seq /\ ~IsEnded(y) /\ y.errors <= x.errors
  BY DEF Compatible
<1>1. y.seq <= session.seq /\ ~IsEnded(y) /\ y.errors <= session.errors
  BY SessionTypes DEF IsNextUpdate, Behind
<1>2. /\ x.seq \in Nat /\ y.seq \in Nat /\ session.seq \in Nat
      /\ x.errors \in Nat /\ y.errors \in Nat /\ session.errors \in Nat
  BY DEF Session
<1>3. QED
  BY <1>1, <1>2 DEF IsNextUpdate

(* The same, seen by a thread that is about to hand it over.               *)
IsNext(x) == Made(x)' /\ ~x.init /\ Announced(x.sid)
             /\ \A y \in Session : Behind(y) => Compatible(x, y)' /\ Compatible(y, x)'

LEMMA NextIsNext ==
    ASSUME IndInv, session \in Session, lock = Free, UNCHANGED captured, stored \subseteq stored',
           NEW x \in Session, IsNextUpdate(x, session), Made(x)'
    PROVE  IsNext(x)
<1>1. x.sid = session.sid /\ ~x.init
  BY DEF IsNextUpdate
<1>2. Announced(x.sid)
  BY <1>1, SessionTypes DEF IndInv, InitInv
<1>3. \A y \in Session : Behind(y) => Compatible(x, y)' /\ Compatible(y, x)'
  BY NextSupersedes DEF Compatible
<1>4. QED
  BY <1>1, <1>2, <1>3 DEF IsNext

(* What a thread puts into its hands fits with all that was made before.   *)
LEMMA PendingNext ==
    ASSUME IndInv, NEW t \in Thread, NEW x, mine' = [mine EXCEPT ![t] = x], x # NoSession => IsNext(x),
           UNCHANGED captured, stored \subseteq stored', \A y \in Session : Made(y) => Made(y)'
    PROVE  CapturedInv' /\ PendingInv'
<1> USE DEF IndInv
<1>1. (\A i \in DOMAIN captured : captured[i] \in Session)
      /\ (\A u \in Thread : mine[u] # NoSession => mine[u] \in Session)
  BY DEF TypeOK, MaybeSession
<1>2. \A y, z : Compatible(y, z) => Compatible(y, z)'
  BY DEF Compatible
<1>3. CapturedInv'
  BY <1>1, <1>2 DEF CapturedInv
<1>4. SUFFICES ASSUME NEW u \in Thread, mine'[u] # NoSession
               PROVE  /\ Made(mine[u])' /\ ~mine'[u].init /\ Announced(mine[u].sid)'
                      /\ \A i \in DOMAIN captured :
                            (Compatible(captured[i], mine[u]) /\ Compatible(mine[u], captured[i]))'
                      /\ \A v \in Thread : v # u /\ mine'[v] # NoSession => Compatible(mine[u], mine[v])'
  BY <1>3 DEF PendingInv
<1>5. mine'[t] = x /\ \A v \in Thread : v # t => mine'[v] = mine[v]
  BY DEF TypeOK
<1>6. /\ \A v \in Thread : mine[v] # NoSession => Behind(mine[v])
      /\ \A i \in DOMAIN captured : Behind(captured[i])
  BY DEF PendingInv, CapturedInv, Made
<1>7. CASE u = t
  BY <1>1, <1>4, <1>5, <1>6, <1>7 DEF IsNext, Announced
<1>8. CASE u # t
  <2>1. mine'[u] = mine[u] /\ mine[u] \in Session /\ Behind(mine[u]) /\ Announced(mine[u].sid)
    BY <1>1, <1>4, <1>5, <1>6, <1>8 DEF PendingInv
  <2>2. Made(mine[u])' /\ ~mine'[u].init /\ Announced(mine[u].sid)'
    BY <1>4, <2>1 DEF PendingInv, Announced
  <2>3. \A i \in DOMAIN captured :
           (Compatible(captured[i], mine[u]) /\ Compatible(mine[u], captured[i]))'
    BY <1>2, <1>4, <2>1 DEF PendingInv
  <2>4. \A v \in Thread : v # u /\ mine'[v] # NoSession => Compatible(mine[u], mine[v])'
    BY <1>2, <1>4, <1>5, <1>8, <2>1 DEF PendingInv, IsNext
  <2>5. QED
    BY <2>2, <2>3, <2>4
<1>9. QED
  BY <1>7, <1>8

(* A region that begins a session keeps the updates ordered.               *)
LEMMA BeginsNext ==
    ASSUME IndInv, NEW t \in Thread, NEW last, Begins(t, last)
    PROVE  CapturedInv' /\ PendingInv' /\ InitInv'
<1> USE HubAssumption DEF IndInv
<1>1. TakeErrors \in Nat /\ nextSid \in Nat \ {0}
  BY DEF TypeOK, TakeErrors
<1>2. lock = Free /\ lock' = t /\ captured' = captured /\ stored' = stored
      /\ nextSid' = nextSid + 1 /\ mine' = [mine EXCEPT ![t] = last]
      /\ session' \in Session /\ session'.sid = nextSid
  BY <1>1, SessionTypes DEF Begins, BeginSession
<1>3. \A y \in Session : y.sid < nextSid => Made(y)'
  BY <1>1, <1>2 DEF Made, Behind, Session
<1>4. ASSUME last # NoSession PROVE IsNext(last)
  <2>1. session \in Session /\ last \in Session /\ IsNextUpdate(last, session) /\ session # NoSession
    BY <1>4, SessionTypes DEF Begins
  <2>2. last.sid < nextSid
    BY <2>1 DEF CurrentIsOpen, IsNextUpdate
  <2>3. QED
    BY <1>2, <1>3, <2>1, <2>2, NextIsNext
<1>5. CapturedInv' /\ PendingInv'
  BY <1>2, <1>3, <1>4, PendingNext DEF Made
<1>6. InitInv'
  BY <1>2 DEF InitInv
<1>7. QED
  BY <1>5, <1>6

(* So does a region that ends the session ...                              *)
LEMMA TakesNext ==
    ASSUME IndInv, NEW t \in Thread, Takes(t)
    PROVE  CapturedInv' /\ PendingInv' /\ InitInv'
<1> USE HubAssumption DEF IndInv
<1>0. PICK last : last = LastSession
  OBVIOUS
<1>1. lock = Free /\ UNCHANGED <<lock, captured, stored, nextSid>> /\ session' = NoSession
      /\ mine' = [mine EXCEPT ![t] = last]
  BY <1>0 DEF Takes, HandOver
<1>2. \A y \in Session : y.sid < nextSid => Made(y)'
  BY <1>1 DEF Made, Behind
<1>3. ASSUME last # NoSession PROVE IsNext(last)
  <2>1. session \in Session /\ last \in Session /\ IsNextUpdate(last, session)
        /\ session # NoSession
    BY <1>0, <1>3, SessionTypes, LastSessionType
  <2>2. last.sid < nextSid
    BY <2>1 DEF CurrentIsOpen, IsNextUpdate
  <2>3. QED
    BY <1>1, <1>2, <2>1, <2>2, NextIsNext
<1>4. CapturedInv' /\ PendingInv'
  BY <1>1, <1>2, <1>3, PendingNext DEF Made
<1>5. InitInv'
  BY <1>1 DEF InitInv
<1>6. QED
  BY <1>4, <1>5

(* ... and one that hands over an update of it.                            *)
LEMMA HandsNext ==
    ASSUME IndInv, NEW t \in Thread, NEW x, NEW s, Hands(t, x, s), s \in Session, s.sid = session.sid,
           \/ s = x /\ UNCHANGED stored /\ ~IsEnded(x)
           \/ s = session /\ stored' = stored \cup {session.sid}
    PROVE  CapturedInv' /\ PendingInv' /\ InitInv'
<1> USE HubAssumption DEF IndInv
<1>1. /\ lock = Free /\ UNCHANGED <<lock, captured, nextSid>> /\ session' = s
      /\ mine' = [mine EXCEPT ![t] = x]
      /\ session \in Session /\ x \in Session /\ IsNextUpdate(x, session)
      /\ session # NoSession /\ s # NoSession
  BY SessionTypes DEF Hands, HandOver
<1>2. stored \subseteq stored' /\ session.sid < nextSid
  BY <1>1 DEF CurrentIsOpen
<1>3. \A y \in Session : Made(y) => Made(y)'
  BY <1>1, <1>2 DEF Made, Behind, IsNextUpdate, Session
<1>4. Made(x)'
  BY <1>1, <1>2 DEF Made, Behind, IsNextUpdate, Session
<1>5. IsNext(x)
  BY <1>1, <1>2, <1>4, NextIsNext
<1>6. CapturedInv' /\ PendingInv'
  BY <1>1, <1>2, <1>3, <1>5, PendingNext
<1>7. InitInv'
  BY <1>1 DEF InitInv, Announced
<1>8. QED
  BY <1>6, <1>7

(* Appending an update.                                                    *)
LEMMA AppendFacts ==
    ASSUME captured \in Seq(Session), NEW x \in Session, captured' = Append(captured, x)
    PROVE  /\ Len(captured) \in Nat
           /\ DOMAIN captured = 1 .. Len(captured)
           /\ DOMAIN captured' = 1 .. (Len(captured) + 1)
           /\ captured'[Len(captured) + 1] = x
           /\ \A i \in DOMAIN captured : captured'[i] = captured[i]
           /\ \A i \in DOMAIN captured' : i \in DOMAIN captured \/ i = Len(captured) + 1
           /\ \A sid : Announced(sid) => Announced(sid)'
<1>1. /\ Len(captured) \in Nat
      /\ DOMAIN captured = 1 .. Len(captured)
      /\ DOMAIN captured' = 1 .. (Len(captured) + 1)
      /\ captured'[Len(captured) + 1] = x
      /\ \A i \in DOMAIN captured : captured'[i] = captured[i]
  OBVIOUS
<1>2. \A i \in DOMAIN captured' : i \in DOMAIN captured \/ i = Len(captured) + 1
  BY <1>1
<1>3. \A sid : Announced(sid) => Announced(sid)'
  BY <1>1 DEF Announced
<1>4. QED
  BY <1>1, <1>2, <1>3

(* The capture of the init update, inside the lock.                        *)
LEMMA StoreNext ==
    ASSUME IndInv, NEW t \in Thread, StoreAndCapture(t)
    PROVE  CapturedInv' /\ PendingInv' /\ InitInv'
<1> USE HubAssumption DEF IndInv
<1>1. lock # Free /\ IsFresh(session)
  BY DEF StoreAndCapture, LockIsOwned, CurrentIsOpen
<1>2. PICK s : s = session
  OBVIOUS
<1>3. s \in Session /\ s.init /\ s.sid = nextSid - 1 /\ ~IsEnded(s) /\ s # NoSession
  BY <1>1, <1>2 DEF IsFresh, TypeOK, MaybeSession, CurrentIsOpen
<1>4. captured \in Seq(Session) /\ captured' = Append(captured, s) /\ lock' = Free
      /\ UNCHANGED <<session, nextSid, stored>> /\ mine' = mine
      /\ (\A i \in DOMAIN captured : captured[i] \in Session)
      /\ (\A u \in Thread : mine[u] # NoSession => mine[u] \in Session) /\ nextSid \in Nat
  BY <1>2 DEF StoreAndCapture, HandOver, TypeOK, MaybeSession
<1>5. \A y \in Session : Made(y) =>
         Made(y)' /\ y.sid < nextSid - 1 /\ Compatible(y, s)' /\ Compatible(s, y)'
  BY <1>1, <1>2, <1>3, <1>4 DEF Made, Behind, Compatible, Session
<1>6. Made(s)'
  BY <1>2, <1>3, <1>4 DEF Made, Behind, Session
<1>7. \A y, z : Compatible(y, z) => Compatible(y, z)'
  BY <1>4 DEF Compatible
<1>8. CapturedInv'
  BY <1>3, <1>4, <1>5, <1>6, <1>7, AppendFacts DEF CapturedInv
<1>9. PendingInv'
  <2> SUFFICES ASSUME NEW u \in Thread, mine'[u] # NoSession
               PROVE  /\ Made(mine[u])' /\ ~mine'[u].init /\ Announced(mine[u].sid)'
                      /\ \A i \in DOMAIN captured' :
                            (Compatible(captured[i], mine[u]) /\ Compatible(mine[u], captured[i]))'
                      /\ \A v \in Thread : v # u /\ mine'[v] # NoSession => Compatible(mine[u], mine[v])'
    BY DEF PendingInv
  <2>1. mine'[u] = mine[u] /\ mine[u] \in Session /\ Made(mine[u])
    BY <1>4 DEF PendingInv
  <2>2. Made(mine[u])' /\ ~mine'[u].init /\ Announced(mine[u].sid)'
    BY <1>3, <1>4, <1>5, <2>1, AppendFacts DEF PendingInv
  <2>3. \A i \in DOMAIN captured' :
           (Compatible(captured[i], mine[u]) /\ Compatible(mine[u], captured[i]))'
    BY <1>3, <1>4, <1>5, <1>7, <2>1, AppendFacts DEF PendingInv
  <2>4. \A v \in Thread : v # u /\ mine'[v] # NoSession => Compatible(mine[u], mine[v])'
    BY <1>4, <1>7, <2>1 DEF PendingInv
  <2>5. QED
    BY <2>2, <2>3, <2>4
<1>10. InitInv'
  <2>1. Announced(s.sid)'
    <3>1. Len(captured) + 1 \in DOMAIN captured' /\ captured'[Len(captured) + 1] = s
      BY <1>3, <1>4, AppendFacts
    <3>2. QED
      BY <1>3, <3>1 DEF Announced
  <2>2. \A j \in DOMAIN captured' : captured'[j].init
           \/ \E i \in 1 .. (j - 1) : captured'[i].sid = captured'[j].sid /\ captured'[i].init
    BY <1>3, <1>4, AppendFacts DEF InitInv
  <2>3. QED
    BY <1>2, <1>4, <2>1, <2>2 DEF InitInv
<1>11. QED
  BY <1>8, <1>9, <1>10

(* The capture of an update that a thread had in its hands.                *)
LEMMA SendNext ==
    ASSUME IndInv, NEW t \in Thread, Send(t)
    PROVE  CapturedInv' /\ PendingInv' /\ InitInv'
<1> USE HubAssumption DEF IndInv
<1>1. PICK s : s = mine[t]
  OBVIOUS
<1>2. s \in Session /\ s # NoSession
  BY <1>1 DEF Send, HandsOver, TypeOK, MaybeSession
<1>3. captured \in Seq(Session) /\ captured' = Append(captured, s)
      /\ UNCHANGED <<session, lock, nextSid, stored>> /\ mine' = [mine EXCEPT ![t] = NoSession]
      /\ (\A i \in DOMAIN captured : captured[i] \in Session)
      /\ (\A u \in Thread : mine[u] # NoSession => mine[u] \in Session)
  BY <1>1 DEF Send, HandOver, TypeOK, MaybeSession, hub
<1>4. \A u \in Thread : mine'[u] # NoSession => u # t /\ mine'[u] = mine[u]
  BY <1>3 DEF TypeOK
<1>5. /\ Made(s) /\ ~s.init /\ Announced(s.sid)
      /\ \A i \in DOMAIN captured : Compatible(captured[i], s) /\ Compatible(s, captured[i])
      /\ \A u \in Thread : u # t /\ mine[u] # NoSession =>
            Compatible(s, mine[u]) /\ Compatible(mine[u], s)
  BY <1>1, <1>2 DEF PendingInv
<1>6. (\A y : Made(y) => Made(y)') /\ (\A y, z : Compatible(y, z) => Compatible(y, z)')
  BY <1>3 DEF Made, Behind, Compatible
<1>7. CapturedInv'
  BY <1>2, <1>3, <1>5, <1>6, AppendFacts DEF CapturedInv
<1>8. PendingInv'
  <2> SUFFICES ASSUME NEW u \in Thread, mine'[u] # NoSession
               PROVE  /\ Made(mine[u])' /\ ~mine'[u].init /\ Announced(mine[u].sid)'
                      /\ \A i \in DOMAIN captured' :
                            (Compatible(captured[i], mine[u]) /\ Compatible(mine[u], captured[i]))'
                      /\ \A v \in Thread : v # u /\ mine'[v] # NoSession => Compatible(mine[u], mine[v])'
    BY DEF PendingInv
  <2>1. u # t /\ mine'[u] = mine[u] /\ mine[u] # NoSession
    BY <1>4
  <2>2. Made(mine[u])' /\ ~mine'[u].init /\ Announced(mine[u].sid)'
    BY <1>2, <1>3, <1>6, <2>1, AppendFacts DEF PendingInv
  <2>3. \A i \in DOMAIN captured' :
           (Compatible(captured[i], mine[u]) /\ Compatible(mine[u], captured[i]))'
    BY <1>2, <1>3, <1>5, <1>6, <2>1, AppendFacts DEF PendingInv
  <2>4. \A v \in Thread : v # u /\ mine'[v] # NoSession => Compatible(mine[u], mine[v])'
    BY <1>4, <1>6, <2>1 DEF PendingInv
  <2>5. QED
    BY <2>2, <2>3, <2>4
<1>9. InitInv'
  <2>1. \A j \in DOMAIN captured' : captured'[j].init
           \/ \E i \in 1 .. (j - 1) : captured'[i].sid = captured'[j].sid /\ captured'[i].init
    <3>1. SUFFICES ASSUME NEW j \in DOMAIN captured'
                   PROVE  captured'[j].init
                            \/ \E i \in 1 .. (j - 1) : captured'[i].sid = captured'[j].sid /\ captured'[i].init
      OBVIOUS
    <3>2. CASE j \in DOMAIN captured
      BY <1>2, <1>3, <3>2, AppendFacts DEF InitInv
    <3>3. CASE j = Len(captured) + 1
      <4>1. PICK i \in DOMAIN captured : captured[i].sid = s.sid /\ captured[i].init
        BY <1>5 DEF Announced
      <4>2. i \in 1 .. (j - 1) /\ captured'[i] = captured[i] /\ captured'[j] = s
        BY <1>2, <1>3, <3>3, AppendFacts
      <4>3. QED
        BY <4>1, <4>2
    <3>4. QED
      BY <1>2, <1>3, <3>2, <3>3, AppendFacts
  <2>2. QED
    BY <1>2, <1>3, <2>1, AppendFacts DEF InitInv
<1>10. QED
  BY <1>7, <1>8, <1>9

(* Each step keeps the updates ordered.                                    *)
LEMMA UpdatesNext ==
    ASSUME IndInv, [Next]_vars
    PROVE  CapturedInv' /\ PendingInv' /\ InitInv'
<1>1. ASSUME NEW t \in Thread, Hands(t, Incremented, Incremented), UNCHANGED stored, ~IsEnded(Incremented)
      PROVE  CapturedInv' /\ PendingInv' /\ InitInv'
  <2>1. PICK x : x = Incremented
    OBVIOUS
  <2>2. Hands(t, x, x) /\ ~IsEnded(x) /\ x \in Session /\ x.sid = session.sid
    BY <1>1, <2>1 DEF Hands, IsNextUpdate
  <2>3. QED
    BY <1>1, <2>2, HandsNext
<1>2. ASSUME NEW t \in Thread, Hands(t, EndCrashed(session), session), stored' = stored \cup {session.sid}
      PROVE  CapturedInv' /\ PendingInv' /\ InitInv'
  <2>1. PICK x, s : x = EndCrashed(session) /\ s = session
    OBVIOUS
  <2>2. Hands(t, x, s) /\ s \in Session /\ s.sid = session.sid
    BY <1>2, <2>1 DEF Hands
  <2>3. QED
    BY <1>2, <2>1, <2>2, HandsNext
<1>3. ASSUME UNCHANGED <<session, lock, mine, captured, nextSid, stored>>
      PROVE  CapturedInv' /\ PendingInv' /\ InitInv'
  BY <1>3 DEF IndInv, CapturedInv, PendingInv, InitInv, Made, Behind, Compatible, Announced
<1>4. ASSUME NEW t \in Thread, HandOver(t, NoSession),
             UNCHANGED <<session, currentFile, lock, captured, nextSid, stored>>
      PROVE  CapturedInv' /\ PendingInv' /\ InitInv'
  <2>1. \A y : Made(y) => Made(y)'
    BY <1>4 DEF Made, Behind
  <2>2. CapturedInv' /\ PendingInv'
    BY <1>4, <2>1, PendingNext DEF HandOver
  <2>3. QED
    BY <1>4, <2>2 DEF IndInv, InitInv, Announced
<1>5. QED
  BY <1>1, <1>2, <1>3, <1>4, StepKinds, BeginsNext, TakesNext, StoreNext, SendNext DEF Passes, vars

-----------------------------------------------------------------------------
(* The invariant holds in every state.                                     *)
LEMMA Invariance == Spec => []IndInv
<1>1. IndInv /\ [Next]_vars => IndInv'
  BY TypeNext, ControlNext, UpdatesNext DEF IndInv
<1>2. QED
  BY <1>1, InitInd, PTL DEF Spec

(* The state of the hub and of its threads stays well typed.               *)
THEOREM TypeCorrect == Spec => []TypeOK
<1>1. IndInv => TypeOK
  BY DEF IndInv
<1>2. QED
  BY <1>1, Invariance, PTL

(* Whenever no thread is inside startSession, the session file holds the   *)
(* session in memory (storeCurrentSession and deleteCurrentSession follow  *)
(* every change of _session under _sessionLock), whichever threads start,  *)
(* end and count errors at once.                                           *)
THEOREM FileFollowsMemory == Spec => []FileIsCurrent
<1>1. IndInv => FileIsCurrent
  BY DEF IndInv
<1>2. QED
  BY <1>1, Invariance, PTL

(* The updates of a session that the client is given are ordered by their  *)
(* sequence numbers, although startSession, endSession and the increment   *)
(* hand them over after they released the lock, and the init update comes  *)
(* first.                                                                  *)
THEOREM UpdatesOrdered == Spec => []UpdatesAreOrdered
<1>1. IndInv => UpdatesAreOrdered
  <2> SUFFICES ASSUME IndInv PROVE UpdatesAreOrdered
    OBVIOUS
  <2>1. ASSUME NEW p \in SamePair(captured)
        PROVE  p[1] \in DOMAIN captured /\ p[2] \in DOMAIN captured /\ p[1] # p[2]
               /\ captured[p[1]].sid = captured[p[2]].sid
    BY DEF SamePair
  <2>2. QED
    BY <2>1 DEF IndInv, UpdatesAreOrdered, CapturedInv, InitInv, Compatible
<1>2. QED
  BY <1>1, Invariance, PTL
=============================================================================
