----------------------------- MODULE HubSessions -----------------------------
(***************************************************************************)
(* The session state of SentryHub in one process, used by several threads: *)
(* startSession, endSession, captureError / captureException, and the      *)
(* envelopes of hybrid SDKs (captureEnvelope, storeEnvelope).              *)
(*                                                                         *)
(* _session, the session file and the init update are written under        *)
(* _sessionLock; captureError reads _session and increments                *)
(* _errorsBeforeSession without it.  A step is a locked region, or what a  *)
(* thread does between two of them; startSession is two steps because the  *)
(* unlocked increment can fall between its read of _errorsBeforeSession    *)
(* and its reset.  A session that was taken out of _session belongs to the *)
(* thread that took it, so ending it is merged into the taking.  The       *)
(* options have a release name: without one the hub starts no session.     *)
(***************************************************************************)
EXTENDS Sessions, FiniteSets

CONSTANTS
    Thread,         \* threads that call the hub
    Calls,          \* the operations they call, a subset of Call
    AutoTracking,   \* SentryOptions.enableAutoSessionTracking
    MaxCalls        \* bound on the calls in all

Call == {"start", "end", "error", "capture", "store"}

(* No thread holds _sessionLock.                                           *)
Free == "free"

ASSUME HubAssumption ==
    /\ Calls \subseteq Call
    /\ AutoTracking \in BOOLEAN
    /\ MaxCalls \in Nat
    /\ Free \notin Thread

VARIABLES
    session,        \* _session
    errorsBefore,   \* _errorsBeforeSession
    currentFile,    \* session.current on disk
    lock,           \* the owner of _sessionLock, or Free
    pc,             \* where each thread is
    mine,           \* the session object or copy each thread is about to hand over
    seen,           \* the value of _errorsBeforeSession each thread has loaded
    \* History
    captured,       \* session updates in the order the client was given them
    nextSid,        \* the id of the next session
    stored,         \* sessions a storeEnvelope call sent as crashed
    calls           \* calls made so far

hub == <<session, errorsBefore, currentFile, lock>>
threads == <<pc, mine, seen>>
history == <<captured, nextSid, stored, calls>>
vars == <<session, errorsBefore, currentFile, lock, pc, mine, seen,
          captured, nextSid, stored, calls>>

(* "idle"; "started": inside startSession's lock, the session not yet      *)
(* stored; "send": about to hand "mine" to the client; "increment": the    *)
(* client accepted the event and calls the sessionBlock; "count": between  *)
(* the load and the store of _errorsBeforeSession++.                       *)
PC == {"idle", "started", "send", "increment", "count"}

TypeOK ==
    /\ session \in MaybeSession
    /\ errorsBefore \in Nat
    /\ currentFile \in MaybeSession
    /\ lock \in Thread \cup {Free}
    /\ pc \in [Thread -> PC]
    /\ mine \in [Thread -> MaybeSession]
    /\ seen \in [Thread -> Nat]
    /\ captured \in Seq(Session)
    /\ nextSid \in Nat \ {0}
    /\ stored \subseteq 1 .. (nextSid - 1)
    /\ calls \in 0 .. MaxCalls

Init ==
    /\ session = NoSession
    /\ errorsBefore = 0
    /\ currentFile = NoSession
    /\ lock = Free
    /\ pc = [t \in Thread |-> "idle"]
    /\ mine = [t \in Thread |-> NoSession]
    /\ seen = [t \in Thread |-> 0]
    /\ captured = <<>>
    /\ nextSid = 1
    /\ stored = {}
    /\ calls = 0

-----------------------------------------------------------------------------
Goto(t, label) == pc' = [pc EXCEPT ![t] = label]

(* Thread t calls the hub.                                                 *)
Calling(t, call) ==
    /\ call \in Calls
    /\ pc[t] = "idle"
    /\ calls < MaxCalls
    /\ calls' = calls + 1

(* @synchronized(_sessionLock).                                            *)
MayEnter_Unguarded == TRUE    \* mutant: no lock is taken
MayEnter == lock = Free

(* A region of one step leaves the lock as it found it.                    *)
Synchronized == MayEnter /\ UNCHANGED lock

(* t goes on to hand s to the client, if there is one.                     *)
HandOver(t, s) ==
    /\ mine' = [mine EXCEPT ![t] = s]
    /\ Goto(t, IF s = NoSession THEN "idle" ELSE "send")

-----------------------------------------------------------------------------
(* startSession                                                            *)
LastSession_Forgotten == NoSession    \* mutant: the last session is not ended
LastSession == IF session = NoSession THEN NoSession ELSE EndExited(session)

TakeErrors == IF AutoTracking THEN errorsBefore ELSE 0

(* The first part of startSession's region; last is the session t will     *)
(* hand over when it has left the region.                                  *)
BeginSession(t, last) ==
    /\ MayEnter
    /\ lock' = t
    /\ session' = NewSession(nextSid, TakeErrors)
    /\ nextSid' = nextSid + 1
    /\ mine' = [mine EXCEPT ![t] = last]
    /\ Goto(t, "started")
    /\ UNCHANGED <<errorsBefore, currentFile, seen, captured>>

StartSession(t) ==
    /\ Calling(t, "start")
    /\ BeginSession(t, LastSession)
    /\ UNCHANGED stored

(* The rest of the region: reset, store and capture.                       *)
StoreAndCapture(t) ==
    /\ pc[t] = "started"
    /\ errorsBefore' = IF session.errors > 0 THEN 0 ELSE errorsBefore
    /\ currentFile' = session
    /\ captured' = Append(captured, session)
    /\ lock' = Free
    /\ HandOver(t, mine[t])
    /\ UNCHANGED <<session, seen, nextSid, stored, calls>>

SessionAfterEnd == NoSession

EndSession(t) ==
    /\ Calling(t, "end")
    /\ Synchronized
    /\ HandOver(t, LastSession)
    /\ session' = SessionAfterEnd
    /\ errorsBefore' = 0
    /\ currentFile' = NoSession
    /\ UNCHANGED <<seen, captured, nextSid, stored>>

(* captureSession, or the event or envelope that carries the session.      *)
Send(t) ==
    /\ pc[t] = "send"
    /\ captured' = Append(captured, mine[t])
    /\ HandOver(t, NoSession)
    /\ UNCHANGED <<hub, seen, nextSid, stored, calls>>

-----------------------------------------------------------------------------
(* captureError and captureException read _session without the lock.       *)
CaptureErrorInSession(t) ==
    /\ Calling(t, "error")
    /\ session # NoSession
    /\ \E dropped \in BOOLEAN : Goto(t, IF dropped THEN "idle" ELSE "increment")
    /\ UNCHANGED <<hub, mine, seen, captured, nextSid, stored>>

(* Without a session the error is counted before the client decides        *)
(* whether to keep it.                                                     *)
CaptureErrorBeforeSession(t) ==
    /\ Calling(t, "error")
    /\ session = NoSession
    /\ seen' = [seen EXCEPT ![t] = errorsBefore]
    /\ Goto(t, "count")
    /\ UNCHANGED <<hub, mine, captured, nextSid, stored>>

CountErrorBeforeSession(t) ==
    /\ pc[t] = "count"
    /\ errorsBefore' = seen[t] + 1
    /\ Goto(t, "idle")
    /\ UNCHANGED <<session, currentFile, lock, mine, seen, captured, nextSid, stored,
                   calls>>

(* incrementSessionErrors.                                                 *)
Incremented == IF session = NoSession THEN NoSession ELSE IncrementErrors(session)

FileAfterIncrement_Stale == currentFile    \* mutant: the session is not stored again
FileAfterIncrement == IF session = NoSession THEN currentFile ELSE Incremented

IncrementRegion(t) ==
    /\ Synchronized
    /\ session' = Incremented
    /\ currentFile' = FileAfterIncrement
    /\ HandOver(t, Incremented)
    /\ UNCHANGED <<errorsBefore, seen, captured, nextSid, stored>>

IncrementSessionErrors(t) ==
    /\ pc[t] = "increment"
    /\ IncrementRegion(t)
    /\ UNCHANGED calls

-----------------------------------------------------------------------------
(* updateSessionState: an envelope with an event of level error or higher. *)
(* With handled errors only, both calls increment the session.             *)
EnvelopeHandled(t) ==
    /\ \E call \in {"capture", "store"} : Calling(t, call)
    /\ session # NoSession
    /\ IncrementRegion(t)

(* captureEnvelope ends a copy as crashed and starts the next session in   *)
(* the same locked region.                                                 *)
CaptureEnvelopeUnhandled(t) ==
    /\ Calling(t, "capture")
    /\ session # NoSession
    /\ BeginSession(t, EndCrashed(session))
    /\ UNCHANGED stored

HasSession == session # NoSession

(* storeEnvelope ends a copy as crashed and leaves _session as it is.      *)
StoreEnvelopeUnhandled(t) ==
    /\ Calling(t, "store")
    /\ Synchronized
    /\ HasSession
    /\ HandOver(t, EndCrashed(session))
    /\ stored' = stored \cup {session.sid}
    /\ UNCHANGED <<session, errorsBefore, currentFile, seen, captured, nextSid>>

-----------------------------------------------------------------------------
AtRest == \A t \in Thread : pc[t] = "idle"

(* All calls are made and have returned.                                   *)
Rest == AtRest /\ calls = MaxCalls /\ UNCHANGED vars

(* The steps a thread takes inside a call.                                 *)
Step(t) ==
    \/ StoreAndCapture(t)
    \/ Send(t)
    \/ CountErrorBeforeSession(t)
    \/ IncrementSessionErrors(t)

Next ==
    \/ \E t \in Thread :
          \/ StartSession(t)
          \/ EndSession(t)
          \/ CaptureErrorInSession(t)
          \/ CaptureErrorBeforeSession(t)
          \/ EnvelopeHandled(t)
          \/ CaptureEnvelopeUnhandled(t)
          \/ StoreEnvelopeUnhandled(t)
          \/ Step(t)
    \/ Rest

Spec == Init /\ [][Next]_vars

(* A thread inside a call keeps running.                                   *)
FairSpec == Spec /\ \A t \in Thread : WF_vars(Step(t))

-----------------------------------------------------------------------------
(* The server orders the updates of a session by their sequence numbers:   *)
(* no two carry the same, and of two the one with the higher number        *)
(* supersedes the other, which has not ended the session and has no more   *)
(* errors.  startSession and endSession end the session after they         *)
(* released the lock, while other threads may still send older copies.     *)
(* Sessions that storeEnvelope sent as crashed are excepted: their object  *)
(* goes on.  And the client is given the init update before any other, so  *)
(* that the transport stores it in an older file: startSession captures it *)
(* inside the lock.                                                        *)
UpdatesAreOrdered ==
    /\ \A p \in SamePair(captured) :
           LET old == captured[p[1]] new == captured[p[2]]
           IN  old.sid \notin stored =>
                 /\ old.seq # new.seq
                 /\ old.seq < new.seq => ~IsEnded(old) /\ old.errors <= new.errors
    /\ \A j \in DOMAIN captured :
           captured[j].init
             \/ \E i \in 1 .. (j - 1) : captured[i].sid = captured[j].sid /\ captured[i].init

(* Whenever the lock is free the file holds the session in memory, which   *)
(* is what the next launch ends if the process dies now.                   *)
FileIsCurrent == lock = Free => currentFile = session

(* A session that is no longer the current one was or will be captured     *)
(* with an end.                                                            *)
EndIsCaptured ==
    \A sid \in 1 .. MaxCalls :
        (sid < nextSid /\ sid # session.sid) ~> EndedIn(captured, sid)

=============================================================================
