------------------------ MODULE SessionRecoveryProofs ------------------------
(***************************************************************************)
(* Proofs about the recovery of sessions, for any number of deaths of the  *)
(* process, wherever they hit the launch: no session gets lost, what is    *)
(* reported of a session is how its process died, and a watchdog           *)
(* termination is reported only after a death in the foreground.           *)
(***************************************************************************)
EXTENDS SessionRecovery, SequenceTheorems, TLAPS

(***************************************************************************)
(* The main thread works through a suffix of one of three programs, which  *)
(* differ in their last step.  Left is the number of steps that the launch *)
(* still has to take, Activating and Ending those of the work that a       *)
(* notification started.                                                   *)
(***************************************************************************)
Activation == <<"end", "capture", "start", "captureInit", "capture", "deleteTimestamp">>

Termination == <<"end", "capture", "deleteTimestamp", "exit">>

Suffix(s, p) == Len(s) <= Len(p) /\ \A i \in 1 .. Len(s) : s[i] = p[Len(p) - Len(s) + i]

StepsTo(label) == IF todo # <<>> /\ todo[Len(todo)] = label THEN Len(todo) ELSE 0

Left == StepsTo("capture")
Activating == StepsTo("deleteTimestamp")
Ending == StepsTo("exit")

Control ==
    /\ todo \in Seq(Label)
    /\ Suffix(todo, Launch) \/ Suffix(todo, Activation) \/ Suffix(todo, Termination)

RecoveryTyped ==
    /\ session \in MaybeSession /\ mine \in MaybeSession
    /\ currentFile \in MaybeSession /\ crashedFile \in MaybeSession
    /\ appState \in AppState /\ previousAppState \in AppState
    /\ lastInForeground \in BOOLEAN /\ foreground \in BOOLEAN
    /\ work \in [Queue -> Seq(WorkLabel)]
    /\ stateUpdates \in Seq(BOOLEAN)
    /\ reports \in Nat /\ moves \in Nat /\ nextSid \in Nat \ {0}
    /\ fate \in [Sids -> Fate] /\ lastDeath \in Fate

----------------------------------------------------------------------------
(***************************************************************************)
(* App states.  The file lags behind the notifications by what is queued,  *)
(* and a process that was killed with updates in the queue counts as       *)
(* active.                                                                 *)
(***************************************************************************)
SaysActive(s) == s.exists /\ s.isActive /\ ~s.wasTerminated

StateIsTold ==
    /\ Left = 10 /\ SaysActive(appState) /\ ~crashState => lastDeath = "active"
    /\ Left = 9 /\ SaysActive(previousAppState) /\ ~crashState => lastDeath = "active"
    /\ Left <= 8 /\ SaysActive(previousAppState) /\ ~crashedLastLaunch => lastDeath = "active"

StateIsKept ==
    /\ Left > 0 => ~foreground /\ stateUpdates = <<>>
    /\ Left \in 4 .. 9 => ~appState.exists
    /\ Left < 10 /\ appState.isActive => foreground \/ stateUpdates # <<>>
    /\ stateUpdates # <<>> => stateUpdates[Len(stateUpdates)] = foreground
    /\ Ending > 0 /\ appState.exists => appState.wasTerminated
    /\ ~appState.exists => ~appState.isActive
    /\ ~WatchdogTracking => ~appState.exists /\ stateUpdates = <<>>
    /\ Left >= 4 => work["watchdog"] = <<>>

WatchdogInd == Control /\ RecoveryTyped /\ StateIsTold /\ StateIsKept

----------------------------------------------------------------------------
(***************************************************************************)
(* Sessions.  Until the launch has closed the session file it holds what   *)
(* the last process left; from then on it holds the session of the hub.    *)
(***************************************************************************)
\* The session that crashed was captured or is lost, or there is none.
Settled ==
    \/ crashedFile = NoSession
    \/ EndedIn(captured, crashedFile.sid)
    \/ crashedFile.sid \in lost

Work ==
    /\ Left >= 6 => work["crash"] = <<>>
    /\ Left < 6 /\ reports # 0 => work["crash"] # <<>>
    /\ work["crash"] # <<>> => work["crash"][Len(work["crash"])] = "deleteReports"
    /\ \A q \in Queue : \A i \in DOMAIN work[q] : work[q][i] = "deleteCrashed" => i = 1 /\ Settled

Statuses ==
    /\ captured \in Seq(Session)
    /\ session.status = "ok" /\ currentFile.status = "ok"
    /\ mine # NoSession => mine.status \in {"exited", "abnormal"}
    /\ crashedFile # NoSession => crashedFile.status = "crashed"

Holders ==
    /\ Left > 0 => session = NoSession
    /\ Left <= 1 => currentFile = session
    /\ Left \in 1 .. 6 /\ crashedLastLaunch => currentFile = NoSession
    /\ Left = 7 /\ MustEndAsCrashed => crashedFile = EndCrashed(currentFile)
    /\ mine # NoSession => Left = 1 \/ Activating \in {2, 3, 5} \/ Ending = 3
    /\ Activating = 3 => session # NoSession
    /\ Ending \in 1 .. 3 => session = NoSession

Accounted ==
    \A sid \in 1 .. (nextSid - 1) :
        \/ sid \in {session.sid, mine.sid, currentFile.sid, crashedFile.sid}
        \/ EndedIn(captured, sid)
        \/ sid \in lost

SessionsInd == Work /\ Statuses /\ Holders /\ Accounted

----------------------------------------------------------------------------
(***************************************************************************)
(* How sessions ended.  A session is fresh until the process that was to   *)
(* recover it dies too.                                                    *)
(***************************************************************************)
Fresh(s) == s # NoSession /\ s.sid \notin unsettled

CrashFlag == IF Left >= 9 THEN crashState ELSE crashedLastLaunch

Timestamp == IF Left >= 3 THEN lastInForeground ELSE closingTimestamp

\* Every session id is older than the next one, and there is a fate for it.
Numbered ==
    /\ session.sid < nextSid /\ mine.sid < nextSid /\ currentFile.sid < nextSid /\ crashedFile.sid < nextSid
    /\ \A i \in DOMAIN captured : captured[i].sid < nextSid
    /\ \A n \in Sids : n >= nextSid => fate[n] = "alive"
    /\ nextSid + (IF Activating >= 4 THEN 1 ELSE 0) <= moves + 1
    /\ moves <= MaxMoves

\* What the last process left is told by its flag and its timestamp.
DeathIsTold ==
    /\ Left <= 8 => ~crashState
    /\ Activating > 0 => foreground
    /\ session # NoSession => fate[session.sid] = "alive" /\ (foreground \/ lastInForeground)
    /\ Left > 0 /\ Fresh(currentFile) =>
           /\ fate[currentFile.sid] = lastDeath /\ lastDeath \in {"crashed", "active", "background"}
           /\ CrashFlag <=> lastDeath = "crashed"
           /\ lastDeath = "background" => Timestamp

\* What is about to be captured.
EndsAreTrue ==
    /\ Fresh(mine) => /\ fate[mine.sid] # "crashed"
                      /\ mine.status = "abnormal" => fate[mine.sid] = "active"
    /\ Fresh(crashedFile) => fate[crashedFile.sid] \in {"crashed", "active"}

Truthful(u) ==
    IsEnded(u) /\ u.sid \notin unsettled =>
        /\ fate[u.sid] = "crashed" => u.status = "crashed"
        /\ u.status = "crashed" => fate[u.sid] \in {"crashed", "active"}
        /\ u.status = "abnormal" => fate[u.sid] = "active"

\* s is the last update of its session that was captured, or a later one.
LatestIn(updates, s) ==
    \A i \in DOMAIN updates : updates[i].sid = s.sid =>
        updates[i].seq <= s.seq /\ (updates[i].seq = s.seq => updates[i] = s)

LaterIn(updates, s) == \A i \in DOMAIN updates : updates[i].sid = s.sid => updates[i].seq < s.seq

SequenceNumbers ==
    /\ session # NoSession => LatestIn(captured, session) /\ ~EndedIn(captured, session.sid)
    /\ Left > 0 /\ Fresh(currentFile) => LatestIn(captured, currentFile)
    /\ Fresh(mine) => LaterIn(captured, mine)
    /\ Fresh(crashedFile) => LatestIn(captured, crashedFile)

\* A session is in one place.
Apart ==
    /\ session # NoSession => mine.sid # session.sid /\ crashedFile.sid # session.sid
    /\ Fresh(mine) /\ Fresh(crashedFile) => mine.sid # crashedFile.sid
    /\ Left > 0 /\ Left # 7 /\ Fresh(currentFile) => ~Fresh(crashedFile)
    /\ Left >= 8 => ~Fresh(crashedFile)
    /\ Left = 7 /\ ~MustEndAsCrashed => ~Fresh(crashedFile)

CapturedIsTrue ==
    /\ \A i \in DOMAIN captured : Truthful(captured[i])
    /\ \A i, j \in DOMAIN captured :
           /\ captured[i].sid = captured[j].sid /\ captured[i].sid \notin unsettled
           /\ captured[i].seq = captured[j].seq
           => captured[i] = captured[j]

TruthInd == Numbered /\ DeathIsTold /\ EndsAreTrue /\ SequenceNumbers /\ Apart /\ CapturedIsTrue

----------------------------------------------------------------------------
(* Where the main thread is, and where it goes.                            *)
LEMMA ProgramSteps ==
    /\ Len(Launch) = 10 /\ Len(Activation) = 6 /\ Len(Termination) = 4
    /\ Launch[1] = "boot" /\ Launch[2] = "install" /\ Launch[3] = "endCrashed" /\ Launch[4] = "deleteCurrent"
    /\ Launch[5] = "sendReports" /\ Launch[6] = "awaitReports" /\ Launch[7] = "storeAppState"
    /\ Launch[8] = "endCached" /\ Launch[9] = "closeCached" /\ Launch[10] = "capture"
    /\ Activation[1] = "end" /\ Activation[2] = "capture" /\ Activation[3] = "start"
    /\ Activation[4] = "captureInit" /\ Activation[5] = "capture" /\ Activation[6] = "deleteTimestamp"
    /\ Termination[1] = "end" /\ Termination[2] = "capture" /\ Termination[3] = "deleteTimestamp"
    /\ Termination[4] = "exit"
  BY DEF Launch, Activation, Termination

LEMMA TailOfSuffix ==
    ASSUME NEW S, NEW s \in Seq(S), s # <<>>, NEW p, Len(p) \in Nat, Suffix(s, p)
    PROVE  /\ Suffix(Tail(s), p) /\ Tail(s) \in Seq(S) /\ Len(Tail(s)) = Len(s) - 1
           /\ Head(s) = p[Len(p) - Len(s) + 1] /\ Len(s) \in 1 .. Len(p)
           /\ Tail(s) # <<>> => Tail(s)[Len(Tail(s))] = s[Len(s)]
           /\ s[Len(s)] = p[Len(p)]
<1>1. Len(s) \in Nat /\ Len(s) > 0 /\ Head(s) = s[1]
  BY EmptySeq
<1>2. Tail(s) \in Seq(S) /\ Len(Tail(s)) = Len(s) - 1 /\ \A i \in 1 .. Len(s) - 1 : Tail(s)[i] = s[i + 1]
  OBVIOUS
<1>3. ASSUME NEW i \in 1 .. Len(Tail(s)) PROVE Tail(s)[i] = p[Len(p) - Len(Tail(s)) + i]
  <2>1. Tail(s)[i] = s[i + 1] /\ i + 1 \in 1 .. Len(s)
    BY <1>1, <1>2
  <2>2. Len(p) - Len(s) + (i + 1) = Len(p) - Len(Tail(s)) + i
    BY <1>1, <1>2
  <2>3. QED
    BY <2>1, <2>2 DEF Suffix
<1>4. Tail(s) # <<>> => Len(s) - 1 \in 1 .. Len(s) - 1
  BY <1>1, <1>2
<1>5. Len(p) - Len(s) + Len(s) = Len(p) /\ Len(s) \in 1 .. Len(s) /\ 1 \in 1 .. Len(s)
  BY <1>1
<1>6. QED
  BY <1>1, <1>2, <1>3, <1>4, <1>5 DEF Suffix

(* Where the main thread is: the step it has come to, and how many steps   *)
(* of each program are left.                                               *)
Position(label, left, activating, ending) ==
    Head(todo) = label /\ Left = left /\ Activating = activating /\ Ending = ending

Positions ==
    \/ Position("boot", 10, 0, 0)
    \/ Position("install", 9, 0, 0)
    \/ Position("endCrashed", 8, 0, 0)
    \/ Position("deleteCurrent", 7, 0, 0)
    \/ Position("sendReports", 6, 0, 0)
    \/ Position("awaitReports", 5, 0, 0)
    \/ Position("storeAppState", 4, 0, 0)
    \/ Position("endCached", 3, 0, 0)
    \/ Position("closeCached", 2, 0, 0)
    \/ Position("capture", 1, 0, 0)
    \/ Position("end", 0, 6, 0)
    \/ Position("capture", 0, 5, 0)
    \/ Position("start", 0, 4, 0)
    \/ Position("captureInit", 0, 3, 0)
    \/ Position("capture", 0, 2, 0)
    \/ Position("deleteTimestamp", 0, 1, 0)
    \/ Position("end", 0, 0, 4)
    \/ Position("capture", 0, 0, 3)
    \/ Position("deleteTimestamp", 0, 0, 2)
    \/ Position("exit", 0, 0, 1)

LEMMA WhereAt ==
    ASSUME Control, todo # <<>>
    PROVE  Positions
<1>1. CASE Suffix(todo, Launch)
  <2>1. todo \in Seq(Label) /\ Len(Launch) \in Nat
    BY ProgramSteps DEF Control
  <2>2. Len(todo) \in 1 .. Len(Launch)
    BY <1>1, <2>1, TailOfSuffix
  <2>3. Head(todo) = Launch[Len(Launch) - Len(todo) + 1]
    BY <1>1, <2>1, TailOfSuffix
  <2>4. todo[Len(todo)] = Launch[Len(Launch)]
    BY <1>1, <2>1, TailOfSuffix
  <2>5. Len(todo) \in 1 .. 10 /\ Head(todo) = Launch[11 - Len(todo)] /\ todo[Len(todo)] = "capture"
    BY <2>2, <2>3, <2>4, ProgramSteps
  <2>6. Left = Len(todo) /\ Activating = 0 /\ Ending = 0
    BY <2>5 DEF Left, Activating, Ending, StepsTo
  <2>7. \/ Len(todo) = 10 /\ Head(todo) = "boot"
        \/ Len(todo) = 9 /\ Head(todo) = "install"
        \/ Len(todo) = 8 /\ Head(todo) = "endCrashed"
        \/ Len(todo) = 7 /\ Head(todo) = "deleteCurrent"
        \/ Len(todo) = 6 /\ Head(todo) = "sendReports"
        \/ Len(todo) = 5 /\ Head(todo) = "awaitReports"
        \/ Len(todo) = 4 /\ Head(todo) = "storeAppState"
        \/ Len(todo) = 3 /\ Head(todo) = "endCached"
        \/ Len(todo) = 2 /\ Head(todo) = "closeCached"
        \/ Len(todo) = 1 /\ Head(todo) = "capture"
    <3>1. PICK n : n = Len(todo)
      OBVIOUS
    <3>2. PICK t : t = Head(todo)
      OBVIOUS
    <3>3. n \in 1 .. 10 /\ t = Launch[11 - n]
      BY <2>5, <3>1, <3>2
    <3>4. \/ n = 10 /\ t = "boot"
          \/ n = 9 /\ t = "install"
          \/ n = 8 /\ t = "endCrashed"
          \/ n = 7 /\ t = "deleteCurrent"
          \/ n = 6 /\ t = "sendReports"
          \/ n = 5 /\ t = "awaitReports"
          \/ n = 4 /\ t = "storeAppState"
          \/ n = 3 /\ t = "endCached"
          \/ n = 2 /\ t = "closeCached"
          \/ n = 1 /\ t = "capture"
      BY <3>3, ProgramSteps
    <3>5. QED
      BY <3>1, <3>2, <3>4
  <2>8. QED
    BY <2>6, <2>7 DEF Position, Positions
<1>2. CASE Suffix(todo, Activation)
  <2>1. todo \in Seq(Label) /\ Len(Activation) \in Nat
    BY ProgramSteps DEF Control
  <2>2. Len(todo) \in 1 .. Len(Activation)
    BY <1>2, <2>1, TailOfSuffix
  <2>3. Head(todo) = Activation[Len(Activation) - Len(todo) + 1]
    BY <1>2, <2>1, TailOfSuffix
  <2>4. todo[Len(todo)] = Activation[Len(Activation)]
    BY <1>2, <2>1, TailOfSuffix
  <2>5. Len(todo) \in 1 .. 6 /\ Head(todo) = Activation[7 - Len(todo)] /\ todo[Len(todo)] = "deleteTimestamp"
    BY <2>2, <2>3, <2>4, ProgramSteps
  <2>6. Left = 0 /\ Activating = Len(todo) /\ Ending = 0
    BY <2>5 DEF Left, Activating, Ending, StepsTo
  <2>7. \/ Len(todo) = 6 /\ Head(todo) = "end"
        \/ Len(todo) = 5 /\ Head(todo) = "capture"
        \/ Len(todo) = 4 /\ Head(todo) = "start"
        \/ Len(todo) = 3 /\ Head(todo) = "captureInit"
        \/ Len(todo) = 2 /\ Head(todo) = "capture"
        \/ Len(todo) = 1 /\ Head(todo) = "deleteTimestamp"
    <3>1. PICK n : n = Len(todo)
      OBVIOUS
    <3>2. PICK t : t = Head(todo)
      OBVIOUS
    <3>3. n \in 1 .. 6 /\ t = Activation[7 - n]
      BY <2>5, <3>1, <3>2
    <3>4. \/ n = 6 /\ t = "end"
          \/ n = 5 /\ t = "capture"
          \/ n = 4 /\ t = "start"
          \/ n = 3 /\ t = "captureInit"
          \/ n = 2 /\ t = "capture"
          \/ n = 1 /\ t = "deleteTimestamp"
      BY <3>3, ProgramSteps
    <3>5. QED
      BY <3>1, <3>2, <3>4
  <2>8. QED
    BY <2>6, <2>7 DEF Position, Positions
<1>3. CASE Suffix(todo, Termination)
  <2>1. todo \in Seq(Label) /\ Len(Termination) \in Nat
    BY ProgramSteps DEF Control
  <2>2. Len(todo) \in 1 .. Len(Termination)
    BY <1>3, <2>1, TailOfSuffix
  <2>3. Head(todo) = Termination[Len(Termination) - Len(todo) + 1]
    BY <1>3, <2>1, TailOfSuffix
  <2>4. todo[Len(todo)] = Termination[Len(Termination)]
    BY <1>3, <2>1, TailOfSuffix
  <2>5. Len(todo) \in 1 .. 4 /\ Head(todo) = Termination[5 - Len(todo)] /\ todo[Len(todo)] = "exit"
    BY <2>2, <2>3, <2>4, ProgramSteps
  <2>6. Left = 0 /\ Activating = 0 /\ Ending = Len(todo)
    BY <2>5 DEF Left, Activating, Ending, StepsTo
  <2>7. \/ Len(todo) = 4 /\ Head(todo) = "end"
        \/ Len(todo) = 3 /\ Head(todo) = "capture"
        \/ Len(todo) = 2 /\ Head(todo) = "deleteTimestamp"
        \/ Len(todo) = 1 /\ Head(todo) = "exit"
    <3>1. PICK n : n = Len(todo)
      OBVIOUS
    <3>2. PICK t : t = Head(todo)
      OBVIOUS
    <3>3. n \in 1 .. 4 /\ t = Termination[5 - n]
      BY <2>5, <3>1, <3>2
    <3>4. \/ n = 4 /\ t = "end"
          \/ n = 3 /\ t = "capture"
          \/ n = 2 /\ t = "deleteTimestamp"
          \/ n = 1 /\ t = "exit"
      BY <3>3, ProgramSteps
    <3>5. QED
      BY <3>1, <3>2, <3>4
  <2>8. QED
    BY <2>6, <2>7 DEF Position, Positions
<1>4. QED
  BY <1>1, <1>2, <1>3 DEF Control

\* The same, by label.
LEMMA AtLabel ==
    ASSUME Control
    PROVE
        /\ (At("boot") => (Left = 10 /\ Activating = 0 /\ Ending = 0))
        /\ (At("install") => (Left = 9 /\ Activating = 0 /\ Ending = 0))
        /\ (At("endCrashed") => (Left = 8 /\ Activating = 0 /\ Ending = 0))
        /\ (At("deleteCurrent") => (Left = 7 /\ Activating = 0 /\ Ending = 0))
        /\ (At("sendReports") => (Left = 6 /\ Activating = 0 /\ Ending = 0))
        /\ (At("awaitReports") => (Left = 5 /\ Activating = 0 /\ Ending = 0))
        /\ (At("storeAppState") => (Left = 4 /\ Activating = 0 /\ Ending = 0))
        /\ (At("endCached") => (Left = 3 /\ Activating = 0 /\ Ending = 0))
        /\ (At("closeCached") => (Left = 2 /\ Activating = 0 /\ Ending = 0))
        /\ (At("capture") => (Left = 1 /\ Activating = 0 /\ Ending = 0) \/ (Left = 0 /\ Activating = 5 /\ Ending = 0) \/ (Left = 0 /\ Activating = 2 /\ Ending = 0) \/ (Left = 0 /\ Activating = 0 /\ Ending = 3))
        /\ (At("end") => (Left = 0 /\ Activating = 6 /\ Ending = 0) \/ (Left = 0 /\ Activating = 0 /\ Ending = 4))
        /\ (At("start") => (Left = 0 /\ Activating = 4 /\ Ending = 0))
        /\ (At("captureInit") => (Left = 0 /\ Activating = 3 /\ Ending = 0))
        /\ (At("deleteTimestamp") => (Left = 0 /\ Activating = 1 /\ Ending = 0) \/ (Left = 0 /\ Activating = 0 /\ Ending = 2))
        /\ (At("exit") => (Left = 0 /\ Activating = 0 /\ Ending = 1))
        /\ (Left = 10 => At("boot"))
        /\ (Left = 9 => At("install"))
        /\ (Left = 8 => At("endCrashed"))
        /\ (Left = 7 => At("deleteCurrent"))
        /\ (Left = 6 => At("sendReports"))
        /\ (Left = 5 => At("awaitReports"))
        /\ (Left = 4 => At("storeAppState"))
        /\ (Left = 3 => At("endCached"))
        /\ (Left = 2 => At("closeCached"))
        /\ (Left = 1 => At("capture"))
        /\ Left \in 0 .. 10 /\ Activating \in 0 .. 6 /\ Ending \in 0 .. 4
        /\ (todo = <<>> => Left = 0 /\ Activating = 0 /\ Ending = 0)
        /\ (Left = 0 \/ (Activating = 0 /\ Ending = 0)) /\ (Activating = 0 \/ Ending = 0)
<1>1. CASE todo = <<>>
  BY <1>1 DEF At, Left, Activating, Ending, StepsTo
<1>2. CASE todo # <<>>
  <2>1. PICK t, l, a, e : t = Head(todo) /\ l = Left /\ a = Activating /\ e = Ending
    OBVIOUS
  <2>2. \A label : At(label) <=> t = label
    BY <1>2, <2>1 DEF At
  <2>3. \/ (t = "boot" /\ l = 10 /\ a = 0 /\ e = 0)
        \/ (t = "install" /\ l = 9 /\ a = 0 /\ e = 0)
        \/ (t = "endCrashed" /\ l = 8 /\ a = 0 /\ e = 0)
        \/ (t = "deleteCurrent" /\ l = 7 /\ a = 0 /\ e = 0)
        \/ (t = "sendReports" /\ l = 6 /\ a = 0 /\ e = 0)
        \/ (t = "awaitReports" /\ l = 5 /\ a = 0 /\ e = 0)
        \/ (t = "storeAppState" /\ l = 4 /\ a = 0 /\ e = 0)
        \/ (t = "endCached" /\ l = 3 /\ a = 0 /\ e = 0)
        \/ (t = "closeCached" /\ l = 2 /\ a = 0 /\ e = 0)
        \/ (t = "capture" /\ l = 1 /\ a = 0 /\ e = 0)
        \/ (t = "capture" /\ l = 0 /\ a = 5 /\ e = 0)
        \/ (t = "capture" /\ l = 0 /\ a = 2 /\ e = 0)
        \/ (t = "capture" /\ l = 0 /\ a = 0 /\ e = 3)
        \/ (t = "end" /\ l = 0 /\ a = 6 /\ e = 0)
        \/ (t = "end" /\ l = 0 /\ a = 0 /\ e = 4)
        \/ (t = "start" /\ l = 0 /\ a = 4 /\ e = 0)
        \/ (t = "captureInit" /\ l = 0 /\ a = 3 /\ e = 0)
        \/ (t = "deleteTimestamp" /\ l = 0 /\ a = 1 /\ e = 0)
        \/ (t = "deleteTimestamp" /\ l = 0 /\ a = 0 /\ e = 2)
        \/ (t = "exit" /\ l = 0 /\ a = 0 /\ e = 1)
    BY <1>2, <2>1, WhereAt DEF Positions, Position
  <2>4. (t = "boot" => (l = 10 /\ a = 0 /\ e = 0))
    BY <2>3
  <2>5. (t = "install" => (l = 9 /\ a = 0 /\ e = 0))
    BY <2>3
  <2>6. (t = "endCrashed" => (l = 8 /\ a = 0 /\ e = 0))
    BY <2>3
  <2>7. (t = "deleteCurrent" => (l = 7 /\ a = 0 /\ e = 0))
    BY <2>3
  <2>8. (t = "sendReports" => (l = 6 /\ a = 0 /\ e = 0))
    BY <2>3
  <2>9. (t = "awaitReports" => (l = 5 /\ a = 0 /\ e = 0))
    BY <2>3
  <2>10. (t = "storeAppState" => (l = 4 /\ a = 0 /\ e = 0))
    BY <2>3
  <2>11. (t = "endCached" => (l = 3 /\ a = 0 /\ e = 0))
    BY <2>3
  <2>12. (t = "closeCached" => (l = 2 /\ a = 0 /\ e = 0))
    BY <2>3
  <2>13. (t = "capture" => (l = 1 /\ a = 0 /\ e = 0) \/ (l = 0 /\ a = 5 /\ e = 0) \/ (l = 0 /\ a = 2 /\ e = 0) \/ (l = 0 /\ a = 0 /\ e = 3))
    BY <2>3
  <2>14. (t = "end" => (l = 0 /\ a = 6 /\ e = 0) \/ (l = 0 /\ a = 0 /\ e = 4))
    BY <2>3
  <2>15. (t = "start" => (l = 0 /\ a = 4 /\ e = 0))
    BY <2>3
  <2>16. (t = "captureInit" => (l = 0 /\ a = 3 /\ e = 0))
    BY <2>3
  <2>17. (t = "deleteTimestamp" => (l = 0 /\ a = 1 /\ e = 0) \/ (l = 0 /\ a = 0 /\ e = 2))
    BY <2>3
  <2>18. (t = "exit" => (l = 0 /\ a = 0 /\ e = 1))
    BY <2>3
  <2>19. (l = 10 => t = "boot")
    BY <2>3
  <2>20. (l = 9 => t = "install")
    BY <2>3
  <2>21. (l = 8 => t = "endCrashed")
    BY <2>3
  <2>22. (l = 7 => t = "deleteCurrent")
    BY <2>3
  <2>23. (l = 6 => t = "sendReports")
    BY <2>3
  <2>24. (l = 5 => t = "awaitReports")
    BY <2>3
  <2>25. (l = 4 => t = "storeAppState")
    BY <2>3
  <2>26. (l = 3 => t = "endCached")
    BY <2>3
  <2>27. (l = 2 => t = "closeCached")
    BY <2>3
  <2>28. (l = 1 => t = "capture")
    BY <2>3
  <2>29. l \in 0 .. 10 /\ a \in 0 .. 6 /\ e \in 0 .. 4 /\ (l = 0 \/ (a = 0 /\ e = 0)) /\ (a = 0 \/ e = 0)
    BY <2>3
  <2> HIDE DEF At
  <2>30. QED
    BY <1>2, <2>1, <2>2, <2>4, <2>5, <2>6, <2>7, <2>8, <2>9, <2>10, <2>11, <2>12, <2>13, <2>14, <2>15, <2>16, <2>17, <2>18, <2>19, <2>20, <2>21, <2>22, <2>23, <2>24, <2>25, <2>26, <2>27, <2>28, <2>29
<1>3. QED
  BY <1>1, <1>2

LEMMA StepForward ==
    ASSUME Control, todo # <<>>, todo' = Tail(todo)
    PROVE  /\ Control'
           /\ Left' = (IF Left > 0 THEN Left - 1 ELSE 0)
           /\ Activating' = (IF Activating > 0 THEN Activating - 1 ELSE 0)
           /\ Ending' = (IF Ending > 0 THEN Ending - 1 ELSE 0)
<1>1. /\ Control' /\ Len(todo') = Len(todo) - 1 /\ Len(todo) \in Nat /\ Len(todo) > 0
      /\ todo' # <<>> => todo'[Len(todo')] = todo[Len(todo)]
  BY TailOfSuffix, ProgramSteps DEF Control
<1>2. ASSUME NEW label PROVE StepsTo(label)' = (IF StepsTo(label) > 0 THEN StepsTo(label) - 1 ELSE 0)
  <2>1. CASE todo' = <<>>
    <3>1. Len(todo) = 1
      BY <1>1, <2>1
    <3>2. StepsTo(label)' = 0 /\ (StepsTo(label) = 0 \/ StepsTo(label) = 1)
      BY <2>1, <3>1 DEF StepsTo
    <3>3. QED
      BY <3>2
  <2>2. CASE todo' # <<>>
    BY <1>1, <2>2 DEF StepsTo
  <2>3. QED
    BY <2>1, <2>2
<1>3. QED
  BY <1>1, <1>2 DEF Left, Activating, Ending

LEMMA LaunchAgain ==
    ASSUME todo' = Launch
    PROVE  Control' /\ Left' = 10 /\ Activating' = 0 /\ Ending' = 0
<1>1. Launch \in Seq(Label) /\ Launch # <<>>
  BY DEF Launch, Label
<1>2. Suffix(Launch, Launch)
  BY ProgramSteps DEF Suffix
<1>3. Left' = 10 /\ Activating' = 0 /\ Ending' = 0
  BY <1>1, ProgramSteps DEF Left, Activating, Ending, StepsTo
<1>4. QED
  BY <1>1, <1>2, <1>3 DEF Control

LEMMA JoinedPrograms ==
    /\ Start \o <<"deleteTimestamp">> = <<"start", "captureInit", "capture", "deleteTimestamp">>
    /\ End \o Start \o <<"deleteTimestamp">> = Activation
    /\ End \o <<"deleteTimestamp", "exit">> = Termination
<1> DEFINE A == <<"start", "captureInit", "capture", "deleteTimestamp">>
           B == <<"deleteTimestamp">>
           C == <<"deleteTimestamp", "exit">>
<1>1. /\ A \in Seq(Label) /\ B \in Seq(Label) /\ C \in Seq(Label) /\ Start \in Seq(Label) /\ End \in Seq(Label)
      /\ Activation \in Seq(Label) /\ Termination \in Seq(Label)
  BY DEF Start, End, Activation, Termination, Label
<1>2. Len(A) = 4 /\ A[1] = "start" /\ A[2] = "captureInit" /\ A[3] = "capture" /\ A[4] = "deleteTimestamp"
  OBVIOUS
<1>3. Len(B) = 1 /\ B[1] = "deleteTimestamp" /\ Len(C) = 2 /\ C[1] = "deleteTimestamp" /\ C[2] = "exit"
  OBVIOUS
<1>4. /\ Len(Start) = 3 /\ Start[1] = "start" /\ Start[2] = "captureInit" /\ Start[3] = "capture"
      /\ Len(End) = 2 /\ End[1] = "end" /\ End[2] = "capture"
  BY DEF Start, End
<1> HIDE DEF A, B, C
<1>5. Start \o B = A
  <2>1. Start \o B \in Seq(Label)
    BY <1>1, ConcatProperties
  <2>2. Len(Start \o B) = Len(Start) + Len(B)
    BY <1>1, ConcatProperties
  <2>3. \A i \in 1 .. (Len(Start) + Len(B)) : (Start \o B)[i] = IF i <= Len(Start) THEN Start[i] ELSE B[i - Len(Start)]
    BY <1>1, ConcatProperties
  <2>4. PICK s : s = Start \o B
    OBVIOUS
  <2>5. s \in Seq(Label) /\ Len(s) = 4 /\ \A i \in 1 .. 4 : s[i] = IF i <= 3 THEN Start[i] ELSE B[i - 3]
    BY <1>3, <1>4, <2>1, <2>2, <2>3, <2>4
  <2>6. \A i \in 1 .. 4 : s[i] = A[i]
    BY <1>2, <1>3, <1>4, <2>5
  <2>7. QED
    BY <1>2, <1>1, <2>4, <2>5, <2>6, SeqEqual
<1>6. PICK es : es = End \o Start
  OBVIOUS
<1>7. es \in Seq(Label) /\ Len(es) = 5 /\ \A i \in 1 .. 5 : es[i] = Activation[i]
  <2>1. End \o Start \in Seq(Label)
    BY <1>1, ConcatProperties
  <2>2. Len(End \o Start) = Len(End) + Len(Start)
    BY <1>1, ConcatProperties
  <2>3. \A i \in 1 .. (Len(End) + Len(Start)) : (End \o Start)[i] = IF i <= Len(End) THEN End[i] ELSE Start[i - Len(End)]
    BY <1>1, ConcatProperties
  <2>4. es \in Seq(Label) /\ Len(es) = 5 /\ \A i \in 1 .. 5 : es[i] = IF i <= 2 THEN End[i] ELSE Start[i - 2]
    BY <1>4, <1>6, <2>1, <2>2, <2>3
  <2>5. QED
    BY <1>4, <2>4, ProgramSteps
<1>8. es \o B = Activation
  <2>1. es \o B \in Seq(Label)
    BY <1>1, <1>7, ConcatProperties
  <2>2. Len(es \o B) = Len(es) + Len(B)
    BY <1>1, <1>7, ConcatProperties
  <2>3. \A i \in 1 .. (Len(es) + Len(B)) : (es \o B)[i] = IF i <= Len(es) THEN es[i] ELSE B[i - Len(es)]
    BY <1>1, <1>7, ConcatProperties
  <2>4. PICK s : s = es \o B
    OBVIOUS
  <2>5. s \in Seq(Label) /\ Len(s) = 6 /\ \A i \in 1 .. 6 : s[i] = IF i <= 5 THEN es[i] ELSE B[i - 5]
    BY <1>3, <1>4, <1>7, <2>1, <2>2, <2>3, <2>4
  <2>6. \A i \in 1 .. 6 : s[i] = Activation[i]
    BY ProgramSteps, <1>3, <1>4, <1>7, <2>5
  <2>7. QED
    BY ProgramSteps, <1>1, <1>7, <2>4, <2>5, <2>6, SeqEqual
<1>9. End \o C = Termination
  <2>1. End \o C \in Seq(Label)
    BY <1>1, ConcatProperties
  <2>2. Len(End \o C) = Len(End) + Len(C)
    BY <1>1, ConcatProperties
  <2>3. \A i \in 1 .. (Len(End) + Len(C)) : (End \o C)[i] = IF i <= Len(End) THEN End[i] ELSE C[i - Len(End)]
    BY <1>1, ConcatProperties
  <2>4. PICK s : s = End \o C
    OBVIOUS
  <2>5. s \in Seq(Label) /\ Len(s) = 4 /\ \A i \in 1 .. 4 : s[i] = IF i <= 2 THEN End[i] ELSE C[i - 2]
    BY <1>3, <1>4, <2>1, <2>2, <2>3, <2>4
  <2>6. \A i \in 1 .. 4 : s[i] = Termination[i]
    BY ProgramSteps, <1>3, <1>4, <2>5
  <2>7. QED
    BY ProgramSteps, <1>1, <2>4, <2>5, <2>6, SeqEqual
<1>10. QED
  BY <1>5, <1>6, <1>8, <1>9 DEF A, B, C

LEMMA ActivationStarts ==
    ASSUME todo' \in ActivationWork
    PROVE  /\ Control' /\ Left' = 0 /\ Ending' = 0
           /\ Activating' \in (IF lastInForeground THEN {6, 1} ELSE {4})
<1> DEFINE A == <<"start", "captureInit", "capture", "deleteTimestamp">>
           B == <<"deleteTimestamp">>
<1>1. ActivationWork = {IF ~lastInForeground THEN A ELSE IF long THEN Activation ELSE B : long \in BOOLEAN}
  BY JoinedPrograms DEF ActivationWork
<1>3. todo' \in (IF lastInForeground THEN {Activation, B} ELSE {A})
  BY <1>1
<1>4. A \in Seq(Label) /\ B \in Seq(Label) /\ Activation \in Seq(Label)
  BY DEF Activation, Label
<1>5. Len(A) = 4 /\ A[1] = "start" /\ A[2] = "captureInit" /\ A[3] = "capture" /\ A[4] = "deleteTimestamp" /\ A # <<>>
  OBVIOUS
<1>6. Len(B) = 1 /\ B[1] = "deleteTimestamp" /\ B # <<>>
  OBVIOUS
<1>7. Activation # <<>>
  BY DEF Activation
<1> HIDE DEF A, B
<1>8. Suffix(A, Activation)
  BY <1>5, ProgramSteps DEF Suffix
<1>9. Suffix(B, Activation)
  BY <1>6, ProgramSteps DEF Suffix
<1>10. Suffix(Activation, Activation)
  BY ProgramSteps DEF Suffix
<1>11. CASE todo' = A /\ ~lastInForeground
  <2>1. Left' = 0 /\ Activating' = 4 /\ Ending' = 0
    BY <1>5, <1>11 DEF Left, Activating, Ending, StepsTo
  <2>2. QED
    BY <1>4, <1>8, <1>11, <2>1 DEF Control
<1>12. CASE todo' = B /\ lastInForeground
  <2>1. Left' = 0 /\ Activating' = 1 /\ Ending' = 0
    BY <1>6, <1>12 DEF Left, Activating, Ending, StepsTo
  <2>2. QED
    BY <1>4, <1>9, <1>12, <2>1 DEF Control
<1>13. CASE todo' = Activation /\ lastInForeground
  <2>1. Left' = 0 /\ Activating' = 6 /\ Ending' = 0
    BY <1>7, <1>13, ProgramSteps DEF Left, Activating, Ending, StepsTo
  <2>2. QED
    BY <1>4, <1>10, <1>13, <2>1 DEF Control
<1>14. QED
  BY <1>3, <1>11, <1>12, <1>13

LEMMA TerminationStarts ==
    ASSUME todo' = End \o <<"deleteTimestamp", "exit">>
    PROVE  Control' /\ Left' = 0 /\ Activating' = 0 /\ Ending' = 4
<1>1. todo' = Termination
  BY JoinedPrograms
<1>2. Termination \in Seq(Label) /\ Termination # <<>>
  BY DEF Termination, Label
<1>3. Suffix(Termination, Termination)
  BY ProgramSteps DEF Suffix
<1>4. Left' = 0 /\ Activating' = 0 /\ Ending' = 4
  BY <1>1, <1>2, ProgramSteps DEF Left, Activating, Ending, StepsTo
<1>5. QED
  BY <1>1, <1>2, <1>3, <1>4 DEF Control

LEMMA TailElements ==
    ASSUME NEW S, NEW s \in Seq(S), s # <<>>
    PROVE  \A i \in 1 .. Len(s) - 1 : Tail(s)[i] = s[i + 1]
  OBVIOUS

\* sendAllReports may skip the step of waiting.
LEMMA SendSteps ==
    ASSUME Control, SendReports
    PROVE  Control' /\ Left = 6 /\ Left' \in {5, 4} /\ Activating' = 0 /\ Ending' = 0
<1>1. At("sendReports") /\ todo # <<>> /\ (todo' = Tail(todo) \/ todo' = Tail(Tail(todo)))
  BY DEF SendReports, At
<1>2. Left = 6 /\ Activating = 0 /\ Ending = 0
  BY <1>1, AtLabel
<1>3. CASE todo' = Tail(todo)
  BY <1>1, <1>2, <1>3, StepForward
<1>4. CASE todo' = Tail(Tail(todo))
  <2>1. Len(todo) = 6 /\ todo[6] = "capture" /\ todo \in Seq(Label)
    BY <1>2 DEF Left, StepsTo, Control
  <2>2. PICK t : t = Tail(todo)
    OBVIOUS
  <2>3. t \in Seq(Label) /\ Len(t) = 5 /\ t[5] = "capture" /\ t # <<>>
    <3>1. \A i \in 1 .. Len(todo) - 1 : Tail(todo)[i] = todo[i + 1]
      BY <1>1, <2>1, TailElements
    <3>2. 5 \in 1 .. Len(todo) - 1 /\ 5 + 1 = 6
      BY <2>1
    <3>3. t \in Seq(Label) /\ Len(t) = 5
      BY <1>1, <2>1, <2>2
    <3>4. t # <<>>
      BY <3>3
    <3>5. QED
      BY <2>1, <2>2, <3>1, <3>2, <3>3, <3>4
  <2>4. Tail(t) \in Seq(Label) /\ Len(Tail(t)) = 4 /\ Tail(t)[4] = "capture" /\ Tail(t) # <<>>
    <3>1. \A i \in 1 .. Len(t) - 1 : Tail(t)[i] = t[i + 1]
      BY <2>3, TailElements
    <3>2. 4 \in 1 .. Len(t) - 1 /\ 4 + 1 = 5
      BY <2>3
    <3>3. Tail(t) \in Seq(Label) /\ Len(Tail(t)) = 4
      <4>1. Tail(t) \in Seq(Label) /\ Len(Tail(t)) = Len(t) - 1
        BY <2>3
      <4>2. QED
        BY <2>3, <4>1
    <3>4. Tail(t) # <<>>
      <4>1. Len(<<>>) = 0 /\ 4 # 0
        OBVIOUS
      <4>2. QED
        BY <3>3, <4>1, Zenon
    <3>5. QED
      BY <2>3, <3>1, <3>2, <3>3, <3>4
  <2>5. Suffix(Tail(t), Launch) \/ Suffix(Tail(t), Activation) \/ Suffix(Tail(t), Termination)
    <3>1. Suffix(t, Launch) \/ Suffix(t, Activation) \/ Suffix(t, Termination)
      BY <1>1, <2>1, <2>2, TailOfSuffix, ProgramSteps DEF Control
    <3>2. QED
      BY <2>3, <3>1, TailOfSuffix, ProgramSteps
  <2>6. todo' = Tail(t)
    BY <1>4, <2>2
  <2>7. Left' = 4 /\ Activating' = 0 /\ Ending' = 0
    BY <2>4, <2>6 DEF Left, Activating, Ending, StepsTo
  <2>8. QED
    BY <1>2, <2>4, <2>5, <2>6, <2>7 DEF Control
<1>5. QED
  BY <1>1, <1>3, <1>4

\* A step that leaves todo alone.
LEMMA StaysAt ==
    ASSUME Control, UNCHANGED todo
    PROVE  Control' /\ Left' = Left /\ Activating' = Activating /\ Ending' = Ending
  BY DEF Control, Left, Activating, Ending, StepsTo

(* How the actions move the main thread, in terms of the three counters.   *)
From(left, activating, ending) == Left = left /\ Activating = activating /\ Ending = ending
To(left, activating, ending) ==
    Control' /\ Left' = left /\ Activating' = activating /\ Ending' = ending

LEMMA Progress ==
    ASSUME Control, NEW label, Doing(label)
    PROVE  At(label) /\ Control'
           /\ Left' = (IF Left > 0 THEN Left - 1 ELSE 0)
           /\ Activating' = (IF Activating > 0 THEN Activating - 1 ELSE 0)
           /\ Ending' = (IF Ending > 0 THEN Ending - 1 ELSE 0)
<1>1. At(label) /\ todo # <<>> /\ todo' = Tail(todo)
  BY DEF Doing, At
<1>2. QED
  BY <1>1, StepForward

LEMMA LaunchMoves ==
    ASSUME Control
    PROVE
        /\ (Boot => From(10, 0, 0) /\ To(9, 0, 0))
        /\ (Install => From(9, 0, 0) /\ To(8, 0, 0))
        /\ (EndCrashedSession => From(8, 0, 0) /\ To(7, 0, 0))
        /\ (DeleteCurrent => From(7, 0, 0) /\ To(6, 0, 0))
        /\ (AwaitReports => From(5, 0, 0) /\ To(4, 0, 0))
        /\ (StoreAppState => From(4, 0, 0) /\ To(3, 0, 0))
        /\ (EndCachedSession => From(3, 0, 0) /\ To(2, 0, 0))
        /\ (CloseCachedSession => From(2, 0, 0) /\ To(1, 0, 0))
        /\ (SendReports => From(6, 0, 0) /\ (To(5, 0, 0) \/ To(4, 0, 0)))
<1>1. Boot => From(10, 0, 0) /\ To(9, 0, 0)
  <2>1. Boot => Doing("boot")
    BY DEF Boot
  <2>2. QED
    BY <2>1, Progress, AtLabel DEF From, To
<1>2. Install => From(9, 0, 0) /\ To(8, 0, 0)
  <2>1. Install => Doing("install")
    BY DEF Install
  <2>2. QED
    BY <2>1, Progress, AtLabel DEF From, To
<1>3. EndCrashedSession => From(8, 0, 0) /\ To(7, 0, 0)
  <2>1. EndCrashedSession => Doing("endCrashed")
    BY DEF EndCrashedSession
  <2>2. QED
    BY <2>1, Progress, AtLabel DEF From, To
<1>4. DeleteCurrent => From(7, 0, 0) /\ To(6, 0, 0)
  <2>1. DeleteCurrent => Doing("deleteCurrent")
    BY DEF DeleteCurrent
  <2>2. QED
    BY <2>1, Progress, AtLabel DEF From, To
<1>5. AwaitReports => From(5, 0, 0) /\ To(4, 0, 0)
  <2>1. AwaitReports => Doing("awaitReports")
    BY DEF AwaitReports
  <2>2. QED
    BY <2>1, Progress, AtLabel DEF From, To
<1>6. StoreAppState => From(4, 0, 0) /\ To(3, 0, 0)
  <2>1. StoreAppState => Doing("storeAppState")
    BY DEF StoreAppState
  <2>2. QED
    BY <2>1, Progress, AtLabel DEF From, To
<1>7. EndCachedSession => From(3, 0, 0) /\ To(2, 0, 0)
  <2>1. EndCachedSession => Doing("endCached")
    BY DEF EndCachedSession
  <2>2. QED
    BY <2>1, Progress, AtLabel DEF From, To
<1>8. CloseCachedSession => From(2, 0, 0) /\ To(1, 0, 0)
  <2>1. CloseCachedSession => Doing("closeCached")
    BY DEF CloseCachedSession
  <2>2. QED
    BY <2>1, Progress, AtLabel DEF From, To
<1>9. SendReports => From(6, 0, 0) /\ (To(5, 0, 0) \/ To(4, 0, 0))
  <2>1. SendReports => At("sendReports")
    BY DEF SendReports
  <2>2. QED
    BY <2>1, SendSteps, AtLabel DEF From, To
<1>10. QED
  BY <1>1, <1>2, <1>3, <1>4, <1>5, <1>6, <1>7, <1>8, <1>9

LEMMA SessionMoves ==
    ASSUME Control
    PROVE
        /\ (CaptureMine => \/ (From(1, 0, 0) /\ To(0, 0, 0))
                           \/ (From(0, 5, 0) /\ To(0, 4, 0))
                           \/ (From(0, 2, 0) /\ To(0, 1, 0))
                           \/ (From(0, 0, 3) /\ To(0, 0, 2)))
        /\ (StartSession => \/ (From(0, 4, 0) /\ To(0, 3, 0)))
        /\ (CaptureInit => \/ (From(0, 3, 0) /\ To(0, 2, 0)))
        /\ (EndSession => \/ (From(0, 6, 0) /\ To(0, 5, 0))
                          \/ (From(0, 0, 4) /\ To(0, 0, 3)))
        /\ (DeleteTimestamp => \/ (From(0, 1, 0) /\ To(0, 0, 0))
                               \/ (From(0, 0, 2) /\ To(0, 0, 1)))
<1>1. CaptureMine => \/ (From(1, 0, 0) /\ To(0, 0, 0))
                    \/ (From(0, 5, 0) /\ To(0, 4, 0))
                    \/ (From(0, 2, 0) /\ To(0, 1, 0))
                    \/ (From(0, 0, 3) /\ To(0, 0, 2))
  <2>1. CaptureMine => Doing("capture")
    BY DEF CaptureMine
  <2>2. QED
    BY <2>1, Progress, AtLabel DEF From, To
<1>2. StartSession => \/ (From(0, 4, 0) /\ To(0, 3, 0))
  <2>1. StartSession => Doing("start")
    BY DEF StartSession
  <2>2. QED
    BY <2>1, Progress, AtLabel DEF From, To
<1>3. CaptureInit => \/ (From(0, 3, 0) /\ To(0, 2, 0))
  <2>1. CaptureInit => Doing("captureInit")
    BY DEF CaptureInit
  <2>2. QED
    BY <2>1, Progress, AtLabel DEF From, To
<1>4. EndSession => \/ (From(0, 6, 0) /\ To(0, 5, 0))
                   \/ (From(0, 0, 4) /\ To(0, 0, 3))
  <2>1. EndSession => Doing("end")
    BY DEF EndSession
  <2>2. QED
    BY <2>1, Progress, AtLabel DEF From, To
<1>5. DeleteTimestamp => \/ (From(0, 1, 0) /\ To(0, 0, 0))
                        \/ (From(0, 0, 2) /\ To(0, 0, 1))
  <2>1. DeleteTimestamp => Doing("deleteTimestamp")
    BY DEF DeleteTimestamp
  <2>2. QED
    BY <2>1, Progress, AtLabel DEF From, To
<1>6. QED
  BY <1>1, <1>2, <1>3, <1>4, <1>5

LEMMA OtherMoves ==
    ASSUME Control
    PROVE
        /\ (DidBecomeActive => /\ From(0, 0, 0)
                               /\ \/ To(0, 0, 0)
                                  \/ To(0, 6, 0) /\ lastInForeground
                                  \/ To(0, 1, 0) /\ lastInForeground
                                  \/ To(0, 4, 0) /\ ~lastInForeground)
        /\ (WillResignActive => From(0, 0, 0) /\ To(0, 0, 0))
        /\ (WillTerminate => From(0, 0, 0) /\ To(0, 0, 4))
        /\ (Exits => Ending = 1)
        /\ (Killed \/ Crashes \/ Exits => To(10, 0, 0))
<1>1. DidBecomeActive => /\ From(0, 0, 0)
                         /\ \/ To(0, 0, 0)
                            \/ To(0, 6, 0) /\ lastInForeground
                            \/ To(0, 1, 0) /\ lastInForeground
                            \/ To(0, 4, 0) /\ ~lastInForeground
  <2> SUFFICES ASSUME DidBecomeActive
               PROVE  /\ From(0, 0, 0)
                      /\ \/ To(0, 0, 0)
                         \/ To(0, 6, 0) /\ lastInForeground
                         \/ To(0, 1, 0) /\ lastInForeground
                         \/ To(0, 4, 0) /\ ~lastInForeground
    OBVIOUS
  <2>1. todo = <<>> /\ (UNCHANGED todo \/ todo' \in ActivationWork)
    BY DEF DidBecomeActive, Notified
  <2>2. From(0, 0, 0)
    BY <2>1, AtLabel DEF From
  <2>3. CASE UNCHANGED todo
    BY <2>2, <2>3, StaysAt DEF From, To
  <2>4. CASE todo' \in ActivationWork
    BY <2>2, <2>4, ActivationStarts DEF To
  <2>5. QED
    BY <2>1, <2>2, <2>3, <2>4
<1>2. WillResignActive => From(0, 0, 0) /\ To(0, 0, 0)
  <2>1. WillResignActive => todo = <<>> /\ UNCHANGED todo
    BY DEF WillResignActive, Notified
  <2>2. QED
    BY <2>1, AtLabel, StaysAt DEF From, To
<1>3. WillTerminate => From(0, 0, 0) /\ To(0, 0, 4)
  <2>1. WillTerminate => todo = <<>> /\ todo' = End \o <<"deleteTimestamp", "exit">>
    BY DEF WillTerminate
  <2>2. QED
    BY <2>1, AtLabel, TerminationStarts DEF From, To
<1>4. Exits => Ending = 1
  BY AtLabel DEF Exits
<1>5. Killed \/ Crashes \/ Exits => To(10, 0, 0)
  <2>1. Killed \/ Crashes \/ Exits => todo' = Launch
    BY DEF Killed, Crashes, Exits, Dies, Started
  <2>2. QED
    BY <2>1, LaunchAgain DEF To
<1>6. QED
  BY <1>1, <1>2, <1>3, <1>4, <1>5

(* The steps that leave the main thread where it is.                       *)
LEMMA SideSteps ==
    ASSUME Control,
           UpdateAppState \/ CaptureError \/ CheckWatchdog \/ DeleteAllReports
             \/ (\E q \in Queue : WorkStep(q)) \/ Rest \/ UNCHANGED vars
    PROVE  Control' /\ Left' = Left /\ Activating' = Activating /\ Ending' = Ending /\ UNCHANGED todo
<1>1. UNCHANGED todo
  BY DEF UpdateAppState, CaptureError, CheckWatchdog, DeleteAllReports, WorkStep, CaptureCrashEvent,
         EventWithoutSession, DeleteCrashedSession, Rest, vars
<1>2. QED
  BY <1>1, StaysAt

----------------------------------------------------------------------------
(* What the operations of SentrySession return.                            *)
LEMMA SessionFacts ==
    /\ NoSession \in MaybeSession /\ NoSession.sid = 0 /\ NoSession.status = "ok"
    /\ \A s \in Session : s # NoSession /\ s.sid \in Nat \ {0} /\ s.seq \in Nat \ {0} /\ s.status \in Status
    /\ \A sid \in Nat \ {0} : /\ NewSession(sid, 0) \in Session /\ NewSession(sid, 0).sid = sid
                              /\ NewSession(sid, 0).seq = 1 /\ NewSession(sid, 0).status = "ok"
BY DEF NoSession, MaybeSession, Session, Status, NewSession

LEMMA ChangedFacts ==
    ASSUME NEW s \in Session
    PROVE  /\ Changed(s) \in Session /\ Changed(s).sid = s.sid
           /\ Changed(s).status = s.status /\ Changed(s).seq = s.seq + 1
<1> DEFINE later == [s EXCEPT !.init = FALSE]
<1>1. later \in Session /\ later.seq = s.seq
  BY DEF Session
<1>2. Changed(s) = [later EXCEPT !.seq = s.seq + 1]
  BY <1>1 DEF Changed
<1>3. Changed(s) \in Session
  <2> HIDE DEF later
  <2>1. s.seq + 1 \in Nat \ {0}
    BY DEF Session
  <2>2. QED
    BY <1>1, <1>2, <2>1 DEF Session
<1>4. QED
  BY <1>3 DEF Changed, Session

IsUpdate(x, s, status) ==
    x \in Session /\ x.sid = s.sid /\ x.seq = s.seq + 1 /\ x.status = status

LEMMA Updates ==
    ASSUME NEW s \in Session
    PROVE  /\ IsUpdate(EndExited(s), s, "exited")
           /\ IsUpdate(EndCrashed(s), s, "crashed")
           /\ IsUpdate(EndAbnormal(s), s, "abnormal")
           /\ IsUpdate(IncrementErrors(s), s, s.status)
<1>1. PICK c \in Session : c = Changed(s)
  BY ChangedFacts
<1>2. c.sid = s.sid /\ c.seq = s.seq + 1 /\ c.status = s.status
  BY <1>1, ChangedFacts
<1>3. [c EXCEPT !.status = "exited"] \in Session /\ [c EXCEPT !.status = "crashed"] \in Session
      /\ [c EXCEPT !.status = "abnormal"] \in Session
  BY DEF Session, Status
<1>4. [c EXCEPT !.errors = c.errors + 1] \in Session
  BY DEF Session
<1>5. /\ EndExited(s) = [c EXCEPT !.status = "exited"] /\ EndCrashed(s) = [c EXCEPT !.status = "crashed"]
      /\ EndAbnormal(s) = [c EXCEPT !.status = "abnormal"]
      /\ IncrementErrors(s) = [c EXCEPT !.errors = c.errors + 1]
  BY <1>1 DEF EndExited, EndCrashed, EndAbnormal, IncrementErrors
<1>6. IsUpdate(EndExited(s), s, "exited")
  BY <1>2, <1>3, <1>5 DEF IsUpdate, Session
<1>7. IsUpdate(EndCrashed(s), s, "crashed")
  BY <1>2, <1>3, <1>5 DEF IsUpdate, Session
<1>8. IsUpdate(EndAbnormal(s), s, "abnormal")
  BY <1>2, <1>3, <1>5 DEF IsUpdate, Session
<1>9. IsUpdate(IncrementErrors(s), s, s.status)
  BY <1>2, <1>4, <1>5 DEF IsUpdate, Session
<1>10. QED
  BY <1>6, <1>7, <1>8, <1>9

LEMMA LastSessionFacts ==
    ASSUME session \in MaybeSession
    PROVE  /\ LastSession \in MaybeSession
           /\ session = NoSession => LastSession = NoSession
           /\ session # NoSession => IsUpdate(LastSession, session, "exited")
<1>1. CASE session = NoSession
  BY <1>1, SessionFacts DEF LastSession
<1>2. CASE session # NoSession
  <2>1. session \in Session
    BY <1>2 DEF MaybeSession
  <2>2. IsUpdate(LastSession, session, "exited")
    BY <1>2, <2>1, Updates DEF LastSession
  <2>3. QED
    BY <1>2, <2>2 DEF IsUpdate, MaybeSession
<1>3. QED
  BY <1>1, <1>2

----------------------------------------------------------------------------
(* Every step keeps the types.                                             *)
LEMMA TypedSessions ==
    ASSUME RecoveryTyped, [Next]_vars
    PROVE  /\ session' \in MaybeSession /\ mine' \in MaybeSession
           /\ currentFile' \in MaybeSession /\ crashedFile' \in MaybeSession
           /\ nextSid' \in Nat \ {0}
<1> USE SessionFacts DEF RecoveryTyped
<1>1. CASE \/ Boot \/ Install \/ SendReports \/ AwaitReports \/ StoreAppState \/ EndCachedSession
           \/ CaptureInit \/ DeleteTimestamp
  BY <1>1 DEF Boot, Install, SendReports, AwaitReports, StoreAppState, EndCachedSession,
              CaptureInit, DeleteTimestamp, memory, history, files
<1>2. CASE \/ DidBecomeActive \/ WillResignActive \/ WillTerminate \/ UpdateAppState \/ CheckWatchdog
           \/ DeleteAllReports \/ Rest \/ UNCHANGED vars
  BY <1>2 DEF DidBecomeActive, WillResignActive, WillTerminate, UpdateAppState, CheckWatchdog,
              DeleteAllReports, Rest, vars, memory, history, files
<1>3. CASE EndCrashedSession
  <2>1. crashedFile' = crashedFile \/ (currentFile # NoSession /\ crashedFile' = EndCrashed(currentFile))
    BY <1>3 DEF EndCrashedSession, MustEndAsCrashed
  <2>2. currentFile # NoSession => EndCrashed(currentFile) \in Session
    BY Updates DEF MaybeSession, IsUpdate
  <2>3. crashedFile' \in MaybeSession
    BY <2>1, <2>2 DEF MaybeSession
  <2>4. QED
    BY <1>3, <2>3 DEF EndCrashedSession, memory
<1>4. CASE DeleteCurrent
  BY <1>4 DEF DeleteCurrent, CurrentAfterCrash, memory, history
<1>5. CASE CloseCachedSession
  <2>1. currentFile # NoSession => EndExited(currentFile) \in Session /\ EndAbnormal(currentFile) \in Session
    BY Updates DEF MaybeSession, IsUpdate
  <2>2. mine' \in MaybeSession
    BY <1>5, <2>1 DEF CloseCachedSession, MayClose, MaybeSession
  <2>3. QED
    BY <1>5, <2>2 DEF CloseCachedSession, history
<1>6. CASE CaptureMine
  BY <1>6 DEF CaptureMine, files
<1>7. CASE StartSession
  <2>1. NewSession(nextSid, 0) \in MaybeSession /\ nextSid + 1 \in Nat \ {0}
    BY DEF MaybeSession
  <2>2. QED
    BY <1>7, <2>1, LastSessionFacts DEF StartSession
<1>8. CASE EndSession
  BY <1>8, LastSessionFacts DEF EndSession, history
<1>9. CASE CaptureError
  <2>1. session # NoSession => IncrementErrors(session) \in Session
    BY Updates DEF MaybeSession, IsUpdate
  <2>2. QED
    BY <1>9, <2>1 DEF CaptureError, MaybeSession
<1>10. ASSUME NEW q \in Queue, WorkStep(q)
       PROVE  /\ session' \in MaybeSession /\ mine' \in MaybeSession
              /\ currentFile' \in MaybeSession /\ crashedFile' \in MaybeSession
              /\ nextSid' \in Nat \ {0}
  BY <1>10 DEF WorkStep, CaptureCrashEvent, EventWithoutSession, DeleteCrashedSession, files, memory, history
<1>11. CASE Killed \/ Crashes \/ Exits
  BY <1>11 DEF Killed, Crashes, Exits, Dies, Started
<1>12. QED
  BY <1>1, <1>2, <1>3, <1>4, <1>5, <1>6, <1>7, <1>8, <1>9, <1>10, <1>11 DEF Next, MainStep

LEMMA TypedStates ==
    ASSUME RecoveryTyped, [Next]_vars
    PROVE  /\ appState' \in AppState /\ previousAppState' \in AppState
           /\ lastInForeground' \in BOOLEAN /\ foreground' \in BOOLEAN
           /\ stateUpdates' \in Seq(BOOLEAN)
<1> USE DEF RecoveryTyped
<1>1. CASE \/ EndCrashedSession \/ DeleteCurrent \/ SendReports \/ AwaitReports
           \/ CloseCachedSession \/ CaptureMine \/ StartSession \/ CaptureInit \/ EndSession
  BY <1>1 DEF EndCrashedSession, DeleteCurrent, SendReports, AwaitReports,
              CloseCachedSession, CaptureMine, StartSession, CaptureInit, EndSession, files, environment
<1>2. CASE \/ Install \/ CaptureError \/ CheckWatchdog \/ DeleteAllReports \/ Rest \/ UNCHANGED vars
  BY <1>2 DEF Install, CaptureError, CheckWatchdog, DeleteAllReports, Rest, vars, files, environment
<1>3. ASSUME NEW q \in Queue, WorkStep(q)
      PROVE  UNCHANGED <<appState, previousAppState, lastInForeground, foreground, stateUpdates>>
  BY <1>3 DEF WorkStep, CaptureCrashEvent, EventWithoutSession, DeleteCrashedSession, files, environment
<1>4. NoState \in AppState /\ FreshState \in AppState
  BY DEF NoState, FreshState, AppState
<1>5. CASE Boot
  BY <1>4, <1>5 DEF Boot, environment
<1>6. CASE StoreAppState
  BY <1>4, <1>6 DEF StoreAppState, environment
<1>7. CASE EndCachedSession \/ DeleteTimestamp
  BY <1>7 DEF EndCachedSession, DeleteTimestamp, environment
<1>8. CASE DidBecomeActive
  <2>1. stateUpdates' = stateUpdates \/ stateUpdates' = Append(stateUpdates, TRUE)
    BY <1>8 DEF DidBecomeActive, QueueUpdate
  <2>2. stateUpdates' \in Seq(BOOLEAN)
    BY <2>1, AppendProperties, ZenonT(60)
  <2>3. foreground' = TRUE /\ UNCHANGED <<appState, previousAppState, lastInForeground>>
    BY <1>8 DEF DidBecomeActive, files
  <2>4. QED
    BY <2>2, <2>3
<1>9. CASE WillResignActive
  <2>1. stateUpdates' = stateUpdates \/ stateUpdates' = Append(stateUpdates, FALSE)
    BY <1>9 DEF WillResignActive, QueueUpdate
  <2>2. stateUpdates' \in Seq(BOOLEAN)
    BY <2>1, AppendProperties, ZenonT(60)
  <2>3. foreground' = FALSE /\ lastInForeground' = TRUE /\ UNCHANGED <<appState, previousAppState>>
    BY <1>9 DEF WillResignActive
  <2>4. QED
    BY <2>2, <2>3
<1>10. CASE WillTerminate
  <2>1. [appState EXCEPT !.wasTerminated = TRUE] \in AppState
    BY DEF AppState
  <2>2. QED
    BY <1>10, <2>1 DEF WillTerminate, environment
<1>11. CASE UpdateAppState
  <2>1. stateUpdates # <<>> /\ stateUpdates' = Tail(stateUpdates)
    BY <1>11 DEF UpdateAppState
  <2>2. Head(stateUpdates) \in BOOLEAN /\ Tail(stateUpdates) \in Seq(BOOLEAN)
    BY <2>1
  <2>3. PICK b \in BOOLEAN : b = Head(stateUpdates)
    BY <2>2
  <2>4. [appState EXCEPT !.isActive = b] \in AppState
    BY DEF AppState
  <2>5. appState' = appState \/ appState' = [appState EXCEPT !.isActive = b]
    BY <1>11, <2>3 DEF UpdateAppState
  <2>6. appState' \in AppState
    BY <2>4, <2>5
  <2>7. QED
    BY <1>11, <2>1, <2>2, <2>6 DEF UpdateAppState, environment
<1>12. CASE Killed \/ Crashes \/ Exits
  <2>1. stateUpdates' = <<>> /\ foreground' = FALSE
    BY <1>12 DEF Killed, Crashes, Exits, Dies, Started
  <2>2. UNCHANGED <<appState, previousAppState, lastInForeground>>
    BY <1>12 DEF Killed, Crashes, Exits, Dies
  <2>3. stateUpdates' \in Seq(BOOLEAN)
    BY <2>1
  <2>4. QED
    BY <2>1, <2>2, <2>3
<1>13. QED
  BY <1>1, <1>2, <1>3, <1>5, <1>6, <1>7, <1>8, <1>9, <1>10, <1>11, <1>12 DEF Next, MainStep

LEMMA TypedHistory ==
    ASSUME RecoveryTyped, [Next]_vars
    PROVE  reports' \in Nat /\ moves' \in Nat /\ fate' \in [Sids -> Fate] /\ lastDeath' \in Fate
<1> USE DEF RecoveryTyped
<1>1. CASE MainStep
  BY <1>1 DEF MainStep, Boot, Install, EndCrashedSession, DeleteCurrent, SendReports, AwaitReports,
              StoreAppState, EndCachedSession, CloseCachedSession, CaptureMine, StartSession, CaptureInit,
              EndSession, DeleteTimestamp, files, environment, history
<1>2. CASE DidBecomeActive \/ WillResignActive \/ CaptureError
  <2>1. moves' = moves + 1 /\ UNCHANGED <<reports, fate, lastDeath>>
    BY <1>2 DEF DidBecomeActive, WillResignActive, CaptureError, Notified, files, history
  <2>2. QED
    BY <2>1
<1>7. CASE \/ WillTerminate \/ UpdateAppState \/ CheckWatchdog \/ DeleteAllReports \/ Rest \/ UNCHANGED vars
  BY <1>7 DEF WillTerminate, UpdateAppState, CheckWatchdog, DeleteAllReports, Rest, vars, files,
              environment, history
<1>3. ASSUME NEW q \in Queue, WorkStep(q) PROVE UNCHANGED <<reports, moves, fate, lastDeath>>
  BY <1>3 DEF WorkStep, CaptureCrashEvent, EventWithoutSession, DeleteCrashedSession, files, environment, history
<1>4. ASSUME NEW how \in Fate, Dies(how)
      PROVE  moves' \in Nat /\ fate' \in [Sids -> Fate] /\ lastDeath' \in Fate
  BY <1>4 DEF Dies
<1>5. CASE Killed \/ Crashes \/ Exits
  <2>1. (\E how \in Fate : Dies(how)) /\ reports' \in {reports, reports + 1}
    BY <1>5 DEF Killed, Crashes, Exits, Fate
  <2>2. QED
    BY <1>4, <2>1
<1>6. QED
  BY <1>1, <1>2, <1>3, <1>5, <1>7 DEF Next

\* What is on a queue after a step of it.
LEMMA WorkAfter ==
    ASSUME work \in [Queue -> Seq(WorkLabel)], NEW q \in Queue, work[q] # <<>>,
           NEW more \in Seq(WorkLabel), WorkLeft(q, more)
    PROVE  /\ work' \in [Queue -> Seq(WorkLabel)]
           /\ work'[q] = more \o Tail(work[q])
           /\ \A r \in Queue : r # q => work'[r] = work[r]
<1>1. work[q] \in Seq(WorkLabel) /\ Tail(work[q]) \in Seq(WorkLabel)
  OBVIOUS
<1>2. more \o Tail(work[q]) \in Seq(WorkLabel)
  BY <1>1, ConcatProperties
<1>3. work' = [work EXCEPT ![q] = more \o Tail(work[q])]
  BY DEF WorkLeft
<1>4. QED
  BY <1>2, <1>3

\* The work of sending the crash reports.
ReportsWork(n) == [i \in 1 .. n |-> "event"] \o <<"deleteReports">>

LEMMA ReportsWorkType ==
    ASSUME NEW n \in Nat
    PROVE  /\ ReportsWork(n) \in Seq(WorkLabel) /\ Len(ReportsWork(n)) = n + 1
           /\ \A i \in 1 .. (n + 1) : ReportsWork(n)[i] = IF i <= n THEN "event" ELSE "deleteReports"
<1> DEFINE events == [i \in 1 .. n |-> "event"]
           last == <<"deleteReports">>
<1>1. events \in Seq(WorkLabel) /\ Len(events) = n
  BY DEF WorkLabel
<1>2. last \in Seq(WorkLabel) /\ Len(last) = 1 /\ last[1] = "deleteReports"
  BY DEF WorkLabel
<1>3. \A i \in 1 .. n : events[i] = "event"
  OBVIOUS
<1> HIDE DEF events, last
<1>4. events \o last \in Seq(WorkLabel)
  BY <1>1, <1>2, ConcatProperties
<1>5. Len(events \o last) = Len(events) + Len(last)
  BY <1>1, <1>2, ConcatProperties
<1>6. \A i \in 1 .. (Len(events) + Len(last)) :
          (events \o last)[i] = IF i <= Len(events) THEN events[i] ELSE last[i - Len(events)]
  BY <1>1, <1>2, ConcatProperties
<1>7. \A i \in 1 .. (n + 1) : (events \o last)[i] = IF i <= n THEN "event" ELSE "deleteReports"
  <2> SUFFICES ASSUME NEW i \in 1 .. (n + 1)
               PROVE  (events \o last)[i] = IF i <= n THEN "event" ELSE "deleteReports"
    OBVIOUS
  <2>1. (events \o last)[i] = IF i <= n THEN events[i] ELSE last[i - n]
    BY <1>1, <1>2, <1>6
  <2>2. i <= n \/ (i = n + 1 /\ i - n = 1)
    OBVIOUS
  <2>3. QED
    BY <1>2, <1>3, <2>1, <2>2
<1>8. ReportsWork(n) = events \o last
  BY DEF ReportsWork, events, last
<1>9. QED
  BY <1>1, <1>2, <1>4, <1>5, <1>7, <1>8

LEMMA TypedWork ==
    ASSUME RecoveryTyped, [Next]_vars
    PROVE  work' \in [Queue -> Seq(WorkLabel)]
<1> USE DEF RecoveryTyped
<1>1. CASE \/ Boot \/ Install \/ EndCrashedSession \/ DeleteCurrent \/ AwaitReports \/ EndCachedSession
           \/ CloseCachedSession \/ CaptureMine \/ StartSession \/ CaptureInit \/ EndSession \/ DeleteTimestamp
  BY <1>1 DEF Boot, Install, EndCrashedSession, DeleteCurrent, AwaitReports, EndCachedSession,
              CloseCachedSession, CaptureMine, StartSession, CaptureInit, EndSession, DeleteTimestamp
<1>2. CASE \/ DidBecomeActive \/ WillResignActive \/ WillTerminate \/ UpdateAppState \/ CaptureError
           \/ Rest \/ UNCHANGED vars
  BY <1>2 DEF DidBecomeActive, WillResignActive, WillTerminate, UpdateAppState, CaptureError, Rest, vars
<1>3. CASE SendReports
  <2>1. work' = work \/ work' = [work EXCEPT !["crash"] = ReportsWork(reports)]
    BY <1>3 DEF SendReports, ReportsWork
  <2>2. QED
    BY <2>1, ReportsWorkType
<1>4. CASE StoreAppState
  <2>1. <<"check">> \in Seq(WorkLabel)
    BY DEF WorkLabel
  <2>2. work' = work \/ work' = [work EXCEPT !["watchdog"] = <<"check">>]
    BY <1>4 DEF StoreAppState
  <2>3. QED
    BY <2>1, <2>2
<1>5. <<>> \in Seq(WorkLabel) /\ <<"event">> \in Seq(WorkLabel) /\ <<"deleteCrashed">> \in Seq(WorkLabel)
      /\ "crash" \in Queue /\ "watchdog" \in Queue
  BY DEF WorkLabel, Queue
<1>6. CASE CheckWatchdog
  BY <1>5, <1>6, WorkAfter DEF CheckWatchdog, NextWork
<1>7. CASE DeleteAllReports
  BY <1>5, <1>7, WorkAfter DEF DeleteAllReports, NextWork
<1>8. ASSUME NEW q \in Queue, WorkStep(q) PROVE work' \in [Queue -> Seq(WorkLabel)]
  <2>1. CASE CaptureCrashEvent(q)
    BY <1>5, <2>1, WorkAfter DEF CaptureCrashEvent, NextWork
  <2>2. CASE EventWithoutSession(q)
    BY <1>5, <2>2, WorkAfter DEF EventWithoutSession, NextWork
  <2>3. CASE DeleteCrashedSession(q)
    BY <1>5, <2>3, WorkAfter DEF DeleteCrashedSession, NextWork
  <2>4. QED
    BY <1>8, <2>1, <2>2, <2>3 DEF WorkStep
<1>9. CASE Killed \/ Crashes \/ Exits
  <2>1. work' = [q \in Queue |-> <<>>]
    BY <1>9 DEF Killed, Crashes, Exits, Dies, Started
  <2>2. QED
    BY <1>5, <2>1
<1>10. QED
  BY <1>1, <1>2, <1>3, <1>4, <1>6, <1>7, <1>8, <1>9 DEF Next, MainStep

LEMMA TypedNext ==
    ASSUME RecoveryTyped, [Next]_vars
    PROVE  RecoveryTyped'
  BY TypedSessions, TypedStates, TypedHistory, TypedWork DEF RecoveryTyped

----------------------------------------------------------------------------
(* App states.                                                             *)
LEMMA LastOfTail ==
    ASSUME NEW S, NEW s \in Seq(S), s # <<>>
    PROVE  /\ Tail(s) = <<>> => Head(s) = s[Len(s)]
           /\ Tail(s) # <<>> => Tail(s)[Len(Tail(s))] = s[Len(s)]
<1>1. Len(s) \in Nat /\ Len(s) > 0 /\ Head(s) = s[1] /\ Len(Tail(s)) = Len(s) - 1
  BY EmptySeq
<1>2. \A i \in 1 .. Len(s) - 1 : Tail(s)[i] = s[i + 1]
  BY TailElements
<1>3. CASE Tail(s) = <<>>
  <2>1. Len(s) = 1
    <3>1. PICK n : n = Len(s)
      OBVIOUS
    <3>2. Len(<<>>) = 0
      OBVIOUS
    <3>3. n - 1 = 0
      BY <1>1, <1>3, <3>1, <3>2, Zenon
    <3>4. n \in Nat
      BY <1>1, <3>1
    <3>5. n = 1
      BY <3>3, <3>4
    <3>6. QED
      BY <3>1, <3>5, Zenon
  <2>2. QED
    BY <1>1, <1>3, <2>1
<1>4. CASE Tail(s) # <<>>
  <2>1. Len(s) - 1 \in 1 .. Len(s) - 1 /\ (Len(s) - 1) + 1 = Len(s)
    BY <1>1, <1>4
  <2>2. QED
    BY <1>1, <1>2, <1>4, <2>1
<1>5. QED
  BY <1>3, <1>4

\* Work on the queues leaves the app states alone, and the queue of the
\* watchdog tracker stays empty until it is started.
LEMMA KeptByWork ==
    ASSUME Control, RecoveryTyped, StateIsTold, StateIsKept,
           CheckWatchdog \/ DeleteAllReports \/ \E q \in Queue : WorkStep(q)
    PROVE  StateIsTold' /\ StateIsKept'
<1>1. Left' = Left /\ Activating' = Activating /\ Ending' = Ending
  BY SideSteps
<1>2. UNCHANGED <<appState, previousAppState, crashState, crashedLastLaunch, lastDeath, foreground, stateUpdates>>
  BY DEF CheckWatchdog, DeleteAllReports, WorkStep, CaptureCrashEvent, EventWithoutSession,
         DeleteCrashedSession, files, memory, environment, history
<1>3. work["watchdog"] = <<>> => work'["watchdog"] = <<>>
  <2> SUFFICES ASSUME work["watchdog"] = <<>>
               PROVE  work'["watchdog"] = <<>>
    OBVIOUS
  <2>1. \E more : WorkLeft("crash", more)
    BY DEF CheckWatchdog, DeleteAllReports, WorkStep, CaptureCrashEvent, EventWithoutSession,
           DeleteCrashedSession, NextWork, Queue
  <2>2. QED
    BY <2>1 DEF WorkLeft, RecoveryTyped, Queue
<1>4. QED
  BY <1>1, <1>2, <1>3 DEF StateIsTold, StateIsKept

LEMMA KeptByLaunch ==
    ASSUME Control, RecoveryTyped, StateIsTold, StateIsKept,
           \/ Boot \/ Install \/ EndCrashedSession \/ DeleteCurrent \/ SendReports \/ AwaitReports
           \/ StoreAppState \/ EndCachedSession \/ CloseCachedSession
    PROVE  StateIsTold' /\ StateIsKept'
<1>1. CASE Boot
  <2>1. Left = 10 /\ Left' = 9 /\ Ending' = 0
    BY <1>1, LaunchMoves DEF From, To
  <2>2. previousAppState' = appState /\ appState' = NoState
    BY <1>1 DEF Boot
  <2>3. UNCHANGED <<crashState, lastDeath, foreground, stateUpdates, work>>
    BY <1>1 DEF Boot, history, environment
  <2>4. ~NoState.exists /\ ~NoState.isActive
    BY DEF NoState
  <2>5. StateIsTold'
    BY <2>1, <2>2, <2>3 DEF StateIsTold
  <2>6. QED
    BY <2>1, <2>2, <2>3, <2>4, <2>5 DEF StateIsKept
<1>2. CASE Install
  <2>1. Left = 9 /\ Left' = 8 /\ Ending' = 0
    BY <1>2, LaunchMoves DEF From, To
  <2>2. crashedLastLaunch' = crashState
    BY <1>2 DEF Install
  <2>3. UNCHANGED <<appState, previousAppState, lastDeath, foreground, stateUpdates, work>>
    BY <1>2 DEF Install, history, environment
  <2>4. StateIsTold'
    BY <2>1, <2>2, <2>3 DEF StateIsTold
  <2>5. QED
    BY <2>1, <2>3, <2>4 DEF StateIsKept
<1>3. CASE EndCrashedSession \/ DeleteCurrent \/ AwaitReports \/ EndCachedSession \/ CloseCachedSession
  <2>1. Left \in 2 .. 8 /\ Left' = Left - 1 /\ Ending' = 0
    BY <1>3, LaunchMoves DEF From, To
  <2>2. UNCHANGED <<appState, previousAppState, crashedLastLaunch, lastDeath, foreground, stateUpdates, work>>
    BY <1>3 DEF EndCrashedSession, DeleteCurrent, AwaitReports, EndCachedSession, CloseCachedSession,
                files, memory, history, environment
  <2>3. StateIsTold'
    BY <2>1, <2>2 DEF StateIsTold
  <2>4. QED
    BY <2>1, <2>2, <2>3 DEF StateIsKept
<1>4. CASE SendReports
  <2>1. Left = 6 /\ Left' \in {5, 4} /\ Ending' = 0
    BY <1>4, LaunchMoves DEF From, To
  <2>2. UNCHANGED <<appState, previousAppState, crashedLastLaunch, lastDeath, foreground, stateUpdates>>
    BY <1>4 DEF SendReports, files, memory, history, environment
  <2>3. work'["watchdog"] = work["watchdog"]
    BY <1>4 DEF SendReports, RecoveryTyped, Queue
  <2>4. StateIsTold'
    BY <2>1, <2>2 DEF StateIsTold
  <2>5. QED
    BY <2>1, <2>2, <2>3, <2>4 DEF StateIsKept
<1>5. CASE StoreAppState
  <2>1. Left = 4 /\ Left' = 3 /\ Ending' = 0
    BY <1>5, LaunchMoves DEF From, To
  <2>2. UNCHANGED <<previousAppState, crashedLastLaunch, lastDeath, foreground, stateUpdates>>
    BY <1>5 DEF StoreAppState, memory, history, environment
  <2>3. (WatchdogTracking /\ appState' = FreshState) \/ (~WatchdogTracking /\ appState' = appState)
    BY <1>5 DEF StoreAppState
  <2>4. FreshState.exists /\ ~FreshState.isActive
    BY DEF FreshState, NoState
  <2>5. StateIsTold'
    BY <2>1, <2>2 DEF StateIsTold
  <2>6. QED
    BY <2>1, <2>2, <2>3, <2>4, <2>5 DEF StateIsKept
<1>6. QED
  BY <1>1, <1>2, <1>3, <1>4, <1>5

LEMMA KeptBySessions ==
    ASSUME Control, RecoveryTyped, StateIsTold, StateIsKept,
           CaptureMine \/ StartSession \/ CaptureInit \/ EndSession \/ DeleteTimestamp
    PROVE  StateIsTold' /\ StateIsKept'
<1>1. Left \in {0, 1} /\ Left' = 0 /\ (Ending' > 0 => Ending > 0)
  BY SessionMoves DEF From, To
<1>2. UNCHANGED <<appState, previousAppState, crashedLastLaunch, lastDeath, foreground, stateUpdates, work>>
  BY DEF CaptureMine, StartSession, CaptureInit, EndSession, DeleteTimestamp, files, memory, history,
         environment
<1>3. StateIsTold'
  BY <1>1, <1>2 DEF StateIsTold
<1>4. QED
  BY <1>1, <1>2, <1>3 DEF StateIsKept

LEMMA KeptByApp ==
    ASSUME Control, RecoveryTyped, StateIsTold, StateIsKept,
           DidBecomeActive \/ WillResignActive \/ WillTerminate
    PROVE  StateIsTold' /\ StateIsKept'
<1>1. Left = 0 /\ Left' = 0
  BY OtherMoves DEF From, To
<1>2. UNCHANGED <<previousAppState, crashedLastLaunch, lastDeath, work>>
  BY DEF DidBecomeActive, WillResignActive, WillTerminate, files, history
<1>3. StateIsTold'
  BY <1>1, <1>2 DEF StateIsTold
<1>4. ASSUME NEW b \in BOOLEAN, foreground' = b, QueueUpdate(b), UNCHANGED appState, Ending' = 0
      PROVE  StateIsKept'
  <2>1. CASE WatchdogTracking
    <3>1. stateUpdates' = Append(stateUpdates, b)
      BY <1>4, <2>1 DEF QueueUpdate
    <3>2. /\ Append(stateUpdates, b) # <<>> /\ Len(Append(stateUpdates, b)) = Len(stateUpdates) + 1
          /\ Append(stateUpdates, b)[Len(stateUpdates) + 1] = b
      BY AppendProperties DEF RecoveryTyped
    <3>3. stateUpdates' # <<>> /\ stateUpdates'[Len(stateUpdates')] = foreground'
      BY <1>4, <3>1, <3>2, Zenon
    <3>4. QED
      BY <1>1, <1>2, <1>4, <2>1, <3>3 DEF StateIsKept
  <2>2. CASE ~WatchdogTracking
    <3>1. stateUpdates' = stateUpdates /\ stateUpdates = <<>> /\ ~appState.exists
      BY <1>4, <2>2 DEF QueueUpdate, StateIsKept
    <3>2. QED
      BY <1>1, <1>2, <1>4, <2>2, <3>1 DEF StateIsKept
  <2>3. QED
    BY <2>1, <2>2
<1>5. CASE DidBecomeActive
  <2>1. foreground' = TRUE /\ QueueUpdate(TRUE) /\ UNCHANGED appState
    BY <1>5 DEF DidBecomeActive, files
  <2>2. Ending' = 0
    BY <1>5, OtherMoves DEF To
  <2>3. QED
    BY <1>3, <1>4, <2>1, <2>2, Zenon
<1>6. CASE WillResignActive
  <2>1. foreground' = FALSE /\ QueueUpdate(FALSE) /\ UNCHANGED appState
    BY <1>6 DEF WillResignActive
  <2>2. Ending' = 0
    BY <1>6, OtherMoves DEF To
  <2>3. QED
    BY <1>3, <1>4, <2>1, <2>2, Zenon
<1>7. CASE WillTerminate
  <2>1. UNCHANGED <<foreground, stateUpdates>>
    BY <1>7 DEF WillTerminate, environment
  <2>2. CASE appState.exists
    <3>1. appState' = [appState EXCEPT !.wasTerminated = TRUE]
      BY <1>7, <2>2 DEF WillTerminate
    <3>2. appState'.exists /\ appState'.wasTerminated /\ (appState'.isActive <=> appState.isActive)
      BY <2>2, <3>1 DEF RecoveryTyped, AppState
    <3>3. QED
      BY <1>1, <1>2, <1>3, <2>1, <2>2, <3>2 DEF StateIsKept
  <2>3. CASE ~appState.exists
    <3>1. appState' = appState
      BY <1>7, <2>3 DEF WillTerminate
    <3>2. QED
      BY <1>1, <1>2, <1>3, <2>1, <2>3, <3>1 DEF StateIsKept
  <2>4. QED
    BY <2>2, <2>3
<1>8. QED
  BY <1>5, <1>6, <1>7

LEMMA KeptByUpdate ==
    ASSUME Control, RecoveryTyped, StateIsTold, StateIsKept, UpdateAppState
    PROVE  StateIsTold' /\ StateIsKept'
<1>1. Left' = Left /\ Ending' = Ending
  BY SideSteps
<1>2. Left \in 0 .. 10
  BY AtLabel
<1>3. stateUpdates # <<>> /\ stateUpdates' = Tail(stateUpdates)
  BY DEF UpdateAppState
<1>4. Left = 0
  BY <1>2, <1>3 DEF StateIsKept
<1>5. UNCHANGED <<previousAppState, crashedLastLaunch, lastDeath, work, foreground>>
  BY DEF UpdateAppState, memory, history, environment
<1>6. StateIsTold'
  BY <1>1, <1>4, <1>5 DEF StateIsTold
<1>7. stateUpdates' = <<>> => Head(stateUpdates) = foreground
  BY <1>3, LastOfTail, Zenon DEF StateIsKept, RecoveryTyped
<1>8. stateUpdates' # <<>> => stateUpdates'[Len(stateUpdates')] = foreground
  BY <1>3, LastOfTail, Zenon DEF StateIsKept, RecoveryTyped
<1>9. PICK b \in BOOLEAN : b = Head(stateUpdates)
  BY <1>3 DEF RecoveryTyped
<1>10. CASE appState.exists
  <2>1. appState' = [appState EXCEPT !.isActive = b]
    BY <1>9, <1>10 DEF UpdateAppState
  <2>2. appState'.exists /\ (appState'.wasTerminated <=> appState.wasTerminated) /\ (appState'.isActive <=> b)
    BY <1>10, <2>1 DEF RecoveryTyped, AppState
  <2>3. appState'.isActive => foreground \/ stateUpdates' # <<>>
    <3>1. stateUpdates' = <<>> => b = foreground
      BY <1>7, <1>9, Zenon
    <3>2. QED
      BY <2>2, <3>1
  <2>4. WatchdogTracking
    BY <1>10 DEF StateIsKept
  <2>5. stateUpdates' # <<>> => stateUpdates'[Len(stateUpdates')] = foreground'
    BY <1>5, <1>8, Zenon
  <2>6. Ending' > 0 /\ appState'.exists => appState'.wasTerminated
    BY <1>1, <1>10, <2>2 DEF StateIsKept
  <2>7. QED
    BY <1>1, <1>4, <1>5, <1>6, <2>2, <2>3, <2>4, <2>5, <2>6 DEF StateIsKept
<1>11. CASE ~appState.exists
  <2>1. appState' = appState
    BY <1>11 DEF UpdateAppState
  <2>2. stateUpdates' # <<>> => stateUpdates'[Len(stateUpdates')] = foreground'
    BY <1>5, <1>8, Zenon
  <2>3. WatchdogTracking
    BY <1>3 DEF StateIsKept
  <2>4. QED
    BY <1>1, <1>4, <1>5, <1>6, <1>11, <2>1, <2>2, <2>3 DEF StateIsKept
<1>12. QED
  BY <1>10, <1>11

LEMMA KeptByDeath ==
    ASSUME Control, RecoveryTyped, StateIsTold, StateIsKept, Killed \/ Crashes \/ Exits
    PROVE  StateIsTold' /\ StateIsKept'
<1>1. Left' = 10 /\ Ending' = 0
  BY OtherMoves DEF To
<1>2. foreground' = FALSE /\ stateUpdates' = <<>> /\ work' = [q \in Queue |-> <<>>] /\ UNCHANGED appState
  BY DEF Killed, Crashes, Exits, Dies, Started
<1>3. StateIsKept'
  <2>1. work'["watchdog"] = <<>>
    BY <1>2 DEF Queue
  <2>2. QED
    BY <1>1, <1>2, <2>1 DEF StateIsKept
<1>4. SaysActive(appState) /\ ~crashState' => lastDeath' = "active"
  <2>1. CASE Killed
    <3>1. UNCHANGED crashState /\ lastDeath' = IF At("boot") THEN lastDeath ELSE
              IF foreground \/ stateUpdates # <<>> THEN "active" ELSE "background"
      BY <2>1 DEF Killed, Dies
    <3>2. CASE At("boot")
      <4>1. Left = 10
        BY <3>2, AtLabel
      <4>2. QED
        BY <3>1, <3>2, <4>1 DEF StateIsTold
    <3>3. CASE ~At("boot")
      <4>1. Left < 10
        BY <3>3, AtLabel
      <4>2. SaysActive(appState) => foreground \/ stateUpdates # <<>>
        BY <4>1 DEF StateIsKept, SaysActive
      <4>3. QED
        BY <3>1, <3>3, <4>2
    <3>4. QED
      BY <3>2, <3>3
  <2>2. CASE Crashes
    BY <2>2 DEF Crashes
  <2>3. CASE Exits
    <3>1. Ending = 1
      BY <2>3, OtherMoves
    <3>2. QED
      BY <3>1 DEF StateIsKept, SaysActive
  <2>4. QED
    BY <2>1, <2>2, <2>3
<1>5. StateIsTold'
  BY <1>1, <1>2, <1>4 DEF StateIsTold, SaysActive
<1>6. QED
  BY <1>3, <1>5

LEMMA KeptByError ==
    ASSUME Control, RecoveryTyped, StateIsTold, StateIsKept, CaptureError \/ Rest \/ UNCHANGED vars
    PROVE  StateIsTold' /\ StateIsKept'
<1>1. Left' = Left /\ Ending' = Ending
  BY SideSteps
<1>2. UNCHANGED <<appState, previousAppState, crashState, crashedLastLaunch, lastDeath, foreground, stateUpdates, work>>
  BY DEF CaptureError, Rest, vars, files, memory, environment, history
<1>3. QED
  BY <1>1, <1>2 DEF StateIsTold, StateIsKept

LEMMA WatchdogInit == Init => WatchdogInd
<1> SUFFICES ASSUME Init PROVE WatchdogInd
  OBVIOUS
<1>1. todo = Launch
  BY DEF Init
<1>2. Launch \in Seq(Label) /\ Launch # <<>> /\ Suffix(Launch, Launch)
  <2>1. Launch \in Seq(Label) /\ Launch # <<>>
    BY DEF Launch, Label
  <2>2. Suffix(Launch, Launch)
    BY ProgramSteps DEF Suffix
  <2>3. QED
    BY <2>1, <2>2
<1>3. Control /\ Left = 10 /\ Ending = 0
  BY <1>1, <1>2, ProgramSteps DEF Control, Left, Ending, StepsTo
<1>4. RecoveryTyped
  <2>1. NoState \in AppState
    BY DEF NoState, AppState
  <2>2. work \in [Queue -> Seq(WorkLabel)] /\ stateUpdates \in Seq(BOOLEAN)
    BY DEF Init
  <2>3. fate \in [Sids -> Fate] /\ lastDeath \in Fate
    BY DEF Init, Fate
  <2>4. lastInForeground \in BOOLEAN /\ foreground \in BOOLEAN
    BY Zenon DEF Init
  <2>5. QED
    BY <2>1, <2>2, <2>3, <2>4, SessionFacts DEF Init, RecoveryTyped
<1>5. StateIsTold /\ StateIsKept
  <2>1. ~NoState.exists /\ ~NoState.isActive
    BY DEF NoState
  <2>2. appState = NoState /\ ~foreground /\ stateUpdates = <<>> /\ work["watchdog"] = <<>>
    BY DEF Init, Queue
  <2>3. QED
    BY <1>3, <2>1, <2>2 DEF StateIsTold, StateIsKept, SaysActive
<1>6. QED
  BY <1>3, <1>4, <1>5 DEF WatchdogInd

LEMMA ControlNext ==
    ASSUME Control, [Next]_vars
    PROVE  Control'
<1>1. CASE MainStep
  BY <1>1, LaunchMoves, SessionMoves DEF MainStep, To
<1>2. CASE DidBecomeActive \/ WillResignActive \/ WillTerminate \/ Killed \/ Crashes \/ Exits
  BY <1>2, OtherMoves DEF To
<1>3. CASE \/ UpdateAppState \/ CaptureError \/ CheckWatchdog \/ DeleteAllReports
           \/ (\E q \in Queue : WorkStep(q)) \/ Rest \/ UNCHANGED vars
  BY <1>3, SideSteps
<1>4. QED
  BY <1>1, <1>2, <1>3 DEF Next

LEMMA WatchdogNext ==
    ASSUME WatchdogInd, [Next]_vars
    PROVE  WatchdogInd'
<1> USE DEF WatchdogInd
<1>1. Control' /\ RecoveryTyped'
  BY ControlNext, TypedNext
<1>2. CASE MainStep
  BY <1>1, <1>2, KeptByLaunch, KeptBySessions DEF MainStep
<1>3. CASE DidBecomeActive \/ WillResignActive \/ WillTerminate
  BY <1>1, <1>3, KeptByApp
<1>4. CASE UpdateAppState \/ Killed \/ Crashes \/ Exits
  BY <1>1, <1>4, KeptByUpdate, KeptByDeath
<1>5. CASE CheckWatchdog \/ DeleteAllReports \/ (\E q \in Queue : WorkStep(q))
  BY <1>1, <1>5, KeptByWork
<1>6. CASE CaptureError \/ Rest \/ UNCHANGED vars
  BY <1>1, <1>6, KeptByError
<1>7. StateIsTold' /\ StateIsKept'
  BY <1>1, <1>2, <1>3, <1>4, <1>5, <1>6 DEF Next
<1>8. QED
  BY <1>1, <1>7

LEMMA WatchdogAlways == Spec => []WatchdogInd
<1>1. WatchdogInd /\ [Next]_vars => WatchdogInd'
  BY WatchdogNext
<1>2. QED
  BY <1>1, WatchdogInit, PTL DEF Spec

(* A watchdog termination is reported only after a death in the            *)
(* foreground, or one that came before the last app state update reached   *)
(* the file (isWatchdogTermination, SentryAppStateManager): whatever       *)
(* crashes, kills and terminations came before, and wherever they hit the  *)
(* launch.                                                                 *)
THEOREM TerminationsAreReal == Spec => []WatchdogIsReal
<1>1. WatchdogInd => WatchdogIsReal
  <2> SUFFICES ASSUME WatchdogInd, IsWatchdogTermination, At("endCrashed") \/ NextWork("watchdog", "check")
               PROVE  lastDeath = "active"
    BY DEF WatchdogIsReal
  <2>1. Left <= 8
    BY AtLabel DEF WatchdogInd, StateIsKept, NextWork
  <2>2. SaysActive(previousAppState) /\ ~crashedLastLaunch
    BY DEF IsWatchdogTermination, WasTerminated, WasActive, SaysActive
  <2>3. QED
    BY <2>1, <2>2 DEF WatchdogInd, StateIsTold
<1>2. QED
  BY <1>1, WatchdogAlways, PTL

----------------------------------------------------------------------------
(* Sessions.                                                               *)
Untouched == UNCHANGED <<session, mine, currentFile, crashedFile, captured, nextSid, lost>>

Untouching ==
    \/ Boot \/ Install \/ SendReports \/ AwaitReports \/ StoreAppState \/ EndCachedSession \/ DeleteTimestamp
    \/ DidBecomeActive \/ WillResignActive \/ WillTerminate \/ UpdateAppState
    \/ CheckWatchdog \/ DeleteAllReports \/ (\E q \in Queue : EventWithoutSession(q))
    \/ Rest \/ UNCHANGED vars

LEMMA LeavesSessions ==
    ASSUME Untouching
    PROVE  Untouched
<1>1. CASE Boot \/ Install \/ SendReports \/ AwaitReports \/ StoreAppState \/ EndCachedSession \/ DeleteTimestamp
  BY <1>1 DEF Untouched, Boot, Install, SendReports, AwaitReports, StoreAppState, EndCachedSession,
              DeleteTimestamp, files, memory, history
<1>2. CASE \/ DidBecomeActive \/ WillResignActive \/ WillTerminate \/ UpdateAppState
           \/ CheckWatchdog \/ DeleteAllReports \/ Rest \/ UNCHANGED vars
  BY <1>2 DEF Untouched, DidBecomeActive, WillResignActive, WillTerminate, UpdateAppState, CheckWatchdog,
              DeleteAllReports, Rest, vars, files, memory, history
<1>3. CASE \E q \in Queue : EventWithoutSession(q)
  BY <1>3 DEF Untouched, EventWithoutSession, files, memory, history
<1>4. QED
  BY <1>1, <1>2, <1>3 DEF Untouching

\* The steps of which Untouching is not one.
LEMMA StepKinds ==
    ASSUME [Next]_vars
    PROVE  \/ Untouching
           \/ EndCrashedSession \/ DeleteCurrent \/ CloseCachedSession
           \/ CaptureMine \/ StartSession \/ CaptureInit \/ EndSession \/ CaptureError
           \/ (\E q \in Queue : CaptureCrashEvent(q) \/ DeleteCrashedSession(q))
           \/ Killed \/ Crashes \/ Exits
  BY DEF Next, MainStep, WorkStep, Untouching

LEMMA AppendedFacts ==
    ASSUME NEW c \in Seq(Session), NEW u \in Session
    PROVE  /\ Append(c, u) \in Seq(Session)
           /\ DOMAIN Append(c, u) = (DOMAIN c) \cup {Len(c) + 1}
           /\ \A i \in DOMAIN c : Append(c, u)[i] = c[i]
           /\ Append(c, u)[Len(c) + 1] = u
           /\ \A sid : EndedIn(c, sid) => EndedIn(Append(c, u), sid)
           /\ IsEnded(u) => EndedIn(Append(c, u), u.sid)
<1>1. /\ Append(c, u) \in Seq(Session) /\ Len(Append(c, u)) = Len(c) + 1 /\ Len(c) \in Nat
      /\ \A i \in 1 .. Len(c) : Append(c, u)[i] = c[i]
      /\ Append(c, u)[Len(c) + 1] = u
  BY AppendProperties
<1>2. DOMAIN c = 1 .. Len(c) /\ DOMAIN Append(c, u) = 1 .. (Len(c) + 1)
  BY <1>1
<1>3. DOMAIN Append(c, u) = (DOMAIN c) \cup {Len(c) + 1}
  BY <1>1, <1>2
<1>4. \A sid : EndedIn(c, sid) => EndedIn(Append(c, u), sid)
  BY <1>1, <1>2, <1>3 DEF EndedIn
<1>5. IsEnded(u) => EndedIn(Append(c, u), u.sid)
  BY <1>1, <1>3 DEF EndedIn
<1>6. QED
  BY <1>1, <1>2, <1>3, <1>4, <1>5

LEMMA StatusesNext ==
    ASSUME WatchdogInd, Statuses, Holders, [Next]_vars
    PROVE  Statuses'
<1>1. RecoveryTyped /\ RecoveryTyped' /\ Control
  BY TypedNext DEF WatchdogInd
<1>2. CASE Untouching
  BY <1>2, LeavesSessions DEF Statuses, Untouched
<1>3. CASE EndCrashedSession
  <2>1. UNCHANGED <<session, mine, currentFile, captured>>
    BY <1>3 DEF EndCrashedSession, memory
  <2>2. crashedFile' = crashedFile \/ (currentFile \in Session /\ crashedFile' = EndCrashed(currentFile))
    BY <1>1, <1>3 DEF EndCrashedSession, MustEndAsCrashed, RecoveryTyped, MaybeSession
  <2>3. currentFile \in Session => EndCrashed(currentFile).status = "crashed"
    BY Updates DEF IsUpdate
  <2>4. QED
    BY <2>1, <2>2, <2>3 DEF Statuses
<1>4. CASE DeleteCurrent
  BY <1>4, SessionFacts DEF DeleteCurrent, CurrentAfterCrash, memory, history, Statuses
<1>5. CASE CloseCachedSession
  <2>1. UNCHANGED <<session, crashedFile, captured>> /\ (currentFile' = currentFile \/ currentFile' = NoSession)
    BY <1>5 DEF CloseCachedSession, history
  <2>2. \/ mine' = mine
        \/ currentFile \in Session /\ (mine' = EndExited(currentFile) \/ mine' = EndAbnormal(currentFile))
    BY <1>1, <1>5 DEF CloseCachedSession, MayClose, RecoveryTyped, MaybeSession
  <2>3. currentFile \in Session => /\ EndExited(currentFile).status = "exited"
                                   /\ EndAbnormal(currentFile).status = "abnormal"
    BY Updates DEF IsUpdate
  <2>4. QED
    BY <2>1, <2>2, <2>3, SessionFacts DEF Statuses
<1>6. CASE CaptureMine
  <2>1. UNCHANGED <<session, currentFile, crashedFile>> /\ mine' = NoSession
    BY <1>6 DEF CaptureMine, files
  <2>2. captured' \in Seq(Session)
    <3>1. captured' = captured \/ (mine \in Session /\ captured' = Append(captured, mine))
      BY <1>1, <1>6 DEF CaptureMine, RecoveryTyped, MaybeSession
    <3>2. QED
      BY <3>1, AppendedFacts DEF Statuses
  <2>3. QED
    BY <2>1, <2>2 DEF Statuses
<1>7. CASE StartSession
  <2>1. session' = NewSession(nextSid, 0) /\ currentFile' = session' /\ mine' = LastSession
    BY <1>7 DEF StartSession
  <2>2. session'.status = "ok"
    BY <1>1, <2>1, SessionFacts DEF RecoveryTyped
  <2>3. mine' # NoSession => mine'.status \in {"exited", "abnormal"}
    BY <1>1, <2>1, LastSessionFacts DEF RecoveryTyped, IsUpdate
  <2>4. UNCHANGED <<crashedFile, captured>>
    BY <1>7 DEF StartSession
  <2>5. QED
    BY <2>1, <2>2, <2>3, <2>4 DEF Statuses
<1>8. CASE CaptureInit
  <2>1. Activating = 3
    BY <1>1, <1>8, SessionMoves DEF From
  <2>2. session \in Session
    BY <1>1, <2>1 DEF Holders, RecoveryTyped, MaybeSession
  <2>3. captured' = Append(captured, session) /\ UNCHANGED <<session, mine, currentFile, crashedFile>>
    BY <1>8 DEF CaptureInit, files, memory
  <2>4. captured' \in Seq(Session)
    BY <2>2, <2>3, AppendedFacts DEF Statuses
  <2>5. QED
    BY <2>3, <2>4 DEF Statuses
<1>9. CASE EndSession
  <2>1. session' = NoSession /\ currentFile' = NoSession /\ mine' = LastSession /\ UNCHANGED <<crashedFile, captured>>
    BY <1>9 DEF EndSession, history
  <2>2. mine' # NoSession => mine'.status \in {"exited", "abnormal"}
    BY <1>1, <2>1, LastSessionFacts DEF RecoveryTyped, IsUpdate
  <2>3. QED
    BY <2>1, <2>2, SessionFacts DEF Statuses
<1>10. CASE CaptureError
  <2>1. session \in Session /\ session' = IncrementErrors(session) /\ currentFile' = session'
        /\ captured' = Append(captured, session') /\ UNCHANGED <<mine, crashedFile>>
    BY <1>1, <1>10 DEF CaptureError, RecoveryTyped, MaybeSession
  <2>2. session' \in Session /\ session'.status = "ok"
    BY <2>1, Updates DEF IsUpdate, Statuses
  <2>3. captured' \in Seq(Session)
    BY <2>1, <2>2, AppendedFacts DEF Statuses
  <2>4. QED
    BY <2>1, <2>2, <2>3 DEF Statuses
<1>11. ASSUME NEW q \in Queue, CaptureCrashEvent(q) PROVE Statuses'
  <2>1. UNCHANGED <<session, mine, currentFile, crashedFile>>
    BY <1>11 DEF CaptureCrashEvent, files, memory
  <2>2. captured' = captured \/ (crashedFile \in Session /\ captured' = Append(captured, crashedFile))
    BY <1>1, <1>11 DEF CaptureCrashEvent, RecoveryTyped, MaybeSession
  <2>3. captured' \in Seq(Session)
    BY <2>2, AppendedFacts DEF Statuses
  <2>4. QED
    BY <2>1, <2>3 DEF Statuses
<1>12. ASSUME NEW q \in Queue, DeleteCrashedSession(q) PROVE Statuses'
  <2>1. UNCHANGED <<session, mine, currentFile, captured>> /\ crashedFile' = NoSession
    BY <1>12 DEF DeleteCrashedSession, memory, history
  <2>2. QED
    BY <2>1 DEF Statuses
<1>13. CASE Killed \/ Crashes \/ Exits
  <2>1. session' = NoSession /\ mine' = NoSession /\ UNCHANGED <<currentFile, crashedFile, captured>>
    BY <1>13 DEF Killed, Crashes, Exits, Dies, Started
  <2>2. QED
    BY <2>1, SessionFacts DEF Statuses
<1>14. QED
  BY <1>2, <1>3, <1>4, <1>5, <1>6, <1>7, <1>8, <1>9, <1>10, <1>11, <1>12, <1>13, StepKinds

LEMMA HoldersUntouched ==
    ASSUME WatchdogInd, Holders, Untouching
    PROVE  Holders'
<1>1. Control
  BY DEF WatchdogInd
<1>2. UNCHANGED <<session, mine, currentFile, crashedFile>>
  BY LeavesSessions DEF Untouched
<1>3. CASE Boot \/ Install \/ SendReports \/ AwaitReports \/ StoreAppState \/ EndCachedSession
  <2>1. /\ Activating = 0 /\ Ending = 0 /\ Activating' = 0 /\ Ending' = 0
        /\ \/ Left \in {9, 10} /\ Left' \in {8, 9}
           \/ Left \in 3 .. 6 /\ Left' \in 2 .. 5 /\ UNCHANGED crashedLastLaunch
    <3>1. CASE Boot \/ Install
      BY <1>1, <3>1, LaunchMoves DEF From, To
    <3>2. CASE SendReports \/ AwaitReports \/ StoreAppState \/ EndCachedSession
      <4>1. UNCHANGED crashedLastLaunch
        BY <3>2 DEF SendReports, AwaitReports, StoreAppState, EndCachedSession, memory
      <4>2. /\ Activating = 0 /\ Ending = 0 /\ Activating' = 0 /\ Ending' = 0
            /\ Left \in 3 .. 6 /\ Left' \in 2 .. 5
        BY <1>1, <3>2, LaunchMoves DEF From, To
      <4>3. QED
        BY <4>1, <4>2
    <3>3. QED
      BY <1>3, <3>1, <3>2
  <2>2. QED
    BY <1>2, <2>1 DEF Holders
<1>4. CASE DeleteTimestamp \/ DidBecomeActive \/ WillResignActive \/ WillTerminate
  <2>1. /\ Left = 0 /\ Left' = 0 /\ Activating \in {0, 1} /\ Activating' \in {0, 1, 4, 6}
        /\ Ending \in {0, 2} /\ (Ending' \in {0, 4} \/ (Ending = 2 /\ Ending' = 1))
    <3>1. CASE DeleteTimestamp
      BY <1>1, <3>1, SessionMoves DEF From, To
    <3>2. CASE DidBecomeActive
      BY <1>1, <3>2, OtherMoves DEF From, To
    <3>3. CASE WillResignActive \/ WillTerminate
      BY <1>1, <3>3, OtherMoves DEF From, To
    <3>4. QED
      BY <1>4, <3>1, <3>2, <3>3
  <2>2. QED
    BY <1>2, <2>1 DEF Holders
<1>5. CASE \/ UpdateAppState \/ CheckWatchdog \/ DeleteAllReports
           \/ (\E q \in Queue : EventWithoutSession(q)) \/ Rest \/ UNCHANGED vars
  <2>1. Left' = Left /\ Activating' = Activating /\ Ending' = Ending
    BY <1>1, <1>5, SideSteps DEF WorkStep
  <2>2. UNCHANGED <<previousAppState, comparable, crashedLastLaunch>>
    BY <1>5 DEF UpdateAppState, CheckWatchdog, DeleteAllReports, EventWithoutSession, Rest, vars, memory, files
  <2>3. MustEndAsCrashed' <=> MustEndAsCrashed
    BY <1>2, <2>2 DEF MustEndAsCrashed, IsWatchdogTermination, WasTerminated, WasActive
  <2>4. QED
    BY <1>2, <2>1, <2>2, <2>3 DEF Holders
<1>6. QED
  BY <1>3, <1>4, <1>5 DEF Untouching

LEMMA HoldersNext ==
    ASSUME WatchdogInd, Work, Holders, [Next]_vars
    PROVE  Holders'
<1>1. RecoveryTyped /\ Control
  BY DEF WatchdogInd
<1>2. CASE Untouching
  BY <1>2, HoldersUntouched
<1>3. CASE EndCrashedSession
  <2>1. Left = 8 /\ Left' = 7 /\ Activating = 0 /\ Ending = 0 /\ Activating' = 0 /\ Ending' = 0
    BY <1>1, <1>3, LaunchMoves DEF From, To
  <2>2. UNCHANGED <<session, mine, currentFile, previousAppState, comparable, crashedLastLaunch>>
    BY <1>3 DEF EndCrashedSession, memory
  <2>3. MustEndAsCrashed' <=> MustEndAsCrashed
    BY <2>2 DEF MustEndAsCrashed, IsWatchdogTermination, WasTerminated, WasActive
  <2>4. MustEndAsCrashed => crashedFile' = EndCrashed(currentFile)
    BY <1>3 DEF EndCrashedSession
  <2>5. MustEndAsCrashed' => crashedFile' = EndCrashed(currentFile')
    BY <2>2, <2>3, <2>4
  <2>6. QED
    BY <2>1, <2>2, <2>5 DEF Holders
<1>4. CASE DeleteCurrent
  <2>1. Left = 7 /\ Left' = 6 /\ Activating = 0 /\ Ending = 0 /\ Activating' = 0 /\ Ending' = 0
    BY <1>1, <1>4, LaunchMoves DEF From, To
  <2>2. UNCHANGED <<session, mine, crashedLastLaunch>>
    BY <1>4 DEF DeleteCurrent, memory
  <2>3. crashedLastLaunch => currentFile' = NoSession
    BY <1>4 DEF DeleteCurrent, CurrentAfterCrash, MustEndAsCrashed
  <2>4. QED
    BY <2>1, <2>2, <2>3 DEF Holders
<1>5. CASE CloseCachedSession
  <2>1. Left = 2 /\ Left' = 1 /\ Activating = 0 /\ Ending = 0 /\ Activating' = 0 /\ Ending' = 0
    BY <1>1, <1>5, LaunchMoves DEF From, To
  <2>2. currentFile' = NoSession
    BY <1>5, <2>1 DEF CloseCachedSession, MayClose, Holders
  <2>3. UNCHANGED session
    BY <1>5 DEF CloseCachedSession
  <2>4. QED
    BY <2>1, <2>2, <2>3 DEF Holders
<1>6. CASE CaptureMine
  <2>1. Left \in {0, 1} /\ Left' = 0 /\ Activating' \in {0, 4, 1} /\ (Ending' = 0 \/ (Ending = 3 /\ Ending' = 2))
    <3>1. \/ (From(1, 0, 0) /\ To(0, 0, 0)) \/ (From(0, 5, 0) /\ To(0, 4, 0))
          \/ (From(0, 2, 0) /\ To(0, 1, 0)) \/ (From(0, 0, 3) /\ To(0, 0, 2))
      BY <1>1, <1>6, SessionMoves
    <3>2. QED
      BY <3>1 DEF From, To
  <2>2. mine' = NoSession /\ UNCHANGED <<session, currentFile>>
    BY <1>6 DEF CaptureMine, files
  <2>3. QED
    BY <2>1, <2>2 DEF Holders
<1>7. CASE StartSession
  <2>1. Left' = 0 /\ Activating' = 3 /\ Ending' = 0
    BY <1>1, <1>7, SessionMoves DEF From, To
  <2>2. session' = NewSession(nextSid, 0) /\ currentFile' = session'
    BY <1>7 DEF StartSession
  <2>3. session' # NoSession
    BY <1>1, <2>2, SessionFacts DEF RecoveryTyped
  <2>4. QED
    BY <2>1, <2>2, <2>3 DEF Holders
<1>8. CASE CaptureInit
  <2>1. Left = 0 /\ Left' = 0 /\ Activating' = 2 /\ Ending' = 0
    BY <1>1, <1>8, SessionMoves DEF From, To
  <2>2. UNCHANGED <<session, currentFile>>
    BY <1>8 DEF CaptureInit, files, memory
  <2>3. QED
    BY <2>1, <2>2 DEF Holders
<1>9. CASE EndSession
  <2>1. Left' = 0 /\ (Activating' = 5 \/ (Ending' = 3 /\ Activating' = 0))
    BY <1>1, <1>9, SessionMoves DEF From, To
  <2>2. session' = NoSession /\ currentFile' = NoSession
    BY <1>9 DEF EndSession
  <2>3. QED
    BY <2>1, <2>2 DEF Holders
<1>10. CASE CaptureError
  <2>1. Left' = Left /\ Activating' = Activating /\ Ending' = Ending
    BY <1>1, <1>10, SideSteps
  <2>2. session \in Session /\ session' = IncrementErrors(session) /\ currentFile' = session' /\ UNCHANGED mine
    BY <1>1, <1>10 DEF CaptureError, RecoveryTyped, MaybeSession
  <2>3. Left \in 0 .. 10 /\ Ending \in 0 .. 4
    BY <1>1, AtLabel
  <2>4. Left = 0 /\ Ending \notin 1 .. 3 /\ session' # NoSession
    BY <2>2, <2>3, SessionFacts, Updates DEF Holders, IsUpdate
  <2>5. QED
    BY <2>1, <2>2, <2>4 DEF Holders
<1>11. ASSUME NEW q \in Queue, CaptureCrashEvent(q) \/ DeleteCrashedSession(q) PROVE Holders'
  <2>1. Left' = Left /\ Activating' = Activating /\ Ending' = Ending
    BY <1>1, <1>11, SideSteps DEF WorkStep
  <2>2. UNCHANGED <<session, mine, currentFile, crashedLastLaunch>>
    BY <1>11 DEF CaptureCrashEvent, DeleteCrashedSession, files, memory
  <2>3. Left # 7
    <3>1. work[q] # <<>>
      BY <1>11 DEF CaptureCrashEvent, DeleteCrashedSession, NextWork
    <3>2. Left >= 6 => work["crash"] = <<>> /\ work["watchdog"] = <<>>
      BY <1>1, AtLabel DEF Work, WatchdogInd, StateIsKept
    <3>3. QED
      BY <3>1, <3>2 DEF Queue
  <2>4. QED
    BY <2>1, <2>2, <2>3 DEF Holders
<1>12. CASE Killed \/ Crashes \/ Exits
  <2>1. Left' = 10 /\ Activating' = 0 /\ Ending' = 0
    BY <1>12, <1>1, OtherMoves DEF To
  <2>2. session' = NoSession /\ mine' = NoSession
    BY <1>12 DEF Killed, Crashes, Exits, Dies, Started
  <2>3. QED
    BY <2>1, <2>2 DEF Holders
<1>13. QED
  BY <1>2, <1>3, <1>4, <1>5, <1>6, <1>7, <1>8, <1>9, <1>10, <1>11, <1>12, StepKinds

\* A queue that has finished its first piece of work, or has replaced it.
OnlyFirst(s) == \A i \in DOMAIN s : s[i] = "deleteCrashed" => i = 1

LEMMA Finished ==
    ASSUME work \in [Queue -> Seq(WorkLabel)], NEW q \in Queue, work[q] # <<>>, OnlyFirst(work[q]),
           WorkLeft(q, <<>>)
    PROVE  /\ \A r \in Queue : r # q => work'[r] = work[r]
           /\ \A i \in DOMAIN work'[q] : work'[q][i] # "deleteCrashed"
           /\ work'[q] # <<>> => work'[q][Len(work'[q])] = work[q][Len(work[q])]
           /\ work'[q] = <<>> => Head(work[q]) = work[q][Len(work[q])]
<1>1. PICK s \in Seq(WorkLabel) : s = work[q]
  OBVIOUS
<1>2. Tail(s) \in Seq(WorkLabel) /\ s # <<>>
  BY <1>1
<1>3. <<>> \o Tail(s) = Tail(s)
  BY <1>2, ConcatEmptySeq
<1>4. work'[q] = Tail(s) /\ \A r \in Queue : r # q => work'[r] = work[r]
  BY <1>1, <1>3 DEF WorkLeft
<1>5. \A i \in DOMAIN Tail(s) : Tail(s)[i] # "deleteCrashed"
  <2>1. \A i \in 1 .. Len(s) - 1 : Tail(s)[i] = s[i + 1]
    BY <1>2, TailElements
  <2>2. Len(s) \in Nat /\ DOMAIN s = 1 .. Len(s) /\ DOMAIN Tail(s) = 1 .. Len(s) - 1
    BY <1>2
  <2>3. ASSUME NEW i \in 1 .. Len(s) - 1 PROVE i + 1 \in 1 .. Len(s) /\ i + 1 # 1
    BY <2>2
  <2>4. QED
    BY <1>1, <2>1, <2>2, <2>3 DEF OnlyFirst
<1>6. /\ Tail(s) = <<>> => Head(s) = s[Len(s)]
      /\ Tail(s) # <<>> => Tail(s)[Len(Tail(s))] = s[Len(s)]
  BY <1>2, LastOfTail
<1>7. QED
  BY <1>1, <1>4, <1>5, <1>6

LEMMA Replaced ==
    ASSUME work \in [Queue -> Seq(WorkLabel)], NEW q \in Queue, work[q] # <<>>, OnlyFirst(work[q]),
           NEW x \in WorkLabel, WorkLeft(q, <<x>>)
    PROVE  /\ \A r \in Queue : r # q => work'[r] = work[r]
           /\ \A i \in DOMAIN work'[q] : work'[q][i] = "deleteCrashed" => i = 1 /\ x = "deleteCrashed"
           /\ work'[q] # <<>>
           /\ Head(work[q]) # work[q][Len(work[q])] => work'[q][Len(work'[q])] = work[q][Len(work[q])]
<1>1. PICK s \in Seq(WorkLabel) : s = work[q]
  OBVIOUS
<1>2. Tail(s) \in Seq(WorkLabel) /\ s # <<>> /\ Head(s) = s[1] /\ Len(s) \in Nat
  BY <1>1
<1>3. Len(Tail(s)) = Len(s) - 1 /\ Len(s) > 0 /\ DOMAIN s = 1 .. Len(s)
  BY <1>2
<1>4. PICK f : f = <<x>>
  OBVIOUS
<1>5. f \in Seq(WorkLabel) /\ Len(f) = 1 /\ f[1] = x
  <2>1. <<x>> \in Seq(WorkLabel) /\ Len(<<x>>) = 1 /\ <<x>>[1] = x
    OBVIOUS
  <2>2. QED
    BY <1>4, <2>1
<1>6. PICK t : t = f \o Tail(s)
  OBVIOUS
<1>7. t \in Seq(WorkLabel)
  BY <1>2, <1>5, <1>6, ConcatProperties
<1>8. Len(t) = Len(f) + Len(Tail(s))
  BY <1>2, <1>5, <1>6, ConcatProperties
<1>9. \A i \in 1 .. (Len(f) + Len(Tail(s))) : t[i] = IF i <= Len(f) THEN f[i] ELSE Tail(s)[i - Len(f)]
  BY <1>2, <1>5, <1>6, ConcatProperties
<1>10. \A i \in 1 .. Len(s) - 1 : Tail(s)[i] = s[i + 1]
  BY <1>2, TailElements
<1>11. Len(t) = Len(s) /\ DOMAIN t = 1 .. Len(s)
  BY <1>2, <1>3, <1>5, <1>7, <1>8
<1>12. ASSUME NEW i \in 1 .. Len(s) PROVE t[i] = IF i = 1 THEN x ELSE s[i]
  <2>1. i \in 1 .. (Len(f) + Len(Tail(s)))
    BY <1>8, <1>11
  <2>2. t[i] = IF i <= Len(f) THEN f[i] ELSE Tail(s)[i - Len(f)]
    BY <1>9, <2>1
  <2>3. CASE i = 1
    BY <1>5, <2>2, <2>3
  <2>4. CASE i # 1
    <3>1. i - 1 \in 1 .. Len(s) - 1 /\ (i - 1) + 1 = i /\ ~(i <= 1)
      BY <1>2, <2>4
    <3>2. t[i] = Tail(s)[i - 1]
      BY <1>5, <2>2, <3>1
    <3>3. Tail(s)[i - 1] = s[(i - 1) + 1]
      BY <1>10, <3>1
    <3>4. QED
      BY <2>4, <3>1, <3>2, <3>3
  <2>5. QED
    BY <2>3, <2>4
<1>13. work'[q] = t /\ \A r \in Queue : r # q => work'[r] = work[r]
  <2>1. work'[q] = <<x>> \o Tail(work[q])
    BY DEF WorkLeft
  <2>2. QED
    BY <1>1, <1>4, <1>6, <2>1 DEF WorkLeft
<1>14. \A i \in DOMAIN t : t[i] = "deleteCrashed" => i = 1 /\ x = "deleteCrashed"
  BY <1>1, <1>3, <1>11, <1>12 DEF OnlyFirst
<1>15. t # <<>>
  BY <1>3, <1>7, <1>11, EmptySeq
<1>16. Head(s) # s[Len(s)] => t[Len(t)] = s[Len(s)]
  <2>1. Head(s) # s[Len(s)] => Len(s) \in 1 .. Len(s) /\ Len(s) # 1
    BY <1>2, <1>3
  <2>2. QED
    BY <1>11, <1>12, <2>1
<1>17. QED
  BY <1>1, <1>13, <1>14, <1>15, <1>16

\* A captured or lost session stays so.
LEMMA SettledNext ==
    ASSUME WatchdogInd, Statuses, Holders, [Next]_vars, Settled, ~EndCrashedSession
    PROVE  Settled'
<1>1. RecoveryTyped /\ Control
  BY DEF WatchdogInd
<1>2. CASE Untouching
  BY <1>2, LeavesSessions DEF Settled, Untouched
<1>3. CASE DeleteCurrent \/ CloseCachedSession \/ StartSession \/ EndSession
  <2>1. UNCHANGED <<crashedFile, captured, lost>>
    BY <1>3 DEF DeleteCurrent, CloseCachedSession, StartSession, EndSession, history
  <2>2. QED
    BY <2>1 DEF Settled
<1>4. ASSUME UNCHANGED crashedFile, lost \subseteq lost',
             captured' = captured \/ \E u \in Session : captured' = Append(captured, u)
      PROVE  Settled'
  <2>1. EndedIn(captured, crashedFile.sid) => EndedIn(captured', crashedFile.sid)
    <3>1. CASE captured' = captured
      BY <3>1
    <3>2. ASSUME NEW u \in Session, captured' = Append(captured, u)
          PROVE  EndedIn(captured, crashedFile.sid) => EndedIn(captured', crashedFile.sid)
      <4>1. \A sid : EndedIn(captured, sid) => EndedIn(Append(captured, u), sid)
        BY AppendedFacts DEF Statuses
      <4>2. QED
        BY <3>2, <4>1
    <3>3. QED
      BY <1>4, <3>1, <3>2
  <2>2. QED
    BY <1>4, <2>1 DEF Settled
<1>5. CASE CaptureMine
  BY <1>1, <1>4, <1>5 DEF CaptureMine, files, RecoveryTyped, MaybeSession
<1>6. CASE CaptureInit \/ CaptureError
  <2>1. UNCHANGED <<crashedFile, lost>> /\ \E u \in Session : captured' = Append(captured, u)
    <3>1. CASE CaptureInit
      <4>1. Activating = 3
        BY <1>1, <3>1, SessionMoves DEF From
      <4>2. session \in Session
        BY <1>1, <4>1 DEF Holders, RecoveryTyped, MaybeSession
      <4>3. QED
        BY <3>1, <4>2 DEF CaptureInit, files
    <3>2. CASE CaptureError
      <4>1. session' \in Session
        BY <1>1, <3>2, Updates DEF CaptureError, RecoveryTyped, MaybeSession, IsUpdate
      <4>2. QED
        BY <3>2, <4>1 DEF CaptureError
    <3>3. QED
      BY <1>6, <3>1, <3>2
  <2>2. QED
    BY <1>4, <2>1
<1>7. ASSUME NEW q \in Queue, CaptureCrashEvent(q) PROVE Settled'
  BY <1>1, <1>4, <1>7 DEF CaptureCrashEvent, files, RecoveryTyped, MaybeSession
<1>8. ASSUME NEW q \in Queue, DeleteCrashedSession(q) PROVE Settled'
  BY <1>8 DEF DeleteCrashedSession, Settled
<1>9. CASE Killed \/ Crashes \/ Exits
  BY <1>4, <1>9 DEF Killed, Crashes, Exits, Dies
<1>10. QED
  BY <1>2, <1>3, <1>5, <1>6, <1>7, <1>8, <1>9, StepKinds

LEMMA WorkNext ==
    ASSUME WatchdogInd, Work, Statuses, Holders, [Next]_vars
    PROVE  Work'
<1>1. RecoveryTyped /\ Control /\ RecoveryTyped' /\ Left \in 0 .. 10
  BY TypedNext, AtLabel DEF WatchdogInd
<1>2. /\ work \in [Queue -> Seq(WorkLabel)] /\ "crash" \in Queue /\ "watchdog" \in Queue
      /\ \A q \in Queue : q = "crash" \/ q = "watchdog"
  BY <1>1 DEF RecoveryTyped, Queue
<1>3. ~EndCrashedSession /\ Settled => Settled'
  BY SettledNext
<1>4. CASE EndCrashedSession
  <2>1. Left = 8 /\ Left' = 7
    BY <1>1, <1>4, LaunchMoves DEF From, To
  <2>2. UNCHANGED <<work, reports>>
    BY <1>4 DEF EndCrashedSession
  <2>3. work["crash"] = <<>> /\ work["watchdog"] = <<>>
    BY <2>1 DEF Work, WatchdogInd, StateIsKept
  <2>4. \A q \in Queue : DOMAIN work[q] = {}
    BY <1>2, <2>3
  <2>5. QED
    BY <2>1, <2>2, <2>3, <2>4 DEF Work
<1>5. ASSUME UNCHANGED <<work, reports>>, ~EndCrashedSession, Left' >= 6 => Left >= 6, Left' < 6 => Left < 6
      PROVE  Work'
  BY <1>3, <1>5 DEF Work
<1>6. CASE \/ Boot \/ Install \/ DeleteCurrent \/ AwaitReports \/ EndCachedSession \/ CloseCachedSession
  <2>1. UNCHANGED <<work, reports>> /\ ~EndCrashedSession
    <3>1. UNCHANGED <<work, reports>>
      BY <1>6 DEF Boot, Install, DeleteCurrent, AwaitReports, EndCachedSession, CloseCachedSession, files
    <3>2. Left # 8
      BY <1>1, <1>6, LaunchMoves DEF From
    <3>3. QED
      BY <1>1, <3>1, <3>2, LaunchMoves DEF From
  <2>2. (Left' >= 6 => Left >= 6) /\ (Left' < 6 => Left < 6)
    BY <1>1, <1>6, LaunchMoves DEF From, To
  <2>3. QED
    BY <1>5, <2>1, <2>2
<1>7. CASE CaptureMine \/ StartSession \/ CaptureInit \/ EndSession \/ DeleteTimestamp
  <2>1. UNCHANGED <<work, reports>>
    BY <1>7 DEF CaptureMine, StartSession, CaptureInit, EndSession, DeleteTimestamp, files
  <2>2. Left \in {0, 1} /\ Left' = 0
    BY <1>1, <1>7, SessionMoves DEF From, To
  <2>3. ~EndCrashedSession
    BY <1>1, <2>2, LaunchMoves DEF From
  <2>4. QED
    BY <1>5, <2>1, <2>2, <2>3
<1>8. CASE DidBecomeActive \/ WillResignActive \/ WillTerminate
  <2>1. UNCHANGED <<work, reports>>
    BY <1>8 DEF DidBecomeActive, WillResignActive, WillTerminate, files
  <2>2. Left = 0 /\ Left' = 0
    BY <1>1, <1>8, OtherMoves DEF From, To
  <2>3. ~EndCrashedSession
    BY <1>1, <2>2, LaunchMoves DEF From
  <2>4. QED
    BY <1>5, <2>1, <2>2, <2>3
<1>9. CASE UpdateAppState \/ CaptureError \/ Rest \/ UNCHANGED vars
  <2>1. UNCHANGED <<work, reports>>
    BY <1>9 DEF UpdateAppState, CaptureError, Rest, vars, files
  <2>2. Left' = Left
    BY <1>1, <1>9, SideSteps
  <2>3. ~EndCrashedSession
    BY <1>1, <2>2, LaunchMoves DEF From, To
  <2>4. QED
    BY <1>5, <2>1, <2>2, <2>3
<1>10. CASE SendReports
  <2>1. Left = 6 /\ Left' \in {5, 4}
    BY <1>1, <1>10, LaunchMoves DEF From, To
  <2>2. work["crash"] = <<>> /\ work["watchdog"] = <<>> /\ UNCHANGED reports
    BY <1>10, <2>1 DEF Work, WatchdogInd, StateIsKept, SendReports, files
  <2>3. CASE reports = 0
    <3>1. UNCHANGED work
      BY <1>10, <2>3 DEF SendReports
    <3>2. \A q \in Queue : DOMAIN work[q] = {}
      BY <1>2, <2>2
    <3>3. QED
      BY <2>1, <2>2, <2>3, <3>1, <3>2 DEF Work
  <2>4. CASE reports # 0
    <3>1. work'["crash"] = ReportsWork(reports) /\ work'["watchdog"] = <<>>
      BY <1>2, <1>10, <2>2, <2>4 DEF SendReports, ReportsWork
    <3>2. PICK s : s = ReportsWork(reports)
      OBVIOUS
    <3>3. PICK n \in Nat : n = reports
      BY <1>1 DEF RecoveryTyped
    <3>4. /\ s \in Seq(WorkLabel) /\ Len(s) = n + 1
          /\ \A i \in 1 .. (n + 1) : s[i] = IF i <= n THEN "event" ELSE "deleteReports"
      BY <3>2, <3>3, ReportsWorkType
    <3>5. s # <<>> /\ DOMAIN s = 1 .. (n + 1)
      BY <3>4
    <3>6. s[Len(s)] = "deleteReports"
      <4>1. n + 1 \in 1 .. (n + 1) /\ ~(n + 1 <= n)
        BY <3>3
      <4>2. s[n + 1] = "deleteReports"
        BY <3>4, <4>1
      <4>3. QED
        BY <3>4, <4>2
    <3>7. \A i \in DOMAIN s : s[i] # "deleteCrashed"
      BY <3>4, <3>5
    <3>8. work'["crash"] = s
      BY <3>1, <3>2
    <3>9. \A q \in Queue : \A i \in DOMAIN work'[q] : work'[q][i] # "deleteCrashed"
      BY <1>2, <3>1, <3>7, <3>8
    <3>10. QED
      BY <2>1, <3>5, <3>6, <3>8, <3>9 DEF Work
  <2>5. QED
    BY <2>3, <2>4
<1>11. CASE StoreAppState
  <2>1. Left = 4 /\ Left' = 3
    BY <1>1, <1>11, LaunchMoves DEF From, To
  <2>2. UNCHANGED reports /\ ~EndCrashedSession
    BY <1>1, <1>11, <2>1, LaunchMoves DEF StoreAppState, From
  <2>3. CASE UNCHANGED work
    BY <1>5, <2>1, <2>2, <2>3
  <2>4. CASE work' = [work EXCEPT !["watchdog"] = <<"check">>]
    <3>1. work'["crash"] = work["crash"] /\ work'["watchdog"] = <<"check">>
      BY <1>2, <2>4
    <3>2. \A i \in DOMAIN <<"check">> : <<"check">>[i] # "deleteCrashed"
      OBVIOUS
    <3>3. \A q \in Queue : \A i \in DOMAIN work'[q] : work'[q][i] = "deleteCrashed" => i = 1 /\ Settled'
      BY <1>2, <1>3, <2>2, <3>1, <3>2 DEF Work
    <3>4. QED
      BY <2>1, <2>2, <3>1, <3>3 DEF Work
  <2>5. QED
    BY <1>11, <2>3, <2>4 DEF StoreAppState
<1>12. \A q \in Queue : OnlyFirst(work[q])
  BY DEF Work, OnlyFirst
<1>13. ASSUME NEW q \in Queue, NEW label, NextWork(q, label), label # "deleteReports" \/ reports' = 0,
              WorkLeft(q, <<>>), UNCHANGED todo, reports' = reports \/ reports' = 0
       PROVE  Work'
  <2>1. Left' = Left /\ work[q] # <<>> /\ Head(work[q]) = label
    BY <1>1, <1>13, StaysAt DEF NextWork
  <2>2. Left < 6
    BY <1>1, <1>2, <2>1 DEF Work, WatchdogInd, StateIsKept
  <2>3. ~EndCrashedSession
    BY <1>1, <2>2, LaunchMoves DEF From
  <2>4. /\ \A r \in Queue : r # q => work'[r] = work[r]
        /\ \A i \in DOMAIN work'[q] : work'[q][i] # "deleteCrashed"
        /\ work'[q] # <<>> => work'[q][Len(work'[q])] = work[q][Len(work[q])]
        /\ work'[q] = <<>> => Head(work[q]) = work[q][Len(work[q])]
    BY <1>2, <1>12, <1>13, <2>1, Finished
  <2>5. \A r \in Queue : \A i \in DOMAIN work'[r] : work'[r][i] = "deleteCrashed" => i = 1 /\ Settled'
    BY <1>3, <2>3, <2>4 DEF Work
  <2>6. work'["crash"] # <<>> => work'["crash"][Len(work'["crash"])] = "deleteReports"
    BY <1>2, <2>1, <2>4 DEF Work
  <2>7. reports' # 0 => work'["crash"] # <<>>
    BY <1>2, <1>13, <2>1, <2>2, <2>4 DEF Work
  <2>8. QED
    BY <1>1, <2>1, <2>2, <2>5, <2>6, <2>7 DEF Work
<1>14. ASSUME NEW q \in Queue, NEW label, NextWork(q, label), label # "deleteReports",
              NEW x \in WorkLabel, x = "deleteCrashed" => Settled', q = "crash" \/ x = "event" \/ x = "deleteCrashed",
              WorkLeft(q, <<x>>), UNCHANGED <<todo, reports>>
       PROVE  Work'
  <2>1. Left' = Left /\ work[q] # <<>> /\ Head(work[q]) = label
    BY <1>1, <1>14, StaysAt DEF NextWork
  <2>2. Left < 6
    BY <1>1, <1>2, <2>1 DEF Work, WatchdogInd, StateIsKept
  <2>3. ~EndCrashedSession
    BY <1>1, <2>2, LaunchMoves DEF From
  <2>4. /\ \A r \in Queue : r # q => work'[r] = work[r]
        /\ \A i \in DOMAIN work'[q] : work'[q][i] = "deleteCrashed" => i = 1 /\ x = "deleteCrashed"
        /\ work'[q] # <<>>
        /\ Head(work[q]) # work[q][Len(work[q])] => work'[q][Len(work'[q])] = work[q][Len(work[q])]
    BY <1>2, <1>12, <1>14, <2>1, Replaced
  <2>5. \A r \in Queue : \A i \in DOMAIN work'[r] : work'[r][i] = "deleteCrashed" => i = 1 /\ Settled'
    BY <1>3, <1>14, <2>3, <2>4 DEF Work
  <2>6. work'["crash"] # <<>> => work'["crash"][Len(work'["crash"])] = "deleteReports"
    BY <1>2, <1>14, <2>1, <2>4 DEF Work
  <2>7. reports' # 0 => work'["crash"] # <<>>
    BY <1>2, <1>14, <2>1, <2>2, <2>4 DEF Work
  <2>8. QED
    BY <1>1, <2>1, <2>2, <2>5, <2>6, <2>7 DEF Work
<1>15. CASE CheckWatchdog
  <2>1. NextWork("watchdog", "check") /\ UNCHANGED <<todo, reports>>
    BY <1>15 DEF CheckWatchdog, files
  <2>2. WorkLeft("watchdog", <<>>) \/ WorkLeft("watchdog", <<"event">>)
    BY <1>15 DEF CheckWatchdog
  <2>3. "event" \in WorkLabel
    BY DEF WorkLabel
  <2>4. CASE WorkLeft("watchdog", <<>>)
    BY <1>2, <1>13, <2>1, <2>4
  <2>5. CASE WorkLeft("watchdog", <<"event">>)
    BY <1>2, <1>14, <2>1, <2>3, <2>5
  <2>6. QED
    BY <2>2, <2>4, <2>5
<1>16. CASE DeleteAllReports
  BY <1>2, <1>13, <1>16 DEF DeleteAllReports
<1>17. ASSUME NEW q \in Queue, EventWithoutSession(q) \/ DeleteCrashedSession(q) PROVE Work'
  <2>1. /\ NextWork(q, "event") \/ NextWork(q, "deleteCrashed")
        /\ WorkLeft(q, <<>>) /\ UNCHANGED <<todo, reports>>
    BY <1>17 DEF EventWithoutSession, DeleteCrashedSession, files
  <2>2. QED
    BY <1>13, <2>1
<1>18. ASSUME NEW q \in Queue, CaptureCrashEvent(q) PROVE Work'
  <2>1. NextWork(q, "event") /\ WorkLeft(q, <<"deleteCrashed">>) /\ UNCHANGED <<todo, reports, crashedFile>>
    BY <1>18 DEF CaptureCrashEvent, files
  <2>2. Settled'
    <3>1. crashedFile \in Session
      BY <1>1, <1>18 DEF CaptureCrashEvent, RecoveryTyped, MaybeSession
    <3>2. CASE captured' = Append(captured, crashedFile)
      <4>1. IsEnded(crashedFile)
        BY <3>1, SessionFacts DEF Statuses, IsEnded
      <4>2. EndedIn(Append(captured, crashedFile), crashedFile.sid)
        BY <3>1, <4>1, AppendedFacts DEF Statuses
      <4>3. QED
        BY <2>1, <3>2, <4>2 DEF Settled
    <3>3. CASE lost' = lost \cup SidOf(crashedFile)
      <4>1. crashedFile.sid # 0
        BY <3>1, SessionFacts
      <4>2. QED
        BY <2>1, <3>3, <4>1 DEF Settled, SidOf
    <3>4. QED
      BY <1>18, <3>2, <3>3 DEF CaptureCrashEvent
  <2>3. "deleteCrashed" \in WorkLabel
    BY DEF WorkLabel
  <2>4. QED
    BY <1>14, <2>1, <2>2, <2>3
<1>19. CASE Killed \/ Crashes \/ Exits
  <2>1. Left' = 10
    BY <1>1, <1>19, OtherMoves DEF To
  <2>2. work' = [q \in Queue |-> <<>>]
    BY <1>19 DEF Killed, Crashes, Exits, Dies, Started
  <2>3. \A q \in Queue : work'[q] = <<>> /\ DOMAIN work'[q] = {}
    BY <2>2
  <2>4. QED
    BY <1>2, <2>1, <2>3 DEF Work
<1>20. QED
  BY <1>4, <1>6, <1>7, <1>8, <1>9, <1>10, <1>11, <1>15, <1>16, <1>17, <1>18, <1>19 DEF Next, MainStep, WorkStep

LEMMA AccountedNext ==
    ASSUME WatchdogInd, Work, Statuses, Holders, Accounted, [Next]_vars
    PROVE  Accounted'
<1>1. RecoveryTyped /\ Control /\ RecoveryTyped' /\ Left \in 0 .. 10 /\ captured \in Seq(Session)
  BY TypedNext, AtLabel DEF WatchdogInd, Statuses
<1>2. CASE Untouching
  BY <1>2, LeavesSessions DEF Accounted, Untouched
<1>3. CASE EndCrashedSession
  <2>1. UNCHANGED <<session, mine, currentFile, captured, nextSid>>
    BY <1>3 DEF EndCrashedSession, memory
  <2>2. CASE MustEndAsCrashed
    <3>1. lost' = lost \cup SidOf(crashedFile) /\ crashedFile' = EndCrashed(currentFile)
      BY <1>3, <2>2 DEF EndCrashedSession
    <3>2. \A sid \in 1 .. (nextSid - 1) : sid = crashedFile.sid => sid \in lost'
      BY <1>1, <3>1 DEF SidOf, RecoveryTyped
    <3>3. lost \subseteq lost'
      BY <3>1
    <3>4. QED
      BY <2>1, <3>2, <3>3 DEF Accounted
  <2>3. CASE ~MustEndAsCrashed
    BY <1>3, <2>1, <2>3 DEF EndCrashedSession, Accounted
  <2>4. QED
    BY <2>2, <2>3
<1>4. CASE DeleteCurrent
  <2>1. Left = 7
    BY <1>1, <1>4, LaunchMoves DEF From
  <2>2. UNCHANGED <<session, mine, crashedFile, captured, nextSid, lost>>
    BY <1>4 DEF DeleteCurrent, memory, history
  <2>3. currentFile' = currentFile \/ crashedFile.sid = currentFile.sid
    <3>1. CASE MustEndAsCrashed
      <4>1. crashedFile = EndCrashed(currentFile) /\ currentFile \in Session
        BY <1>1, <2>1, <3>1 DEF Holders, MustEndAsCrashed, RecoveryTyped, MaybeSession
      <4>2. QED
        BY <4>1, Updates DEF IsUpdate
    <3>2. CASE ~MustEndAsCrashed
      BY <1>4, <3>2 DEF DeleteCurrent, CurrentAfterCrash
    <3>3. QED
      BY <3>1, <3>2
  <2>4. QED
    BY <2>2, <2>3 DEF Accounted
<1>5. CASE CloseCachedSession
  <2>1. Left = 2 /\ Activating = 0 /\ Ending = 0
    BY <1>1, <1>5, LaunchMoves DEF From
  <2>2. mine = NoSession
    BY <2>1 DEF Holders
  <2>3. UNCHANGED <<session, crashedFile, captured, nextSid, lost>>
    BY <1>5 DEF CloseCachedSession, history
  <2>4. currentFile' = currentFile \/ mine'.sid = currentFile.sid
    <3>1. currentFile \in Session => /\ EndExited(currentFile).sid = currentFile.sid
                                     /\ EndAbnormal(currentFile).sid = currentFile.sid
      BY Updates DEF IsUpdate
    <3>2. QED
      BY <1>1, <1>5, <3>1 DEF CloseCachedSession, MayClose, RecoveryTyped, MaybeSession
  <2>5. \A sid \in 1 .. (nextSid - 1) : sid # mine.sid
    BY <1>1, <2>2, SessionFacts DEF RecoveryTyped
  <2>6. QED
    BY <2>3, <2>4, <2>5 DEF Accounted
<1>6. CASE CaptureMine
  <2>1. UNCHANGED <<session, currentFile, crashedFile, nextSid, lost>>
    BY <1>6 DEF CaptureMine, files
  <2>2. CASE mine = NoSession
    <3>1. UNCHANGED <<captured, mine>>
      BY <1>6, <2>2 DEF CaptureMine
    <3>2. QED
      BY <2>1, <3>1 DEF Accounted
  <2>3. CASE mine # NoSession
    <3>1. mine \in Session /\ captured' = Append(captured, mine)
      BY <1>1, <1>6, <2>3 DEF CaptureMine, RecoveryTyped, MaybeSession
    <3>2. IsEnded(mine)
      BY <2>3 DEF Statuses, IsEnded
    <3>3. EndedIn(captured', mine.sid) /\ \A sid : EndedIn(captured, sid) => EndedIn(captured', sid)
      BY <1>1, <3>1, <3>2, AppendedFacts
    <3>4. QED
      BY <2>1, <3>3 DEF Accounted
  <2>4. QED
    BY <2>2, <2>3
<1>7. CASE StartSession \/ EndSession
  <2>1. Left = 0 /\ ((Activating \in {4, 6} /\ Ending = 0) \/ (Activating = 0 /\ Ending = 4))
    BY <1>1, <1>7, SessionMoves DEF From
  <2>2. mine = NoSession /\ currentFile = session
    BY <2>1 DEF Holders
  <2>3. mine' = LastSession /\ UNCHANGED <<crashedFile, captured, lost>>
    BY <1>7 DEF StartSession, EndSession, history
  <2>4. mine'.sid = session.sid
    <3>1. LastSession.sid = session.sid
      BY <1>1, LastSessionFacts DEF IsUpdate, RecoveryTyped
    <3>2. QED
      BY <2>3, <3>1
  <2>5. \A sid \in 1 .. (nextSid' - 1) : sid \in 1 .. (nextSid - 1) \/ sid = session'.sid
    <3>1. CASE StartSession
      <4>1. nextSid' = nextSid + 1 /\ session' = NewSession(nextSid, 0)
        BY <3>1 DEF StartSession
      <4>2. session'.sid = nextSid
        BY <1>1, <4>1, SessionFacts DEF RecoveryTyped
      <4>3. QED
        BY <1>1, <4>1, <4>2 DEF RecoveryTyped
    <3>2. CASE EndSession
      BY <3>2 DEF EndSession, history
    <3>3. QED
      BY <1>7, <3>1, <3>2
  <2>6. \A sid \in 1 .. (nextSid - 1) : sid # mine.sid
    BY <1>1, <2>2, SessionFacts DEF RecoveryTyped
  <2>7. QED
    BY <2>2, <2>3, <2>4, <2>5, <2>6 DEF Accounted
<1>8. CASE CaptureInit
  <2>1. Activating = 3
    BY <1>1, <1>8, SessionMoves DEF From
  <2>2. session \in Session
    BY <1>1, <2>1 DEF Holders, RecoveryTyped, MaybeSession
  <2>3. captured' = Append(captured, session)
        /\ UNCHANGED <<session, mine, currentFile, crashedFile, nextSid, lost>>
    BY <1>8 DEF CaptureInit, files, memory
  <2>4. \A sid : EndedIn(captured, sid) => EndedIn(captured', sid)
    BY <1>1, <2>2, <2>3, AppendedFacts
  <2>5. QED
    BY <2>3, <2>4 DEF Accounted
<1>9. CASE CaptureError
  <2>1. Left = 0 /\ session \in Session
    BY <1>1, <1>9 DEF CaptureError, Holders, RecoveryTyped, MaybeSession
  <2>2. /\ session' = IncrementErrors(session) /\ currentFile' = session' /\ captured' = Append(captured, session')
        /\ UNCHANGED <<mine, crashedFile, nextSid, lost>>
    BY <1>9 DEF CaptureError
  <2>3. session' \in Session /\ session'.sid = session.sid
    BY <2>1, <2>2, Updates DEF IsUpdate
  <2>4. currentFile = session
    BY <2>1 DEF Holders
  <2>5. \A sid : EndedIn(captured, sid) => EndedIn(captured', sid)
    BY <1>1, <2>2, <2>3, AppendedFacts
  <2>6. QED
    BY <2>2, <2>3, <2>4, <2>5 DEF Accounted
<1>10. ASSUME NEW q \in Queue, CaptureCrashEvent(q) PROVE Accounted'
  <2>1. UNCHANGED <<session, mine, currentFile, crashedFile, nextSid>> /\ lost \subseteq lost'
    BY <1>10 DEF CaptureCrashEvent, files, memory
  <2>2. \A sid : EndedIn(captured, sid) => EndedIn(captured', sid)
    <3>1. captured' = captured \/ (crashedFile \in Session /\ captured' = Append(captured, crashedFile))
      BY <1>1, <1>10 DEF CaptureCrashEvent, RecoveryTyped, MaybeSession
    <3>2. crashedFile \in Session => \A sid : EndedIn(captured, sid) => EndedIn(Append(captured, crashedFile), sid)
      BY <1>1, AppendedFacts
    <3>3. QED
      BY <3>1, <3>2
  <2>3. QED
    BY <2>1, <2>2 DEF Accounted
<1>11. ASSUME NEW q \in Queue, DeleteCrashedSession(q) PROVE Accounted'
  <2>1. UNCHANGED <<session, mine, currentFile, captured, nextSid, lost>>
    BY <1>11 DEF DeleteCrashedSession, memory, history
  <2>2. Settled
    <3>1. work[q] # <<>> /\ work[q] \in Seq(WorkLabel) /\ Head(work[q]) = "deleteCrashed"
      BY <1>1, <1>11 DEF DeleteCrashedSession, NextWork, RecoveryTyped
    <3>2. 1 \in DOMAIN work[q] /\ work[q][1] = "deleteCrashed"
      BY <3>1
    <3>3. QED
      BY <3>2 DEF Work
  <2>3. \A sid \in 1 .. (nextSid - 1) : sid = crashedFile.sid => EndedIn(captured, sid) \/ sid \in lost
    BY <1>1, <2>2, SessionFacts DEF Settled, RecoveryTyped
  <2>4. QED
    BY <2>1, <2>3 DEF Accounted
<1>12. CASE Killed \/ Crashes \/ Exits
  <2>1. /\ lost' = lost \cup SidOf(mine)
        /\ UNCHANGED <<currentFile, crashedFile, captured, nextSid>>
    BY <1>12 DEF Killed, Crashes, Exits, Dies
  <2>2. session = NoSession \/ currentFile = session
    BY <1>1 DEF Holders
  <2>3. \A sid \in 1 .. (nextSid - 1) : sid = session.sid => sid = currentFile.sid
    BY <1>1, <2>2, SessionFacts DEF RecoveryTyped
  <2>4. \A sid \in 1 .. (nextSid - 1) : sid = mine.sid => sid \in lost'
    BY <1>1, <2>1 DEF SidOf, RecoveryTyped
  <2>5. lost \subseteq lost'
    BY <2>1
  <2>6. QED
    BY <2>1, <2>3, <2>4, <2>5 DEF Accounted
<1>13. QED
  BY <1>2, <1>3, <1>4, <1>5, <1>6, <1>7, <1>8, <1>9, <1>10, <1>11, <1>12, StepKinds

LEMMA SessionsInit == Init => SessionsInd
<1> SUFFICES ASSUME Init PROVE SessionsInd
  OBVIOUS
<1>1. Left = 10 /\ Activating = 0 /\ Ending = 0
  <2>1. todo = Launch /\ Launch # <<>>
    BY DEF Init, Launch
  <2>2. QED
    BY <2>1, ProgramSteps DEF Left, Activating, Ending, StepsTo
<1>2. \A q \in Queue : work[q] = <<>> /\ DOMAIN work[q] = {}
  BY DEF Init
<1>3. Work
  BY <1>1, <1>2 DEF Work, Queue
<1>4. Statuses
  BY SessionFacts DEF Init, Statuses
<1>5. Holders
  BY <1>1 DEF Init, Holders
<1>6. Accounted
  BY DEF Init, Accounted
<1>7. QED
  BY <1>3, <1>4, <1>5, <1>6 DEF SessionsInd

LEMMA SessionsAlways == Spec => []SessionsInd
<1>1. WatchdogInd /\ SessionsInd /\ [Next]_vars => SessionsInd'
  BY WorkNext, StatusesNext, HoldersNext, AccountedNext DEF SessionsInd
<1>2. QED
  BY <1>1, SessionsInit, WatchdogAlways, PTL DEF Spec

(* No session gets lost silently (SentrySessionTracker,                    *)
(* SentrySessionCrashedHandler): it is current, on disk, about to be       *)
(* captured or captured with an end, or one of the known ways to lose it   *)
(* happened.  When a launch has done its work, the session file is that of *)
(* this process and no crash report is left.                               *)
THEOREM SessionsSurvive == Spec => []NoSessionLost
<1>1. WatchdogInd /\ SessionsInd => NoSessionLost
  <2> SUFFICES ASSUME WatchdogInd, SessionsInd
               PROVE  Accounted /\ (Quiet => currentFile = session /\ reports = 0)
    BY DEF NoSessionLost, Accounted
  <2>1. Quiet => Left = 0 /\ work["crash"] = <<>>
    BY AtLabel DEF Quiet, Queue, WatchdogInd
  <2>2. QED
    BY <2>1 DEF SessionsInd, Holders, Work
<1>2. QED
  BY <1>1, WatchdogAlways, SessionsAlways, PTL

----------------------------------------------------------------------------
(* How sessions ended.                                                     *)
Survived == UNCHANGED <<fate, lastDeath, unsettled>>

LEMMA DiesOrNot ==
    ASSUME [Next]_vars
    PROVE  Survived \/ Killed \/ Crashes \/ Exits
<1>1. CASE MainStep
  BY <1>1 DEF Survived, MainStep, Boot, Install, EndCrashedSession, DeleteCurrent, SendReports, AwaitReports,
              StoreAppState, EndCachedSession, CloseCachedSession, CaptureMine, StartSession, CaptureInit,
              EndSession, DeleteTimestamp, history
<1>2. CASE \/ DidBecomeActive \/ WillResignActive \/ WillTerminate \/ UpdateAppState \/ CaptureError
           \/ CheckWatchdog \/ DeleteAllReports \/ Rest \/ UNCHANGED vars
  BY <1>2 DEF Survived, DidBecomeActive, WillResignActive, WillTerminate, UpdateAppState, CaptureError,
              CheckWatchdog, DeleteAllReports, Rest, vars, history
<1>3. CASE \E q \in Queue : WorkStep(q)
  BY <1>3 DEF Survived, WorkStep, CaptureCrashEvent, EventWithoutSession, DeleteCrashedSession, history
<1>4. QED
  BY <1>1, <1>2, <1>3 DEF Next

\* A launch, a session or a queue at work shows that the process lives on.
LEMMA NoDeath ==
    ASSUME Control, [Next]_vars, Left' # 10 \/ session' # NoSession
    PROVE  Survived
  BY DiesOrNot, OtherMoves DEF To, Killed, Crashes, Exits, Dies, Started

LEMMA LatestAppended ==
    ASSUME NEW c \in Seq(Session), NEW u \in Session, NEW s, s.seq \in Nat, LatestIn(c, s), u.sid = s.sid => u = s
    PROVE  LatestIn(Append(c, u), s)
<1>1. /\ DOMAIN Append(c, u) = (DOMAIN c) \cup {Len(c) + 1}
      /\ \A i \in DOMAIN c : Append(c, u)[i] = c[i]
      /\ Append(c, u)[Len(c) + 1] = u
  BY AppendedFacts
<1>2. QED
  BY <1>1 DEF LatestIn

LEMMA LaterAppended ==
    ASSUME NEW c \in Seq(Session), NEW u \in Session, NEW s, LaterIn(c, s), u.sid # s.sid
    PROVE  LaterIn(Append(c, u), s)
<1>1. /\ DOMAIN Append(c, u) = (DOMAIN c) \cup {Len(c) + 1}
      /\ \A i \in DOMAIN c : Append(c, u)[i] = c[i]
      /\ Append(c, u)[Len(c) + 1] = u
  BY AppendedFacts
<1>2. QED
  BY <1>1 DEF LaterIn

LEMMA UpdateIsLater ==
    ASSUME NEW c \in Seq(Session), NEW s \in Session, NEW x, NEW status, IsUpdate(x, s, status), LatestIn(c, s)
    PROVE  LaterIn(c, x) /\ LatestIn(c, x)
<1>1. s.seq \in Nat /\ x.sid = s.sid /\ x.seq = s.seq + 1
  BY SessionFacts DEF IsUpdate
<1>2. \A i \in DOMAIN c : c[i] \in Session /\ c[i].seq \in Nat
  BY SessionFacts
<1>3. ASSUME NEW i \in DOMAIN c, c[i].sid = x.sid PROVE c[i].seq < x.seq
  <2>1. c[i].seq <= s.seq
    BY <1>1, <1>3 DEF LatestIn
  <2>2. QED
    BY <1>1, <1>2, <2>1
<1>4. \A i \in DOMAIN c : c[i].sid = x.sid => c[i].seq <= x.seq /\ c[i].seq # x.seq
  BY <1>1, <1>2, <1>3
<1>5. QED
  BY <1>3, <1>4 DEF LaterIn, LatestIn

\* Nobody has ended a session that goes on.
LEMMA NotEndedAppended ==
    ASSUME NEW c \in Seq(Session), NEW u \in Session, NEW sid, ~EndedIn(c, sid), u.sid = sid => ~IsEnded(u)
    PROVE  ~EndedIn(Append(c, u), sid)
<1>1. /\ DOMAIN Append(c, u) = (DOMAIN c) \cup {Len(c) + 1}
      /\ \A i \in DOMAIN c : Append(c, u)[i] = c[i]
      /\ Append(c, u)[Len(c) + 1] = u
  BY AppendedFacts
<1>2. QED
  BY <1>1 DEF EndedIn

LEMMA NumberedNext ==
    ASSUME WatchdogInd, SessionsInd, Numbered, [Next]_vars
    PROVE  Numbered'
<1>1. /\ RecoveryTyped /\ RecoveryTyped' /\ Control /\ Left \in 0 .. 10 /\ captured \in Seq(Session)
      /\ nextSid \in Nat \ {0} /\ moves \in Nat /\ MaxMoves \in Nat /\ NoSession.sid = 0
      /\ Activating \in 0 .. 6
  BY TypedNext, AtLabel, SessionFacts, RecoveryAssumption DEF WatchdogInd, SessionsInd, Statuses, RecoveryTyped
<1>2. ASSUME UNCHANGED <<nextSid, captured, fate>>, session'.sid < nextSid, mine'.sid < nextSid,
             currentFile'.sid < nextSid, crashedFile'.sid < nextSid, moves' <= MaxMoves,
             \/ UNCHANGED moves /\ (Activating' >= 4 => Activating >= 4)
             \/ moves' = moves + 1
      PROVE  Numbered'
  <2>1. nextSid' + (IF Activating' >= 4 THEN 1 ELSE 0) <= moves' + 1
    BY <1>1, <1>2 DEF Numbered
  <2>2. QED
    BY <1>2, <2>1 DEF Numbered
<1>3. CASE Untouching
  <2>1. Untouched
    BY <1>3, LeavesSessions
  <2>2. UNCHANGED fate
    <3>1. Survived \/ Killed \/ Crashes \/ Exits
      BY DiesOrNot
    <3>2. QED
      BY <1>3 DEF Untouching, Boot, Install, SendReports, AwaitReports, StoreAppState, EndCachedSession,
                  DeleteTimestamp, DidBecomeActive, WillResignActive, WillTerminate, UpdateAppState,
                  CheckWatchdog, DeleteAllReports, EventWithoutSession, Rest, vars, history
  <2>3. CASE DidBecomeActive \/ WillResignActive
    <3>1. moves' = moves + 1 /\ moves' <= MaxMoves
      <4>1. moves < MaxMoves /\ moves' = moves + 1
        BY <2>3 DEF DidBecomeActive, WillResignActive, Notified
      <4>2. QED
        BY <1>1, <4>1
    <3>2. QED
      BY <1>2, <2>1, <2>2, <3>1 DEF Untouched, Numbered
  <2>4. CASE \/ Boot \/ Install \/ SendReports \/ AwaitReports \/ StoreAppState \/ EndCachedSession
             \/ DeleteTimestamp \/ WillTerminate
    <3>1. UNCHANGED moves
      BY <2>4 DEF Boot, Install, SendReports, AwaitReports, StoreAppState, EndCachedSession,
                  DeleteTimestamp, WillTerminate, environment
    <3>2. Activating' = 0
      BY <1>1, <2>4, LaunchMoves, SessionMoves, OtherMoves DEF To
    <3>3. QED
      BY <1>2, <2>1, <2>2, <3>1, <3>2 DEF Untouched, Numbered
  <2>5. CASE \/ UpdateAppState \/ CheckWatchdog \/ DeleteAllReports
             \/ (\E q \in Queue : EventWithoutSession(q)) \/ Rest \/ UNCHANGED vars
    <3>1. UNCHANGED moves
      BY <2>5 DEF UpdateAppState, CheckWatchdog, DeleteAllReports, EventWithoutSession, Rest, vars, environment
    <3>2. Activating' = Activating
      BY <1>1, <2>5, SideSteps DEF WorkStep
    <3>3. QED
      BY <1>2, <2>1, <2>2, <3>1, <3>2 DEF Untouched, Numbered
  <2>6. QED
    BY <1>3, <2>3, <2>4, <2>5 DEF Untouching
<1>4. CASE EndCrashedSession
  <2>1. UNCHANGED <<nextSid, captured, fate, session, mine, currentFile, moves>>
    BY <1>4 DEF EndCrashedSession, memory, environment
  <2>2. Activating' = 0
    BY <1>1, <1>4, LaunchMoves DEF To
  <2>3. crashedFile' = crashedFile \/ (currentFile \in Session /\ crashedFile' = EndCrashed(currentFile))
    BY <1>1, <1>4 DEF EndCrashedSession, MustEndAsCrashed, RecoveryTyped, MaybeSession
  <2>4. currentFile \in Session => EndCrashed(currentFile).sid = currentFile.sid
    BY Updates DEF IsUpdate
  <2>5. crashedFile'.sid < nextSid
    BY <2>3, <2>4 DEF Numbered
  <2>6. QED
    BY <1>2, <2>1, <2>2, <2>5 DEF Numbered
<1>5. CASE DeleteCurrent
  <2>1. UNCHANGED <<nextSid, captured, fate, session, mine, crashedFile, moves>>
    BY <1>5 DEF DeleteCurrent, memory, environment, history
  <2>2. currentFile' = currentFile \/ currentFile' = NoSession
    BY <1>5 DEF DeleteCurrent, CurrentAfterCrash
  <2>3. Activating' = 0
    BY <1>1, <1>5, LaunchMoves DEF To
  <2>4. currentFile'.sid < nextSid
    BY <1>1, <2>2 DEF Numbered
  <2>5. QED
    BY <1>2, <2>1, <2>3, <2>4 DEF Numbered
<1>6. CASE CloseCachedSession
  <2>1. UNCHANGED <<nextSid, captured, fate, session, crashedFile, moves>>
    BY <1>6 DEF CloseCachedSession, environment, history
  <2>2. Activating' = 0
    BY <1>1, <1>6, LaunchMoves DEF To
  <2>3. currentFile' = currentFile \/ currentFile' = NoSession
    BY <1>6 DEF CloseCachedSession
  <2>4. \/ mine' = mine
        \/ currentFile \in Session /\ (mine' = EndExited(currentFile) \/ mine' = EndAbnormal(currentFile))
    BY <1>1, <1>6 DEF CloseCachedSession, MayClose, RecoveryTyped, MaybeSession
  <2>5. currentFile \in Session => EndExited(currentFile).sid = currentFile.sid
                                   /\ EndAbnormal(currentFile).sid = currentFile.sid
    BY Updates DEF IsUpdate
  <2>6. currentFile'.sid < nextSid /\ mine'.sid < nextSid
    BY <1>1, <2>3, <2>4, <2>5 DEF Numbered
  <2>7. QED
    BY <1>2, <2>1, <2>2, <2>6 DEF Numbered
<1>7. LastSession.sid = session.sid
  BY <1>1, LastSessionFacts DEF IsUpdate, RecoveryTyped
<1>8. CASE EndSession
  <2>1. UNCHANGED <<nextSid, captured, fate, crashedFile, moves>>
    BY <1>8 DEF EndSession, environment, history
  <2>2. session' = NoSession /\ currentFile' = NoSession /\ mine' = LastSession
    BY <1>8 DEF EndSession
  <2>3. Activating' >= 4 => Activating >= 4
    BY <1>1, <1>8, SessionMoves DEF From, To
  <2>4. session'.sid < nextSid /\ currentFile'.sid < nextSid /\ mine'.sid < nextSid
    BY <1>1, <1>7, <2>2 DEF Numbered
  <2>5. QED
    BY <1>2, <2>1, <2>3, <2>4 DEF Numbered
<1>9. CASE StartSession
  <2>1. UNCHANGED <<captured, fate, crashedFile, moves>> /\ nextSid' = nextSid + 1
    BY <1>9 DEF StartSession, environment
  <2>2. session' = NewSession(nextSid, 0) /\ currentFile' = session' /\ mine' = LastSession
    BY <1>9 DEF StartSession
  <2>3. Activating = 4 /\ Activating' = 3
    BY <1>1, <1>9, SessionMoves DEF From, To
  <2>4. session'.sid = nextSid
    BY <1>1, <2>2, SessionFacts
  <2>5. nextSid + 1 <= moves + 1
    BY <2>3 DEF Numbered
  <2>6. \A s \in {session, mine, currentFile, crashedFile} : s.sid < nextSid /\ s.sid \in Nat
    BY <1>1, SessionFacts DEF Numbered, RecoveryTyped, MaybeSession
  <2>7. session'.sid < nextSid' /\ currentFile'.sid < nextSid' /\ mine'.sid < nextSid' /\ crashedFile'.sid < nextSid'
    BY <1>1, <1>7, <2>1, <2>2, <2>4, <2>6
  <2>8. \A i \in DOMAIN captured : captured[i].sid < nextSid'
    <3>1. \A i \in DOMAIN captured : captured[i].sid < nextSid /\ captured[i].sid \in Nat
      BY <1>1, SessionFacts DEF Numbered
    <3>2. QED
      BY <1>1, <2>1, <3>1
  <2>9. \A n \in Sids : n >= nextSid' => fate[n] = "alive"
    <3>1. \A n \in Sids : n \in Nat
      BY <1>1 DEF Sids
    <3>2. QED
      BY <1>1, <2>1, <3>1 DEF Numbered
  <2>10. nextSid' + 0 <= moves' + 1
    BY <1>1, <2>1, <2>5
  <2>11. QED
    BY <2>1, <2>3, <2>7, <2>8, <2>9, <2>10 DEF Numbered
<1>10. ASSUME NEW u \in Session, u.sid < nextSid, captured' = Append(captured, u),
              UNCHANGED <<nextSid, fate, crashedFile>>, currentFile' = currentFile \/ currentFile' = u,
              session' = session \/ session' = u, mine' = mine \/ mine' = NoSession,
              UNCHANGED moves \/ (moves' = moves + 1 /\ moves < MaxMoves),
              Activating' >= 4 => Activating >= 4
       PROVE  Numbered'
  <2>1. \A i \in DOMAIN captured' : captured'[i].sid < nextSid
    BY <1>1, <1>10, AppendedFacts DEF Numbered
  <2>2. nextSid' + (IF Activating' >= 4 THEN 1 ELSE 0) <= moves' + 1 /\ moves' <= MaxMoves
    BY <1>1, <1>10 DEF Numbered
  <2>3. session'.sid < nextSid /\ mine'.sid < nextSid /\ currentFile'.sid < nextSid /\ crashedFile'.sid < nextSid
    BY <1>1, <1>10 DEF Numbered
  <2>4. QED
    BY <1>10, <2>1, <2>2, <2>3 DEF Numbered
<1>11. CASE CaptureMine
  <2>1. UNCHANGED <<nextSid, fate, session, currentFile, crashedFile, moves>> /\ mine' = NoSession
    BY <1>11 DEF CaptureMine, files, environment
  <2>2. Activating' >= 4 => Activating >= 4
    BY <1>1, <1>11, SessionMoves DEF From, To
  <2>3. CASE mine = NoSession
    <3>1. UNCHANGED captured
      BY <1>11, <2>3 DEF CaptureMine
    <3>2. QED
      BY <1>1, <1>2, <2>1, <2>2, <3>1 DEF Numbered
  <2>4. CASE mine # NoSession
    <3>1. mine \in Session /\ captured' = Append(captured, mine)
      BY <1>1, <1>11, <2>4 DEF CaptureMine, RecoveryTyped, MaybeSession
    <3>2. mine.sid < nextSid
      BY DEF Numbered
    <3>3. UNCHANGED <<nextSid, fate, currentFile, crashedFile>> /\ UNCHANGED moves /\ session' = session
      BY <2>1
    <3>4. QED
      BY <1>10, <2>1, <2>2, <3>1, <3>2, <3>3
  <2>5. QED
    BY <2>3, <2>4
<1>12. CASE CaptureInit
  <2>1. Activating = 3 /\ Activating' = 2
    BY <1>1, <1>12, SessionMoves DEF From, To
  <2>2. session \in Session
    BY <1>1, <2>1 DEF SessionsInd, Holders, RecoveryTyped, MaybeSession
  <2>3. captured' = Append(captured, session)
        /\ UNCHANGED <<nextSid, fate, session, mine, currentFile, crashedFile, moves>>
    BY <1>12 DEF CaptureInit, files, memory, environment
  <2>4. QED
    BY <1>10, <2>1, <2>2, <2>3 DEF Numbered
<1>13. CASE CaptureError
  <2>1. session \in Session /\ session' = IncrementErrors(session) /\ currentFile' = session'
        /\ captured' = Append(captured, session') /\ UNCHANGED <<nextSid, fate, mine, crashedFile>>
    BY <1>1, <1>13 DEF CaptureError, RecoveryTyped, MaybeSession
  <2>2. session' \in Session /\ session'.sid = session.sid
    BY <2>1, Updates DEF IsUpdate
  <2>3. Activating' = Activating /\ moves' = moves + 1 /\ moves < MaxMoves
    BY <1>1, <1>13, SideSteps DEF CaptureError
  <2>4. session'.sid < nextSid
    BY <2>2 DEF Numbered
  <2>5. QED
    BY <1>10, <2>1, <2>2, <2>3, <2>4
<1>14. ASSUME NEW q \in Queue, CaptureCrashEvent(q) PROVE Numbered'
  <2>1. UNCHANGED <<nextSid, fate, session, mine, currentFile, crashedFile, moves>>
    BY <1>14 DEF CaptureCrashEvent, files, memory, environment
  <2>2. captured' = captured \/ (crashedFile \in Session /\ captured' = Append(captured, crashedFile))
    BY <1>1, <1>14 DEF CaptureCrashEvent, RecoveryTyped, MaybeSession
  <2>3. Activating' = Activating
    BY <1>1, <1>14, SideSteps DEF WorkStep
  <2>4. CASE captured' = captured
    BY <1>2, <2>1, <2>3, <2>4 DEF Numbered
  <2>5. CASE crashedFile \in Session /\ captured' = Append(captured, crashedFile)
    BY <1>10, <2>1, <2>3, <2>5 DEF Numbered
  <2>6. QED
    BY <2>2, <2>4, <2>5
<1>15. ASSUME NEW q \in Queue, DeleteCrashedSession(q) PROVE Numbered'
  <2>1. UNCHANGED <<nextSid, captured, fate, session, mine, currentFile, moves>> /\ crashedFile' = NoSession
    BY <1>15 DEF DeleteCrashedSession, memory, environment, history
  <2>2. Activating' = Activating
    BY <1>1, <1>15, SideSteps DEF WorkStep
  <2>3. QED
    BY <1>1, <1>2, <2>1, <2>2 DEF Numbered
<1>16. CASE Killed \/ Crashes \/ Exits
  <2>1. /\ UNCHANGED <<nextSid, captured, moves, currentFile, crashedFile>>
        /\ session' = NoSession /\ mine' = NoSession
    BY <1>16 DEF Killed, Crashes, Exits, Dies, Started
  <2>2. PICK how : fate' = IF session = NoSession THEN fate ELSE [fate EXCEPT ![session.sid] = how]
    BY <1>16 DEF Killed, Crashes, Exits, Dies
  <2>3. \A n \in Sids : n >= nextSid => fate'[n] = "alive"
    <3>1. \A n \in Sids : n >= nextSid => n # session.sid
      <4>1. session.sid \in Nat /\ session.sid < nextSid
        BY <1>1, SessionFacts DEF Numbered, RecoveryTyped, MaybeSession
      <4>2. \A n \in Sids : n \in Nat
        BY <1>1 DEF Sids
      <4>3. QED
        BY <1>1, <4>1, <4>2
    <3>2. QED
      BY <1>1, <2>2, <3>1 DEF Numbered, RecoveryTyped
  <2>4. Activating' = 0
    BY <1>1, <1>16, OtherMoves DEF To
  <2>5. nextSid' + 0 <= moves' + 1
    BY <1>1, <2>1 DEF Numbered
  <2>6. QED
    BY <1>1, <2>1, <2>3, <2>4, <2>5 DEF Numbered
<1>17. QED
  BY <1>3, <1>4, <1>5, <1>6, <1>8, <1>9, <1>11, <1>12, <1>13, <1>14, <1>15, <1>16, StepKinds

\* The sessions of a process that dies: the current one is that of the
\* file, the others are given up.
LEMMA AtDeath ==
    ASSUME WatchdogInd, SessionsInd, Numbered, Apart, Killed \/ Crashes \/ Exits
    PROVE  /\ session' = NoSession /\ mine' = NoSession /\ ~Fresh(crashedFile)'
           /\ UNCHANGED <<currentFile, crashedFile, captured>> /\ unsettled \subseteq unsettled'
           /\ Fresh(currentFile)' => session # NoSession /\ currentFile = session
           /\ session # NoSession => session.sid \in Sids
<1>1. RecoveryTyped /\ Control /\ MaxMoves \in Nat
  BY RecoveryAssumption DEF WatchdogInd
<1>2. /\ session' = NoSession /\ mine' = NoSession /\ UNCHANGED <<currentFile, crashedFile, captured>>
      /\ unsettled' = unsettled \cup ((SidOf(currentFile) \cup SidOf(crashedFile)) \ SidOf(session))
  BY DEF Killed, Crashes, Exits, Dies, Started
<1>3. \A s \in {session, currentFile, crashedFile} : s # NoSession => s.sid \in Nat \ {0} /\ SidOf(s) = {s.sid}
  BY <1>1, SessionFacts DEF RecoveryTyped, MaybeSession, SidOf
<1>4. session = NoSession => SidOf(session) = {}
  BY SessionFacts DEF SidOf
<1>5. ~Fresh(crashedFile)'
  <2>1. CASE crashedFile = NoSession
    BY <1>2, <2>1 DEF Fresh
  <2>2. CASE crashedFile # NoSession
    <3>1. crashedFile.sid \in SidOf(crashedFile)
      BY <1>3, <2>2
    <3>2. crashedFile.sid \notin SidOf(session)
      BY <1>3, <1>4 DEF Apart
    <3>3. crashedFile.sid \in unsettled'
      BY <1>2, <3>1, <3>2
    <3>4. QED
      BY <1>2, <3>3 DEF Fresh
  <2>3. QED
    BY <2>1, <2>2
<1>6. Fresh(currentFile)' => session # NoSession /\ currentFile = session
  <2> SUFFICES ASSUME Fresh(currentFile)'
               PROVE  session # NoSession /\ currentFile = session
    OBVIOUS
  <2>1. currentFile # NoSession /\ currentFile.sid \notin unsettled'
    BY <1>2 DEF Fresh
  <2>2. currentFile.sid \in SidOf(currentFile)
    BY <1>3, <2>1
  <2>3. currentFile.sid \in SidOf(session)
    BY <1>2, <2>1, <2>2
  <2>4. session # NoSession
    BY <1>4, <2>3
  <2>5. Left \in 0 .. 10
    BY <1>1, AtLabel
  <2>6. currentFile = session
    BY <2>4, <2>5 DEF SessionsInd, Holders
  <2>7. QED
    BY <2>4, <2>6
<1>7. session # NoSession => session.sid \in Sids
  <2>1. session.sid < nextSid /\ nextSid <= moves + 1 /\ moves <= MaxMoves /\ nextSid \in Nat /\ moves \in Nat
    BY <1>1 DEF Numbered, RecoveryTyped
  <2>2. QED
    BY <1>1, <1>3, <2>1 DEF Sids
<1>8. QED
  BY <1>2, <1>5, <1>6, <1>7

LEMMA DeathIsToldByDeath ==
    ASSUME WatchdogInd, SessionsInd, Numbered, Apart, DeathIsTold, Killed \/ Crashes \/ Exits
    PROVE  DeathIsTold'
<1>1. RecoveryTyped /\ Control
  BY DEF WatchdogInd
<1>2. Left' = 10 /\ Activating' = 0
  BY <1>1, OtherMoves DEF To
<1>3. session' = NoSession
  BY AtDeath
<1>4. ASSUME Fresh(currentFile)'
      PROVE  /\ fate'[currentFile'.sid] = lastDeath' /\ lastDeath' \in {"crashed", "active", "background"}
             /\ crashState' <=> lastDeath' = "crashed"
             /\ lastDeath' = "background" => lastInForeground'
  <2>1. session # NoSession /\ currentFile = session /\ UNCHANGED currentFile /\ session.sid \in Sids
    BY <1>4, AtDeath
  <2>2. Left = 0 /\ Ending \notin 1 .. 3
    BY <1>1, <2>1, AtLabel DEF SessionsInd, Holders
  <2>3. ~At("boot") /\ ~Exits /\ ~crashState
    BY <1>1, <2>2, AtLabel, OtherMoves DEF DeathIsTold
  <2>4. foreground \/ lastInForeground
    BY <2>1 DEF DeathIsTold
  <2>5. ASSUME NEW how, Dies(how) PROVE fate'[currentFile'.sid] = how /\ lastDeath' = how /\ UNCHANGED lastInForeground
    BY <1>1, <2>1, <2>3, <2>5 DEF Dies, RecoveryTyped
  <2>6. CASE Killed
    <3>1. Dies(IF foreground \/ stateUpdates # <<>> THEN "active" ELSE "background") /\ UNCHANGED crashState
      BY <2>6 DEF Killed
    <3>2. PICK how : how = IF foreground \/ stateUpdates # <<>> THEN "active" ELSE "background"
      OBVIOUS
    <3>3. Dies(how)
      BY <3>1, <3>2
    <3>4. fate'[currentFile'.sid] = how /\ lastDeath' = how /\ UNCHANGED lastInForeground
      BY <2>5, <3>3
    <3>5. how \in {"active", "background"} /\ (how = "background" => lastInForeground)
      BY <2>4, <3>2
    <3>6. QED
      BY <2>3, <3>1, <3>4, <3>5
  <2>7. CASE Crashes
    BY <2>5, <2>7 DEF Crashes
  <2>8. QED
    BY <2>3, <2>6, <2>7
<1>5. (CrashFlag' <=> crashState') /\ (Timestamp' <=> lastInForeground')
  BY <1>2 DEF CrashFlag, Timestamp
<1>6. QED
  BY <1>2, <1>3, <1>4, <1>5 DEF DeathIsTold

LEMMA DeathIsToldNext ==
    ASSUME WatchdogInd, SessionsInd, Numbered, Apart, DeathIsTold, [Next]_vars
    PROVE  DeathIsTold'
<1>1. RecoveryTyped /\ Control /\ Left \in 0 .. 10
  BY AtLabel DEF WatchdogInd
<1>2. CASE Killed \/ Crashes \/ Exits
  BY <1>2, DeathIsToldByDeath
<1>3. CASE Survived
  <2>1. UNCHANGED <<fate, lastDeath, unsettled>>
    BY <1>3 DEF Survived
  <2>2. CASE Boot
    <3>1. Left = 10 /\ Left' = 9 /\ Activating' = 0 /\ UNCHANGED <<currentFile, crashState, lastInForeground, session>>
      BY <1>1, <2>2, LaunchMoves DEF From, To, Boot, memory
    <3>2. session = NoSession
      BY <3>1 DEF SessionsInd, Holders
    <3>3. (CrashFlag' <=> CrashFlag) /\ (Timestamp' <=> Timestamp) /\ (Fresh(currentFile)' <=> Fresh(currentFile))
      BY <2>1, <3>1 DEF CrashFlag, Timestamp, Fresh
    <3>4. QED
      BY <2>1, <3>1, <3>2, <3>3 DEF DeathIsTold
  <2>3. CASE Install
    <3>1. Left = 9 /\ Left' = 8 /\ Activating' = 0 /\ UNCHANGED <<currentFile, lastInForeground, session>>
      BY <1>1, <2>3, LaunchMoves DEF From, To, Install
    <3>2. crashedLastLaunch' = crashState /\ ~crashState'
      BY <2>3 DEF Install, CrashStateAfterInstall
    <3>3. session = NoSession
      BY <3>1 DEF SessionsInd, Holders
    <3>4. (CrashFlag' <=> CrashFlag) /\ (Timestamp' <=> Timestamp) /\ (Fresh(currentFile)' <=> Fresh(currentFile))
      BY <2>1, <3>1, <3>2 DEF CrashFlag, Timestamp, Fresh
    <3>5. QED
      BY <2>1, <3>1, <3>2, <3>3, <3>4 DEF DeathIsTold
  <2>4. CASE EndCrashedSession \/ DeleteCurrent \/ SendReports \/ AwaitReports \/ StoreAppState \/ EndCachedSession
    <3>1. Left \in 3 .. 8 /\ Left' \in 2 .. 7 /\ Activating' = 0
      BY <1>1, <2>4, LaunchMoves DEF From, To
    <3>2. UNCHANGED <<crashState, crashedLastLaunch, session>> /\ (currentFile' = currentFile \/ currentFile' = NoSession)
      BY <2>4 DEF EndCrashedSession, DeleteCurrent, SendReports, AwaitReports, StoreAppState, EndCachedSession,
                  CurrentAfterCrash, files, memory
    <3>3. session = NoSession
      BY <3>1 DEF SessionsInd, Holders
    <3>4. Timestamp' <=> Timestamp
      <4>1. CASE EndCachedSession
        <5>1. Left = 3 /\ Left' = 2 /\ closingTimestamp' = lastInForeground
          BY <1>1, <4>1, LaunchMoves DEF From, To, EndCachedSession
        <5>2. QED
          BY <5>1 DEF Timestamp
      <4>2. CASE EndCrashedSession \/ DeleteCurrent \/ SendReports \/ AwaitReports \/ StoreAppState
        <5>1. Left \in 4 .. 8 /\ Left' \in 3 .. 7
          BY <1>1, <4>2, LaunchMoves DEF From, To
        <5>2. UNCHANGED lastInForeground
          BY <4>2 DEF EndCrashedSession, DeleteCurrent, SendReports, AwaitReports, StoreAppState, files
        <5>3. QED
          BY <5>1, <5>2 DEF Timestamp
      <4>3. QED
        BY <2>4, <4>1, <4>2
    <3>5. CrashFlag' <=> CrashFlag
      BY <3>1, <3>2 DEF CrashFlag
    <3>6. Fresh(currentFile)' => Fresh(currentFile) /\ UNCHANGED currentFile
      BY <2>1, <3>2 DEF Fresh
    <3>7. QED
      BY <2>1, <3>1, <3>2, <3>3, <3>4, <3>5, <3>6 DEF DeathIsTold
  <2>5. CASE CloseCachedSession
    <3>1. Left = 2 /\ Left' = 1 /\ Activating' = 0
      BY <1>1, <2>5, LaunchMoves DEF From, To
    <3>2. currentFile' = NoSession
      BY <2>5, <3>1 DEF CloseCachedSession, MayClose, SessionsInd, Holders
    <3>3. UNCHANGED <<session, crashState>> /\ session = NoSession
      BY <2>5, <3>1 DEF CloseCachedSession, SessionsInd, Holders
    <3>4. QED
      BY <3>1, <3>2, <3>3 DEF DeathIsTold, Fresh
  <2>6. ASSUME Left \in 0 .. 8, Left' = 0, UNCHANGED crashState, Activating' > 0 => foreground',
               session' # NoSession => fate[session'.sid] = "alive" /\ (foreground' \/ lastInForeground')
        PROVE  DeathIsTold'
    BY <2>1, <2>6 DEF DeathIsTold
  <2>7. CASE CaptureMine \/ CaptureInit
    <3>1. Left \in {0, 1} /\ Left' = 0 /\ (Activating' > 0 => Activating > 0)
      BY <1>1, <2>7, SessionMoves DEF From, To
    <3>2. UNCHANGED <<crashState, foreground, lastInForeground, session>>
      BY <2>7 DEF CaptureMine, CaptureInit, files, memory, environment
    <3>3. QED
      BY <2>6, <3>1, <3>2 DEF DeathIsTold
  <2>8. CASE StartSession
    <3>1. Left = 0 /\ Left' = 0 /\ Activating = 4
      BY <1>1, <2>8, SessionMoves DEF From, To
    <3>2. UNCHANGED <<crashState, foreground, lastInForeground>> /\ session' = NewSession(nextSid, 0)
      BY <2>8 DEF StartSession, environment
    <3>3. foreground
      BY <3>1 DEF DeathIsTold
    <3>4. session'.sid = nextSid /\ nextSid \in Nat \ {0} /\ moves \in Nat /\ MaxMoves \in Nat
      BY <1>1, <3>2, SessionFacts, RecoveryAssumption DEF RecoveryTyped
    <3>5. nextSid + 1 <= moves + 1 /\ moves <= MaxMoves
      BY <3>1 DEF Numbered
    <3>6. nextSid \in Sids
      BY <3>4, <3>5 DEF Sids
    <3>7. fate[nextSid] = "alive"
      BY <3>4, <3>6 DEF Numbered
    <3>8. QED
      BY <2>6, <3>1, <3>2, <3>3, <3>4, <3>7
  <2>9. CASE EndSession
    <3>1. Left = 0 /\ Left' = 0 /\ (Activating' > 0 => Activating > 0)
      BY <1>1, <2>9, SessionMoves DEF From, To
    <3>2. UNCHANGED <<crashState, foreground>> /\ session' = NoSession
      BY <2>9 DEF EndSession, environment
    <3>3. QED
      BY <2>6, <3>1, <3>2 DEF DeathIsTold
  <2>10. CASE DeleteTimestamp
    <3>1. Left = 0 /\ Left' = 0 /\ Activating' = 0 /\ (Activating = 1 \/ Ending = 2)
      BY <1>1, <2>10, SessionMoves DEF From, To
    <3>2. UNCHANGED <<crashState, foreground, session>>
      BY <2>10 DEF DeleteTimestamp, memory, environment
    <3>3. foreground \/ session = NoSession
      BY <3>1 DEF DeathIsTold, SessionsInd, Holders
    <3>4. QED
      BY <2>6, <3>1, <3>2, <3>3 DEF DeathIsTold
  <2>11. CASE DidBecomeActive
    <3>1. Left = 0 /\ Left' = 0
      BY <1>1, <2>11, OtherMoves DEF From, To
    <3>2. UNCHANGED <<crashState, session>> /\ foreground'
      BY <2>11 DEF DidBecomeActive, files
    <3>3. QED
      BY <2>6, <3>1, <3>2 DEF DeathIsTold
  <2>12. CASE WillResignActive
    <3>1. Left = 0 /\ Left' = 0 /\ Activating' = 0
      BY <1>1, <2>12, OtherMoves DEF From, To
    <3>2. UNCHANGED <<crashState, session>> /\ lastInForeground'
      BY <2>12 DEF WillResignActive
    <3>3. QED
      BY <2>6, <3>1, <3>2 DEF DeathIsTold
  <2>13. CASE WillTerminate
    <3>1. Left = 0 /\ Left' = 0 /\ Activating' = 0
      BY <1>1, <2>13, OtherMoves DEF From, To
    <3>2. UNCHANGED <<crashState, session, foreground, lastInForeground>>
      BY <2>13 DEF WillTerminate, environment
    <3>3. QED
      BY <2>6, <3>1, <3>2 DEF DeathIsTold
  <2>14. CASE CaptureError
    <3>1. Left' = Left /\ Activating' = Activating
      BY <1>1, <2>14, SideSteps
    <3>2. session \in Session /\ session' = IncrementErrors(session)
          /\ UNCHANGED <<crashState, foreground, lastInForeground>>
      BY <1>1, <2>14 DEF CaptureError, RecoveryTyped, MaybeSession
    <3>3. session # NoSession /\ session'.sid = session.sid
      BY <3>2, Updates, SessionFacts DEF IsUpdate
    <3>4. Left = 0
      BY <1>1, <3>3 DEF SessionsInd, Holders
    <3>5. QED
      BY <2>6, <3>1, <3>2, <3>3, <3>4 DEF DeathIsTold
  <2>15. CASE \/ UpdateAppState \/ CheckWatchdog \/ DeleteAllReports
              \/ (\E q \in Queue : WorkStep(q)) \/ Rest \/ UNCHANGED vars
    <3>1. Left' = Left /\ Activating' = Activating
      BY <1>1, <2>15, SideSteps
    <3>2. UNCHANGED <<currentFile, crashState, crashedLastLaunch, closingTimestamp, foreground, lastInForeground, session>>
      BY <2>15 DEF UpdateAppState, CheckWatchdog, DeleteAllReports, WorkStep, CaptureCrashEvent,
                   EventWithoutSession, DeleteCrashedSession, Rest, vars, files, memory, environment
    <3>3. (CrashFlag' <=> CrashFlag) /\ (Timestamp' <=> Timestamp) /\ (Fresh(currentFile)' <=> Fresh(currentFile))
      BY <2>1, <3>1, <3>2 DEF CrashFlag, Timestamp, Fresh
    <3>4. QED
      BY <2>1, <3>1, <3>2, <3>3 DEF DeathIsTold
  <2>16. QED
    BY <1>2, <2>2, <2>3, <2>4, <2>5, <2>7, <2>8, <2>9, <2>10, <2>11, <2>12, <2>13, <2>14, <2>15 DEF Next, MainStep
<1>4. QED
  BY <1>2, <1>3, DiesOrNot

\* What Untouching leaves as it is.
LEMMA UntouchedTruth ==
    ASSUME WatchdogInd, Untouching, Survived
    PROVE  /\ UNCHANGED <<session, mine, currentFile, crashedFile, captured, fate, lastDeath, unsettled>>
           /\ Left' > 0 => Left > 0
           /\ Left' # 7 => Left # 7
           /\ Left' >= 8 => Left >= 8
           /\ Left' = 7 => Left = 7 /\ (MustEndAsCrashed' <=> MustEndAsCrashed)
<1>1. Control /\ Left \in 0 .. 10
  BY AtLabel DEF WatchdogInd
<1>2. UNCHANGED <<session, mine, currentFile, crashedFile, captured, fate, lastDeath, unsettled>>
  BY LeavesSessions DEF Untouched, Survived
<1>3. CASE Boot \/ Install \/ SendReports \/ AwaitReports \/ StoreAppState \/ EndCachedSession
  BY <1>1, <1>2, <1>3, LaunchMoves DEF From, To
<1>4. CASE DeleteTimestamp \/ DidBecomeActive \/ WillResignActive \/ WillTerminate
  <2>1. Left = 0 /\ Left' = 0
    BY <1>1, <1>4, SessionMoves, OtherMoves DEF From, To
  <2>2. QED
    BY <1>2, <2>1
<1>5. CASE \/ UpdateAppState \/ CheckWatchdog \/ DeleteAllReports
           \/ (\E q \in Queue : EventWithoutSession(q)) \/ Rest \/ UNCHANGED vars
  <2>1. Left' = Left
    BY <1>1, <1>5, SideSteps DEF WorkStep
  <2>2. UNCHANGED <<previousAppState, comparable, crashedLastLaunch>>
    BY <1>5 DEF UpdateAppState, CheckWatchdog, DeleteAllReports, EventWithoutSession, Rest, vars, memory, files
  <2>3. MustEndAsCrashed' <=> MustEndAsCrashed
    BY <1>2, <2>2 DEF MustEndAsCrashed, IsWatchdogTermination, WasTerminated, WasActive
  <2>4. QED
    BY <1>2, <2>1, <2>3
<1>6. QED
  BY <1>3, <1>4, <1>5 DEF Untouching

\* The steps after which no launch is under way.
LEMMA ApartWhenLaunched ==
    ASSUME Left' = 0,
           session' # NoSession => mine'.sid # session'.sid /\ crashedFile'.sid # session'.sid,
           Fresh(mine)' /\ Fresh(crashedFile)' => mine'.sid # crashedFile'.sid
    PROVE  Apart'
  BY DEF Apart

LEMMA ApartNext ==
    ASSUME WatchdogInd, SessionsInd, Numbered, Apart, [Next]_vars
    PROVE  Apart'
<1>1. /\ RecoveryTyped /\ Control /\ Left \in 0 .. 10 /\ NoSession.sid = 0
      /\ \A s \in {session, mine, currentFile, crashedFile} : s = NoSession \/ s \in Session
      /\ \A s \in Session : s.sid \in Nat \ {0}
  BY AtLabel, SessionFacts DEF WatchdogInd, RecoveryTyped, MaybeSession
<1>2. CASE Killed \/ Crashes \/ Exits
  <2>1. session' = NoSession /\ mine' = NoSession /\ ~Fresh(crashedFile)'
    BY <1>2, AtDeath
  <2>2. QED
    BY <2>1 DEF Apart
<1>3. CASE Untouching /\ Survived
  <2>1. (Fresh(mine)' <=> Fresh(mine)) /\ (Fresh(currentFile)' <=> Fresh(currentFile))
        /\ (Fresh(crashedFile)' <=> Fresh(crashedFile))
    BY <1>3, UntouchedTruth DEF Fresh
  <2>2. QED
    BY <1>3, <2>1, UntouchedTruth DEF Apart
<1>4. CASE Survived /\ EndCrashedSession
  <2>1. Left = 8 /\ Left' = 7 /\ Activating = 0 /\ Ending = 0
    BY <1>1, <1>4, LaunchMoves DEF From, To
  <2>2. session = NoSession /\ mine = NoSession /\ ~Fresh(crashedFile)
    BY <2>1 DEF SessionsInd, Holders, Apart
  <2>3. UNCHANGED <<session, mine, currentFile, previousAppState, comparable, crashedLastLaunch, unsettled>>
    BY <1>4 DEF EndCrashedSession, memory
  <2>4. MustEndAsCrashed' <=> MustEndAsCrashed
    BY <2>3 DEF MustEndAsCrashed, IsWatchdogTermination, WasTerminated, WasActive
  <2>5. ~MustEndAsCrashed' => ~Fresh(crashedFile)'
    BY <1>4, <2>2, <2>3, <2>4 DEF EndCrashedSession, Fresh
  <2>6. QED
    BY <2>1, <2>2, <2>3, <2>5 DEF Apart, Fresh
<1>5. CASE Survived /\ DeleteCurrent
  <2>1. Left = 7 /\ Left' = 6 /\ Activating = 0 /\ Ending = 0
    BY <1>1, <1>5, LaunchMoves DEF From, To
  <2>2. UNCHANGED <<session, mine, crashedFile, unsettled>> /\ session = NoSession /\ mine = NoSession
    BY <1>5, <2>1 DEF DeleteCurrent, memory, history, SessionsInd, Holders
  <2>3. currentFile' # NoSession => ~Fresh(crashedFile)
    BY <1>5, <2>1 DEF DeleteCurrent, CurrentAfterCrash, Apart
  <2>4. QED
    BY <2>1, <2>2, <2>3 DEF Apart, Fresh
<1>6. CASE Survived /\ CloseCachedSession
  <2>1. Left = 2 /\ Left' = 1 /\ Activating = 0 /\ Ending = 0
    BY <1>1, <1>6, LaunchMoves DEF From, To
  <2>2. UNCHANGED <<session, crashedFile, unsettled>> /\ session = NoSession /\ mine = NoSession
    BY <1>6, <2>1 DEF CloseCachedSession, history, SessionsInd, Holders
  <2>3. currentFile' = NoSession
    BY <1>6, <2>1 DEF CloseCachedSession, MayClose, SessionsInd, Holders
  <2>4. mine' # NoSession => currentFile \in Session /\ mine'.sid = currentFile.sid
    BY <1>1, <1>6, <2>2, Updates DEF CloseCachedSession, MayClose, IsUpdate
  <2>5. Fresh(mine)' => Fresh(currentFile)
    BY <1>1, <2>2, <2>4 DEF Fresh
  <2>6. Fresh(mine)' => ~Fresh(crashedFile)'
    BY <2>1, <2>2, <2>5 DEF Apart, Fresh
  <2>7. QED
    BY <2>1, <2>2, <2>3, <2>6 DEF Apart, Fresh
<1>7. CASE Survived /\ CaptureMine
  <2>1. Left' = 0
    BY <1>1, <1>7, SessionMoves DEF To
  <2>2. mine' = NoSession /\ UNCHANGED <<session, crashedFile, unsettled>>
    BY <1>7 DEF CaptureMine, files
  <2>3. session # NoSession => session.sid # 0
    BY <1>1
  <2>4. QED
    BY <1>1, <2>1, <2>2, <2>3, ApartWhenLaunched DEF Apart, Fresh
<1>8. LastSession.sid = session.sid /\ (session = NoSession => LastSession = NoSession)
  BY LastSessionFacts DEF IsUpdate, WatchdogInd, RecoveryTyped
<1>9. CASE Survived /\ (StartSession \/ EndSession)
  <2>1. Left' = 0
    BY <1>1, <1>9, SessionMoves DEF To
  <2>2. mine' = LastSession /\ UNCHANGED <<crashedFile, unsettled>>
    BY <1>9 DEF StartSession, EndSession, history
  <2>3. session' # NoSession => session'.sid = nextSid
    BY <1>1, <1>9, SessionFacts DEF StartSession, EndSession, RecoveryTyped
  <2>4. session.sid < nextSid /\ crashedFile.sid < nextSid /\ session.sid \in Nat /\ crashedFile.sid \in Nat /\ nextSid \in Nat
    BY <1>1 DEF Numbered, RecoveryTyped
  <2>5. session' # NoSession => mine'.sid # session'.sid /\ crashedFile'.sid # session'.sid
    BY <1>8, <2>2, <2>3, <2>4
  <2>6. Fresh(mine)' => mine'.sid # crashedFile'.sid
    <3>1. Fresh(mine)' => session # NoSession
      BY <1>8, <2>2 DEF Fresh
    <3>2. QED
      BY <1>8, <2>2, <3>1 DEF Apart
  <2>7. QED
    BY <2>1, <2>5, <2>6, ApartWhenLaunched
<1>10. CASE Survived /\ CaptureInit
  <2>1. Left' = 0
    BY <1>1, <1>10, SessionMoves DEF To
  <2>2. UNCHANGED <<session, mine, crashedFile, unsettled>>
    BY <1>10 DEF CaptureInit, files, memory
  <2>3. QED
    BY <2>1, <2>2, ApartWhenLaunched DEF Apart, Fresh
<1>11. CASE Survived /\ CaptureError
  <2>1. session \in Session /\ session' = IncrementErrors(session) /\ UNCHANGED <<mine, crashedFile, unsettled>>
    BY <1>1, <1>11 DEF CaptureError
  <2>2. session'.sid = session.sid /\ session # NoSession
    BY <2>1, Updates, SessionFacts DEF IsUpdate
  <2>3. Left' = 0
    BY <1>1, <1>11, <2>2, SideSteps DEF SessionsInd, Holders
  <2>4. QED
    BY <2>1, <2>2, <2>3, ApartWhenLaunched DEF Apart, Fresh
<1>12. ASSUME NEW q \in Queue, CaptureCrashEvent(q) \/ DeleteCrashedSession(q), Survived PROVE Apart'
  <2>1. Left' = Left
    BY <1>1, <1>12, SideSteps DEF WorkStep
  <2>2. UNCHANGED <<session, mine, currentFile, unsettled>> /\ (UNCHANGED crashedFile \/ crashedFile' = NoSession)
    BY <1>12 DEF CaptureCrashEvent, DeleteCrashedSession, files, memory, history
  <2>3. work[q] # <<>>
    BY <1>12 DEF CaptureCrashEvent, DeleteCrashedSession, NextWork
  <2>4. Left < 6
    BY <1>1, <2>3 DEF SessionsInd, Work, WatchdogInd, StateIsKept, Queue
  <2>5. Fresh(crashedFile)' => Fresh(crashedFile) /\ UNCHANGED crashedFile
    BY <2>2 DEF Fresh
  <2>6. (Fresh(mine)' <=> Fresh(mine)) /\ (Fresh(currentFile)' <=> Fresh(currentFile))
    BY <2>2 DEF Fresh
  <2>7. session # NoSession => crashedFile'.sid # session.sid
    BY <1>1, <2>2 DEF Apart
  <2>8. QED
    BY <1>1, <2>1, <2>2, <2>4, <2>5, <2>6, <2>7 DEF Apart
<1>13. QED
  BY <1>2, <1>3, <1>4, <1>5, <1>6, <1>7, <1>9, <1>10, <1>11, <1>12, StepKinds, DiesOrNot

LEMMA EndsAreTrueNext ==
    ASSUME WatchdogInd, SessionsInd, Numbered, Apart, DeathIsTold, EndsAreTrue, [Next]_vars
    PROVE  EndsAreTrue'
<1>1. /\ RecoveryTyped /\ Control /\ Left \in 0 .. 10
      /\ \A s \in {session, mine, currentFile, crashedFile} : s = NoSession \/ s \in Session
      /\ \A s \in Session : s # NoSession
  BY AtLabel, SessionFacts DEF WatchdogInd, RecoveryTyped, MaybeSession
<1>2. CASE Killed \/ Crashes \/ Exits
  BY <1>2, AtDeath DEF EndsAreTrue, Fresh
<1>3. CASE Untouching /\ Survived
  BY <1>3, UntouchedTruth DEF EndsAreTrue, Fresh
<1>4. CASE Survived /\ EndCrashedSession
  <2>1. Left = 8 /\ At("endCrashed")
    BY <1>1, <1>4, LaunchMoves, AtLabel DEF From
  <2>2. UNCHANGED <<mine, fate, unsettled>>
    BY <1>4 DEF EndCrashedSession, memory, Survived
  <2>3. CASE MustEndAsCrashed
    <3>1. currentFile \in Session /\ crashedFile' = EndCrashed(currentFile)
      BY <1>1, <1>4, <2>3 DEF EndCrashedSession, MustEndAsCrashed
    <3>2. crashedFile'.sid = currentFile.sid
      BY <3>1, Updates DEF IsUpdate
    <3>3. Fresh(crashedFile)' => Fresh(currentFile)
      BY <1>1, <2>2, <3>1, <3>2 DEF Fresh
    <3>4. Fresh(currentFile) => lastDeath \in {"crashed", "active"} /\ fate[currentFile.sid] = lastDeath
      <4>1. CASE crashedLastLaunch
        BY <2>1, <4>1 DEF DeathIsTold, CrashFlag
      <4>2. CASE ~crashedLastLaunch
        <5>1. IsWatchdogTermination
          BY <2>3, <4>2 DEF MustEndAsCrashed
        <5>2. lastDeath = "active"
          BY <2>1, <4>2, <5>1 DEF WatchdogInd, StateIsTold, SaysActive, IsWatchdogTermination, WasTerminated, WasActive
        <5>3. QED
          BY <2>1, <5>2 DEF DeathIsTold
      <4>3. QED
        BY <4>1, <4>2
    <3>5. QED
      BY <2>2, <3>2, <3>3, <3>4 DEF EndsAreTrue, Fresh
  <2>4. CASE ~MustEndAsCrashed
    BY <1>4, <2>2, <2>4 DEF EndCrashedSession, EndsAreTrue, Fresh
  <2>5. QED
    BY <2>3, <2>4
<1>5. CASE Survived /\ CloseCachedSession
  <2>1. Left = 2
    BY <1>1, <1>5, LaunchMoves DEF From
  <2>2. UNCHANGED <<crashedFile, fate, unsettled>>
    BY <1>5 DEF CloseCachedSession, Survived
  <2>3. CASE MayClose
    <3>1. currentFile \in Session /\ ~crashedLastLaunch
      BY <1>1, <2>3 DEF MayClose
    <3>2. mine' = IF closingTimestamp THEN EndExited(currentFile) ELSE EndAbnormal(currentFile)
      BY <1>5, <2>3 DEF CloseCachedSession
    <3>3. mine'.sid = currentFile.sid /\ (mine'.status = "abnormal" => ~closingTimestamp)
      BY <3>1, <3>2, Updates DEF IsUpdate
    <3>4. Fresh(mine)' => Fresh(currentFile)
      BY <1>1, <2>2, <3>1, <3>3 DEF Fresh
    <3>5. Fresh(currentFile) => /\ fate[currentFile.sid] \in {"active", "background"}
                                /\ fate[currentFile.sid] = "background" => closingTimestamp
      BY <2>1, <3>1 DEF DeathIsTold, CrashFlag, Timestamp
    <3>6. QED
      BY <2>2, <3>3, <3>4, <3>5 DEF EndsAreTrue, Fresh
  <2>4. CASE ~MayClose
    BY <1>5, <2>2, <2>4 DEF CloseCachedSession, EndsAreTrue, Fresh
  <2>5. QED
    BY <2>3, <2>4
<1>6. CASE Survived /\ (DeleteCurrent \/ CaptureInit \/ CaptureError \/ \E q \in Queue : CaptureCrashEvent(q))
  <2>1. UNCHANGED <<mine, crashedFile, fate, unsettled>>
    BY <1>6 DEF DeleteCurrent, CaptureInit, CaptureError, CaptureCrashEvent, files, memory, history, Survived
  <2>2. QED
    BY <2>1 DEF EndsAreTrue, Fresh
<1>7. CASE Survived /\ CaptureMine
  <2>1. UNCHANGED <<crashedFile, fate, unsettled>> /\ mine' = NoSession
    BY <1>7 DEF CaptureMine, files, Survived
  <2>2. QED
    BY <2>1 DEF EndsAreTrue, Fresh
<1>8. CASE Survived /\ (StartSession \/ EndSession)
  <2>1. UNCHANGED <<crashedFile, fate, unsettled>> /\ mine' = LastSession
    BY <1>8 DEF StartSession, EndSession, history, Survived
  <2>2. mine' # NoSession => session # NoSession /\ mine'.sid = session.sid /\ mine'.status = "exited"
    BY <1>1, <2>1, LastSessionFacts DEF RecoveryTyped, IsUpdate
  <2>3. mine' # NoSession => fate'[mine'.sid] = "alive"
    BY <2>1, <2>2 DEF DeathIsTold
  <2>4. QED
    BY <2>1, <2>2, <2>3 DEF EndsAreTrue, Fresh
<1>9. ASSUME NEW q \in Queue, DeleteCrashedSession(q), Survived PROVE EndsAreTrue'
  <2>1. UNCHANGED <<mine, fate, unsettled>> /\ crashedFile' = NoSession
    BY <1>9 DEF DeleteCrashedSession, memory, Survived
  <2>2. QED
    BY <2>1 DEF EndsAreTrue, Fresh
<1>10. QED
  BY <1>2, <1>3, <1>4, <1>5, <1>6, <1>7, <1>8, <1>9, StepKinds, DiesOrNot


\* A launch takes steps of its own only.
LEMMA NoLaunch ==
    ASSUME WatchdogInd, SessionsInd, session # NoSession
    PROVE  Left = 0
  BY AtLabel DEF WatchdogInd, SessionsInd, Holders

\* The crash events are captured late in a launch, when the session file is not fresh
\* if the crashed session is.
LEMMA EventComesLate ==
    ASSUME WatchdogInd, SessionsInd, Apart, NEW q \in Queue, work[q] # <<>>
    PROVE  /\ Left < 6
           /\ Left > 0 /\ Fresh(currentFile) => ~Fresh(crashedFile)
<1>1. Control /\ Left \in 0 .. 10
  BY AtLabel DEF WatchdogInd
<1>2. Left < 6
  BY <1>1 DEF SessionsInd, Work, WatchdogInd, StateIsKept, Queue
<1>3. QED
  BY <1>1, <1>2 DEF Apart

\* What a step that hands nothing to the client does to the numbers.
LEMMA NumbersWithoutCapture ==
    ASSUME WatchdogInd, SessionsInd, Numbered, Apart, SequenceNumbers, Survived,
           EndCrashedSession \/ DeleteCurrent \/ CloseCachedSession \/ StartSession \/ EndSession
    PROVE  SequenceNumbers'
<1>1. /\ RecoveryTyped /\ Control /\ Left \in 0 .. 10 /\ captured \in Seq(Session)
      /\ \A s \in {session, mine, currentFile, crashedFile} : s = NoSession \/ s \in Session
      /\ \A s \in Session : s # NoSession /\ s.sid \in Nat \ {0}
  BY AtLabel, SessionFacts DEF WatchdogInd, RecoveryTyped, MaybeSession, SessionsInd, Statuses
<1>2. UNCHANGED unsettled
  BY DEF Survived
<1>3. CASE EndCrashedSession
  <2>1. Left = 8
    BY <1>1, <1>3, LaunchMoves DEF From
  <2>2. UNCHANGED <<session, mine, currentFile, captured>> /\ session = NoSession
    BY <1>3, <2>1 DEF EndCrashedSession, memory, SessionsInd, Holders
  <2>3. Fresh(crashedFile)' => LatestIn(captured, crashedFile')
    <3>1. CASE MustEndAsCrashed
      <4>1. currentFile \in Session /\ crashedFile' = EndCrashed(currentFile)
        BY <1>1, <1>3, <3>1 DEF EndCrashedSession, MustEndAsCrashed
      <4>2. IsUpdate(crashedFile', currentFile, "crashed")
        BY <4>1, Updates
      <4>3. Fresh(crashedFile)' => Fresh(currentFile)
        BY <1>1, <1>2, <4>1, <4>2 DEF Fresh, IsUpdate
      <4>4. Fresh(currentFile) => LatestIn(captured, currentFile)
        BY <2>1 DEF SequenceNumbers
      <4>5. QED
        BY <1>1, <4>1, <4>2, <4>3, <4>4, UpdateIsLater
    <3>2. CASE ~MustEndAsCrashed
      <4>1. UNCHANGED crashedFile
        BY <1>3, <3>2 DEF EndCrashedSession
      <4>2. QED
        BY <1>2, <4>1 DEF SequenceNumbers, Fresh
    <3>3. QED
      BY <3>1, <3>2
  <2>4. QED
    BY <1>2, <2>1, <2>2, <2>3 DEF SequenceNumbers, Fresh
<1>4. CASE DeleteCurrent
  <2>1. Left = 7
    BY <1>1, <1>4, LaunchMoves DEF From
  <2>2. UNCHANGED <<session, mine, crashedFile, captured>>
    BY <1>4 DEF DeleteCurrent, memory, history
  <2>3. currentFile' = NoSession \/ UNCHANGED currentFile
    BY <1>4 DEF DeleteCurrent, CurrentAfterCrash
  <2>4. QED
    BY <1>2, <2>1, <2>2, <2>3 DEF SequenceNumbers, Fresh
<1>5. CASE CloseCachedSession
  <2>1. Left = 2
    BY <1>1, <1>5, LaunchMoves DEF From
  <2>2. UNCHANGED <<session, crashedFile, captured>>
    BY <1>5 DEF CloseCachedSession, history
  <2>3. currentFile' = NoSession \/ UNCHANGED currentFile
    BY <1>5 DEF CloseCachedSession
  <2>4. Fresh(mine)' => LaterIn(captured, mine')
    <3>1. CASE MayClose
      <4>1. currentFile \in Session
        BY <1>1, <3>1 DEF MayClose
      <4>2. PICK status : IsUpdate(mine', currentFile, status)
        BY <1>5, <3>1, <4>1, Updates DEF CloseCachedSession
      <4>3. Fresh(mine)' => Fresh(currentFile)
        BY <1>1, <1>2, <4>1, <4>2 DEF Fresh, IsUpdate
      <4>4. Fresh(currentFile) => LatestIn(captured, currentFile)
        BY <2>1 DEF SequenceNumbers
      <4>5. QED
        BY <1>1, <4>1, <4>2, <4>3, <4>4, UpdateIsLater
    <3>2. CASE ~MayClose
      <4>1. UNCHANGED mine
        BY <1>5, <3>2 DEF CloseCachedSession
      <4>2. QED
        BY <1>2, <4>1 DEF SequenceNumbers, Fresh
    <3>3. QED
      BY <3>1, <3>2
  <2>5. QED
    BY <1>2, <2>1, <2>2, <2>3, <2>4 DEF SequenceNumbers, Fresh
<1>6. CASE StartSession \/ EndSession
  <2>1. Left' = 0
    BY <1>1, <1>6, SessionMoves DEF To
  <2>2. mine' = LastSession /\ UNCHANGED <<crashedFile, captured>>
    BY <1>6 DEF StartSession, EndSession, history
  <2>3. Fresh(mine)' => LaterIn(captured, mine')
    <3>1. mine' # NoSession => session # NoSession /\ IsUpdate(mine', session, "exited")
      BY <1>1, <2>2, LastSessionFacts DEF RecoveryTyped
    <3>2. session # NoSession => session \in Session /\ LatestIn(captured, session)
      BY <1>1 DEF SequenceNumbers
    <3>3. QED
      BY <1>1, <3>1, <3>2, UpdateIsLater DEF Fresh
  <2>4. session' # NoSession => LatestIn(captured, session') /\ ~EndedIn(captured, session'.sid)
    <3>1. session' # NoSession => session'.sid = nextSid
      BY <1>1, <1>6, SessionFacts DEF StartSession, EndSession, RecoveryTyped
    <3>2. \A i \in DOMAIN captured : captured[i].sid # nextSid
      <4>1. \A i \in DOMAIN captured : captured[i].sid < nextSid /\ captured[i].sid \in Nat
        BY <1>1 DEF Numbered
      <4>2. QED
        BY <1>1, <4>1 DEF RecoveryTyped
    <3>3. QED
      BY <3>1, <3>2 DEF LatestIn, EndedIn
  <2>5. QED
    BY <1>2, <2>1, <2>2, <2>3, <2>4 DEF SequenceNumbers, Fresh
<1>7. QED
  BY <1>3, <1>4, <1>5, <1>6

LEMMA NumbersWithCapture ==
    ASSUME WatchdogInd, SessionsInd, Numbered, Apart, SequenceNumbers, Survived,
           CaptureMine \/ CaptureInit \/ CaptureError \/ \E q \in Queue : CaptureCrashEvent(q)
    PROVE  SequenceNumbers'
<1>1. /\ RecoveryTyped /\ Control /\ Left \in 0 .. 10 /\ captured \in Seq(Session)
      /\ \A s \in {session, mine, currentFile, crashedFile} : s = NoSession \/ s \in Session
      /\ \A s \in Session : s # NoSession /\ s.sid \in Nat \ {0} /\ s.seq \in Nat
  BY AtLabel, SessionFacts DEF WatchdogInd, RecoveryTyped, MaybeSession, SessionsInd, Statuses
<1>2. UNCHANGED unsettled
  BY DEF Survived
<1>3. CASE CaptureMine
  <2>1. Left' = 0
    BY <1>1, <1>3, SessionMoves DEF To
  <2>2. mine' = NoSession /\ UNCHANGED <<session, crashedFile, currentFile>>
    BY <1>3 DEF CaptureMine, files
  <2>3. CASE mine = NoSession
    <3>1. UNCHANGED captured
      BY <1>3, <2>3 DEF CaptureMine
    <3>2. QED
      BY <1>2, <2>1, <2>2, <3>1 DEF SequenceNumbers, Fresh
  <2>4. CASE mine # NoSession
    <3>1. captured' = Append(captured, mine) /\ mine \in Session
      BY <1>1, <1>3, <2>4 DEF CaptureMine
    <3>2. session # NoSession => LatestIn(captured', session) /\ ~EndedIn(captured', session.sid)
      <4>1. session # NoSession => /\ mine.sid # session.sid /\ session.seq \in Nat
                                   /\ LatestIn(captured, session) /\ ~EndedIn(captured, session.sid)
        BY <1>1 DEF Apart, SequenceNumbers
      <4>2. QED
        BY <1>1, <3>1, <4>1, LatestAppended, NotEndedAppended
    <3>3. Fresh(crashedFile) => LatestIn(captured', crashedFile)
      <4>1. Fresh(crashedFile) => mine.sid # crashedFile.sid /\ crashedFile.seq \in Nat /\ LatestIn(captured, crashedFile)
        BY <1>1, <2>4 DEF Apart, SequenceNumbers, Fresh
      <4>2. QED
        BY <1>1, <3>1, <4>1, LatestAppended
    <3>4. QED
      BY <1>2, <2>1, <2>2, <3>2, <3>3 DEF SequenceNumbers, Fresh
  <2>5. QED
    BY <2>3, <2>4
<1>4. CASE CaptureInit
  <2>1. Left' = 0 /\ Activating = 3
    BY <1>1, <1>4, SessionMoves DEF From, To
  <2>2. session \in Session /\ captured' = Append(captured, session)
    BY <1>1, <1>4, <2>1 DEF CaptureInit, SessionsInd, Holders
  <2>3. UNCHANGED <<session, mine, crashedFile>> /\ mine.sid # session.sid /\ crashedFile.sid # session.sid
    BY <1>1, <1>4, <2>2 DEF CaptureInit, files, memory, Apart
  <2>4. LatestIn(captured', session) /\ ~EndedIn(captured', session.sid)
    <3>1. LatestIn(captured, session) /\ ~EndedIn(captured, session.sid) /\ ~IsEnded(session)
      BY <1>1, <2>2 DEF SequenceNumbers, SessionsInd, Statuses, IsEnded
    <3>2. QED
      BY <1>1, <2>2, <3>1, LatestAppended, NotEndedAppended
  <2>5. Fresh(mine) => LaterIn(captured', mine)
    BY <1>1, <2>2, <2>3, LaterAppended DEF SequenceNumbers
  <2>6. Fresh(crashedFile) => LatestIn(captured', crashedFile)
    <3>1. Fresh(crashedFile) => crashedFile.seq \in Nat /\ LatestIn(captured, crashedFile)
      BY <1>1 DEF SequenceNumbers, Fresh
    <3>2. QED
      BY <1>1, <2>2, <2>3, <3>1, LatestAppended
  <2>7. QED
    BY <1>2, <2>1, <2>3, <2>4, <2>5, <2>6 DEF SequenceNumbers, Fresh
<1>5. CASE CaptureError
  <2>1. session \in Session /\ IsUpdate(session', session, session.status)
    BY <1>1, <1>5, Updates DEF CaptureError
  <2>2. session' \in Session /\ session'.sid = session.sid /\ ~IsEnded(session') /\ captured' = Append(captured, session')
    BY <1>5, <2>1 DEF CaptureError, IsUpdate, SessionsInd, Statuses, IsEnded
  <2>3. Left' = 0
    BY <1>1, <1>5, <2>1, SideSteps, NoLaunch
  <2>4. UNCHANGED <<mine, crashedFile>> /\ mine.sid # session'.sid /\ crashedFile.sid # session'.sid
    BY <1>1, <1>5, <2>1, <2>2 DEF CaptureError, Apart
  <2>5. LatestIn(captured', session') /\ ~EndedIn(captured', session'.sid)
    <3>1. LatestIn(captured, session) /\ ~EndedIn(captured, session'.sid)
      BY <1>1, <2>1, <2>2 DEF SequenceNumbers
    <3>2. LatestIn(captured, session')
      BY <1>1, <2>1, <3>1, UpdateIsLater
    <3>3. session'.seq \in Nat
      BY <1>1, <2>2
    <3>4. QED
      BY <1>1, <2>2, <3>1, <3>2, <3>3, LatestAppended, NotEndedAppended
  <2>6. Fresh(mine) => LaterIn(captured', mine)
    BY <1>1, <2>2, <2>4, LaterAppended DEF SequenceNumbers
  <2>7. Fresh(crashedFile) => LatestIn(captured', crashedFile)
    <3>1. Fresh(crashedFile) => crashedFile.seq \in Nat /\ LatestIn(captured, crashedFile)
      BY <1>1 DEF SequenceNumbers, Fresh
    <3>2. QED
      BY <1>1, <2>2, <2>4, <3>1, LatestAppended
  <2>8. QED
    BY <1>2, <2>3, <2>4, <2>5, <2>6, <2>7 DEF SequenceNumbers, Fresh
<1>6. ASSUME NEW q \in Queue, CaptureCrashEvent(q) PROVE SequenceNumbers'
  <2>1. Left' = Left
    BY <1>1, <1>6, SideSteps DEF WorkStep
  <2>2. UNCHANGED <<session, mine, currentFile, crashedFile>> /\ crashedFile \in Session /\ work[q] # <<>>
    BY <1>1, <1>6 DEF CaptureCrashEvent, files, memory, NextWork
  <2>3. CASE UNCHANGED captured
    BY <1>2, <2>1, <2>2, <2>3 DEF SequenceNumbers, Fresh
  <2>4. CASE captured' = Append(captured, crashedFile)
    <3>1. session # NoSession => LatestIn(captured', session) /\ ~EndedIn(captured', session.sid)
      <4>1. session # NoSession => /\ crashedFile.sid # session.sid /\ session.seq \in Nat
                                   /\ LatestIn(captured, session) /\ ~EndedIn(captured, session.sid)
        BY <1>1 DEF Apart, SequenceNumbers
      <4>2. QED
        BY <1>1, <2>2, <2>4, <4>1, LatestAppended, NotEndedAppended
    <3>2. Left > 0 /\ Fresh(currentFile) => LatestIn(captured', currentFile)
      <4> SUFFICES ASSUME Left > 0, Fresh(currentFile)
                   PROVE  LatestIn(captured', currentFile)
        OBVIOUS
      <4>1. currentFile.sid # crashedFile.sid
        BY <1>1, <2>2, EventComesLate DEF Fresh
      <4>2. LatestIn(captured, currentFile) /\ currentFile.seq \in Nat
        BY <1>1 DEF SequenceNumbers, Fresh
      <4>3. QED
        BY <1>1, <2>2, <2>4, <4>1, <4>2, LatestAppended
    <3>3. Fresh(mine) => LaterIn(captured', mine)
      <4>1. Fresh(mine) => mine.sid # crashedFile.sid
        BY <1>1, <2>2 DEF Apart, Fresh
      <4>2. QED
        BY <1>1, <2>2, <2>4, <4>1, LaterAppended DEF SequenceNumbers
    <3>4. Fresh(crashedFile) => LatestIn(captured', crashedFile)
      <4>1. Fresh(crashedFile) => crashedFile.seq \in Nat /\ LatestIn(captured, crashedFile)
        BY <1>1 DEF SequenceNumbers, Fresh
      <4>2. QED
        BY <1>1, <2>2, <2>4, <4>1, LatestAppended
    <3>5. QED
      BY <1>2, <2>1, <2>2, <3>1, <3>2, <3>3, <3>4 DEF SequenceNumbers, Fresh
  <2>5. QED
    BY <1>6, <2>3, <2>4 DEF CaptureCrashEvent
<1>7. QED
  BY <1>3, <1>4, <1>5, <1>6

LEMMA SequenceNumbersNext ==
    ASSUME WatchdogInd, SessionsInd, Numbered, Apart, SequenceNumbers, [Next]_vars
    PROVE  SequenceNumbers'
<1>1. CASE Killed \/ Crashes \/ Exits
  <2>1. /\ session' = NoSession /\ mine' = NoSession /\ ~Fresh(crashedFile)'
        /\ UNCHANGED <<currentFile, captured>>
        /\ Fresh(currentFile)' => session # NoSession /\ currentFile = session
    BY <1>1, AtDeath
  <2>2. QED
    BY <2>1 DEF SequenceNumbers, Fresh
<1>2. CASE Untouching /\ Survived
  BY <1>2, UntouchedTruth DEF SequenceNumbers, Fresh
<1>3. ASSUME NEW q \in Queue, DeleteCrashedSession(q), Survived PROVE SequenceNumbers'
  <2>1. UNCHANGED <<session, mine, currentFile, captured, unsettled>> /\ crashedFile' = NoSession
    BY <1>3 DEF DeleteCrashedSession, memory, history
  <2>2. Left' = Left
    BY <1>3, SideSteps DEF WorkStep, WatchdogInd
  <2>3. QED
    BY <2>1, <2>2 DEF SequenceNumbers, Fresh
<1>4. QED
  BY <1>1, <1>2, <1>3, NumbersWithoutCapture, NumbersWithCapture, StepKinds, DiesOrNot

\* An update that is true, and newer than those of its session or the same as one.
LEMMA TrueAppended ==
    ASSUME NEW u \in Session, captured \in Seq(Session), captured' = Append(captured, u),
           CapturedIsTrue, Survived, Truthful(u), u.sid \notin unsettled => LatestIn(captured, u)
    PROVE  CapturedIsTrue'
<1>1. /\ DOMAIN captured' = (DOMAIN captured) \cup {Len(captured) + 1}
      /\ \A i \in DOMAIN captured : captured'[i] = captured[i]
      /\ captured'[Len(captured) + 1] = u
  BY AppendedFacts
<1>2. UNCHANGED <<fate, unsettled>>
  BY DEF Survived
<1>3. ASSUME NEW i \in DOMAIN captured' PROVE Truthful(captured[i])'
  <2>1. Truthful(captured'[i])
    BY <1>1 DEF CapturedIsTrue
  <2>2. QED
    BY <1>2, <2>1 DEF Truthful
<1>4. ASSUME NEW i \in DOMAIN captured', NEW j \in DOMAIN captured',
             captured'[i].sid = captured'[j].sid, captured'[i].sid \notin unsettled,
             captured'[i].seq = captured'[j].seq
      PROVE  captured'[i] = captured'[j]
  <2>1. CASE i \in DOMAIN captured /\ j \in DOMAIN captured
    BY <1>1, <1>4, <2>1 DEF CapturedIsTrue
  <2>2. CASE i \in DOMAIN captured /\ captured'[j] = u
    BY <1>1, <1>4, <2>2 DEF LatestIn
  <2>3. CASE j \in DOMAIN captured /\ captured'[i] = u
    BY <1>1, <1>4, <2>3 DEF LatestIn
  <2>4. CASE captured'[i] = u /\ captured'[j] = u
    BY <2>4
  <2>5. QED
    BY <1>1, <2>1, <2>2, <2>3, <2>4
<1>5. QED
  BY <1>2, <1>3, <1>4 DEF CapturedIsTrue

LEMMA LaterIsLatest ==
    ASSUME NEW c \in Seq(Session), NEW s, s.seq \in Nat, LaterIn(c, s)
    PROVE  LatestIn(c, s)
<1>1. \A i \in DOMAIN c : c[i].seq \in Nat
  BY SessionFacts
<1>2. \A i \in DOMAIN c : c[i].sid = s.sid => c[i].seq <= s.seq /\ c[i].seq # s.seq
  BY <1>1 DEF LaterIn
<1>3. QED
  BY <1>2 DEF LatestIn

LEMMA CapturedIsTrueNext ==
    ASSUME WatchdogInd, SessionsInd, Numbered, Apart, EndsAreTrue, SequenceNumbers, CapturedIsTrue, [Next]_vars
    PROVE  CapturedIsTrue'
<1>1. /\ RecoveryTyped /\ Control /\ captured \in Seq(Session)
      /\ \A s \in {session, mine, currentFile, crashedFile} : s = NoSession \/ s \in Session
      /\ \A s \in Session : s # NoSession /\ s.sid \in Nat \ {0} /\ s.seq \in Nat
  BY SessionFacts DEF WatchdogInd, RecoveryTyped, MaybeSession, SessionsInd, Statuses
<1>2. CASE Killed \/ Crashes \/ Exits
  <2>1. /\ UNCHANGED captured /\ unsettled \subseteq unsettled'
        /\ session # NoSession => session.sid \in Sids
    BY <1>2, AtDeath
  <2>2. PICK how : fate' = IF session = NoSession THEN fate ELSE [fate EXCEPT ![session.sid] = how]
    BY <1>2 DEF Killed, Crashes, Exits, Dies
  <2>3. ASSUME NEW i \in DOMAIN captured, IsEnded(captured[i]) PROVE fate'[captured[i].sid] = fate[captured[i].sid]
    <3>1. CASE session = NoSession
      BY <2>2, <3>1
    <3>2. CASE session # NoSession
      <4>1. captured[i].sid # session.sid
        BY <2>3, <3>2 DEF SequenceNumbers, EndedIn
      <4>2. \A n : n # session.sid => [fate EXCEPT ![session.sid] = how][n] = fate[n]
        BY <1>1 DEF RecoveryTyped
      <4>3. QED
        BY <2>2, <3>2, <4>1, <4>2
    <3>3. QED
      BY <3>1, <3>2
  <2>4. \A i \in DOMAIN captured : Truthful(captured[i])'
    BY <2>1, <2>3 DEF CapturedIsTrue, Truthful
  <2>5. QED
    BY <2>1, <2>4 DEF CapturedIsTrue
<1>3. ASSUME Survived, UNCHANGED captured PROVE CapturedIsTrue'
  <2>1. \A i \in DOMAIN captured : Truthful(captured[i])'
    BY <1>3 DEF Survived, CapturedIsTrue, Truthful
  <2>2. QED
    BY <1>3, <2>1 DEF Survived, CapturedIsTrue
<1>4. CASE Survived /\ Untouching
  BY <1>3, <1>4, LeavesSessions DEF Untouched
<1>5. CASE Survived /\ (EndCrashedSession \/ DeleteCurrent \/ CloseCachedSession \/ StartSession \/ EndSession)
  <2>1. UNCHANGED captured
    BY <1>5 DEF EndCrashedSession, DeleteCurrent, CloseCachedSession, StartSession, EndSession, history
  <2>2. QED
    BY <1>3, <1>5, <2>1
<1>6. CASE Survived /\ CaptureMine
  <2>1. CASE mine = NoSession
    <3>1. UNCHANGED captured
      BY <1>6, <2>1 DEF CaptureMine
    <3>2. QED
      BY <1>3, <1>6, <3>1
  <2>2. CASE mine # NoSession
    <3>1. mine \in Session /\ captured' = Append(captured, mine)
      BY <1>1, <1>6, <2>2 DEF CaptureMine
    <3>2. mine.status \in {"exited", "abnormal"}
      BY <2>2 DEF SessionsInd, Statuses
    <3>3. Truthful(mine)
      BY <2>2, <3>2 DEF Truthful, EndsAreTrue, Fresh
    <3>4. mine.sid \notin unsettled => LatestIn(captured, mine)
      BY <1>1, <2>2, <3>1, LaterIsLatest DEF SequenceNumbers, Fresh
    <3>5. QED
      BY <1>1, <1>6, <3>1, <3>3, <3>4, TrueAppended
  <2>3. QED
    BY <2>1, <2>2
<1>7. CASE Survived /\ CaptureInit
  <2>1. Activating = 3 /\ Left \in 0 .. 10
    BY <1>1, <1>7, SessionMoves, AtLabel DEF From
  <2>2. session \in Session /\ captured' = Append(captured, session)
    BY <1>1, <1>7, <2>1 DEF CaptureInit, SessionsInd, Holders
  <2>3. Truthful(session)
    BY DEF SessionsInd, Statuses, Truthful, IsEnded
  <2>4. LatestIn(captured, session)
    BY <1>1, <2>2 DEF SequenceNumbers
  <2>5. QED
    BY <1>1, <1>7, <2>2, <2>3, <2>4, TrueAppended
<1>8. CASE Survived /\ CaptureError
  <2>1. session \in Session /\ IsUpdate(session', session, session.status)
    BY <1>1, <1>8, Updates DEF CaptureError
  <2>2. session' \in Session /\ captured' = Append(captured, session')
    BY <1>8, <2>1 DEF CaptureError, IsUpdate
  <2>3. Truthful(session')
    BY <2>1 DEF SessionsInd, Statuses, Truthful, IsEnded, IsUpdate
  <2>4. LatestIn(captured, session')
    BY <1>1, <2>1, UpdateIsLater DEF SequenceNumbers
  <2>5. QED
    BY <1>1, <1>8, <2>2, <2>3, <2>4, TrueAppended
<1>9. ASSUME NEW q \in Queue, CaptureCrashEvent(q), Survived PROVE CapturedIsTrue'
  <2>1. CASE UNCHANGED captured
    BY <1>3, <1>9, <2>1
  <2>2. CASE captured' = Append(captured, crashedFile)
    <3>1. crashedFile \in Session
      BY <1>1, <1>9 DEF CaptureCrashEvent
    <3>2. crashedFile.status = "crashed" /\ crashedFile # NoSession
      BY <1>1, <3>1 DEF SessionsInd, Statuses
    <3>3. Truthful(crashedFile)
      BY <3>2 DEF Truthful, EndsAreTrue, Fresh
    <3>4. crashedFile.sid \notin unsettled => LatestIn(captured, crashedFile)
      BY <3>2 DEF SequenceNumbers, Fresh
    <3>5. QED
      BY <1>1, <1>9, <2>2, <3>1, <3>3, <3>4, TrueAppended
  <2>3. QED
    BY <1>9, <2>1, <2>2 DEF CaptureCrashEvent
<1>10. ASSUME NEW q \in Queue, DeleteCrashedSession(q), Survived PROVE CapturedIsTrue'
  <2>1. UNCHANGED captured
    BY <1>10 DEF DeleteCrashedSession, history
  <2>2. QED
    BY <1>3, <1>10, <2>1
<1>11. QED
  BY <1>2, <1>4, <1>5, <1>6, <1>7, <1>8, <1>9, <1>10, StepKinds, DiesOrNot

LEMMA TruthInit == Init => TruthInd
<1> SUFFICES ASSUME Init PROVE TruthInd
  OBVIOUS
<1>1. Left = 10 /\ Activating = 0
  <2>1. todo = Launch /\ Launch # <<>>
    BY DEF Init, Launch
  <2>2. QED
    BY <2>1, ProgramSteps DEF Left, Activating, StepsTo
<1>2. NoSession.sid = 0 /\ DOMAIN captured = {} /\ ~Fresh(currentFile) /\ ~Fresh(mine) /\ ~Fresh(crashedFile)
  BY SessionFacts DEF Init, Fresh
<1>3. Numbered
  BY <1>1, <1>2, RecoveryAssumption DEF Init, Numbered
<1>4. DeathIsTold
  BY <1>1, <1>2 DEF Init, DeathIsTold
<1>5. EndsAreTrue /\ SequenceNumbers /\ Apart
  BY <1>1, <1>2 DEF Init, EndsAreTrue, SequenceNumbers, Apart
<1>6. CapturedIsTrue
  BY <1>2 DEF CapturedIsTrue
<1>7. QED
  BY <1>3, <1>4, <1>5, <1>6 DEF TruthInd

LEMMA TruthAlways == Spec => []TruthInd
<1>1. WatchdogInd /\ SessionsInd /\ TruthInd /\ [Next]_vars => TruthInd'
  BY NumberedNext, DeathIsToldNext, EndsAreTrueNext, SequenceNumbersNext, ApartNext, CapturedIsTrueNext DEF TruthInd
<1>2. QED
  BY <1>1, TruthInit, WatchdogAlways, SessionsAlways, PTL DEF Spec

(* What is reported of a session is how its process died, through any      *)
(* number of launches, crashes and watchdog terminations, unless the       *)
(* process that was to recover it died as well; and no two updates of a    *)
(* session carry the same sequence number (endCurrentSessionAsCrashed-     *)
(* WhenCrashOrOOM, closeCachedSessionWithTimestamp, captureCrashEvent).    *)
THEOREM EndsAreReported == Spec => []EndIsTruthful
<1>1. CapturedIsTrue => EndIsTruthful
  <2> SUFFICES ASSUME CapturedIsTrue
               PROVE  EndIsTruthful
    OBVIOUS
  <2>1. \A i \in DOMAIN captured : Truthful(captured[i])
    BY DEF CapturedIsTrue
  <2>2. ASSUME NEW p \in SamePair(captured), captured[p[1]].sid \notin unsettled,
               captured[p[1]].seq = captured[p[2]].seq
        PROVE  captured[p[1]] = captured[p[2]]
    <3>1. /\ p[1] \in DOMAIN captured /\ p[2] \in DOMAIN captured
          /\ captured[p[1]].sid = captured[p[2]].sid
      BY DEF SamePair
    <3>2. QED
      BY <2>2, <3>1 DEF CapturedIsTrue
  <2>3. QED
    BY <2>1, <2>2 DEF EndIsTruthful, Truthful
<1>2. QED
  BY <1>1, TruthAlways, PTL DEF TruthInd
=============================================================================
