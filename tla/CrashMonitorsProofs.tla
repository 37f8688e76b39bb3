-------------------------- MODULE CrashMonitorsProofs --------------------------
(***************************************************************************)
(* Proofs about CrashMonitors, for any set of application threads and any  *)
(* number of crashes and installations of the reporter: its state stays    *)
(* well typed, a finished report of the first crash survives the crashes   *)
(* of the handlers after it, and a crash is judged as what it is.          *)
(*                                                                         *)
(* The argument follows the one thread that deals with a crash: as long as *)
(* the program crashed in no two threads, either that thread is somewhere  *)
(* in a handler or its message waits at the exception port.  Everything    *)
(* that is said of the files is said of the step this thread is at.        *)
(***************************************************************************)
EXTENDS CrashMonitors, FiniteSetTheorems, TLAPS

(* A thread in one of these steps deals with a crash.                      *)
Active == Steps \ {"run", "closing", "listen", "gone", "blocked"}

(* No two threads of the program crashed: Alone, without the cardinality.  *)
Few == \A t, u \in hist.threads : t = u

(* From the suspension of the other threads to their resumption.           *)
Holding == {"notify", "notified", "context", "done", "resume"} \cup OnCrashSteps

(* The steps after the flag handling was set.                              *)
InHandler == {"context", "done"} \cup OnCrashSteps

(* From the renaming of the first report to the end of the second.         *)
Window == {"reopen", "embed", "rmold", "rewrite"}

(* A signal monitor that is off has given its handlers back.               *)
MonShape == "signal" \notin mon.enabled => mon.sig = "original"

(* What the installation of the reporter says of the monitors: they are    *)
(* off while it is not installed or being closed, and before the first     *)
(* installation nothing of them is there.                                  *)
Installed ==
    /\ core.callback = core.installed
    /\ ~core.installed \/ thr[Main].at = "closing" => mon.enabled = {}
    /\ hist.installs = 0 =>
           /\ ~core.installed /\ ~core.handling /\ ~core.async /\ port = <<>>
           /\ ~mon.installed /\ mon.ports = "original" /\ mon.sig = "original"
           /\ mon.ns = "original" /\ mon.term = "original"
           /\ \A t \in Thread : thr[t].at \in {"run", "listen", "signalled"}
    /\ ~hist.closed => hist.installs <= 1 /\ (hist.installs = 1 => core.installed)
    /\ thr[Main].at = "closing" => hist.closed

(* The crashes that were counted are those the threads are in.             *)
Counting ==
    /\ hist.crashes = 0 => hist.threads = {}
    /\ hist.crashes <= 1 => Few
    /\ hist.threads = {} =>
           /\ \A t \in Thread : thr[t].at \notin Active
           /\ port = <<>> /\ ~core.handling
    /\ \A t \in hist.threads : thr[t].at \notin {"run", "closing"}

(* With one thread crashed, one thread or one message deals with it.       *)
OneCrash ==
    Few => /\ \A t, u \in Thread : thr[t].at \in Active /\ thr[u].at \in Active => t = u
           /\ port # <<>> => Len(port) = 1 /\ \A t \in Thread : thr[t].at \notin Active

(* The flags of SentryCrashMonitor.c.  The last part holds the application *)
(* still: the main thread is suspended while a handler of another thread   *)
(* is at work, so nothing is installed under it.                           *)
Flags ==
    /\ \A t \in Thread : thr[t].at \in InHandler => core.handling
    /\ \A k \in MonitorTypeDebuggerUnsafe : core.context[k] => core.recrashed
    /\ core.recrashed => core.handling
    /\ hist.finished => core.handling
    /\ Few => \A t \in Thread :
           /\ thr[t].at = "notified" /\ core.handling => core.recrashed
           /\ thr[t].at = "state" /\ ~core.context[thr[t].kind] => ~core.recrashed
           /\ thr[t].at \in Window \cup {"rename"} => core.recrashed
           /\ thr[t].at \in InHandler /\ core.recrashed => mon.enabled = {}
           /\ thr[t].at \in Holding => t = Main \/ thr[Main].susp >= 1

(* The first crash of the first installation is not taken for a second     *)
(* one, through however many handlers it passes: once the first is done,   *)
(* the monitors are off and the later ones return at once.                 *)
Once ==
    hist.crashes <= 1 /\ hist.installs <= 1 =>
        /\ ~core.recrashed
        /\ core.handling =>
              /\ port # <<>> => mon.enabled = {}
              /\ \A t \in Thread :
                    /\ thr[t].at \notin {"notify", "notified"}
                    /\ thr[t].at \in {"signalled", "enter", "exit", "resume"} => mon.enabled = {}
                    /\ thr[t].at = "enter" => thr[t].kind # "cpp"

(* The paths of the reports.                                               *)
Files ==
    /\ core.lastPath < core.nextID
    /\ DOMAIN disk.dir # {} => core.lastPath # 0
    /\ \A t \in Thread : thr[t].path # 0 => core.lastPath # 0
    /\ \A t \in Thread : thr[t].at = "open" => thr[t].path # 0
    /\ Few => \A t \in Thread :
           thr[t].at \in Window \cup {"open"} => thr[t].path = core.lastPath

(* The crash state is noted before the report gets its path.               *)
CrashState ==
    Few /\ ~hist.closed =>
        /\ ~core.handling /\ hist.installs >= 1 => "appstate" \in mon.enabled
        /\ \A t \in Thread :
              /\ thr[t].at \in {"notified", "context", "state"} /\ ~core.recrashed =>
                     "appstate" \in mon.enabled
              /\ thr[t].at = "path" => disk.crashState
        /\ core.lastPath # 0 => disk.crashState

(* The report of the last crash, under its name and moved away.            *)
Json == Name(core.lastPath, "json")

Old == Name(core.lastPath, "old")

(* The file is closed and has the report of the first crash in it.         *)
Holds(n) ==
    /\ FileIn(disk, n)
    /\ LET i == disk.data[disk.dir[n]]
       IN  i.complete /\ (i.type = "standard" \/ i.inner = "complete")

(* The file being written has the report of the first crash in it.         *)
Embedded(n, fd) == FileIn(disk, n) /\ disk.dir[n] = fd /\ disk.data[fd].inner = "complete"

(* Some file has the report of the first crash in it.                      *)
Saved ==
    \E n \in DOMAIN disk.dir :
        LET i == disk.data[disk.dir[n]]
        IN  (i.type = "standard" /\ i.complete) \/ i.inner = "complete"

(* The handler of the second crash crashed: the monitors are off, the main *)
(* thread cannot switch them on again, and the signal ends the process.    *)
Broken ==
    /\ Saved /\ mon.enabled = {}
    /\ thr[Main].susp >= 1 \/ thr[Main].at \notin {"run", "closing"}
    /\ \A t \in Thread : thr[t].at \in Active =>
           \/ thr[t].at = "signalled"
           \/ thr[t].at \in {"enter", "exit"} /\ thr[t].kind \in {"mach", "signal"}

(* The report of a first crash, until it is finished.                      *)
Standard ==
    Few => \A t \in Thread :
        /\ thr[t].at \in {"path", "open", "write"} => ~hist.finished
        /\ thr[t].at \in {"context", "state"} /\ ~core.recrashed => ~hist.finished
        /\ thr[t].at = "write" =>
               /\ FileIn(disk, Json) /\ disk.dir[Json] = thr[t].fd
               /\ disk.data[thr[t].fd].type = "standard"

(* Where the finished report of the first crash is at every step.          *)
Report ==
    Few /\ hist.finished =>
        /\ \A t \in Thread :
              /\ thr[t].at = "reopen" => Holds(Old) /\ ~FileIn(disk, Json)
              /\ thr[t].at = "embed" =>
                     Holds(Old) /\ FileIn(disk, Json) /\ disk.dir[Json] = thr[t].fd /\ disk.dir[Old] # thr[t].fd
              /\ thr[t].at \in {"rmold", "rewrite"} => Embedded(Json, thr[t].fd)
        /\ (\A t \in Thread : thr[t].at \notin Window) => Holds(Json) \/ Broken

-----------------------------------------------------------------------------
(* Types                                                                   *)

MonType ==
    [enabled : SUBSET MonitorTypeAll, traced : BOOLEAN, installed : BOOLEAN,
     originalTerm : BOOLEAN, ports : {"original", "sentry"},
     sig : {"original", "sentry"}, ns : {"original", "sentry"}, term : {"original", "sentry"}]

InodeType ==
    [type : {"standard", "recrash"}, complete : BOOLEAN, inner : {"none", "partial", "complete"}]

ThreadType ==
    [at : Steps, susp : Nat, kind : MonitorTypeDebuggerUnsafe, what : {"cpp", "ns"},
     sig : {"SEGV", "ABRT"}, mask : SUBSET {"SEGV", "ABRT"}, held : SUBSET App,
     from : Thread, path : Nat, fd : Nat]

CoreType ==
    [installed : BOOLEAN, callback : BOOLEAN, handling : BOOLEAN, recrashed : BOOLEAN,
     async : BOOLEAN, replay : BOOLEAN, nextID : Nat, lastPath : Nat,
     context : [MonitorTypeDebuggerUnsafe -> BOOLEAN]]

HistType ==
    [crashes : Nat, threads : SUBSET App, installs : Nat, finished : BOOLEAN, closed : BOOLEAN]

DiskTyped(d) ==
    /\ d \in [dir : {d.dir}, crashState : BOOLEAN, launch : {"no", "reading", "done"},
              replayInfo : {"absent", "empty", "written"}, data : Seq(InodeType)]
    /\ \A n \in DOMAIN d.dir : n \in Nat \X {"json", "old"} /\ d.dir[n] \in DOMAIN d.data

(* The types of the variables, one by one.                                 *)
LEMMA TypeParts ==
    TypeOK <=> /\ mon \in MonType /\ core \in CoreType /\ thr \in [Thread -> ThreadType]
               /\ port \in Seq(Thread) /\ alive \in BOOLEAN /\ DiskTyped(disk) /\ hist \in HistType
BY Zenon DEF TypeOK, MonType, CoreType, ThreadType, DiskTyped, InodeType, HistType

(* The same after a step.                                                  *)
LEMMA TypePartsNext ==
    TypeOK' <=> /\ mon' \in MonType /\ core' \in CoreType /\ thr' \in [Thread -> ThreadType]
                /\ port' \in Seq(Thread) /\ alive' \in BOOLEAN /\ DiskTyped(disk')
                /\ hist' \in HistType
BY Zenon DEF TypeOK, MonType, CoreType, ThreadType, DiskTyped, InodeType, HistType

(* Replacing an element of a sequence.                                     *)
LEMMA ReplaceInSeq ==
    ASSUME NEW S, NEW s \in Seq(S), NEW i, NEW x, i \in DOMAIN s => x \in S
    PROVE  /\ [s EXCEPT ![i] = x] \in Seq(S)
           /\ Len([s EXCEPT ![i] = x]) = Len(s)
           /\ DOMAIN [s EXCEPT ![i] = x] = DOMAIN s
<1>1. s \in [1 .. Len(s) -> S] /\ Len(s) \in Nat /\ DOMAIN s = 1 .. Len(s)
  OBVIOUS
<1>2. [s EXCEPT ![i] = x] \in [1 .. Len(s) -> S]
  BY <1>1
<1>3. QED
  BY <1>1, <1>2

(* Appending an element to a sequence.                                     *)
LEMMA AppendToSeq ==
    ASSUME NEW S, NEW s \in Seq(S), NEW x \in S
    PROVE  /\ Append(s, x) \in Seq(S)
           /\ Len(Append(s, x)) = Len(s) + 1
           /\ DOMAIN Append(s, x) = DOMAIN s \cup {Len(s) + 1}
           /\ Len(s) + 1 \notin DOMAIN s
           /\ Append(s, x)[Len(s) + 1] = x
           /\ \A i \in DOMAIN s : Append(s, x)[i] = s[i]
OBVIOUS

(* The first message taken from a queue.                                   *)
LEMMA TakeFirst ==
    ASSUME NEW S, NEW s \in Seq(S), s # <<>>
    PROVE  Head(s) \in S /\ Tail(s) \in Seq(S) /\ Len(Tail(s)) = Len(s) - 1
OBVIOUS

(* The C++ monitor switched on or off.                                     *)
LEMMA CPPSet ==
    ASSUME NEW m \in MonType, NEW on \in BOOLEAN
    PROVE  /\ CPPSetEnabled(m, on) \in MonType
           /\ CPPSetEnabled(m, on).sig = m.sig
           /\ \A k \in {"mach", "signal", "ns"} :
                  k \in CPPSetEnabled(m, on).enabled <=> k \in m.enabled
           /\ "cpp" \in CPPSetEnabled(m, on).enabled => on
<1>1. CASE (on = TRUE /\ "cpp" \in m.enabled) \/ (on = FALSE /\ "cpp" \notin m.enabled)
  <2>1. CPPSetEnabled(m, on) = m
    BY <1>1 DEF CPPSetEnabled
  <2>2. QED
    BY <1>1, <2>1
<1>2. CASE on = TRUE /\ "cpp" \notin m.enabled
  <2>1. CPPSetEnabled(m, on) =
            [m EXCEPT !.enabled = @ \cup {"cpp"}, !.term = "sentry", !.originalTerm = TRUE]
    BY <1>2 DEF CPPSetEnabled
  <2>2. CPPSetEnabled(m, on) \in MonType
    <3>1. m.enabled \cup {"cpp"} \in SUBSET MonitorTypeAll
      BY DEF MonType, MonitorTypeAll
    <3>2. ASSUME NEW e \in SUBSET MonitorTypeAll
          PROVE  [m EXCEPT !.enabled = e, !.term = "sentry", !.originalTerm = TRUE] \in MonType
      BY DEF MonType
    <3>3. QED
      BY <2>1, <3>1, <3>2
  <2>3. /\ CPPSetEnabled(m, on).sig = m.sig
        /\ CPPSetEnabled(m, on).enabled = m.enabled \cup {"cpp"}
    BY <2>1 DEF MonType
  <2>4. QED
    BY <1>2, <2>2, <2>3
<1>3. CASE on = FALSE /\ "cpp" \in m.enabled
  <2>1. CPPSetEnabled(m, on) =
            [m EXCEPT !.enabled = @ \ {"cpp"}, !.term = "original", !.originalTerm = FALSE]
    BY <1>3 DEF CPPSetEnabled
  <2>2. CPPSetEnabled(m, on) \in MonType
    <3>1. m.enabled \ {"cpp"} \in SUBSET MonitorTypeAll
      BY DEF MonType, MonitorTypeAll
    <3>2. ASSUME NEW e \in SUBSET MonitorTypeAll
          PROVE  [m EXCEPT !.enabled = e, !.term = "original", !.originalTerm = FALSE] \in MonType
      BY DEF MonType
    <3>3. QED
      BY <2>1, <3>1, <3>2
  <2>3. /\ CPPSetEnabled(m, on).sig = m.sig
        /\ CPPSetEnabled(m, on).enabled = m.enabled \ {"cpp"}
    BY <2>1 DEF MonType
  <2>4. QED
    BY <1>3, <2>2, <2>3
<1>4. on \in {TRUE, FALSE}
  OBVIOUS
<1>5. QED
  BY <1>1, <1>2, <1>3, <1>4

(* What an installation or a shutdown leaves of the monitors.              *)
LEMMA MonitorsSet ==
    ASSUME TypeOK, MonShape, NEW types \in SUBSET MonitorTypeAll,
           NEW machWorks \in BOOLEAN, NEW sigWorks \in BOOLEAN,
           NEW m, m = SetActiveMonitors(types, machWorks, sigWorks)
    PROVE  /\ m \in MonType
           /\ "signal" \notin m.enabled => m.sig = "original"
           /\ "appstate" \in m.enabled <=> "appstate" \in types /\ ~core.async
           /\ types = {} => m.enabled = {}
<1> DEFINE on == Mask(types, mon.traced, core.async)
           m1 == MachSetEnabled(mon, "mach" \in on, machWorks)
           m2 == SignalSetEnabled(m1, "signal" \in on, sigWorks)
           m3 == NSSetEnabled(m2, "ns" \in on)
           m4 == CPPSetEnabled(m3, "cpp" \in on)
           m5 == AppStateSetEnabled(m4, "appstate" \in on)
<1>1. m = m5
  BY DEF SetActiveMonitors
<1>2. /\ on \subseteq types
      /\ "appstate" \in on <=> "appstate" \in types /\ ~core.async
  BY DEF Mask, MonitorTypeAll, MonitorTypeDebuggerUnsafe, MonitorTypeAsyncSafe
<1>3. /\ mon \in MonType
      /\ "signal" \notin mon.enabled => mon.sig = "original"
  BY TypeParts DEF MonShape
<1> HIDE DEF on
<1>4. /\ m1 \in MonType /\ m1.sig = mon.sig
      /\ "signal" \in m1.enabled <=> "signal" \in mon.enabled
      /\ "mach" \notin on => "mach" \notin m1.enabled
  BY <1>3 DEF MachSetEnabled, MonType, MonitorTypeAll
<1> HIDE DEF m1
<1>5. /\ m2 \in MonType
      /\ "signal" \notin m2.enabled => m2.sig = "original"
      /\ "signal" \in m2.enabled => "signal" \in on
      /\ "mach" \notin on => "mach" \notin m2.enabled
  <2>1. CASE ("signal" \in on) = ("signal" \in m1.enabled)
    BY <1>3, <1>4, <2>1 DEF SignalSetEnabled
  <2>2. CASE "signal" \in on /\ "signal" \notin m1.enabled
    <3>1. PICK g \in {"original", "sentry"} :
              m2 = [m1 EXCEPT !.enabled = m1.enabled \cup {"signal"}, !.sig = g]
      BY <1>4, <2>2 DEF SignalSetEnabled, MonType
    <3>2. m1.enabled \cup {"signal"} \in SUBSET MonitorTypeAll
      BY <1>4 DEF MonType, MonitorTypeAll
    <3>3. m2 \in MonType /\ m2.enabled = m1.enabled \cup {"signal"}
      BY <1>4, <3>1, <3>2 DEF MonType
    <3>4. QED
      BY <1>4, <2>2, <3>3
  <2>3. CASE "signal" \notin on /\ "signal" \in m1.enabled
    <3>1. m2 = [m1 EXCEPT !.enabled = m1.enabled \ {"signal"}, !.sig = "original"]
      BY <2>3 DEF SignalSetEnabled
    <3>2. m1.enabled \ {"signal"} \in SUBSET MonitorTypeAll
      BY <1>4 DEF MonType
    <3>3. m2 \in MonType /\ m2.enabled = m1.enabled \ {"signal"} /\ m2.sig = "original"
      BY <1>4, <3>1, <3>2 DEF MonType
    <3>4. QED
      BY <1>4, <2>3, <3>3
  <2>4. QED
    BY <2>1, <2>2, <2>3
<1> HIDE DEF m2
<1>6. /\ m3 \in MonType /\ m3.sig = m2.sig
      /\ "signal" \in m3.enabled <=> "signal" \in m2.enabled
      /\ "mach" \in m3.enabled <=> "mach" \in m2.enabled
      /\ "ns" \in m3.enabled => "ns" \in on
  BY <1>5 DEF NSSetEnabled, MonType, MonitorTypeAll
<1> HIDE DEF m3
<1>7. /\ m4 \in MonType /\ m4.sig = m3.sig
      /\ "signal" \in m4.enabled <=> "signal" \in m3.enabled
      /\ "mach" \in m4.enabled <=> "mach" \in m3.enabled
      /\ "ns" \in m4.enabled <=> "ns" \in m3.enabled
      /\ "cpp" \in m4.enabled => "cpp" \in on
  <2>1. ("cpp" \in on) \in BOOLEAN
    OBVIOUS
  <2>2. QED
    BY <1>6, <2>1, CPPSet
<1> HIDE DEF m4
<1>8. /\ m5 \in MonType /\ m5.sig = m4.sig
      /\ m5.enabled = IF "appstate" \in on THEN m4.enabled \cup {"appstate"}
                      ELSE m4.enabled \ {"appstate"}
  BY <1>7 DEF AppStateSetEnabled, MonType, MonitorTypeAll
<1> HIDE DEF m5
<1>9. types = {} => m5.enabled = {}
  BY <1>2, <1>4, <1>5, <1>6, <1>7, <1>8 DEF MonType, MonitorTypeAll
<1>10. QED
  BY <1>1, <1>2, <1>5, <1>6, <1>7, <1>8, <1>9

(* All monitors switched off.                                              *)
LEMMA MonitorsCleared ==
    ASSUME TypeOK, MonShape
    PROVE  NoMonitors \in MonType /\ NoMonitors.enabled = {} /\ NoMonitors.sig = "original"
BY MonitorsSet DEF NoMonitors, MonitorTypeAll

(* The updates that the steps make to the record of a thread.              *)
LEMMA ThreadUpdates ==
    ASSUME NEW r \in ThreadType
    PROVE  /\ \A s \in Steps : [r EXCEPT !.at = s] \in ThreadType
           /\ \A n \in Nat : [r EXCEPT !.susp = n] \in ThreadType
           /\ \A s \in Steps : \A h \in SUBSET App :
                  [r EXCEPT !.at = s, !.held = h] \in ThreadType
           /\ \A s \in Steps : \A k \in MonitorTypeDebuggerUnsafe :
                  [r EXCEPT !.at = s, !.kind = k] \in ThreadType
           /\ \A s \in Steps : \A g \in {"SEGV", "ABRT"} :
                  /\ [r EXCEPT !.at = s, !.sig = g] \in ThreadType
                  /\ [r EXCEPT !.at = s, !.sig = g, !.mask = {}] \in ThreadType
           /\ \A s \in Steps : \A k \in MonitorTypeDebuggerUnsafe :
                  /\ \A m \in SUBSET {"SEGV", "ABRT"} :
                        [r EXCEPT !.at = s, !.kind = k, !.mask = m] \in ThreadType
                  /\ \A u \in Thread : [r EXCEPT !.at = s, !.kind = k, !.from = u] \in ThreadType
                  /\ \A w \in {"cpp", "ns"} : [r EXCEPT !.at = s, !.kind = k, !.what = w] \in ThreadType
           /\ \A s \in Steps : \A n \in Nat :
                  /\ [r EXCEPT !.at = s, !.path = n] \in ThreadType
                  /\ [r EXCEPT !.at = s, !.fd = n] \in ThreadType
<1>1. /\ \A s \in Steps : [r EXCEPT !.at = s] \in ThreadType
      /\ \A n \in Nat : [r EXCEPT !.susp = n] \in ThreadType
  BY DEF ThreadType
<1>2. \A s \in Steps : \A h \in SUBSET App : [r EXCEPT !.at = s, !.held = h] \in ThreadType
  BY DEF ThreadType
<1>3. \A s \in Steps : \A k \in MonitorTypeDebuggerUnsafe :
         [r EXCEPT !.at = s, !.kind = k] \in ThreadType
  BY DEF ThreadType
<1>4. \A s \in Steps : \A g \in {"SEGV", "ABRT"} :
         /\ [r EXCEPT !.at = s, !.sig = g] \in ThreadType
         /\ [r EXCEPT !.at = s, !.sig = g, !.mask = {}] \in ThreadType
  BY DEF ThreadType
<1>5. \A s \in Steps : \A k \in MonitorTypeDebuggerUnsafe : \A m \in SUBSET {"SEGV", "ABRT"} :
         [r EXCEPT !.at = s, !.kind = k, !.mask = m] \in ThreadType
  BY DEF ThreadType
<1>6. \A s \in Steps : \A k \in MonitorTypeDebuggerUnsafe :
         /\ \A u \in Thread : [r EXCEPT !.at = s, !.kind = k, !.from = u] \in ThreadType
         /\ \A w \in {"cpp", "ns"} : [r EXCEPT !.at = s, !.kind = k, !.what = w] \in ThreadType
  BY DEF ThreadType
<1>7. \A s \in Steps : \A n \in Nat :
         /\ [r EXCEPT !.at = s, !.path = n] \in ThreadType
         /\ [r EXCEPT !.at = s, !.fd = n] \in ThreadType
  BY DEF ThreadType
<1>8. QED
  BY <1>1, <1>2, <1>3, <1>4, <1>5, <1>6, <1>7

(* A thread goes on, or its access to bad memory is delivered.             *)
LEMMA GoesType ==
    ASSUME TypeOK, NEW t \in Thread, NEW s \in Steps
    PROVE  Goes(t, s) \in [Thread -> ThreadType]
<1>1. thr \in [Thread -> ThreadType]
  BY TypeParts
<1>2. [thr[t] EXCEPT !.at = s] \in ThreadType
  BY <1>1, ThreadUpdates
<1>3. QED
  BY <1>1, <1>2 DEF Goes

(* The types after a bad access.                                           *)
LEMMA BadAccessType ==
    ASSUME TypeOK, NEW t \in Thread, BadAccess(t)
    PROVE  thr' \in [Thread -> ThreadType] /\ port' \in Seq(Thread)
<1>0. port \in Seq(Thread)
  BY TypeParts
<1>1. CASE mon.ports = "sentry"
  <2>1. thr' = Goes(t, "blocked") /\ port' = Append(port, t)
    BY <1>1 DEF BadAccess, Moves
  <2>2. QED
    BY <1>0, <2>1, GoesType, AppendToSeq DEF Steps
<1>2. CASE mon.ports # "sentry"
  <2>1. thr \in [Thread -> ThreadType]
    BY TypeParts
  <2>2. [thr[t] EXCEPT !.at = "signalled", !.sig = "SEGV"] \in ThreadType
    BY <2>1, ThreadUpdates DEF Steps
  <2>3. QED
    BY <1>0, <1>2, <2>1, <2>2 DEF BadAccess
<1>3. QED
  BY <1>1, <1>2

(* The types after a suspension or a resumption of threads.                *)
LEMMA SuspendType ==
    ASSUME TypeOK, NEW t \in Thread, NEW s \in Steps
    PROVE  SuspendEnvironment(t, s) \in [Thread -> ThreadType]
           /\ ResumeEnvironment(t, s) \in [Thread -> ThreadType]
<1>1. thr \in [Thread -> ThreadType] /\ \A u \in Thread : thr[u].susp \in Nat
  BY TypeParts DEF ThreadType
<1>2. Others(t) \in SUBSET App
  BY DEF Others
<1>3. ASSUME NEW u \in Thread
      PROVE  /\ [thr[u] EXCEPT !.at = s, !.held = Others(t)] \in ThreadType
             /\ [thr[u] EXCEPT !.susp = @ + 1] \in ThreadType
             /\ [thr[u] EXCEPT !.at = s, !.held = {}] \in ThreadType
             /\ ThreadResume(thr[u]) \in ThreadType
  <2> PICK n \in Nat : n = thr[u].susp + 1
    BY <1>1
  <2> PICK k \in Nat : k = IF thr[u].susp > 0 THEN thr[u].susp - 1 ELSE 0
    BY <1>1
  <2>1. ThreadResume(thr[u]) = [thr[u] EXCEPT !.susp = k]
    BY DEF ThreadResume
  <2>2. [thr[u] EXCEPT !.susp = @ + 1] = [thr[u] EXCEPT !.susp = n]
    OBVIOUS
  <2>3. thr[u] \in ThreadType /\ s \in Steps /\ {} \in SUBSET App
    BY <1>1
  <2>4. /\ [thr[u] EXCEPT !.susp = n] \in ThreadType
        /\ [thr[u] EXCEPT !.susp = k] \in ThreadType
    BY <2>3, ThreadUpdates
  <2>5. /\ [thr[u] EXCEPT !.at = s, !.held = Others(t)] \in ThreadType
        /\ [thr[u] EXCEPT !.at = s, !.held = {}] \in ThreadType
    BY <1>2, <2>3, ThreadUpdates
  <2>6. QED
    BY <2>1, <2>2, <2>4, <2>5
<1>4. SuspendEnvironment(t, s) \in [Thread -> ThreadType]
  BY <1>1, <1>3 DEF SuspendEnvironment
<1>5. ResumeEnvironment(t, s) \in [Thread -> ThreadType]
  BY <1>1, <1>3 DEF ResumeEnvironment
<1>6. QED
  BY <1>4, <1>5

(* The steps of the handlers up to the files.                              *)
LEMMA HandlerTypes ==
    ASSUME TypeOK, MonShape, NEW t \in Thread,
           TakeSignal(t) \/ Enter(t) \/ Notify(t) \/ Notified(t) \/ Context(t)
             \/ RestoreHandlers(t) \/ Resume(t) \/ Exit(t)
    PROVE  TypeOK'
<1> USE CrashMonitorsAssumption
<1>0. /\ mon \in MonType /\ core \in CoreType /\ thr \in [Thread -> ThreadType]
      /\ port \in Seq(Thread) /\ alive \in BOOLEAN /\ DiskTyped(disk) /\ hist \in HistType
  BY TypeParts
<1>1. /\ Main \in Thread /\ Secondary \in Thread /\ thr[t] \in ThreadType
      /\ thr[t].kind \in {"mach", "signal", "cpp", "ns"} /\ thr[t].sig \in {"SEGV", "ABRT"}
      /\ thr[t].mask \in SUBSET {"SEGV", "ABRT"} /\ thr[t].from \in Thread
  BY <1>0 DEF ThreadType, Thread, HandlerThread, MonitorTypeDebuggerUnsafe
<1>2. /\ {"signalled", "enter", "notify", "notified", "context", "state", "resume", "exit", "gone"}
            \subseteq Steps
      /\ {"mach", "signal", "cpp", "ns"} \subseteq MonitorTypeDebuggerUnsafe
  BY DEF Steps, MonitorTypeDebuggerUnsafe
<1>3. ASSUME mon' \in MonType, core' \in CoreType, thr' \in [Thread -> ThreadType],
             alive' \in BOOLEAN, UNCHANGED <<port, disk, hist>>
      PROVE  TypeOK'
  BY <1>0, <1>3, TypePartsNext
<1>4. \A s \in {"notified", "context", "state", "resume", "exit"} : Goes(t, s) \in [Thread -> ThreadType]
  BY <1>2, GoesType
<1>5. CASE TakeSignal(t)
  <2>1. [thr[t] EXCEPT !.at = "enter", !.kind = "signal", !.mask = @ \cup {thr[t].sig}] \in ThreadType
    <3>1. thr[t].mask \cup {thr[t].sig} \in SUBSET {"SEGV", "ABRT"}
      BY <1>1
    <3>2. QED
      BY <1>1, <1>2, <3>1, ThreadUpdates
  <2>2. thr' \in [Thread -> ThreadType] /\ alive' \in BOOLEAN
    BY <1>0, <1>5, <2>1 DEF TakeSignal
  <2>3. QED
    BY <1>0, <1>3, <1>5, <2>2 DEF TakeSignal
<1>6. CASE Enter(t)
  <2>1. \A s \in {"notify", "resume"} : SuspendEnvironment(t, s) \in [Thread -> ThreadType]
    BY <1>2, SuspendType
  <2>2. thr' \in [Thread -> ThreadType]
    BY <1>1, <1>4, <1>6, <2>1
       DEF Enter, HandleExceptions, HandleSignal, HandleNSException, CPPExceptionTerminate
  <2>3. QED
    BY <1>0, <1>3, <1>6, <2>2 DEF Enter
<1>7. CASE Notify(t)
  <2>1. PICK a \in BOOLEAN, r \in BOOLEAN :
          core' = [core EXCEPT !.async = a, !.recrashed = r]
    <3>1. /\ (core.async \/ thr[t].kind = "mach") \in BOOLEAN
          /\ (core.recrashed \/ core.handling) \in BOOLEAN
      OBVIOUS
    <3>2. QED
      BY <1>7, <3>1 DEF Notify
  <2>2. core' \in CoreType
    BY <1>0, <2>1 DEF CoreType
  <2>3. QED
    BY <1>0, <1>3, <1>4, <1>7, <2>2 DEF Notify, Moves
<1>8. CASE Notified(t)
  <2>1. \A m \in MonType : RestoreExceptionPorts(m) \in MonType
    BY DEF RestoreExceptionPorts, MonType
  <2>2. mon' \in MonType
    BY <1>0, <1>8, <2>1, MonitorsCleared DEF Notified
  <2>3. thr' \in [Thread -> ThreadType]
    <3>1. CASE t = Primary
      <4>1. ThreadResume(thr[Secondary]) \in ThreadType
        <5>1. thr[Secondary] \in ThreadType /\ thr[Secondary].susp \in Nat
          BY <1>0, <1>1 DEF ThreadType
        <5> PICK k \in Nat : k = IF thr[Secondary].susp > 0 THEN thr[Secondary].susp - 1 ELSE 0
          BY <5>1
        <5>2. ThreadResume(thr[Secondary]) = [thr[Secondary] EXCEPT !.susp = k]
          BY DEF ThreadResume
        <5>3. [thr[Secondary] EXCEPT !.susp = k] \in ThreadType
          BY <5>1, ThreadUpdates
        <5>4. QED
          BY <5>2, <5>3
      <4>2. thr' = [Goes(t, "context") EXCEPT ![Secondary] = ThreadResume(thr[Secondary])]
        BY <1>8, <3>1 DEF Notified, Goes
      <4>3. QED
        BY <1>4, <4>1, <4>2
    <3>2. CASE t # Primary
      BY <1>4, <1>8, <3>2 DEF Notified
    <3>3. QED
      BY <3>1, <3>2
  <2>4. core' \in CoreType
    BY <1>0, <1>8 DEF Notified, CoreType
  <2>5. QED
    BY <1>0, <1>3, <1>8, <2>2, <2>3, <2>4 DEF Notified
<1>9. CASE Context(t)
  <2>1. PICK c \in BOOLEAN : core' = [core EXCEPT !.context[thr[t].kind] = c]
    <3>1. (core.recrashed \/ (thr[t].kind = "mach" /\ core.context[thr[t].kind])) \in BOOLEAN
      OBVIOUS
    <3>2. QED
      BY <1>9, <3>1 DEF Context
  <2>2. core' \in CoreType
    BY <1>0, <2>1 DEF CoreType
  <2>3. QED
    BY <1>0, <1>3, <1>4, <1>9, <2>2 DEF Context, Moves
<1>10. CASE RestoreHandlers(t)
  <2>1. mon' \in MonType
    BY <1>0, <1>10, MonitorsCleared DEF RestoreHandlers
  <2>2. QED
    BY <1>0, <1>3, <1>4, <1>10, <2>1 DEF RestoreHandlers, Moves
<1>11. CASE Resume(t)
  <2>1. ResumeEnvironment(t, "exit") \in [Thread -> ThreadType]
    BY <1>2, SuspendType
  <2>2. QED
    BY <1>0, <1>3, <1>4, <1>11, <2>1 DEF Resume
<1>12. CASE Exit(t)
  <2>1. Reply(t) \in [Thread -> ThreadType]
    <3>1. Goes(t, "gone") \in [Thread -> ThreadType]
      BY <1>2, GoesType
    <3>2. [Goes(t, "gone")[thr[t].from] EXCEPT !.at = "signalled", !.sig = "SEGV"] \in ThreadType
      <4>1. PICK r \in ThreadType : r = Goes(t, "gone")[thr[t].from]
        BY <1>1, <1>2, <3>1 DEF ThreadType
      <4>2. \A s \in Steps : [r EXCEPT !.at = s, !.sig = "SEGV"] \in ThreadType
        BY ThreadUpdates
      <4>3. [r EXCEPT !.at = "signalled", !.sig = "SEGV"] \in ThreadType
        BY <1>2, <4>2
      <4>4. QED
        BY <4>1, <4>3, Zenon
    <3>3. Reply(t) = [Goes(t, "gone") EXCEPT ![thr[t].from].at = "signalled", ![thr[t].from].sig = "SEGV"]
      BY DEF Reply, Goes
    <3>4. QED
      BY <1>1, <3>1, <3>2, <3>3
  <2>2. \A sig \in {"SEGV", "ABRT"} : Signalled(thr, t, sig) \in [Thread -> ThreadType]
    <3>1. \A sig \in {"SEGV", "ABRT"} :
             [thr[t] EXCEPT !.at = "signalled", !.sig = sig, !.mask = {}] \in ThreadType
      BY <1>1, <1>2, ThreadUpdates
    <3>2. QED
      BY <1>0, <3>1 DEF Signalled
  <2>3. CallOriginalTerminationHandler(t) \in [Thread -> ThreadType]
    <3>1. [thr[t] EXCEPT !.at = "enter", !.kind = "ns"] \in ThreadType
      BY <1>1, <1>2, ThreadUpdates
    <3>2. QED
      BY <1>0, <2>2, <3>1 DEF CallOriginalTerminationHandler
  <2>4. thr' \in [Thread -> ThreadType]
    BY <1>1, <1>12, <2>1, <2>2, <2>3 DEF Exit
  <2>5. QED
    BY <1>0, <1>3, <1>12, <2>4 DEF Exit
<1>13. QED
  BY <1>5, <1>6, <1>7, <1>8, <1>9, <1>10, <1>11, <1>12

(* A new file.                                                             *)
LEMMA CreateType ==
    ASSUME NEW d, DiskTyped(d), NEW name \in Nat \X {"json", "old"},
           NEW type \in {"standard", "recrash"}
    PROVE  /\ DiskTyped(Create(d, name, type))
           /\ DOMAIN Create(d, name, type).dir = DOMAIN d.dir \cup {name}
           /\ Create(d, name, type).dir[name] = Len(d.data) + 1
           /\ \A n \in DOMAIN d.dir \ {name} : Create(d, name, type).dir[n] = d.dir[n]
           /\ Create(d, name, type).data[Len(d.data) + 1] = Inode(type)
           /\ \A i \in DOMAIN d.data : Create(d, name, type).data[i] = d.data[i]
           /\ Len(d.data) + 1 \notin DOMAIN d.data
           /\ Create(d, name, type).crashState = d.crashState
<1> DEFINE e == Create(d, name, type)
<1>1. /\ e.dir = Link(d.dir, name, Len(d.data) + 1)
      /\ e.data = Append(d.data, Inode(type))
      /\ e.crashState = d.crashState /\ e.launch = d.launch /\ e.replayInfo = d.replayInfo
      /\ e = [d EXCEPT !.data = e.data, !.dir = e.dir]
  BY DEF Create, DiskTyped
<1> HIDE DEF e
<1>2. Inode(type) \in InodeType
  BY DEF Inode, InodeType
<1>3. d.data \in Seq(InodeType)
  BY DEF DiskTyped
<1>4. /\ e.data \in Seq(InodeType) /\ DOMAIN e.data = DOMAIN d.data \cup {Len(d.data) + 1}
      /\ e.data[Len(d.data) + 1] = Inode(type) /\ Len(d.data) + 1 \notin DOMAIN d.data
      /\ \A i \in DOMAIN d.data : e.data[i] = d.data[i]
  BY <1>1, <1>2, <1>3, AppendToSeq
<1>5. /\ DOMAIN e.dir = DOMAIN d.dir \cup {name} /\ e.dir[name] = Len(d.data) + 1
      /\ \A n \in DOMAIN d.dir \ {name} : e.dir[n] = d.dir[n]
  <2>1. e.dir = Link(d.dir, name, Len(d.data) + 1)
    BY <1>1
  <2>2. QED
    BY <2>1 DEF Link
<1>6. DiskTyped(e)
  <2>1. \A n \in DOMAIN e.dir : n \in Nat \X {"json", "old"} /\ e.dir[n] \in DOMAIN e.data
    BY <1>4, <1>5 DEF DiskTyped
  <2>2. e \in [dir : {e.dir}, crashState : BOOLEAN, launch : {"no", "reading", "done"},
              replayInfo : {"absent", "empty", "written"}, data : Seq(InodeType)]
    BY <1>1, <1>4 DEF DiskTyped
  <2>3. QED
    BY <2>1, <2>2 DEF DiskTyped
<1>7. QED
  BY <1>1, <1>4, <1>5, <1>6 DEF e

(* A change of one field of one inode.                                     *)
LEMMA WriteType ==
    ASSUME NEW d, DiskTyped(d), NEW fd, NEW i, fd \in DOMAIN d.data => i \in InodeType
    PROVE  /\ DiskTyped([d EXCEPT !.data[fd] = i])
           /\ [d EXCEPT !.data[fd] = i].dir = d.dir
           /\ [d EXCEPT !.data[fd] = i].crashState = d.crashState
           /\ \A j \in DOMAIN d.data :
                  [d EXCEPT !.data[fd] = i].data[j] = IF j = fd THEN i ELSE d.data[j]
<1> DEFINE e == [d EXCEPT !.data[fd] = i]
<1>1. /\ e.dir = d.dir /\ e.data = [d.data EXCEPT ![fd] = i]
      /\ e.crashState = d.crashState /\ e.launch = d.launch /\ e.replayInfo = d.replayInfo
      /\ e = [d EXCEPT !.data = e.data, !.dir = e.dir]
  BY DEF DiskTyped
<1> HIDE DEF e
<1>2. d.data \in Seq(InodeType)
  BY DEF DiskTyped
<1>3. e.data \in Seq(InodeType) /\ DOMAIN e.data = DOMAIN d.data
  <2>1. [d.data EXCEPT ![fd] = i] \in Seq(InodeType) /\ DOMAIN [d.data EXCEPT ![fd] = i] = DOMAIN d.data
    BY <1>2, ReplaceInSeq
  <2>2. QED
    BY <1>1, <2>1
<1>4. \A j \in DOMAIN d.data : e.data[j] = IF j = fd THEN i ELSE d.data[j]
  BY <1>1
<1>5. DiskTyped(e)
  <2>1. \A n \in DOMAIN e.dir : n \in Nat \X {"json", "old"} /\ e.dir[n] \in DOMAIN e.data
    BY <1>1, <1>3 DEF DiskTyped
  <2>2. e \in [dir : {e.dir}, crashState : BOOLEAN, launch : {"no", "reading", "done"},
              replayInfo : {"absent", "empty", "written"}, data : Seq(InodeType)]
    BY <1>1, <1>3 DEF DiskTyped
  <2>3. QED
    BY <2>1, <2>2 DEF DiskTyped
<1>6. QED
  BY <1>1, <1>4, <1>5 DEF e

(* A removal, or a removal and a new name.                                 *)
LEMMA RenameType ==
    ASSUME NEW d, DiskTyped(d), NEW old, NEW new \in Nat \X {"json", "old"}, old \in DOMAIN d.dir
    PROVE  /\ DiskTyped([d EXCEPT !.dir = Link(Unlink(@, old), new, @[old])])
           /\ DOMAIN [d EXCEPT !.dir = Link(Unlink(@, old), new, @[old])].dir
                = (DOMAIN d.dir \ {old}) \cup {new}
           /\ [d EXCEPT !.dir = Link(Unlink(@, old), new, @[old])].dir[new] = d.dir[old]
           /\ [d EXCEPT !.dir = Link(Unlink(@, old), new, @[old])].data = d.data
           /\ [d EXCEPT !.dir = Link(Unlink(@, old), new, @[old])].crashState = d.crashState
<1> DEFINE e == [d EXCEPT !.dir = Link(Unlink(@, old), new, @[old])]
<1>1. /\ e.dir = Link(Unlink(d.dir, old), new, d.dir[old]) /\ e.data = d.data
      /\ e.crashState = d.crashState /\ e.launch = d.launch /\ e.replayInfo = d.replayInfo
      /\ e = [d EXCEPT !.data = e.data, !.dir = e.dir]
  BY DEF DiskTyped
<1> HIDE DEF e
<1>2. /\ DOMAIN e.dir = (DOMAIN d.dir \ {old}) \cup {new} /\ e.dir[new] = d.dir[old]
      /\ \A n \in DOMAIN d.dir \ {old, new} : e.dir[n] = d.dir[n]
  <2>1. e.dir = Link(Unlink(d.dir, old), new, d.dir[old])
    BY <1>1
  <2>2. /\ DOMAIN Unlink(d.dir, old) = DOMAIN d.dir \ {old}
        /\ \A n \in DOMAIN d.dir \ {old} : Unlink(d.dir, old)[n] = d.dir[n]
    BY DEF Unlink
  <2>3. /\ DOMAIN e.dir = DOMAIN Unlink(d.dir, old) \cup {new} /\ e.dir[new] = d.dir[old]
        /\ \A n \in DOMAIN Unlink(d.dir, old) \ {new} : e.dir[n] = Unlink(d.dir, old)[n]
    BY <2>1 DEF Link
  <2>4. QED
    BY <2>2, <2>3
<1>3. \A n \in DOMAIN e.dir : n \in Nat \X {"json", "old"} /\ e.dir[n] \in DOMAIN e.data
  BY <1>1, <1>2 DEF DiskTyped
<1>4. e \in [dir : {e.dir}, crashState : BOOLEAN, launch : {"no", "reading", "done"},
             replayInfo : {"absent", "empty", "written"}, data : Seq(InodeType)]
  BY <1>1 DEF DiskTyped
<1>5. QED
  BY <1>1, <1>2, <1>3, <1>4 DEF DiskTyped, e

(* A directory after a file was removed.                                   *)
LEMMA RemoveType ==
    ASSUME NEW d, DiskTyped(d), NEW name
    PROVE  /\ DiskTyped([d EXCEPT !.dir = Unlink(@, name)])
           /\ DOMAIN [d EXCEPT !.dir = Unlink(@, name)].dir = DOMAIN d.dir \ {name}
           /\ \A n \in DOMAIN d.dir \ {name} :
                  [d EXCEPT !.dir = Unlink(@, name)].dir[n] = d.dir[n]
           /\ [d EXCEPT !.dir = Unlink(@, name)].data = d.data
           /\ [d EXCEPT !.dir = Unlink(@, name)].crashState = d.crashState
<1> DEFINE e == [d EXCEPT !.dir = Unlink(@, name)]
<1>1. /\ e.dir = Unlink(d.dir, name) /\ e.data = d.data
      /\ e.crashState = d.crashState /\ e.launch = d.launch /\ e.replayInfo = d.replayInfo
      /\ e = [d EXCEPT !.data = e.data, !.dir = e.dir]
  BY DEF DiskTyped
<1> HIDE DEF e
<1>2. /\ DOMAIN e.dir = DOMAIN d.dir \ {name}
      /\ \A n \in DOMAIN d.dir \ {name} : e.dir[n] = d.dir[n]
  <2>1. e.dir = Unlink(d.dir, name)
    BY <1>1
  <2>2. QED
    BY <2>1 DEF Unlink
<1>3. \A n \in DOMAIN e.dir : n \in Nat \X {"json", "old"} /\ e.dir[n] \in DOMAIN e.data
  BY <1>1, <1>2 DEF DiskTyped
<1>4. e \in [dir : {e.dir}, crashState : BOOLEAN, launch : {"no", "reading", "done"},
             replayInfo : {"absent", "empty", "written"}, data : Seq(InodeType)]
  BY <1>1 DEF DiskTyped
<1>5. QED
  BY <1>1, <1>2, <1>3, <1>4 DEF DiskTyped, e

(* The updates that the steps make to an inode.                            *)
LEMMA InodeUpdates ==
    ASSUME TypeOK
    PROVE  \A i \in DOMAIN disk.data :
               /\ disk.data[i] \in InodeType
               /\ [disk.data[i] EXCEPT !.complete = TRUE] \in InodeType
               /\ \A inner \in {"none", "partial", "complete"} :
                     [disk.data[i] EXCEPT !.inner = inner] \in InodeType
<1>1. disk.data \in Seq(InodeType)
  BY TypeParts DEF DiskTyped
<1>2. \A r \in InodeType :
          /\ [r EXCEPT !.complete = TRUE] \in InodeType
          /\ \A inner \in {"none", "partial", "complete"} : [r EXCEPT !.inner = inner] \in InodeType
  BY DEF InodeType
<1>3. \A i \in DOMAIN disk.data : disk.data[i] \in InodeType
  BY <1>1
<1>4. QED
  BY <1>2, <1>3

(* The steps of onCrash.                                                   *)
LEMMA OnCrashTypes ==
    ASSUME TypeOK, NEW t \in Thread, OnCrash(t)
    PROVE  TypeOK'
<1>0. /\ mon \in MonType /\ core \in CoreType /\ thr \in [Thread -> ThreadType]
      /\ port \in Seq(Thread) /\ alive \in BOOLEAN /\ DiskTyped(disk) /\ hist \in HistType
  BY TypeParts
<1>1. /\ thr[t] \in ThreadType /\ thr[t].path \in Nat /\ core.lastPath \in Nat /\ core.nextID \in Nat
      /\ OnCrashSteps \cup {"done"} \subseteq Steps /\ Len(disk.data) + 1 \in Nat
  BY <1>0 DEF ThreadType, CoreType, OnCrashSteps, Steps, DiskTyped
<1>2. ASSUME core' \in CoreType, thr' \in [Thread -> ThreadType], port' \in Seq(Thread), DiskTyped(disk'),
             hist' \in HistType, UNCHANGED <<mon, alive>>
      PROVE  TypeOK'
  BY <1>0, <1>2, TypePartsNext
<1>3. \A s \in OnCrashSteps \cup {"done"} : Goes(t, s) \in [Thread -> ThreadType]
  BY <1>1, GoesType
<1>4. \A n \in Nat : /\ Name(n, "json") \in Nat \X {"json", "old"}
                     /\ Name(n, "old") \in Nat \X {"json", "old"}
  BY DEF Name
<1>5. CASE NotifyAppCrash(t)
  <2>1. CASE /\ core.callback
             /\ disk' = [disk EXCEPT !.crashState = @ \/ "appstate" \in mon.enabled]
             /\ Moves(t, IF core.context[thr[t].kind] THEN "rename" ELSE "path")
             /\ UNCHANGED port
    <3>1. PICK c \in BOOLEAN : disk' = [disk EXCEPT !.crashState = c]
      <4>1. (disk.crashState \/ "appstate" \in mon.enabled) \in BOOLEAN
        OBVIOUS
      <4>2. QED
        BY <2>1, <4>1
    <3>2. DiskTyped(disk')
      BY <1>0, <3>1 DEF DiskTyped
    <3>3. thr' \in [Thread -> ThreadType]
      BY <1>3, <2>1 DEF Moves, OnCrashSteps
    <3>4. QED
      BY <1>0, <1>2, <1>5, <2>1, <3>2, <3>3 DEF NotifyAppCrash
  <2>2. CASE BadAccess(t) /\ UNCHANGED disk
    BY <1>0, <1>2, <1>5, <2>2, BadAccessType DEF NotifyAppCrash
  <2>3. QED
    BY <1>5, <2>1, <2>2 DEF NotifyAppCrash
<1>6. CASE NextCrashReportPath(t)
  <2>1. PICK n \in Nat : n = core.nextID + 1
    BY <1>1
  <2>2. core' = [core EXCEPT !.nextID = n, !.lastPath = core.nextID]
    BY <1>6, <2>1 DEF NextCrashReportPath
  <2>3. core' \in CoreType
    BY <1>0, <1>1, <2>2 DEF CoreType
  <2>4. [thr[t] EXCEPT !.at = "open", !.path = core.nextID] \in ThreadType
    BY <1>1, ThreadUpdates DEF OnCrashSteps
  <2>5. thr' \in [Thread -> ThreadType]
    BY <1>0, <1>6, <2>4 DEF NextCrashReportPath
  <2>6. QED
    BY <1>0, <1>2, <1>6, <2>3, <2>5 DEF NextCrashReportPath
<1>7. CASE OpenStandardReport(t)
  <2>1. disk' = Create(disk, Name(thr[t].path, "json"), "standard")
    BY <1>7 DEF OpenStandardReport
  <2>2. DiskTyped(disk')
    BY <1>0, <1>1, <1>4, <2>1, CreateType
  <2>3. [thr[t] EXCEPT !.at = "write", !.fd = Len(disk.data) + 1] \in ThreadType
    BY <1>1, ThreadUpdates DEF OnCrashSteps
  <2>4. thr' \in [Thread -> ThreadType]
    BY <1>0, <1>7, <2>3 DEF OpenStandardReport
  <2>5. QED
    BY <1>0, <1>2, <1>7, <2>2, <2>4 DEF OpenStandardReport
<1>8. CASE WriteStandardReport(t)
  <2>1. disk' = [disk EXCEPT !.data[thr[t].fd] = [disk.data[thr[t].fd] EXCEPT !.complete = TRUE]]
    BY <1>8 DEF WriteStandardReport
  <2>2. DiskTyped(disk')
    BY <1>0, <2>1, InodeUpdates, WriteType
  <2>3. hist' = [hist EXCEPT !.finished = TRUE] /\ thr' = Goes(t, "replay")
    BY <1>8 DEF WriteStandardReport, Moves
  <2>4. hist' \in HistType
    BY <1>0, <2>3 DEF HistType
  <2>5. QED
    BY <1>0, <1>2, <1>3, <1>8, <2>2, <2>3, <2>4 DEF WriteStandardReport, OnCrashSteps
<1>9. CASE OpenReplayInfo(t) \/ WriteReplayInfo(t)
  <2>1. DiskTyped(disk')
    BY <1>0, <1>9 DEF DiskTyped, OpenReplayInfo, WriteReplayInfo
  <2>2. thr' \in [Thread -> ThreadType]
    BY <1>3, <1>9 DEF OpenReplayInfo, WriteReplayInfo, Moves, OnCrashSteps
  <2>3. QED
    BY <1>0, <1>2, <1>9, <2>1, <2>2 DEF OpenReplayInfo, WriteReplayInfo
<1>10. CASE RenameReport(t)
  <2>1. [thr[t] EXCEPT !.at = "reopen", !.path = core.lastPath] \in ThreadType
    BY <1>1, ThreadUpdates DEF OnCrashSteps
  <2>2. thr' \in [Thread -> ThreadType]
    BY <1>0, <1>10, <2>1 DEF RenameReport
  <2>3. DiskTyped(disk')
    <3>1. CASE FileIn(disk, Name(core.lastPath, "json"))
      BY <1>0, <1>1, <1>4, <1>10, <3>1, RenameType DEF RenameReport, FileIn
    <3>2. CASE ~FileIn(disk, Name(core.lastPath, "json"))
      BY <1>0, <1>10, <3>2 DEF RenameReport
    <3>3. QED
      BY <3>1, <3>2
  <2>4. QED
    BY <1>0, <1>2, <1>10, <2>2, <2>3 DEF RenameReport
<1>11. CASE OpenRecrashReport(t)
  <2>1. DiskTyped(disk')
    <3>1. DiskTyped(Create(disk, Name(thr[t].path, "json"), "recrash"))
      BY <1>0, <1>1, <1>4, CreateType
    <3>2. QED
      BY <1>0, <1>11, <3>1 DEF OpenRecrashReport
  <2>2. [thr[t] EXCEPT !.at = "embed", !.fd = Len(disk.data) + 1] \in ThreadType
    BY <1>1, ThreadUpdates DEF OnCrashSteps
  <2>3. thr' \in [Thread -> ThreadType]
    BY <1>0, <1>3, <1>11, <2>2 DEF OpenRecrashReport, Moves, OnCrashSteps
  <2>4. QED
    BY <1>0, <1>2, <1>11, <2>1, <2>3 DEF OpenRecrashReport
<1>12. CASE EmbedOldReport(t)
  <2>1. PICK inner \in {"none", "partial", "complete"} :
          disk' = [disk EXCEPT !.data[thr[t].fd] = [disk.data[thr[t].fd] EXCEPT !.inner = inner]]
    BY <1>12 DEF EmbedOldReport
  <2>2. DiskTyped(disk')
    BY <1>0, <2>1, InodeUpdates, WriteType
  <2>3. QED
    BY <1>0, <1>2, <1>3, <1>12, <2>2 DEF EmbedOldReport, Moves, OnCrashSteps
<1>13. CASE RemoveOldReport(t)
  <2>1. DiskTyped(disk')
    BY <1>0, <1>13, RemoveType DEF RemoveOldReport
  <2>2. QED
    BY <1>0, <1>2, <1>3, <1>13, <2>1 DEF RemoveOldReport, Moves, OnCrashSteps
<1>14. CASE WriteRecrashReport(t)
  <2>1. disk' = [disk EXCEPT !.data[thr[t].fd] = [disk.data[thr[t].fd] EXCEPT !.complete = TRUE]]
    BY <1>14 DEF WriteRecrashReport
  <2>2. DiskTyped(disk')
    BY <1>0, <2>1, InodeUpdates, WriteType
  <2>3. QED
    BY <1>0, <1>2, <1>3, <1>14, <2>2 DEF WriteRecrashReport, Moves, OnCrashSteps
<1>15. CASE RunCallbacks(t)
  BY <1>0, <1>2, <1>3, <1>15 DEF RunCallbacks, Moves
<1>16. QED
  BY <1>5, <1>6, <1>7, <1>8, <1>9, <1>10, <1>11, <1>12, <1>13, <1>14, <1>15 DEF OnCrash

(* The steps outside the handlers.                                         *)
Outside ==
    \/ \E machWorks, sigWorks \in BOOLEAN : Install(machWorks, sigWorks)
    \/ BeginUninstall \/ Uninstall \/ StartReplay \/ NextLaunch \/ ReadReplayInfo
    \/ \E t \in App : AppFault(t) \/ Abort(t)
    \/ \E t \in App, what \in {"cpp", "ns"} : Throw(t, what)
    \/ \E t \in Thread : HandlerFault(t)
    \/ \E h \in HandlerThread : Receive(h)

(* They keep the types.                                                    *)
LEMMA OutsideTypes ==
    ASSUME TypeOK, MonShape, Outside
    PROVE  TypeOK'
<1> USE CrashMonitorsAssumption
<1>0. /\ mon \in MonType /\ core \in CoreType /\ thr \in [Thread -> ThreadType]
      /\ port \in Seq(Thread) /\ alive \in BOOLEAN /\ DiskTyped(disk) /\ hist \in HistType
  BY TypeParts
<1>1. /\ Main \in Thread /\ App \subseteq Thread /\ HandlerThread \subseteq Thread
      /\ \A t \in Thread : thr[t] \in ThreadType
      /\ {"run", "closing", "enter", "signalled"} \subseteq Steps
      /\ {"mach", "cpp", "ns"} \subseteq MonitorTypeDebuggerUnsafe
      /\ hist.crashes + 1 \in Nat /\ hist.installs + 1 \in Nat /\ hist.threads \in SUBSET App
  BY <1>0 DEF Thread, HandlerThread, Steps, MonitorTypeDebuggerUnsafe, HistType
<1>2. ASSUME mon' \in MonType, core' \in CoreType, thr' \in [Thread -> ThreadType], port' \in Seq(Thread),
             hist' \in HistType, DiskTyped(disk'), UNCHANGED alive
      PROVE  TypeOK'
  BY <1>0, <1>2, TypePartsNext
<1>3. ASSUME NEW machWorks \in BOOLEAN, NEW sigWorks \in BOOLEAN, Install(machWorks, sigWorks)
      PROVE  TypeOK'
  <2>1. mon' \in MonType
    <3>1. MonitorTypeAll \in SUBSET MonitorTypeAll
      OBVIOUS
    <3>2. QED
      BY <1>3, <3>1, MonitorsSet DEF Install
  <2>2. /\ core' = [core EXCEPT !.installed = TRUE, !.callback = TRUE]
        /\ hist' = [hist EXCEPT !.installs = hist.installs + 1]
        /\ UNCHANGED <<thr, port, alive, disk>>
    BY <1>3 DEF Install
  <2>3. core' \in CoreType
    BY <1>0, <2>2 DEF CoreType
  <2>4. hist' \in HistType
    BY <1>0, <1>1, <2>2 DEF HistType
  <2>5. QED
    BY <1>0, <1>2, <2>1, <2>2, <2>3, <2>4
<1>4. CASE BeginUninstall
  <2>1. mon' \in MonType
    BY <1>4, MonitorsCleared DEF BeginUninstall
  <2>2. thr' \in [Thread -> ThreadType]
    BY <1>1, <1>4, GoesType DEF BeginUninstall, Moves
  <2>3. hist' \in HistType
    BY <1>0, <1>4 DEF BeginUninstall, HistType
  <2>4. QED
    BY <1>0, <1>2, <1>4, <2>1, <2>2, <2>3 DEF BeginUninstall
<1>5. CASE Uninstall
  <2>1. thr' \in [Thread -> ThreadType]
    BY <1>1, <1>5, GoesType DEF Uninstall, Moves
  <2>2. core' \in CoreType
    BY <1>0, <1>5 DEF Uninstall, CoreType
  <2>3. QED
    BY <1>0, <1>2, <1>5, <2>1, <2>2 DEF Uninstall
<1>6. CASE StartReplay
  <2>1. core' \in CoreType
    BY <1>0, <1>6 DEF StartReplay, CoreType
  <2>2. QED
    BY <1>0, <1>2, <1>6, <2>1 DEF StartReplay
<1>7. CASE NextLaunch \/ ReadReplayInfo
  <2>1. DiskTyped(disk')
    BY <1>0, <1>7 DEF NextLaunch, ReadReplayInfo, DiskTyped
  <2>2. QED
    BY <1>0, <1>2, <1>7, <2>1 DEF NextLaunch, ReadReplayInfo
<1>8. ASSUME NEW t \in App, Counted(t) PROVE hist' \in HistType
  <2>1. hist.threads \cup {t} \in SUBSET App
    BY <1>1
  <2>2. hist' = [hist EXCEPT !.crashes = hist.crashes + 1, !.threads = hist.threads \cup {t}]
    BY <1>8 DEF Counted
  <2>3. QED
    BY <1>0, <1>1, <2>1, <2>2 DEF HistType
<1>9. ASSUME NEW t \in App, AppFault(t) PROVE TypeOK'
  BY <1>0, <1>1, <1>2, <1>8, <1>9, BadAccessType DEF AppFault
<1>10. ASSUME NEW t \in App, Abort(t) PROVE TypeOK'
  <2>1. [thr[t] EXCEPT !.at = "signalled", !.sig = "ABRT"] \in ThreadType
    BY <1>1, ThreadUpdates
  <2>2. thr' \in [Thread -> ThreadType]
    BY <1>0, <1>10, <2>1 DEF Abort
  <2>3. QED
    BY <1>0, <1>2, <1>8, <1>10, <2>2 DEF Abort
<1>11. ASSUME NEW t \in App, NEW what \in {"cpp", "ns"}, Throw(t, what) PROVE TypeOK'
  <2>1. /\ [thr[t] EXCEPT !.at = "signalled", !.sig = "ABRT"] \in ThreadType
        /\ [thr[t] EXCEPT !.at = "enter", !.kind = "cpp", !.what = what] \in ThreadType
        /\ [thr[t] EXCEPT !.at = "enter", !.kind = "ns", !.what = what] \in ThreadType
    BY <1>1, ThreadUpdates
  <2>2. thr' \in [Thread -> ThreadType]
    BY <1>0, <1>11, <2>1 DEF Throw
  <2>3. QED
    BY <1>0, <1>2, <1>8, <1>11, <2>2 DEF Throw
<1>12. ASSUME NEW t \in Thread, HandlerFault(t) PROVE TypeOK'
  <2>1. hist' = [hist EXCEPT !.crashes = hist.crashes + 1]
    BY <1>12 DEF HandlerFault
  <2>2. hist' \in HistType
    BY <1>0, <1>1, <2>1 DEF HistType
  <2>3. QED
    BY <1>0, <1>2, <1>12, <2>2, BadAccessType DEF HandlerFault
<1>13. ASSUME NEW h \in HandlerThread, Receive(h) PROVE TypeOK'
  <2>1. port # <<>> /\ port' = Tail(port)
    BY <1>13 DEF Receive
  <2>2. port' \in Seq(Thread) /\ Head(port) \in Thread
    BY <1>0, <2>1, TakeFirst
  <2>3. [thr[h] EXCEPT !.at = "enter", !.kind = "mach", !.from = Head(port)] \in ThreadType
    BY <1>1, <2>2, ThreadUpdates
  <2>4. thr' \in [Thread -> ThreadType]
    BY <1>0, <1>1, <1>13, <2>3 DEF Receive
  <2>5. QED
    BY <1>0, <1>2, <1>13, <2>2, <2>4 DEF Receive
<1>14. QED
  BY <1>3, <1>4, <1>5, <1>6, <1>7, <1>9, <1>10, <1>11, <1>12, <1>13 DEF Outside

(* A step is one of a handler or one outside.                              *)
LEMMA NextCases ==
    ASSUME Next
    PROVE  Outside \/ \E t \in Thread : HandlerStep(t)
BY Zenon DEF Next, Outside

(* Every step keeps the types.                                             *)
LEMMA TypeStep == TypeOK /\ MonShape /\ [Next]_vars => TypeOK'
<1> SUFFICES ASSUME TypeOK, MonShape, [Next]_vars PROVE TypeOK'
  OBVIOUS
<1>1. CASE UNCHANGED vars
  BY <1>1, TypeParts, TypePartsNext DEF vars
<1>2. CASE Next
  BY <1>2, NextCases, OutsideTypes, HandlerTypes, OnCrashTypes DEF HandlerStep
<1>3. QED
  BY <1>1, <1>2

-----------------------------------------------------------------------------
(* What a step changes of the threads                                      *)

(* Only thread t goes on.                                                  *)
Frame(t) ==
    \A u \in Thread \ {t} : /\ thr'[u].at = thr[u].at /\ thr'[u].kind = thr[u].kind
                            /\ thr'[u].path = thr[u].path /\ thr'[u].fd = thr[u].fd

Same(t) == thr'[t].kind = thr[t].kind /\ thr'[t].path = thr[t].path /\ thr'[t].fd = thr[t].fd

MainStays == thr'[Main].susp = thr[Main].susp

(* The exception threads are not threads of the application.               *)
LEMMA MainIsThread ==
    Main \in Thread /\ Main # Primary /\ Main # Secondary /\ Primary # Secondary
BY CrashMonitorsAssumption DEF Thread

(* A thread goes to its next step.                                         *)
LEMMA GoesEffect ==
    ASSUME TypeOK, NEW t \in Thread, NEW s, thr' = Goes(t, s)
    PROVE  Frame(t) /\ Same(t) /\ MainStays /\ thr'[t].at = s
<1>1. thr \in [Thread -> ThreadType]
  BY TypeParts
<1>2. thr' = [thr EXCEPT ![t] = [thr[t] EXCEPT !.at = s]]
  BY DEF Goes
<1>3. thr'[t] = [thr[t] EXCEPT !.at = s] /\ \A u \in Thread \ {t} : thr'[u] = thr[u]
  BY <1>1, <1>2
<1>4. /\ [thr[t] EXCEPT !.at = s].at = s /\ [thr[t] EXCEPT !.at = s].kind = thr[t].kind
      /\ [thr[t] EXCEPT !.at = s].path = thr[t].path /\ [thr[t] EXCEPT !.at = s].fd = thr[t].fd
      /\ [thr[t] EXCEPT !.at = s].susp = thr[t].susp
  BY <1>1 DEF ThreadType
<1>5. QED
  BY <1>3, <1>4, MainIsThread DEF Frame, Same, MainStays

(* A bad access is sent to the port or becomes a signal.                   *)
LEMMA BadAccessEffect ==
    ASSUME TypeOK, NEW t \in Thread, BadAccess(t)
    PROVE  /\ Frame(t) /\ Same(t) /\ MainStays
           /\ \/ /\ thr'[t].at = "blocked" /\ mon.ports = "sentry"
                 /\ port' = Append(port, t) /\ port' # <<>> /\ (port = <<>> => Len(port') = 1)
              \/ thr'[t].at = "signalled" /\ port' = port
<1>0. thr \in [Thread -> ThreadType] /\ port \in Seq(Thread)
  BY TypeParts
<1>1. CASE mon.ports = "sentry"
  <2>1. thr' = Goes(t, "blocked") /\ port' = Append(port, t)
    BY <1>1 DEF BadAccess, Moves
  <2>2. Append(port, t) # <<>> /\ (port = <<>> => Len(Append(port, t)) = 1)
    BY <1>0
  <2>3. QED
    BY <1>1, <2>1, <2>2, GoesEffect
<1>2. CASE mon.ports # "sentry"
  <2>1. thr' = [thr EXCEPT ![t] = [thr[t] EXCEPT !.at = "signalled", !.sig = "SEGV"]] /\ port' = port
    BY <1>2 DEF BadAccess
  <2>2. /\ thr'[t] = [thr[t] EXCEPT !.at = "signalled", !.sig = "SEGV"]
        /\ \A u \in Thread \ {t} : thr'[u] = thr[u]
    BY <1>0, <2>1
  <2>3. PICK r \in ThreadType : r = thr[t]
    BY <1>0
  <2>4. /\ [r EXCEPT !.at = "signalled", !.sig = "SEGV"].at = "signalled"
        /\ [r EXCEPT !.at = "signalled", !.sig = "SEGV"].kind = r.kind
        /\ [r EXCEPT !.at = "signalled", !.sig = "SEGV"].path = r.path
        /\ [r EXCEPT !.at = "signalled", !.sig = "SEGV"].fd = r.fd
        /\ [r EXCEPT !.at = "signalled", !.sig = "SEGV"].susp = r.susp
    BY <2>3 DEF ThreadType
  <2>5. QED
    BY <2>1, <2>2, <2>3, <2>4, MainIsThread DEF Frame, Same, MainStays
<1>3. QED
  BY <1>1, <1>2

(* A handler suspends the threads of the application.                      *)
LEMMA SuspendEffect ==
    ASSUME TypeOK, NEW t \in Thread, NEW s, thr' = SuspendEnvironment(t, s)
    PROVE  /\ Frame(t) /\ Same(t) /\ thr'[t].at = s
           /\ t = Main \/ thr'[Main].susp >= 1
<1>1. thr \in [Thread -> ThreadType]
  BY TypeParts
<1>2. /\ thr'[t] = [thr[t] EXCEPT !.at = s, !.held = Others(t)]
      /\ \A u \in Others(t) : thr'[u] = [thr[u] EXCEPT !.susp = @ + 1]
      /\ \A u \in Thread \ ({t} \cup Others(t)) : thr'[u] = thr[u]
  BY DEF SuspendEnvironment, Others, Thread
<1>3. ASSUME NEW r \in ThreadType
      PROVE  /\ [r EXCEPT !.at = s, !.held = Others(t)].at = s
             /\ [r EXCEPT !.at = s, !.held = Others(t)].kind = r.kind
             /\ [r EXCEPT !.at = s, !.held = Others(t)].path = r.path
             /\ [r EXCEPT !.at = s, !.held = Others(t)].fd = r.fd
             /\ [r EXCEPT !.susp = @ + 1].at = r.at /\ [r EXCEPT !.susp = @ + 1].kind = r.kind
             /\ [r EXCEPT !.susp = @ + 1].path = r.path /\ [r EXCEPT !.susp = @ + 1].fd = r.fd
             /\ [r EXCEPT !.susp = @ + 1].susp >= 1
  BY DEF ThreadType
<1>4. Main \in {t} \cup Others(t) /\ Others(t) \subseteq Thread
  BY CrashMonitorsAssumption DEF Others, Thread
<1>5. Same(t) /\ thr'[t].at = s
  BY <1>1, <1>2, <1>3 DEF Same
<1>6. t = Main \/ thr'[Main].susp >= 1
  BY <1>1, <1>2, <1>3, <1>4
<1>7. Frame(t)
  <2>1. ASSUME NEW u \in Thread \ {t}
        PROVE  /\ thr'[u].at = thr[u].at /\ thr'[u].kind = thr[u].kind
               /\ thr'[u].path = thr[u].path /\ thr'[u].fd = thr[u].fd
    <3>1. CASE u \in Others(t)
      <4>1. PICK r \in ThreadType : r = thr[u]
        BY <1>1
      <4>2. thr'[u] = [r EXCEPT !.susp = @ + 1]
        BY <1>2, <3>1, <4>1
      <4>3. QED
        BY <1>3, <4>1, <4>2
    <3>2. CASE u \notin Others(t)
      BY <1>2, <3>2
    <3>3. QED
      BY <3>1, <3>2
  <2>2. QED
    BY <2>1 DEF Frame
<1>8. QED
  BY <1>5, <1>6, <1>7

(* A handler resumes the threads it suspended.                             *)
LEMMA ResumeEffect ==
    ASSUME TypeOK, NEW t \in Thread, NEW s, thr' = ResumeEnvironment(t, s)
    PROVE  Frame(t) /\ Same(t) /\ thr'[t].at = s
<1>1. thr \in [Thread -> ThreadType]
  BY TypeParts
<1>2. /\ thr'[t] = [thr[t] EXCEPT !.at = s, !.held = {}]
      /\ \A u \in Thread \ {t} : thr'[u] = thr[u] \/ thr'[u] = ThreadResume(thr[u])
  BY DEF ResumeEnvironment
<1>3. ASSUME NEW r \in ThreadType
      PROVE  /\ [r EXCEPT !.at = s, !.held = {}].at = s
             /\ [r EXCEPT !.at = s, !.held = {}].kind = r.kind
             /\ [r EXCEPT !.at = s, !.held = {}].path = r.path
             /\ [r EXCEPT !.at = s, !.held = {}].fd = r.fd
             /\ ThreadResume(r).at = r.at /\ ThreadResume(r).kind = r.kind
             /\ ThreadResume(r).path = r.path /\ ThreadResume(r).fd = r.fd
  BY DEF ThreadType, ThreadResume
<1>4. Same(t) /\ thr'[t].at = s
  BY <1>1, <1>2, <1>3 DEF Same
<1>5. Frame(t)
  <2>1. ASSUME NEW u \in Thread \ {t}
        PROVE  /\ thr'[u].at = thr[u].at /\ thr'[u].kind = thr[u].kind
               /\ thr'[u].path = thr[u].path /\ thr'[u].fd = thr[u].fd
    BY <1>1, <1>2, <1>3
  <2>2. QED
    BY <2>1 DEF Frame
<1>6. QED
  BY <1>4, <1>5

-----------------------------------------------------------------------------
(* The inductive invariant                                                 *)

IndInv ==
    /\ TypeOK /\ MonShape /\ Installed /\ Counting /\ OneCrash
    /\ Flags /\ Once /\ Files /\ CrashState /\ Standard /\ Report

(* The steps of the handlers.                                              *)
LEMMA StepSets ==
    /\ Holding \subseteq Active /\ InHandler \subseteq Holding /\ Window \subseteq InHandler
    /\ OnCrashSteps \subseteq InHandler
    /\ {"signalled", "enter", "exit"} \subseteq Active \ Holding
    /\ {"path", "open", "write", "context", "state", "rename", "replay", "replayed", "callbacks", "done"}
         \subseteq InHandler \ Window
    /\ {"notify", "notified", "resume"} \subseteq Holding \ InHandler
    /\ {"run", "closing", "listen", "gone", "blocked"} \cap Active = {}
BY DEF Holding, Active, InHandler, Window, OnCrashSteps, Steps

(* The only thread that deals with a crash.                                *)
LEMMA Sole ==
    ASSUME OneCrash, Few, NEW t \in Thread, thr[t].at \in Active
    PROVE  port = <<>> /\ \A u \in Thread \ {t} : thr[u].at \notin Active
BY DEF OneCrash

(* A step of a handler keeps what is said of installations and threads.    *)
LEMMA HandlerBasics ==
    ASSUME TypeOK, Installed, Counting, OneCrash, NEW t \in Thread, Frame(t),
           thr[t].at \in Active, thr[t].at = "signalled" => mon.sig = "sentry",
           thr'[t].at \in Active, mon'.enabled \in {mon.enabled, {}},
           port' = port, core'.callback = core.callback, core'.installed = core.installed,
           hist'.crashes = hist.crashes, hist'.threads = hist.threads,
           hist'.installs = hist.installs, hist'.closed = hist.closed
    PROVE  Installed' /\ Counting' /\ OneCrash' /\ hist.installs >= 1
<1>1. hist.installs # 0
  BY DEF Installed, Active
<1>2. thr'[Main].at = "closing" => thr[Main].at = "closing"
  BY StepSets, MainIsThread DEF Frame
<1>3. Installed'
  BY <1>1, <1>2 DEF Installed
<1>4. Counting'
  <2>1. \A u \in hist.threads : u \in Thread => thr'[u].at \notin {"run", "closing"}
    BY StepSets DEF Counting, Frame
  <2>2. hist.threads # {}
    BY DEF Counting
  <2>3. Few' <=> Few
    BY DEF Few
  <2>4. hist.threads \subseteq Thread
    BY TypeParts DEF HistType, Thread
  <2>5. QED
    BY <2>1, <2>2, <2>3, <2>4 DEF Counting
<1>5. OneCrash'
  <2>1. Few' <=> Few
    BY DEF Few
  <2>2. ASSUME Few PROVE port' = <<>> /\ \A u \in Thread \ {t} : thr'[u].at \notin Active
    BY <2>2, Sole DEF Frame
  <2>3. QED
    BY <2>1, <2>2 DEF OneCrash
<1>6. hist.installs \in Nat
  BY TypeParts DEF HistType
<1>7. QED
  BY <1>1, <1>3, <1>4, <1>5, <1>6

(* The reports keep their names and contents.                              *)
LEMMA NamesStay ==
    ASSUME disk'.dir = disk.dir, disk'.data = disk.data, core'.lastPath = core.lastPath
    PROVE  /\ Json' = Json /\ Old' = Old
           /\ Holds(Json)' <=> Holds(Json)
           /\ Holds(Old)' <=> Holds(Old)
           /\ FileIn(disk', Json') <=> FileIn(disk, Json)
           /\ Saved' <=> Saved
<1>1. Json' = Json /\ Old' = Old
  BY DEF Json, Old
<1>2. Holds(Json)' <=> Holds(Json)
  BY <1>1 DEF Holds, FileIn
<1>3. Holds(Old)' <=> Holds(Old)
  BY <1>1 DEF Holds, FileIn
<1>4. FileIn(disk', Json') <=> FileIn(disk, Json)
  BY <1>1 DEF FileIn
<1>5. Saved' <=> Saved
  BY DEF Saved
<1>6. QED
  BY <1>1, <1>2, <1>3, <1>4, <1>5

(* A step that moves no thread into, out of or along the window keeps the  *)
(* report where it is.                                                     *)
LEMMA ReportStays ==
    ASSUME Report, disk'.dir = disk.dir, disk'.data = disk.data, core'.lastPath = core.lastPath,
           hist'.finished => hist.finished, Few' => Few, Broken => Broken',
           \A u \in Thread :
               thr'[u].at \in Window \/ thr[u].at \in Window =>
                   thr'[u].at = thr[u].at /\ thr'[u].fd = thr[u].fd
    PROVE  Report'
<1>1. /\ Json' = Json /\ Old' = Old
      /\ Holds(Json)' <=> Holds(Json)
      /\ Holds(Old)' <=> Holds(Old)
      /\ FileIn(disk', Json') <=> FileIn(disk, Json)
  BY NamesStay
<1>2. ASSUME Few, hist.finished, NEW u \in Thread
      PROVE  /\ thr'[u].at = "reopen" => Holds(Old)' /\ ~FileIn(disk', Json')
             /\ thr'[u].at = "embed" =>
                    /\ Holds(Old)' /\ FileIn(disk', Json') /\ disk'.dir[Json'] = thr'[u].fd
                    /\ disk'.dir[Old'] # thr'[u].fd
             /\ thr'[u].at \in {"rmold", "rewrite"} =>
                    /\ FileIn(disk', Json') /\ disk'.dir[Json'] = thr'[u].fd
                    /\ disk'.data[thr'[u].fd].inner = "complete"
  <2>1. CASE thr'[u].at \in Window
    <3>1. thr'[u].at = thr[u].at /\ thr'[u].fd = thr[u].fd
      BY <2>1
    <3>2. /\ thr[u].at = "reopen" => Holds(Old) /\ ~FileIn(disk, Json)
          /\ thr[u].at = "embed" =>
                 Holds(Old) /\ FileIn(disk, Json) /\ disk.dir[Json] = thr[u].fd /\ disk.dir[Old] # thr[u].fd
          /\ thr[u].at \in {"rmold", "rewrite"} =>
                 FileIn(disk, Json) /\ disk.dir[Json] = thr[u].fd /\ disk.data[thr[u].fd].inner = "complete"
      BY <1>2 DEF Report, Embedded
    <3>3. QED
      BY <1>1, <3>1, <3>2
  <2>2. CASE thr'[u].at \notin Window
    BY <2>2 DEF Window
  <2>3. QED
    BY <2>1, <2>2
<1>3. ASSUME Few, hist.finished, \A u \in Thread : thr'[u].at \notin Window
      PROVE  Holds(Json)' \/ Broken'
  <2>1. \A u \in Thread : thr[u].at \notin Window
    BY <1>3
  <2>2. Holds(Json) \/ Broken
    BY <1>3, <2>1 DEF Report
  <2>3. QED
    BY <1>1, <2>2
<1>4. QED
  BY <1>2, <1>3 DEF Report, Embedded

(* A handler notes that it handles a crash.                                *)
LEMMA NotifyNext ==
    ASSUME IndInv, NEW t \in Thread, Notify(t)
    PROVE  /\ MonShape' /\ Installed' /\ Counting' /\ OneCrash'
           /\ Flags' /\ Once' /\ Files' /\ CrashState' /\ Standard' /\ Report'
<1> USE StepSets, MainIsThread DEF IndInv
<1>1. /\ thr[t].at = "notify"
      /\ core'.recrashed <=> (core.recrashed \/ core.handling)
      /\ core'.installed = core.installed /\ core'.callback = core.callback
      /\ core'.handling = core.handling /\ core'.context = core.context
      /\ core'.nextID = core.nextID /\ core'.lastPath = core.lastPath
      /\ UNCHANGED <<mon, port, alive, disk, hist>>
  BY TypeParts DEF Notify, CoreType
<1>2. Frame(t) /\ Same(t) /\ MainStays /\ thr'[t].at = "notified"
  BY <1>1, GoesEffect DEF Notify, Moves
<1>3. Installed' /\ Counting' /\ OneCrash' /\ hist.installs >= 1
  BY <1>1, <1>2, HandlerBasics
<1>4. MonShape'
  BY <1>1 DEF MonShape
<1>5. Few' <=> Few
  BY <1>1 DEF Few
<1>6. ASSUME Few PROVE port = <<>> /\ \A u \in Thread \ {t} : thr[u].at \notin Active
  BY <1>1, <1>6, Sole
<1>7. Flags'
  <2>1. \A u \in Thread : thr'[u].at \in InHandler => core'.handling
    BY <1>1, <1>2 DEF Flags, Frame
  <2>2. ASSUME Few, NEW u \in Thread
        PROVE  /\ thr'[u].at = "notified" /\ core'.handling => core'.recrashed
               /\ thr'[u].at = "state" /\ ~core'.context[thr'[u].kind] => ~core'.recrashed
               /\ thr'[u].at \in Window \cup {"rename"} => core'.recrashed
               /\ thr'[u].at \in InHandler /\ core'.recrashed => mon'.enabled = {}
               /\ thr'[u].at \in Holding => u = Main \/ thr'[Main].susp >= 1
    BY <1>1, <1>2, <1>6, <2>2 DEF Flags, Frame, MainStays
  <2>3. QED
    BY <1>1, <1>5, <2>1, <2>2 DEF Flags
<1>8. Once'
  BY <1>1, <1>2 DEF Once, Frame
<1>9. Files'
  BY <1>1, <1>2, <1>5 DEF Files, Frame, Same
<1>10. CrashState'
  BY <1>1, <1>2, <1>3, <1>5, <1>6 DEF CrashState, Frame
<1>11. Standard'
  BY <1>1, <1>2, <1>5 DEF Standard, Frame, Same, Json
<1>12. Report'
  <2>1. ~Broken
    BY <1>1 DEF Broken
  <2>2. \A u \in Thread :
            thr'[u].at \in Window \/ thr[u].at \in Window =>
                thr'[u].at = thr[u].at /\ thr'[u].fd = thr[u].fd
    BY <1>1, <1>2 DEF Frame
  <2>3. QED
    BY <1>1, <1>5, <2>1, <2>2, ReportStays
<1>13. QED
  BY <1>3, <1>4, <1>7, <1>8, <1>9, <1>10, <1>11, <1>12

(* ... and that it does: the monitors are switched off if it is not the    *)
(* first time.                                                             *)
LEMMA NotifiedNext ==
    ASSUME IndInv, NEW t \in Thread, Notified(t)
    PROVE  /\ MonShape' /\ Installed' /\ Counting' /\ OneCrash'
           /\ Flags' /\ Once' /\ Files' /\ CrashState' /\ Standard' /\ Report'
<1> USE StepSets, MainIsThread DEF IndInv
<1>1. /\ thr[t].at = "notified"
      /\ core'.recrashed = core.recrashed
      /\ core'.installed = core.installed /\ core'.callback = core.callback
      /\ core'.handling /\ core'.context = core.context
      /\ core'.nextID = core.nextID /\ core'.lastPath = core.lastPath
      /\ UNCHANGED <<port, alive, disk, hist>>
  BY TypeParts DEF Notified, CoreType
<1>2. /\ mon'.enabled = IF core.recrashed THEN {} ELSE mon.enabled
      /\ mon'.sig = IF core.recrashed THEN "original" ELSE mon.sig
  <2>1. /\ mon \in MonType /\ NoMonitors \in MonType
        /\ NoMonitors.enabled = {} /\ NoMonitors.sig = "original"
    BY TypeParts, MonitorsCleared
  <2>2. \A m \in MonType : /\ RestoreExceptionPorts(m).enabled = m.enabled
                           /\ RestoreExceptionPorts(m).sig = m.sig
    BY DEF RestoreExceptionPorts, MonType
  <2>3. QED
    BY <2>1, <2>2 DEF Notified
<1>3. Frame(t) /\ Same(t) /\ MainStays /\ thr'[t].at = "context"
  <2>1. CASE t # Primary
    BY <2>1, GoesEffect DEF Notified
  <2>2. CASE t = Primary
    <3>1. thr' = [Goes(t, "context") EXCEPT ![Secondary] = ThreadResume(thr[Secondary])]
      BY <2>2 DEF Notified, Goes
    <3>2. thr \in [Thread -> ThreadType] /\ Secondary \in Thread /\ Goes(t, "context") \in [Thread -> ThreadType]
      BY TypeParts, GoesType DEF Thread, HandlerThread, Steps
    <3>3. ASSUME NEW r \in ThreadType
          PROVE  /\ ThreadResume(r).at = r.at /\ ThreadResume(r).kind = r.kind
                 /\ ThreadResume(r).path = r.path /\ ThreadResume(r).fd = r.fd
                 /\ [r EXCEPT !.at = "context"].at = "context"
                 /\ [r EXCEPT !.at = "context"].kind = r.kind
                 /\ [r EXCEPT !.at = "context"].path = r.path
                 /\ [r EXCEPT !.at = "context"].fd = r.fd
      BY DEF ThreadType, ThreadResume
    <3>4. /\ thr'[t] = [thr[t] EXCEPT !.at = "context"]
          /\ thr'[Secondary] = ThreadResume(thr[Secondary])
          /\ \A u \in Thread \ {t, Secondary} : thr'[u] = thr[u]
      BY <2>2, <3>1, <3>2 DEF Goes
    <3>5. QED
      BY <2>2, <3>2, <3>3, <3>4 DEF Frame, Same, MainStays
  <2>3. QED
    BY <2>1, <2>2
<1>4. Installed' /\ Counting' /\ OneCrash' /\ hist.installs >= 1
  BY <1>1, <1>2, <1>3, HandlerBasics
<1>5. MonShape'
  BY <1>2 DEF MonShape
<1>6. Few' <=> Few
  BY <1>1 DEF Few
<1>7. ASSUME Few PROVE port = <<>> /\ \A u \in Thread \ {t} : thr[u].at \notin Active
  BY <1>1, <1>7, Sole
<1>8. Flags'
  <2>1. ASSUME Few, NEW u \in Thread
        PROVE  /\ thr'[u].at = "notified" /\ core'.handling => core'.recrashed
               /\ thr'[u].at = "state" /\ ~core'.context[thr'[u].kind] => ~core'.recrashed
               /\ thr'[u].at \in Window \cup {"rename"} => core'.recrashed
               /\ thr'[u].at \in InHandler /\ core'.recrashed => mon'.enabled = {}
               /\ thr'[u].at \in Holding => u = Main \/ thr'[Main].susp >= 1
    BY <1>1, <1>2, <1>3, <1>7, <2>1 DEF Flags, Frame, MainStays
  <2>2. QED
    BY <1>1, <1>6, <2>1 DEF Flags
<1>9. Once'
  <2>1. ASSUME hist.crashes <= 1, hist.installs <= 1
        PROVE  /\ ~core'.recrashed /\ port = <<>>
               /\ \A u \in Thread : thr'[u].at \in Active => u = t
    <3>1. Few
      BY <2>1 DEF Counting
    <3>2. QED
      BY <1>1, <1>3, <1>7, <2>1, <3>1 DEF Once, Frame
  <2>2. QED
    BY <1>1, <1>2, <1>3, <2>1 DEF Once
<1>10. Files'
  BY <1>1, <1>3, <1>6 DEF Files, Frame, Same
<1>11. CrashState'
  <2>1. ASSUME Few, ~hist.closed
        PROVE  /\ core.lastPath # 0 => disk.crashState
               /\ \A u \in Thread :
                     /\ thr'[u].at \in {"notified", "context", "state"} /\ ~core'.recrashed =>
                            "appstate" \in mon'.enabled
                     /\ thr'[u].at = "path" => disk.crashState
    BY <1>1, <1>2, <1>3, <1>7, <2>1 DEF CrashState, Frame
  <2>2. QED
    BY <1>1, <1>6, <2>1 DEF CrashState
<1>12. Standard'
  BY <1>1, <1>3, <1>6 DEF Standard, Flags, Frame, Same, Json
<1>13. Report'
  <2>1. ~Broken
    BY <1>1 DEF Broken
  <2>2. \A u \in Thread :
            thr'[u].at \in Window \/ thr[u].at \in Window =>
                thr'[u].at = thr[u].at /\ thr'[u].fd = thr[u].fd
    BY <1>1, <1>3 DEF Frame
  <2>3. QED
    BY <1>1, <1>6, <2>1, <2>2, ReportStays
<1>14. QED
  BY <1>4, <1>5, <1>8, <1>9, <1>10, <1>11, <1>12, <1>13

(* It takes the context of its monitor.                                    *)
LEMMA ContextNext ==
    ASSUME IndInv, NEW t \in Thread, Context(t)
    PROVE  /\ MonShape' /\ Installed' /\ Counting' /\ OneCrash'
           /\ Flags' /\ Once' /\ Files' /\ CrashState' /\ Standard' /\ Report'
<1> USE StepSets, MainIsThread DEF IndInv
<1>1. /\ thr[t].at = "context"
      /\ core'.recrashed = core.recrashed
      /\ core'.installed = core.installed /\ core'.callback = core.callback
      /\ core'.handling = core.handling
      /\ core'.nextID = core.nextID /\ core'.lastPath = core.lastPath
      /\ UNCHANGED <<mon, port, alive, disk, hist>>
  BY TypeParts DEF Context, CoreType
<1>2. /\ core.recrashed => core'.context[thr[t].kind]
      /\ \A k \in MonitorTypeDebuggerUnsafe :
            core'.context[k] => core.context[k] \/ core.recrashed
  <2>1. PICK c : /\ core' = [core EXCEPT !.context[thr[t].kind] = c]
                 /\ c <=> core.recrashed \/ (thr[t].kind = "mach" /\ core.context[thr[t].kind])
    BY DEF Context
  <2>2. core \in CoreType /\ thr[t].kind \in MonitorTypeDebuggerUnsafe
    BY TypeParts DEF ThreadType
  <2>3. core'.context = [core.context EXCEPT ![thr[t].kind] = c]
        /\ core.context \in [MonitorTypeDebuggerUnsafe -> BOOLEAN]
    BY <2>1, <2>2 DEF CoreType
  <2>4. core'.context[thr[t].kind] = c
        /\ \A k \in MonitorTypeDebuggerUnsafe \ {thr[t].kind} : core'.context[k] = core.context[k]
    BY <2>2, <2>3
  <2>5. QED
    BY <2>1, <2>4
<1>3. Frame(t) /\ Same(t) /\ MainStays /\ thr'[t].at = "state"
  BY <1>1, GoesEffect DEF Context, Moves
<1>4. Installed' /\ Counting' /\ OneCrash' /\ hist.installs >= 1
  BY <1>1, <1>3, HandlerBasics
<1>5. MonShape'
  BY <1>1 DEF MonShape
<1>6. Few' <=> Few
  BY <1>1 DEF Few
<1>7. ASSUME Few PROVE port = <<>> /\ \A u \in Thread \ {t} : thr[u].at \notin Active
  BY <1>1, <1>7, Sole
<1>8. Flags'
  <2>1. ASSUME Few, NEW u \in Thread
        PROVE  /\ thr'[u].at = "notified" /\ core'.handling => core'.recrashed
               /\ thr'[u].at = "state" /\ ~core'.context[thr'[u].kind] => ~core'.recrashed
               /\ thr'[u].at \in Window \cup {"rename"} => core'.recrashed
               /\ thr'[u].at \in InHandler /\ core'.recrashed => mon'.enabled = {}
               /\ thr'[u].at \in Holding => u = Main \/ thr'[Main].susp >= 1
    BY <1>1, <1>2, <1>3, <1>7, <2>1 DEF Flags, Frame, Same, MainStays
  <2>2. \A u \in Thread : thr'[u].at \in InHandler => core'.handling
    BY <1>1, <1>3 DEF Flags, Frame
  <2>3. \A k \in MonitorTypeDebuggerUnsafe : core'.context[k] => core'.recrashed
    BY <1>1, <1>2 DEF Flags
  <2>4. QED
    BY <1>1, <1>6, <2>1, <2>2, <2>3 DEF Flags
<1>9. Once'
  BY <1>1, <1>3 DEF Once, Frame
<1>10. Files'
  BY <1>1, <1>3, <1>6 DEF Files, Frame, Same
<1>11. CrashState'
  BY <1>1, <1>3, <1>4, <1>6 DEF CrashState, Frame
<1>12. Standard'
  BY <1>1, <1>3, <1>6 DEF Standard, Frame, Same, Json
<1>13. Report'
  <2>1. ~Broken
    BY <1>1 DEF Broken
  <2>2. \A u \in Thread :
            thr'[u].at \in Window \/ thr[u].at \in Window =>
                thr'[u].at = thr[u].at /\ thr'[u].fd = thr[u].fd
    BY <1>1, <1>3 DEF Frame
  <2>3. QED
    BY <1>1, <1>6, <2>1, <2>2, ReportStays
<1>14. QED
  BY <1>4, <1>5, <1>8, <1>9, <1>10, <1>11, <1>12, <1>13

(* A step of a handler that has nothing to do with its flags and reports.  *)
Elsewhere == {"notify", "replayed", "callbacks", "done", "resume", "signalled", "enter", "exit"}

(* Such a step keeps the invariant.                                        *)
LEMMA PassOn ==
    ASSUME IndInv, NEW t \in Thread, Frame(t),
           thr'[t].path = thr[t].path, thr'[t].fd = thr[t].fd,
           thr[t].at \in Active \ Window, thr'[t].at \in Elsewhere,
           thr[t].at = "signalled" => mon.sig = "sentry",
           UNCHANGED <<core, port, hist>>,
           disk'.dir = disk.dir, disk'.data = disk.data, disk'.crashState = disk.crashState,
           \/ mon' = mon
           \/ mon'.enabled = {} /\ mon'.sig = "original" /\ core.handling,
           thr'[t].at \in InHandler => thr[t].at \in InHandler,
           Few /\ thr'[t].at \in Holding => t = Main \/ thr'[Main].susp >= 1,
           hist.crashes <= 1 /\ hist.installs <= 1 /\ core.handling =>
               /\ thr'[t].at # "notify"
               /\ thr'[t].at \in {"signalled", "enter", "exit", "resume"} => mon'.enabled = {}
               /\ thr'[t].at = "enter" => thr'[t].kind # "cpp",
           Broken => /\ MainStays
                     /\ \/ thr'[t].at = "signalled"
                        \/ thr'[t].at \in {"enter", "exit"} /\ thr'[t].kind \in {"mach", "signal"}
    PROVE  /\ MonShape' /\ Installed' /\ Counting' /\ OneCrash'
           /\ Flags' /\ Once' /\ Files' /\ CrashState' /\ Standard' /\ Report'
<1> USE StepSets, MainIsThread DEF IndInv
<1>1. /\ thr'[t].at \in Active /\ thr[t].at \in Active
      /\ thr'[t].at \notin Window \cup {"path", "open", "write", "notified", "context", "state", "rename"}
  BY DEF Elsewhere, Active, Steps, Window
<1>2. Installed' /\ Counting' /\ OneCrash' /\ hist.installs >= 1
  BY <1>1, HandlerBasics
<1>3. MonShape'
  BY DEF MonShape
<1>4. Few' <=> Few
  BY DEF Few
<1>5. ASSUME Few PROVE port = <<>> /\ \A u \in Thread \ {t} : thr[u].at \notin Active
  BY <1>1, <1>5, Sole
<1>6. Flags'
  <2>1. ASSUME Few, NEW u \in Thread
        PROVE  /\ thr'[u].at = "notified" /\ core'.handling => core'.recrashed
               /\ thr'[u].at = "state" /\ ~core'.context[thr'[u].kind] => ~core'.recrashed
               /\ thr'[u].at \in Window \cup {"rename"} => core'.recrashed
               /\ thr'[u].at \in InHandler /\ core'.recrashed => mon'.enabled = {}
               /\ thr'[u].at \in Holding => u = Main \/ thr'[Main].susp >= 1
    <3>1. CASE u = t
      BY <1>1, <2>1, <3>1 DEF Flags
    <3>2. CASE u # t
      BY <1>5, <2>1, <3>2 DEF Frame
    <3>3. QED
      BY <3>1, <3>2
  <2>2. \A u \in Thread : thr'[u].at \in InHandler => core'.handling
    BY DEF Flags, Frame
  <2>3. QED
    BY <1>4, <2>1, <2>2 DEF Flags
<1>7. Once'
  <2>1. ASSUME hist.crashes <= 1, hist.installs <= 1, core.handling, NEW u \in Thread
        PROVE  /\ thr'[u].at \notin {"notify", "notified"}
               /\ thr'[u].at \in {"signalled", "enter", "exit", "resume"} => mon'.enabled = {}
               /\ thr'[u].at = "enter" => thr'[u].kind # "cpp"
    <3>1. CASE u = t
      BY <1>1, <2>1, <3>1
    <3>2. CASE u # t
      BY <2>1, <3>2 DEF Once, Frame
    <3>3. QED
      BY <3>1, <3>2
  <2>2. QED
    BY <2>1 DEF Once
<1>8. Files'
  BY <1>1, <1>4 DEF Files, Frame
<1>9. CrashState'
  <2>1. ASSUME Few, NEW u \in Thread
        PROVE  thr'[u].at \notin {"notified", "context", "state", "path"}
    <3>1. CASE u = t
      BY <1>1, <3>1
    <3>2. CASE u # t
      BY <1>5, <2>1, <3>2 DEF Frame
    <3>3. QED
      BY <3>1, <3>2
  <2>2. QED
    BY <1>4, <2>1 DEF CrashState
<1>10. Standard'
  <2>1. ASSUME Few, NEW u \in Thread
        PROVE  thr'[u].at \notin {"path", "open", "write", "context", "state"}
    <3>1. CASE u = t
      BY <1>1, <3>1
    <3>2. CASE u # t
      BY <1>5, <2>1, <3>2 DEF Frame
    <3>3. QED
      BY <3>1, <3>2
  <2>2. QED
    BY <1>4, <2>1 DEF Standard
<1>11. ASSUME Few, hist.finished PROVE Holds(Json)' \/ Broken'
  <2>1. \A u \in Thread : thr[u].at \notin Window
    BY <1>5, <1>11
  <2>2. CASE Holds(Json)
    BY <2>2 DEF Holds, FileIn, Json
  <2>3. CASE Broken
    <3>1. thr'[Main].susp >= 1 \/ thr'[Main].at \notin {"run", "closing"}
      <4>1. CASE t = Main
        BY <1>1, <4>1 DEF Elsewhere
      <4>2. CASE t # Main
        BY <2>3, <4>2 DEF Broken, Frame, MainStays
      <4>3. QED
        BY <4>1, <4>2
    <3>2. ASSUME NEW u \in Thread, thr'[u].at \in Active
          PROVE  \/ thr'[u].at = "signalled"
                 \/ thr'[u].at \in {"enter", "exit"} /\ thr'[u].kind \in {"mach", "signal"}
      BY <1>5, <1>11, <2>3, <3>2 DEF Frame
    <3>3. Saved' /\ mon'.enabled = {}
      BY <2>3 DEF Broken, Saved
    <3>4. QED
      BY <3>1, <3>2, <3>3 DEF Broken
  <2>4. QED
    BY <1>11, <2>1, <2>2, <2>3 DEF Report
<1>12. ASSUME Few, NEW u \in Thread PROVE thr'[u].at \notin Window
  BY <1>1, <1>5, <1>12 DEF Frame
<1>13. Report'
  BY <1>4, <1>11, <1>12 DEF Report, Window
<1>14. QED
  BY <1>2, <1>3, <1>6, <1>7, <1>8, <1>9, <1>10, <1>13

(* One thread whose record is replaced.                                    *)
LEMMA ThreadEffect ==
    ASSUME TypeOK, NEW t \in Thread, NEW r, thr' = [thr EXCEPT ![t] = r],
           r.path = thr[t].path, r.fd = thr[t].fd, r.susp = thr[t].susp
    PROVE  /\ Frame(t) /\ MainStays /\ thr'[t] = r
           /\ thr'[t].path = thr[t].path /\ thr'[t].fd = thr[t].fd
<1>1. thr \in [Thread -> ThreadType]
  BY TypeParts
<1>2. thr'[t] = r /\ \A u \in Thread \ {t} : thr'[u] = thr[u]
  BY <1>1
<1>3. QED
  BY <1>2, MainIsThread DEF Frame, MainStays

(* A signal is delivered to its handler.                                   *)
LEMMA TakeSignalNext ==
    ASSUME IndInv, NEW t \in Thread, TakeSignal(t), mon.sig = "sentry", thr' # thr
    PROVE  /\ MonShape' /\ Installed' /\ Counting' /\ OneCrash'
           /\ Flags' /\ Once' /\ Files' /\ CrashState' /\ Standard' /\ Report'
<1> USE StepSets, MainIsThread DEF IndInv
<1>1. PICK r \in ThreadType : r = thr[t]
  BY TypeParts
<1> DEFINE q == [r EXCEPT !.at = "enter", !.kind = "signal", !.mask = @ \cup {r.sig}]
<1>2. q.at = "enter" /\ q.kind = "signal" /\ q.path = r.path /\ q.fd = r.fd /\ q.susp = r.susp
  BY DEF ThreadType
<1>3. thr[t].at = "signalled" /\ thr' = [thr EXCEPT ![t] = q] /\ UNCHANGED <<mon, core, port, disk, hist>>
  BY <1>1 DEF TakeSignal
<1> HIDE DEF q
<1>4. /\ Frame(t) /\ MainStays /\ thr'[t].path = thr[t].path /\ thr'[t].fd = thr[t].fd
      /\ thr'[t].at = "enter" /\ thr'[t].kind = "signal"
  <2>1. thr' = [thr EXCEPT ![t] = q]
    BY <1>3
  <2>2. q.path = thr[t].path /\ q.fd = thr[t].fd /\ q.susp = thr[t].susp
    BY <1>1, <1>2
  <2>3. Frame(t) /\ MainStays /\ thr'[t] = q
    BY <2>1, <2>2, ThreadEffect
  <2>4. QED
    BY <1>2, <2>2, <2>3
<1>5. "signal" \in mon.enabled
  BY DEF MonShape
<1>6. Broken => FALSE
  BY <1>5 DEF Broken
<1>7. hist.crashes <= 1 /\ hist.installs <= 1 /\ core.handling => FALSE
  BY <1>3, <1>5 DEF Once
<1>8. thr'[t].at \in Elsewhere /\ thr'[t].at \notin Holding
  BY <1>4 DEF Elsewhere
<1>9. QED
  BY <1>3, <1>4, <1>6, <1>7, <1>8, PassOn

(* A handler suspends the other threads, or returns at once.               *)
LEMMA EnterNext ==
    ASSUME IndInv, NEW t \in Thread, Enter(t)
    PROVE  /\ MonShape' /\ Installed' /\ Counting' /\ OneCrash'
           /\ Flags' /\ Once' /\ Files' /\ CrashState' /\ Standard' /\ Report'
<1> USE StepSets, MainIsThread DEF IndInv
<1>1. thr[t].at = "enter" /\ UNCHANGED <<mon, core, port, disk, hist>>
  BY DEF Enter
<1>2. \/ /\ thr' = SuspendEnvironment(t, "notify") \/ thr' = SuspendEnvironment(t, "resume")
         /\ mon.enabled # {} \/ thr[t].kind = "cpp"
      \/ thr' = Goes(t, "exit") /\ thr[t].kind # "cpp"
  <2>1. thr[t].kind \in {"mach", "signal", "cpp", "ns"}
    BY TypeParts DEF ThreadType, MonitorTypeDebuggerUnsafe
  <2>2. QED
    BY <2>1 DEF Enter, HandleExceptions, HandleSignal, HandleNSException, CPPExceptionTerminate
<1>3. CASE thr' = Goes(t, "exit") /\ thr[t].kind # "cpp"
  <2>1. Frame(t) /\ Same(t) /\ MainStays /\ thr'[t].at = "exit"
    BY <1>3, GoesEffect
  <2>2. hist.crashes <= 1 /\ hist.installs <= 1 /\ core.handling => mon.enabled = {}
    BY <1>1 DEF Once
  <2>3. Broken => thr[t].kind \in {"mach", "signal"}
    BY <1>1 DEF Broken
  <2>4. "exit" \in Elsewhere \ Holding
    BY DEF Elsewhere
  <2>5. QED
    BY <1>1, <2>1, <2>2, <2>3, <2>4, PassOn DEF Same
<1>4. ASSUME NEW s \in {"notify", "resume"}, thr' = SuspendEnvironment(t, s),
             mon.enabled # {} \/ thr[t].kind = "cpp"
      PROVE  /\ MonShape' /\ Installed' /\ Counting' /\ OneCrash'
             /\ Flags' /\ Once' /\ Files' /\ CrashState' /\ Standard' /\ Report'
  <2>1. Frame(t) /\ Same(t) /\ thr'[t].at = s /\ (t = Main \/ thr'[Main].susp >= 1)
    BY <1>4, SuspendEffect
  <2>2. Broken => FALSE
    BY <1>1, <1>4 DEF Broken
  <2>3. hist.crashes <= 1 /\ hist.installs <= 1 /\ core.handling => FALSE
    BY <1>1, <1>4 DEF Once
  <2>4. s \in Elsewhere /\ s \notin InHandler
    BY DEF Elsewhere
  <2>5. QED
    BY <1>1, <2>1, <2>2, <2>3, <2>4, PassOn DEF Same
<1>5. QED
  BY <1>2, <1>3, <1>4

(* The end of the first crash switches the monitors off.                   *)
LEMMA RestoreHandlersNext ==
    ASSUME IndInv, NEW t \in Thread, RestoreHandlers(t)
    PROVE  /\ MonShape' /\ Installed' /\ Counting' /\ OneCrash'
           /\ Flags' /\ Once' /\ Files' /\ CrashState' /\ Standard' /\ Report'
<1> USE StepSets, MainIsThread DEF IndInv
<1>1. thr[t].at = "done" /\ UNCHANGED <<core, port, disk, hist>>
  BY DEF RestoreHandlers
<1>2. core.handling
  BY <1>1 DEF Flags
<1>3. mon' = mon \/ (mon'.enabled = {} /\ mon'.sig = "original" /\ core.handling)
  BY <1>2, MonitorsCleared DEF RestoreHandlers
<1>4. hist.crashes <= 1 /\ hist.installs <= 1 => mon'.enabled = {}
  BY <1>2, MonitorsCleared DEF RestoreHandlers, Once
<1>5. Frame(t) /\ Same(t) /\ MainStays /\ thr'[t].at = "resume"
  BY GoesEffect DEF RestoreHandlers, Moves
<1>6. Broken => FALSE
  BY <1>1 DEF Broken
<1>7. ASSUME Few PROVE t = Main \/ thr'[Main].susp >= 1
  BY <1>1, <1>5, <1>7 DEF Flags, MainStays
<1>8. "resume" \in Elsewhere \ InHandler
  BY DEF Elsewhere
<1>9. QED
  BY <1>1, <1>3, <1>4, <1>5, <1>6, <1>7, <1>8, PassOn DEF Same

(* It lets the threads go on.                                              *)
LEMMA ResumeNext ==
    ASSUME IndInv, NEW t \in Thread, Resume(t)
    PROVE  /\ MonShape' /\ Installed' /\ Counting' /\ OneCrash'
           /\ Flags' /\ Once' /\ Files' /\ CrashState' /\ Standard' /\ Report'
<1> USE StepSets, MainIsThread DEF IndInv
<1>1. thr[t].at = "resume" /\ UNCHANGED <<mon, core, port, disk, hist>>
  BY DEF Resume
<1>2. Frame(t) /\ Same(t) /\ thr'[t].at = "exit"
  BY GoesEffect, ResumeEffect DEF Resume
<1>3. hist.crashes <= 1 /\ hist.installs <= 1 /\ core.handling => mon.enabled = {}
  BY <1>1 DEF Once
<1>4. Broken => FALSE
  BY <1>1 DEF Broken
<1>5. "exit" \in Elsewhere \ Holding
  BY DEF Elsewhere
<1>6. QED
  BY <1>1, <1>2, <1>3, <1>4, <1>5, PassOn DEF Same

(* The reply to the kernel: the thread that crashed gets a signal.         *)
LEMMA ReplyNext ==
    ASSUME IndInv, NEW t \in Thread, thr[t].at = "exit", thr' = Reply(t),
           UNCHANGED <<mon, core, port, disk, hist>>
    PROVE  /\ MonShape' /\ Installed' /\ Counting' /\ OneCrash'
           /\ Flags' /\ Once' /\ Files' /\ CrashState' /\ Standard' /\ Report'
<1> USE StepSets, MainIsThread DEF IndInv
<1>1. thr \in [Thread -> ThreadType] /\ thr[t].from \in Thread
  BY TypeParts DEF ThreadType
<1>2. PICK f \in Thread : f = thr[t].from
  BY <1>1
<1> DEFINE mid == [thr EXCEPT ![t] = [thr[t] EXCEPT !.at = "gone"]]
<1>4. thr' = [mid EXCEPT ![f] = [mid[f] EXCEPT !.at = "signalled", !.sig = "SEGV"]]
  BY <1>2 DEF Reply
<1>5. ASSUME NEW r \in ThreadType
      PROVE  /\ [r EXCEPT !.at = "gone"] \in ThreadType /\ [r EXCEPT !.at = "gone"].at = "gone"
             /\ [r EXCEPT !.at = "gone"].kind = r.kind /\ [r EXCEPT !.at = "gone"].path = r.path
             /\ [r EXCEPT !.at = "gone"].fd = r.fd /\ [r EXCEPT !.at = "gone"].susp = r.susp
             /\ [r EXCEPT !.at = "signalled", !.sig = "SEGV"].at = "signalled"
             /\ [r EXCEPT !.at = "signalled", !.sig = "SEGV"].kind = r.kind
             /\ [r EXCEPT !.at = "signalled", !.sig = "SEGV"].path = r.path
             /\ [r EXCEPT !.at = "signalled", !.sig = "SEGV"].fd = r.fd
             /\ [r EXCEPT !.at = "signalled", !.sig = "SEGV"].susp = r.susp
  BY DEF ThreadType, Steps
<1>6. /\ mid[t] = [thr[t] EXCEPT !.at = "gone"]
      /\ mid \in [Thread -> ThreadType]
      /\ \A u \in Thread \ {t} : mid[u] = thr[u]
  BY <1>1, <1>5
<1> HIDE DEF mid
<1>7. /\ thr'[f] = [mid[f] EXCEPT !.at = "signalled", !.sig = "SEGV"]
      /\ \A u \in Thread \ {f} : thr'[u] = mid[u]
  BY <1>4, <1>6
<1>8. /\ thr'[f].at = "signalled"
      /\ t # f => thr'[t].at = "gone"
      /\ \A u \in Thread \ {f, t} : thr'[u].at = thr[u].at
      /\ \A u \in Thread : thr'[u].kind = thr[u].kind /\ thr'[u].path = thr[u].path
                           /\ thr'[u].fd = thr[u].fd /\ thr'[u].susp = thr[u].susp
  <2>1. ASSUME NEW u \in Thread
        PROVE  /\ u = f => thr'[u].at = "signalled"
               /\ u = t /\ t # f => thr'[u].at = "gone"
               /\ u \notin {f, t} => thr'[u].at = thr[u].at
               /\ thr'[u].kind = thr[u].kind /\ thr'[u].path = thr[u].path
               /\ thr'[u].fd = thr[u].fd /\ thr'[u].susp = thr[u].susp
    <3>1. /\ mid[u] \in ThreadType /\ mid[u].kind = thr[u].kind /\ mid[u].path = thr[u].path
          /\ mid[u].fd = thr[u].fd /\ mid[u].susp = thr[u].susp
          /\ u = t => mid[u].at = "gone"
          /\ u # t => mid[u].at = thr[u].at
      <4>1. thr[u] \in ThreadType
        BY <1>1
      <4>2. CASE u = t
        <5>1. PICK r \in ThreadType : r = thr[u]
          BY <4>1
        <5>2. mid[u] = [r EXCEPT !.at = "gone"]
          BY <1>6, <4>2, <5>1
        <5>3. QED
          BY <1>5, <5>1, <5>2, <4>2
      <4>3. CASE u # t
        BY <1>6, <4>1, <4>3
      <4>4. QED
        BY <4>2, <4>3
    <3>2. CASE u = f
      <4>1. PICK r \in ThreadType : r = mid[u]
        BY <3>1
      <4>2. thr'[u] = [r EXCEPT !.at = "signalled", !.sig = "SEGV"]
        BY <1>7, <3>2, <4>1
      <4>3. QED
        BY <1>5, <3>1, <3>2, <4>1, <4>2
    <3>3. CASE u # f
      BY <1>7, <3>1, <3>3
    <3>4. QED
      BY <3>2, <3>3
  <2>2. QED
    BY <2>1
<1>9. Few' <=> Few
  BY DEF Few
<1>10. ASSUME Few PROVE port = <<>> /\ \A u \in Thread \ {t} : thr[u].at \notin Active
  BY <1>10, Sole
<1>11. ASSUME NEW u \in Thread, u # f PROVE thr'[u].at = thr[u].at \/ thr'[u].at = "gone"
  BY <1>8, <1>11
<1>12. Installed'
  BY <1>8, <1>11 DEF Installed
<1>13. Counting'
  <2>1. hist.threads # {} /\ hist.threads \subseteq Thread
    BY TypeParts DEF Counting, HistType, Thread
  <2>2. QED
    BY <1>8, <1>9, <1>11, <2>1 DEF Counting
<1>14. OneCrash'
  BY <1>8, <1>9, <1>10, <1>11 DEF OneCrash
<1>15. Flags'
  <2>1. ASSUME Few, NEW u \in Thread PROVE thr'[u].at \notin Holding
    BY <1>8, <1>10, <2>1
  <2>2. QED
    BY <1>8, <1>9, <1>11, <2>1 DEF Flags
<1>16. Once'
  BY <1>8, <1>11 DEF Once
<1>17. ASSUME Few, NEW u \in Thread
       PROVE  thr'[u].at \notin Window \cup {"path", "open", "write", "notified", "context", "state"}
  BY <1>8, <1>10, <1>17
<1>18. Files'
  BY <1>8, <1>9, <1>17 DEF Files
<1>19. CrashState' /\ Standard'
  BY <1>9, <1>17 DEF CrashState, Standard
<1>20. Report'
  <2>1. ASSUME Few, hist.finished PROVE Holds(Json)' \/ Broken'
    <3>1. Holds(Json) \/ Broken
      BY <1>10, <2>1 DEF Report
    <3>2. Holds(Json) => Holds(Json)'
      BY DEF Holds, Json
    <3>3. Broken => Broken'
      BY <1>8, <1>11 DEF Broken, Saved
    <3>4. QED
      BY <3>1, <3>2, <3>3
  <2>2. QED
    BY <1>9, <1>17, <2>1 DEF Report, Window
<1>21. MonShape'
  BY DEF MonShape
<1>22. QED
  BY <1>12, <1>13, <1>14, <1>15, <1>16, <1>18, <1>19, <1>20, <1>21

(* A handler ends in a signal, or in the handler it had replaced.          *)
LEMMA ExitNext ==
    ASSUME IndInv, NEW t \in Thread, Exit(t)
    PROVE  /\ MonShape' /\ Installed' /\ Counting' /\ OneCrash'
           /\ Flags' /\ Once' /\ Files' /\ CrashState' /\ Standard' /\ Report'
<1> USE StepSets, MainIsThread DEF IndInv
<1>1. thr[t].at = "exit" /\ UNCHANGED <<mon, core, port, disk, hist>>
  BY DEF Exit
<1>2. PICK r \in ThreadType : r = thr[t]
  BY TypeParts
<1>3. \/ thr' = Reply(t)
      \/ thr[t].kind \in {"signal", "cpp", "ns"} /\ \E sig : thr' = Signalled(thr, t, sig)
      \/ thr[t].kind = "cpp" /\ mon.originalTerm /\ thr' = [thr EXCEPT ![t].at = "enter", ![t].kind = "ns"]
  <2>1. thr[t].kind \in {"mach", "signal", "cpp", "ns"}
    BY TypeParts DEF ThreadType, MonitorTypeDebuggerUnsafe
  <2>2. QED
    BY <2>1 DEF Exit, CallOriginalTerminationHandler
<1>4. hist.crashes <= 1 /\ hist.installs <= 1 /\ core.handling => mon.enabled = {}
  BY <1>1 DEF Once
<1>5. {"signalled", "enter"} \subseteq Elsewhere \ Holding
  BY DEF Elsewhere
<1>6. ASSUME NEW sig, thr' = Signalled(thr, t, sig)
      PROVE  /\ MonShape' /\ Installed' /\ Counting' /\ OneCrash'
             /\ Flags' /\ Once' /\ Files' /\ CrashState' /\ Standard' /\ Report'
  <2> DEFINE q == [r EXCEPT !.at = "signalled", !.sig = sig, !.mask = {}]
  <2>1. q.at = "signalled" /\ q.path = r.path /\ q.fd = r.fd /\ q.susp = r.susp
    BY DEF ThreadType
  <2>2. thr' = [thr EXCEPT ![t] = q]
    BY <1>2, <1>6 DEF Signalled
  <2> HIDE DEF q
  <2>3. /\ Frame(t) /\ MainStays /\ thr'[t].path = thr[t].path /\ thr'[t].fd = thr[t].fd
        /\ thr'[t].at = "signalled"
    BY <1>2, <2>1, <2>2, ThreadEffect
  <2>4. QED
    BY <1>1, <1>4, <1>5, <2>3, PassOn
<1>7. ASSUME thr' = [thr EXCEPT ![t].at = "enter", ![t].kind = "ns"], thr[t].kind = "cpp"
      PROVE  /\ MonShape' /\ Installed' /\ Counting' /\ OneCrash'
             /\ Flags' /\ Once' /\ Files' /\ CrashState' /\ Standard' /\ Report'
  <2> DEFINE q == [r EXCEPT !.at = "enter", !.kind = "ns"]
  <2>1. q.at = "enter" /\ q.kind = "ns" /\ q.path = r.path /\ q.fd = r.fd /\ q.susp = r.susp
    BY DEF ThreadType
  <2>2. thr' = [thr EXCEPT ![t] = q]
    BY <1>2, <1>7
  <2> HIDE DEF q
  <2>3. /\ Frame(t) /\ MainStays /\ thr'[t].path = thr[t].path /\ thr'[t].fd = thr[t].fd
        /\ thr'[t].at = "enter" /\ thr'[t].kind = "ns"
    BY <1>2, <2>1, <2>2, ThreadEffect
  <2>4. Broken => FALSE
    BY <1>1, <1>7 DEF Broken
  <2>5. QED
    BY <1>1, <1>4, <1>5, <2>3, <2>4, PassOn
<1>8. QED
  BY <1>1, <1>3, <1>6, <1>7, ReplyNext

(* The screenshots are taken, and the replay info is written.              *)
LEMMA ReplayInfoNext ==
    ASSUME IndInv, NEW t \in Thread, RunCallbacks(t) \/ OpenReplayInfo(t) \/ WriteReplayInfo(t)
    PROVE  /\ MonShape' /\ Installed' /\ Counting' /\ OneCrash'
           /\ Flags' /\ Once' /\ Files' /\ CrashState' /\ Standard' /\ Report'
<1> USE StepSets, MainIsThread DEF IndInv
<1>1. thr[t].at \in {"callbacks", "replay", "replayed"} /\ UNCHANGED <<mon, core, port, hist>>
  BY DEF RunCallbacks, OpenReplayInfo, WriteReplayInfo
<1>2. disk'.dir = disk.dir /\ disk'.data = disk.data /\ disk'.crashState = disk.crashState
  <2>1. \A x : LET e == [disk EXCEPT !.replayInfo = x]
               IN  e.dir = disk.dir /\ e.data = disk.data /\ e.crashState = disk.crashState
    BY TypeParts DEF DiskTyped
  <2>2. QED
    BY <2>1 DEF RunCallbacks, OpenReplayInfo, WriteReplayInfo
<1>3. PICK s \in {"replayed", "callbacks", "done"} : thr' = Goes(t, s)
  BY DEF RunCallbacks, OpenReplayInfo, WriteReplayInfo, Moves
<1>4. Frame(t) /\ Same(t) /\ MainStays /\ thr'[t].at = s
  BY <1>3, GoesEffect
<1>5. Broken => FALSE
  BY <1>1 DEF Broken
<1>6. s \in Elsewhere /\ s \in InHandler /\ s \notin {"notify", "signalled", "enter", "exit", "resume"}
  BY DEF Elsewhere, InHandler, OnCrashSteps
<1>7. ASSUME Few PROVE t = Main \/ thr'[Main].susp >= 1
  BY <1>1, <1>4, <1>7 DEF Flags, MainStays
<1>8. QED
  BY <1>1, <1>2, <1>4, <1>5, <1>6, <1>7, PassOn DEF Same

(* A step of onCrash, as far as it does not concern the report.            *)
LEMMA OnCrashBasics ==
    ASSUME IndInv, NEW t \in Thread, Frame(t), MainStays,
           thr[t].at \in OnCrashSteps, thr'[t].at \in OnCrashSteps \ {"state"},
           UNCHANGED <<mon, port>>,
           core'.installed = core.installed, core'.callback = core.callback,
           core'.handling = core.handling, core'.recrashed = core.recrashed,
           core'.context = core.context,
           hist'.crashes = hist.crashes, hist'.threads = hist.threads,
           hist'.installs = hist.installs, hist'.closed = hist.closed,
           Few /\ thr'[t].at \in Window \cup {"rename"} => core.recrashed
    PROVE  /\ MonShape' /\ Installed' /\ Counting' /\ OneCrash' /\ Flags' /\ Once'
           /\ Few' <=> Few
           /\ Few => \A u \in Thread \ {t} : thr[u].at \notin Active /\ thr'[u].at \notin Active
           /\ core.handling /\ ~Broken
<1> USE StepSets, MainIsThread DEF IndInv
<1>1. /\ thr[t].at \in Active /\ thr[t].at # "signalled" /\ thr'[t].at \in Active
      /\ thr'[t].at \notin {"notify", "notified", "state", "signalled", "enter", "exit", "resume"}
      /\ thr[t].at \notin {"notify", "notified", "signalled", "enter", "exit", "resume"}
  BY DEF OnCrashSteps
<1>2. Installed' /\ Counting' /\ OneCrash'
  BY <1>1, HandlerBasics
<1>3. MonShape'
  BY DEF MonShape
<1>4. Few' <=> Few
  BY DEF Few
<1>5. ASSUME Few PROVE port = <<>> /\ \A u \in Thread \ {t} : thr[u].at \notin Active
  BY <1>1, <1>5, Sole
<1>6. core.handling
  BY DEF Flags
<1>7. ~Broken
  BY <1>1 DEF Broken
<1>8. Flags'
  <2>1. ASSUME Few, NEW u \in Thread
        PROVE  /\ thr'[u].at = "notified" /\ core'.handling => core'.recrashed
               /\ thr'[u].at = "state" /\ ~core'.context[thr'[u].kind] => ~core'.recrashed
               /\ thr'[u].at \in Window \cup {"rename"} => core'.recrashed
               /\ thr'[u].at \in InHandler /\ core'.recrashed => mon'.enabled = {}
               /\ thr'[u].at \in Holding => u = Main \/ thr'[Main].susp >= 1
    <3>1. CASE u = t
      BY <1>1, <2>1, <3>1 DEF Flags, MainStays
    <3>2. CASE u # t
      BY <1>5, <2>1, <3>2 DEF Frame
    <3>3. QED
      BY <3>1, <3>2
  <2>2. QED
    BY <1>4, <1>6, <2>1 DEF Flags
<1>9. Once'
  <2>1. ASSUME hist.crashes <= 1, hist.installs <= 1, core.handling, NEW u \in Thread
        PROVE  /\ thr'[u].at \notin {"notify", "notified"}
               /\ thr'[u].at \in {"signalled", "enter", "exit", "resume"} => mon'.enabled = {}
               /\ thr'[u].at = "enter" => thr'[u].kind # "cpp"
    <3>1. CASE u = t
      BY <1>1, <2>1, <3>1
    <3>2. CASE u # t
      BY <2>1, <3>2 DEF Once, Frame
    <3>3. QED
      BY <3>1, <3>2
  <2>2. QED
    BY <2>1 DEF Once
<1>10. QED
  BY <1>2, <1>3, <1>4, <1>5, <1>6, <1>7, <1>8, <1>9 DEF Frame

(* A handler touches bad memory, or calls a callback that was taken away.  *)
LEMMA FaultNext ==
    ASSUME IndInv, TypeOK', NEW t \in Thread, thr[t].at \in OnCrashSteps, BadAccess(t),
           UNCHANGED <<mon, core, disk>>,
           \/ ~core.callback /\ hist' = hist
           \/ hist' = [hist EXCEPT !.crashes = @ + 1]
    PROVE  /\ MonShape' /\ Installed' /\ Counting' /\ OneCrash'
           /\ Flags' /\ Once' /\ Files' /\ CrashState' /\ Standard' /\ Report'
<1> USE StepSets, MainIsThread DEF IndInv
<1>1. /\ Frame(t) /\ Same(t) /\ MainStays
      /\ \/ thr'[t].at = "blocked" /\ (port = <<>> => Len(port') = 1)
         \/ thr'[t].at = "signalled" /\ port' = port
  BY BadAccessEffect
<1>2. /\ hist'.threads = hist.threads /\ hist'.installs = hist.installs
      /\ hist'.finished = hist.finished /\ hist'.closed = hist.closed
      /\ \/ ~core.callback /\ hist'.crashes = hist.crashes
         \/ hist'.crashes = hist.crashes + 1
      /\ hist.crashes \in Nat /\ hist.installs \in Nat /\ hist.threads \subseteq Thread
  BY TypeParts DEF HistType, Thread
<1>3. hist.threads # {} /\ hist.crashes # 0 /\ core.handling
  BY DEF Counting, Flags
<1>4. hist.installs # 0
  BY DEF Installed, OnCrashSteps
<1>5. Few' <=> Few
  BY <1>2 DEF Few
<1>6. ASSUME Few PROVE port = <<>> /\ \A u \in Thread \ {t} : thr[u].at \notin Active
  BY <1>6, Sole
<1>7. thr'[t].at \notin Holding /\ thr'[t].at \notin {"run", "closing"}
  BY <1>1
<1>8. MonShape'
  BY DEF MonShape
<1>9. Installed'
  BY <1>1, <1>2, <1>4 DEF Installed, Frame
<1>10. Counting'
  <2>1. \A u \in hist.threads : thr'[u].at \notin {"run", "closing"}
    BY <1>1, <1>2 DEF Counting, Frame
  <2>2. hist'.crashes <= 1 => Few'
    BY <1>2, <1>5 DEF Counting
  <2>3. hist'.crashes # 0
    BY <1>2, <1>3
  <2>4. QED
    BY <1>2, <1>3, <2>1, <2>2, <2>3 DEF Counting
<1>11. OneCrash'
  <2>1. ASSUME Few PROVE \A u \in Thread \ {t} : thr'[u].at \notin Active
    BY <1>1, <1>6, <2>1 DEF Frame
  <2>2. QED
    BY <1>1, <1>5, <1>6, <2>1 DEF OneCrash
<1>12. ASSUME Few, NEW u \in Thread PROVE thr'[u].at \notin Holding
  BY <1>1, <1>6, <1>7, <1>12 DEF Frame
<1>13. Flags'
  <2>1. \A u \in Thread : thr'[u].at \in InHandler => core'.handling
    BY <1>3
  <2>2. hist'.finished => core'.handling
    BY <1>2 DEF Flags
  <2>3. QED
    BY <1>5, <1>12, <2>1, <2>2 DEF Flags
<1>14. Once'
  <2>1. CASE hist'.crashes = hist.crashes + 1
    BY <1>2, <1>3, <2>1 DEF Once
  <2>2. CASE ~core.callback /\ hist'.crashes = hist.crashes
    <3>1. mon.enabled = {}
      BY <2>2 DEF Installed
    <3>2. QED
      BY <1>1, <1>2, <2>2, <3>1 DEF Once, Frame
  <2>3. QED
    BY <1>2, <2>1, <2>2
<1>15. Files'
  BY <1>1, <1>5, <1>12 DEF Files, Frame, Same
<1>16. CrashState' /\ Standard'
  BY <1>2, <1>5, <1>12, <1>3 DEF CrashState, Standard
<1>17. ASSUME Few, hist.finished PROVE Holds(Json)' \/ Broken'
  <2>1. CASE thr[t].at \notin Window
    <3>1. Holds(Json)
      <4>1. \A u \in Thread : thr[u].at \notin Window
        BY <1>6, <1>17, <2>1
      <4>2. ~Broken
        BY DEF Broken, OnCrashSteps
      <4>3. QED
        BY <1>17, <4>1, <4>2 DEF Report
    <3>2. QED
      BY <3>1 DEF Holds, Json
  <2>2. CASE thr[t].at \in Window
    <3>1. mon.enabled = {}
      BY <1>17, <2>2 DEF Flags
    <3>2. Saved
      BY <1>17, <2>2 DEF Report, Window, Holds, Embedded, Saved, FileIn
    <3>3. thr'[Main].susp >= 1 \/ thr'[Main].at \notin {"run", "closing"}
      BY <1>1, <1>7, <1>17 DEF Flags, MainStays
    <3>4. \A u \in Thread : thr'[u].at \in Active => thr'[u].at = "signalled"
      BY <1>1, <1>6, <1>17 DEF Frame
    <3>5. QED
      BY <3>1, <3>2, <3>3, <3>4 DEF Broken, Saved
  <2>3. QED
    BY <2>1, <2>2
<1>18. Report'
  BY <1>2, <1>5, <1>12, <1>17 DEF Report, Window
<1>19. QED
  BY <1>8, <1>9, <1>10, <1>11, <1>13, <1>14, <1>15, <1>16, <1>18

(* The choice between the two reports.                                     *)
LEMMA NotifyAppCrashNext ==
    ASSUME IndInv, TypeOK', NEW t \in Thread, NotifyAppCrash(t)
    PROVE  /\ MonShape' /\ Installed' /\ Counting' /\ OneCrash'
           /\ Flags' /\ Once' /\ Files' /\ CrashState' /\ Standard' /\ Report'
<1> USE StepSets, MainIsThread DEF IndInv
<1>1. thr[t].at = "state" /\ UNCHANGED <<mon, core, hist>>
  BY DEF NotifyAppCrash
<1>2. CASE ~core.callback /\ BadAccess(t) /\ UNCHANGED disk
  BY <1>1, <1>2, FaultNext DEF OnCrashSteps
<1>3. CASE /\ core.callback /\ UNCHANGED port
           /\ disk' = [disk EXCEPT !.crashState = @ \/ "appstate" \in mon.enabled]
           /\ Moves(t, IF core.context[thr[t].kind] THEN "rename" ELSE "path")
  <2>1. PICK s \in {"rename", "path"} :
            thr' = Goes(t, s) /\ (s = "rename" <=> core.context[thr[t].kind])
    BY <1>3 DEF Moves
  <2>2. Frame(t) /\ Same(t) /\ MainStays /\ thr'[t].at = s
    BY <2>1, GoesEffect
  <2>3. thr[t].kind \in MonitorTypeDebuggerUnsafe
    BY TypeParts DEF ThreadType
  <2>4. Few /\ s = "rename" => core.recrashed
    BY <2>1, <2>3 DEF Flags
  <2>5. /\ MonShape' /\ Installed' /\ Counting' /\ OneCrash' /\ Flags' /\ Once'
        /\ Few' <=> Few
        /\ Few => \A u \in Thread \ {t} : thr[u].at \notin Active /\ thr'[u].at \notin Active
        /\ core.handling /\ ~Broken
    <3>1. thr[t].at \in OnCrashSteps /\ s \in OnCrashSteps \ {"state"}
      BY <1>1 DEF OnCrashSteps
    <3>2. s \notin Window
      BY DEF Window
    <3>3. QED
      BY <1>1, <1>3, <2>2, <2>4, <3>1, <3>2, OnCrashBasics
  <2>6. /\ disk'.dir = disk.dir /\ disk'.data = disk.data
        /\ disk'.crashState <=> (disk.crashState \/ "appstate" \in mon.enabled)
    <3>1. PICK c \in BOOLEAN : c <=> (disk.crashState \/ "appstate" \in mon.enabled)
      BY TypeParts DEF DiskTyped
    <3>2. disk' = [disk EXCEPT !.crashState = c]
      BY <1>3, <3>1, TypeParts, Zenon DEF DiskTyped
    <3>3. QED
      BY <3>1, <3>2, TypeParts DEF DiskTyped
  <2>7. Files'
    <3>1. s \notin Window \cup {"open"}
      BY DEF Window
    <3>2. QED
      BY <1>1, <2>2, <2>5, <2>6, <3>1 DEF Files, Frame, Same
  <2>8. ASSUME Few, s = "path" PROVE ~core.recrashed /\ ~hist.finished
    BY <1>1, <2>1, <2>8 DEF Flags, Standard
  <2>9. CrashState'
    BY <1>1, <2>2, <2>5, <2>6, <2>8 DEF CrashState
  <2>10. Standard'
    BY <1>1, <2>2, <2>5, <2>8 DEF Standard
  <2>11. Report'
    <3>1. ASSUME Few, hist.finished PROVE Holds(Json)'
      <4>1. \A u \in Thread : thr[u].at \notin Window
        BY <1>1, <2>5, <3>1
      <4>2. Holds(Json)
        BY <2>5, <3>1, <4>1 DEF Report
      <4>3. QED
        BY <1>1, <2>6, <4>2 DEF Holds, Json, FileIn
    <3>2. QED
      BY <1>1, <2>2, <2>5, <3>1 DEF Report, Window
  <2>12. QED
    BY <2>5, <2>7, <2>9, <2>10, <2>11
<1>4. QED
  BY <1>2, <1>3 DEF NotifyAppCrash

(* The report gets its path.                                               *)
LEMMA NextCrashReportPathNext ==
    ASSUME IndInv, NEW t \in Thread, NextCrashReportPath(t)
    PROVE  /\ MonShape' /\ Installed' /\ Counting' /\ OneCrash'
           /\ Flags' /\ Once' /\ Files' /\ CrashState' /\ Standard' /\ Report'
<1> USE StepSets, MainIsThread DEF IndInv
<1>1. /\ thr[t].at = "path" /\ UNCHANGED <<mon, port, disk, hist>>
      /\ core'.installed = core.installed /\ core'.callback = core.callback
      /\ core'.handling = core.handling /\ core'.recrashed = core.recrashed
      /\ core'.context = core.context
      /\ core'.nextID = core.nextID + 1 /\ core'.lastPath = core.nextID
      /\ core.nextID \in Nat /\ core.lastPath \in Nat
  BY TypeParts DEF NextCrashReportPath, CoreType
<1>2. /\ Frame(t) /\ MainStays /\ thr'[t].at = "open" /\ thr'[t].path = core.nextID
  <2>1. PICK r \in ThreadType : r = thr[t]
    BY TypeParts
  <2>2. thr' = [thr EXCEPT ![t] = [r EXCEPT !.at = "open", !.path = core.nextID]]
    BY <2>1 DEF NextCrashReportPath
  <2>3. thr \in [Thread -> ThreadType]
    BY TypeParts
  <2>4. /\ [r EXCEPT !.at = "open", !.path = core.nextID].at = "open"
        /\ [r EXCEPT !.at = "open", !.path = core.nextID].path = core.nextID
        /\ [r EXCEPT !.at = "open", !.path = core.nextID].susp = r.susp
    BY DEF ThreadType
  <2>5. /\ thr'[t] = [r EXCEPT !.at = "open", !.path = core.nextID]
        /\ \A u \in Thread \ {t} : thr'[u] = thr[u]
    BY <2>2, <2>3
  <2>6. QED
    BY <2>1, <2>4, <2>5 DEF Frame, MainStays
<1>3. /\ MonShape' /\ Installed' /\ Counting' /\ OneCrash' /\ Flags' /\ Once'
      /\ Few' <=> Few
      /\ Few => \A u \in Thread \ {t} : thr[u].at \notin Active /\ thr'[u].at \notin Active
      /\ core.handling /\ ~Broken
  <2>1. thr[t].at \in OnCrashSteps /\ "open" \in OnCrashSteps \ ({"state", "rename"} \cup Window)
    BY <1>1 DEF OnCrashSteps, Window
  <2>2. QED
    BY <1>1, <1>2, <2>1, OnCrashBasics
<1>4. Files'
  <2>1. core'.lastPath # 0 /\ core'.lastPath < core'.nextID
    BY <1>1 DEF Files
  <2>2. \A u \in Thread : thr'[u].at = "open" => thr'[u].path # 0
    BY <1>1, <1>2, <2>1 DEF Files, Frame
  <2>3. QED
    BY <1>1, <1>2, <1>3, <2>1, <2>2 DEF Files
<1>5. CrashState'
  BY <1>1, <1>2, <1>3 DEF CrashState
<1>6. ASSUME Few PROVE ~hist.finished
  BY <1>1, <1>6 DEF Standard
<1>7. Standard' /\ Report'
  BY <1>1, <1>2, <1>3, <1>6 DEF Standard, Report
<1>8. QED
  BY <1>3, <1>4, <1>5, <1>7

(* The report is opened under its name.                                    *)
LEMMA OpenStandardReportNext ==
    ASSUME IndInv, NEW t \in Thread, OpenStandardReport(t)
    PROVE  /\ MonShape' /\ Installed' /\ Counting' /\ OneCrash'
           /\ Flags' /\ Once' /\ Files' /\ CrashState' /\ Standard' /\ Report'
<1> USE StepSets, MainIsThread DEF IndInv
<1>1. /\ thr[t].at = "open" /\ UNCHANGED <<mon, core, port, hist>>
      /\ disk' = Create(disk, Name(thr[t].path, "json"), "standard")
      /\ thr[t].path \in Nat /\ DiskTyped(disk)
  BY TypeParts DEF OpenStandardReport, ThreadType
<1>2. /\ Frame(t) /\ MainStays /\ thr'[t].at = "write"
      /\ thr'[t].path = thr[t].path /\ thr'[t].fd = Len(disk.data) + 1
  <2>1. PICK r \in ThreadType : r = thr[t]
    BY TypeParts
  <2>2. PICK n : n = Len(disk.data) + 1
    OBVIOUS
  <2>3. thr' = [thr EXCEPT ![t] = [r EXCEPT !.at = "write", !.fd = n]]
    BY <2>1, <2>2 DEF OpenStandardReport
  <2>4. thr \in [Thread -> ThreadType]
    BY TypeParts
  <2>5. /\ [r EXCEPT !.at = "write", !.fd = n].at = "write"
        /\ [r EXCEPT !.at = "write", !.fd = n].path = r.path
        /\ [r EXCEPT !.at = "write", !.fd = n].fd = n
        /\ [r EXCEPT !.at = "write", !.fd = n].susp = r.susp
    BY DEF ThreadType
  <2>6. /\ thr'[t] = [r EXCEPT !.at = "write", !.fd = n]
        /\ \A u \in Thread \ {t} : thr'[u] = thr[u]
    BY <2>3, <2>4
  <2>7. QED
    BY <2>1, <2>2, <2>5, <2>6 DEF Frame, MainStays
<1>3. /\ MonShape' /\ Installed' /\ Counting' /\ OneCrash' /\ Flags' /\ Once'
      /\ Few' <=> Few
      /\ Few => \A u \in Thread \ {t} : thr[u].at \notin Active /\ thr'[u].at \notin Active
      /\ core.handling /\ ~Broken
  <2>1. thr[t].at \in OnCrashSteps /\ "write" \in OnCrashSteps \ ({"state", "rename"} \cup Window)
    BY <1>1 DEF OnCrashSteps, Window
  <2>2. QED
    BY <1>1, <1>2, <2>1, OnCrashBasics
<1>4. thr[t].path # 0 /\ core.lastPath # 0
  BY <1>1 DEF Files
<1>5. Files'
  <2>1. "write" \notin Window \cup {"open"}
    BY DEF Window
  <2>2. QED
    BY <1>1, <1>2, <1>3, <1>4, <2>1 DEF Files, Frame
<1>6. disk'.crashState = disk.crashState
  BY <1>1, CreateType DEF Name
<1>7. CrashState'
  BY <1>1, <1>2, <1>3, <1>6 DEF CrashState
<1>8. ASSUME Few PROVE ~hist.finished /\ thr[t].path = core.lastPath
  BY <1>1, <1>8 DEF Standard, Files
<1>9. ASSUME Few
      PROVE  /\ FileIn(disk', Json) /\ disk'.dir[Json] = thr'[t].fd
             /\ disk'.data[thr'[t].fd].type = "standard"
  <2>1. disk' = Create(disk, Json, "standard") /\ Json \in Nat \X {"json", "old"}
    BY <1>1, <1>8, <1>9 DEF Json, Name
  <2>2. /\ DOMAIN disk'.dir = DOMAIN disk.dir \cup {Json}
        /\ disk'.dir[Json] = Len(disk.data) + 1
        /\ disk'.data[Len(disk.data) + 1] = Inode("standard")
    BY <1>1, <2>1, CreateType
  <2>3. QED
    BY <1>2, <2>2 DEF FileIn, Inode
<1>10. Json' = Json
  BY <1>1 DEF Json
<1>11. Standard'
  <2>1. ASSUME Few, NEW u \in Thread, u # t
        PROVE  thr'[u].at \notin {"path", "open", "write", "context", "state"}
    BY <1>3, <2>1
  <2>2. QED
    BY <1>1, <1>2, <1>3, <1>8, <1>9, <1>10, <2>1 DEF Standard
<1>12. Report'
  BY <1>1, <1>3, <1>8 DEF Report
<1>13. QED
  BY <1>3, <1>5, <1>7, <1>11, <1>12

(* A write to an open file.                                                *)
LEMMA WriteEffect ==
    ASSUME TypeOK, NEW fd, NEW i, disk' = [disk EXCEPT !.data[fd] = i]
    PROVE  /\ disk'.dir = disk.dir /\ disk'.crashState = disk.crashState
           /\ \A j \in DOMAIN disk.data : disk'.data[j] = IF j = fd THEN i ELSE disk.data[j]
<1>1. DiskTyped(disk)
  BY TypeParts
<1>2. /\ disk'.dir = disk.dir /\ disk'.crashState = disk.crashState
      /\ disk'.data = [disk.data EXCEPT ![fd] = i]
  BY <1>1 DEF DiskTyped
<1>3. disk.data \in [1 .. Len(disk.data) -> InodeType] /\ DOMAIN disk.data = 1 .. Len(disk.data)
  BY <1>1 DEF DiskTyped
<1>4. QED
  BY <1>2, <1>3

(* The report is closed: it is finished.                                   *)
LEMMA WriteStandardReportNext ==
    ASSUME IndInv, NEW t \in Thread, WriteStandardReport(t)
    PROVE  /\ MonShape' /\ Installed' /\ Counting' /\ OneCrash'
           /\ Flags' /\ Once' /\ Files' /\ CrashState' /\ Standard' /\ Report'
<1> USE StepSets, MainIsThread DEF IndInv
<1>1. /\ thr[t].at = "write" /\ UNCHANGED <<mon, core, port>>
      /\ hist'.crashes = hist.crashes /\ hist'.threads = hist.threads
      /\ hist'.installs = hist.installs /\ hist'.closed = hist.closed
      /\ disk' = [disk EXCEPT !.data[thr[t].fd] = [disk.data[thr[t].fd] EXCEPT !.complete = TRUE]]
      /\ DiskTyped(disk)
  BY TypeParts DEF WriteStandardReport, HistType
<1>2. Frame(t) /\ Same(t) /\ MainStays /\ thr'[t].at = "replay"
  BY GoesEffect DEF WriteStandardReport, Moves
<1>3. /\ MonShape' /\ Installed' /\ Counting' /\ OneCrash' /\ Flags' /\ Once'
      /\ Few' <=> Few
      /\ Few => \A u \in Thread \ {t} : thr[u].at \notin Active /\ thr'[u].at \notin Active
      /\ core.handling /\ ~Broken
  <2>1. thr[t].at \in OnCrashSteps /\ "replay" \in OnCrashSteps \ ({"state", "rename"} \cup Window)
    BY <1>1 DEF OnCrashSteps, Window
  <2>2. QED
    BY <1>1, <1>2, <2>1, OnCrashBasics
<1>4. /\ disk'.dir = disk.dir /\ disk'.crashState = disk.crashState
      /\ \A j \in DOMAIN disk.data :
            disk'.data[j] = IF j = thr[t].fd THEN [disk.data[thr[t].fd] EXCEPT !.complete = TRUE]
                            ELSE disk.data[j]
  <2>1. PICK i, fd : i = [disk.data[thr[t].fd] EXCEPT !.complete = TRUE] /\ fd = thr[t].fd
    OBVIOUS
  <2>2. disk' = [disk EXCEPT !.data[fd] = i]
    BY <1>1, <2>1
  <2>3. QED
    BY <2>1, <2>2, WriteEffect
<1>5. "replay" \notin Window \cup {"open", "path", "write"}
  BY DEF Window
<1>6. Files'
  BY <1>1, <1>2, <1>3, <1>4, <1>5 DEF Files, Frame, Same
<1>7. CrashState' /\ Standard'
  BY <1>1, <1>2, <1>3, <1>4 DEF CrashState, Standard
<1>8. ASSUME Few PROVE Holds(Json)'
  <2>1. FileIn(disk, Json) /\ disk.dir[Json] = thr[t].fd /\ disk.data[thr[t].fd].type = "standard"
    BY <1>1, <1>8 DEF Standard
  <2>2. thr[t].fd \in DOMAIN disk.data
    BY <1>1, <2>1 DEF DiskTyped, FileIn
  <2>3. PICK i \in InodeType : i = disk.data[thr[t].fd]
    BY <2>2, InodeUpdates
  <2>4. disk'.data[thr[t].fd] = [i EXCEPT !.complete = TRUE]
    BY <1>4, <2>2, <2>3
  <2>5. disk'.data[thr[t].fd].complete /\ disk'.data[thr[t].fd].type = "standard"
    BY <2>1, <2>3, <2>4 DEF InodeType
  <2>6. QED
    BY <1>1, <1>4, <2>1, <2>5 DEF Holds, FileIn, Json
<1>9. Report'
  BY <1>2, <1>3, <1>5, <1>8 DEF Report, Window
<1>10. QED
  BY <1>3, <1>6, <1>7, <1>9

(* The report of the first crash is moved away.                            *)
LEMMA RenameReportNext ==
    ASSUME IndInv, NEW t \in Thread, RenameReport(t)
    PROVE  /\ MonShape' /\ Installed' /\ Counting' /\ OneCrash'
           /\ Flags' /\ Once' /\ Files' /\ CrashState' /\ Standard' /\ Report'
<1> USE StepSets, MainIsThread DEF IndInv
<1>1. /\ thr[t].at = "rename" /\ UNCHANGED <<mon, core, port, hist>>
      /\ core.lastPath \in Nat /\ DiskTyped(disk)
      /\ disk' = IF FileIn(disk, Json)
                 THEN [disk EXCEPT !.dir = Link(Unlink(@, Json), Old, @[Json])] ELSE disk
  BY TypeParts DEF RenameReport, CoreType, Json, Old
<1>2. /\ Frame(t) /\ MainStays /\ thr'[t].at = "reopen" /\ thr'[t].path = core.lastPath
  <2>1. PICK r \in ThreadType : r = thr[t]
    BY TypeParts
  <2>2. thr' = [thr EXCEPT ![t] = [r EXCEPT !.at = "reopen", !.path = core.lastPath]]
    BY <2>1 DEF RenameReport
  <2>3. thr \in [Thread -> ThreadType]
    BY TypeParts
  <2>4. /\ [r EXCEPT !.at = "reopen", !.path = core.lastPath].at = "reopen"
        /\ [r EXCEPT !.at = "reopen", !.path = core.lastPath].path = core.lastPath
        /\ [r EXCEPT !.at = "reopen", !.path = core.lastPath].susp = r.susp
    BY DEF ThreadType
  <2>5. /\ thr'[t] = [r EXCEPT !.at = "reopen", !.path = core.lastPath]
        /\ \A u \in Thread \ {t} : thr'[u] = thr[u]
    BY <2>2, <2>3
  <2>6. QED
    BY <2>1, <2>4, <2>5 DEF Frame, MainStays
<1>3. /\ MonShape' /\ Installed' /\ Counting' /\ OneCrash' /\ Flags' /\ Once'
      /\ Few' <=> Few
      /\ Few => \A u \in Thread \ {t} : thr[u].at \notin Active /\ thr'[u].at \notin Active
      /\ core.handling /\ ~Broken
  <2>1. thr[t].at \in OnCrashSteps /\ "reopen" \in OnCrashSteps \ {"state"}
    BY <1>1 DEF OnCrashSteps
  <2>2. Few => core.recrashed
    BY <1>1 DEF Flags
  <2>3. QED
    BY <1>1, <1>2, <2>1, <2>2, OnCrashBasics
<1>4. /\ FileIn(disk, Json) =>
             /\ DOMAIN disk'.dir = (DOMAIN disk.dir \ {Json}) \cup {Old}
             /\ disk'.dir[Old] = disk.dir[Json]
      /\ ~FileIn(disk, Json) => disk'.dir = disk.dir
      /\ disk'.data = disk.data /\ disk'.crashState = disk.crashState
  <2>1. CASE FileIn(disk, Json)
    <3>1. Json \in DOMAIN disk.dir /\ Old \in Nat \X {"json", "old"}
      BY <1>1, <2>1 DEF FileIn, Old, Name
    <3>2. disk' = [disk EXCEPT !.dir = Link(Unlink(@, Json), Old, @[Json])]
      BY <1>1, <2>1
    <3>3. QED
      BY <1>1, <2>1, <3>1, <3>2, RenameType
  <2>2. CASE ~FileIn(disk, Json)
    BY <1>1, <2>2
  <2>3. QED
    BY <2>1, <2>2
<1>5. Json # Old /\ Json' = Json /\ Old' = Old
  BY <1>1 DEF Json, Old, Name
<1>6. Files'
  <2>1. DOMAIN disk'.dir # {} => core.lastPath # 0
    BY <1>1, <1>4 DEF Files, FileIn
  <2>2. QED
    BY <1>1, <1>2, <1>3, <2>1 DEF Files, Frame
<1>7. CrashState' /\ Standard'
  BY <1>1, <1>2, <1>3, <1>4 DEF CrashState, Standard
<1>8. ASSUME Few, hist.finished PROVE Holds(Old)' /\ ~FileIn(disk', Json)
  <2>1. Holds(Json)
    <3>1. \A u \in Thread : thr[u].at \notin Window
      BY <1>1, <1>3, <1>8
    <3>2. QED
      BY <1>3, <1>8, <3>1 DEF Report
  <2>2. QED
    BY <1>4, <1>5, <2>1 DEF Holds, FileIn
<1>9. Report'
  <2>1. \E u \in Thread : thr'[u].at \in Window
    BY <1>2 DEF Window
  <2>2. QED
    BY <1>1, <1>2, <1>3, <1>5, <1>8, <2>1 DEF Report, Window
<1>10. QED
  BY <1>3, <1>6, <1>7, <1>9

(* The report of the second crash is opened under the name of the first.   *)
LEMMA OpenRecrashReportNext ==
    ASSUME IndInv, NEW t \in Thread, OpenRecrashReport(t)
    PROVE  /\ MonShape' /\ Installed' /\ Counting' /\ OneCrash'
           /\ Flags' /\ Once' /\ Files' /\ CrashState' /\ Standard' /\ Report'
<1> USE StepSets, MainIsThread DEF IndInv
<1>1. /\ thr[t].at = "reopen" /\ UNCHANGED <<mon, core, port, hist>>
      /\ thr[t].path \in Nat /\ DiskTyped(disk)
  BY TypeParts DEF OpenRecrashReport, ThreadType
<1> DEFINE json == Name(thr[t].path, "json")
<1>2. \/ /\ thr[t].path # 0 /\ ~FileIn(disk, json)
         /\ disk' = Create(disk, json, "recrash")
         /\ thr' = [thr EXCEPT ![t].at = "embed", ![t].fd = Len(disk.data) + 1]
      \/ /\ thr[t].path = 0 \/ FileIn(disk, json)
         /\ thr' = Goes(t, "callbacks") /\ UNCHANGED disk
  BY DEF OpenRecrashReport, Moves
<1>3. Json' = Json /\ Old' = Old /\ Json # Old
  BY <1>1 DEF Json, Old, Name
<1>4. Few => json = Json
  BY <1>1 DEF Files, Json, Window
<1>5. ASSUME Few, hist.finished
      PROVE  Holds(Old) /\ ~FileIn(disk, Json) /\ thr[t].path # 0
  <2>1. Holds(Old) /\ ~FileIn(disk, Json)
    BY <1>1, <1>5 DEF Report
  <2>2. core.lastPath # 0 /\ thr[t].path = core.lastPath
    BY <1>1, <1>5, <2>1 DEF Files, Holds, FileIn, Window
  <2>3. QED
    BY <2>1, <2>2
<1>6. CASE /\ thr[t].path # 0 /\ ~FileIn(disk, json)
           /\ disk' = Create(disk, json, "recrash")
           /\ thr' = [thr EXCEPT ![t].at = "embed", ![t].fd = Len(disk.data) + 1]
  <2>1. /\ Frame(t) /\ MainStays /\ thr'[t].at = "embed"
        /\ thr'[t].path = thr[t].path /\ thr'[t].fd = Len(disk.data) + 1
    <3>1. PICK r \in ThreadType : r = thr[t]
      BY TypeParts
    <3>2. PICK n : n = Len(disk.data) + 1
      OBVIOUS
    <3>3. thr' = [thr EXCEPT ![t] = [r EXCEPT !.at = "embed", !.fd = n]]
      BY <1>6, <3>1, <3>2
    <3>4. thr \in [Thread -> ThreadType]
      BY TypeParts
    <3>5. /\ [r EXCEPT !.at = "embed", !.fd = n].at = "embed"
          /\ [r EXCEPT !.at = "embed", !.fd = n].path = r.path
          /\ [r EXCEPT !.at = "embed", !.fd = n].fd = n
          /\ [r EXCEPT !.at = "embed", !.fd = n].susp = r.susp
      BY DEF ThreadType
    <3>6. /\ thr'[t] = [r EXCEPT !.at = "embed", !.fd = n]
          /\ \A u \in Thread \ {t} : thr'[u] = thr[u]
      BY <3>3, <3>4
    <3>7. QED
      BY <3>1, <3>2, <3>5, <3>6 DEF Frame, MainStays
  <2>2. /\ MonShape' /\ Installed' /\ Counting' /\ OneCrash' /\ Flags' /\ Once'
        /\ Few' <=> Few
        /\ Few => \A u \in Thread \ {t} : thr[u].at \notin Active /\ thr'[u].at \notin Active
        /\ core.handling /\ ~Broken
    <3>1. thr[t].at \in OnCrashSteps /\ "embed" \in OnCrashSteps \ {"state"}
      BY <1>1 DEF OnCrashSteps
    <3>2. Few => core.recrashed
      BY <1>1 DEF Flags, Window
    <3>3. QED
      BY <1>1, <2>1, <3>1, <3>2, OnCrashBasics
  <2>3. /\ DOMAIN disk'.dir = DOMAIN disk.dir \cup {json}
        /\ disk'.dir[json] = Len(disk.data) + 1
        /\ \A n \in DOMAIN disk.dir \ {json} : disk'.dir[n] = disk.dir[n]
        /\ \A i \in DOMAIN disk.data : disk'.data[i] = disk.data[i]
        /\ Len(disk.data) + 1 \notin DOMAIN disk.data
        /\ disk'.crashState = disk.crashState
    <3>1. json \in Nat \X {"json", "old"}
      BY <1>1 DEF Name
    <3>2. QED
      BY <1>1, <1>6, <3>1, CreateType
  <2>4. Files'
    <3>1. core.lastPath # 0
      BY <1>6 DEF Files
    <3>2. Few => thr[t].path = core.lastPath
      BY <1>1 DEF Files, Window
    <3>3. QED
      BY <1>1, <2>1, <2>2, <3>1, <3>2 DEF Files, Frame
  <2>5. CrashState' /\ Standard'
    BY <1>1, <2>1, <2>2, <2>3 DEF CrashState, Standard
  <2>6. Report'
    <3>1. ASSUME Few, hist.finished
          PROVE  /\ Holds(Old)' /\ FileIn(disk', Json) /\ disk'.dir[Json] = thr'[t].fd
                 /\ disk'.dir[Old] # thr'[t].fd
      <4>1. Old \in DOMAIN disk.dir \ {json} /\ disk.dir[Old] \in DOMAIN disk.data
        BY <1>1, <1>3, <1>4, <1>5, <3>1 DEF Holds, FileIn, DiskTyped
      <4>2. QED
        BY <1>3, <1>4, <1>5, <2>1, <2>3, <3>1, <4>1 DEF Holds, FileIn
    <3>2. \E u \in Thread : thr'[u].at \in Window
      BY <2>1 DEF Window
    <3>3. QED
      BY <1>1, <1>3, <2>1, <2>2, <3>1, <3>2 DEF Report, Window
  <2>7. QED
    BY <2>2, <2>4, <2>5, <2>6
<1>7. CASE /\ thr[t].path = 0 \/ FileIn(disk, json)
           /\ thr' = Goes(t, "callbacks") /\ UNCHANGED disk
  <2>1. Frame(t) /\ Same(t) /\ MainStays /\ thr'[t].at = "callbacks"
    BY <1>7, GoesEffect
  <2>2. "callbacks" \in OnCrashSteps \ ({"state", "rename", "open"} \cup Window)
    BY DEF OnCrashSteps, Window
  <2>3. /\ MonShape' /\ Installed' /\ Counting' /\ OneCrash' /\ Flags' /\ Once'
        /\ Few' <=> Few
        /\ Few => \A u \in Thread \ {t} : thr[u].at \notin Active /\ thr'[u].at \notin Active
        /\ core.handling /\ ~Broken
    <3>1. thr[t].at \in OnCrashSteps
      BY <1>1 DEF OnCrashSteps
    <3>2. QED
      BY <1>1, <1>7, <2>1, <2>2, <3>1, OnCrashBasics
  <2>4. Files'
    BY <1>1, <1>7, <2>1, <2>2, <2>3 DEF Files, Frame, Same
  <2>5. CrashState' /\ Standard'
    BY <1>1, <1>7, <2>1, <2>3 DEF CrashState, Standard
  <2>6. Report'
    BY <1>1, <1>4, <1>5, <1>7, <2>3 DEF Report
  <2>7. QED
    BY <2>3, <2>4, <2>5, <2>6
<1>8. QED
  BY <1>2, <1>6, <1>7

(* The report of the first crash is copied into that of the second.        *)
LEMMA EmbedOldReportNext ==
    ASSUME IndInv, NEW t \in Thread, EmbedOldReport(t)
    PROVE  /\ MonShape' /\ Installed' /\ Counting' /\ OneCrash'
           /\ Flags' /\ Once' /\ Files' /\ CrashState' /\ Standard' /\ Report'
<1> USE StepSets, MainIsThread DEF IndInv
<1> DEFINE old == Name(thr[t].path, "old")
<1>1. /\ thr[t].at = "embed" /\ UNCHANGED <<mon, core, port, hist>>
      /\ DiskTyped(disk)
  BY TypeParts DEF EmbedOldReport
<1>2. PICK inner, i, fd :
          /\ inner = IF ~FileIn(disk, old) THEN "none"
                     ELSE IF disk.data[disk.dir[old]].complete THEN "complete" ELSE "partial"
          /\ i = [disk.data[fd] EXCEPT !.inner = inner] /\ fd = thr[t].fd
          /\ disk' = [disk EXCEPT !.data[fd] = i]
  BY DEF EmbedOldReport
<1>3. Frame(t) /\ Same(t) /\ MainStays /\ thr'[t].at = "rmold"
  BY GoesEffect DEF EmbedOldReport, Moves
<1>4. /\ MonShape' /\ Installed' /\ Counting' /\ OneCrash' /\ Flags' /\ Once'
      /\ Few' <=> Few
      /\ Few => \A u \in Thread \ {t} : thr[u].at \notin Active /\ thr'[u].at \notin Active
      /\ core.handling /\ ~Broken
  <2>1. thr[t].at \in OnCrashSteps /\ "rmold" \in OnCrashSteps \ {"state"}
    BY <1>1 DEF OnCrashSteps
  <2>2. Few => core.recrashed
    BY <1>1 DEF Flags, Window
  <2>3. QED
    BY <1>1, <1>3, <2>1, <2>2, OnCrashBasics
<1>5. /\ disk'.dir = disk.dir /\ disk'.crashState = disk.crashState
      /\ \A j \in DOMAIN disk.data : disk'.data[j] = IF j = fd THEN i ELSE disk.data[j]
  <2>1. disk' = [disk EXCEPT !.data[fd] = i]
    BY <1>2
  <2>2. QED
    BY <2>1, WriteEffect
<1>6. Few => thr[t].path = core.lastPath
  BY <1>1 DEF Files, Window
<1>7. Files'
  BY <1>1, <1>3, <1>4, <1>5, <1>6 DEF Files, Frame, Same
<1>8. CrashState' /\ Standard'
  BY <1>1, <1>3, <1>4, <1>5 DEF CrashState, Standard
<1>9. ASSUME Few, hist.finished PROVE Embedded(Json, thr[t].fd)'
  <2>1. Holds(Old) /\ FileIn(disk, Json) /\ disk.dir[Json] = fd /\ old = Old
    BY <1>1, <1>2, <1>6, <1>9 DEF Report, Old
  <2>2. inner = "complete" /\ fd \in DOMAIN disk.data
    BY <1>1, <1>2, <2>1 DEF Holds, FileIn, DiskTyped
  <2>3. PICK r \in InodeType : r = disk.data[fd]
    BY <2>2, InodeUpdates
  <2>4. i.inner = "complete"
    BY <1>2, <2>2, <2>3 DEF InodeType
  <2>5. Json' = Json /\ thr'[t].fd = fd
    BY <1>1, <1>2, <1>3 DEF Json, Same
  <2>6. disk'.data[fd].inner = "complete"
    BY <1>5, <2>2, <2>4
  <2>7. FileIn(disk', Json') /\ disk'.dir[Json'] = fd
    BY <1>5, <2>1, <2>5 DEF FileIn
  <2>8. QED
    BY <2>5, <2>6, <2>7 DEF Embedded
<1>10. Report'
  <2>1. \E u \in Thread : thr'[u].at \in Window
    BY <1>3 DEF Window
  <2>2. QED
    BY <1>1, <1>3, <1>4, <1>9, <2>1 DEF Report, Window, Embedded, Json, Same
<1>11. QED
  BY <1>4, <1>7, <1>8, <1>10

(* What the removal of a file changes.                                     *)
LEMMA RemoveEffect ==
    ASSUME TypeOK, NEW name, disk' = [disk EXCEPT !.dir = Unlink(@, name)]
    PROVE  /\ DOMAIN disk'.dir = DOMAIN disk.dir \ {name}
           /\ \A n \in DOMAIN disk.dir \ {name} : disk'.dir[n] = disk.dir[n]
           /\ disk'.data = disk.data /\ disk'.crashState = disk.crashState
<1> DEFINE e == [disk EXCEPT !.dir = Unlink(@, name)]
<1>1. DiskTyped(disk)
  BY TypeParts
<1>2. /\ DOMAIN e.dir = DOMAIN disk.dir \ {name}
      /\ \A n \in DOMAIN disk.dir \ {name} : e.dir[n] = disk.dir[n]
      /\ e.data = disk.data /\ e.crashState = disk.crashState
  BY <1>1, RemoveType, Zenon
<1>3. disk' = e
  OBVIOUS
<1> HIDE DEF e
<1>4. QED
  BY <1>2, <1>3

(* The copy that was moved away is removed.                                *)
LEMMA RemoveOldReportNext ==
    ASSUME IndInv, NEW t \in Thread, RemoveOldReport(t)
    PROVE  /\ MonShape' /\ Installed' /\ Counting' /\ OneCrash'
           /\ Flags' /\ Once' /\ Files' /\ CrashState' /\ Standard' /\ Report'
<1> USE StepSets, MainIsThread DEF IndInv
<1> DEFINE old == Name(thr[t].path, "old")
<1>1. /\ thr[t].at = "rmold" /\ UNCHANGED <<mon, core, port, hist>>
      /\ disk' = [disk EXCEPT !.dir = Unlink(@, old)]
      /\ DiskTyped(disk)
  BY TypeParts DEF RemoveOldReport
<1>2. Frame(t) /\ Same(t) /\ MainStays /\ thr'[t].at = "rewrite"
  BY GoesEffect DEF RemoveOldReport, Moves
<1>3. /\ MonShape' /\ Installed' /\ Counting' /\ OneCrash' /\ Flags' /\ Once'
      /\ Few' <=> Few
      /\ Few => \A u \in Thread \ {t} : thr[u].at \notin Active /\ thr'[u].at \notin Active
      /\ core.handling /\ ~Broken
  <2>1. thr[t].at \in OnCrashSteps /\ "rewrite" \in OnCrashSteps \ {"state"}
    BY <1>1 DEF OnCrashSteps
  <2>2. Few => core.recrashed
    BY <1>1 DEF Flags, Window
  <2>3. QED
    BY <1>1, <1>2, <2>1, <2>2, OnCrashBasics
<1>4. /\ DOMAIN disk'.dir = DOMAIN disk.dir \ {old}
      /\ \A n \in DOMAIN disk.dir \ {old} : disk'.dir[n] = disk.dir[n]
      /\ disk'.data = disk.data /\ disk'.crashState = disk.crashState
  <2>1. disk' = [disk EXCEPT !.dir = Unlink(@, old)]
    BY <1>1
  <2> HIDE DEF old
  <2>2. QED
    BY <2>1, RemoveEffect
<1>5. Few => thr[t].path = core.lastPath
  BY <1>1 DEF Files, Window
<1>6. Files'
  BY <1>1, <1>2, <1>3, <1>4, <1>5 DEF Files, Frame, Same
<1>7. CrashState' /\ Standard'
  BY <1>1, <1>2, <1>3, <1>4 DEF CrashState, Standard
<1>8. ASSUME Few, hist.finished PROVE Embedded(Json, thr[t].fd)'
  <2>1. Embedded(Json, thr[t].fd)
    BY <1>1, <1>8 DEF Report
  <2>2. Json # old /\ Json' = Json
    BY <1>1 DEF Json, Name
  <2>3. QED
    BY <1>2, <1>4, <2>1, <2>2 DEF Embedded, FileIn, Same
<1>9. Report'
  <2>1. \E u \in Thread : thr'[u].at \in Window
    BY <1>2 DEF Window
  <2>2. QED
    BY <1>1, <1>2, <1>3, <1>8, <2>1 DEF Report, Window, Embedded, Json, Same
<1>10. QED
  BY <1>3, <1>6, <1>7, <1>9

(* The report of the second crash is closed.                               *)
LEMMA WriteRecrashReportNext ==
    ASSUME IndInv, NEW t \in Thread, WriteRecrashReport(t)
    PROVE  /\ MonShape' /\ Installed' /\ Counting' /\ OneCrash'
           /\ Flags' /\ Once' /\ Files' /\ CrashState' /\ Standard' /\ Report'
<1> USE StepSets, MainIsThread DEF IndInv
<1>1. /\ thr[t].at = "rewrite" /\ UNCHANGED <<mon, core, port, hist>>
      /\ DiskTyped(disk)
  BY TypeParts DEF WriteRecrashReport
<1>2. PICK i, fd :
          /\ i = [disk.data[fd] EXCEPT !.complete = TRUE] /\ fd = thr[t].fd
          /\ disk' = [disk EXCEPT !.data[fd] = i]
  BY DEF WriteRecrashReport
<1>3. Frame(t) /\ Same(t) /\ MainStays /\ thr'[t].at = "callbacks"
  BY GoesEffect DEF WriteRecrashReport, Moves
<1>4. "callbacks" \in OnCrashSteps \ ({"state", "rename", "open", "write"} \cup Window)
  BY DEF OnCrashSteps, Window
<1>5. /\ MonShape' /\ Installed' /\ Counting' /\ OneCrash' /\ Flags' /\ Once'
      /\ Few' <=> Few
      /\ Few => \A u \in Thread \ {t} : thr[u].at \notin Active /\ thr'[u].at \notin Active
      /\ core.handling /\ ~Broken
  <2>1. thr[t].at \in OnCrashSteps
    BY <1>1 DEF OnCrashSteps
  <2>2. QED
    BY <1>1, <1>3, <1>4, <2>1, OnCrashBasics
<1>6. /\ disk'.dir = disk.dir /\ disk'.crashState = disk.crashState
      /\ \A j \in DOMAIN disk.data : disk'.data[j] = IF j = fd THEN i ELSE disk.data[j]
  <2>1. disk' = [disk EXCEPT !.data[fd] = i]
    BY <1>2
  <2>2. QED
    BY <2>1, WriteEffect
<1>7. Files'
  BY <1>1, <1>3, <1>4, <1>5, <1>6 DEF Files, Frame, Same
<1>8. CrashState' /\ Standard'
  BY <1>1, <1>3, <1>5, <1>6 DEF CrashState, Standard
<1>9. ASSUME Few, hist.finished PROVE Holds(Json)'
  <2>1. Embedded(Json, fd)
    BY <1>1, <1>2, <1>9 DEF Report
  <2>2. fd \in DOMAIN disk.data
    BY <1>1, <2>1 DEF Embedded, FileIn, DiskTyped
  <2>3. PICK r \in InodeType : r = disk.data[fd]
    BY <2>2, InodeUpdates
  <2>4. i.inner = "complete" /\ i.complete
    BY <1>2, <2>1, <2>3 DEF Embedded, InodeType
  <2>5. QED
    BY <1>1, <1>6, <2>1, <2>2, <2>4 DEF Embedded, Holds, FileIn, Json
<1>10. Report'
  BY <1>1, <1>3, <1>4, <1>5, <1>9 DEF Report, Window
<1>11. QED
  BY <1>5, <1>7, <1>8, <1>10

(* Nothing changes that the invariant speaks of.                           *)
LEMMA Idle ==
    ASSUME IndInv, UNCHANGED <<mon, thr, port, hist>>,
           core'.installed = core.installed, core'.callback = core.callback,
           core'.handling = core.handling, core'.recrashed = core.recrashed,
           core'.async = core.async, core'.context = core.context,
           core'.nextID = core.nextID, core'.lastPath = core.lastPath,
           disk'.dir = disk.dir, disk'.data = disk.data, disk'.crashState = disk.crashState
    PROVE  /\ MonShape' /\ Installed' /\ Counting' /\ OneCrash'
           /\ Flags' /\ Once' /\ Files' /\ CrashState' /\ Standard' /\ Report'
<1>1. MonShape' /\ Installed' /\ Counting' /\ OneCrash' /\ Once'
  BY DEF IndInv, MonShape, Installed, Counting, OneCrash, Once, Few
<1>2. Flags' /\ Files' /\ CrashState'
  BY DEF IndInv, Flags, Files, CrashState, Few
<1>3. Few' <=> Few
  BY DEF Few
<1>4. Standard'
  BY <1>3, NamesStay DEF IndInv, Standard, FileIn
<1>5. Broken => Broken'
  BY NamesStay DEF Broken
<1>6. Report'
  BY <1>3, <1>5, ReportStays DEF IndInv
<1>7. QED
  BY <1>1, <1>2, <1>4, <1>6

(* The steps of a handler.                                                 *)
LEMMA HandlerNext ==
    ASSUME IndInv, TypeOK', NEW t \in Thread, HandlerStep(t)
    PROVE  /\ MonShape' /\ Installed' /\ Counting' /\ OneCrash'
           /\ Flags' /\ Once' /\ Files' /\ CrashState' /\ Standard' /\ Report'
<1>1. CASE OnCrash(t)
  BY <1>1, NotifyAppCrashNext, NextCrashReportPathNext, OpenStandardReportNext,
     WriteStandardReportNext, ReplayInfoNext, RenameReportNext, OpenRecrashReportNext,
     EmbedOldReportNext, RemoveOldReportNext, WriteRecrashReportNext DEF OnCrash
<1>2. CASE TakeSignal(t)
  <2>1. CASE mon.sig = "sentry" /\ thr' # thr
    BY <1>2, <2>1, TakeSignalNext
  <2>2. CASE mon.sig # "sentry" \/ thr' = thr
    <3>1. UNCHANGED <<mon, core, thr, port, disk, hist>>
      BY <1>2, <2>2 DEF TakeSignal
    <3>2. QED
      BY <3>1, Idle
  <2>3. QED
    BY <2>1, <2>2
<1>3. QED
  BY <1>1, <1>2, EnterNext, NotifyNext, NotifiedNext, ContextNext, RestoreHandlersNext,
     ResumeNext, ExitNext DEF HandlerStep

(* An exception thread gets the message of a crash.                        *)
LEMMA ReceiveNext ==
    ASSUME IndInv, NEW h \in HandlerThread, Receive(h)
    PROVE  /\ MonShape' /\ Installed' /\ Counting' /\ OneCrash'
           /\ Flags' /\ Once' /\ Files' /\ CrashState' /\ Standard' /\ Report'
<1> USE StepSets, MainIsThread DEF IndInv
<1>1. /\ h \in Thread /\ thr[h].at = "listen" /\ mon.installed /\ port # <<>>
      /\ port' = Tail(port) /\ UNCHANGED <<mon, core, disk, hist>>
      /\ hist.installs # 0 /\ hist.threads # {}
  BY DEF Receive, Thread, Installed, Counting
<1>2. /\ Frame(h) /\ MainStays /\ thr'[h].path = thr[h].path /\ thr'[h].fd = thr[h].fd
      /\ thr'[h].at = "enter" /\ thr'[h].kind = "mach"
  <2>1. PICK r \in ThreadType : r = thr[h]
    BY <1>1, TypeParts
  <2>2. PICK f : f = Head(port)
    OBVIOUS
  <2> DEFINE q == [r EXCEPT !.at = "enter", !.kind = "mach", !.from = f]
  <2>3. thr' = [thr EXCEPT ![h] = q]
    BY <2>1, <2>2 DEF Receive
  <2>4. q.at = "enter" /\ q.kind = "mach" /\ q.path = r.path /\ q.fd = r.fd /\ q.susp = r.susp
    BY DEF ThreadType
  <2> HIDE DEF q
  <2>5. QED
    BY <1>1, <2>1, <2>3, <2>4, ThreadEffect
<1>3. "enter" \notin Holding \cup {"run", "closing", "signalled", "exit"}
  OBVIOUS
<1>4. Few' <=> Few
  BY <1>1 DEF Few
<1>5. ASSUME Few PROVE port' = <<>> /\ \A u \in Thread : thr[u].at \notin Active
  <2>1. Len(port) = 1 /\ \A u \in Thread : thr[u].at \notin Active
    BY <1>1, <1>5 DEF OneCrash
  <2>2. port' \in Seq(Thread) /\ Len(port') = 0
    BY <1>1, <2>1, TypeParts, TakeFirst
  <2>3. QED
    BY <2>1, <2>2
<1>6. ASSUME Few, NEW u \in Thread PROVE thr'[u].at \notin Holding /\ (u # h => thr'[u].at \notin Active)
  BY <1>1, <1>2, <1>3, <1>5, <1>6 DEF Frame
<1>7. MonShape'
  BY <1>1 DEF MonShape
<1>8. Installed'
  BY <1>1, <1>2 DEF Installed, Frame
<1>9. Counting'
  <2>1. hist.threads \subseteq Thread
    BY TypeParts DEF HistType, Thread
  <2>2. QED
    BY <1>1, <1>2, <1>4, <2>1 DEF Counting, Frame
<1>10. OneCrash'
  BY <1>1, <1>4, <1>5, <1>6 DEF OneCrash
<1>11. Flags'
  <2>1. \A u \in Thread : thr'[u].at \in InHandler => core'.handling
    BY <1>1, <1>2 DEF Flags, Frame
  <2>2. QED
    BY <1>1, <1>4, <1>6, <2>1 DEF Flags
<1>12. Once'
  BY <1>1, <1>2 DEF Once, Frame
<1>13. Files'
  BY <1>1, <1>2, <1>4, <1>6 DEF Files, Frame
<1>14. CrashState' /\ Standard'
  BY <1>1, <1>4, <1>6 DEF CrashState, Standard
<1>15. ASSUME Few, hist.finished PROVE Holds(Json)' \/ Broken'
  <2>1. Holds(Json) \/ Broken
    BY <1>5, <1>15 DEF Report
  <2>2. Holds(Json) => Holds(Json)'
    BY <1>1 DEF Holds, Json
  <2>3. Broken => Broken'
    <3>1. ASSUME Broken PROVE thr'[Main].susp >= 1 \/ thr'[Main].at \notin {"run", "closing"}
      BY <1>2, <1>3, <3>1 DEF Broken, Frame, MainStays
    <3>2. QED
      BY <1>1, <1>2, <1>6, <1>15, <3>1 DEF Broken, Saved
  <2>4. QED
    BY <2>1, <2>2, <2>3
<1>16. Report'
  BY <1>1, <1>4, <1>6, <1>15 DEF Report, Window
<1>17. QED
  BY <1>7, <1>8, <1>9, <1>10, <1>11, <1>12, <1>13, <1>14, <1>16

(* A thread of the application crashes.                                    *)
LEMMA CrashNext ==
    ASSUME IndInv, TypeOK', NEW t \in App,
           AppFault(t) \/ Abort(t) \/ \E what \in {"cpp", "ns"} : Throw(t, what)
    PROVE  /\ MonShape' /\ Installed' /\ Counting' /\ OneCrash'
           /\ Flags' /\ Once' /\ Files' /\ CrashState' /\ Standard' /\ Report'
<1> USE StepSets, MainIsThread DEF IndInv
<1>1. /\ t \in Thread /\ thr[t].at \in {"run", "closing"} /\ UNCHANGED <<mon, core, disk>>
      /\ Counted(t)
  BY DEF AppFault, Abort, Throw, Thread
<1>2. /\ hist'.crashes = hist.crashes + 1 /\ hist'.threads = hist.threads \cup {t}
      /\ hist'.installs = hist.installs /\ hist'.finished = hist.finished
      /\ hist'.closed = hist.closed /\ hist.crashes \in Nat /\ hist.threads \subseteq Thread
  BY <1>1, TypeParts DEF Counted, HistType, Thread
<1>3. /\ Frame(t) /\ MainStays /\ thr'[t].path = thr[t].path
      /\ \/ thr'[t].at = "blocked" /\ mon.ports = "sentry" /\ (port = <<>> => Len(port') = 1)
         \/ thr'[t].at = "signalled" /\ port' = port
         \/ thr'[t].at = "enter" /\ port' = port /\ (mon.term = "sentry" \/ mon.ns = "sentry")
  <2>1. CASE AppFault(t)
    BY <1>1, <2>1, BadAccessEffect DEF AppFault, Same
  <2>2. PICK r \in ThreadType : r = thr[t]
    BY <1>1, TypeParts
  <2>3. ASSUME NEW s \in {"signalled", "enter"}, NEW k, NEW what, NEW sig,
               \/ thr' = [thr EXCEPT ![t] = [r EXCEPT !.at = s, !.sig = sig]]
               \/ thr' = [thr EXCEPT ![t] = [r EXCEPT !.at = s, !.kind = k, !.what = what]]
        PROVE  /\ Frame(t) /\ MainStays /\ thr'[t].path = thr[t].path /\ thr'[t].at = s
    <3>1. /\ [r EXCEPT !.at = s, !.sig = sig].at = s
          /\ [r EXCEPT !.at = s, !.sig = sig].path = r.path
          /\ [r EXCEPT !.at = s, !.sig = sig].fd = r.fd
          /\ [r EXCEPT !.at = s, !.sig = sig].susp = r.susp
          /\ [r EXCEPT !.at = s, !.kind = k, !.what = what].at = s
          /\ [r EXCEPT !.at = s, !.kind = k, !.what = what].path = r.path
          /\ [r EXCEPT !.at = s, !.kind = k, !.what = what].fd = r.fd
          /\ [r EXCEPT !.at = s, !.kind = k, !.what = what].susp = r.susp
      BY DEF ThreadType
    <3>2. PICK q : /\ thr' = [thr EXCEPT ![t] = q] /\ q.at = s
                   /\ q.path = r.path /\ q.fd = r.fd /\ q.susp = r.susp
      BY <2>3, <3>1
    <3>3. QED
      BY <1>1, <2>2, <3>2, ThreadEffect
  <2>4. CASE Abort(t)
    <3>1. thr' = [thr EXCEPT ![t] = [r EXCEPT !.at = "signalled", !.sig = "ABRT"]] /\ port' = port
      BY <2>2, <2>4 DEF Abort
    <3>2. QED
      BY <2>3, <3>1
  <2>5. ASSUME NEW what \in {"cpp", "ns"}, Throw(t, what)
        PROVE  /\ Frame(t) /\ MainStays /\ thr'[t].path = thr[t].path /\ port' = port
               /\ \/ thr'[t].at = "signalled"
                  \/ thr'[t].at = "enter" /\ (mon.term = "sentry" \/ mon.ns = "sentry")
    <3>1. port' = port
      BY <2>5 DEF Throw
    <3>2. CASE mon.term = "sentry"
      <4>1. thr' = [thr EXCEPT ![t] = [r EXCEPT !.at = "enter", !.kind = "cpp", !.what = what]]
        BY <2>2, <2>5, <3>2 DEF Throw
      <4>2. QED
        BY <2>3, <3>1, <3>2, <4>1
    <3>3. CASE mon.term # "sentry" /\ what = "ns" /\ mon.ns = "sentry"
      <4>1. thr' = [thr EXCEPT ![t].at = "enter", ![t].kind = "ns", ![t].what = what]
        BY <2>5, <3>3, Zenon DEF Throw
      <4>2. thr' = [thr EXCEPT ![t] = [r EXCEPT !.at = "enter", !.kind = "ns", !.what = what]]
        BY <2>2, <4>1, Zenon
      <4>3. QED
        BY <2>3, <3>1, <3>3, <4>2
    <3>4. CASE mon.term # "sentry" /\ ~(what = "ns" /\ mon.ns = "sentry")
      <4>1. thr' = [thr EXCEPT ![t] = [r EXCEPT !.at = "signalled", !.sig = "ABRT"]]
        BY <2>2, <2>5, <3>4 DEF Throw
      <4>2. QED
        BY <2>3, <3>1, <4>1
    <3>5. QED
      BY <3>2, <3>3, <3>4
  <2>6. QED
    BY <2>1, <2>4, <2>5
<1>4. thr'[t].at \notin Holding \cup {"run", "closing", "open"}
  BY <1>3
<1>5. t \notin hist.threads
  BY <1>1 DEF Counting
<1>6. Few' => hist.threads = {}
  BY <1>2, <1>5 DEF Few
<1>7. ASSUME hist.threads = {}
      PROVE  /\ Few /\ port = <<>> /\ ~core.handling /\ ~core.recrashed /\ ~hist.finished
             /\ \A u \in Thread : thr[u].at \notin Active
  BY <1>7 DEF Counting, Flags, Few
<1>8. ASSUME Few', NEW u \in Thread PROVE thr'[u].at \notin Holding /\ (u # t => thr'[u].at \notin Active)
  BY <1>3, <1>4, <1>6, <1>7, <1>8 DEF Frame
<1>9. MonShape'
  BY <1>1 DEF MonShape
<1>10. Installed'
  <2>1. thr'[Main].at = "closing" => thr[Main].at = "closing"
    BY <1>3, <1>4 DEF Frame
  <2>2. ASSUME hist.installs = 0
        PROVE  port' = <<>> /\ \A u \in Thread : thr'[u].at \in {"run", "listen", "signalled"}
    BY <1>3, <2>2 DEF Installed, Frame
  <2>3. QED
    BY <1>1, <1>2, <2>1, <2>2 DEF Installed
<1>11. Counting'
  <2>1. hist.crashes = 0 => hist.threads = {}
    BY DEF Counting
  <2>2. hist.threads = {} => Few'
    BY <1>2 DEF Few
  <2>3. \A u \in hist'.threads : thr'[u].at \notin {"run", "closing"}
    BY <1>2, <1>3, <1>4 DEF Counting, Frame
  <2>4. hist'.crashes # 0 /\ (hist'.crashes <= 1 => hist.crashes = 0) /\ hist'.threads # {}
    BY <1>2
  <2>5. QED
    BY <2>1, <2>2, <2>3, <2>4 DEF Counting
<1>12. OneCrash'
  <2>1. ASSUME Few', port' # <<>> PROVE Len(port') = 1 /\ thr'[t].at \notin Active
    BY <1>3, <1>6, <1>7, <2>1
  <2>2. QED
    BY <1>8, <2>1 DEF OneCrash
<1>13. Flags'
  <2>1. \A u \in Thread : thr'[u].at \in InHandler => core'.handling
    BY <1>1, <1>3, <1>4 DEF Flags, Frame
  <2>2. QED
    BY <1>1, <1>2, <1>8, <2>1 DEF Flags
<1>14. Once'
  <2>1. hist'.crashes <= 1 => hist.threads = {}
    BY <1>2 DEF Counting
  <2>2. QED
    BY <1>1, <1>7, <2>1 DEF Once
<1>15. Files'
  BY <1>1, <1>3, <1>4, <1>8 DEF Files, Frame
<1>16. CrashState' /\ Standard' /\ Report'
  BY <1>1, <1>2, <1>6, <1>7, <1>8 DEF CrashState, Standard, Report
<1>17. QED
  BY <1>9, <1>10, <1>11, <1>12, <1>13, <1>14, <1>15, <1>16

(* The reporter is installed: no handler is at work, unless several        *)
(* threads crashed.                                                        *)
LEMMA InstallNext ==
    ASSUME IndInv, NEW machWorks \in BOOLEAN, NEW sigWorks \in BOOLEAN, Install(machWorks, sigWorks)
    PROVE  /\ MonShape' /\ Installed' /\ Counting' /\ OneCrash'
           /\ Flags' /\ Once' /\ Files' /\ CrashState' /\ Standard' /\ Report'
<1> USE StepSets, MainIsThread DEF IndInv
<1>1. /\ thr[Main].at = "run" /\ thr[Main].susp = 0 /\ ~core.installed
      /\ UNCHANGED <<thr, port, disk>>
  BY DEF Install, Runs
<1>2. /\ core'.installed /\ core'.callback
      /\ core'.handling = core.handling /\ core'.recrashed = core.recrashed
      /\ core'.async = core.async /\ core'.context = core.context
      /\ core'.nextID = core.nextID /\ core'.lastPath = core.lastPath
  BY TypeParts DEF Install, CoreType
<1>3. /\ hist'.crashes = hist.crashes /\ hist'.threads = hist.threads
      /\ hist'.installs = hist.installs + 1 /\ hist'.finished = hist.finished
      /\ hist'.closed = hist.closed /\ hist.installs \in Nat
  BY TypeParts DEF Install, HistType
<1>4. /\ "signal" \notin mon'.enabled => mon'.sig = "original"
      /\ "appstate" \in mon'.enabled <=> ~core.async
  <2>1. MonitorTypeAll \in SUBSET MonitorTypeAll /\ "appstate" \in MonitorTypeAll
    BY DEF MonitorTypeAll
  <2>2. PICK m : m = SetActiveMonitors(MonitorTypeAll, machWorks, sigWorks)
    OBVIOUS
  <2>3. mon' = m
    BY <2>2 DEF Install
  <2>4. QED
    BY <2>1, <2>2, <2>3, MonitorsSet
<1>5. Few' <=> Few
  BY <1>3 DEF Few
<1>6. ASSUME Few, NEW u \in Thread PROVE thr[u].at \notin Holding
  BY <1>1, <1>6 DEF Flags
<1>7. ~hist.closed => hist.installs = 0
  BY <1>1, <1>3 DEF Installed
<1>8. hist.installs = 0 => ~core.handling /\ ~core.async
  BY DEF Installed
<1>9. Installed'
  BY <1>1, <1>2, <1>3, <1>7 DEF Installed
<1>10. Counting' /\ OneCrash'
  BY <1>1, <1>2, <1>3, <1>5 DEF Counting, OneCrash
<1>11. Flags'
  BY <1>1, <1>2, <1>3, <1>5, <1>6 DEF Flags
<1>12. Once'
  BY <1>2, <1>3, <1>8 DEF Once, Flags
<1>13. Files'
  BY <1>1, <1>2, <1>5 DEF Files
<1>14. CrashState'
  BY <1>1, <1>2, <1>3, <1>4, <1>5, <1>6, <1>7, <1>8 DEF CrashState
<1>15. Standard'
  BY <1>1, <1>2, <1>3, <1>5 DEF Standard, Json
<1>16. Report'
  <2>1. ~Broken
    BY <1>1 DEF Broken
  <2>2. QED
    BY <1>1, <1>2, <1>3, <1>5, <2>1, ReportStays
<1>17. MonShape'
  BY <1>4 DEF MonShape
<1>18. QED
  BY <1>9, <1>10, <1>11, <1>12, <1>13, <1>14, <1>15, <1>16, <1>17

(* The main thread closes the SDK, in two steps.                           *)
LEMMA UninstallNext ==
    ASSUME IndInv, BeginUninstall \/ Uninstall
    PROVE  /\ MonShape' /\ Installed' /\ Counting' /\ OneCrash'
           /\ Flags' /\ Once' /\ Files' /\ CrashState' /\ Standard' /\ Report'
<1> USE StepSets, MainIsThread DEF IndInv
<1>1. /\ \/ /\ thr[Main].at = "run" /\ thr'[Main].at = "closing" /\ core.installed
            /\ core' = core /\ mon'.enabled = {} /\ mon'.sig = "original" /\ hist'.closed
         \/ /\ thr[Main].at = "closing" /\ thr'[Main].at = "run" /\ mon' = mon
            /\ hist'.closed = hist.closed /\ core'.installed = FALSE /\ core'.callback = FALSE
      /\ Frame(Main) /\ Same(Main) /\ MainStays /\ thr[Main].susp = 0
      /\ UNCHANGED <<port, disk>>
  <2>1. CASE BeginUninstall
    <3>1. thr' = Goes(Main, "closing") /\ mon' = NoMonitors
      BY <2>1 DEF BeginUninstall, Moves
    <3>2. Frame(Main) /\ Same(Main) /\ MainStays /\ thr'[Main].at = "closing"
      BY <3>1, GoesEffect
    <3>3. mon'.enabled = {} /\ mon'.sig = "original"
      BY <3>1, MonitorsCleared
    <3>4. hist'.closed
      BY <2>1, TypeParts DEF BeginUninstall, HistType
    <3>5. thr[Main].at = "run" /\ thr[Main].susp = 0 /\ core.installed /\ UNCHANGED <<core, port, disk>>
      BY <2>1 DEF BeginUninstall, Runs
    <3>6. QED
      BY <3>2, <3>3, <3>4, <3>5
  <2>2. CASE Uninstall
    <3>1. thr' = Goes(Main, "run")
      BY <2>2 DEF Uninstall, Moves
    <3>2. Frame(Main) /\ Same(Main) /\ MainStays /\ thr'[Main].at = "run"
      BY <3>1, GoesEffect
    <3>3. core'.installed = FALSE /\ core'.callback = FALSE
      BY <2>2, TypeParts DEF Uninstall, CoreType
    <3>4. thr[Main].at = "closing" /\ thr[Main].susp = 0 /\ UNCHANGED <<mon, hist, port, disk>>
      BY <2>2 DEF Uninstall, Runs
    <3>5. QED
      BY <3>2, <3>3, <3>4
  <2>3. QED
    BY <2>1, <2>2
<1>2. /\ core'.handling = core.handling /\ core'.recrashed = core.recrashed
      /\ core'.async = core.async /\ core'.context = core.context
      /\ core'.nextID = core.nextID /\ core'.lastPath = core.lastPath
  BY TypeParts DEF BeginUninstall, Uninstall, CoreType
<1>3. /\ hist'.crashes = hist.crashes /\ hist'.threads = hist.threads
      /\ hist'.installs = hist.installs /\ hist'.finished = hist.finished
  BY TypeParts DEF BeginUninstall, Uninstall, HistType
<1>4. Few' <=> Few
  BY <1>3 DEF Few
<1>5. \A u \in Thread : \/ thr'[u].at = thr[u].at
                        \/ u = Main /\ thr'[u].at \notin Active \cup {"open", "notified", "state", "path", "rename"}
  BY <1>1 DEF Frame
<1>6. mon'.enabled = {} /\ hist'.closed /\ hist.installs # 0
  BY <1>1 DEF Installed
<1>7. MonShape'
  BY <1>1 DEF MonShape
<1>8. Installed'
  BY <1>1, <1>3, <1>6 DEF Installed
<1>9. Counting'
  <2>1. Main \notin hist.threads /\ hist.threads \subseteq Thread
    BY <1>1, TypeParts DEF Counting, HistType, Thread
  <2>2. QED
    BY <1>1, <1>2, <1>3, <1>4, <1>5, <2>1 DEF Counting, Frame
<1>10. OneCrash'
  BY <1>1, <1>3, <1>4, <1>5 DEF OneCrash
<1>11. Flags'
  <2>1. ASSUME Few, NEW u \in Thread
        PROVE  /\ thr'[u].at = "notified" /\ core'.handling => core'.recrashed
               /\ thr'[u].at = "state" /\ ~core'.context[thr'[u].kind] => ~core'.recrashed
               /\ thr'[u].at \in Window \cup {"rename"} => core'.recrashed
               /\ thr'[u].at \in InHandler /\ core'.recrashed => mon'.enabled = {}
               /\ thr'[u].at \in Holding => u = Main \/ thr'[Main].susp >= 1
    BY <1>1, <1>2, <1>5, <1>6, <2>1 DEF Flags, Frame, Same, MainStays
  <2>2. \A u \in Thread : thr'[u].at \in InHandler => core'.handling
    BY <1>2, <1>5 DEF Flags
  <2>3. QED
    BY <1>2, <1>3, <1>4, <2>1, <2>2 DEF Flags
<1>12. Once'
  <2>1. ASSUME hist.crashes <= 1, hist.installs <= 1, core.handling, NEW u \in Thread
        PROVE  /\ thr'[u].at \notin {"notify", "notified"}
               /\ thr'[u].at = "enter" => thr'[u].kind # "cpp"
    <3>1. CASE thr'[u].at = thr[u].at /\ u # Main
      BY <1>1, <2>1, <3>1 DEF Once, Frame
    <3>2. CASE u = Main
      BY <1>1, <3>2
    <3>3. QED
      BY <1>5, <3>1, <3>2
  <2>2. QED
    BY <1>2, <1>3, <1>6, <2>1 DEF Once
<1>13. Files'
  BY <1>1, <1>2, <1>4, <1>5 DEF Files, Frame, Same
<1>14. CrashState'
  BY <1>6 DEF CrashState
<1>15. Standard'
  BY <1>1, <1>2, <1>3, <1>4, <1>5 DEF Standard, Frame, Same, Json
<1>16. Report'
  <2>1. ~Broken
    BY <1>1 DEF Broken
  <2>2. ASSUME NEW u \in Thread, thr'[u].at \in Window \/ thr[u].at \in Window
        PROVE  thr'[u].at = thr[u].at /\ thr'[u].fd = thr[u].fd
    BY <1>1, <1>5, <2>2 DEF Frame, Same
  <2>3. QED
    BY <1>1, <1>2, <1>3, <1>4, <2>1, <2>2, ReportStays
<1>17. QED
  BY <1>7, <1>8, <1>9, <1>10, <1>11, <1>12, <1>13, <1>14, <1>15, <1>16

(* All other steps.                                                        *)
LEMMA OutsideNext ==
    ASSUME IndInv, TypeOK', Outside
    PROVE  /\ MonShape' /\ Installed' /\ Counting' /\ OneCrash'
           /\ Flags' /\ Once' /\ Files' /\ CrashState' /\ Standard' /\ Report'
<1>1. CASE StartReplay
  <2>1. /\ core' = [core EXCEPT !.replay = TRUE] /\ core \in CoreType
        /\ UNCHANGED <<mon, thr, port, hist, disk>>
    BY <1>1, TypeParts DEF StartReplay, IndInv
  <2>2. QED
    BY <2>1, Idle DEF CoreType
<1>2. CASE NextLaunch \/ ReadReplayInfo
  <2>1. /\ DiskTyped(disk) /\ UNCHANGED <<mon, core, thr, port, hist>>
        /\ \/ disk' = [disk EXCEPT !.launch = "reading"]
           \/ disk' = [disk EXCEPT !.launch = "done"]
    BY <1>2, TypeParts DEF NextLaunch, ReadReplayInfo, IndInv
  <2>2. disk'.dir = disk.dir /\ disk'.data = disk.data /\ disk'.crashState = disk.crashState
    BY <2>1 DEF DiskTyped
  <2>3. QED
    BY <2>1, <2>2, Idle
<1>3. ASSUME NEW t \in Thread, HandlerFault(t)
      PROVE  /\ MonShape' /\ Installed' /\ Counting' /\ OneCrash'
             /\ Flags' /\ Once' /\ Files' /\ CrashState' /\ Standard' /\ Report'
  BY <1>3, FaultNext DEF HandlerFault
<1>4. QED
  BY <1>1, <1>2, <1>3, InstallNext, UninstallNext, CrashNext, ReceiveNext DEF Outside

(* Every step keeps the inductive invariant.                               *)
LEMMA IndNext == IndInv /\ [Next]_vars => IndInv'
<1> SUFFICES ASSUME IndInv, [Next]_vars PROVE IndInv'
  OBVIOUS
<1>1. TypeOK'
  BY TypeStep DEF IndInv
<1>2. CASE UNCHANGED vars
  BY <1>1, <1>2, Idle DEF vars, IndInv
<1>3. CASE Outside
  BY <1>1, <1>3, OutsideNext DEF IndInv
<1>4. ASSUME NEW t \in Thread, HandlerStep(t) PROVE IndInv'
  BY <1>1, <1>4, HandlerNext DEF IndInv
<1>5. QED
  BY <1>2, <1>3, <1>4, NextCases

(* It holds at the start.                                                  *)
LEMMA IndInit == Init => IndInv
<1> SUFFICES ASSUME Init PROVE IndInv
  OBVIOUS
<1> USE MainIsThread, StepSets
<1>1. /\ mon \in MonType /\ mon.enabled = {} /\ ~mon.installed
      /\ mon.ports = "original" /\ mon.sig = "original" /\ mon.ns = "original"
      /\ mon.term = "original"
  BY DEF Init, MonType
<1>2. core \in CoreType
  BY DEF Init, CoreType, MonitorTypeDebuggerUnsafe
<1>3. /\ core.installed = FALSE /\ core.callback = FALSE /\ ~core.handling /\ ~core.recrashed /\ ~core.async
      /\ core.nextID = 1 /\ core.lastPath = 0
      /\ \A k \in MonitorTypeDebuggerUnsafe : ~core.context[k]
  BY DEF Init
<1>4. thr \in [Thread -> ThreadType]
  BY DEF Init, ThreadType, Steps, MonitorTypeDebuggerUnsafe
<1>5. \A t \in Thread : thr[t].at = (IF t \in App THEN "run" ELSE "listen") /\ thr[t].path = 0
  BY DEF Init
<1>6. port = <<>> /\ port \in Seq(Thread) /\ alive \in BOOLEAN
  BY DEF Init
<1>7. DiskTyped(disk) /\ DOMAIN disk.dir = {}
  BY DEF Init, DiskTyped
<1>8. /\ hist \in HistType /\ hist.crashes = 0 /\ hist.threads = {} /\ hist.installs = 0
      /\ ~hist.finished /\ ~hist.closed
  BY DEF Init, HistType
<1>9. TypeOK
  BY <1>1, <1>2, <1>4, <1>6, <1>7, <1>8, TypeParts
<1>10. thr[Main].at = "run"
  BY <1>5, CrashMonitorsAssumption
<1>11. \A t \in Thread : thr[t].at \in {"run", "listen"} /\ thr[t].at \notin Active
  BY <1>5
<1>12. MonShape /\ Installed
  <2>1. MonShape
    BY <1>1 DEF MonShape
  <2>2. /\ core.callback = core.installed
        /\ ~hist.closed => hist.installs <= 1 /\ (hist.installs = 1 => core.installed)
        /\ thr[Main].at = "closing" => hist.closed
    <3>1. core.callback = core.installed
      BY DEF Init
    <3>2. QED
      BY <1>8, <1>10, <3>1
  <2>3. \A t \in Thread : thr[t].at \in {"run", "listen", "signalled"}
    BY <1>11
  <2>4. Installed
    BY <1>1, <1>3, <1>6, <2>2, <2>3 DEF Installed
  <2>5. QED
    BY <2>1, <2>4
<1>13. Counting /\ OneCrash
  BY <1>3, <1>6, <1>8, <1>11 DEF Counting, OneCrash, Few
<1>14. Flags /\ Once
  BY <1>3, <1>8, <1>11 DEF Flags, Once
<1>15. Files
  BY <1>3, <1>5, <1>7, <1>11 DEF Files, Window
<1>16. CrashState /\ Standard /\ Report
  BY <1>3, <1>8, <1>11 DEF CrashState, Standard, Report
<1>17. QED
  BY <1>9, <1>12, <1>13, <1>14, <1>15, <1>16 DEF IndInv

(* It holds in every reachable state.                                      *)
LEMMA IndInvariant == Spec => []IndInv
<1>1. QED
  BY IndInit, IndNext, PTL DEF Spec

(* The program crashed in no two threads.                                  *)
LEMMA AloneFew ==
    ASSUME TypeOK, Alone
    PROVE  Few
<1>1. IsFiniteSet(hist.threads)
  BY CrashMonitorsAssumption, TypeParts, FS_Subset DEF HistType
<1>2. SUFFICES ASSUME NEW t \in hist.threads, NEW u \in hist.threads, t # u PROVE FALSE
  BY DEF Few
<1>3. Cardinality({t, u}) = 2
  <2>1. IsFiniteSet({t}) /\ Cardinality({t}) = 1
    BY FS_Singleton
  <2>2. {t, u} = {t} \cup {u} /\ u \notin {t}
    BY <1>2
  <2>3. Cardinality({t} \cup {u}) = Cardinality({t}) + 1
    BY <2>1, <2>2, FS_AddElement
  <2>4. QED
    BY <2>1, <2>2, <2>3
<1>4. Cardinality({t, u}) <= Cardinality(hist.threads)
  BY <1>1, FS_Subset
<1>5. Cardinality(hist.threads) \in Nat
  BY <1>1, FS_CardinalityType
<1>6. QED
  BY <1>3, <1>4, <1>5 DEF Alone

-----------------------------------------------------------------------------
(* The theorems                                                            *)

\* Every variable keeps its type: the flags and paths of the crash handlers,
\* the threads, the files and the inodes they name.
THEOREM TypeCorrect == Spec => []TypeOK
<1>1. IndInv => TypeOK
  BY DEF IndInv
<1>2. QED
  BY <1>1, IndInvariant, PTL

\* A finished report of the first crash outlives every crash of the handlers
\* that follow it, whatever the number of threads, crashes and installations
\* (sentrycrashreport_writeRecrashReport).
THEOREM FirstReportKept == Spec => []ReportKept
<1>1. ASSUME IndInv PROVE ReportKept
  <2>1. SUFFICES ASSUME hist.finished, Alone PROVE Saved
    BY DEF ReportKept, Saved
  <2>2. Few
    BY <1>1, <2>1, AloneFew DEF IndInv
  <2>3. CASE \A t \in Thread : thr[t].at \notin Window
    BY <1>1, <2>1, <2>2, <2>3 DEF IndInv, Report, Holds, Broken, Saved, FileIn
  <2>4. CASE \E t \in Thread : thr[t].at \in Window
    BY <1>1, <2>1, <2>2, <2>4 DEF IndInv, Report, Window, Holds, Embedded, Saved, FileIn
  <2>5. QED
    BY <2>3, <2>4
<1>2. QED
  BY <1>1, IndInvariant, PTL

\* A crash is only taken for a crash of the crash handler if something crashed
\* before it, and a report on disk comes with a crash state that says so
\* (sentrycrashcm_notifyFatalExceptionCaptured, notifyAppCrash).
THEOREM CrashesAreJudged == Spec => []CrashIsJudged
<1>1. ASSUME IndInv PROVE CrashIsJudged
  <2>1. ASSUME NEW k \in DOMAIN core.context, core.context[k]
        PROVE  hist.crashes > 1 \/ hist.installs > 1
    <3>1. /\ DOMAIN core.context = MonitorTypeDebuggerUnsafe
          /\ hist.crashes \in Nat /\ hist.installs \in Nat
      BY <1>1, TypeParts DEF IndInv, CoreType, HistType
    <3>2. core.recrashed
      BY <1>1, <2>1, <3>1 DEF IndInv, Flags
    <3>3. QED
      BY <1>1, <3>1, <3>2 DEF IndInv, Once
  <2>2. ASSUME DOMAIN disk.dir # {}, Alone, ~hist.closed PROVE disk.crashState
    <3>1. Few
      BY <1>1, <2>2, AloneFew DEF IndInv
    <3>2. QED
      BY <1>1, <2>2, <3>1 DEF IndInv, Files, CrashState
  <2>3. QED
    BY <2>1, <2>2 DEF CrashIsJudged
<1>2. QED
  BY <1>1, IndInvariant, PTL
=============================================================================
