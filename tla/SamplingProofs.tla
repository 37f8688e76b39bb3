---------------------------- MODULE SamplingProofs ----------------------------
(***************************************************************************)
(* Proofs about SamplingProfiler, for any number of threads, handles,      *)
(* clients, starts and threads that come and go.                           *)
(***************************************************************************)
EXTENDS SamplingProfiler, TLAPS

(* The steps that visit one thread.                                        *)
Visiting == {"deliver", "metadata", "bounds", "suspend", "walk"}

Steps == {"none", "ended", "start", "test", "receive", "alarm", "list", "next"} \cup Visiting

Typed ==
    /\ app \in [Threads -> [handle : Handles \cup {NoHandle}, idle : BOOLEAN, suspended : Int]]
    /\ profiler \in [isInitialized : BOOLEAN, isSampling : BOOLEAN, owner : Clients \cup {Free},
                     starts : Nat, numSamples : Nat]
    /\ client \in [Clients -> {"idle", "create", "alarm", "join"}]
    /\ sampler \in [step : Steps, cancelled : BOOLEAN, held : SUBSET Handles, todo : SUBSET Handles,
                    target : Handles \cup {NoHandle}, bounds : BOOLEAN]

(* No two threads have one handle.                                         *)
OwnHandles == \A t, u \in Threads : Alive(t) /\ app[t].handle = app[u].handle => t = u

(* What the sampler visits it holds.                                       *)
HeldIsVisited ==
    /\ sampler.step = "next" \/ sampler.step \in Visiting => sampler.todo \subseteq sampler.held
    /\ sampler.step \in Visiting => sampler.target \in sampler.held

(* Only the thread whose stack is read is suspended, and it is there.      *)
WalkedIsSuspended ==
    /\ \A t \in Threads : app[t].suspended = IF At("walk") /\ app[t].handle = sampler.target THEN 1 ELSE 0
    /\ At("walk") => \E t \in Threads : app[t].handle = sampler.target

(* One client at a time is inside start or stop, and a thread is only made *)
(* when there is none.                                                     *)
OneClient ==
    /\ \A c \in Clients : client[c] # "idle" <=> profiler.owner = c
    /\ \A c \in Clients : client[c] # "idle" => profiler.isSampling
    /\ \A c \in Clients : client[c] = "create" => sampler.step = "none"
    /\ ~profiler.isSampling => sampler.step = "none"

(* The inductive invariant.                                                *)
IndInv == Typed /\ OwnHandles /\ HeldIsVisited /\ WalkedIsSuspended /\ OneClient

-----------------------------------------------------------------------------
(* The thread of a handle is the one that has it.                          *)
LEMMA ThreadOfHandle ==
    ASSUME OwnHandles, NEW h \in Handles
    PROVE  /\ ThreadOf(h) \in Threads \cup {NoThread}
           /\ \A t \in Threads : app[t].handle = h <=> ThreadOf(h) = t
           /\ ThreadOf(h) = NoThread <=> ~\E t \in Threads : app[t].handle = h
<1> USE SamplingProfilerAssumption
<1>1. CASE \E t \in Threads : app[t].handle = h
  <2>1. ThreadOf(h) \in Threads /\ app[ThreadOf(h)].handle = h
    BY <1>1 DEF ThreadOf
  <2>2. \A t \in Threads : app[t].handle = h => t = ThreadOf(h)
    BY <2>1 DEF OwnHandles, Alive
  <2>3. QED
    BY <1>1, <2>1, <2>2
<1>2. CASE ~\E t \in Threads : app[t].handle = h
  <2>1. ThreadOf(h) = NoThread
    BY <1>2 DEF ThreadOf
  <2>2. QED
    BY <1>2, <2>1
<1>3. QED
  BY <1>1, <1>2

(* The profiler begins quiet.                                              *)
LEMMA InitInd == Init => IndInv
<1> SUFFICES ASSUME Init PROVE IndInv
  OBVIOUS
<1> USE SamplingProfilerAssumption
<1>1. Typed
  <2>1. app \in [Threads -> [handle : Handles \cup {NoHandle}, idle : BOOLEAN, suspended : Int]]
    BY DEF Init
  <2>2. profiler \in [isInitialized : BOOLEAN, isSampling : BOOLEAN, owner : Clients \cup {Free},
                     starts : Nat, numSamples : Nat]
    <3>1. profiler \in [isInitialized : BOOLEAN, isSampling : {FALSE}, owner : {Free}, starts : {0},
                       numSamples : {0}]
      BY DEF Init
    <3>2. 0 \in Nat /\ FALSE \in BOOLEAN
      OBVIOUS
    <3>3. QED
      BY <3>1, <3>2, Zenon
  <2>3. client \in [Clients -> {"idle", "create", "alarm", "join"}]
    BY DEF Init
  <2>4. sampler \in [step : Steps, cancelled : BOOLEAN, held : SUBSET Handles, todo : SUBSET Handles,
                    target : Handles \cup {NoHandle}, bounds : BOOLEAN]
    BY DEF Init, Steps
  <2>5. QED
    BY <2>1, <2>2, <2>3, <2>4 DEF Typed
<1>2. OwnHandles /\ WalkedIsSuspended
  BY DEF Init, OwnHandles, Alive, WalkedIsSuspended, At
<1>3. HeldIsVisited /\ OneClient
  BY DEF Init, HeldIsVisited, Visiting, OneClient
<1>4. QED
  BY <1>1, <1>2, <1>3 DEF IndInv

(* The threads of the app: none of them is suspended when it takes a step, *)
(* and a handle that the sampler holds stays with its thread.              *)
LEMMA AppNext ==
    ASSUME IndInv, NEW t \in Threads,
           (\E h \in Handles : Spawn(t, h)) \/ Exit(t) \/ Blocks(t) \/ Lock(t) \/ Unlock(t)
    PROVE  IndInv'
<1> USE SamplingProfilerAssumption DEF IndInv
<1>1. At("walk") => sampler.target \in sampler.held /\ sampler.target # NoHandle
  BY DEF HeldIsVisited, Typed, At, Visiting
<1>2. ASSUME NEW h \in Handles, Spawn(t, h) PROVE IndInv'
  <2>1. app' = [app EXCEPT ![t] = [handle |-> h, idle |-> FALSE, suspended |-> 0]]
        /\ UNCHANGED <<profiler, client, sampler>> /\ h \notin sampler.held
        /\ app[t].handle = NoHandle /\ \A u \in Threads : app[u].handle # h
    BY <1>2, ThreadOfHandle DEF Spawn, Alive
  <2>2. Typed'
    BY <2>1 DEF Typed
  <2>3. OwnHandles'
    BY <2>1 DEF OwnHandles, Alive, Typed
  <2>4. HeldIsVisited' /\ OneClient'
    BY <2>1 DEF HeldIsVisited, OneClient
  <2>5. WalkedIsSuspended'
    BY <1>1, <2>1 DEF WalkedIsSuspended, Typed, At
  <2>6. QED
    BY <2>2, <2>3, <2>4, <2>5
<1>3. CASE Exit(t)
  <2>1. app' = [app EXCEPT ![t].handle = NoHandle] /\ UNCHANGED <<profiler, client, sampler>>
        /\ app[t].handle # NoHandle /\ app[t].suspended = 0
    BY <1>3 DEF Exit, Runs, Alive
  <2>2. Typed'
    BY <2>1 DEF Typed
  <2>3. OwnHandles'
    BY <2>1 DEF OwnHandles, Alive, Typed
  <2>4. HeldIsVisited' /\ OneClient'
    BY <2>1 DEF HeldIsVisited, OneClient
  <2>5. WalkedIsSuspended'
    BY <1>1, <2>1 DEF WalkedIsSuspended, Typed, At
  <2>6. QED
    BY <2>2, <2>3, <2>4, <2>5
<1>4. CASE Blocks(t)
  <2>1. app' = [app EXCEPT ![t].idle = ~@] /\ UNCHANGED <<profiler, client, sampler>>
    BY <1>4 DEF Blocks
  <2>2. \A u \in Threads : app'[u].handle = app[u].handle /\ app'[u].suspended = app[u].suspended
    BY <2>1 DEF Typed
  <2>3. Typed'
    <3>1. PICK v \in BOOLEAN : app' = [app EXCEPT ![t].idle = v]
      BY <2>1, Zenon
    <3>2. ASSUME NEW b \in BOOLEAN
          PROVE  [app EXCEPT ![t].idle = b]
                   \in [Threads -> [handle : Handles \cup {NoHandle}, idle : BOOLEAN, suspended : Int]]
      BY DEF Typed
    <3>3. app' \in [Threads -> [handle : Handles \cup {NoHandle}, idle : BOOLEAN, suspended : Int]]
      BY <3>1, <3>2
    <3>4. QED
      BY <2>1, <3>3 DEF Typed
  <2>4. OwnHandles' /\ WalkedIsSuspended'
    BY <2>1, <2>2 DEF OwnHandles, Alive, WalkedIsSuspended, At
  <2>5. HeldIsVisited' /\ OneClient'
    BY <2>1 DEF HeldIsVisited, OneClient
  <2>6. QED
    BY <2>3, <2>4, <2>5
<1>5. CASE Lock(t) \/ Unlock(t)
  BY <1>5 DEF Lock, Unlock, Typed, OwnHandles, Alive, HeldIsVisited, WalkedIsSuspended, At, OneClient
<1>6. QED
  BY <1>2, <1>3, <1>4, <1>5

(* The clients: a thread is made only when there is none, and stop leaves  *)
(* none behind.                                                            *)
LEMMA ClientNext ==
    ASSUME IndInv, NEW c \in Clients, StartSampling(c) \/ StopSampling(c) \/ ClientStep(c)
    PROVE  IndInv'
<1> USE SamplingProfilerAssumption DEF IndInv
<1>1. UNCHANGED app /\ (OwnHandles => OwnHandles')
  BY DEF StartSampling, StopSampling, ClientStep, CreateThread, FirstAlarm, Join, OwnHandles, Alive
<1>2. CASE StartSampling(c)
  <2>1. Typed'
    <3>1. profiler.starts + 1 \in Nat /\ 0 \in Nat
      BY DEF Typed
    <3>2. ASSUME NEW m \in Nat, NEW n \in Nat
          PROVE  [profiler EXCEPT !.isSampling = TRUE, !.owner = c, !.starts = m, !.numSamples = n]
                   \in [isInitialized : BOOLEAN, isSampling : BOOLEAN, owner : Clients \cup {Free},
                       starts : Nat, numSamples : Nat]
      BY DEF Typed
    <3>3. profiler' \in [isInitialized : BOOLEAN, isSampling : BOOLEAN, owner : Clients \cup {Free},
                        starts : Nat, numSamples : Nat]
      BY <1>2, <3>1, <3>2 DEF StartSampling
    <3>4. QED
      BY <1>1, <1>2, <3>3 DEF StartSampling, Typed
  <2>2. OneClient'
    BY <1>2 DEF StartSampling, OneClient, Typed
  <2>3. HeldIsVisited' /\ WalkedIsSuspended'
    BY <1>1, <1>2 DEF StartSampling, HeldIsVisited, WalkedIsSuspended, At
  <2>4. QED
    BY <1>1, <2>1, <2>2, <2>3
<1>3. CASE CreateThread(c)
  <2>1. sampler.step = "none"
    BY <1>3 DEF CreateThread, OneClient
  <2>2. Typed'
    <3>1. sampler' \in [step : Steps, cancelled : BOOLEAN, held : SUBSET Handles, todo : SUBSET Handles,
                       target : Handles \cup {NoHandle}, bounds : BOOLEAN]
      <4>1. CASE sampler' = [sampler EXCEPT !.step = "start", !.cancelled = FALSE]
        BY <4>1 DEF Typed, Steps
      <4>2. CASE sampler' = sampler
        BY <4>2 DEF Typed
      <4>3. QED
        BY <1>3, <4>1, <4>2 DEF CreateThread
    <3>2. profiler' \in [isInitialized : BOOLEAN, isSampling : BOOLEAN, owner : Clients \cup {Free},
                        starts : Nat, numSamples : Nat]
      BY <1>3 DEF CreateThread, Typed
    <3>3. QED
      BY <1>1, <1>3, <3>1, <3>2 DEF CreateThread, Typed
  <2>3. OneClient'
    BY <1>3, <2>1 DEF CreateThread, OneClient, Typed
  <2>4. HeldIsVisited' /\ WalkedIsSuspended'
    <3>1. sampler'.step \in {"none", "start"}
      BY <1>3, <2>1 DEF CreateThread, Typed
    <3>2. QED
      BY <1>1, <2>1, <3>1 DEF HeldIsVisited, WalkedIsSuspended, At, Visiting
  <2>5. QED
    BY <1>1, <2>2, <2>3, <2>4
<1>4. CASE FirstAlarm(c)
  <2>1. Typed'
    BY <1>1, <1>4 DEF FirstAlarm, Typed
  <2>2. OneClient'
    BY <1>4 DEF FirstAlarm, OneClient, Typed
  <2>3. HeldIsVisited' /\ WalkedIsSuspended'
    BY <1>1, <1>4 DEF FirstAlarm, HeldIsVisited, WalkedIsSuspended, At
  <2>4. QED
    BY <1>1, <2>1, <2>2, <2>3
<1>5. CASE StopSampling(c)
  <2>1. /\ sampler' = [sampler EXCEPT !.cancelled = sampler.step \notin {"none", "ended"}]
        /\ profiler' = [profiler EXCEPT !.owner = c] /\ client' = [client EXCEPT ![c] = "join"]
        /\ profiler.isSampling /\ profiler.owner = Free
    BY <1>5 DEF StopSampling, Cancels
  <2>2. /\ sampler'.step = sampler.step /\ sampler'.held = sampler.held
        /\ sampler'.todo = sampler.todo /\ sampler'.target = sampler.target
    BY <2>1 DEF Typed
  <2>3. Typed'
    BY <1>1, <2>1 DEF Typed
  <2>4. OneClient'
    BY <2>1, <2>2 DEF OneClient, Typed
  <2>5. HeldIsVisited' /\ WalkedIsSuspended'
    BY <1>1, <2>2 DEF HeldIsVisited, WalkedIsSuspended, At
  <2>6. QED
    BY <1>1, <2>3, <2>4, <2>5
<1>6. CASE Join(c)
  <2>1. Typed'
    BY <1>1, <1>6 DEF Join, Typed, Steps
  <2>2. OneClient'
    BY <1>6 DEF Join, OneClient, Typed
  <2>3. HeldIsVisited' /\ WalkedIsSuspended'
    BY <1>1, <1>6 DEF Join, HeldIsVisited, WalkedIsSuspended, At, Typed, Visiting
  <2>4. QED
    BY <1>1, <2>1, <2>2, <2>3
<1>7. QED
  BY <1>2, <1>3, <1>4, <1>5, <1>6 DEF ClientStep

(* The steps of the sampler that suspend and resume no thread, and leave   *)
(* the walk alone.                                                         *)
LEMMA SamplerMoves ==
    ASSUME IndInv, UNCHANGED <<app, client>>, ~At("walk"), sampler.step # "none",
           sampler' \in [step : Steps, cancelled : BOOLEAN, held : SUBSET Handles, todo : SUBSET Handles,
                         target : Handles \cup {NoHandle}, bounds : BOOLEAN],
           sampler'.step \notin {"none", "walk"}, HeldIsVisited',
           profiler' \in [isInitialized : BOOLEAN, isSampling : BOOLEAN, owner : Clients \cup {Free},
                          starts : Nat, numSamples : Nat],
           profiler'.isSampling = profiler.isSampling, profiler'.owner = profiler.owner
    PROVE  IndInv'
<1>1. Typed'
  BY DEF IndInv, Typed
<1>2. OwnHandles'
  BY DEF IndInv, OwnHandles, Alive
<1>3. WalkedIsSuspended'
  BY DEF IndInv, WalkedIsSuspended, At
<1>4. OneClient'
  BY DEF IndInv, OneClient
<1>5. QED
  BY <1>1, <1>2, <1>3, <1>4 DEF IndInv

(* The sampler: it suspends the one thread that has the handle it visits,  *)
(* which is there until it resumes it.                                     *)
LEMMA SamplerNext ==
    ASSUME IndInv, SamplerStep \/ ReceiveFails
    PROVE  IndInv'
<1> USE SamplingProfilerAssumption
<1>1. CASE StartThread \/ TestCancel \/ Receive \/ ReceiveFails \/ Metadata \/ Deliver
  <2>1. PICK s \in {"test", "ended", "receive", "alarm", "next", "bounds"} :
          /\ sampler' = [sampler EXCEPT !.step = s] /\ UNCHANGED <<app, client, profiler>>
          /\ s \in {"next", "bounds"} => sampler.step \in Visiting
          /\ sampler.step \in {"start", "test", "receive", "metadata", "deliver"}
    BY <1>1 DEF StartThread, TestCancel, Receive, ReceiveFails, Metadata, Deliver, Goes, At, Visiting
  <2>2. HeldIsVisited'
    BY <2>1 DEF IndInv, Typed, HeldIsVisited, Visiting
  <2>3. sampler' \in [step : Steps, cancelled : BOOLEAN, held : SUBSET Handles, todo : SUBSET Handles,
                      target : Handles \cup {NoHandle}, bounds : BOOLEAN]
    BY <2>1 DEF IndInv, Typed, Steps, Visiting
  <2>4. sampler'.step \notin {"none", "walk"}
    BY <2>1 DEF IndInv, Typed
  <2>5. QED
    BY <2>1, <2>2, <2>3, <2>4, SamplerMoves DEF IndInv, Typed, At
<1>2. CASE NextAlarm
  <2>1. PICK s \in {"list", "ended"}, n \in Nat :
          /\ sampler' = [sampler EXCEPT !.step = s] /\ UNCHANGED <<app, client>>
          /\ profiler' = [profiler EXCEPT !.numSamples = n]
    <3>1. (IF profiler.numSamples < MaxSamples THEN profiler.numSamples + 1 ELSE profiler.numSamples) \in Nat
      BY DEF IndInv, Typed
    <3>2. profiler = [profiler EXCEPT !.numSamples = profiler.numSamples] /\ profiler.numSamples \in Nat
      BY DEF IndInv, Typed
    <3>3. QED
      BY <1>2, <3>1, <3>2 DEF NextAlarm, Goes
  <2>2. HeldIsVisited' /\ sampler'.step \notin {"none", "walk"}
    BY <2>1 DEF IndInv, Typed, HeldIsVisited, Visiting
  <2>3. sampler' \in [step : Steps, cancelled : BOOLEAN, held : SUBSET Handles, todo : SUBSET Handles,
                      target : Handles \cup {NoHandle}, bounds : BOOLEAN]
    BY <2>1 DEF IndInv, Typed, Steps, Visiting
  <2>4. profiler' \in [isInitialized : BOOLEAN, isSampling : BOOLEAN, owner : Clients \cup {Free},
                       starts : Nat, numSamples : Nat]
        /\ profiler'.isSampling = profiler.isSampling /\ profiler'.owner = profiler.owner
    BY <2>1 DEF IndInv, Typed
  <2>5. sampler.step = "alarm"
    BY <1>2 DEF NextAlarm, At
  <2>6. QED
    BY <2>1, <2>2, <2>3, <2>4, <2>5, SamplerMoves DEF At
<1>3. CASE AllThreads
  <2>1. PICK live \in SUBSET Handles :
          /\ sampler' = [sampler EXCEPT !.step = "next", !.held = live, !.todo = live]
          /\ UNCHANGED <<app, client, profiler>> /\ sampler.step = "list"
    <3>1. {app[t].handle : t \in {x \in Threads : Alive(x)}} \in SUBSET Handles
      BY DEF Alive, IndInv, Typed
    <3>2. QED
      BY <1>3, <3>1, Zenon DEF AllThreads, At
  <2>2. HeldIsVisited' /\ sampler'.step \notin {"none", "walk"}
    BY <2>1 DEF IndInv, Typed, HeldIsVisited, Visiting
  <2>3. sampler' \in [step : Steps, cancelled : BOOLEAN, held : SUBSET Handles, todo : SUBSET Handles,
                      target : Handles \cup {NoHandle}, bounds : BOOLEAN]
    BY <2>1 DEF IndInv, Typed, Steps, Visiting
  <2>4. QED
    BY <2>1, <2>2, <2>3, SamplerMoves DEF IndInv, Typed, At
<1>4. ASSUME NEW h \in Handles, NextThread(h) PROVE IndInv'
  <2>1. PICK s \in {"deliver", "metadata"} :
          /\ sampler' = [sampler EXCEPT !.todo = @ \ {h}, !.target = h, !.bounds = FALSE, !.step = s]
          /\ UNCHANGED <<app, client, profiler>> /\ sampler.step = "next" /\ h \in sampler.todo
    BY <1>4 DEF NextThread, At
  <2>2. HeldIsVisited' /\ sampler'.step \notin {"none", "walk"}
    BY <2>1 DEF IndInv, Typed, HeldIsVisited, Visiting
  <2>3. sampler' \in [step : Steps, cancelled : BOOLEAN, held : SUBSET Handles, todo : SUBSET Handles,
                      target : Handles \cup {NoHandle}, bounds : BOOLEAN]
    BY <2>1 DEF IndInv, Typed, Steps, Visiting
  <2>4. QED
    BY <2>1, <2>2, <2>3, SamplerMoves DEF IndInv, Typed, At
<1>5. CASE LastThread
  <2>1. /\ sampler' = [sampler EXCEPT !.step = "test", !.held = {}, !.target = NoHandle]
        /\ UNCHANGED <<app, client, profiler>> /\ sampler.step = "next"
    BY <1>5 DEF LastThread, At
  <2>2. HeldIsVisited' /\ sampler'.step \notin {"none", "walk"}
    BY <2>1 DEF IndInv, Typed, HeldIsVisited, Visiting
  <2>3. sampler' \in [step : Steps, cancelled : BOOLEAN, held : SUBSET Handles, todo : SUBSET Handles,
                      target : Handles \cup {NoHandle}, bounds : BOOLEAN]
    BY <2>1 DEF IndInv, Typed, Steps, Visiting
  <2>4. QED
    BY <2>1, <2>2, <2>3, SamplerMoves DEF IndInv, Typed, At
<1>6. CASE Bounds
  <2>1. PICK b \in BOOLEAN :
          /\ sampler' = [sampler EXCEPT !.step = "suspend", !.bounds = b]
          /\ UNCHANGED <<app, client, profiler>> /\ sampler.step = "bounds"
    BY <1>6, Zenon DEF Bounds, At
  <2>2. HeldIsVisited' /\ sampler'.step \notin {"none", "walk"}
    BY <2>1 DEF IndInv, Typed, HeldIsVisited, Visiting
  <2>3. sampler' \in [step : Steps, cancelled : BOOLEAN, held : SUBSET Handles, todo : SUBSET Handles,
                      target : Handles \cup {NoHandle}, bounds : BOOLEAN]
    BY <2>1 DEF IndInv, Typed, Steps, Visiting
  <2>4. QED
    BY <2>1, <2>2, <2>3, SamplerMoves DEF IndInv, Typed, At
<1>7. CASE Suspend
  <2> PICK h : h = sampler.target
    OBVIOUS
  <2>1. h \in Handles /\ sampler.step = "suspend"
    BY <1>7 DEF Suspend, At, IndInv, HeldIsVisited, Typed, Visiting
  <2>2. CASE ThreadOf(h) = NoThread
    <3>1. sampler' = [sampler EXCEPT !.step = "next"] /\ UNCHANGED <<app, client, profiler>>
      BY <1>7, <2>2 DEF Suspend, Goes
    <3>2. HeldIsVisited' /\ sampler'.step \notin {"none", "walk"}
      BY <2>1, <3>1 DEF IndInv, Typed, HeldIsVisited, Visiting
    <3>3. sampler' \in [step : Steps, cancelled : BOOLEAN, held : SUBSET Handles, todo : SUBSET Handles,
                        target : Handles \cup {NoHandle}, bounds : BOOLEAN]
      BY <3>1 DEF IndInv, Typed, Steps, Visiting
    <3>4. QED
      BY <2>1, <3>1, <3>2, <3>3, SamplerMoves DEF IndInv, Typed, At
  <2>3. CASE ThreadOf(h) # NoThread
    <3>1. PICK t \in Threads : t = ThreadOf(h) /\ \A u \in Threads : app[u].handle = h <=> u = t
      BY <2>1, <2>3, ThreadOfHandle DEF IndInv
    <3>2. /\ app' = [app EXCEPT ![t].suspended = @ + 1] /\ sampler' = [sampler EXCEPT !.step = "walk"]
          /\ UNCHANGED <<client, profiler>>
      BY <1>7, <2>3, <3>1 DEF Suspend, Goes, ThreadSuspend
    <3>3. app[t].suspended + 1 = 1 /\ \A u \in Threads : app[u].suspended = 0
      BY <2>1, <3>1 DEF IndInv, WalkedIsSuspended, At
    <3>4. app' = [app EXCEPT ![t].suspended = 1]
      BY <3>2, <3>3
    <3>5. app' \in [Threads -> [handle : Handles \cup {NoHandle}, idle : BOOLEAN, suspended : Int]]
      BY <3>4 DEF IndInv, Typed
    <3>6. \A u \in Threads : app'[u].handle = app[u].handle
      BY <3>4 DEF IndInv, Typed
    <3>7. \A u \in Threads : app'[u].suspended = IF u = t THEN 1 ELSE 0
      BY <3>3, <3>4 DEF IndInv, Typed
    <3>8. sampler'.step = "walk" /\ sampler'.target = h /\ sampler'.held = sampler.held
          /\ sampler'.todo = sampler.todo
      BY <3>2 DEF IndInv, Typed
    <3>9. sampler' \in [step : Steps, cancelled : BOOLEAN, held : SUBSET Handles, todo : SUBSET Handles,
                        target : Handles \cup {NoHandle}, bounds : BOOLEAN]
      BY <3>2 DEF IndInv, Typed, Steps, Visiting
    <3>10. Typed'
      BY <3>2, <3>5, <3>9 DEF IndInv, Typed
    <3>11. OwnHandles'
      BY <3>6 DEF IndInv, OwnHandles, Alive
    <3>12. HeldIsVisited'
      BY <2>1, <3>8 DEF IndInv, HeldIsVisited, Visiting
    <3>13. WalkedIsSuspended'
      BY <3>1, <3>6, <3>7, <3>8 DEF WalkedIsSuspended, At
    <3>14. OneClient'
      BY <2>1, <3>2, <3>8 DEF IndInv, OneClient
    <3>15. QED
      BY <3>10, <3>11, <3>12, <3>13, <3>14 DEF IndInv
  <2>4. QED
    BY <2>2, <2>3
<1>8. CASE Walk
  <2> PICK h : h = sampler.target
    OBVIOUS
  <2>1. h \in Handles /\ sampler.step = "walk"
    BY <1>8 DEF Walk, At, IndInv, HeldIsVisited, Typed, Visiting
  <2>2. PICK t \in Threads : t = ThreadOf(h) /\ \A u \in Threads : app[u].handle = h <=> u = t
    BY <2>1, ThreadOfHandle DEF IndInv, WalkedIsSuspended, At
  <2>3. PICK s \in {"deliver", "next"} :
          /\ app' = [app EXCEPT ![t].suspended = @ - 1] /\ sampler' = [sampler EXCEPT !.step = s]
          /\ UNCHANGED <<client, profiler>>
    BY <1>8, <2>2 DEF Walk, ThreadResume
  <2>4. app[t].suspended - 1 = 0 /\ \A u \in Threads : u # t => app[u].suspended = 0
    BY <2>1, <2>2 DEF IndInv, WalkedIsSuspended, At
  <2>5. app' = [app EXCEPT ![t].suspended = 0]
    BY <2>3, <2>4
  <2>6. app' \in [Threads -> [handle : Handles \cup {NoHandle}, idle : BOOLEAN, suspended : Int]]
    BY <2>5 DEF IndInv, Typed
  <2>7. \A u \in Threads : app'[u].handle = app[u].handle /\ app'[u].suspended = 0
    BY <2>4, <2>5 DEF IndInv, Typed
  <2>8. sampler'.step = s /\ sampler'.target = h /\ sampler'.held = sampler.held
        /\ sampler'.todo = sampler.todo
    BY <2>3 DEF IndInv, Typed
  <2>9. sampler' \in [step : Steps, cancelled : BOOLEAN, held : SUBSET Handles, todo : SUBSET Handles,
                      target : Handles \cup {NoHandle}, bounds : BOOLEAN]
    BY <2>3 DEF IndInv, Typed, Steps, Visiting
  <2>10. Typed'
    BY <2>3, <2>6, <2>9 DEF IndInv, Typed
  <2>11. OwnHandles'
    BY <2>7 DEF IndInv, OwnHandles, Alive
  <2>12. HeldIsVisited'
    BY <2>1, <2>8 DEF IndInv, HeldIsVisited, Visiting
  <2>13. WalkedIsSuspended'
    BY <2>7, <2>8 DEF WalkedIsSuspended, At
  <2>14. OneClient'
    BY <2>1, <2>3, <2>8 DEF IndInv, OneClient
  <2>15. QED
    BY <2>10, <2>11, <2>12, <2>13, <2>14 DEF IndInv
<1>9. QED
  BY <1>1, <1>2, <1>3, <1>4, <1>5, <1>6, <1>7, <1>8 DEF SamplerStep

(* IndInv is inductive.                                                    *)
LEMMA Invariance == IndInv /\ [Next]_vars => IndInv'
<1> SUFFICES ASSUME IndInv, [Next]_vars PROVE IndInv'
  OBVIOUS
<1>1. CASE Destroy \/ AlarmRings \/ UNCHANGED vars
  <2>1. UNCHANGED <<app, client, sampler>>
    BY <1>1 DEF Destroy, AlarmRings, vars
  <2>2. profiler' \in {profiler, [profiler EXCEPT !.isInitialized = FALSE]}
    BY <1>1 DEF Destroy, AlarmRings, vars
  <2>3. profiler'.isSampling = profiler.isSampling /\ profiler'.owner = profiler.owner
    BY <2>2 DEF IndInv, Typed
  <2>4. Typed'
    BY <2>1, <2>2 DEF IndInv, Typed
  <2>5. QED
    BY <2>1, <2>3, <2>4 DEF IndInv, OwnHandles, Alive, HeldIsVisited, WalkedIsSuspended, At, OneClient
<1>2. QED
  BY <1>1, AppNext, ClientNext, SamplerNext DEF Next

(***************************************************************************)
(* No thread of the app is suspended but the one whose stack is being      *)
(* read, and none once stopSampling has returned, whatever the sampler was *)
(* doing when it was cancelled and whichever threads exited or reused a    *)
(* handle meanwhile.                                                       *)
(***************************************************************************)
THEOREM StoppedIsQuiet == Spec => []QuietWhenStopped
<1>1. IndInv => QuietWhenStopped
  <2> SUFFICES ASSUME IndInv PROVE QuietWhenStopped
    OBVIOUS
  <2>1. profiler.owner = Free /\ ~profiler.isSampling => sampler.step = "none"
    BY DEF IndInv, OneClient
  <2>2. CASE ~At("walk")
    BY <2>1, <2>2 DEF IndInv, WalkedIsSuspended, QuietWhenStopped
  <2>3. CASE At("walk")
    <3> PICK h : h = sampler.target
      OBVIOUS
    <3>1. h \in Handles
      BY <2>3 DEF At, IndInv, HeldIsVisited, Typed, Visiting
    <3>2. \A t \in Threads : app[t].handle = h <=> ThreadOf(h) = t
      BY <3>1, ThreadOfHandle DEF IndInv
    <3>3. QED
      BY <2>1, <2>3, <3>2 DEF IndInv, WalkedIsSuspended, QuietWhenStopped
  <2>4. QED
    BY <2>2, <2>3
<1>2. QED
  BY <1>1, InitInd, Invariance, PTL DEF Spec
=============================================================================
