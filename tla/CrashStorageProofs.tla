-------------------------- MODULE CrashStorageProofs --------------------------
(***************************************************************************)
(* Proofs about what the crash handler reads without a lock (the names of  *)
(* the threads, the loaded images and the mirror of the scope) and about   *)
(* what it leaves to the next launch (the crash state and the reports).    *)
(* They hold for every list of threads, any number of monitor threads,     *)
(* images, starts and stops, any fields and threads that use the scope,    *)
(* any sizes of the ring of breadcrumbs, and any number of launches and    *)
(* of reports.                                                             *)
(***************************************************************************)
EXTENDS CrashReportStore, BinaryImageCache, ThreadCache, Scope, ScopeSync, Breadcrumbs,
        FiniteSetTheorems, SequenceTheorems, WellFoundedInduction, TLAPS

(***************************************************************************)
(* Names of threads.  An array is live when it was made and not freed, and *)
(* two arrays are twins when both are live with the same data.             *)
(***************************************************************************)
UpdateSteps == {"count", "mach", "names", "grow", "free"}

ThreadsTyped ==
    /\ arrays \in Seq([data : Seq(Nat), freed : BOOLEAN])
    /\ monitor \in [Monitors -> [state : {"new", "runs", "cancelled", "ended"},
                                 step : UpdateSteps \cup {"idle"}, mach : Nat, new : Nat]]
    /\ machThreads \in Nat /\ threadNames \in Nat /\ staticNames \in Nat /\ threadsCount \in Nat
    /\ hasThreadStarted \in Monitors \cup {Nobody}
    /\ overlapped \in BOOLEAN

Live(a) == a \in DOMAIN arrays /\ ~arrays[a].freed

Twins(a, b) == Live(a) /\ Live(b) /\ a # b /\ arrays[a].data = arrays[b].data

(* Before the first update there are no arrays.                            *)
Pair(a, b, n) ==
    \/ a = NoArray /\ b = NoArray /\ n = 0
    \/ Twins(a, b) /\ n <= Len(arrays[a].data)

(* One update at a time.                                                   *)
Alone == \A m, o \in Monitors : monitor[m].step # "idle" /\ monitor[o].step # "idle" => m = o

(* Where an update is: which pair is published and which one is not.       *)
Unpublished(m) ==
    /\ Twins(monitor[m].mach, staticNames) /\ monitor[m].new = Len(arrays[staticNames].data)
    /\ {monitor[m].mach, staticNames} \cap {machThreads, threadNames} = {}
    /\ Pair(machThreads, threadNames, threadsCount)

Half(m) ==
    /\ Twins(machThreads, staticNames) /\ monitor[m].new = Len(arrays[staticNames].data)
    /\ {machThreads, staticNames} \cap {monitor[m].mach, threadNames} = {}
    /\ Pair(monitor[m].mach, threadNames, threadsCount)

Published(m) ==
    /\ Twins(machThreads, threadNames) /\ monitor[m].new = Len(arrays[threadNames].data)
    /\ {monitor[m].mach, staticNames} \cap {machThreads, threadNames} = {}

AtStep(m) ==
    /\ monitor[m].step = "count" => Unpublished(m)
    /\ monitor[m].step = "mach" => Unpublished(m) /\ threadsCount <= monitor[m].new
    /\ monitor[m].step = "names" => Half(m) /\ threadsCount <= monitor[m].new
    /\ monitor[m].step = "grow" => Published(m) /\ threadsCount <= monitor[m].new
    /\ monitor[m].step = "free" => Published(m) /\ threadsCount <= monitor[m].new

(* The inductive invariant.                                                *)
ThreadsInd ==
    /\ ThreadsTyped
    /\ ~overlapped =>
           /\ Alone
           /\ \A m \in Monitors : AtStep(m)
           /\ (\A m \in Monitors : monitor[m].step = "idle") => Pair(machThreads, threadNames, threadsCount)

(* A set of naturals has a least element.                                  *)
LEMMA LeastElement ==
    ASSUME NEW S \in SUBSET Nat, S # {}
    PROVE  \E i \in S : \A j \in S : i <= j
<1> DEFINE R == {ss \in Nat \X Nat : ss[1] < ss[2]}
<1>1. IsWellFoundedOn(R, Nat)
  BY NatLessThanWellFounded DEF OpToRel
<1>2. \A i, j \in Nat : <<j, i>> \in R <=> j < i
  OBVIOUS
<1> HIDE DEF R
<1>3. PICK i \in S : \A j \in S : ~(<<j, i>> \in R)
  BY <1>1, WFMin
<1>4. ASSUME NEW j \in S PROVE i <= j
  <2>1. i \in Nat /\ j \in Nat /\ ~(<<j, i>> \in R)
    BY <1>3
  <2>2. ~(j < i)
    BY <1>2, <2>1
  <2>3. QED
    BY <2>1, <2>2
<1>5. QED
  BY <1>4

(* What is read of an array.                                               *)
LEMMA ArrayFacts ==
    ASSUME ThreadsTyped
    PROVE  /\ Len(arrays) \in Nat /\ DOMAIN arrays = 1 .. Len(arrays)
           /\ \A i \in DOMAIN arrays : /\ arrays[i] \in [data : Seq(Nat), freed : BOOLEAN]
                                       /\ Len(arrays[i].data) \in Nat
<1>1. arrays \in Seq([data : Seq(Nat), freed : BOOLEAN])
  BY DEF ThreadsTyped
<1>2. Len(arrays) \in Nat /\ DOMAIN arrays = 1 .. Len(arrays)
      /\ \A i \in 1 .. Len(arrays) : arrays[i] \in [data : Seq(Nat), freed : BOOLEAN]
  BY <1>1, ElementOfSeq, LenProperties
<1>3. \A i \in DOMAIN arrays : arrays[i].data \in Seq(Nat)
  BY <1>2
<1>4. \A q \in Seq(Nat) : Len(q) \in Nat
  OBVIOUS
<1>5. QED
  BY <1>2, <1>3, <1>4

LEMMA ThreadsInitInd == ThreadsInit => ThreadsInd
<1> SUFFICES ASSUME ThreadsInit PROVE ThreadsInd
  OBVIOUS
<1>1. arrays \in Seq([data : Seq(Nat), freed : BOOLEAN])
  BY DEF ThreadsInit
<1>2. overlapped \in BOOLEAN
  BY Zenon DEF ThreadsInit
<1>3. monitor \in [Monitors -> [state : {"new", "runs", "cancelled", "ended"},
                               step : UpdateSteps \cup {"idle"}, mach : Nat, new : Nat]]
  BY DEF ThreadsInit, NoArray
<1>4. ThreadsTyped
  BY <1>1, <1>2, <1>3 DEF ThreadsInit, ThreadsTyped, NoArray
<1>5. QED
  BY <1>4 DEF ThreadsInit, ThreadsInd, Alone, AtStep, Pair

(* Steps that leave the arrays and the steps of all monitors alone.        *)
LEMMA ThreadsAside ==
    ASSUME ThreadsInd, ThreadsTyped', overlapped' = overlapped,
           UNCHANGED <<arrays, machThreads, threadNames, threadsCount, staticNames>>,
           \A m \in Monitors : /\ monitor'[m].step = monitor[m].step /\ monitor'[m].mach = monitor[m].mach
                               /\ monitor'[m].new = monitor[m].new
    PROVE  ThreadsInd'
BY DEF ThreadsInd, Alone, AtStep, Unpublished, Half, Published, Twins, Live, Pair

(* Steps of the one update that is in progress.                            *)
LEMMA UpdateNext ==
    ASSUME ThreadsInd, ThreadsTyped', overlapped' = overlapped, NEW m \in Monitors,
           monitor[m].step # "idle", \A o \in Monitors \ {m} : monitor'[o] = monitor[o],
           ~overlapped => AtStep(m)' /\ (monitor'[m].step = "idle" => Pair(machThreads, threadNames, threadsCount)')
    PROVE  ThreadsInd'
<1> SUFFICES ASSUME ~overlapped'
             PROVE  /\ Alone' /\ (\A o \in Monitors : AtStep(o)')
                    /\ (\A o \in Monitors : monitor'[o].step = "idle")
                          => Pair(machThreads, threadNames, threadsCount)'
  BY DEF ThreadsInd
<1>1. \A o \in Monitors \ {m} : monitor'[o].step = "idle"
  BY DEF ThreadsInd, Alone
<1>2. Alone'
  BY <1>1 DEF Alone
<1>3. \A o \in Monitors : AtStep(o)'
  BY <1>1 DEF AtStep
<1>4. QED
  BY <1>2, <1>3

(* Two more behind a sequence.                                             *)
LEMMA TwoBehind ==
    ASSUME NEW S, NEW s \in Seq(S), NEW a \in S
    PROVE  /\ s \o <<a, a>> \in Seq(S) /\ DOMAIN (s \o <<a, a>>) = 1 .. Len(s) + 2
           /\ (s \o <<a, a>>)[Len(s) + 1] = a /\ (s \o <<a, a>>)[Len(s) + 2] = a
           /\ \A i \in 1 .. Len(s) : (s \o <<a, a>>)[i] = s[i]
<1>1. <<a, a>> \in Seq(S) /\ Len(<<a, a>>) = 2 /\ <<a, a>>[1] = a /\ <<a, a>>[2] = a
  OBVIOUS
<1>2. PICK t \in Seq(S) : t = <<a, a>> /\ Len(t) = 2 /\ t[1] = a /\ t[2] = a
  BY <1>1
<1>3. /\ s \o t \in Seq(S) /\ Len(s \o t) = Len(s) + 2
      /\ \A i \in 1 .. Len(s) + 2 : (s \o t)[i] = IF i <= Len(s) THEN s[i] ELSE t[i - Len(s)]
  BY <1>2, ConcatProperties
<1>4. PICK n \in Nat : n = Len(s)
  OBVIOUS
<1>5. /\ n + 1 \in 1 .. n + 2 /\ n + 2 \in 1 .. n + 2 /\ ~(n + 1 <= n) /\ ~(n + 2 <= n)
      /\ n + 1 - n = 1 /\ n + 2 - n = 2
  OBVIOUS
<1>6. (s \o t)[n + 1] = a /\ (s \o t)[n + 2] = a
  BY <1>2, <1>3, <1>4, <1>5
<1>7. \A i \in 1 .. n : (s \o t)[i] = s[i]
  BY <1>3, <1>4
<1>8. DOMAIN (s \o t) = 1 .. n + 2
  BY <1>3, <1>4
<1>9. QED
  BY <1>2, <1>3, <1>4, <1>6, <1>7, <1>8

LEMMA ThreadsInvariance == ThreadsInd /\ [ThreadsNext]_threadVars => ThreadsInd'
<1> SUFFICES ASSUME ThreadsInd, [ThreadsNext]_threadVars PROVE ThreadsInd'
  OBVIOUS
<1> USE ThreadCacheAssumption
<1>1. ASSUME NEW m \in Monitors, InitThread(m) PROVE ThreadsInd'
  <2>1. ThreadsTyped'
    BY <1>1 DEF InitThread, ThreadsInd, ThreadsTyped
  <2>2. QED
    BY <1>1, <2>1, ThreadsAside DEF InitThread, ThreadsInd, ThreadsTyped
<1>2. ASSUME NEW m \in Monitors, Sleep(m) PROVE ThreadsInd'
  <2>1. ThreadsTyped'
    BY <1>2 DEF Sleep, ThreadsInd, ThreadsTyped
  <2>2. QED
    BY <1>2, <2>1, ThreadsAside DEF Sleep, ThreadsInd, ThreadsTyped
<1>3. CASE CloseThread
  <2>1. ThreadsTyped'
    BY <1>3 DEF CloseThread, ThreadsInd, ThreadsTyped
  <2>2. /\ UNCHANGED <<arrays, machThreads, threadNames, threadsCount, staticNames, overlapped>>
        /\ \A m \in Monitors : /\ monitor'[m].step = monitor[m].step /\ monitor'[m].mach = monitor[m].mach
                              /\ monitor'[m].new = monitor[m].new
    BY <1>3 DEF CloseThread, ThreadsInd, ThreadsTyped
  <2>3. QED
    BY <2>1, <2>2, ThreadsAside
<1>4. CASE Freeze \/ Unfreeze \/ UNCHANGED threadVars
  <2>1. ThreadsTyped'
    BY <1>4 DEF Freeze, Unfreeze, threadVars, ThreadsInd, ThreadsTyped
  <2>2. QED
    BY <1>4, <2>1, ThreadsAside DEF Freeze, Unfreeze, threadVars
<1>5. ASSUME NEW m \in Monitors, NEW l \in ThreadLists, BeginUpdate(m, l) PROVE ThreadsInd'
  <2> DEFINE a == [data |-> l, freed |-> FALSE]
  <2> PICK n \in Nat : n = Len(arrays)
    BY DEF ThreadsInd, ThreadsTyped
  <2>1. arrays' = arrays \o <<a, a>> /\ a \in [data : Seq(Nat), freed : BOOLEAN] /\ Len(l) \in Nat
    BY <1>5 DEF BeginUpdate
  <2>2. /\ arrays' \in Seq([data : Seq(Nat), freed : BOOLEAN]) /\ DOMAIN arrays' = 1 .. n + 2
        /\ arrays'[n + 1] = a /\ arrays'[n + 2] = a /\ \A i \in 1 .. n : arrays'[i] = arrays[i]
    <3>1. arrays \in Seq([data : Seq(Nat), freed : BOOLEAN])
      BY DEF ThreadsInd, ThreadsTyped
    <3> HIDE DEF a
    <3>2. QED
      BY <2>1, <3>1, TwoBehind
  <2> HIDE DEF a
  <2>3. /\ monitor' = [monitor EXCEPT ![m].step = "count", ![m].mach = n + 1, ![m].new = Len(l)]
        /\ staticNames' = n + 2 /\ n + 1 \in Nat /\ n + 2 \in Nat
    BY <1>5 DEF BeginUpdate
  <2>4. ThreadsTyped'
    <3>1. overlapped' \in BOOLEAN
      BY <1>5, Zenon DEF BeginUpdate
    <3>2. ASSUME NEW x \in Nat, NEW y \in Nat
          PROVE  [monitor EXCEPT ![m].step = "count", ![m].mach = x, ![m].new = y]
                   \in [Monitors -> [state : {"new", "runs", "cancelled", "ended"},
                                    step : UpdateSteps \cup {"idle"}, mach : Nat, new : Nat]]
      <4>1. ASSUME NEW r \in [state : {"new", "runs", "cancelled", "ended"},
                              step : UpdateSteps \cup {"idle"}, mach : Nat, new : Nat]
            PROVE  [r EXCEPT !.step = "count", !.mach = x, !.new = y]
                     \in [state : {"new", "runs", "cancelled", "ended"},
                          step : UpdateSteps \cup {"idle"}, mach : Nat, new : Nat]
        BY DEF UpdateSteps
      <4>2. [monitor[m] EXCEPT !.step = "count", !.mach = x, !.new = y]
              \in [state : {"new", "runs", "cancelled", "ended"},
                   step : UpdateSteps \cup {"idle"}, mach : Nat, new : Nat]
        BY <4>1 DEF ThreadsInd, ThreadsTyped
      <4>3. QED
        BY <4>2 DEF ThreadsInd, ThreadsTyped
    <3>3. monitor' \in [Monitors -> [state : {"new", "runs", "cancelled", "ended"},
                                     step : UpdateSteps \cup {"idle"}, mach : Nat, new : Nat]]
      BY <2>1, <2>3, <3>2
    <3>4. UNCHANGED <<machThreads, threadNames, threadsCount, hasThreadStarted>>
      BY <1>5 DEF BeginUpdate
    <3>5. QED
      BY <2>2, <2>3, <3>1, <3>3, <3>4 DEF ThreadsInd, ThreadsTyped
  <2>5. SUFFICES ASSUME ~overlapped'
                 PROVE  Alone' /\ (\A o \in Monitors : AtStep(o)') /\ monitor'[m].step # "idle"
    BY <2>4 DEF ThreadsInd
  <2>6. ~overlapped /\ \A o \in Monitors : monitor[o].step = "idle"
    BY <1>5, <2>5, Zenon DEF BeginUpdate
  <2>7. Pair(machThreads, threadNames, threadsCount)
    BY <2>6 DEF ThreadsInd
  <2>8. /\ \A o \in Monitors \ {m} : monitor'[o].step = "idle"
        /\ monitor'[m].step = "count" /\ monitor'[m].mach = n + 1 /\ monitor'[m].new = Len(l)
    BY <2>3, <2>6 DEF ThreadsInd, ThreadsTyped
  <2>9. UNCHANGED <<machThreads, threadNames, threadsCount>>
    BY <1>5 DEF BeginUpdate
  <2>10. {machThreads, threadNames} \subseteq 0 .. n
    BY <2>7 DEF Pair, Twins, Live, NoArray, ThreadsInd, ThreadsTyped
  <2>11. Pair(machThreads, threadNames, threadsCount)'
    <3>1. DOMAIN arrays = 1 .. n
      BY ArrayFacts DEF ThreadsInd
    <3>2. QED
      BY <2>2, <2>7, <2>9, <3>1 DEF Pair, Twins, Live, NoArray
  <2>12. Unpublished(m)'
    <3>1. a.data = l /\ ~a.freed
      BY DEF a
    <3>2. Twins(n + 1, n + 2)' /\ Len(l) = Len(arrays'[n + 2].data)
      BY <2>2, <3>1 DEF Twins, Live
    <3>3. {n + 1, n + 2} \cap {machThreads', threadNames'} = {}
      BY <2>9, <2>10
    <3>4. QED
      BY <2>3, <2>8, <2>11, <3>2, <3>3 DEF Unpublished
  <2>13. QED
    BY <2>8, <2>12 DEF Alone, AtStep
<1>6. ASSUME NEW m \in Monitors, ShrinkCount(m) PROVE ThreadsInd'
  <2>1. /\ monitor' = [monitor EXCEPT ![m].step = "mach"] /\ monitor[m].step = "count"
        /\ threadsCount' = Smaller(threadsCount, monitor[m].new)
        /\ UNCHANGED <<arrays, machThreads, threadNames, staticNames, hasThreadStarted, overlapped>>
    BY <1>6 DEF ShrinkCount
  <2>2. threadsCount' \in Nat /\ threadsCount' <= threadsCount /\ threadsCount' <= monitor[m].new
    BY <2>1 DEF Smaller, ThreadsInd, ThreadsTyped
  <2>3. ThreadsTyped'
    BY <2>1, <2>2 DEF ThreadsInd, ThreadsTyped, UpdateSteps
  <2>4. /\ monitor'[m].step = "mach" /\ monitor'[m].mach = monitor[m].mach /\ monitor'[m].new = monitor[m].new
        /\ \A o \in Monitors \ {m} : monitor'[o] = monitor[o]
    BY <2>1 DEF ThreadsInd, ThreadsTyped
  <2>5. ~overlapped => AtStep(m)'
    <3>1. ~overlapped => Unpublished(m)
      BY <2>1 DEF ThreadsInd, AtStep
    <3>2. threadsCount = 0 => threadsCount' = 0
      BY <2>2 DEF ThreadsInd, ThreadsTyped
    <3>3. ASSUME Twins(machThreads, threadNames), threadsCount <= Len(arrays[machThreads].data)
          PROVE  threadsCount' <= Len(arrays[machThreads].data)
      BY <2>2, <3>3 DEF Twins, Live, ThreadsInd, ThreadsTyped
    <3>4. QED
      BY <2>1, <2>2, <2>4, <3>1, <3>2, <3>3 DEF AtStep, Unpublished, Twins, Live, Pair
  <2>6. QED
    BY <2>1, <2>3, <2>4, <2>5, UpdateNext
<1>7. ASSUME NEW m \in Monitors, SwapMachThreads(m) PROVE ThreadsInd'
  <2>1. /\ monitor' = [monitor EXCEPT ![m].step = "names", ![m].mach = machThreads]
        /\ monitor[m].step = "mach" /\ machThreads' = monitor[m].mach
        /\ UNCHANGED <<arrays, threadNames, threadsCount, staticNames, hasThreadStarted, overlapped>>
    BY <1>7 DEF SwapMachThreads
  <2>2. ThreadsTyped'
    <3>1. monitor' \in [Monitors -> [state : {"new", "runs", "cancelled", "ended"},
                                     step : UpdateSteps \cup {"idle"}, mach : Nat, new : Nat]]
      <4>1. ASSUME NEW r \in [state : {"new", "runs", "cancelled", "ended"},
                              step : UpdateSteps \cup {"idle"}, mach : Nat, new : Nat],
                   NEW x \in Nat
            PROVE  [r EXCEPT !.step = "names", !.mach = x]
                     \in [state : {"new", "runs", "cancelled", "ended"},
                          step : UpdateSteps \cup {"idle"}, mach : Nat, new : Nat]
        BY DEF UpdateSteps
      <4>2. [monitor[m] EXCEPT !.step = "names", !.mach = machThreads]
              \in [state : {"new", "runs", "cancelled", "ended"},
                   step : UpdateSteps \cup {"idle"}, mach : Nat, new : Nat]
        BY <4>1 DEF ThreadsInd, ThreadsTyped
      <4>3. QED
        BY <2>1, <4>2 DEF ThreadsInd, ThreadsTyped
    <3>2. machThreads' \in Nat
      BY <2>1 DEF ThreadsInd, ThreadsTyped
    <3>3. QED
      BY <2>1, <3>1, <3>2 DEF ThreadsInd, ThreadsTyped
  <2>3. /\ monitor'[m].step = "names" /\ monitor'[m].mach = machThreads /\ monitor'[m].new = monitor[m].new
        /\ \A o \in Monitors \ {m} : monitor'[o] = monitor[o]
    BY <2>1 DEF ThreadsInd, ThreadsTyped
  <2>4. ~overlapped => AtStep(m)'
    <3>1. ~overlapped => Unpublished(m) /\ threadsCount <= monitor[m].new
      BY <2>1 DEF ThreadsInd, AtStep
    <3>2. QED
      BY <2>1, <2>3, <3>1 DEF AtStep, Unpublished, Half, Twins, Live, Pair, NoArray, ThreadsInd, ThreadsTyped
  <2>5. QED
    BY <2>1, <2>2, <2>3, <2>4, UpdateNext
<1>8. ASSUME NEW m \in Monitors, SwapThreadNames(m) PROVE ThreadsInd'
  <2>1. /\ monitor' = [monitor EXCEPT ![m].step = "grow"]
        /\ monitor[m].step = "names" /\ threadNames' = staticNames /\ staticNames' = threadNames
        /\ UNCHANGED <<arrays, machThreads, threadsCount, hasThreadStarted, overlapped>>
    BY <1>8 DEF SwapThreadNames
  <2>2. ThreadsTyped'
    BY <2>1 DEF ThreadsInd, ThreadsTyped, UpdateSteps
  <2>3. /\ monitor'[m].step = "grow" /\ monitor'[m].mach = monitor[m].mach /\ monitor'[m].new = monitor[m].new
        /\ \A o \in Monitors \ {m} : monitor'[o] = monitor[o]
    BY <2>1 DEF ThreadsInd, ThreadsTyped
  <2>4. ~overlapped => AtStep(m)'
    <3>1. ~overlapped => Half(m) /\ threadsCount <= monitor[m].new
      BY <2>1 DEF ThreadsInd, AtStep
    <3>2. QED
      BY <2>1, <2>3, <3>1 DEF AtStep, Published, Half, Twins, Live
  <2>5. QED
    BY <2>1, <2>2, <2>3, <2>4, UpdateNext
<1>9. ASSUME NEW m \in Monitors, GrowCount(m) PROVE ThreadsInd'
  <2>1. /\ monitor' = [monitor EXCEPT ![m].step = "free"]
        /\ monitor[m].step = "grow" /\ threadsCount' = monitor[m].new
        /\ UNCHANGED <<arrays, machThreads, threadNames, staticNames, hasThreadStarted, overlapped>>
    BY <1>9 DEF GrowCount
  <2>2. ThreadsTyped'
    BY <2>1 DEF ThreadsInd, ThreadsTyped, UpdateSteps
  <2>3. /\ monitor'[m].step = "free" /\ monitor'[m].mach = monitor[m].mach /\ monitor'[m].new = monitor[m].new
        /\ \A o \in Monitors \ {m} : monitor'[o] = monitor[o] /\ monitor[m].new \in Nat
    BY <2>1 DEF ThreadsInd, ThreadsTyped
  <2>4. ~overlapped => AtStep(m)'
    <3>1. ~overlapped => Published(m)
      BY <2>1 DEF ThreadsInd, AtStep
    <3>2. threadsCount' <= monitor[m].new
      BY <2>1 DEF ThreadsInd, ThreadsTyped
    <3>3. QED
      BY <2>1, <2>3, <3>1, <3>2 DEF AtStep, Published, Twins, Live
  <2>5. QED
    BY <2>1, <2>2, <2>3, <2>4, UpdateNext
<1>10. ASSUME NEW m \in Monitors, FreeOld(m) PROVE ThreadsInd'
  <2>1. /\ monitor' = [monitor EXCEPT ![m].step = "idle"] /\ monitor[m].step = "free"
        /\ arrays' = [i \in DOMAIN arrays |-> IF i \in {monitor[m].mach, staticNames}
                                              THEN [arrays[i] EXCEPT !.freed = TRUE] ELSE arrays[i]]
        /\ UNCHANGED <<machThreads, threadNames, threadsCount, staticNames, hasThreadStarted, overlapped>>
    BY <1>10 DEF FreeOld
  <2>2. arrays' \in Seq([data : Seq(Nat), freed : BOOLEAN]) /\ DOMAIN arrays' = DOMAIN arrays
    <3>1. DOMAIN arrays = 1 .. Len(arrays) /\ Len(arrays) \in Nat
          /\ \A i \in DOMAIN arrays : arrays[i] \in [data : Seq(Nat), freed : BOOLEAN]
      BY ArrayFacts DEF ThreadsInd
    <3>2. \A i \in 1 .. Len(arrays) : arrays'[i] \in [data : Seq(Nat), freed : BOOLEAN]
      BY <2>1, <3>1
    <3>3. QED
      BY <2>1, <3>1, <3>2
  <2>3. ThreadsTyped'
    BY <2>1, <2>2 DEF ThreadsInd, ThreadsTyped, UpdateSteps
  <2>4. /\ monitor'[m].step = "idle" /\ \A o \in Monitors \ {m} : monitor'[o] = monitor[o]
    BY <2>1 DEF ThreadsInd, ThreadsTyped
  <2>5. ASSUME ~overlapped PROVE Pair(machThreads, threadNames, threadsCount)'
    <3>1. Published(m) /\ threadsCount <= monitor[m].new
      BY <2>1, <2>5 DEF ThreadsInd, AtStep
    <3>2. arrays'[machThreads] = arrays[machThreads] /\ arrays'[threadNames] = arrays[threadNames]
      BY <2>1, <3>1 DEF Published, Twins, Live
    <3>3. QED
      BY <2>1, <2>2, <3>1, <3>2 DEF Published, Twins, Live, Pair
  <2>6. AtStep(m)'
    BY <2>4 DEF AtStep
  <2>7. QED
    BY <2>1, <2>3, <2>4, <2>5, <2>6, UpdateNext
<1>11. QED
  BY <1>1, <1>2, <1>3, <1>4, <1>5, <1>6, <1>7, <1>8, <1>9, <1>10 DEF ThreadsNext

(***************************************************************************)
(* A crash between any two steps of an update finds only live arrays that  *)
(* are long enough, and a thread its own name: the count shrinks before    *)
(* the arrays are replaced and grows after it, and the old arrays are      *)
(* freed last.                                                             *)
(***************************************************************************)
THEOREM CachedNamesAreSafe == ThreadsSpec => []ThreadNamesAreSafe
<1>1. ThreadsInd => ThreadNamesAreSafe
  <2> SUFFICES ASSUME ThreadsInd, ~overlapped
               PROVE  /\ \A i \in PlacesRead : InBounds(machThreads, i) /\ InBounds(threadNames, i)
                      /\ ~Between => \A i \in PlacesRead :
                              LET t == arrays[machThreads].data[i] IN GetThreadName(t) \in {0, t}
    BY DEF ThreadNamesAreSafe
  <2>1. CASE \E m \in Monitors : monitor[m].step = "names"
    <3>1. PICK m \in Monitors : monitor[m].step = "names" /\ Half(m) /\ threadsCount <= monitor[m].new
      BY <2>1 DEF ThreadsInd, AtStep
    <3>2. CASE threadNames = NoArray
      BY <2>1, <3>2 DEF PlacesRead, Between
    <3>3. CASE threadNames # NoArray
      <4>1. /\ Twins(machThreads, staticNames) /\ threadsCount <= Len(arrays[machThreads].data)
            /\ Twins(monitor[m].mach, threadNames) /\ threadsCount <= Len(arrays[threadNames].data)
        BY <3>1, <3>3 DEF Half, Pair, Twins
      <4>2. PlacesRead = 1 .. threadsCount /\ threadsCount \in Nat
        BY <3>3 DEF PlacesRead, ThreadsInd, ThreadsTyped
      <4>3. Len(arrays[machThreads].data) \in Nat /\ Len(arrays[threadNames].data) \in Nat
            /\ machThreads # NoArray
        BY <4>1, ArrayFacts DEF Twins, Live, ThreadsInd, NoArray
      <4>4. QED
        BY <2>1, <3>3, <4>1, <4>2, <4>3 DEF Twins, Live, InBounds, Between
    <3>4. QED
      BY <3>2, <3>3
  <2>2. CASE ~\E m \in Monitors : monitor[m].step = "names"
    <3>1. Pair(machThreads, threadNames, threadsCount)
      <4>1. CASE \A m \in Monitors : monitor[m].step = "idle"
        BY <4>1 DEF ThreadsInd
      <4>2. ASSUME NEW m \in Monitors, monitor[m].step # "idle"
            PROVE  Pair(machThreads, threadNames, threadsCount)
        <5>1. monitor[m].step \in {"count", "mach", "grow", "free"}
          BY <2>2, <4>2 DEF ThreadsInd, ThreadsTyped, UpdateSteps
        <5>2. QED
          BY <5>1 DEF ThreadsInd, AtStep, Unpublished, Published, Pair, Twins
      <4>3. QED
        BY <4>1, <4>2
    <3>2. CASE threadNames = NoArray
      BY <3>2 DEF PlacesRead
    <3>3. CASE threadNames # NoArray
      <4>1. /\ Twins(machThreads, threadNames) /\ threadsCount <= Len(arrays[machThreads].data)
            /\ PlacesRead = 1 .. threadsCount
        BY <3>1, <3>3 DEF Pair, PlacesRead
      <4>2. ASSUME NEW i \in PlacesRead PROVE InBounds(machThreads, i) /\ InBounds(threadNames, i)
        BY <4>1 DEF InBounds, Twins, Live, NoArray, ThreadsInd, ThreadsTyped
      <4>3. ASSUME NEW i \in PlacesRead, NEW t, t = arrays[machThreads].data[i]
            PROVE  GetThreadName(t) = t
        <5> PICK at : at = {j \in PlacesRead : arrays[machThreads].data[j] = t}
          OBVIOUS
        <5>1. at \in SUBSET Nat /\ at # {}
          <6>1. PlacesRead \subseteq Nat /\ i \in at
            BY <4>1, <4>3 DEF ThreadsInd, ThreadsTyped
          <6>2. QED
            BY <6>1
        <5>2. \E k \in at : \A j \in at : k <= j
          BY <5>1, LeastElement
        <5>3. (CHOOSE k \in at : \A j \in at : k <= j) \in at
          BY <5>2
        <5>4. GetThreadName(t) = arrays[threadNames].data[CHOOSE k \in at : \A j \in at : k <= j]
          BY <5>1 DEF GetThreadName
        <5>5. PICK k \in at : GetThreadName(t) = arrays[threadNames].data[k]
          BY <5>3, <5>4
        <5>6. QED
          BY <4>1, <5>5 DEF Twins
      <4>4. QED
        BY <4>2, <4>3
    <3>4. QED
      BY <3>2, <3>3
  <2>3. QED
    BY <2>1, <2>2
<1>2. QED
  BY <1>1, ThreadsInitInd, ThreadsInvariance, PTL DEF ThreadsSpec

-----------------------------------------------------------------------------
(***************************************************************************)
(* Loaded images.                                                          *)
(***************************************************************************)
SdkSteps == {"off", "register", "calls", "added", "iterate", "removed", "on", "free", "stop"}

(* From the call for every image to the next stop.                         *)
Serving == {"calls", "added", "iterate", "removed", "on"}

Node == [image : Images, available : BOOLEAN, freed : BOOLEAN]

DyldCall == [op : {"add", "remove"}, image : Images]

DyldRecord == [loaded : SUBSET Images, added : Nat, removed : Nat, todo : Seq(DyldCall),
               step : {"check", "append", "call"}, loads : Nat]

SdkRecord == [step : SdkSteps, free : Seq(Nat), starts : Nat]

ImagesTyped ==
    /\ nodes \in Seq(Node) /\ list \in Seq(Nat) /\ running \in BOOLEAN
    /\ dyld \in DyldRecord /\ IsFiniteSet(dyld.loaded)
    /\ sdk \in SdkRecord
    /\ callback \in [added : BOOLEAN, removed : BOOLEAN]
    /\ known \in [Images -> Nat]

(* A node is taken off the list before it is freed.                        *)
ListIsLive ==
    /\ \A k \in DOMAIN list : list[k] \in DOMAIN nodes /\ ~nodes[list[k]].freed
    /\ running <=> sdk.step \in Serving \cup {"register"}
    /\ ~running => list = <<>>

(* The calls of dyld are about what was loaded or unloaded last.           *)
CallsAreDue ==
    /\ dyld.todo = <<>> => dyld.step = "check"
    /\ dyld.step # "check" => dyld.todo[1].op = "add"
    /\ \A k \in DOMAIN dyld.todo : dyld.todo[k].op = "remove" => dyld.todo[k].image \notin dyld.loaded
    /\ sdk.step \in Serving => dyld.added > 0
    /\ sdk.step \in Serving /\ dyld.step = "call" => \E k \in DOMAIN list : list[k] = Len(nodes)

InList(i) == \E k \in DOMAIN list : nodes[list[k]].available /\ nodes[list[k]].image = i

(* Call k, which adds image i, is still to be made.                        *)
Due(k, i) == dyld.todo[k].op = "add" /\ dyld.todo[k].image = i

Readable == dyld.loaded \ Unreadable

(* A loaded image is in the list or will be.                               *)
ListIsComplete ==
    sdk.step \in Serving =>
        \A i \in Readable : InList(i) \/ \E k \in DOMAIN dyld.todo : Due(k, i) /\ (k = 1 => dyld.step # "call")

(* And so for the cache that follows the list.                             *)
CacheIsComplete ==
    /\ sdk.step \in {"iterate", "removed", "on"} => callback.added
    /\ sdk.step \in {"removed", "on"} =>
           \A i \in Readable : known[i] > 0 \/ \E k \in DOMAIN dyld.todo : Due(k, i)

(* The inductive invariant.                                                *)
ImagesInd == ImagesTyped /\ ListIsLive /\ CallsAreDue /\ ListIsComplete /\ CacheIsComplete

LEMMA ImagesInitInd == ImagesInit => ImagesInd
<1> SUFFICES ASSUME ImagesInit PROVE ImagesInd
  OBVIOUS
<1>1. nodes \in Seq(Node) /\ list \in Seq(Nat) /\ known \in [Images -> Nat]
  BY DEF ImagesInit
<1>2. running \in BOOLEAN /\ callback \in [added : BOOLEAN, removed : BOOLEAN]
  BY DEF ImagesInit
<1>3. sdk \in SdkRecord
  BY DEF ImagesInit, SdkRecord, SdkSteps
<1>4. dyld \in DyldRecord
  <2>1. <<>> \in Seq(DyldCall)
    OBVIOUS
  <2>2. QED
    BY <2>1 DEF ImagesInit, DyldRecord
<1>5. dyld.loaded = {} /\ IsFiniteSet(dyld.loaded) /\ dyld.todo = <<>> /\ dyld.step = "check"
      /\ sdk.step = "off"
  BY FS_EmptySet DEF ImagesInit
<1>6. ListIsLive
  BY <1>5 DEF ImagesInit, ListIsLive, Serving
<1>7. CallsAreDue
  BY <1>5 DEF CallsAreDue, Serving
<1>8. QED
  BY <1>1, <1>2, <1>3, <1>4, <1>5, <1>6, <1>7
     DEF ImagesInd, ImagesTyped, ListIsComplete, CacheIsComplete, Serving

(* The first element of a sequence and the others.                         *)
LEMMA TailFacts ==
    ASSUME NEW S, NEW q \in Seq(S), q # <<>>
    PROVE  /\ Len(q) \in Nat \ {0} /\ DOMAIN q = 1 .. Len(q) /\ q[1] \in S /\ Tail(q) \in Seq(S)
           /\ DOMAIN Tail(q) = 1 .. Len(q) - 1
           /\ \A k \in 1 .. Len(q) - 1 : Tail(q)[k] = q[k + 1]
OBVIOUS

(* The calls of dyld for one image.                                        *)
LEMMA CallsFacts ==
    ASSUME NEW n \in Nat, NEW i \in Images, NEW t, t = Calls(n, "add", i) \/ t = Calls(n, "remove", i)
    PROVE  /\ t \in Seq(DyldCall) /\ DOMAIN t = 1 .. n /\ \A k \in 1 .. n : t[k].image = i
           /\ t = Calls(n, "add", i) => \A k \in 1 .. n : t[k].op = "add"
           /\ t = Calls(n, "remove", i) => \A k \in 1 .. n : t[k].op = "remove"
<1>1. CASE t = Calls(n, "add", i)
  BY <1>1 DEF Calls, Call, DyldCall
<1>2. CASE t = Calls(n, "remove", i)
  BY <1>2 DEF Calls, Call, DyldCall
<1>3. QED
  BY <1>1, <1>2

(* What a change of one flag of a node leaves alone.                       *)
LEMMA NodeFacts ==
    ASSUME NEW q \in Seq(Node), NEW n \in Nat, NEW r \in Seq(Node),
           r \in {[q EXCEPT ![n].freed = TRUE], [q EXCEPT ![n].available = FALSE]}
    PROVE  /\ Len(r) = Len(q) /\ DOMAIN r = DOMAIN q
           /\ \A k \in DOMAIN q : r[k].image = q[k].image /\ (k # n => r[k] = q[k])
           /\ r = [q EXCEPT ![n].freed = TRUE] => \A k \in DOMAIN q : r[k].available = q[k].available
           /\ r = [q EXCEPT ![n].available = FALSE] => \A k \in DOMAIN q : r[k].freed = q[k].freed
<1>1. Len(q) \in Nat /\ DOMAIN q = 1 .. Len(q) /\ \A k \in DOMAIN q : q[k] \in Node
  BY ElementOfSeq, LenProperties
<1>2. QED
  BY <1>1 DEF Node

LEMMA NodeTypes ==
    ASSUME NEW q \in Seq(Node), NEW n \in Nat
    PROVE  /\ [q EXCEPT ![n].freed = TRUE] \in Seq(Node)
           /\ [q EXCEPT ![n].available = FALSE] \in Seq(Node)
<1>1. Len(q) \in Nat /\ DOMAIN q = 1 .. Len(q) /\ \A k \in DOMAIN q : q[k] \in Node
  BY ElementOfSeq, LenProperties
<1>2. CASE n \in DOMAIN q
  <2>1. [q[n] EXCEPT !.freed = TRUE] \in Node /\ [q[n] EXCEPT !.available = FALSE] \in Node
    BY <1>1, <1>2 DEF Node
  <2>2. QED
    BY <1>1, <1>2, <2>1, ExceptSeq
<1>3. CASE n \notin DOMAIN q
  <2>1. q \in [1 .. Len(q) -> Node]
    BY LenProperties
  <2>2. [q EXCEPT ![n].freed = TRUE] = q /\ [q EXCEPT ![n].available = FALSE] = q
    BY <1>3, <2>1
  <2>3. QED
    BY <2>2
<1>4. QED
  BY <1>2, <1>3

(* The fields of the records.                                              *)
LEMMA ImageFields ==
    ASSUME ImagesTyped
    PROVE  /\ dyld.todo \in Seq(DyldCall) /\ dyld.loaded \in SUBSET Images /\ dyld.added \in Nat
           /\ dyld.removed \in Nat /\ dyld.step \in {"check", "append", "call"} /\ dyld.loads \in Nat
           /\ sdk.step \in SdkSteps /\ sdk.free \in Seq(Nat) /\ sdk.starts \in Nat
           /\ Len(nodes) \in Nat /\ DOMAIN nodes = 1 .. Len(nodes) /\ DOMAIN list = 1 .. Len(list)
           /\ Len(list) \in Nat
<1>1. dyld \in DyldRecord /\ sdk \in SdkRecord
  BY DEF ImagesTyped
<1>2. nodes \in Seq(Node) /\ list \in Seq(Nat)
  BY DEF ImagesTyped
<1>3. Len(nodes) \in Nat /\ DOMAIN nodes = 1 .. Len(nodes) /\ DOMAIN list = 1 .. Len(list)
      /\ Len(list) \in Nat
  BY <1>2, LenProperties
<1>4. QED
  BY <1>1, <1>3 DEF DyldRecord, SdkRecord

-----------------------------------------------------------------------------
(* Loading and unloading: only when no call is left to be made.            *)
LEMMA LoadNext ==
    ASSUME ImagesInd, NEW i \in Images, Load(i) \/ Unload(i)
    PROVE  ImagesInd'
<1> USE DEF ImagesInd
<1>1. /\ UNCHANGED <<nodes, list, running, sdk, callback, known>>
      /\ dyld.todo = <<>> /\ dyld.step = "check"
  BY DEF Load, Unload, CallsAreDue
<1>2. dyld.loads + 1 \in Nat
  BY ImageFields
<1>3. PICK L \in SUBSET Images, todo \in Seq(DyldCall), loads \in Nat :
        /\ dyld' = [dyld EXCEPT !.loaded = L, !.todo = todo, !.loads = loads] /\ IsFiniteSet(L)
        /\ \A k \in DOMAIN todo : todo[k].op = "remove" => todo[k].image \notin L
        /\ \A j \in L : j \in dyld.loaded \/ (dyld.added > 0 => 1 \in DOMAIN todo /\ todo[1].op = "add" /\ todo[1].image = j)
  <2>1. CASE Load(i)
    <3> PICK n \in Nat : n = dyld.added
      BY ImageFields
    <3> DEFINE t == Calls(n, "add", i)
    <3>1. /\ t = Calls(n, "add", i) /\ t \in Seq(DyldCall) /\ DOMAIN t = 1 .. n
          /\ \A k \in 1 .. n : t[k].op = "add" /\ t[k].image = i
      BY CallsFacts
    <3> HIDE DEF t
    <3>2. dyld' = [dyld EXCEPT !.loaded = dyld.loaded \cup {i}, !.todo = t, !.loads = dyld.loads + 1]
      BY <2>1, <3>1 DEF Load
    <3>3. dyld.loaded \cup {i} \in SUBSET Images /\ IsFiniteSet(dyld.loaded \cup {i})
      BY ImageFields, FS_AddElement DEF ImagesTyped
    <3>4. \A k \in DOMAIN t : t[k].op = "remove" => t[k].image \notin dyld.loaded \cup {i}
      BY <3>1
    <3>5. \A j \in dyld.loaded \cup {i} : j \in dyld.loaded
            \/ (dyld.added > 0 => 1 \in DOMAIN t /\ t[1].op = "add" /\ t[1].image = j)
      BY <3>1, ImageFields
    <3>6. dyld.loaded \cup {i} \in SUBSET Images /\ t \in Seq(DyldCall) /\ dyld.loads + 1 \in Nat
      BY <1>2, <3>1, <3>3
    <3> USE <3>6
    <3>7. WITNESS dyld.loaded \cup {i} \in SUBSET Images, t \in Seq(DyldCall), dyld.loads + 1 \in Nat
    <3>8. QED
      BY <3>1, <3>2, <3>3, <3>4, <3>5
  <2>2. CASE Unload(i)
    <3> PICK n \in Nat : n = dyld.removed
      BY ImageFields
    <3> DEFINE t == Calls(n, "remove", i)
    <3>1. /\ t = Calls(n, "remove", i) /\ t \in Seq(DyldCall) /\ DOMAIN t = 1 .. n
          /\ \A k \in 1 .. n : t[k].op = "remove" /\ t[k].image = i
      BY CallsFacts
    <3> HIDE DEF t
    <3>2. dyld' = [dyld EXCEPT !.loaded = dyld.loaded \ {i}, !.todo = t, !.loads = dyld.loads + 1]
      BY <2>2, <3>1 DEF Unload
    <3>3. dyld.loaded \ {i} \in SUBSET Images /\ IsFiniteSet(dyld.loaded \ {i})
      BY ImageFields, FS_RemoveElement DEF ImagesTyped
    <3>4. \A k \in DOMAIN t : t[k].op = "remove" => t[k].image \notin dyld.loaded \ {i}
      BY <3>1
    <3>5. QED
      BY <1>2, <3>1, <3>2, <3>3, <3>4
  <2>3. QED
    BY <2>1, <2>2
<1>4. dyld' \in DyldRecord
  BY <1>3 DEF ImagesTyped, DyldRecord
<1>5. dyld'.loaded = L /\ dyld'.todo = todo /\ dyld'.step = "check" /\ dyld'.added = dyld.added
  BY <1>1, <1>3 DEF ImagesTyped, DyldRecord
<1>6. ImagesTyped'
  BY <1>1, <1>3, <1>4, <1>5 DEF ImagesTyped
<1>7. ListIsLive' /\ CallsAreDue'
  BY <1>1, <1>3, <1>5 DEF ListIsLive, CallsAreDue
<1>8. DOMAIN dyld.todo = {}
  BY <1>1
<1>9. ListIsComplete'
  BY <1>1, <1>3, <1>5, <1>8 DEF ListIsComplete, CallsAreDue, InList, Due, Readable
<1>10. CacheIsComplete'
  BY <1>1, <1>3, <1>5, <1>8 DEF CacheIsComplete, CallsAreDue, Due, Readable, Serving
<1>11. QED
  BY <1>6, <1>7, <1>9, <1>10

(* A call of dyld returns and the next one begins.                         *)
LEMMA ReturnsFacts ==
    ASSUME ImagesInd, Returns, dyld.todo # <<>>
    PROVE  /\ dyld' \in DyldRecord /\ dyld'.loaded = dyld.loaded /\ dyld'.added = dyld.added
           /\ dyld'.step = "check" /\ IsFiniteSet(dyld'.loaded)
           /\ 1 \in DOMAIN dyld.todo
           /\ \A k \in DOMAIN dyld'.todo : k + 1 \in DOMAIN dyld.todo /\ k \in Nat \ {0}
                                           /\ dyld'.todo[k] = dyld.todo[k + 1]
           /\ \A k \in DOMAIN dyld.todo : k # 1 => k - 1 \in DOMAIN dyld'.todo /\ dyld'.todo[k - 1] = dyld.todo[k]
<1>1. PICK q \in Seq(DyldCall) : q = dyld.todo
  BY ImageFields DEF ImagesInd
<1>2. /\ Len(q) \in Nat \ {0} /\ DOMAIN q = 1 .. Len(q) /\ Tail(q) \in Seq(DyldCall)
      /\ DOMAIN Tail(q) = 1 .. Len(q) - 1 /\ \A k \in 1 .. Len(q) - 1 : Tail(q)[k] = q[k + 1]
  BY <1>1, TailFacts
<1>3. dyld' = [dyld EXCEPT !.todo = Tail(q), !.step = "check"]
  BY <1>1 DEF Returns
<1>4. /\ dyld' \in DyldRecord /\ dyld'.loaded = dyld.loaded /\ dyld'.added = dyld.added
      /\ dyld'.step = "check" /\ dyld'.todo = Tail(q)
  BY <1>2, <1>3 DEF ImagesInd, ImagesTyped, DyldRecord
<1>5. \A k \in DOMAIN dyld'.todo : k + 1 \in DOMAIN dyld.todo /\ k \in Nat \ {0}
                                   /\ dyld'.todo[k] = dyld.todo[k + 1]
  BY <1>1, <1>2, <1>4
<1>6. \A k \in DOMAIN dyld.todo : k # 1 => k - 1 \in DOMAIN dyld'.todo /\ dyld'.todo[k - 1] = dyld.todo[k]
  BY <1>1, <1>2, <1>4
<1>7. IsFiniteSet(dyld'.loaded) /\ 1 \in DOMAIN dyld.todo
  BY <1>1, <1>2, <1>4 DEF ImagesInd, ImagesTyped
<1>8. QED
  BY <1>4, <1>5, <1>6, <1>7

(* A call returns, the list and its nodes stay: whatever was due, but for  *)
(* this call, is due still.                                                *)
LEMMA ReturnsNext ==
    ASSUME ImagesInd, Returns, dyld.todo # <<>>, known' \in [Images -> Nat],
           UNCHANGED <<list, running, sdk, callback>>, nodes' \in Seq(Node), DOMAIN nodes' \in SUBSET Nat,
           DOMAIN nodes \subseteq DOMAIN nodes',
           \A k \in DOMAIN list : nodes'[list[k]].freed = nodes[list[k]].freed,
           \A k \in DOMAIN list : nodes[list[k]].image \in dyld.loaded => nodes'[list[k]] = nodes[list[k]],
           sdk.step \in Serving => \A i \in Readable : Due(1, i) /\ dyld.step # "call" => InList(i),
           sdk.step \in {"removed", "on"} =>
               \A i \in Readable : known'[i] < known[i] => known'[i] > 0,
           sdk.step \in {"removed", "on"} => \A i \in Readable : Due(1, i) => known'[i] > 0
    PROVE  ImagesInd'
<1> USE DEF ImagesInd
<1>1. ImagesTyped'
  BY ReturnsFacts DEF ImagesTyped
<1>2. ListIsLive'
  BY DEF ListIsLive
<1>3. CallsAreDue'
  BY ReturnsFacts DEF CallsAreDue
<1>4. Readable' = Readable
  BY ReturnsFacts DEF Readable
<1>5. \A i \in Readable : InList(i) => InList(i)'
  BY DEF InList, Readable
<1>6. \A i \in Readable, k \in DOMAIN dyld.todo :
        k # 1 /\ Due(k, i) => k - 1 \in DOMAIN dyld'.todo /\ Due(k - 1, i)'
  BY ReturnsFacts DEF Due
<1>7. ListIsComplete'
  <2> SUFFICES ASSUME sdk.step \in Serving, NEW i \in Readable
               PROVE  InList(i)' \/ \E k \in DOMAIN dyld'.todo : Due(k, i)'
    BY <1>4, ReturnsFacts DEF ListIsComplete
  <2>1. InList(i) \/ \E k \in DOMAIN dyld.todo : k # 1 /\ Due(k, i)
    BY DEF ListIsComplete
  <2>2. QED
    BY <1>5, <1>6, <2>1
<1>8. CacheIsComplete'
  <2> SUFFICES ASSUME sdk.step \in {"removed", "on"}, NEW i \in Readable
               PROVE  known'[i] > 0 \/ \E k \in DOMAIN dyld'.todo : Due(k, i)'
    BY <1>4 DEF CacheIsComplete
  <2>1. known'[i] \in Nat /\ known[i] \in Nat
    BY ImageFields DEF ImagesTyped, Readable
  <2>2. known'[i] > 0 \/ \E k \in DOMAIN dyld.todo : k # 1 /\ Due(k, i)
    BY <2>1 DEF CacheIsComplete
  <2>3. QED
    BY <1>6, <2>2
<1>9. QED
  BY <1>1, <1>2, <1>3, <1>7, <1>8

(* The calls that add an image.                                            *)
LEMMA AddNext ==
    ASSUME ImagesInd, AddCheck \/ AddAppend \/ AddCallback
    PROVE  ImagesInd'
<1> USE DEF ImagesInd
<1>1. /\ dyld.todo # <<>> /\ dyld.todo[1].op = "add" /\ UNCHANGED <<running, sdk, callback>>
      /\ 1 \in DOMAIN dyld.todo /\ dyld.todo[1].image \in Images
  <2>1. dyld.todo # <<>> /\ dyld.todo[1].op = "add" /\ UNCHANGED <<running, sdk, callback>>
    BY DEF AddCheck, AddAppend, AddCallback, Calling
  <2>2. PICK q \in Seq(DyldCall) : q = dyld.todo
    BY ImageFields
  <2>3. 1 \in DOMAIN q /\ q[1] \in DyldCall
    BY <2>1, <2>2, TailFacts
  <2>4. QED
    BY <2>1, <2>2, <2>3 DEF DyldCall
<1>2. sdk.step \in Serving => running = TRUE
  BY DEF ListIsLive, ImagesTyped
<1>3. CASE AddCheck
  <2>1. UNCHANGED <<nodes, list, running, sdk, callback, known>> /\ dyld.step = "check"
    BY <1>3 DEF AddCheck, Calling
  <2>2. CASE Returns
    <3>1. CASE running /\ dyld.todo[1].image \notin Unreadable
      BY <1>3, <2>2, <3>1 DEF AddCheck, Returns, ImagesTyped, DyldRecord
    <3>2. CASE ~(running /\ dyld.todo[1].image \notin Unreadable)
      <4>1. sdk.step \in Serving => \A i \in Readable : ~Due(1, i)
        BY <1>2, <3>2 DEF Due, Readable
      <4>2. {"removed", "on"} \subseteq Serving
        BY DEF Serving
      <4>3. \A i \in Readable : known'[i] = known[i] /\ known[i] \in Nat
        BY <2>1, ImageFields DEF ImagesTyped, Readable
      <4>4. nodes' \in Seq(Node) /\ DOMAIN nodes' \in SUBSET Nat /\ known' \in [Images -> Nat]
        BY <2>1, ImageFields DEF ImagesTyped
      <4>5. QED
        BY <1>1, <2>1, <2>2, <4>1, <4>2, <4>3, <4>4, ReturnsNext
    <3>3. QED
      BY <3>1, <3>2
  <2>3. CASE dyld' = [dyld EXCEPT !.step = "append"]
    <3>1. /\ dyld' \in DyldRecord /\ dyld'.loaded = dyld.loaded /\ dyld'.added = dyld.added
          /\ dyld'.todo = dyld.todo /\ dyld'.step = "append"
      BY <2>3 DEF ImagesTyped, DyldRecord
    <3>2. ImagesTyped'
      BY <2>1, <3>1 DEF ImagesTyped
    <3>3. ListIsLive' /\ CallsAreDue'
      BY <1>1, <2>1, <3>1 DEF ListIsLive, CallsAreDue
    <3>4. ListIsComplete' /\ CacheIsComplete'
      BY <2>1, <3>1 DEF ListIsComplete, CacheIsComplete, Readable, InList, Due
    <3>5. QED
      BY <3>2, <3>3, <3>4
  <2>4. QED
    BY <1>3, <2>2, <2>3 DEF AddCheck
<1>4. CASE AddAppend
  <2> PICK n \in Nat : n = Len(nodes)
    BY ImageFields
  <2> DEFINE Fresh(x) == running => x.available /\ ~x.freed
  <2> HIDE DEF Fresh
  <2>1. PICK x \in Node : nodes' = Append(nodes, x) /\ x.image = dyld.todo[1].image /\ Fresh(x)
    <3>1. PICK i \in Images : i = dyld.todo[1].image
      BY <1>1
    <3>2. CASE running
      <4>1. running = TRUE /\ ~running = FALSE
        BY <3>2 DEF ImagesTyped
      <4>2. nodes' = Append(nodes, [image |-> i, available |-> TRUE, freed |-> FALSE])
        BY <1>4, <3>1, <4>1 DEF AddAppend
      <4>3. /\ [image |-> i, available |-> TRUE, freed |-> FALSE] \in Node
            /\ Fresh([image |-> i, available |-> TRUE, freed |-> FALSE])
        BY DEF Node, Fresh
      <4>4. QED
        BY <3>1, <4>2, <4>3
    <3>3. CASE ~running
      <4>1. running = FALSE /\ ~running = TRUE
        BY <3>3 DEF ImagesTyped
      <4>2. nodes' = Append(nodes, [image |-> i, available |-> FALSE, freed |-> TRUE])
        BY <1>4, <3>1, <4>1 DEF AddAppend
      <4>3. /\ [image |-> i, available |-> FALSE, freed |-> TRUE] \in Node
            /\ Fresh([image |-> i, available |-> FALSE, freed |-> TRUE])
        BY <3>3 DEF Node, Fresh
      <4>4. QED
        BY <3>1, <4>2, <4>3
    <3>4. QED
      BY <3>2, <3>3
  <2>2. /\ nodes' \in Seq(Node) /\ Len(nodes') = n + 1 /\ DOMAIN nodes' = 1 .. n + 1
        /\ nodes'[n + 1] = x /\ \A k \in 1 .. n : nodes'[k] = nodes[k]
    <3>1. nodes \in Seq(Node)
      BY DEF ImagesTyped
    <3>2. QED
      BY <2>1, <3>1
  <2>3. DOMAIN nodes = 1 .. n
    BY ImageFields
  <2>4. UNCHANGED <<callback, known>>
    BY <1>4 DEF AddAppend
  <2>5. CASE running
    <3>1. list' = Append(list, n + 1) /\ dyld' = [dyld EXCEPT !.step = "call"]
      BY <1>4, <2>2, <2>5 DEF AddAppend
    <3>2. /\ dyld' \in DyldRecord /\ dyld'.loaded = dyld.loaded /\ dyld'.added = dyld.added
          /\ dyld'.todo = dyld.todo /\ dyld'.step = "call"
      BY <3>1 DEF ImagesTyped, DyldRecord
    <3>3. PICK q \in Seq(Nat) : q = list
      BY DEF ImagesTyped
    <3>4. /\ list' \in Seq(Nat) /\ DOMAIN list = 1 .. Len(q) /\ DOMAIN list' = 1 .. Len(q) + 1
          /\ list'[Len(q) + 1] = n + 1 /\ \A k \in 1 .. Len(q) : list'[k] = list[k] /\ Len(q) \in Nat
      BY <3>1, <3>3
    <3>5. PICK z \in DOMAIN list' : list'[z] = n + 1 /\ z = Len(q) + 1
      BY <3>3, <3>4
    <3>6. ImagesTyped'
      BY <1>1, <2>2, <2>4, <3>2, <3>4 DEF ImagesTyped
    <3>7. ListIsLive'
      <4>1. \A k \in DOMAIN list : list[k] \in 1 .. n /\ nodes'[list[k]] = nodes[list[k]]
        BY <2>2, <2>3 DEF ListIsLive
      <4>2. \A k \in DOMAIN list' : list'[k] \in DOMAIN nodes' /\ ~nodes'[list'[k]].freed
        <5> SUFFICES ASSUME NEW k \in DOMAIN list' PROVE list'[k] \in DOMAIN nodes' /\ ~nodes'[list'[k]].freed
          OBVIOUS
        <5>1. CASE k \in 1 .. Len(q)
          <6>1. k \in DOMAIN list /\ list'[k] = list[k]
            BY <3>4, <5>1
          <6>2. list[k] \in DOMAIN nodes' /\ nodes'[list[k]] = nodes[list[k]]
            BY <2>2, <4>1, <6>1
          <6>3. QED
            BY <6>1, <6>2 DEF ListIsLive
        <5>2. CASE k \notin 1 .. Len(q)
          <6>1. list'[k] = n + 1
            BY <3>4, <5>2
          <6>2. n + 1 \in DOMAIN nodes' /\ ~nodes'[n + 1].freed
            BY <2>1, <2>2, <2>5 DEF Fresh
          <6>3. QED
            BY <6>1, <6>2
        <5>3. QED
          BY <5>1, <5>2
      <4>3. QED
        BY <1>1, <2>5, <4>2 DEF ListIsLive
    <3>8. CallsAreDue'
      BY <1>1, <2>2, <3>2, <3>5 DEF CallsAreDue
    <3>9. \A i \in Readable : InList(i) => InList(i)'
      BY <2>2, <2>3, <3>4 DEF InList, ListIsLive
    <3>10. \A i \in Readable : Due(1, i) => InList(i)'
      BY <2>1, <2>2, <2>5, <3>5 DEF InList, Due, Fresh
    <3>11. ListIsComplete'
      BY <1>1, <3>2, <3>9, <3>10 DEF ListIsComplete, Readable, Due
    <3>12. CacheIsComplete'
      BY <1>1, <2>4, <3>2 DEF CacheIsComplete, Readable, Due
    <3>13. QED
      BY <3>6, <3>7, <3>8, <3>11, <3>12
  <2>6. CASE ~running
    <3>1. Returns /\ list' = list
      BY <1>4, <2>6 DEF AddAppend
    <3>2. sdk.step \notin Serving /\ {"removed", "on"} \subseteq Serving
      BY <2>6 DEF ListIsLive, Serving
    <3>3. DOMAIN list = {}
      BY <2>6 DEF ListIsLive
    <3>4. DOMAIN nodes' \in SUBSET Nat /\ DOMAIN nodes \subseteq DOMAIN nodes' /\ known' \in [Images -> Nat]
      BY <2>2, <2>3, <2>4 DEF ImagesTyped
    <3>5. QED
      BY <1>1, <2>2, <3>1, <3>2, <3>3, <3>4, ReturnsNext
  <2>7. QED
    BY <2>5, <2>6
<1>5. CASE AddCallback
  <2>1. UNCHANGED <<nodes, list>> /\ Returns /\ dyld.step = "call"
    BY <1>5 DEF AddCallback, Calling
  <2>2. PICK i \in Images : /\ ~nodes[Len(nodes)].freed => i = dyld.todo[1].image
                            /\ known' = IF callback.added THEN [known EXCEPT ![i] = @ + 1] ELSE known
    BY <1>1, <1>5 DEF AddCallback
  <2>3. \A j \in Images : known[j] \in Nat
    BY DEF ImagesTyped
  <2>4. /\ known' \in [Images -> Nat] /\ \A j \in Images : known'[j] >= known[j] /\ known'[j] \in Nat
        /\ callback.added => known'[i] > 0
    <3>1. known[i] + 1 \in Nat
      BY <2>3
    <3>2. CASE callback.added
      BY <2>2, <2>3, <3>1, <3>2 DEF ImagesTyped
    <3>3. CASE ~callback.added
      BY <2>2, <2>3, <3>3 DEF ImagesTyped
    <3>4. QED
      BY <3>2, <3>3
  <2>5. ASSUME sdk.step \in {"removed", "on"}, NEW j \in Readable, Due(1, j) PROVE known'[j] > 0
    <3>1. callback.added /\ ~nodes[Len(nodes)].freed
      BY <2>1, <2>5 DEF CacheIsComplete, CallsAreDue, ListIsLive, Serving
    <3>2. QED
      BY <2>2, <2>4, <2>5, <3>1 DEF Due
  <2>6. \A j \in Readable : ~(known'[j] < known[j])
    BY <2>3, <2>4, ImageFields DEF Readable
  <2>7. nodes' \in Seq(Node) /\ DOMAIN nodes' \in SUBSET Nat
    BY <2>1, ImageFields DEF ImagesTyped
  <2>8. QED
    BY <1>1, <2>1, <2>4, <2>5, <2>6, <2>7, ReturnsNext
<1>6. QED
  BY <1>3, <1>4, <1>5

(* A call that removes an image: it is not loaded any more, so that no     *)
(* node of a loaded image changes.                                         *)
LEMMA RemoveNext ==
    ASSUME ImagesInd, RemoveImage
    PROVE  ImagesInd'
<1> USE DEF ImagesInd
<1>1. /\ dyld.todo # <<>> /\ dyld.todo[1].op = "remove" /\ UNCHANGED <<list, running, sdk, callback>>
      /\ Returns /\ dyld.step = "check"
  BY DEF RemoveImage, Calling
<1>2. PICK i \in Images : i = dyld.todo[1].image /\ i \notin dyld.loaded
  <2>1. PICK q \in Seq(DyldCall) : q = dyld.todo
    BY ImageFields
  <2>2. 1 \in DOMAIN q /\ q[1] \in DyldCall
    BY <1>1, <2>1, TailFacts
  <2>3. QED
    BY <1>1, <2>1, <2>2 DEF DyldCall, CallsAreDue
<1>3. /\ nodes' = IF FirstNode(i) = 0 THEN nodes ELSE [nodes EXCEPT ![FirstNode(i)].available = FALSE]
      /\ known' = IF FirstNode(i) = 0 \/ ~callback.removed \/ known[i] = 0 THEN known
                  ELSE [known EXCEPT ![i] = @ - 1]
  BY <1>2 DEF RemoveImage
<1>4. /\ known' \in [Images -> Nat] /\ \A j \in Images \ {i} : known'[j] = known[j]
  <2>1. CASE known' = known
    BY <2>1 DEF ImagesTyped
  <2>2. CASE known[i] # 0 /\ known' = [known EXCEPT ![i] = @ - 1]
    <3>1. known[i] - 1 \in Nat
      BY <2>2 DEF ImagesTyped
    <3>2. QED
      BY <2>2, <3>1 DEF ImagesTyped
  <2>3. QED
    BY <1>3, <2>1, <2>2
<1>5. FirstNode(i) # 0 => \E k \in DOMAIN list : FirstNode(i) = list[k] /\ nodes[list[k]].image = i
  <2> PICK at : at = {k \in DOMAIN list : nodes[list[k]].image = i}
    OBVIOUS
  <2>1. CASE at = {}
    BY <2>1 DEF FirstNode
  <2>2. CASE at # {}
    <3>1. at \in SUBSET Nat
      BY ImageFields
    <3>2. \E k \in at : \A m \in at : k <= m
      BY <2>2, <3>1, LeastElement
    <3>3. PICK k \in at : k = CHOOSE x \in at : \A m \in at : x <= m
      BY <3>2
    <3>4. FirstNode(i) = list[k]
      BY <2>2, <3>3 DEF FirstNode
    <3>5. \A x \in at : x \in DOMAIN list /\ nodes[list[x]].image = i
      OBVIOUS
    <3>6. QED
      BY <3>4, <3>5
  <2>3. QED
    BY <2>1, <2>2
<1>6. /\ nodes' \in Seq(Node) /\ DOMAIN nodes' = DOMAIN nodes
      /\ \A k \in DOMAIN list : nodes'[list[k]].freed = nodes[list[k]].freed
      /\ \A k \in DOMAIN list : nodes[list[k]].image \in dyld.loaded => nodes'[list[k]] = nodes[list[k]]
  <2>1. CASE FirstNode(i) = 0
    BY <1>3, <2>1 DEF ImagesTyped
  <2>2. CASE FirstNode(i) # 0
    <3>1. PICK k \in DOMAIN list : FirstNode(i) = list[k] /\ nodes[list[k]].image = i
      BY <1>5, <2>2
    <3>2. PICK n \in Nat, q \in Seq(Node) : n = list[k] /\ q = nodes /\ q[n].image = i /\ n \in DOMAIN q
      BY <3>1, ImageFields DEF ListIsLive, ImagesTyped
    <3>3. nodes' = [q EXCEPT ![n].available = FALSE] /\ nodes' \in Seq(Node)
      BY <1>3, <2>2, <3>1, <3>2, NodeTypes
    <3>4. PICK r \in Seq(Node) : r = nodes'
      BY <3>3
    <3>5. /\ DOMAIN r = DOMAIN q /\ \A m \in DOMAIN q : m # n => r[m] = q[m]
          /\ \A m \in DOMAIN q : r[m].freed = q[m].freed
      BY <3>3, <3>4, NodeFacts
    <3>6. \A m \in DOMAIN list : list[m] \in DOMAIN q
      BY <3>2 DEF ListIsLive
    <3>7. \A m \in DOMAIN list : nodes[list[m]].image \in dyld.loaded => list[m] # n
      BY <1>2, <3>2
    <3>8. QED
      BY <3>2, <3>4, <3>5, <3>6, <3>7
  <2>3. QED
    BY <2>1, <2>2
<1>7. \A j \in Readable : ~Due(1, j)
  BY <1>1 DEF Due
<1>8. \A j \in Readable : known'[j] = known[j] /\ known[j] \in Nat
  BY <1>2, <1>4, ImageFields DEF Readable, ImagesTyped
<1>9. DOMAIN nodes' \in SUBSET Nat
  BY <1>6, ImageFields
<1>10. QED
  BY <1>1, <1>4, <1>6, <1>7, <1>8, <1>9, ReturnsNext

(* Starting and stopping.                                                  *)
LEMMA SdkNext ==
    ASSUME ImagesInd,
           \/ StartCache \/ RegisterAdd \/ RegisterRemove \/ RegisterAddedCallback
           \/ IterateOverImages \/ RegisterRemovedCallback \/ StopCache \/ FreeNode \/ StopCallbacks
    PROVE  ImagesInd'
<1> USE DEF ImagesInd
<1>1. CASE StartCache
  <2>1. /\ UNCHANGED <<nodes, dyld, callback, known>> /\ running' = TRUE /\ list' = <<>>
        /\ sdk' = [sdk EXCEPT !.step = "register", !.starts = sdk.starts + 1] /\ sdk.starts + 1 \in Nat
    BY <1>1, ImageFields DEF StartCache
  <2>2. sdk' \in SdkRecord /\ sdk'.step = "register"
    BY <2>1 DEF ImagesTyped, SdkRecord, SdkSteps
  <2>3. ImagesTyped'
    BY <2>1, <2>2 DEF ImagesTyped
  <2>4. ListIsLive'
    BY <2>1, <2>2 DEF ListIsLive
  <2>5. CallsAreDue' /\ ListIsComplete' /\ CacheIsComplete'
    BY <2>1, <2>2 DEF CallsAreDue, ListIsComplete, CacheIsComplete, Serving
  <2>6. QED
    BY <2>3, <2>4, <2>5
<1>2. CASE RegisterAdd
  <2>1. /\ UNCHANGED <<nodes, list, running, callback, known>> /\ sdk.step = "register" /\ dyld.todo = <<>>
        /\ sdk' = [sdk EXCEPT !.step = "calls"] /\ dyld.added + 1 \in Nat /\ dyld.added + 1 > 0
    <3>1. dyld.added + 1 \in Nat /\ dyld.added + 1 > 0
      BY ImageFields
    <3>2. QED
      BY <1>2, <3>1 DEF RegisterAdd
  <2>2. PICK s \in [1 .. Cardinality(dyld.loaded) -> dyld.loaded] :
          /\ \A i \in dyld.loaded : \E k \in DOMAIN s : s[k] = i
          /\ dyld' = [dyld EXCEPT !.added = dyld.added + 1, !.todo = [k \in DOMAIN s |-> Call("add", s[k])]]
    BY <1>2 DEF RegisterAdd
  <2>3. PICK n \in Nat : n = Cardinality(dyld.loaded)
    BY FS_CardinalityType DEF ImagesTyped
  <2>4. PICK L \in SUBSET Images : L = dyld.loaded
    BY ImageFields
  <2> DEFINE q == [k \in 1 .. n |-> Call("add", s[k])]
  <2>5. s \in [1 .. n -> L] /\ q = [k \in DOMAIN s |-> Call("add", s[k])]
    BY <2>2, <2>3, <2>4
  <2>6. /\ q \in Seq(DyldCall) /\ DOMAIN q = 1 .. n
        /\ \A k \in 1 .. n : q[k].op = "add" /\ q[k].image = s[k]
    <3>1. \A k \in 1 .. n : /\ Call("add", s[k]) \in DyldCall /\ Call("add", s[k]).op = "add"
                            /\ Call("add", s[k]).image = s[k]
      BY <2>5 DEF Call, DyldCall
    <3>2. QED
      BY <3>1
  <2>7. dyld' = [dyld EXCEPT !.added = dyld.added + 1, !.todo = q]
    BY <2>2, <2>5
  <2> HIDE DEF q
  <2>8. /\ dyld' \in DyldRecord /\ dyld'.loaded = dyld.loaded /\ dyld'.todo = q /\ dyld'.step = dyld.step
        /\ dyld'.added = dyld.added + 1
    BY <2>1, <2>6, <2>7 DEF ImagesTyped, DyldRecord
  <2>9. sdk' \in SdkRecord /\ sdk'.step = "calls"
    BY <2>1 DEF ImagesTyped, SdkRecord, SdkSteps
  <2>10. dyld.step = "check"
    BY <2>1 DEF CallsAreDue
  <2>11. ImagesTyped'
    BY <2>1, <2>8, <2>9 DEF ImagesTyped
  <2>12. ListIsLive'
    BY <2>1, <2>9 DEF ListIsLive, Serving
  <2>13. CallsAreDue'
    BY <2>1, <2>6, <2>8, <2>10 DEF CallsAreDue
  <2>14. \A i \in dyld'.loaded : \E k \in DOMAIN dyld'.todo : Due(k, i)'
    <3>1. DOMAIN s = DOMAIN q /\ \A k \in DOMAIN q : q[k].op = "add" /\ q[k].image = s[k]
      BY <2>5, <2>6
    <3>2. QED
      BY <2>2, <2>8, <3>1 DEF Due
  <2>15. ListIsComplete' /\ CacheIsComplete'
    BY <2>8, <2>9, <2>10, <2>14 DEF ListIsComplete, CacheIsComplete, Readable
  <2>16. QED
    BY <2>11, <2>12, <2>13, <2>15
<1>3. CASE RegisterRemove
  <2>1. /\ UNCHANGED <<nodes, list, running, callback, known>> /\ sdk.step = "calls"
        /\ sdk' = [sdk EXCEPT !.step = "added"] /\ dyld.removed + 1 \in Nat
        /\ dyld' = [dyld EXCEPT !.removed = dyld.removed + 1]
    BY <1>3, ImageFields DEF RegisterRemove
  <2>2. /\ dyld' \in DyldRecord /\ dyld'.loaded = dyld.loaded /\ dyld'.todo = dyld.todo
        /\ dyld'.step = dyld.step /\ dyld'.added = dyld.added
    BY <2>1 DEF ImagesTyped, DyldRecord
  <2>3. sdk' \in SdkRecord /\ sdk'.step = "added"
    BY <2>1 DEF ImagesTyped, SdkRecord, SdkSteps
  <2>4. ImagesTyped'
    BY <2>1, <2>2, <2>3 DEF ImagesTyped
  <2>5. ListIsLive' /\ CallsAreDue'
    BY <2>1, <2>2, <2>3 DEF ListIsLive, CallsAreDue, Serving
  <2>6. ListIsComplete' /\ CacheIsComplete'
    BY <2>1, <2>2, <2>3 DEF ListIsComplete, CacheIsComplete, Readable, InList, Due, Serving
  <2>7. QED
    BY <2>4, <2>5, <2>6
<1>4. CASE RegisterAddedCallback
  <2>1. /\ UNCHANGED <<nodes, list, running, dyld>> /\ sdk.step = "added" /\ known' = [i \in Images |-> 0]
        /\ sdk' = [sdk EXCEPT !.step = "iterate"] /\ callback' = [callback EXCEPT !.added = TRUE]
    BY <1>4 DEF RegisterAddedCallback
  <2>2. sdk' \in SdkRecord /\ sdk'.step = "iterate"
    BY <2>1 DEF ImagesTyped, SdkRecord, SdkSteps
  <2>3. callback' \in [added : BOOLEAN, removed : BOOLEAN] /\ callback'.added
    BY <2>1 DEF ImagesTyped
  <2>4. known' \in [Images -> Nat]
    BY <2>1
  <2>5. ImagesTyped'
    BY <2>1, <2>2, <2>3, <2>4 DEF ImagesTyped
  <2>6. ListIsLive' /\ CallsAreDue'
    BY <2>1, <2>2 DEF ListIsLive, CallsAreDue, Serving
  <2>7. ListIsComplete' /\ CacheIsComplete'
    BY <2>1, <2>2, <2>3 DEF ListIsComplete, CacheIsComplete, Readable, InList, Due, Serving
  <2>8. QED
    BY <2>5, <2>6, <2>7
<1>5. CASE IterateOverImages
  <2> DEFINE at(i) == {k \in DOMAIN list : running /\ nodes[list[k]].available /\ nodes[list[k]].image = i}
  <2>1. /\ UNCHANGED <<nodes, list, running, dyld, callback>> /\ sdk.step = "iterate"
        /\ sdk' = [sdk EXCEPT !.step = "removed"]
        /\ known' = [i \in Images |-> known[i] + Cardinality(at(i))]
    BY <1>5 DEF IterateOverImages
  <2>2. sdk' \in SdkRecord /\ sdk'.step = "removed"
    BY <2>1 DEF ImagesTyped, SdkRecord, SdkSteps
  <2>3. \A i : Cardinality(at(i)) \in Nat /\ (at(i) # {} => Cardinality(at(i)) > 0)
    <3>1. IsFiniteSet(DOMAIN list)
      BY ImageFields, FS_Interval
    <3>2. ASSUME NEW i PROVE Cardinality(at(i)) \in Nat /\ (at(i) # {} => Cardinality(at(i)) > 0)
      <4> PICK T \in SUBSET DOMAIN list : T = at(i)
        OBVIOUS
      <4>1. IsFiniteSet(T)
        BY <3>1, FS_Subset
      <4>2. Cardinality(T) \in Nat /\ (Cardinality(T) = 0 => T = {})
        BY <4>1, FS_CardinalityType, FS_EmptySet
      <4>3. QED
        BY <4>2
    <3>3. QED
      BY <3>2
  <2>4. \A i \in Images : InList(i) => at(i) # {}
    BY <2>1 DEF InList, ListIsLive, Serving
  <2> HIDE DEF at
  <2>5. \A i \in Images : known'[i] \in Nat /\ (InList(i) => known'[i] > 0)
    BY <2>1, <2>3, <2>4 DEF ImagesTyped
  <2>6. ImagesTyped'
    BY <2>1, <2>2, <2>5 DEF ImagesTyped
  <2>7. ListIsLive' /\ CallsAreDue'
    BY <2>1, <2>2 DEF ListIsLive, CallsAreDue, Serving
  <2>8. ListIsComplete'
    BY <2>1, <2>2 DEF ListIsComplete, Readable, InList, Due, Serving
  <2>9. CacheIsComplete'
    BY <2>1, <2>2, <2>5, ImageFields DEF ListIsComplete, CacheIsComplete, Readable, Due, Serving
  <2>10. QED
    BY <2>6, <2>7, <2>8, <2>9
<1>6. CASE RegisterRemovedCallback
  <2>1. /\ UNCHANGED <<nodes, list, running, dyld, known>> /\ sdk.step = "removed"
        /\ sdk' = [sdk EXCEPT !.step = "on"] /\ callback' = [callback EXCEPT !.removed = TRUE]
    BY <1>6 DEF RegisterRemovedCallback
  <2>2. sdk' \in SdkRecord /\ sdk'.step = "on"
    BY <2>1 DEF ImagesTyped, SdkRecord, SdkSteps
  <2>3. callback' \in [added : BOOLEAN, removed : BOOLEAN] /\ (callback.added => callback'.added)
    BY <2>1 DEF ImagesTyped
  <2>4. ImagesTyped'
    BY <2>1, <2>2, <2>3 DEF ImagesTyped
  <2>5. ListIsLive' /\ CallsAreDue'
    BY <2>1, <2>2 DEF ListIsLive, CallsAreDue, Serving
  <2>6. ListIsComplete' /\ CacheIsComplete'
    BY <2>1, <2>2, <2>3 DEF ListIsComplete, CacheIsComplete, Readable, InList, Due, Serving
  <2>7. QED
    BY <2>4, <2>5, <2>6
<1>7. CASE StopCache
  <2>1. /\ UNCHANGED <<nodes, dyld, callback, known>> /\ running' = FALSE /\ list' = <<>>
        /\ sdk' = [sdk EXCEPT !.step = "free", !.free = list] /\ list \in Seq(Nat)
    BY <1>7 DEF StopCache, ImagesTyped
  <2>2. sdk' \in SdkRecord /\ sdk'.step = "free"
    BY <2>1 DEF ImagesTyped, SdkRecord, SdkSteps
  <2>3. ImagesTyped'
    <3>1. list' \in Seq(Nat)
      BY <2>1
    <3>2. running' \in BOOLEAN
      BY <2>1, Zenon
    <3>3. UNCHANGED <<nodes, dyld, callback, known>>
      BY <2>1
    <3>4. QED
      BY <2>2, <3>1, <3>2, <3>3 DEF ImagesTyped
  <2>4. ListIsLive'
    BY <2>1, <2>2 DEF ListIsLive, Serving
  <2>5. CallsAreDue' /\ ListIsComplete' /\ CacheIsComplete'
    BY <2>1, <2>2 DEF CallsAreDue, ListIsComplete, CacheIsComplete, Serving
  <2>6. QED
    BY <2>3, <2>4, <2>5
<1>8. CASE FreeNode
  <2>1. UNCHANGED <<list, running, dyld, callback, known>> /\ sdk.step = "free"
    BY <1>8 DEF FreeNode
  <2>2. sdk' \in SdkRecord /\ sdk'.step \in {"free", "stop"} /\ nodes' \in Seq(Node)
    <3>1. CASE sdk.free = <<>>
      <4>1. sdk' = [sdk EXCEPT !.step = "stop"] /\ nodes' = nodes
        BY <1>8, <3>1 DEF FreeNode
      <4>2. QED
        BY <4>1 DEF ImagesTyped, SdkRecord, SdkSteps
    <3>2. CASE sdk.free # <<>>
      <4>1. PICK q \in Seq(Nat) : q = sdk.free
        BY ImageFields
      <4>2. Tail(q) \in Seq(Nat) /\ q[1] \in Nat
        BY <3>2, <4>1, TailFacts
      <4>3. sdk' = [sdk EXCEPT !.free = Tail(q)] /\ nodes' = [nodes EXCEPT ![q[1]].freed = TRUE]
        BY <1>8, <3>2, <4>1 DEF FreeNode
      <4>4. sdk' \in SdkRecord /\ sdk'.step = sdk.step
        BY <4>2, <4>3 DEF ImagesTyped, SdkRecord
      <4>5. PICK v \in Seq(Node) : v = nodes
        BY DEF ImagesTyped
      <4>6. QED
        BY <2>1, <4>2, <4>3, <4>4, <4>5, NodeTypes
    <3>3. QED
      BY <3>1, <3>2
  <2>3. ImagesTyped'
    BY <2>1, <2>2 DEF ImagesTyped
  <2>4. ListIsLive'
    BY <2>1, <2>2 DEF ListIsLive, Serving
  <2>5. CallsAreDue' /\ ListIsComplete' /\ CacheIsComplete'
    BY <2>1, <2>2 DEF CallsAreDue, ListIsComplete, CacheIsComplete, Serving
  <2>6. QED
    BY <2>3, <2>4, <2>5
<1>9. CASE StopCallbacks
  <2>1. /\ UNCHANGED <<nodes, list, running, dyld>> /\ sdk.step = "stop" /\ known' = [i \in Images |-> 0]
        /\ sdk' = [sdk EXCEPT !.step = "off"] /\ callback' = [added |-> FALSE, removed |-> FALSE]
    BY <1>9 DEF StopCallbacks
  <2>2. sdk' \in SdkRecord /\ sdk'.step = "off"
    BY <2>1 DEF ImagesTyped, SdkRecord, SdkSteps
  <2>3. known' \in [Images -> Nat] /\ callback' \in [added : BOOLEAN, removed : BOOLEAN]
    BY <2>1
  <2>4. ImagesTyped'
    BY <2>1, <2>2, <2>3 DEF ImagesTyped
  <2>5. ListIsLive'
    BY <2>1, <2>2 DEF ListIsLive, Serving
  <2>6. CallsAreDue' /\ ListIsComplete' /\ CacheIsComplete'
    BY <2>1, <2>2 DEF CallsAreDue, ListIsComplete, CacheIsComplete, Serving
  <2>7. QED
    BY <2>4, <2>5, <2>6
<1>10. QED
  BY <1>1, <1>2, <1>3, <1>4, <1>5, <1>6, <1>7, <1>8, <1>9

(* ImagesInd is inductive.                                                 *)
LEMMA ImagesInvariance == ImagesInd /\ [ImagesNext]_imageVars => ImagesInd'
<1> SUFFICES ASSUME ImagesInd, [ImagesNext]_imageVars PROVE ImagesInd'
  OBVIOUS
<1>1. CASE UNCHANGED imageVars
  BY <1>1 DEF imageVars, ImagesInd, ImagesTyped, ListIsLive, CallsAreDue, ListIsComplete, CacheIsComplete,
              InList, Due, Readable
<1>2. QED
  BY <1>1, LoadNext, AddNext, RemoveNext, SdkNext DEF ImagesNext

(***************************************************************************)
(* The crash handler meets no freed node, and at rest every loaded image   *)
(* with a readable header is in the list it walks and in the cache that    *)
(* symbolicates events, whatever dyld loaded and unloaded while the caches *)
(* started, stopped and started again.                                     *)
(***************************************************************************)
THEOREM LoadedImagesAreComplete == ImagesSpec => []ImagesAreComplete
<1>1. ImagesInd => ImagesAreComplete
  <2> SUFFICES ASSUME ImagesInd PROVE ImagesAreComplete
    OBVIOUS
  <2>1. \A n \in WalkedNodes : ~nodes[n].freed
    BY DEF ImagesInd, WalkedNodes, ListIsLive
  <2>2. ASSUME sdk.step = "on", dyld.todo = <<>>, NEW i \in dyld.loaded \ Unreadable
        PROVE  i \in ReportedImages /\ i \in Images /\ known[i] > 0
    <3>1. DOMAIN dyld.todo = {} /\ i \in Images /\ i \in Readable
      BY <2>2, ImageFields DEF ImagesInd, Readable
    <3>2. InList(i) /\ known[i] > 0 /\ running
      BY <2>2, <3>1 DEF ImagesInd, ListIsComplete, CacheIsComplete, ListIsLive, Serving
    <3>3. QED
      BY <3>1, <3>2 DEF InList, ReportedImages, WalkedNodes
  <2>3. QED
    BY <2>1, <2>2 DEF ImagesAreComplete
<1>2. QED
  BY <1>1, ImagesInitInd, ImagesInvariance, PTL DEF ImagesSpec

-----------------------------------------------------------------------------
(***************************************************************************)
(* The scope and its mirror.                                               *)
(***************************************************************************)
ScopeCall == [op : {"none", "set", "remove", "clear"}, field : ScopeFields \cup {Nil},
              new : ScopeValues \cup {Nil}, todo : SUBSET ScopeFields]

FieldsTyped ==
    /\ value \in [ScopeFields -> ScopeValues \cup {Nil}]
    /\ mirror \in [ScopeFields -> ScopeValues \cup {Nil, "propagation"}]
    /\ holder \in [ScopeFields -> ScopeThreads \cup {Unheld}]
    /\ thread \in [ScopeThreads -> ScopeCall]
    /\ \A t \in ScopeThreads : thread[t].op = "set" => thread[t].field \in ScopeFields

(* A thread that sets a field with a lock holds it, so that the scope      *)
(* keeps the value until the observer is told, unless a clear may take it  *)
(* away without the lock.                                                  *)
SetterHolds ==
    \A t \in ScopeThreads : thread[t].op = "set" =>
        /\ thread[t].field \notin WithoutLock => holder[thread[t].field] = t
        /\ thread[t].field \notin ClearedFreely => value[thread[t].field] = thread[t].new

(* When no clear is under way, a field is mirrored or will be.             *)
MirroredOrTouched ==
    ~ClearIsUnderWay =>
        \A f \in ScopeFields \ stale :
            mirror[f] = Shown(f, value[f]) \/ \E t \in ScopeThreads : f \in Touches(thread[t])

(* A clear empties every field that nobody sets meanwhile.                 *)
ClearsAll ==
    /\ \A t \in ScopeThreads : thread[t].op = "clear" =>
           \A f \in ScopeFields \ overlap : value[f] = Nil \/ f \in thread[t].todo
    /\ ClearIsUnderWay => \A t \in ScopeThreads : Touches(thread[t]) \subseteq overlap

(* The inductive invariant.                                                *)
FieldsInd == FieldsTyped /\ SetterHolds /\ MirroredOrTouched /\ ClearsAll

(* What a call writes to the mirror.                                       *)
LEMMA TouchesFacts ==
    ASSUME NEW c
    PROVE  /\ c.op = "set" => Touches(c) = {c.field}
           /\ c.op = "remove" => Touches(c) = {"extras"}
           /\ c.op \notin {"set", "remove"} => Touches(c) = {}
BY DEF Touches

LEMMA FieldsInitInd == FieldsInit => FieldsInd
<1> SUFFICES ASSUME FieldsInit PROVE FieldsInd
  OBVIOUS
<1> USE ScopeAssumption
<1>1. FieldsTyped
  BY DEF FieldsInit, FieldsTyped, ScopeCall, Resting
<1>2. \A t \in ScopeThreads : thread[t].op = "none"
  BY DEF FieldsInit, Resting
<1>3. MirroredOrTouched
  BY DEF FieldsInit, MirroredOrTouched, Shown
<1>4. QED
  BY <1>1, <1>2, <1>3 DEF FieldsInd, SetterHolds, ClearsAll, ClearIsUnderWay

(* A call to the scope that sets a field: the observer's part is to come.  *)
LEMMA SetterNext ==
    ASSUME FieldsInd, NEW t \in ScopeThreads,
           \/ \E f \in ScopeFields, v \in ScopeValues \cup {Nil} : SetScopeField(t, f, v)
           \/ \E v \in ScopeValues \cup {Nil} : RemoveContext(t, v)
    PROVE  FieldsInd'
<1> USE ScopeAssumption DEF FieldsInd
<1>1. PICK f \in ScopeFields, v \in ScopeValues \cup {Nil}, c \in ScopeCall :
        /\ Locks(t, f) /\ value' = [value EXCEPT ![f] = v] /\ thread' = [thread EXCEPT ![t] = c]
        /\ UNCHANGED mirror /\ stale \subseteq stale' /\ thread[t] = Resting
        /\ overlap' = IF ClearIsUnderWay THEN overlap \cup {f} \cup Touches(c) ELSE overlap
        /\ \/ c.op = "set" /\ c.field = f /\ c.new = v
           \/ c.op = "remove" /\ f \in stale'
  <2>1. ASSUME NEW f \in ScopeFields, NEW v \in ScopeValues \cup {Nil}, SetScopeField(t, f, v)
        PROVE  /\ Locks(t, f) /\ value' = [value EXCEPT ![f] = v] /\ UNCHANGED <<mirror, stale>>
               /\ thread[t] = Resting /\ overlap' = (IF ClearIsUnderWay THEN overlap \cup {f} ELSE overlap)
               /\ thread' = [thread EXCEPT ![t] = [op |-> "set", field |-> f, new |-> v, todo |-> {}]]
    BY <2>1 DEF SetScopeField, Overlaps, MayCall
  <2>2. ASSUME NEW v \in ScopeValues \cup {Nil}, RemoveContext(t, v)
        PROVE  /\ Locks(t, "context") /\ value' = [value EXCEPT !["context"] = v] /\ UNCHANGED mirror
               /\ stale' = stale \cup {"context"} /\ thread[t] = Resting
               /\ overlap' = (IF ClearIsUnderWay THEN overlap \cup {"context", "extras"} ELSE overlap)
               /\ thread' = [thread EXCEPT ![t] = [op |-> "remove", field |-> "context", new |-> v, todo |-> {}]]
    BY <2>2 DEF RemoveContext, Overlaps, MayCall
  <2>3. \A f \in ScopeFields, v \in ScopeValues \cup {Nil} :
          /\ [op |-> "set", field |-> f, new |-> v, todo |-> {}] \in ScopeCall
          /\ [op |-> "remove", field |-> f, new |-> v, todo |-> {}] \in ScopeCall
          /\ Touches([op |-> "set", field |-> f, new |-> v, todo |-> {}]) = {f}
          /\ Touches([op |-> "remove", field |-> f, new |-> v, todo |-> {}]) = {"extras"}
    BY DEF ScopeCall, Touches
  <2>4. CASE \E f \in ScopeFields, v \in ScopeValues \cup {Nil} : SetScopeField(t, f, v)
    <3>1. PICK f \in ScopeFields, v \in ScopeValues \cup {Nil} : SetScopeField(t, f, v)
      BY <2>4
    <3>2. PICK c \in ScopeCall : c = [op |-> "set", field |-> f, new |-> v, todo |-> {}] /\ Touches(c) = {f}
      BY <2>3
    <3>3. overlap \cup {f} \cup {f} = overlap \cup {f} /\ c.op = "set" /\ c.field = f /\ c.new = v
      BY <3>2
    <3>4. thread' = [thread EXCEPT ![t] = c]
      BY <2>1, <3>1, <3>2
    <3>5. /\ Locks(t, f) /\ value' = [value EXCEPT ![f] = v] /\ UNCHANGED <<mirror, stale>>
          /\ thread[t] = Resting
          /\ overlap' = IF ClearIsUnderWay THEN overlap \cup {f} \cup Touches(c) ELSE overlap
      BY <2>1, <3>1, <3>2, <3>3
    <3>6. QED
      BY <3>3, <3>4, <3>5
  <2>5. CASE \E v \in ScopeValues \cup {Nil} : RemoveContext(t, v)
    <3>1. PICK v \in ScopeValues \cup {Nil} : RemoveContext(t, v)
      BY <2>5
    <3>2. "context" \in ScopeFields
      OBVIOUS
    <3>3. PICK c \in ScopeCall :
            c = [op |-> "remove", field |-> "context", new |-> v, todo |-> {}] /\ Touches(c) = {"extras"}
      BY <2>3, <3>2
    <3>4. overlap \cup {"context"} \cup {"extras"} = overlap \cup {"context", "extras"} /\ c.op = "remove"
      BY <3>3
    <3>5. QED
      BY <2>2, <3>1, <3>2, <3>3, <3>4
  <2>6. QED
    BY <2>4, <2>5
<1>2. /\ holder[f] = Unheld /\ holder' \in [ScopeFields -> ScopeThreads \cup {Unheld}]
      /\ \A k \in ScopeFields \ {f} : holder'[k] = holder[k]
      /\ f \notin WithoutLock => holder'[f] = t
  BY <1>1 DEF Locks, FieldsTyped
<1>3. thread'[t] = c /\ \A u \in ScopeThreads \ {t} : thread'[u] = thread[u]
  BY <1>1 DEF FieldsTyped
<1>4. value'[f] = v /\ \A k \in ScopeFields \ {f} : value'[k] = value[k]
  BY <1>1 DEF FieldsTyped
<1>5. FieldsTyped'
  BY <1>1, <1>2, <1>3 DEF FieldsTyped
<1>6. SetterHolds'
  <2>1. ASSUME NEW u \in ScopeThreads, u # t, thread[u].op = "set", thread[u].field \notin WithoutLock
        PROVE  thread[u].field # f /\ thread[u].field \in ScopeFields
    BY <1>2, <2>1 DEF SetterHolds, FieldsTyped
  <2>2. WithoutLock \subseteq ClearedFreely
    BY DEF ClearedFreely
  <2>3. QED
    BY <1>1, <1>2, <1>3, <1>4, <2>1, <2>2 DEF SetterHolds
<1>7. (ClearIsUnderWay' <=> ClearIsUnderWay) /\ c.op # "clear" /\ thread[t].op = "none"
  BY <1>1, <1>3 DEF ClearIsUnderWay, Resting
<1>8. Touches(thread[t]) = {} /\ (c.op = "set" => f \in Touches(c))
  BY <1>1, <1>7, TouchesFacts
<1>9. MirroredOrTouched'
  <2> SUFFICES ASSUME ~ClearIsUnderWay, NEW k \in ScopeFields \ stale'
               PROVE  mirror'[k] = Shown(k, value'[k]) \/ \E u \in ScopeThreads : k \in Touches(thread'[u])
    BY <1>7 DEF MirroredOrTouched
  <2>1. CASE k = f
    BY <1>1, <1>3, <1>8, <2>1
  <2>2. CASE k # f
    <3>1. mirror[k] = Shown(k, value[k]) \/ \E u \in ScopeThreads : k \in Touches(thread[u])
      BY <1>1 DEF MirroredOrTouched
    <3>2. CASE mirror[k] = Shown(k, value[k])
      BY <1>1, <1>4, <2>2, <3>2
    <3>3. CASE \E u \in ScopeThreads : k \in Touches(thread[u])
      BY <1>3, <1>8, <3>3
    <3>4. QED
      BY <3>1, <3>2, <3>3
  <2>3. QED
    BY <2>1, <2>2
<1>10. ClearsAll'
  <2>1. ASSUME NEW u \in ScopeThreads, thread'[u].op = "clear", NEW k \in ScopeFields \ overlap'
        PROVE  value'[k] = Nil \/ k \in thread'[u].todo
    <3>1. u # t /\ thread'[u] = thread[u] /\ ClearIsUnderWay
      BY <1>3, <1>7, <2>1 DEF ClearIsUnderWay
    <3>2. k # f /\ k \notin overlap
      BY <1>1, <2>1, <3>1
    <3>3. QED
      BY <1>4, <2>1, <3>1, <3>2 DEF ClearsAll
  <2>2. ASSUME ClearIsUnderWay, NEW u \in ScopeThreads PROVE Touches(thread'[u]) \subseteq overlap'
    BY <1>1, <1>3, <2>2 DEF ClearsAll
  <2>3. QED
    BY <1>7, <2>1, <2>2 DEF ClearsAll
<1>11. QED
  BY <1>5, <1>6, <1>9, <1>10

(* The observer is told.                                                   *)
LEMMA SyncsNext ==
    ASSUME FieldsInd, NEW t \in ScopeThreads, Syncs(t)
    PROVE  FieldsInd'
<1> USE ScopeAssumption DEF FieldsInd
<1>1. PICK f \in ScopeFields : Touches(thread[t]) = {f} /\ (thread[t].op = "set" => f = thread[t].field)
  BY TouchesFacts DEF Syncs, FieldsTyped
<1>2. (CHOOSE x \in Touches(thread[t]) : TRUE) = f
  BY <1>1
<1>3. PICK v \in ScopeValues \cup {Nil}, h \in ScopeFields \cup {Nil} : v = thread[t].new /\ h = thread[t].field
  BY DEF FieldsTyped, ScopeCall
<1>4. /\ SyncScope(f, v) /\ UNCHANGED value /\ thread' = [thread EXCEPT ![t] = Resting]
      /\ stale' = IF thread[t].op = "remove" \/ v \in Unencodable \/ Raced(t, f)
                  THEN stale \cup {f} ELSE stale \ {f}
      /\ overlap' = IF ClearIsUnderWay THEN overlap \cup {f} ELSE overlap
      /\ holder' = [holder EXCEPT ![h] = IF @ = t THEN Unheld ELSE @]
      /\ thread[t].op \in {"set", "remove"}
  BY <1>2, <1>3 DEF Syncs, Overlaps
<1>5. thread'[t] = Resting /\ \A u \in ScopeThreads \ {t} : thread'[u] = thread[u]
  BY <1>4 DEF FieldsTyped
<1>6. Resting \in ScopeCall /\ Resting.op = "none" /\ Touches(Resting) = {}
  BY DEF Resting, ScopeCall, Touches
<1>7. /\ mirror' \in [ScopeFields -> ScopeValues \cup {Nil, "propagation"}]
      /\ v \notin Unencodable => mirror'[f] = Shown(f, v)
      /\ \A k \in ScopeFields \ {f} : mirror'[k] = mirror[k]
  BY <1>4 DEF SyncScope, SetField, Shown, FieldsTyped
<1>8. /\ holder' \in [ScopeFields -> ScopeThreads \cup {Unheld}]
      /\ \A k \in ScopeFields : holder[k] # t => holder'[k] = holder[k]
  BY <1>4 DEF FieldsTyped
<1>9. FieldsTyped'
  BY <1>4, <1>5, <1>6, <1>7, <1>8 DEF FieldsTyped
<1>10. SetterHolds'
  BY <1>4, <1>5, <1>6, <1>8 DEF SetterHolds, FieldsTyped
<1>11. ClearIsUnderWay' <=> ClearIsUnderWay
  BY <1>4, <1>5, <1>6 DEF ClearIsUnderWay
<1>12. f \notin stale' => v \notin Unencodable /\ value[f] = v
  <2> SUFFICES ASSUME f \notin stale' PROVE v \notin Unencodable /\ value[f] = v
    OBVIOUS
  <2>1. thread[t].op = "set" /\ v \notin Unencodable /\ ~Raced(t, f)
    BY <1>4
  <2>2. CASE f \in ClearedFreely
    BY <1>3, <2>1, <2>2 DEF Raced
  <2>3. CASE f \notin ClearedFreely
    BY <1>1, <1>3, <2>1, <2>3 DEF SetterHolds
  <2>4. QED
    BY <2>1, <2>2, <2>3
<1>13. MirroredOrTouched'
  <2> SUFFICES ASSUME ~ClearIsUnderWay, NEW k \in ScopeFields \ stale'
               PROVE  mirror'[k] = Shown(k, value[k]) \/ \E u \in ScopeThreads : k \in Touches(thread'[u])
    BY <1>4, <1>11 DEF MirroredOrTouched
  <2>1. CASE k = f
    BY <1>7, <1>12, <2>1
  <2>2. CASE k # f
    <3>1. k \notin stale
      BY <1>4, <2>2
    <3>2. mirror[k] = Shown(k, value[k]) \/ \E u \in ScopeThreads \ {t} : k \in Touches(thread[u])
      BY <1>1, <2>2, <3>1 DEF MirroredOrTouched
    <3>3. QED
      BY <1>5, <1>7, <2>2, <3>2
  <2>3. QED
    BY <2>1, <2>2
<1>14. ClearsAll'
  BY <1>4, <1>5, <1>6, <1>11 DEF ClearsAll, ClearIsUnderWay
<1>15. QED
  BY <1>9, <1>10, <1>13, <1>14

(* The steps of clear.                                                     *)
LEMMA ClearsNext ==
    ASSUME FieldsInd, NEW t \in ScopeThreads, ClearScope(t) \/ ClearField(t) \/ ClearMirror(t)
    PROVE  FieldsInd'
<1> USE ScopeAssumption DEF FieldsInd
<1>1. CASE ClearScope(t)
  <2> DEFINE c == [op |-> "clear", field |-> Nil, new |-> Nil, todo |-> ScopeFields]
  <2>1. /\ thread' = [thread EXCEPT ![t] = c] /\ thread[t] = Resting
        /\ overlap' = overlap \cup UNION {Touches(thread[u]) : u \in Others(t)}
        /\ UNCHANGED <<value, mirror, holder, stale>>
    BY <1>1 DEF ClearScope, MayCall
  <2>2. c \in ScopeCall /\ c.op = "clear" /\ Touches(c) = {} /\ c.todo = ScopeFields
    BY DEF ScopeCall, Touches
  <2> HIDE DEF c
  <2>3. thread'[t] = c /\ \A u \in ScopeThreads \ {t} : thread'[u] = thread[u]
    BY <2>1 DEF FieldsTyped
  <2>4. FieldsTyped' /\ SetterHolds'
    BY <2>1, <2>2, <2>3 DEF FieldsTyped, SetterHolds
  <2>5. ClearIsUnderWay'
    BY <2>2, <2>3 DEF ClearIsUnderWay
  <2>6. ClearsAll'
    BY <2>1, <2>2, <2>3 DEF ClearsAll, Others
  <2>7. QED
    BY <2>4, <2>5, <2>6 DEF MirroredOrTouched
<1>2. CASE ClearField(t)
  <2>1. PICK f \in thread[t].todo :
          /\ f \notin ClearedFreely => holder[f] = Unheld
          /\ value' = [value EXCEPT ![f] = Nil] /\ thread[t].op = "clear"
          /\ thread' = [thread EXCEPT ![t].todo = @ \ {f}] /\ UNCHANGED <<mirror, holder, stale, overlap>>
    BY <1>2 DEF ClearField
  <2>2. f \in ScopeFields
    BY DEF FieldsTyped, ScopeCall
  <2>3. /\ \A u \in ScopeThreads \ {t} : thread'[u] = thread[u]
        /\ thread'[t].op = "clear" /\ thread'[t].todo = thread[t].todo \ {f}
        /\ thread' \in [ScopeThreads -> ScopeCall]
    BY <2>1 DEF FieldsTyped, ScopeCall
  <2>4. value'[f] = Nil /\ (\A k \in ScopeFields \ {f} : value'[k] = value[k])
        /\ value' \in [ScopeFields -> ScopeValues \cup {Nil}]
    BY <2>1, <2>2 DEF FieldsTyped
  <2>5. FieldsTyped'
    BY <2>1, <2>3, <2>4 DEF FieldsTyped
  <2>6. SetterHolds'
    BY <2>1, <2>3, <2>4 DEF SetterHolds, FieldsTyped, ClearedFreely
  <2>7. ClearIsUnderWay' /\ ClearIsUnderWay
    BY <2>1, <2>3 DEF ClearIsUnderWay
  <2>8. ClearsAll'
    <3>1. ASSUME NEW u \in ScopeThreads, thread'[u].op = "clear", NEW k \in ScopeFields \ overlap'
          PROVE  value'[k] = Nil \/ k \in thread'[u].todo
      BY <2>1, <2>3, <2>4, <3>1 DEF ClearsAll
    <3>2. ASSUME NEW u \in ScopeThreads PROVE Touches(thread'[u]) \subseteq overlap'
      <4>1. CASE u = t
        BY <2>3, <4>1, TouchesFacts
      <4>2. CASE u # t
        BY <2>1, <2>3, <2>7, <4>2 DEF ClearsAll
      <4>3. QED
        BY <4>1, <4>2
    <3>3. QED
      BY <3>1, <3>2 DEF ClearsAll
  <2>9. QED
    BY <2>5, <2>6, <2>7, <2>8 DEF MirroredOrTouched
<1>3. CASE ClearMirror(t)
  <2>1. /\ thread[t].op = "clear" /\ thread[t].todo = {}
        /\ mirror' = [f \in ScopeFields |-> IF f = "trace" THEN mirror[f] ELSE Nil]
        /\ thread' = [thread EXCEPT ![t] = Resting] /\ stale' = {"trace"} \cup overlap
        /\ overlap' = IF \E u \in Others(t) : thread[u].op = "clear" THEN overlap ELSE {}
        /\ UNCHANGED <<value, holder>>
    BY <1>3 DEF ClearMirror
  <2>2. Resting \in ScopeCall /\ Resting.op = "none" /\ Touches(Resting) = {}
    BY DEF Resting, ScopeCall, Touches
  <2>3. thread'[t] = Resting /\ \A u \in ScopeThreads \ {t} : thread'[u] = thread[u]
    BY <2>1 DEF FieldsTyped
  <2>4. FieldsTyped' /\ SetterHolds'
    BY <2>1, <2>2, <2>3 DEF FieldsTyped, SetterHolds
  <2>5. ClearIsUnderWay' <=> \E u \in Others(t) : thread[u].op = "clear"
    BY <2>2, <2>3 DEF ClearIsUnderWay, Others
  <2>6. ClearIsUnderWay
    BY <2>1 DEF ClearIsUnderWay
  <2>7. MirroredOrTouched'
    <3> SUFFICES ASSUME NEW f \in ScopeFields \ stale' PROVE mirror'[f] = Shown(f, value'[f])
      BY DEF MirroredOrTouched
    <3>1. value[f] = Nil /\ f # "trace"
      BY <2>1 DEF ClearsAll
    <3>2. QED
      BY <2>1, <3>1 DEF Shown
  <2>8. ClearsAll'
    BY <2>1, <2>2, <2>3, <2>5, <2>6 DEF ClearsAll, Others, ClearIsUnderWay
  <2>9. QED
    BY <2>4, <2>7, <2>8
<1>4. QED
  BY <1>1, <1>2, <1>3

(* FieldsInd is inductive.                                                 *)
LEMMA FieldsInvariance == FieldsInd /\ [FieldsNext]_fieldVars => FieldsInd'
<1> SUFFICES ASSUME FieldsInd, [FieldsNext]_fieldVars PROVE FieldsInd'
  OBVIOUS
<1>1. CASE UNCHANGED fieldVars
  BY <1>1 DEF fieldVars, FieldsInd, FieldsTyped, SetterHolds, MirroredOrTouched, ClearsAll, ClearIsUnderWay
<1>2. QED
  BY <1>1, SetterNext, SyncsNext, ClearsNext DEF FieldsNext

(***************************************************************************)
(* A crash that no call to the scope is in the way of finds each field as  *)
(* the scope has it, but for those named in stale, however setters and     *)
(* clears of any number of threads interleave.                             *)
(***************************************************************************)
THEOREM MirrorFollowsScope == FieldsSpec => []ScopeIsMirrored
<1>1. FieldsInd => ScopeIsMirrored
  <2> SUFFICES ASSUME FieldsInd, \A t \in ScopeThreads : thread[t] = Resting, NEW f \in ScopeFields \ stale
               PROVE  mirror[f] = Shown(f, value[f])
    BY DEF ScopeIsMirrored
  <2>1. \A t \in ScopeThreads : thread[t].op = "none"
    BY DEF Resting
  <2>2. ~ClearIsUnderWay /\ \A t \in ScopeThreads : Touches(thread[t]) = {}
    BY <2>1, TouchesFacts DEF ClearIsUnderWay
  <2>3. QED
    BY <2>2 DEF FieldsInd, MirroredOrTouched
<1>2. QED
  BY <1>1, FieldsInitInd, FieldsInvariance, PTL DEF FieldsSpec

----------------------------------------------------------------------------
(***************************************************************************)
(* The crash state.  Until the monitor is enabled the file says what       *)
(* happened (FileIsTrue); from then on the memory does, and the file is    *)
(* what a killed launch should leave (MemoryIsTrue).                       *)
(***************************************************************************)
StateRecord ==
    [crashedLastLaunch : BOOLEAN, crashedThisLaunch : BOOLEAN, applicationIsActive : BOOLEAN,
     appStateTransitionTime : Nat, launchesSinceLastCrash : Nat, activeDurationSinceLastCrash : Nat]

FileRecord ==
    [exists : BOOLEAN, full : BOOLEAN, flag : BOOLEAN, crashed : BOOLEAN, launches : Nat, active : Nat]

HistoryRecord == [crashed : BOOLEAN, launches : Nat, active : Nat, torn : BOOLEAN, clean : BOOLEAN]

EnabledSteps == {"list", "send", "delete", "drop", "up"}

LaunchRecord ==
    [n : Nat, step : EnabledSteps \cup {"off", "store", "loaded"}, base : Nat, low : Nat,
     listed : SUBSET Nat, failed : SUBSET Nat, restarted : BOOLEAN]

EntryRecord == [id : Nat, ext : {"json", "old", "attachments"}]

StateTyped ==
    /\ g \in StateRecord /\ file \in FileRecord /\ history \in HistoryRecord /\ launch \in LaunchRecord
    /\ app \in {"off", "inactive", "active", "background"} /\ now \in Nat
    /\ g.appStateTransitionTime <= now
    /\ disk \subseteq EntryRecord

\* What file f says of history h: the flag, the launches and the active time.
FileSays(f, h) ==
    /\ f.flag /\ f.crashed => h.crashed
    /\ h.crashed /\ f.full => f.flag /\ f.crashed
    /\ h.crashed /\ ~h.torn => f.exists /\ f.full
    /\ ~h.torn => f.launches = h.launches /\ (IF f.exists THEN f.full ELSE f.launches = 0)
    /\ f.full => f.active <= h.active

FileIsTrue == ~Enabled => app # "active" /\ FileSays(file, history)

LoadedIsFile == launch.step = "loaded" => g = LoadState(file)

\* The active time of this launch that the memory has not counted yet.
Uncounted(s) == IF s.applicationIsActive THEN now - s.appStateTransitionTime ELSE 0

MemorySays(s, h) ==
    /\ s.crashedLastLaunch => h.crashed
    /\ h.crashed /\ ~h.torn => s.crashedLastLaunch
    /\ ~h.torn => s.launchesSinceLastCrash = h.launches
    /\ s.activeDurationSinceLastCrash + Uncounted(s) <= h.active

MemoryIsTrue ==
    Enabled =>
        /\ MemorySays(g, history)
        /\ ~g.crashedThisLaunch
        /\ g.applicationIsActive <=> app = "active"
        /\ file.exists /\ file.full /\ ~file.crashed
        /\ ~history.torn => file.launches = history.launches
        /\ file.active <= history.active

StateInd ==
    /\ StateTyped
    /\ app = "off" <=> launch.step = "off"
    /\ history.clean => ~launch.restarted /\ FileIsTrue /\ LoadedIsFile /\ MemoryIsTrue

(* What the operations on the state do, field by field.                    *)
LEMMA LoadStateFields ==
    ASSUME NEW f \in FileRecord
    PROVE  /\ LoadState(f) \in StateRecord
           /\ LoadState(f).crashedLastLaunch <=> f.exists /\ f.flag /\ f.crashed
           /\ LoadState(f).crashedThisLaunch = FALSE /\ LoadState(f).applicationIsActive = FALSE
           /\ LoadState(f).appStateTransitionTime = 0
           /\ LoadState(f).launchesSinceLastCrash = IF f.exists /\ f.full THEN f.launches ELSE 0
           /\ LoadState(f).activeDurationSinceLastCrash = IF f.exists /\ f.full THEN f.active ELSE 0
<1>1. EmptyState \in StateRecord
  BY DEF EmptyState, StateRecord
<1>2. PICK c \in BOOLEAN, l \in Nat, a \in Nat :
        /\ c <=> f.flag /\ f.crashed
        /\ l = IF f.full THEN f.launches ELSE 0
        /\ a = IF f.full THEN f.active ELSE 0
  <2>1. (IF f.full THEN f.launches ELSE 0) \in Nat /\ (IF f.full THEN f.active ELSE 0) \in Nat
    BY DEF FileRecord
  <2>2. (f.flag /\ f.crashed) \in BOOLEAN
    OBVIOUS
  <2>3. QED
    BY <2>1, <2>2, Zenon
<1>3. CASE f.exists
  <2>1. (f.flag /\ f.crashed) = c
    BY <1>2 DEF FileRecord
  <2>2. LoadState(f) = [EmptyState EXCEPT !.crashedLastLaunch = c, !.launchesSinceLastCrash = l,
                                          !.activeDurationSinceLastCrash = a]
    BY <1>2, <1>3, <2>1 DEF LoadState, Decoded, EmptyState
  <2>3. LoadState(f) = [crashedLastLaunch |-> c, crashedThisLaunch |-> FALSE, applicationIsActive |-> FALSE,
                        appStateTransitionTime |-> 0, launchesSinceLastCrash |-> l, activeDurationSinceLastCrash |-> a]
    BY <2>2 DEF EmptyState
  <2>4. QED
    BY <1>2, <1>3, <2>3 DEF StateRecord
<1>4. CASE ~f.exists
  BY <1>1, <1>4 DEF LoadState, EmptyState
<1>5. QED
  BY <1>3, <1>4

LEMMA ResetFields ==
    ASSUME NEW s \in StateRecord
    PROVE  /\ Reset(s) \in StateRecord
           /\ Reset(s).crashedLastLaunch = s.crashedLastLaunch /\ Reset(s).crashedThisLaunch = FALSE
           /\ Reset(s).applicationIsActive = s.applicationIsActive
           /\ Reset(s).appStateTransitionTime = s.appStateTransitionTime
           /\ Reset(s).launchesSinceLastCrash = (IF s.crashedLastLaunch THEN 0 ELSE s.launchesSinceLastCrash) + 1
           /\ Reset(s).activeDurationSinceLastCrash = IF s.crashedLastLaunch THEN 0 ELSE s.activeDurationSinceLastCrash
<1>1. PICK l \in Nat, a \in Nat :
        /\ l = (IF s.crashedLastLaunch THEN 0 ELSE s.launchesSinceLastCrash) + 1
        /\ a = IF s.crashedLastLaunch THEN 0 ELSE s.activeDurationSinceLastCrash
  BY DEF StateRecord
<1>2. Reset(s) = [s EXCEPT !.crashedThisLaunch = FALSE, !.launchesSinceLastCrash = l,
                           !.activeDurationSinceLastCrash = a]
  BY <1>1 DEF Reset, StateRecord
<1>3. QED
  BY <1>1, <1>2 DEF StateRecord

LEMMA NotifyAppCrashFields ==
    ASSUME NEW s \in StateRecord, now \in Nat, s.appStateTransitionTime <= now
    PROVE  /\ NotifyAppCrash(s) \in StateRecord
           /\ NotifyAppCrash(s).crashedThisLaunch = TRUE
           /\ NotifyAppCrash(s).launchesSinceLastCrash = s.launchesSinceLastCrash
           /\ NotifyAppCrash(s).activeDurationSinceLastCrash = s.activeDurationSinceLastCrash + Uncounted(s)
<1>1. PICK a \in Nat : a = s.activeDurationSinceLastCrash + Uncounted(s)
  BY DEF Uncounted, StateRecord
<1>2. a = IF s.applicationIsActive THEN s.activeDurationSinceLastCrash + (now - s.appStateTransitionTime)
                                   ELSE s.activeDurationSinceLastCrash
  BY <1>1 DEF StateRecord, Uncounted
<1>3. NotifyAppCrash(s) = [s EXCEPT !.crashedThisLaunch = TRUE, !.activeDurationSinceLastCrash = a]
  BY <1>2 DEF NotifyAppCrash
<1>4. QED
  BY <1>1, <1>3 DEF StateRecord

LEMMA SaveStateFields ==
    ASSUME NEW s \in StateRecord
    PROVE  /\ SaveState(s) \in FileRecord
           /\ SaveState(s).exists /\ SaveState(s).full /\ SaveState(s).flag
           /\ SaveState(s).crashed = s.crashedThisLaunch
           /\ SaveState(s).launches = s.launchesSinceLastCrash
           /\ SaveState(s).active = s.activeDurationSinceLastCrash
  BY DEF SaveState, StateRecord, FileRecord

LEMMA TornFields ==
    ASSUME NEW s \in StateRecord, NEW f \in Torn(s)
    PROVE  f \in FileRecord /\ ~f.full /\ f.crashed = s.crashedThisLaunch
<1>1. PICK b \in BOOLEAN : f = [SaveState(s) EXCEPT !.full = FALSE, !.flag = b]
  BY DEF Torn
<1>2. QED
  BY <1>1, SaveStateFields DEF FileRecord

LEMMA StateInitInd == Init => StateInd
<1> SUFFICES ASSUME Init PROVE StateInd
  OBVIOUS
<1> USE DEF Init
<1>1. g \in StateRecord /\ g.appStateTransitionTime <= now
  BY DEF EmptyState, StateRecord
<1>2. file \in FileRecord
  BY DEF NoFile, FileRecord
<1>3. history \in HistoryRecord
  BY DEF HistoryRecord
<1>4. launch \in LaunchRecord
  BY DEF NoLaunch, LaunchRecord
<1>5. FileIsTrue /\ LoadedIsFile /\ MemoryIsTrue
  BY DEF FileIsTrue, FileSays, LoadedIsFile, MemoryIsTrue, Enabled, NoLaunch, NoFile
<1>6. QED
  BY <1>1, <1>2, <1>3, <1>4, <1>5 DEF StateInd, StateTyped, NoLaunch, EntryRecord

----------------------------------------------------------------------------
(* Types.  The entries that a step adds to the directory.                  *)
LEMMA NextIdType ==
    ASSUME StateTyped
    PROVE  NextUniqueID \in Nat /\ \A x \in {"json", "old", "attachments"} : Entry(NextUniqueID, x) \in EntryRecord
<1>1. NextUniqueID \in Nat
  BY DEF StateTyped, LaunchRecord, NextUniqueID
<1>2. QED
  BY <1>1 DEF Entry, EntryRecord

LEMMA WrittenType ==
    ASSUME StateTyped, NEW w \in Written(NextUniqueID), NEW a \in Attached(NextUniqueID)
    PROVE  w \subseteq EntryRecord /\ a \subseteq EntryRecord
  BY NextIdType DEF Written, Attached

\* The store: the launch and the directory, and the rest is left alone or reset.
LEMMA StoreTypes ==
    ASSUME StateTyped,
           \/ InitializeStore \/ ListReports \/ DeleteAllReports \/ AddUserReport \/ Restart
           \/ \E client \in BOOLEAN : SendReports(client)
    PROVE  StateTyped'
<1> USE CrashReportStoreAssumption
<1> DEFINE Sends == \E client \in BOOLEAN : SendReports(client)
<1>1. g' \in StateRecord /\ g'.appStateTransitionTime <= now'
  <2>1. \/ g' = EmptyState /\ UNCHANGED now
        \/ UNCHANGED <<g, now>>
    BY DEF InitializeStore, ListReports, DeleteAllReports, AddUserReport, Restart, SendReports
  <2>2. EmptyState \in StateRecord /\ EmptyState.appStateTransitionTime = 0
    BY DEF EmptyState, StateRecord
  <2>3. QED
    BY <2>1, <2>2 DEF StateTyped
<1>2. now' \in Nat /\ file' \in FileRecord /\ app' \in {"off", "inactive", "active", "background"}
  BY DEF StateTyped, InitializeStore, ListReports, DeleteAllReports, AddUserReport, Restart, SendReports
<1>3. history' \in HistoryRecord
  BY DEF StateTyped, InitializeStore, ListReports, DeleteAllReports, AddUserReport, Restart, SendReports, HistoryRecord
<1>4. disk' \subseteq EntryRecord
  <2>1. \/ disk' \subseteq disk
        \/ \E listed : disk' = PruneReports(disk, listed)
        \/ disk' = disk \cup {Entry(NextUniqueID, "json")}
    BY DEF InitializeStore, ListReports, DeleteAllReports, AddUserReport, Restart, SendReports, Enabled
  <2>2. ASSUME NEW listed PROVE PruneReports(disk, listed) \subseteq disk
    BY DEF PruneReports
  <2>3. QED
    BY <2>1, <2>2, NextIdType DEF StateTyped
<1>5. launch' \in LaunchRecord
  <2>1. now * IdsPerSecond \in Nat
    BY DEF StateTyped
  <2>2. CASE InitializeStore
    BY <2>1, <2>2 DEF StateTyped, InitializeStore, LaunchRecord
  <2>3. CASE Restart
    BY <2>1, <2>3 DEF StateTyped, Restart, LaunchRecord
  <2>4. CASE ListReports
    <3>1. Reports(disk) \subseteq Nat
      BY DEF StateTyped, Reports, EntryRecord
    <3>2. PICK S \in SUBSET Reports(disk), F \in SUBSET Reports(disk) :
            launch' = [launch EXCEPT !.step = "send", !.listed = S, !.failed = F]
      BY <2>4 DEF ListReports
    <3>3. QED
      BY <3>1, <3>2 DEF StateTyped, LaunchRecord, EnabledSteps
  <2>5. CASE Sends
    <3>1. PICK s \in {"delete", "drop"}, S \in SUBSET launch.listed : launch' = [launch EXCEPT !.step = s, !.failed = launch.listed \ S]
      BY <2>5 DEF SendReports
    <3>2. QED
      BY <3>1 DEF StateTyped, LaunchRecord, EnabledSteps
  <2>6. CASE DeleteAllReports
    BY <2>6 DEF StateTyped, DeleteAllReports, LaunchRecord, EnabledSteps
  <2>7. CASE AddUserReport
    BY <2>7 DEF StateTyped, AddUserReport, LaunchRecord
  <2>8. QED
    BY <2>2, <2>3, <2>4, <2>5, <2>6, <2>7
<1>6. QED
  BY <1>1, <1>2, <1>3, <1>4, <1>5 DEF StateTyped

\* The process ends: the types of what is left.
LEMMA EndTypes ==
    ASSUME StateTyped, Ends, UNCHANGED now, disk' \subseteq EntryRecord, file' \in FileRecord, g' \in StateRecord,
           UNCHANGED g \/ g' = NotifyAppCrash(g), history' \in HistoryRecord
    PROVE  StateTyped'
<1>1. launch' \in LaunchRecord
  BY DEF StateTyped, Ends, LaunchRecord
<1>2. g'.appStateTransitionTime <= now'
  BY DEF StateTyped, NotifyAppCrash, StateRecord
<1>3. QED
  BY <1>1, <1>2 DEF StateTyped, Ends

----------------------------------------------------------------------------
(* The store does not touch the state.                                     *)
LEMMA StoreKeepsState ==
    ASSUME StateInd,
           \/ InitializeStore \/ ListReports \/ DeleteAllReports \/ AddUserReport \/ Restart
           \/ \E client \in BOOLEAN : SendReports(client)
    PROVE  StateInd'
<1>1. StateTyped'
  BY StoreTypes DEF StateInd
<1>2. CASE InitializeStore
  <2>1. /\ ~Enabled /\ ~Enabled' /\ launch'.step = "store" /\ launch'.restarted = FALSE
        /\ app' = "inactive" /\ UNCHANGED <<file, history>>
    BY <1>2 DEF InitializeStore, Enabled
  <2>2. QED
    BY <1>1, <2>1 DEF StateInd, FileIsTrue, LoadedIsFile, MemoryIsTrue
<1>3. CASE Restart
  <2>1. history'.clean = FALSE /\ launch'.step = "store" /\ launch.step = "up" /\ UNCHANGED app
    BY <1>3 DEF Restart, StateInd, StateTyped, HistoryRecord, LaunchRecord
  <2>2. QED
    BY <1>1, <2>1 DEF StateInd
<1>4. CASE ListReports \/ DeleteAllReports \/ AddUserReport \/ \E client \in BOOLEAN : SendReports(client)
  <2>1. Enabled /\ UNCHANGED <<file, g, app, now, history>>
    BY <1>4 DEF ListReports, DeleteAllReports, AddUserReport, SendReports, Enabled
  <2>2. launch'.restarted = launch.restarted
    BY <1>4 DEF ListReports, DeleteAllReports, AddUserReport, SendReports, StateInd, StateTyped, LaunchRecord
  <2>3. Enabled'
    <3>1. CASE AddUserReport
      BY <3>1 DEF AddUserReport, Enabled, StateInd, StateTyped, LaunchRecord
    <3>2. CASE ListReports \/ DeleteAllReports
      BY <3>2 DEF ListReports, DeleteAllReports, Enabled, StateInd, StateTyped, LaunchRecord
    <3>3. CASE \E client \in BOOLEAN : SendReports(client)
      <4>1. PICK s \in {"delete", "drop"}, S \in SUBSET launch.listed : launch' = [launch EXCEPT !.step = s, !.failed = launch.listed \ S]
        BY <3>3 DEF SendReports
      <4>2. QED
        BY <4>1 DEF Enabled, StateInd, StateTyped, LaunchRecord
    <3>4. QED
      BY <1>4, <3>1, <3>2, <3>3
  <2>4. launch.step # "off" /\ launch'.step # "off" /\ launch'.step # "loaded"
    BY <2>1, <2>3 DEF Enabled
  <2>5. (FileIsTrue /\ MemoryIsTrue => FileIsTrue' /\ MemoryIsTrue') /\ LoadedIsFile'
    BY <2>1, <2>3, <2>4 DEF FileIsTrue, LoadedIsFile, MemoryIsTrue, MemorySays, Uncounted
  <2>6. QED
    BY <1>1, <2>1, <2>2, <2>4, <2>5 DEF StateInd
<1>5. QED
  BY <1>2, <1>3, <1>4

(* A launch loads what the file says, and counts itself.                   *)
LEMMA InitializeStateNext == StateInd /\ InitializeState => StateInd'
<1> SUFFICES ASSUME StateInd, InitializeState PROVE StateInd'
  OBVIOUS
<1>1. /\ launch.step = "store" /\ g' = LoadState(file) /\ launch' = [launch EXCEPT !.step = "loaded"]
      /\ UNCHANGED <<disk, file, app, now, history>>
  BY DEF InitializeState
<1>2. StateTyped'
  <2>1. launch' \in LaunchRecord
    BY <1>1 DEF StateInd, StateTyped, LaunchRecord
  <2>2. g' \in StateRecord /\ g'.appStateTransitionTime = 0
    BY <1>1, LoadStateFields DEF StateInd, StateTyped
  <2>3. QED
    BY <1>1, <2>1, <2>2 DEF StateInd, StateTyped
<1>3. launch'.step = "loaded" /\ launch'.restarted = launch.restarted /\ ~Enabled /\ ~Enabled'
  BY <1>1 DEF StateInd, StateTyped, LaunchRecord, Enabled
<1>4. QED
  BY <1>1, <1>2, <1>3 DEF StateInd, FileIsTrue, LoadedIsFile, MemoryIsTrue

\* How history counts a launch that enables the monitor.
LEMMA EnableHistory ==
    ASSUME StateTyped, Enable
    PROVE  /\ history' \in HistoryRecord
           /\ history'.crashed = history.crashed /\ history'.torn = history.torn /\ history'.clean = history.clean
           /\ history'.launches = (IF history.crashed THEN 0 ELSE history.launches) + 1
           /\ history'.active = IF history.crashed THEN 0 ELSE history.active
<1>1. PICK l \in Nat, a \in Nat :
        /\ l = (IF history.crashed THEN 0 ELSE history.launches) + 1
        /\ a = IF history.crashed THEN 0 ELSE history.active
  BY DEF StateTyped, HistoryRecord
<1>2. history' = [history EXCEPT !.launches = l, !.active = a]
  BY <1>1 DEF Enable
<1>3. QED
  BY <1>1, <1>2 DEF StateTyped, HistoryRecord

LEMMA EnableNext == StateInd /\ Enable => StateInd'
<1> SUFFICES ASSUME StateInd, Enable PROVE StateInd'
  OBVIOUS
<1>1. /\ launch.step = "loaded" /\ g' = Reset(g) /\ file' = SaveState(Reset(g))
      /\ UNCHANGED <<disk, app, now>>
  BY DEF Enable
<1>2. PICK s \in {"up", "list"} : launch' = [launch EXCEPT !.step = s]
  BY DEF Enable
<1>3. launch' \in LaunchRecord /\ launch'.step = s /\ launch'.restarted = launch.restarted
  BY <1>2 DEF StateInd, StateTyped, LaunchRecord, EnabledSteps
<1>4. /\ g' \in StateRecord /\ g'.crashedLastLaunch = g.crashedLastLaunch /\ g'.crashedThisLaunch = FALSE
      /\ g'.applicationIsActive = g.applicationIsActive /\ g'.appStateTransitionTime = g.appStateTransitionTime
      /\ g'.launchesSinceLastCrash = (IF g.crashedLastLaunch THEN 0 ELSE g.launchesSinceLastCrash) + 1
      /\ g'.activeDurationSinceLastCrash = IF g.crashedLastLaunch THEN 0 ELSE g.activeDurationSinceLastCrash
  BY <1>1, ResetFields DEF StateInd, StateTyped
<1>5. /\ file' \in FileRecord /\ file'.exists /\ file'.full /\ file'.flag /\ file'.crashed = FALSE
      /\ file'.launches = g'.launchesSinceLastCrash /\ file'.active = g'.activeDurationSinceLastCrash
  BY <1>1, <1>4, SaveStateFields
<1>6. StateTyped'
  BY <1>1, <1>3, <1>4, <1>5, EnableHistory DEF StateInd, StateTyped
<1>7. ASSUME history.clean PROVE MemoryIsTrue'
  <2>1. /\ g.crashedLastLaunch <=> file.exists /\ file.flag /\ file.crashed
        /\ g.applicationIsActive = FALSE
        /\ g.launchesSinceLastCrash = IF file.exists /\ file.full THEN file.launches ELSE 0
        /\ g.activeDurationSinceLastCrash = IF file.exists /\ file.full THEN file.active ELSE 0
    BY <1>1, <1>7, LoadStateFields DEF StateInd, StateTyped, LoadedIsFile
  <2>2. FileSays(file, history) /\ app # "active"
    BY <1>1, <1>7 DEF StateInd, FileIsTrue, Enabled
  <2>3. g.crashedLastLaunch => history.crashed
    BY <2>1, <2>2 DEF FileSays
  <2>4. history.crashed /\ ~history.torn => g.crashedLastLaunch
    BY <2>1, <2>2 DEF FileSays
  <2>5. ~history.torn => g'.launchesSinceLastCrash = history'.launches
    BY <1>4, <2>1, <2>2, <2>3, <2>4, EnableHistory DEF FileSays, StateInd, StateTyped, FileRecord
  <2>6. g'.activeDurationSinceLastCrash <= history'.active
    BY <1>4, <2>1, <2>2, <2>3, EnableHistory DEF FileSays, StateInd, StateTyped, FileRecord, HistoryRecord
  <2>7. Uncounted(g)' = 0
    BY <1>4, <2>1 DEF Uncounted
  <2>8. MemorySays(g, history)'
    BY <1>4, <2>3, <2>4, <2>5, <2>6, <2>7, EnableHistory DEF MemorySays, StateInd, StateTyped, StateRecord
  <2>9. QED
    BY <1>1, <1>4, <1>5, <2>1, <2>2, <2>5, <2>6, <2>8, EnableHistory DEF MemoryIsTrue, StateInd
<1>8. QED
  BY <1>1, <1>3, <1>6, <1>7, EnableHistory DEF StateInd, FileIsTrue, LoadedIsFile, Enabled

----------------------------------------------------------------------------
(* The app: time passes, it becomes active, and it saves in the background. *)
LEMMA TickNext == StateInd /\ Tick => StateInd'
<1> SUFFICES ASSUME StateInd, Tick PROVE StateInd'
  OBVIOUS
<1>1. now' = now + 1 /\ UNCHANGED <<disk, file, g, launch, app>>
  BY DEF Tick
<1>2. PICK a \in Nat : a = IF app = "active" THEN history.active + 1 ELSE history.active
  BY DEF StateInd, StateTyped, HistoryRecord
<1>3. history' = [history EXCEPT !.active = a]
  BY <1>2 DEF Tick
<1>4. /\ history' \in HistoryRecord /\ history'.active = a
      /\ history'.crashed = history.crashed /\ history'.launches = history.launches
      /\ history'.torn = history.torn /\ history'.clean = history.clean
  BY <1>3 DEF StateInd, StateTyped, HistoryRecord
<1>5. StateTyped'
  BY <1>1, <1>4 DEF StateInd, StateTyped, StateRecord
<1>6. FileSays(file, history) => FileSays(file, history)'
  <2>1. a >= history.active /\ history.active \in Nat /\ file.active \in Nat
    BY <1>2 DEF StateInd, StateTyped, HistoryRecord, FileRecord
  <2>2. file.active <= history.active => file'.active <= history'.active
    BY <1>1, <1>4, <2>1
  <2>3. QED
    BY <1>1, <1>4, <2>2 DEF FileSays
<1>7. MemoryIsTrue => MemoryIsTrue'
  <2> SUFFICES ASSUME MemoryIsTrue, Enabled PROVE MemoryIsTrue'
    BY <1>1 DEF MemoryIsTrue, Enabled
  <2>1. g.activeDurationSinceLastCrash + Uncounted(g)' <= history'.active /\ file.active <= history'.active
    <3>1. /\ g.activeDurationSinceLastCrash \in Nat /\ g.appStateTransitionTime \in Nat /\ now \in Nat
          /\ history.active \in Nat /\ file.active \in Nat
      BY DEF StateInd, StateTyped, StateRecord, HistoryRecord, FileRecord
    <3>2. CASE app = "active"
      BY <1>1, <1>2, <1>4, <3>1, <3>2 DEF MemoryIsTrue, MemorySays, Uncounted
    <3>3. CASE app # "active"
      BY <1>1, <1>2, <1>4, <3>1, <3>3 DEF MemoryIsTrue, MemorySays, Uncounted
    <3>4. QED
      BY <3>2, <3>3
  <2>2. MemorySays(g, history)'
    BY <1>1, <1>4, <2>1 DEF MemoryIsTrue, MemorySays
  <2>3. QED
    BY <1>1, <1>4, <2>1, <2>2 DEF MemoryIsTrue
<1>8. QED
  BY <1>1, <1>4, <1>5, <1>6, <1>7 DEF StateInd, FileIsTrue, LoadedIsFile, Enabled

LEMMA BecomeActiveNext == StateInd /\ BecomeActive => StateInd'
<1> SUFFICES ASSUME StateInd, BecomeActive PROVE StateInd'
  OBVIOUS
<1>1. app = "inactive" /\ app' = "active" /\ UNCHANGED <<disk, file, launch, now>>
  BY DEF BecomeActive
<1>2. PICK c \in BOOLEAN : history' = [history EXCEPT !.clean = c] /\ (c <=> history.clean /\ Enabled)
  BY DEF BecomeActive
<1>3. /\ history' \in HistoryRecord /\ (history'.clean <=> history.clean /\ Enabled)
      /\ history'.crashed = history.crashed /\ history'.launches = history.launches
      /\ history'.torn = history.torn /\ history'.active = history.active
  BY <1>2 DEF StateInd, StateTyped, HistoryRecord
<1>4. CASE Enabled
  <2>1. g' = [g EXCEPT !.applicationIsActive = TRUE, !.appStateTransitionTime = now]
    BY <1>4 DEF BecomeActive
  <2>2. /\ g' \in StateRecord /\ g'.applicationIsActive = TRUE /\ g'.appStateTransitionTime = now
        /\ g'.crashedLastLaunch = g.crashedLastLaunch /\ g'.crashedThisLaunch = g.crashedThisLaunch
        /\ g'.launchesSinceLastCrash = g.launchesSinceLastCrash
        /\ g'.activeDurationSinceLastCrash = g.activeDurationSinceLastCrash
    BY <2>1 DEF StateInd, StateTyped, StateRecord
  <2>3. StateTyped'
    BY <1>1, <1>3, <2>2 DEF StateInd, StateTyped
  <2>4. ASSUME MemoryIsTrue PROVE MemorySays(g, history)'
    <3>1. Uncounted(g) = 0 /\ Uncounted(g)' = 0
      BY <1>1, <1>4, <2>2, <2>4 DEF MemoryIsTrue, Uncounted, StateInd, StateTyped
    <3>2. QED
      BY <1>1, <1>3, <1>4, <2>2, <2>4, <3>1 DEF MemoryIsTrue, MemorySays
  <2>5. QED
    BY <1>1, <1>3, <1>4, <2>2, <2>3, <2>4 DEF StateInd, FileIsTrue, LoadedIsFile, MemoryIsTrue, Enabled
<1>5. CASE ~Enabled
  BY <1>1, <1>3, <1>5 DEF BecomeActive, StateInd, StateTyped
<1>6. QED
  BY <1>4, <1>5

LEMMA ResignActiveNext == StateInd /\ ResignActive => StateInd'
<1> SUFFICES ASSUME StateInd, ResignActive PROVE StateInd'
  OBVIOUS
<1>1. app = "active" /\ app' = "inactive" /\ UNCHANGED <<disk, file, launch, now, history>>
  BY DEF ResignActive
<1>2. CASE Enabled
  <2>1. PICK a \in Nat : a = g.activeDurationSinceLastCrash + (now - g.appStateTransitionTime)
    BY DEF StateInd, StateTyped, StateRecord
  <2>2. g' = [g EXCEPT !.applicationIsActive = FALSE, !.activeDurationSinceLastCrash = a]
    BY <1>2, <2>1 DEF ResignActive
  <2>3. /\ g' \in StateRecord /\ g'.applicationIsActive = FALSE
        /\ g'.appStateTransitionTime = g.appStateTransitionTime
        /\ g'.crashedLastLaunch = g.crashedLastLaunch /\ g'.crashedThisLaunch = g.crashedThisLaunch
        /\ g'.launchesSinceLastCrash = g.launchesSinceLastCrash
        /\ g'.activeDurationSinceLastCrash = a
    BY <2>2 DEF StateInd, StateTyped, StateRecord
  <2>4. StateTyped'
    BY <1>1, <2>3 DEF StateInd, StateTyped
  <2>5. ASSUME MemoryIsTrue PROVE MemorySays(g, history)'
    <3>1. a = g.activeDurationSinceLastCrash + Uncounted(g) /\ a + Uncounted(g)' = a
      BY <1>1, <1>2, <2>1, <2>3, <2>5 DEF MemoryIsTrue, Uncounted
    <3>2. QED
      BY <1>1, <1>2, <2>3, <2>5, <3>1 DEF MemoryIsTrue, MemorySays
  <2>6. QED
    BY <1>1, <1>2, <2>3, <2>4, <2>5 DEF StateInd, FileIsTrue, LoadedIsFile, MemoryIsTrue, Enabled
<1>3. CASE ~Enabled
  <2>1. ~history.clean
    BY <1>1, <1>3 DEF StateInd, FileIsTrue
  <2>2. QED
    BY <1>1, <1>3, <2>1 DEF ResignActive, StateInd, StateTyped
<1>4. QED
  BY <1>2, <1>3

LEMMA BackgroundNext == StateInd /\ (EnterBackground \/ EnterForeground) => StateInd'
<1> SUFFICES ASSUME StateInd, EnterBackground \/ EnterForeground PROVE StateInd'
  OBVIOUS
<1>1. app \in {"inactive", "background"} /\ app' \in {"inactive", "background"} /\ UNCHANGED <<disk, launch, now, history>>
  BY DEF EnterBackground, EnterForeground
<1>2. CASE Enabled /\ EnterBackground
  <2>1. g' = [g EXCEPT !.appStateTransitionTime = now] /\ file' = SaveState(g)
    BY <1>2 DEF EnterBackground
  <2>2. /\ g' \in StateRecord /\ g'.applicationIsActive = g.applicationIsActive
        /\ g'.appStateTransitionTime = now
        /\ g'.crashedLastLaunch = g.crashedLastLaunch /\ g'.crashedThisLaunch = g.crashedThisLaunch
        /\ g'.launchesSinceLastCrash = g.launchesSinceLastCrash
        /\ g'.activeDurationSinceLastCrash = g.activeDurationSinceLastCrash
    BY <2>1 DEF StateInd, StateTyped, StateRecord
  <2>3. /\ file' \in FileRecord /\ file'.exists /\ file'.full /\ file'.crashed = g.crashedThisLaunch
        /\ file'.launches = g.launchesSinceLastCrash /\ file'.active = g.activeDurationSinceLastCrash
    BY <2>1, SaveStateFields DEF StateInd, StateTyped
  <2>4. StateTyped'
    BY <1>1, <2>2, <2>3 DEF StateInd, StateTyped
  <2>5. ASSUME MemoryIsTrue PROVE MemorySays(g, history)' /\ g.activeDurationSinceLastCrash <= history.active
    <3>1. Uncounted(g) = 0 /\ Uncounted(g)' = 0 /\ g.activeDurationSinceLastCrash \in Nat
      BY <1>1, <1>2, <2>2, <2>5 DEF MemoryIsTrue, Uncounted, StateInd, StateTyped, StateRecord
    <3>2. QED
      BY <1>1, <1>2, <2>2, <2>5, <3>1 DEF MemoryIsTrue, MemorySays
  <2>6. QED
    BY <1>1, <1>2, <2>2, <2>3, <2>4, <2>5 DEF StateInd, FileIsTrue, LoadedIsFile, MemoryIsTrue, MemorySays, Enabled
<1>3. CASE UNCHANGED <<g, file>>
  <2>1. FileIsTrue => FileIsTrue'
    BY <1>1, <1>3 DEF FileIsTrue, FileSays, Enabled
  <2>2. MemoryIsTrue => MemoryIsTrue'
    BY <1>1, <1>3 DEF MemoryIsTrue, MemorySays, Uncounted, Enabled
  <2>3. QED
    BY <1>1, <1>3, <2>1, <2>2 DEF StateInd, StateTyped, LoadedIsFile
<1>4. QED
  BY <1>2, <1>3 DEF EnterBackground, EnterForeground

----------------------------------------------------------------------------
(* The end of a process, and the file that it leaves to the next launch.   *)
LEMMA EndsWithTrueFile ==
    ASSUME StateInd, Ends, StateTyped', history'.clean = history.clean,
           history.clean => FileSays(file', history')
    PROVE  StateInd'
<1>1. launch'.step = "off" /\ launch'.restarted = launch.restarted /\ app' = "off" /\ ~Enabled'
  BY DEF Ends, StateInd, StateTyped, LaunchRecord, Enabled
<1>2. QED
  BY <1>1 DEF StateInd, FileIsTrue, LoadedIsFile, MemoryIsTrue

\* A crash is remembered by a launch that never enabled the monitor.
LEMMA ExitHistoryFields ==
    ASSUME StateTyped, history' = ExitHistory
    PROVE  /\ history' \in HistoryRecord /\ (history'.crashed <=> history.crashed /\ ~Enabled)
           /\ history'.clean = history.clean /\ history'.torn = history.torn
           /\ history'.launches = history.launches /\ history'.active = history.active
<1>1. PICK c \in BOOLEAN : c <=> history.crashed /\ ~Enabled
  OBVIOUS
<1>2. (history.crashed /\ ~Enabled) = c
  BY <1>1 DEF StateTyped, HistoryRecord
<1>3. history' = [history EXCEPT !.crashed = c]
  BY <1>2 DEF ExitHistory
<1>4. QED
  BY <1>1, <1>3 DEF StateTyped, HistoryRecord

LEMMA SavedActiveTime ==
    ASSUME StateTyped, MemoryIsTrue, Enabled
    PROVE  /\ g.activeDurationSinceLastCrash + Uncounted(g) <= history.active
           /\ g.activeDurationSinceLastCrash <= history.active
<1>1. Uncounted(g) \in Nat /\ g.activeDurationSinceLastCrash \in Nat /\ history.active \in Nat
  BY DEF StateTyped, StateRecord, HistoryRecord, Uncounted
<1>2. QED
  BY <1>1 DEF MemoryIsTrue, MemorySays

LEMMA TerminateNext == StateInd /\ (Terminate \/ Kill) => StateInd'
<1> SUFFICES ASSUME StateInd, Terminate \/ Kill PROVE StateInd'
  OBVIOUS
<1>1. /\ Ends /\ history' = ExitHistory /\ UNCHANGED <<disk, g, now>>
      /\ \/ file' = file
         \/ file' = SaveState(g) /\ Enabled
  BY DEF Terminate, Kill
<1>2. /\ history' \in HistoryRecord /\ (history'.crashed <=> history.crashed /\ ~Enabled)
      /\ history'.clean = history.clean /\ history'.torn = history.torn
      /\ history'.launches = history.launches /\ history'.active = history.active
  BY <1>1, ExitHistoryFields DEF StateInd
<1>3. file' \in FileRecord
  BY <1>1, SaveStateFields DEF StateInd, StateTyped
<1>4. StateTyped'
  BY <1>1, <1>2, <1>3, EndTypes DEF StateInd, StateTyped
<1>5. ASSUME history.clean PROVE FileSays(file', history')
  <2>1. CASE ~Enabled
    BY <1>1, <1>2, <1>5, <2>1 DEF StateInd, FileIsTrue, FileSays
  <2>2. CASE Enabled /\ file' = file
    <3>1. /\ file.exists /\ file.full /\ ~file.crashed /\ file.active <= history.active
          /\ ~history.torn => file.launches = history.launches
      BY <1>5, <2>2 DEF StateInd, MemoryIsTrue
    <3>2. QED
      BY <1>2, <2>2, <3>1 DEF FileSays
  <2>3. CASE Enabled /\ file' = SaveState(g)
    <3>1. /\ file'.exists /\ file'.full /\ ~file'.crashed
          /\ file'.launches = g.launchesSinceLastCrash /\ file'.active = g.activeDurationSinceLastCrash
      BY <1>5, <2>3, SaveStateFields DEF StateInd, StateTyped, MemoryIsTrue
    <3>2. ~history.torn => g.launchesSinceLastCrash = history.launches
      BY <1>5, <2>3 DEF StateInd, MemoryIsTrue, MemorySays
    <3>3. g.activeDurationSinceLastCrash <= history.active
      BY <1>5, <2>3, SavedActiveTime DEF StateInd
    <3>4. QED
      BY <1>2, <2>3, <3>1, <3>2, <3>3 DEF FileSays
  <2>4. QED
    BY <1>1, <2>1, <2>2, <2>3
<1>6. QED
  BY <1>1, <1>2, <1>4, <1>5, EndsWithTrueFile

LEMMA KillInSaveNext == StateInd /\ KillInSave => StateInd'
<1> SUFFICES ASSUME StateInd, KillInSave PROVE StateInd'
  OBVIOUS
<1>1. Ends /\ UNCHANGED <<disk, g, now>> /\ (launch.step = "loaded" \/ Enabled)
  BY DEF KillInSave
<1>2. PICK s \in StateRecord : file' \in Torn(s) /\ s = IF Enabled THEN g ELSE Reset(g)
  BY ResetFields DEF KillInSave, StateInd, StateTyped
<1>3. file' \in FileRecord /\ ~file'.full /\ file'.crashed = s.crashedThisLaunch
  BY <1>2, TornFields
<1>4. PICK c \in BOOLEAN : c <=> history.crashed /\ ~Enabled
  OBVIOUS
<1>5. (history.crashed /\ ~Enabled) = c
  BY <1>4 DEF StateInd, StateTyped, HistoryRecord
<1>6. history' = [history EXCEPT !.crashed = c, !.torn = TRUE]
  BY <1>5 DEF KillInSave
<1>7. history' \in HistoryRecord /\ history'.crashed = c /\ history'.torn = TRUE /\ history'.clean = history.clean
  BY <1>6 DEF StateInd, StateTyped, HistoryRecord
<1>8. StateTyped'
  BY <1>1, <1>3, <1>7, EndTypes DEF StateInd, StateTyped
<1>9. ASSUME history.clean PROVE FileSays(file', history')
  <2>1. ~s.crashedThisLaunch
    BY <1>2, <1>9, ResetFields DEF StateInd, StateTyped, MemoryIsTrue
  <2>2. QED
    BY <1>3, <1>7, <2>1 DEF FileSays
<1>10. QED
  BY <1>1, <1>7, <1>8, <1>9, EndsWithTrueFile

LEMMA CrashNext == StateInd /\ (Crash \/ CrashInSave) => StateInd'
<1> SUFFICES ASSUME StateInd, Crash \/ CrashInSave PROVE StateInd'
  OBVIOUS
<1>1. /\ Enabled /\ g' = NotifyAppCrash(g) /\ Ends /\ UNCHANGED now
      /\ \/ file' = SaveState(g') /\ history' = [history EXCEPT !.crashed = TRUE]
         \/ file' \in Torn(g') /\ history' = [history EXCEPT !.crashed = TRUE, !.torn = TRUE]
  BY DEF Crash, CrashInSave
<1>2. /\ g' \in StateRecord /\ g'.crashedThisLaunch = TRUE
      /\ g'.launchesSinceLastCrash = g.launchesSinceLastCrash
      /\ g'.activeDurationSinceLastCrash = g.activeDurationSinceLastCrash + Uncounted(g)
  BY <1>1, NotifyAppCrashFields DEF StateInd, StateTyped
<1>3. disk' \subseteq EntryRecord
  <2>1. CASE Crash
    <3>1. PICK w \in Written(NextUniqueID), a \in Attached(NextUniqueID) : disk' = disk \cup w \cup a
      BY <2>1 DEF Crash
    <3>2. QED
      BY <3>1, WrittenType DEF StateInd, StateTyped
  <2>2. CASE CrashInSave
    BY <2>2 DEF CrashInSave, StateInd, StateTyped
  <2>3. QED
    BY <2>1, <2>2
<1>4. CASE file' = SaveState(g') /\ history' = [history EXCEPT !.crashed = TRUE]
  <2>1. /\ file' \in FileRecord /\ file'.exists /\ file'.full /\ file'.flag /\ file'.crashed = TRUE
        /\ file'.launches = g'.launchesSinceLastCrash /\ file'.active = g'.activeDurationSinceLastCrash
    BY <1>2, <1>4, SaveStateFields
  <2>2. /\ history' \in HistoryRecord /\ history'.crashed = TRUE
        /\ history'.clean = history.clean /\ history'.torn = history.torn
        /\ history'.launches = history.launches /\ history'.active = history.active
    BY <1>4 DEF StateInd, StateTyped, HistoryRecord
  <2>3. StateTyped'
    BY <1>1, <1>2, <1>3, <2>1, <2>2, EndTypes DEF StateInd
  <2>4. ASSUME history.clean PROVE FileSays(file', history')
    <3>1. ~history.torn => g.launchesSinceLastCrash = history.launches
      BY <1>1, <2>4 DEF StateInd, MemoryIsTrue, MemorySays
    <3>2. g.activeDurationSinceLastCrash + Uncounted(g) <= history.active
      BY <1>1, <2>4, SavedActiveTime DEF StateInd
    <3>3. QED
      BY <1>2, <2>1, <2>2, <3>1, <3>2 DEF FileSays
  <2>5. QED
    BY <1>1, <2>2, <2>3, <2>4, EndsWithTrueFile
<1>5. CASE file' \in Torn(g') /\ history' = [history EXCEPT !.crashed = TRUE, !.torn = TRUE]
  <2>1. file' \in FileRecord /\ ~file'.full
    BY <1>2, <1>5, TornFields
  <2>2. history' \in HistoryRecord /\ history'.crashed = TRUE /\ history'.torn = TRUE /\ history'.clean = history.clean
    BY <1>5 DEF StateInd, StateTyped, HistoryRecord
  <2>3. StateTyped'
    BY <1>1, <1>2, <1>3, <2>1, <2>2, EndTypes DEF StateInd
  <2>4. FileSays(file', history')
    BY <2>1, <2>2 DEF FileSays
  <2>5. QED
    BY <1>1, <2>2, <2>3, <2>4, EndsWithTrueFile
<1>6. QED
  BY <1>1, <1>4, <1>5

LEMMA StateInvariance == StateInd /\ [Next]_vars => StateInd'
<1> SUFFICES ASSUME StateInd, [Next]_vars PROVE StateInd'
  OBVIOUS
<1>1. CASE UNCHANGED vars
  <2>1. FileIsTrue = FileIsTrue' /\ LoadedIsFile = LoadedIsFile' /\ MemoryIsTrue = MemoryIsTrue'
    BY <1>1 DEF vars, FileIsTrue, FileSays, LoadedIsFile, MemoryIsTrue, MemorySays, Uncounted, Enabled
  <2>2. QED
    BY <1>1, <2>1 DEF vars, StateInd, StateTyped
<1>2. QED
  BY <1>1, StoreKeepsState, InitializeStateNext, EnableNext, TickNext, BecomeActiveNext, ResignActiveNext,
     BackgroundNext, TerminateNext, KillInSaveNext, CrashNext DEF Next

(***************************************************************************)
(* The crash state that a launch acts on is the truth about earlier        *)
(* launches, over any number of crashes and of kills, also in the middle   *)
(* of loading or saving it.                                                *)
(***************************************************************************)
THEOREM LoadedStateIsTrue == Spec => []CrashStateIsTrue
<1>1. StateInd => CrashStateIsTrue
  <2> SUFFICES ASSUME StateInd, Enabled, history.clean PROVE CrashStateIsTrue
    BY DEF CrashStateIsTrue
  <2>1. g.activeDurationSinceLastCrash <= history.active
    BY SavedActiveTime DEF StateInd
  <2>2. QED
    BY <2>1 DEF StateInd, MemoryIsTrue, MemorySays, CrashStateIsTrue
<1>2. QED
  BY <1>1, StateInitInd, StateInvariance, PTL DEF Spec

----------------------------------------------------------------------------
(***************************************************************************)
(* The reports.  What can be lost is lost by pruning, by a list that left  *)
(* a report out, by a user report of the same id, or by a completion that  *)
(* deletes what was not sent.  As long as the directory holds nothing but  *)
(* reports, the first two do not happen, and the last deletes only those   *)
(* that could not be loaded or converted, or for which there was no client.*)
(***************************************************************************)
OnlyReports(d) == \A e \in d : e.ext = "json"

ReportsTyped == IsFiniteSet(disk) /\ fate \in [Ids -> {"none", "disk", "sent", "pruned", "lost"}]

ReportIsOnDisk == \A id \in Ids : fate[id] = "disk" => Entry(id, "json") \in disk

\* What was listed is all there was, and then what was sent or refused.
SendIsComplete ==
    OnlyReports(disk) =>
        /\ launch.step = "send" => \A id \in Ids : fate[id] = "disk" => id \in launch.listed
        /\ launch.step = "delete" => \A id \in Ids : fate[id] = "disk" => id \in launch.failed

ReportsInd == ReportsTyped /\ ReportIsOnDisk /\ SendIsComplete

\* In a directory of reports the list is the directory.
LEMMA ListsAll ==
    ASSUME NEW d, IsFiniteSet(d), OnlyReports(d), NEW listed \in GetReportIDs(d, GetReportCount(d))
    PROVE  listed = d /\ GetReportCount(d) = Cardinality(d)
<1>1. {e \in d : ~IsDirectory(e)} = d
  BY DEF OnlyReports, IsDirectory
<1>2. GetReportCount(d) = Cardinality(d)
  BY <1>1 DEF GetReportCount
<1>3. listed \in SUBSET d /\ Cardinality(listed) = Cardinality(d)
  BY <1>2 DEF GetReportIDs
<1>4. QED
  BY <1>2, <1>3, FS_Subset

\* A report that is pruned for its place in the list has MaxReportCount newer ones.
LEMMA NewerReports ==
    ASSUME NEW d \in SUBSET EntryRecord, IsFiniteSet(d), OnlyReports(d), NEW x \in d,
           Cardinality(Before(d, x)) < Cardinality(d) - MaxReportCount
    PROVE  Cardinality({i \in Reports(d) : i > x.id}) >= MaxReportCount
<1> DEFINE B == Before(d, x)
           Newer == {y \in d : y.id > x.id}
           N == {i \in Reports(d) : i > x.id}
           f == [y \in Newer |-> y.id]
<1>1. \A y \in d : y = [id |-> y.id, ext |-> "json"] /\ y.id \in Nat
  BY DEF OnlyReports, EntryRecord
<1>2. /\ d = (B \cup {x}) \cup Newer /\ (B \cup {x}) \cap Newer = {} /\ x \notin B
      /\ B \in SUBSET d /\ Newer \in SUBSET d
  <2>1. \A y \in d : y.id < x.id <=> y \in B
    BY <1>1 DEF Before, OnlyReports
  <2>2. \A y \in d : y.id = x.id <=> y = x
    BY <1>1
  <2>3. QED
    BY <1>1, <2>1, <2>2 DEF Before
<1>3. IsFiniteSet(B) /\ IsFiniteSet(Newer)
  BY <1>2, FS_Subset
<1>4. IsFiniteSet(B \cup {x}) /\ Cardinality(B \cup {x}) = Cardinality(B) + 1
  BY <1>2, <1>3, FS_AddElement
<1>5. Cardinality(d) = Cardinality(B) + 1 + Cardinality(Newer)
  <2>1. Cardinality((B \cup {x}) \cap Newer) = 0
    BY <1>2, FS_EmptySet
  <2>2. Cardinality(d) = Cardinality(B \cup {x}) + Cardinality(Newer) - Cardinality((B \cup {x}) \cap Newer)
    BY <1>2, <1>3, <1>4, FS_Union
  <2>3. QED
    BY <1>3, <1>4, <2>1, <2>2, FS_CardinalityType
<1>6. Cardinality(N) = Cardinality(Newer)
  <2>1. f \in [Newer -> N]
    BY DEF Reports, OnlyReports
  <2>2. \A y, z \in Newer : f[y] = f[z] => y = z
    BY <1>1, <1>2
  <2>3. \A i \in N : \E y \in Newer : f[y] = i
    BY DEF Reports
  <2>4. f \in Bijection(Newer, N)
    BY <2>1, <2>2, <2>3 DEF Bijection, Injection, Surjection, IsInjective
  <2>5. QED
    BY <1>3, <2>4, FS_Bijection DEF ExistsBijection
<1>7. QED
  BY <1>3, <1>5, <1>6, FS_CardinalityType, CrashReportStoreAssumption

\* To prune a directory of reports loses none.
LEMMA PruneLosesNone ==
    ASSUME StateTyped, ReportsTyped, ReportIsOnDisk,
           NEW listed \in GetReportIDs(disk, GetReportCount(disk)),
           disk' = PruneReports(disk, listed), fate' = Pruned(disk')
    PROVE  /\ ReportsTyped' /\ ReportIsOnDisk'
           /\ OnlyReports(disk) => \A id \in Ids : fate[id] = "disk" => fate'[id] # "lost"
<1>1. disk' \subseteq disk
  BY DEF PruneReports
<1>2. IsFiniteSet(disk')
  BY <1>1, FS_Subset DEF ReportsTyped
<1>3. fate' \in [Ids -> {"none", "disk", "sent", "pruned", "lost"}]
  BY DEF Pruned, ReportsTyped
<1>4. ASSUME NEW id \in Ids, fate'[id] = "disk" PROVE Entry(id, "json") \in disk'
  <2>1. fate[id] = "disk" /\ id \in Reports(disk')
    BY <1>4 DEF Pruned
  <2>2. PICK e \in disk' : e.ext = "json" /\ e.id = id
    BY <2>1 DEF Reports
  <2>3. QED
    BY <1>1, <2>2 DEF Entry, StateTyped, EntryRecord
<1>5. ASSUME OnlyReports(disk), NEW id \in Ids, fate[id] = "disk" PROVE fate'[id] # "lost"
  <2> SUFFICES ASSUME id \notin Reports(disk') PROVE Cardinality({i \in Reports(disk) : i > id}) >= MaxReportCount
    BY <1>5 DEF Pruned
  <2>1. listed = disk
    BY <1>5, ListsAll DEF ReportsTyped
  <2>2. Entry(id, "json") \in disk /\ Entry(id, "json") \notin disk'
    <3>1. Entry(id, "json") \in disk' => id \in Reports(disk')
      BY DEF Entry, Reports
    <3>2. QED
      BY <1>5, <3>1 DEF ReportIsOnDisk
  <2>3. PICK x \in disk : x.id = id /\ Cardinality(Before(disk, x)) < Cardinality(disk) - MaxReportCount
    BY <2>1, <2>2 DEF PruneReports, Entry
  <2>4. QED
    BY <1>5, <2>3, NewerReports DEF StateTyped, ReportsTyped
<1>6. QED
  BY <1>2, <1>3, <1>4, <1>5 DEF ReportsTyped, ReportIsOnDisk

LEMMA ReportsInitInd == Init => ReportsInd
<1> SUFFICES ASSUME Init PROVE ReportsInd
  OBVIOUS
<1>1. \A id \in Ids : fate[id] = "none"
  BY DEF Init
<1>2. QED
  BY <1>1, FS_EmptySet DEF Init, NoLaunch, ReportsInd, ReportsTyped, ReportIsOnDisk, SendIsComplete

\* Steps that only end the launch or leave the directory alone.
LEMMA ReportsStay ==
    ASSUME ReportsInd, UNCHANGED <<disk, fate>>,
           \/ launch'.step \notin {"send", "delete"}
           \/ launch'.step = launch.step /\ launch'.listed = launch.listed /\ launch'.failed = launch.failed
    PROVE  ReportsInd'
  BY DEF ReportsInd, ReportsTyped, ReportIsOnDisk, SendIsComplete, OnlyReports

LEMMA ReportsInvariance == StateInd /\ ReportsInd /\ [Next]_vars => ReportsInd'
<1> SUFFICES ASSUME StateInd, ReportsInd, [Next]_vars PROVE ReportsInd'
  OBVIOUS
<1>0. launch \in LaunchRecord
  BY DEF StateInd, StateTyped
<1>1. CASE InitializeStore \/ Restart
  <2>1. \E listed \in GetReportIDs(disk, GetReportCount(disk)) : disk' = PruneReports(disk, listed) /\ fate' = Pruned(disk')
    BY <1>1 DEF InitializeStore, Restart
  <2>2. ReportsTyped' /\ ReportIsOnDisk'
    BY <2>1, PruneLosesNone DEF StateInd, ReportsInd
  <2>3. launch'.step = "store"
    <3>1. CASE InitializeStore
      BY <3>1 DEF InitializeStore
    <3>2. CASE Restart
      BY <1>0, <3>2 DEF Restart, LaunchRecord
    <3>3. QED
      BY <1>1, <3>1, <3>2
  <2>4. QED
    BY <2>2, <2>3 DEF ReportsInd, SendIsComplete
<1>2. CASE ListReports
  <2>1. PICK listed \in GetReportIDs(disk, GetReportCount(disk)) :
          \E unloaded : launch' = [launch EXCEPT !.step = "send", !.listed = {e.id : e \in listed} \cap Reports(disk),
                                                 !.failed = unloaded]
    BY <1>2 DEF ListReports
  <2>2. launch'.step = "send" /\ launch'.listed = {e.id : e \in listed} \cap Reports(disk)
    BY <1>0, <2>1 DEF LaunchRecord
  <2>3. UNCHANGED <<disk, fate>>
    BY <1>2 DEF ListReports
  <2>4. ASSUME OnlyReports(disk), NEW id \in Ids, fate[id] = "disk" PROVE id \in launch'.listed
    <3>1. Entry(id, "json") \in disk /\ listed = disk
      BY <2>4, ListsAll DEF ReportsInd, ReportsTyped, ReportIsOnDisk
    <3>2. QED
      BY <2>2, <3>1 DEF Entry, Reports
  <2>5. QED
    BY <2>2, <2>3, <2>4 DEF ReportsInd, ReportsTyped, ReportIsOnDisk, SendIsComplete, OnlyReports
<1>3. ASSUME NEW client \in BOOLEAN, SendReports(client) PROVE ReportsInd'
  <2>1. PICK sent \in SUBSET (launch.listed \ launch.failed) :
          /\ launch.step = "send" /\ UNCHANGED disk
          /\ fate' = [id \in Ids |-> IF id \in sent /\ fate[id] = "disk" THEN "sent" ELSE fate[id]]
          /\ launch' = [launch EXCEPT !.step = IF client THEN "delete" ELSE "drop", !.failed = launch.listed \ sent]
    BY <1>3 DEF SendReports
  <2>2. ReportsTyped' /\ ReportIsOnDisk'
    BY <2>1 DEF ReportsInd, ReportsTyped, ReportIsOnDisk
  <2>3. launch'.step \in {"delete", "drop"} /\ launch'.failed = launch.listed \ sent
    BY <1>0, <2>1 DEF LaunchRecord
  <2>4. ASSUME OnlyReports(disk), NEW id \in Ids, fate'[id] = "disk" PROVE id \in launch'.failed
    BY <2>1, <2>3, <2>4 DEF ReportsInd, SendIsComplete
  <2>5. SendIsComplete'
    BY <2>1, <2>3, <2>4 DEF SendIsComplete, OnlyReports
  <2>6. QED
    BY <2>2, <2>5 DEF ReportsInd
<1>4. CASE DeleteAllReports
  <2>1. /\ disk' = {} /\ launch' = [launch EXCEPT !.step = "up", !.listed = {}, !.failed = {}]
        /\ fate' = [id \in Ids |-> IF fate[id] = "disk" THEN "lost" ELSE fate[id]]
    BY <1>4 DEF DeleteAllReports
  <2>2. launch'.step = "up"
    BY <1>0, <2>1 DEF LaunchRecord
  <2>3. QED
    BY <2>1, <2>2, FS_EmptySet DEF ReportsInd, ReportsTyped, ReportIsOnDisk, SendIsComplete
<1>5. CASE AddUserReport
  <2>1. launch'.step = launch.step /\ launch'.listed = launch.listed /\ launch'.failed = launch.failed
    BY <1>0, <1>5 DEF AddUserReport, LaunchRecord
  <2>2. CASE UNCHANGED <<disk, fate>>
    BY <2>1, <2>2, ReportsStay
  <2>3. CASE /\ disk' = disk \cup {Entry(NextUniqueID, "json")}
             /\ fate' = [fate EXCEPT ![NextUniqueID] = IF @ = "disk" THEN "lost" ELSE @]
    <3>1. IsFiniteSet(disk')
      BY <2>3, FS_AddElement DEF ReportsInd, ReportsTyped
    <3>2. ReportsTyped' /\ \A id \in Ids : fate'[id] = "disk" => fate[id] = "disk"
      BY <2>3, <3>1 DEF ReportsInd, ReportsTyped
    <3>3. QED
      BY <2>1, <2>3, <3>2 DEF ReportsInd, ReportIsOnDisk, SendIsComplete, OnlyReports
  <2>4. QED
    BY <1>5, <2>2, <2>3 DEF AddUserReport
<1>6. CASE Crash
  <2>1. PICK w \in Written(NextUniqueID), a \in Attached(NextUniqueID) :
          /\ disk' = disk \cup w \cup a
          /\ fate' = [fate EXCEPT ![NextUniqueID] = IF Entry(NextUniqueID, "json") \in w THEN "disk" ELSE @]
    BY <1>6 DEF Crash
  <2>2. IsFiniteSet(w) /\ IsFiniteSet(a)
    <3>1. ASSUME NEW x, NEW y PROVE IsFiniteSet({x}) /\ IsFiniteSet({x, y})
      <4>1. IsFiniteSet({x}) /\ IsFiniteSet({x} \cup {y}) /\ {x, y} = {x} \cup {y}
        BY FS_Singleton, FS_AddElement
      <4>2. QED
        BY <4>1
    <3>2. IsFiniteSet({})
      BY FS_EmptySet
    <3>3. PICK x, y : w = {} \/ w = {x} \/ w = {y} \/ w = {x, y}
      BY DEF Written
    <3>4. PICK z : a = {} \/ a = {z}
      BY DEF Attached
    <3>5. IsFiniteSet({x}) /\ IsFiniteSet({y}) /\ IsFiniteSet({x, y}) /\ IsFiniteSet({z})
      BY <3>1
    <3>6. IsFiniteSet(w)
      BY <3>2, <3>3, <3>5
    <3>7. IsFiniteSet(a)
      BY <3>2, <3>4, <3>5
    <3>8. QED
      BY <3>6, <3>7
  <2>3. IsFiniteSet(disk')
    <3>1. IsFiniteSet(disk \cup w)
      BY <2>2, FS_Union DEF ReportsInd, ReportsTyped
    <3>2. QED
      BY <2>1, <2>2, <3>1, FS_Union
  <2>4. ReportsTyped' /\ ReportIsOnDisk'
    BY <2>1, <2>3 DEF ReportsInd, ReportsTyped, ReportIsOnDisk
  <2>5. launch'.step = "off"
    BY <1>0, <1>6 DEF Crash, Ends, LaunchRecord
  <2>6. QED
    BY <2>4, <2>5 DEF ReportsInd, SendIsComplete
<1>7. CASE Terminate \/ Kill \/ KillInSave \/ CrashInSave
  <2>1. launch'.step = "off" /\ UNCHANGED <<disk, fate>>
    BY <1>0, <1>7 DEF Terminate, Kill, KillInSave, CrashInSave, Ends, LaunchRecord
  <2>2. QED
    BY <2>1, ReportsStay
<1>8. CASE InitializeState \/ Enable
  <2>1. PICK s \in {"loaded", "up", "list"} : launch' = [launch EXCEPT !.step = s]
    BY <1>8 DEF InitializeState, Enable
  <2>2. launch'.step = s /\ UNCHANGED <<disk, fate>>
    BY <1>0, <1>8, <2>1 DEF InitializeState, Enable, LaunchRecord
  <2>3. QED
    BY <2>2, ReportsStay
<1>9. CASE Tick \/ BecomeActive \/ ResignActive \/ EnterBackground \/ EnterForeground \/ UNCHANGED vars
  <2>1. UNCHANGED <<disk, fate, launch>>
    BY <1>9 DEF Tick, BecomeActive, ResignActive, EnterBackground, EnterForeground, vars
  <2>2. QED
    BY <2>1, ReportsStay
<1>10. QED
  BY <1>1, <1>2, <1>3, <1>4, <1>5, <1>6, <1>7, <1>8, <1>9 DEF Next

(***************************************************************************)
(* The report of a crash is lost unsent only if the SDK was closed before  *)
(* its reports were sent, if it could not be loaded or converted, if the   *)
(* directory held something else than reports, or if a user report took    *)
(* its id, whatever the number of reports, crashes and killed launches.    *)
(***************************************************************************)
THEOREM ReportsAreKept == Spec => NoReportLost
<1>1. StateInd /\ ReportsInd /\ [Next]_vars =>
        [\A id \in Ids : fate[id] = "disk" /\ fate'[id] = "lost" =>
             \/ launch.step = "drop"
             \/ launch.step = "delete" /\ id \in launch.failed
             \/ \E e \in disk : e.ext # "json"
             \/ IdIsTaken(id)]_vars
  <2> SUFFICES ASSUME StateInd, ReportsInd, Next, NEW id \in Ids, fate[id] = "disk", fate'[id] = "lost",
                      launch.step # "drop", ~(launch.step = "delete" /\ id \in launch.failed),
                      OnlyReports(disk), ~IdIsTaken(id)
               PROVE  FALSE
    BY DEF OnlyReports
  <2>1. CASE InitializeStore \/ Restart
    <3>1. \E listed \in GetReportIDs(disk, GetReportCount(disk)) : disk' = PruneReports(disk, listed) /\ fate' = Pruned(disk')
      BY <2>1 DEF InitializeStore, Restart
    <3>2. QED
      BY <3>1, PruneLosesNone DEF StateInd, ReportsInd
  <2>2. CASE DeleteAllReports
    BY <2>2 DEF DeleteAllReports, ReportsInd, SendIsComplete
  <2>3. CASE Crash
    BY <2>3 DEF Crash, ReportsInd, ReportsTyped
  <2>4. CASE \E client \in BOOLEAN : SendReports(client)
    BY <2>4 DEF SendReports
  <2>5. CASE AddUserReport
    <3>1. launch'.low = launch.low + 1
      BY <2>5 DEF AddUserReport, StateInd, StateTyped, LaunchRecord
    <3>2. id # NextUniqueID
      BY <3>1 DEF IdIsTaken
    <3>3. QED
      BY <2>5, <3>2 DEF AddUserReport, ReportsInd, ReportsTyped
  <2>6. CASE fate' = fate
    BY <2>6
  <2>7. QED
    BY <2>1, <2>2, <2>3, <2>4, <2>5, <2>6 DEF Next, Tick, InitializeState, Enable, ListReports, AddUserReport, BecomeActive,
       ResignActive, EnterBackground, EnterForeground, Terminate, Kill, KillInSave, CrashInSave
<1>2. QED
  BY <1>1, StateInitInd, StateInvariance, ReportsInitInd, ReportsInvariance, PTL DEF Spec, NoReportLost

-----------------------------------------------------------------------------
(***************************************************************************)
(* The ring of breadcrumbs.  Its slots are counted from the place after    *)
(* the newest breadcrumb on, so that the oldest is in the first one that   *)
(* is not empty.                                                           *)
(***************************************************************************)
Slots == Values \cup {Null, Freed}

CallOps == {"none", "configure", "add", "advance", "clear"}

RingTyped ==
    /\ scope \in [ring : Seq(Slots), configured : BOOLEAN, max : Nat, current : Nat]
    /\ call \in [op : CallOps, arg : Values \cup {Null}, i : Nat]
    /\ call.op \in {"add", "advance"} => call.arg \in Values
    /\ wipe \in Nat /\ mingled \in BOOLEAN

(* The array is as long as it was configured, and currentCrumb is in it,   *)
(* whatever runs beside a clear without the lock.                          *)
RingShape ==
    /\ ~scope.configured => scope.ring = <<>>
    /\ scope.configured => Len(scope.ring) = scope.max
    /\ scope.current = 0 \/ scope.current < scope.max
    /\ call.op \in {"add", "advance", "clear"} \/ wipe > 0 => Configured
    /\ call.op = "add" => call.i \in 1 .. scope.max
    /\ call.op = "clear" => call.i >= 1
    /\ call.op = "configure" =>
           /\ call.i = scope.max /\ scope.current = 0 /\ \A i \in DOMAIN scope.ring : scope.ring[i] = Freed
           /\ wipe = 0 /\ ~mingled
    /\ ~mingled => wipe = 0 \/ call.op = "none"

OldestSlot == IF call.op = "advance" THEN (scope.current + 1) % scope.max ELSE scope.current

(* But for a clear, the empty slots come before the filled ones.           *)
EmptyFirst ==
    ~mingled /\ ~Clearing =>
        \A i, j \in DOMAIN scope.ring :
            i <= j /\ i \in Filled(scope.ring, OldestSlot) => j \in Filled(scope.ring, OldestSlot)

(* The place that a clear empties next.                                    *)
NextEmptied == IF call.op = "clear" THEN call.i ELSE wipe

(* What a clear has done, and the slot that an addition has emptied.       *)
SlotsEmptied ==
    ~mingled =>
        /\ Clearing => \A i \in DOMAIN scope.ring : i < NextEmptied => scope.ring[i] = Null
        /\ call.op = "add" => call.i = scope.current + 1 /\ scope.ring[call.i] = Null

RingInd == RingTyped /\ RingShape /\ EmptyFirst /\ SlotsEmptied

(* A remainder that wraps around once.                                     *)
LEMMA WrapsOnce ==
    ASSUME NEW n \in Nat \ {0}, NEW x \in Nat, x < 2 * n
    PROVE  x % n = IF x < n THEN x ELSE x - n
OBVIOUS

LEMMA SlotIs ==
    ASSUME NEW slots, Len(slots) \in Nat \ {0}, NEW start \in Nat, start < Len(slots),
           NEW i \in 1 .. Len(slots)
    PROVE  /\ Slot(slots, start, i) = IF start + i <= Len(slots) THEN start + i ELSE start + i - Len(slots)
           /\ Slot(slots, start, i) \in 1 .. Len(slots)
<1> DEFINE n == Len(slots)
           x == start + i - 1
<1>1. n \in Nat \ {0} /\ x \in Nat /\ x < 2 * n /\ start \in Nat /\ i \in Nat
  OBVIOUS
<1>2. x % n = IF x < n THEN x ELSE x - n
  <2> HIDE DEF x, n
  <2>1. QED
    BY <1>1, WrapsOnce
<1>3. Slot(slots, start, i) = (x % n) + 1
  BY DEF Slot
<1>4. QED
  BY <1>1, <1>2, <1>3

NextOf(n, start) == IF start + 1 < n THEN start + 1 ELSE start + 1 - n

LEMMA NextStart ==
    ASSUME NEW n \in Nat \ {0}, NEW start \in Nat, start < n
    PROVE  (start + 1) % n = NextOf(n, start)
<1>1. \A x \in Nat : x < 2 * n => x % n = IF x < n THEN x ELSE x - n
  BY WrapsOnce
<1>2. start + 1 \in Nat /\ start + 1 < 2 * n
  OBVIOUS
<1>3. QED
  BY <1>1, <1>2 DEF NextOf

(* The numbers of a finite set of naturals, in their order.                *)
Rank(S, i) == Cardinality({j \in S : j <= i})

LEMMA RankFacts ==
    ASSUME NEW n \in Nat, NEW S \in SUBSET (1 .. n)
    PROVE  /\ IsFiniteSet(S) /\ Cardinality(S) \in Nat
           /\ \A i \in S : Rank(S, i) \in 1 .. Cardinality(S)
           /\ \A i, j \in S : i < j => Rank(S, i) < Rank(S, j)
<1>1. IsFiniteSet(S) /\ Cardinality(S) \in Nat
  <2>1. IsFiniteSet(1 .. n)
    BY FS_Interval
  <2>2. QED
    BY <2>1, FS_Subset, FS_CardinalityType
<1>2. ASSUME NEW i \in S PROVE Rank(S, i) \in 1 .. Cardinality(S)
  <2> DEFINE T == {j \in S : j <= i}
  <2>1. IsFiniteSet(T) /\ Cardinality(T) \in Nat /\ Cardinality(T) <= Cardinality(S)
    BY <1>1, FS_Subset, FS_CardinalityType
  <2>2. i \in T
    OBVIOUS
  <2>3. Cardinality(T) # 0
    BY <2>1, <2>2, FS_EmptySet
  <2>4. QED
    BY <1>1, <2>1, <2>3 DEF Rank
<1>3. ASSUME NEW i \in S, NEW j \in S, i < j PROVE Rank(S, i) < Rank(S, j)
  <2> DEFINE T == {k \in S : k <= i}
             U == {k \in S : k <= j}
  <2>1. IsFiniteSet(U)
    BY <1>1, FS_Subset
  <2>2. T \in SUBSET U /\ j \in U /\ j \notin T
    <3>1. \A k \in S : k \in Nat
      OBVIOUS
    <3>2. i \in Nat /\ j \in Nat /\ i < j
      BY <1>3
    <3>3. \A k \in S : k <= i => k <= j
      BY <3>1, <3>2
    <3>4. j <= j /\ ~(j <= i)
      BY <3>2
    <3>5. QED
      BY <3>3, <3>4
  <2>3. Cardinality(T) <= Cardinality(U) /\ Cardinality(T) # Cardinality(U)
    BY <2>1, <2>2, FS_Subset
  <2>4. Cardinality(T) \in Nat /\ Cardinality(U) \in Nat
    BY <2>1, <2>2, FS_Subset, FS_CardinalityType
  <2>5. QED
    BY <2>3, <2>4 DEF Rank
<1>4. QED
  BY <1>1, <1>2, <1>3

(* Nth is the inverse of Rank.                                             *)
LEMMA NthFacts ==
    ASSUME NEW n \in Nat, NEW S \in SUBSET (1 .. n)
    PROVE  /\ \A k \in 1 .. Cardinality(S) : Nth(S, k) \in S /\ Rank(S, Nth(S, k)) = k
           /\ \A i \in S : Nth(S, Rank(S, i)) = i
<1>1. /\ IsFiniteSet(S) /\ Cardinality(S) \in Nat
      /\ \A i \in S : Rank(S, i) \in 1 .. Cardinality(S)
      /\ \A i, j \in S : i < j => Rank(S, i) < Rank(S, j)
  BY RankFacts
<1>2. ASSUME NEW i \in S, NEW j \in S, Rank(S, i) = Rank(S, j) PROVE i = j
  <2>1. i \in Nat /\ j \in Nat /\ Rank(S, i) \in Nat /\ ~(i < j) /\ ~(j < i)
    BY <1>1, <1>2
  <2>2. QED
    BY <2>1
<1>3. ASSUME NEW k \in 1 .. Cardinality(S) PROVE \E i \in S : Rank(S, i) = k
  <2> DEFINE Upto(i) == {j \in S : j <= i}
             M == {m \in 1 .. n : k <= Cardinality(Upto(m))}
  <2>1. \A m \in Nat : IsFiniteSet(Upto(m)) /\ Cardinality(Upto(m)) \in Nat
    BY <1>1, FS_Subset, FS_CardinalityType
  <2> \A i \in S : i \in 1 .. n
    OBVIOUS
  <2>2. Upto(n) = S
    <3>1. \A i \in S : i <= n
      OBVIOUS
    <3>2. QED
      BY <3>1
  <2>3. n # 0
    <3>1. S # {}
      BY <1>1, FS_EmptySet
    <3>2. PICK i \in S : TRUE
      BY <3>1
    <3>3. i \in 1 .. n
      OBVIOUS
    <3>4. QED
      BY <3>3
  <2>4. M \in SUBSET Nat /\ n \in M
    BY <2>2, <2>3
  <2>5. PICK m \in M : \A l \in M : m <= l
    BY <2>4, LeastElement
  <2>6. m \in 1 .. n /\ k <= Cardinality(Upto(m))
    OBVIOUS
  <2>7. Cardinality(Upto(m - 1)) < k
    <3>1. CASE m = 1
      <4>1. \A i \in S : ~(i <= m - 1)
        BY <3>1
      <4>2. Upto(m - 1) = {}
        BY <4>1
      <4>3. Cardinality(Upto(m - 1)) = 0
        BY <4>2, FS_EmptySet
      <4>4. QED
        BY <4>3
    <3>2. CASE m # 1
      <4>1. m \in Nat /\ m - 1 \in 1 .. n /\ m - 1 \in Nat /\ ~(m <= m - 1) /\ k \in Nat
        BY <2>6, <3>2
      <4>2. m - 1 \notin M
        BY <2>5, <4>1
      <4>3. ~(k <= Cardinality(Upto(m - 1)))
        BY <4>1, <4>2
      <4>4. Cardinality(Upto(m - 1)) \in Nat
        BY <2>1, <4>1
      <4>5. QED
        BY <4>1, <4>3, <4>4
    <3>3. QED
      BY <3>1, <3>2
  <2>8. m \in S
    <3>1. SUFFICES ASSUME m \notin S PROVE FALSE
      OBVIOUS
    <3>2. Upto(m) = Upto(m - 1)
      <4>1. \A i \in S : i <= m <=> i <= m - 1
        BY <2>6, <3>1
      <4>2. QED
        BY <4>1
    <3>3. m - 1 \in Nat /\ k \in Nat
      BY <2>6
    <3>4. Cardinality(Upto(m - 1)) \in Nat
      BY <2>1, <3>3
    <3>5. k <= Cardinality(Upto(m - 1))
      BY <2>6, <3>2
    <3>6. QED
      BY <2>7, <3>3, <3>4, <3>5
  <2>9. Upto(m) = Upto(m - 1) \cup {m}
    <3>1. \A i \in S : i <= m <=> i <= m - 1 \/ i = m
      BY <2>6
    <3>2. m <= m
      BY <2>6
    <3>3. QED
      BY <2>8, <3>1, <3>2
  <2>10. Cardinality(Upto(m)) = Cardinality(Upto(m - 1)) + 1
    <3>1. m \notin Upto(m - 1) /\ m - 1 \in Nat
      BY <2>6
    <3>2. QED
      BY <2>1, <2>9, <3>1, FS_AddElement
  <2>11. Cardinality(Upto(m)) = k
    <3>1. k \in Nat /\ m - 1 \in Nat /\ m \in Nat
      BY <2>6
    <3>2. Cardinality(Upto(m - 1)) \in Nat
      BY <2>1, <3>1
    <3>3. QED
      BY <2>6, <2>7, <2>10, <3>1, <3>2
  <2>12. QED
    BY <2>8, <2>11 DEF Rank
<1>4. ASSUME NEW k \in 1 .. Cardinality(S) PROVE Nth(S, k) \in S /\ Rank(S, Nth(S, k)) = k
  BY <1>3 DEF Nth, Rank
<1>5. ASSUME NEW i \in S PROVE Nth(S, Rank(S, i)) = i
  <2>1. Rank(S, i) \in 1 .. Cardinality(S)
    BY <1>1
  <2>2. Nth(S, Rank(S, i)) \in S /\ Rank(S, Nth(S, Rank(S, i))) = Rank(S, i)
    BY <2>1, <1>4
  <2>3. QED
    BY <1>2, <2>2
<1>6. QED
  BY <1>4, <1>5

(* In an interval the next one is the next number.                         *)
LEMMA NthOfInterval ==
    ASSUME NEW n \in Nat, NEW a \in 1 .. n + 1
    PROVE  /\ Cardinality(a .. n) = n - a + 1
           /\ \A k \in 1 .. n - a + 1 : Nth(a .. n, k) = a + k - 1
<1>1. Cardinality(a .. n) = n - a + 1
  <2>1. a \in Int /\ n \in Int /\ (a > n => n - a + 1 = 0)
    OBVIOUS
  <2>2. Cardinality(a .. n) = IF a > n THEN 0 ELSE n - a + 1
    BY <2>1, FS_Interval
  <2>3. QED
    BY <2>1, <2>2
<1>2. ASSUME NEW k \in 1 .. n - a + 1 PROVE Nth(a .. n, k) = a + k - 1
  <2> DEFINE i == a + k - 1
  <2>1. i \in a .. n /\ {j \in a .. n : j <= i} = a .. i
    OBVIOUS
  <2>2. Cardinality(a .. i) = k
    <3>1. a \in Int /\ i \in Int /\ ~(a > i) /\ i - a + 1 = k
      OBVIOUS
    <3>2. QED
      BY <3>1, FS_Interval
  <2>3. Rank(a .. n, i) = k
    BY <2>1, <2>2 DEF Rank
  <2>4. a .. n \in SUBSET (1 .. n)
    OBVIOUS
  <2>5. Nth(a .. n, Rank(a .. n, i)) = i
    BY <2>1, <2>4, NthFacts
  <2>6. QED
    BY <2>3, <2>5
<1>3. QED
  BY <1>1, <1>2

(* Without one of them, those behind it move up by one.                    *)
LEMMA NthWithout ==
    ASSUME NEW n \in Nat, NEW S \in SUBSET (1 .. n), NEW r \in S
    PROVE  /\ Cardinality(S \ {r}) = Cardinality(S) - 1
           /\ \A k \in 1 .. Cardinality(S) - 1 :
                 Nth(S \ {r}, k) = IF k < Rank(S, r) THEN Nth(S, k) ELSE Nth(S, k + 1)
<1> DEFINE T == S \ {r}
<1>1. /\ IsFiniteSet(S) /\ Cardinality(S) \in Nat
      /\ \A i \in S : Rank(S, i) \in 1 .. Cardinality(S)
      /\ \A i, j \in S : i < j => Rank(S, i) < Rank(S, j)
  BY RankFacts
<1>2. Cardinality(T) = Cardinality(S) - 1
  BY <1>1, FS_RemoveElement
<1>3. ASSUME NEW i \in T
      PROVE  Rank(T, i) = IF i < r THEN Rank(S, i) ELSE Rank(S, i) - 1
  <2> DEFINE U == {j \in S : j <= i}
  <2>1. IsFiniteSet(U) /\ {j \in T : j <= i} = U \ {r}
    BY <1>1, FS_Subset
  <2>2. Cardinality(U \ {r}) = IF r \in U THEN Cardinality(U) - 1 ELSE Cardinality(U)
    BY <2>1, FS_RemoveElement
  <2>3. r \in U <=> ~(i < r)
    <3>1. i \in Nat /\ r \in Nat
      OBVIOUS
    <3>2. QED
      BY <3>1
  <2>4. QED
    BY <2>1, <2>2, <2>3 DEF Rank
<1>4. ASSUME NEW k \in 1 .. Cardinality(S) - 1
      PROVE  Nth(T, k) = IF k < Rank(S, r) THEN Nth(S, k) ELSE Nth(S, k + 1)
  <2> DEFINE l == IF k < Rank(S, r) THEN k ELSE k + 1
             i == Nth(S, l)
  <2>1. l \in 1 .. Cardinality(S) /\ l # Rank(S, r) /\ (l < Rank(S, r) <=> k < Rank(S, r))
    BY <1>1
  <2>2. i \in S /\ Rank(S, i) = l
    BY <2>1, NthFacts
  <2>3. i \in T
    BY <2>1, <2>2
  <2>4. i < r <=> l < Rank(S, r)
    <3>1. i \in Nat /\ r \in Nat /\ i # r /\ l \in Nat /\ Rank(S, r) \in Nat
      <4>1. \A j \in S : j \in Nat
        OBVIOUS
      <4>2. \A j \in 1 .. Cardinality(S) : j \in Nat
        BY <1>1
      <4> HIDE DEF i, l
      <4>3. QED
        BY <1>1, <2>1, <2>2, <2>3, <4>1, <4>2
    <3>2. i < r => l < Rank(S, r)
      BY <1>1, <2>2
    <3>3. r < i => Rank(S, r) < l
      BY <1>1, <2>2
    <3>4. QED
      BY <3>1, <3>2, <3>3
  <2>5. Rank(T, i) = k
    <3>1. Rank(T, i) = IF i < r THEN l ELSE l - 1
      BY <1>3, <2>2, <2>3
    <3>2. QED
      BY <2>1, <2>4, <3>1
  <2>6. T \in SUBSET (1 .. n)
    OBVIOUS
  <2>7. Nth(T, Rank(T, i)) = i
    BY <2>3, <2>6, NthFacts
  <2>8. QED
    BY <2>5, <2>7
<1>5. QED
  BY <1>2, <1>4

-----------------------------------------------------------------------------
(* What the operations make of a ring.  Its slots are counted from a start *)
(* on, and each place of the array is one of them.                         *)
LEMMA SlotsOfRing ==
    ASSUME NEW slots, Len(slots) \in Nat \ {0}, NEW start \in Nat, start < Len(slots)
    PROVE  /\ \A i \in 1 .. Len(slots) : Slot(slots, start, i) \in 1 .. Len(slots)
           /\ \A i, j \in 1 .. Len(slots) : Slot(slots, start, i) = Slot(slots, start, j) => i = j
           /\ \A p \in 1 .. Len(slots) : \E i \in 1 .. Len(slots) : Slot(slots, start, i) = p
<1> DEFINE n == Len(slots)
<1>1. \A i \in 1 .. n :
          /\ Slot(slots, start, i) = IF start + i <= n THEN start + i ELSE start + i - n
          /\ Slot(slots, start, i) \in 1 .. n
  BY SlotIs
<1>2. ASSUME NEW i \in 1 .. n, NEW j \in 1 .. n, Slot(slots, start, i) = Slot(slots, start, j)
      PROVE  i = j
  <2> HIDE DEF n
  <2>1. n \in Nat \ {0} /\ start \in Nat /\ start < n /\ i \in 1 .. n /\ j \in 1 .. n
    BY DEF n
  <2>2. (IF start + i <= n THEN start + i ELSE start + i - n)
          = (IF start + j <= n THEN start + j ELSE start + j - n)
    BY <1>1, <1>2, <2>1
  <2>3. QED
    BY <2>1, <2>2
<1>3. ASSUME NEW p \in 1 .. n PROVE \E i \in 1 .. n : Slot(slots, start, i) = p
  <2> DEFINE i == IF p > start THEN p - start ELSE p - start + n
  <2>1. i \in 1 .. n /\ (IF start + i <= n THEN start + i ELSE start + i - n) = p
    OBVIOUS
  <2>2. QED
    BY <1>1, <2>1
<1>4. QED
  BY <1>1, <1>2, <1>3

Stored(slots, p, v) == [slots EXCEPT ![p] = v]

Emptied(slots, p) == Stored(slots, p, Null)

IsRing(slots, start) == slots \in Seq(Slots) /\ Len(slots) # 0 /\ start \in Nat /\ start < Len(slots)

LEMMA SlotEmptied ==
    ASSUME NEW slots, NEW start, IsRing(slots, start),
           NEW r \in 1 .. Len(slots), NEW R, R = Emptied(slots, Slot(slots, start, r))
    PROVE  /\ R \in Seq(Slots) /\ Len(R) = Len(slots)
           /\ Filled(R, start) = Filled(slots, start) \ {r}
           /\ \A i \in Filled(R, start) : R[Slot(R, start, i)] = slots[Slot(slots, start, i)]
<1> USE DEF IsRing, Emptied, Stored
<1>1. Len(slots) \in Nat \ {0} /\ DOMAIN slots = 1 .. Len(slots)
  OBVIOUS
<1>2. /\ Slot(slots, start, r) \in 1 .. Len(slots)
      /\ \A i \in 1 .. Len(slots) :
            Slot(slots, start, i) \in 1 .. Len(slots)
            /\ (Slot(slots, start, i) = Slot(slots, start, r) => i = r)
  BY <1>1, SlotsOfRing
<1>3. R \in Seq(Slots) /\ Len(R) = Len(slots) /\ DOMAIN R = 1 .. Len(slots)
      /\ \A p \in 1 .. Len(slots) : R[p] = IF p = Slot(slots, start, r) THEN Null ELSE slots[p]
  BY <1>1, <1>2 DEF Slots
<1>4. \A i : Slot(R, start, i) = Slot(slots, start, i)
  BY <1>3 DEF Slot
<1>5. \A i \in 1 .. Len(slots) :
          R[Slot(R, start, i)] = IF i = r THEN Null ELSE slots[Slot(slots, start, i)]
  BY <1>2, <1>3, <1>4
<1>6. Filled(R, start) = Filled(slots, start) \ {r}
  BY <1>1, <1>3, <1>5 DEF Filled
<1>7. QED
  BY <1>1, <1>3, <1>5, <1>6 DEF Filled

LEMMA SlotStored ==
    ASSUME NEW slots, NEW start, IsRing(slots, start), NEW v \in Values
    PROVE  LET R == Stored(slots, start + 1, v)
               next == NextOf(Len(slots), start)
           IN  /\ R \in Seq(Slots) /\ Len(R) = Len(slots) /\ next \in Nat /\ next < Len(slots)
               /\ Filled(R, next)
                    = {i \in 1 .. Len(slots) : i = Len(slots) \/ i + 1 \in Filled(slots, start)}
               /\ \A i \in 1 .. Len(slots) :
                     R[Slot(R, next, i)]
                       = IF i = Len(slots) THEN v ELSE slots[Slot(slots, start, i + 1)]
<1> DEFINE n == Len(slots)
           R == Stored(slots, start + 1, v)
           next == NextOf(n, start)
<1>1. n \in Nat \ {0} /\ n = Len(slots) /\ DOMAIN slots = 1 .. n /\ start + 1 \in Nat /\ start + 1 < 2 * n
      /\ start < n /\ slots \in Seq(Slots) /\ start \in Nat
  BY DEF IsRing
<1>2. next = IF start + 1 < n THEN start + 1 ELSE start + 1 - n
  BY DEF NextOf
<1>3. next \in Nat /\ next < n
  BY <1>1, <1>2
<1>4. R \in Seq(Slots) /\ Len(R) = n /\ DOMAIN R = 1 .. n
      /\ \A p \in 1 .. n : R[p] = IF p = start + 1 THEN v ELSE slots[p]
  BY <1>1 DEF Slots, Stored
<1> HIDE DEF n, R, next
<1>5. \A i \in 1 .. n :
          /\ Slot(R, next, i) = IF next + i <= n THEN next + i ELSE next + i - n
          /\ Slot(R, next, i) \in 1 .. n
  <2>1. Len(R) \in Nat \ {0} /\ next < Len(R)
    BY <1>1, <1>3, <1>4
  <2>2. \A i \in 1 .. Len(R) :
            /\ Slot(R, next, i) = IF next + i <= Len(R) THEN next + i ELSE next + i - Len(R)
            /\ Slot(R, next, i) \in 1 .. Len(R)
    BY <1>3, <2>1, SlotIs
  <2>3. QED
    BY <1>4, <2>2
<1>6. \A i \in 1 .. n :
          /\ Slot(slots, start, i) = IF start + i <= n THEN start + i ELSE start + i - n
          /\ Slot(slots, start, i) \in 1 .. n
  BY <1>1, SlotIs
<1>7. ASSUME NEW i \in 1 .. n
      PROVE  R[Slot(R, next, i)] = IF i = n THEN v ELSE slots[Slot(slots, start, i + 1)]
  <2>1. CASE i = n
    <3>1. Slot(R, next, i) = IF next + n <= n THEN next + n ELSE next + n - n
      BY <1>5, <2>1
    <3>2. (IF next + n <= n THEN next + n ELSE next + n - n) = start + 1
      BY <1>1, <1>2, <1>3
    <3>3. QED
      BY <1>4, <1>5, <2>1, <3>1, <3>2
  <2>2. CASE i # n
    <3>1. i + 1 \in 1 .. n
      BY <1>1, <2>2
    <3>2. Slot(R, next, i) = IF next + i <= n THEN next + i ELSE next + i - n
      BY <1>5
    <3>3. PICK j \in 1 .. n : j = i + 1
      BY <3>1
    <3>4. Slot(slots, start, j) = IF start + j <= n THEN start + j ELSE start + j - n
      BY <1>6
    <3>5. (IF next + i <= n THEN next + i ELSE next + i - n)
            = (IF start + j <= n THEN start + j ELSE start + j - n)
      <4>1. CASE start + 1 < n
        BY <1>1, <1>2, <3>3, <4>1
      <4>2. CASE ~(start + 1 < n)
        BY <1>1, <1>2, <3>3, <4>2
      <4>3. QED
        BY <4>1, <4>2
    <3>6. (IF start + j <= n THEN start + j ELSE start + j - n) # start + 1
      BY <1>1, <2>2, <3>3
    <3>7. QED
      BY <1>4, <1>5, <2>2, <3>2, <3>3, <3>4, <3>5, <3>6
  <2>3. QED
    BY <2>1, <2>2
<1>8. Filled(R, next) = {i \in 1 .. n : i = n \/ i + 1 \in Filled(slots, start)}
  <2>1. v \notin {Null, Freed}
    BY ScopeSyncAssumption
  <2>2. \A i \in 1 .. n : i # n => i + 1 \in 1 .. n
    BY <1>1
  <2>3. ~(n + 1 \in 1 .. n)
    BY <1>1
  <2>4. QED
    BY <1>1, <1>4, <1>7, <2>1, <2>2, <2>3 DEF Filled
<1>9. QED
  BY <1>1, <1>3, <1>4, <1>7, <1>8 DEF n, R, next

(* The breadcrumbs of a ring are a sequence of them.                       *)
LEMMA CrumbsFromType ==
    ASSUME NEW slots \in Seq(Slots), NEW start \in Nat, slots = <<>> \/ start < Len(slots)
    PROVE  /\ Filled(slots, start) \in SUBSET (1 .. Len(slots))
           /\ Cardinality(Filled(slots, start)) \in Nat
           /\ CrumbsFrom(slots, start) \in Seq(Values)
           /\ Len(CrumbsFrom(slots, start)) = Cardinality(Filled(slots, start))
           /\ DOMAIN CrumbsFrom(slots, start) = 1 .. Cardinality(Filled(slots, start))
<1> DEFINE F == Filled(slots, start)
           c == Cardinality(F)
<1>1. Len(slots) \in Nat /\ DOMAIN slots = 1 .. Len(slots) /\ (Len(slots) = 0 <=> slots = <<>>)
  OBVIOUS
<1>2. F \in SUBSET (1 .. Len(slots))
  BY <1>1 DEF Filled
<1>3. c \in Nat
  BY <1>1, <1>2, RankFacts
<1>4. ASSUME NEW k \in 1 .. c PROVE slots[Slot(slots, start, Nth(F, k))] \in Values
  <2>1. Nth(F, k) \in F /\ Nth(F, k) \in 1 .. Len(slots)
    BY <1>1, <1>2, NthFacts
  <2>2. Len(slots) # 0
    BY <2>1
  <2>3. Slot(slots, start, Nth(F, k)) \in 1 .. Len(slots)
    BY <1>1, <2>1, <2>2, SlotsOfRing
  <2>4. slots[Slot(slots, start, Nth(F, k))] \in Slots \ {Null, Freed}
    BY <1>1, <2>1, <2>3 DEF Filled
  <2>5. QED
    BY <2>4 DEF Slots
<1>5. CrumbsFrom(slots, start) = [k \in 1 .. c |-> slots[Slot(slots, start, Nth(F, k))]]
  BY DEF CrumbsFrom
<1> HIDE DEF c, F
<1>6. CrumbsFrom(slots, start) \in Seq(Values) /\ Len(CrumbsFrom(slots, start)) = c
      /\ DOMAIN CrumbsFrom(slots, start) = 1 .. c
  BY <1>3, <1>4, <1>5
<1>7. QED
  BY <1>2, <1>3, <1>6 DEF c, F

(* When the empty slots come first.                                        *)
LEMMA CrumbsOfInterval ==
    ASSUME NEW slots, Len(slots) \in Nat, NEW start, NEW a \in 1 .. Len(slots) + 1,
           Filled(slots, start) = a .. Len(slots)
    PROVE  CrumbsFrom(slots, start)
             = [k \in 1 .. Len(slots) - a + 1 |-> slots[Slot(slots, start, a + k - 1)]]
<1> DEFINE n == Len(slots)
           m == n - a + 1
<1>1. Cardinality(a .. n) = m /\ \A k \in 1 .. m : Nth(a .. n, k) = a + k - 1
  BY NthOfInterval
<1>2. CrumbsFrom(slots, start) = [k \in 1 .. Cardinality(a .. n) |-> slots[Slot(slots, start, Nth(a .. n, k))]]
  BY DEF CrumbsFrom
<1> HIDE DEF m, n
<1>3. CrumbsFrom(slots, start) = [k \in 1 .. m |-> slots[Slot(slots, start, a + k - 1)]]
  BY <1>1, <1>2
<1>4. QED
  BY <1>3 DEF m, n

LEMMA FilledIsInterval ==
    ASSUME NEW n \in Nat, NEW F \in SUBSET (1 .. n),
           \A i, j \in 1 .. n : i <= j /\ i \in F => j \in F
    PROVE  \E a \in 1 .. n + 1 : F = a .. n
<1>1. CASE F = {}
  <2>1. (n + 1) .. n = {} /\ n + 1 \in 1 .. n + 1
    OBVIOUS
  <2>2. QED
    BY <1>1, <2>1
<1>2. CASE F # {}
  <2>1. F \in SUBSET Nat
    OBVIOUS
  <2>2. PICK a \in F : \A j \in F : a <= j
    BY <1>2, <2>1, LeastElement
  <2>3. a \in 1 .. n /\ a \in 1 .. n + 1
    OBVIOUS
  <2>4. F = a .. n
    <3>1. ASSUME NEW j \in F PROVE j \in a .. n
      <4>1. j \in 1 .. n /\ a <= j
        BY <2>2
      <4>2. QED
        BY <2>3, <4>1
    <3>2. ASSUME NEW j \in a .. n PROVE j \in F
      <4>1. j \in 1 .. n /\ a <= j
        BY <2>3
      <4>2. QED
        BY <2>3, <4>1
    <3>3. QED
      BY <3>1, <3>2
  <2>5. QED
    BY <2>3, <2>4
<1>3. QED
  BY <1>1, <1>2

LEMMA CrumbsOfEmpty ==
    ASSUME NEW slots \in Seq(Slots), NEW start, \A p \in DOMAIN slots : slots[p] \in {Null, Freed},
           start \in Nat, slots = <<>> \/ start < Len(slots)
    PROVE  Filled(slots, start) = {} /\ CrumbsFrom(slots, start) = <<>>
<1>1. Filled(slots, start) = {}
  <2>1. ASSUME NEW i \in DOMAIN slots PROVE slots[Slot(slots, start, i)] \in {Null, Freed}
    <3>1. Len(slots) \in Nat \ {0} /\ DOMAIN slots = 1 .. Len(slots) /\ start < Len(slots)
      OBVIOUS
    <3>2. Slot(slots, start, i) \in 1 .. Len(slots)
      BY <3>1, SlotsOfRing
    <3>3. QED
      BY <3>1, <3>2
  <2>2. QED
    BY <2>1 DEF Filled
<1>2. CrumbsFrom(slots, start) \in Seq(Values) /\ Len(CrumbsFrom(slots, start)) = 0
  BY <1>1, CrumbsFromType, FS_EmptySet
<1>3. QED
  BY <1>1, <1>2, EmptySeq

(* What RemoveAt does to a sequence.                                       *)
LEMMA RemoveAtIs ==
    ASSUME NEW S, NEW q \in Seq(S), NEW p \in 1 .. Len(q)
    PROVE  RemoveAt(q, p) = [k \in 1 .. Len(q) - 1 |-> IF k < p THEN q[k] ELSE q[k + 1]]
<1> DEFINE u == SubSeq(q, 1, p - 1)
           w == SubSeq(q, p + 1, Len(q))
<1>1. Len(q) \in Nat /\ p \in Nat
  OBVIOUS
<1>2. u \in Seq(S) /\ Len(u) = p - 1 /\ \A i \in 1 .. p - 1 : u[i] = q[i]
  OBVIOUS
<1>3. w \in Seq(S) /\ Len(w) = Len(q) - p /\ \A i \in 1 .. Len(q) - p : w[i] = q[p + i]
  OBVIOUS
<1> HIDE DEF u, w
<1>4. /\ u \o w \in Seq(S) /\ Len(u \o w) = Len(u) + Len(w)
      /\ \A i \in 1 .. Len(u) + Len(w) : (u \o w)[i] = IF i <= Len(u) THEN u[i] ELSE w[i - Len(u)]
  BY <1>2, <1>3, ConcatProperties
<1>5. u \o w = [k \in 1 .. Len(q) - 1 |-> IF k < p THEN q[k] ELSE q[k + 1]]
  <2>1. DOMAIN (u \o w) = 1 .. Len(q) - 1
    BY <1>1, <1>2, <1>3, <1>4
  <2>2. ASSUME NEW k \in 1 .. Len(q) - 1
        PROVE  (u \o w)[k] = IF k < p THEN q[k] ELSE q[k + 1]
    <3>1. CASE k < p
      <4>1. (u \o w)[k] = u[k]
        BY <1>1, <1>2, <1>3, <1>4, <3>1
      <4>2. QED
        BY <1>1, <1>2, <3>1, <4>1
    <3>2. CASE ~(k < p)
      <4>1. (u \o w)[k] = w[k - (p - 1)]
        BY <1>1, <1>2, <1>3, <1>4, <3>2
      <4>2. k - (p - 1) \in 1 .. Len(q) - p /\ p + (k - (p - 1)) = k + 1
        BY <1>1, <3>2
      <4>3. QED
        BY <1>3, <3>2, <4>1, <4>2
    <3>3. QED
      BY <3>1, <3>2
  <2> DEFINE v == [k \in 1 .. Len(q) - 1 |-> IF k < p THEN q[k] ELSE q[k + 1]]
  <2>3. DOMAIN v = 1 .. Len(q) - 1 /\ \A k \in 1 .. Len(q) - 1 : v[k] = IF k < p THEN q[k] ELSE q[k + 1]
    OBVIOUS
  <2>4. v \in Seq(S) /\ Len(v) = Len(q) - 1
    <3>1. \A k \in 1 .. Len(q) - 1 : q[k] \in S /\ q[k + 1] \in S
      BY <1>1
    <3>2. QED
      BY <1>1, <3>1
  <2>5. \A k \in 1 .. Len(q) - 1 : (u \o w)[k] = v[k]
    BY <2>2, <2>3
  <2>6. u \o w \in Seq(S) /\ Len(u \o w) = Len(q) - 1
    BY <1>1, <1>2, <1>3, <1>4
  <2> HIDE DEF v
  <2>7. u \o w = v
    BY <2>4, <2>5, <2>6, SeqEqual
  <2>8. QED
    BY <2>7 DEF v
<1>6. QED
  BY <1>5 DEF RemoveAt, u, w

(* Emptying a slot takes its breadcrumb out, and no other one.             *)
LEMMA CrumbsDropped ==
    ASSUME NEW slots \in Seq(Slots), Len(slots) # 0, NEW start \in Nat, start < Len(slots),
           NEW p \in 1 .. Len(slots), NEW R, R = Emptied(slots, p)
    PROVE  \/ CrumbsFrom(R, start) = CrumbsFrom(slots, start)
           \/ \E i \in DOMAIN CrumbsFrom(slots, start) :
                 CrumbsFrom(R, start) = RemoveAt(CrumbsFrom(slots, start), i)
<1> DEFINE F == Filled(slots, start)
           G == Filled(R, start)
           n == Len(slots)
<1>0. IsRing(slots, start)
  BY DEF IsRing
<1>1. n \in Nat \ {0} /\ F \in SUBSET (1 .. n) /\ Cardinality(F) \in Nat
  BY CrumbsFromType
<1>2. PICK r \in 1 .. n : Slot(slots, start, r) = p
  BY <1>1, SlotsOfRing
<1>3. G = F \ {r} /\ \A i \in G : R[Slot(R, start, i)] = slots[Slot(slots, start, i)]
  <2>1. R = Emptied(slots, Slot(slots, start, r))
    BY <1>2
  <2>2. r \in 1 .. Len(slots)
    BY <1>2
  <2> HIDE DEF n
  <2>3. QED
    BY <1>0, <2>1, <2>2, SlotEmptied
<1>4. \A k \in 1 .. Cardinality(G) : Nth(G, k) \in G
  <2>1. G \in SUBSET (1 .. n)
    BY <1>1, <1>3
  <2>2. QED
    BY <1>1, <2>1, NthFacts
<1>5. CrumbsFrom(R, start) = [k \in 1 .. Cardinality(G) |-> slots[Slot(slots, start, Nth(G, k))]]
  BY <1>3, <1>4 DEF CrumbsFrom
<1>6. CrumbsFrom(slots, start) = [k \in 1 .. Cardinality(F) |-> slots[Slot(slots, start, Nth(F, k))]]
  BY DEF CrumbsFrom
<1> HIDE DEF F, G, n
<1>7. CASE r \notin F
  <2>1. G = F
    BY <1>3, <1>7
  <2>2. QED
    BY <1>5, <1>6, <2>1
<1>8. CASE r \in F
  <2> DEFINE q == CrumbsFrom(slots, start)
             i == Rank(F, r)
             c == Cardinality(F)
  <2>1. i \in 1 .. c
    BY <1>1, <1>8, RankFacts
  <2>2. /\ Cardinality(G) = c - 1
        /\ \A k \in 1 .. c - 1 : Nth(G, k) = IF k < i THEN Nth(F, k) ELSE Nth(F, k + 1)
    BY <1>1, <1>3, <1>8, NthWithout
  <2>3. q \in Seq(Values) /\ Len(q) = c /\ DOMAIN q = 1 .. c
    BY CrumbsFromType DEF F
  <2>4. RemoveAt(q, i) = [k \in 1 .. c - 1 |-> IF k < i THEN q[k] ELSE q[k + 1]]
    BY <2>1, <2>3, RemoveAtIs
  <2>5. ASSUME NEW k \in 1 .. c - 1
        PROVE  slots[Slot(slots, start, Nth(G, k))] = IF k < i THEN q[k] ELSE q[k + 1]
    <3>1. k \in 1 .. c /\ k + 1 \in 1 .. c
      BY <1>1
    <3>2. q[k] = slots[Slot(slots, start, Nth(F, k))] /\ q[k + 1] = slots[Slot(slots, start, Nth(F, k + 1))]
      BY <1>6, <3>1
    <3>3. QED
      BY <2>2, <3>2
  <2> HIDE DEF q, i, c
  <2>6. CrumbsFrom(R, start) = RemoveAt(q, i)
    BY <1>5, <2>2, <2>4, <2>5
  <2>7. QED
    BY <2>1, <2>3, <2>6 DEF q
<1>9. QED
  BY <1>7, <1>8


-----------------------------------------------------------------------------
(* The steps.  Each keeps the invariant, and is a step of the log or none. *)
Logs ==
    [CrumbsOfReport!Next]_<<IF mingled THEN <<>> ELSE LoggedCrumbs, scope.max, ~mingled /\ Clearing, mingled>>

LEMMA LoggedIs ==
    /\ LoggedCrumbs = CrumbsFrom(scope.ring, OldestSlot)
    /\ LoggedCrumbs' = CrumbsFrom(scope'.ring, OldestSlot')
BY DEF LoggedCrumbs, WrittenCrumbs, OldestSlot

LEMMA OldestSlotType ==
    ASSUME RingInd
    PROVE  /\ OldestSlot \in Nat
           /\ scope.ring # <<>> => OldestSlot < Len(scope.ring)
<1> USE DEF RingInd, RingTyped, RingShape
<1>1. scope.current \in Nat /\ scope.max \in Nat /\ scope.ring \in Seq(Slots)
  OBVIOUS
<1>2. CASE call.op = "advance"
  <2>1. Configured
    BY <1>2
  <2>2. scope.configured /\ scope.max >= 1 /\ scope.current < scope.max
    BY <1>1, <2>1 DEF Configured
  <2>3. Len(scope.ring) = scope.max
    BY <1>2, <2>2
  <2>4. (scope.current + 1) % scope.max
          = NextOf(scope.max, scope.current)
    BY <1>1, <2>2, NextStart
  <2>5. OldestSlot = (scope.current + 1) % scope.max
    BY <1>2 DEF OldestSlot
  <2>6. QED
    BY <1>1, <2>2, <2>3, <2>4, <2>5 DEF NextOf
<1>3. CASE call.op # "advance"
  <2>1. OldestSlot = scope.current
    BY <1>3 DEF OldestSlot
  <2>2. ASSUME scope.ring # <<>> PROVE scope.current < Len(scope.ring)
    <3>1. scope.configured /\ Len(scope.ring) = scope.max /\ Len(scope.ring) > 0
      BY <1>1, <2>2
    <3>2. QED
      BY <1>1, <3>1
  <2>3. QED
    BY <1>1, <2>1, <2>2
<1>4. QED
  BY <1>2, <1>3


(* A step that leaves the ring and its start as they are.                  *)
LEMMA RingUntouched ==
    ASSUME RingInd, scope'.ring = scope.ring, OldestSlot' = OldestSlot
    PROVE  /\ LoggedCrumbs' = LoggedCrumbs
           /\ Filled(scope'.ring, OldestSlot') = Filled(scope.ring, OldestSlot)
BY LoggedIs

LEMMA SyncInit == ScopeInit => RingInd /\ CrumbsOfReport!Init
<1> SUFFICES ASSUME ScopeInit PROVE RingInd /\ CrumbsOfReport!Init
  OBVIOUS
<1> USE DEF ScopeInit, NoCall
<1>1. RingTyped
  <2>1. scope \in [ring : Seq(Slots), configured : BOOLEAN, max : Nat, current : Nat]
    OBVIOUS
  <2>2. call \in [op : CallOps, arg : Values \cup {Null}, i : Nat] /\ call.op = "none"
    BY DEF CallOps
  <2>3. wipe \in Nat /\ mingled \in BOOLEAN
    OBVIOUS
  <2>4. QED
    BY <2>1, <2>2, <2>3 DEF RingTyped
<1>2. RingShape /\ EmptyFirst /\ SlotsEmptied
  BY DEF RingShape, EmptyFirst, SlotsEmptied, Configured, Clearing, Wiping
<1>3. LoggedCrumbs = <<>>
  <2>1. scope.ring = <<>> /\ OldestSlot = 0 /\ scope.ring \in Seq(Slots)
    BY DEF OldestSlot
  <2>2. CrumbsFrom(<<>>, 0) = <<>>
    <3>1. <<>> \in Seq(Slots) /\ \A p \in DOMAIN <<>> : FALSE
      OBVIOUS
    <3>2. QED
      BY <3>1, CrumbsOfEmpty
  <2>3. QED
    BY <2>1, <2>2, LoggedIs
<1>4. (~mingled /\ Clearing) = FALSE /\ scope.max = 0 /\ mingled = FALSE
  BY DEF Clearing, Wiping
<1>5. QED
  BY <1>1, <1>2, <1>3, <1>4 DEF RingInd, CrumbsOfReport!Init

LEMMA PutInRing ==
    ASSUME NEW slots \in Seq(Slots), NEW p \in 1 .. Len(slots), NEW v \in Slots
    PROVE  [slots EXCEPT ![p] = v] \in Seq(Slots) /\ Len([slots EXCEPT ![p] = v]) = Len(slots)
OBVIOUS

(* Types and shape, whether or not two calls are at the ring.              *)
LEMMA RingKept ==
    ASSUME RingTyped, RingShape, ScopeNext
    PROVE  RingTyped' /\ RingShape'
<1> USE DEF RingTyped, RingShape, Configured
<1>1. ASSUME NEW n \in RingSizes, ConfigureBreadcrumbs(n) PROVE RingTyped' /\ RingShape'
  <2>1. n \in Nat
    BY ScopeSyncAssumption
  <2>2. PICK q : q = scope.ring /\ q \in Seq(Slots)
    OBVIOUS
  <2>3. PICK r \in Seq(Slots) : /\ r = IF scope.configured THEN [i \in 1 .. n |-> Freed] ELSE q
                                /\ scope.configured => Len(r) = n /\ \A i \in DOMAIN r : r[i] = Freed
    <3>1. [i \in 1 .. n |-> Freed] \in Seq(Slots) /\ Len([i \in 1 .. n |-> Freed]) = n
      BY <2>1 DEF Slots
    <3>2. QED
      BY <2>1, <2>2, <3>1
  <2>4. /\ scope' = [scope EXCEPT !.max = n, !.current = 0, !.ring = r]
        /\ call' = [op |-> "configure", arg |-> Null, i |-> n] /\ wipe' = 0 /\ mingled' = FALSE
    BY <1>1, <2>2, <2>3 DEF ConfigureBreadcrumbs, Begins, Idle, Wiping
  <2>5. scope'.ring = r /\ scope'.max = n /\ scope'.current = 0 /\ scope'.configured = scope.configured
    BY <2>4
  <2>6. ~scope.configured => r = <<>>
    BY <2>2, <2>3
  <2>7. RingTyped'
    BY <2>1, <2>3, <2>4 DEF CallOps
  <2>8. \A i \in DOMAIN r : r[i] = Freed
    BY <2>3, <2>6
  <2>9. QED
    BY <2>3, <2>4, <2>5, <2>6, <2>7, <2>8
<1>2. CASE ConfigureEnds
  <2>1. PICK n \in Nat : n = call.i /\ n = scope.max
    BY <1>2 DEF ConfigureEnds
  <2>2. PICK r \in Seq(Slots) : r = [i \in 1 .. n |-> Null] /\ Len(r) = n
    <3>1. [i \in 1 .. n |-> Null] \in Seq(Slots) /\ Len([i \in 1 .. n |-> Null]) = n
      BY DEF Slots
    <3>2. QED
      BY <3>1
  <2>3. scope' = [scope EXCEPT !.configured = TRUE, !.ring = r] /\ call' = NoCall /\ UNCHANGED <<wipe, mingled>>
        /\ wipe = 0
    BY <1>2, <2>1, <2>2 DEF ConfigureEnds
  <2>4. QED
    BY <2>1, <2>2, <2>3 DEF NoCall, CallOps
<1>3. ASSUME NEW v \in Values, AddBreadcrumb(v) PROVE RingTyped' /\ RingShape'
  <2>1. /\ scope' = [scope EXCEPT !.ring[scope.current + 1] = Null] /\ wipe' = wipe
        /\ call' = [op |-> "add", arg |-> v, i |-> scope.current + 1] /\ mingled' = (mingled \/ Wiping)
        /\ scope.configured /\ scope.max >= 1
    BY <1>3 DEF AddBreadcrumb, Begins
  <2>2. PICK r \in Seq(Slots) : r = [scope.ring EXCEPT ![scope.current + 1] = Null] /\ Len(r) = scope.max
    <3>1. /\ scope.ring \in Seq(Slots) /\ Null \in Slots /\ Len(scope.ring) = scope.max
          /\ scope.current + 1 \in 1 .. Len(scope.ring)
      BY <2>1 DEF Slots
    <3>2. [scope.ring EXCEPT ![scope.current + 1] = Null] \in Seq(Slots) /\ Len([scope.ring EXCEPT ![scope.current + 1] = Null]) = scope.max
      <4> HIDE DEF RingTyped, RingShape, Configured
      <4>1. QED
        BY <3>1, PutInRing
    <3>3. QED
      BY <3>2
  <2>3. scope' = [scope EXCEPT !.ring = r] /\ scope.current + 1 \in 1 .. scope.max
    BY <2>1, <2>2
  <2>4. ~mingled' => wipe' = 0
    BY <2>1 DEF Wiping
  <2>5. call'.op = "add" /\ call'.arg = v /\ call'.i = scope.current + 1
    BY <2>1
  <2>6. scope'.ring = r /\ scope'.max = scope.max /\ scope'.current = scope.current /\ scope'.configured
    BY <2>1, <2>3
  <2>7. RingTyped'
    <3>1. call' \in [op : CallOps, arg : Values \cup {Null}, i : Nat]
      BY <2>1 DEF CallOps
    <3>2. scope' \in [ring : Seq(Slots), configured : BOOLEAN, max : Nat, current : Nat]
      BY <2>2, <2>3
    <3>3. mingled' \in BOOLEAN /\ wipe' \in Nat
      BY <2>1 DEF Wiping
    <3>4. QED
      BY <2>5, <3>1, <3>2, <3>3
  <2>8. RingShape'
    BY <2>1, <2>2, <2>3, <2>4, <2>5, <2>6
  <2>9. QED
    BY <2>7, <2>8
<1>4. CASE StoreBreadcrumb
  <2>1. /\ scope' = [scope EXCEPT !.ring[call.i] = call.arg] /\ call' = [call EXCEPT !.op = "advance"]
        /\ call.op = "add" /\ UNCHANGED <<wipe, mingled>> /\ scope.configured
    BY <1>4 DEF StoreBreadcrumb
  <2>2. PICK r \in Seq(Slots) : r = [scope.ring EXCEPT ![call.i] = call.arg] /\ Len(r) = scope.max
    <3>1. /\ scope.ring \in Seq(Slots) /\ call.arg \in Slots /\ Len(scope.ring) = scope.max
          /\ call.i \in 1 .. Len(scope.ring)
      BY <2>1 DEF Slots
    <3>2. [scope.ring EXCEPT ![call.i] = call.arg] \in Seq(Slots) /\ Len([scope.ring EXCEPT ![call.i] = call.arg]) = scope.max
      <4> HIDE DEF RingTyped, RingShape, Configured
      <4>1. QED
        BY <3>1, PutInRing
    <3>3. QED
      BY <3>2
  <2>3. scope' = [scope EXCEPT !.ring = r]
    BY <2>1, <2>2
  <2>4. QED
    BY <2>1, <2>2, <2>3 DEF CallOps
<1>5. CASE AdvanceCrumb
  <2>1. /\ scope' = [scope EXCEPT !.current = (scope.current + 1) % scope.max] /\ call' = NoCall
        /\ call.op = "advance" /\ UNCHANGED <<wipe, mingled>> /\ scope.configured /\ scope.max >= 1
    BY <1>5 DEF AdvanceCrumb
  <2>2. PICK c \in Nat : c = (scope.current + 1) % scope.max /\ c < scope.max
    <3>1. (scope.current + 1) % scope.max = NextOf(scope.max, scope.current)
      BY <2>1, NextStart
    <3>2. QED
      BY <2>1, <3>1 DEF NextOf
  <2>3. scope' = [scope EXCEPT !.current = c]
    BY <2>1, <2>2
  <2>4. QED
    BY <2>1, <2>2, <2>3 DEF NoCall, CallOps
<1>6. CASE ClearBreadcrumbs
  <2>1. /\ scope' = scope /\ call' = [op |-> "clear", arg |-> Null, i |-> 1] /\ wipe' = wipe
        /\ mingled' = Wiping /\ Configured
    BY <1>6 DEF ClearBreadcrumbs, Begins
  <2>2. ~mingled' => wipe' = 0
    BY <2>1 DEF Wiping
  <2>3. mingled' \in BOOLEAN
    BY <2>1 DEF Wiping
  <2>4. QED
    BY <2>1, <2>2, <2>3 DEF CallOps
<1>7. CASE ClearNext
  <2>1. /\ scope' = [scope EXCEPT !.ring[call.i] = Null] /\ call' = [call EXCEPT !.i = call.i + 1]
        /\ call.op = "clear" /\ UNCHANGED <<wipe, mingled>> /\ scope.configured /\ call.i \in 1 .. scope.max
    BY <1>7 DEF ClearNext
  <2>2. PICK r \in Seq(Slots) : r = [scope.ring EXCEPT ![call.i] = Null] /\ Len(r) = scope.max
    <3>1. /\ scope.ring \in Seq(Slots) /\ Null \in Slots /\ Len(scope.ring) = scope.max
          /\ call.i \in 1 .. Len(scope.ring)
      BY <2>1 DEF Slots
    <3>2. [scope.ring EXCEPT ![call.i] = Null] \in Seq(Slots) /\ Len([scope.ring EXCEPT ![call.i] = Null]) = scope.max
      <4> HIDE DEF RingTyped, RingShape, Configured
      <4>1. QED
        BY <3>1, PutInRing
    <3>3. QED
      BY <3>2
  <2>3. scope' = [scope EXCEPT !.ring = r]
    BY <2>1, <2>2
  <2>4. call'.op = "clear" /\ call'.i = call.i + 1
    BY <2>1
  <2>5. scope'.ring = r /\ scope'.max = scope.max /\ scope'.current = scope.current /\ scope'.configured
    BY <2>1, <2>3
  <2>6. RingTyped'
    <3>1. call' \in [op : CallOps, arg : Values \cup {Null}, i : Nat]
      <4>1. call \in [op : CallOps, arg : Values \cup {Null}, i : Nat] /\ call.i + 1 \in Nat
        OBVIOUS
      <4>2. call' = [call EXCEPT !.i = call.i + 1]
        BY <2>1
      <4> HIDE DEF RingTyped, RingShape, Configured
      <4>3. QED
        BY <4>1, <4>2
    <3>2. scope' \in [ring : Seq(Slots), configured : BOOLEAN, max : Nat, current : Nat]
      BY <2>2, <2>3
    <3>3. QED
      BY <2>1, <2>4, <3>1, <3>2
  <2>7. Configured' /\ call'.i >= 1 /\ (~mingled' => wipe' = 0)
    BY <2>1, <2>4, <2>5
  <2>8. RingShape'
    BY <2>2, <2>4, <2>5, <2>7
  <2>9. QED
    BY <2>6, <2>8
<1>8. CASE ClearEnds
  BY <1>8 DEF ClearEnds, NoCall, CallOps
<1>9. CASE WipeBegins
  <2>1. /\ UNCHANGED <<scope, call>> /\ wipe' = 1 /\ mingled' = (call.op # "none") /\ call.op # "configure"
        /\ Configured
    BY <1>9 DEF WipeBegins
  <2>2. QED
    BY <2>1
<1>10. CASE WipeNext
  <2>1. /\ scope' = [scope EXCEPT !.ring[wipe] = Null] /\ wipe' = wipe + 1
        /\ UNCHANGED <<call, mingled>> /\ scope.configured /\ wipe \in 1 .. scope.max
    BY <1>10 DEF WipeNext
  <2>2. PICK r \in Seq(Slots) : r = [scope.ring EXCEPT ![wipe] = Null] /\ Len(r) = scope.max
    <3>1. /\ scope.ring \in Seq(Slots) /\ Null \in Slots /\ Len(scope.ring) = scope.max
          /\ wipe \in 1 .. Len(scope.ring)
      BY <2>1 DEF Slots
    <3>2. [scope.ring EXCEPT ![wipe] = Null] \in Seq(Slots) /\ Len([scope.ring EXCEPT ![wipe] = Null]) = scope.max
      <4> HIDE DEF RingTyped, RingShape, Configured
      <4>1. QED
        BY <3>1, PutInRing
    <3>3. QED
      BY <3>2
  <2>3. scope' = [scope EXCEPT !.ring = r] /\ call.op # "configure"
    BY <2>1, <2>2
  <2>4. scope'.ring = r /\ scope'.max = scope.max /\ scope'.current = scope.current /\ scope'.configured
    BY <2>1, <2>3
  <2>5. RingTyped'
    <3>1. scope' \in [ring : Seq(Slots), configured : BOOLEAN, max : Nat, current : Nat]
      BY <2>2, <2>3
    <3>2. wipe' \in Nat
      BY <2>1
    <3>3. QED
      BY <2>1, <3>1, <3>2
  <2>6. Configured' /\ (~mingled' => call'.op = "none")
    BY <2>1, <2>4
  <2>7. RingShape'
    BY <2>1, <2>2, <2>3, <2>4, <2>6
  <2>8. QED
    BY <2>5, <2>7
<1>11. CASE WipeEnds
  <2>1. /\ scope' = [scope EXCEPT !.current = 0] /\ wipe' = 0 /\ UNCHANGED <<call, mingled>>
    BY <1>11 DEF WipeEnds
  <2>2. QED
    BY <2>1
<1>12. QED
  BY <1>1, <1>2, <1>3, <1>4, <1>5, <1>6, <1>7, <1>8, <1>9, <1>10, <1>11 DEF ScopeNext

(* A step of a clear that no other call is beside.                         *)
LEMMA NotBeside ==
    ASSUME RingInd, ~mingled
    PROVE  /\ call.op = "clear" => wipe = 0
           /\ wipe > 0 => call.op = "none"
           /\ call.op \notin {"none", "clear"} => ~Clearing
           /\ call.op = "none" /\ wipe = 0 => ~Clearing
BY DEF RingInd, RingTyped, RingShape, Clearing, Wiping

(* An array of freed memory, or of none.                                   *)
LEMMA ConfigureStep ==
    ASSUME RingInd, NEW n \in RingSizes, ConfigureBreadcrumbs(n), RingTyped', RingShape'
    PROVE  RingInd' /\ Logs
<1>1. /\ scope'.max = n /\ scope'.current = 0 /\ n \in Nat
      /\ scope'.ring = IF scope.configured THEN [i \in 1 .. n |-> Freed] ELSE scope.ring
      /\ call'.op = "configure" /\ call.op = "none" /\ wipe = 0 /\ wipe' = 0 /\ mingled' = FALSE
  BY ScopeSyncAssumption DEF ConfigureBreadcrumbs, Idle, Begins, Wiping, RingInd, RingTyped
<1>2. scope'.ring \in Seq(Slots) /\ \A p \in DOMAIN scope'.ring : scope'.ring[p] = Freed
  BY <1>1 DEF RingTyped, RingShape
<1>3. OldestSlot' = 0
  BY <1>1 DEF OldestSlot
<1>4. Filled(scope'.ring, 0) = {} /\ CrumbsFrom(scope'.ring, 0) = <<>>
  <2>1. \A p \in DOMAIN scope'.ring : scope'.ring[p] \in {Null, Freed}
    BY <1>2
  <2>2. scope'.ring = <<>> \/ 0 < Len(scope'.ring)
    BY <1>2
  <2>3. QED
    BY <1>2, <2>1, <2>2, CrumbsOfEmpty
<1>5. (~mingled /\ Clearing) = FALSE /\ (~mingled' /\ Clearing') = FALSE
  BY <1>1 DEF Clearing, Wiping
<1>6. EmptyFirst' /\ SlotsEmptied'
  BY <1>1, <1>3, <1>4, <1>5 DEF EmptyFirst, SlotsEmptied
<1>7. CrumbsOfReport!Configure
  <2>1. LoggedCrumbs' = <<>>
    BY <1>3, <1>4, LoggedIs
  <2>2. QED
    BY <1>1, <1>5, <2>1 DEF CrumbsOfReport!Configure
<1>8. QED
  BY <1>6, <1>7 DEF RingInd, Logs, CrumbsOfReport!Next

LEMMA ConfigureEndsStep ==
    ASSUME RingInd, ConfigureEnds, RingTyped', RingShape', ~mingled
    PROVE  RingInd' /\ Logs
<1>1. /\ scope'.ring = [i \in 1 .. call.i |-> Null]
      /\ scope'.max = scope.max /\ scope'.current = scope.current /\ scope.current = 0
      /\ call.op = "configure" /\ call'.op = "none" /\ UNCHANGED <<wipe, mingled>> /\ wipe = 0
  BY DEF ConfigureEnds, RingInd, RingTyped, RingShape, NoCall
<1>2. scope'.ring \in Seq(Slots) /\ \A p \in DOMAIN scope'.ring : scope'.ring[p] = Null
  BY <1>1 DEF RingTyped
<1>3. OldestSlot' = 0 /\ OldestSlot = 0
  BY <1>1 DEF OldestSlot
<1>4. Filled(scope'.ring, 0) = {} /\ CrumbsFrom(scope'.ring, 0) = <<>>
  <2>1. scope'.ring = <<>> \/ 0 < Len(scope'.ring)
    BY <1>2
  <2>2. \A p \in DOMAIN scope'.ring : scope'.ring[p] \in {Null, Freed}
    BY <1>2
  <2>3. QED
    BY <1>2, <2>1, <2>2, CrumbsOfEmpty
<1>5. CrumbsFrom(scope.ring, 0) = <<>>
  <2>1. scope.ring \in Seq(Slots) /\ \A p \in DOMAIN scope.ring : scope.ring[p] \in {Null, Freed}
    BY <1>1 DEF RingInd, RingTyped, RingShape
  <2>2. scope.ring = <<>> \/ 0 < Len(scope.ring)
    BY <2>1
  <2>3. QED
    BY <2>1, <2>2, CrumbsOfEmpty
<1>6. Clearing = FALSE /\ Clearing' = FALSE
  BY <1>1 DEF Clearing, Wiping
<1>7. EmptyFirst' /\ SlotsEmptied'
  BY <1>1, <1>3, <1>4, <1>6 DEF EmptyFirst, SlotsEmptied
<1>8. LoggedCrumbs' = LoggedCrumbs
  BY <1>3, <1>4, <1>5, LoggedIs
<1>9. QED
  BY <1>1, <1>6, <1>7, <1>8 DEF RingInd, Logs

(* When no clear goes on, the filled slots are the last ones.              *)
LEMMA FilledSlots ==
    ASSUME RingInd, ~mingled, ~Clearing
    PROVE  \E a \in 1 .. Len(scope.ring) + 1 : Filled(scope.ring, OldestSlot) = a .. Len(scope.ring)
<1>1. scope.ring \in Seq(Slots) /\ Len(scope.ring) \in Nat /\ DOMAIN scope.ring = 1 .. Len(scope.ring)
  BY DEF RingInd, RingTyped
<1>2. Filled(scope.ring, OldestSlot) \in SUBSET (1 .. Len(scope.ring))
  BY <1>1 DEF Filled
<1>3. \A i, j \in 1 .. Len(scope.ring) :
          i <= j /\ i \in Filled(scope.ring, OldestSlot) => j \in Filled(scope.ring, OldestSlot)
  BY <1>1 DEF RingInd, EmptyFirst
<1>4. QED
  BY <1>1, <1>2, <1>3, FilledIsInterval

(* The shape of a configured ring.                                         *)
LEMMA ConfiguredRing ==
    ASSUME RingInd, Configured
    PROVE  /\ scope.ring \in Seq(Slots) /\ Len(scope.ring) = scope.max
           /\ scope.max \in Nat \ {0} /\ scope.current \in Nat /\ scope.current < scope.max
           /\ DOMAIN scope.ring = 1 .. scope.max /\ scope.configured
           /\ IsRing(scope.ring, scope.current)
BY DEF RingInd, RingTyped, RingShape, Configured, IsRing

LEMMA TailIs ==
    ASSUME NEW S, NEW q \in Seq(S), q # <<>>
    PROVE  Tail(q) = [k \in 1 .. Len(q) - 1 |-> q[k + 1]]
<1> DEFINE w == [k \in 1 .. Len(q) - 1 |-> q[k + 1]]
<1>1. Tail(q) \in Seq(S) /\ Len(Tail(q)) = Len(q) - 1
      /\ \A i \in 1 .. Len(Tail(q)) : Tail(q)[i] = q[i + 1]
  BY HeadTailProperties
<1>2. Len(q) - 1 \in Nat /\ \A k \in 1 .. Len(q) - 1 : q[k + 1] \in S
  OBVIOUS
<1>3. w \in Seq(S) /\ Len(w) = Len(q) - 1 /\ \A k \in 1 .. Len(q) - 1 : w[k] = q[k + 1]
  BY <1>2
<1> HIDE DEF w
<1>4. Tail(q) = w
  BY <1>1, <1>3, SeqEqual
<1>5. QED
  BY <1>4 DEF w

(* The place at currentCrumb is the first slot.                            *)
LEMMA FirstSlot ==
    ASSUME NEW slots, NEW start, IsRing(slots, start)
    PROVE  Slot(slots, start, 1) = start + 1
<1>1. Len(slots) \in Nat \ {0} /\ start \in Nat /\ start < Len(slots) /\ 1 \in 1 .. Len(slots)
  BY DEF IsRing
<1>2. Slot(slots, start, 1) = IF start + 1 <= Len(slots) THEN start + 1 ELSE start + 1 - Len(slots)
  BY <1>1, SlotIs
<1>3. QED
  BY <1>1, <1>2

(* The slot of the oldest breadcrumb is emptied before the new one is      *)
(* stored in it: when it was filled, all were.                             *)
LEMMA AddStep ==
    ASSUME RingInd, NEW v \in Values, AddBreadcrumb(v), RingTyped', RingShape', ~mingled, ~Wiping
    PROVE  RingInd' /\ Logs
<1> DEFINE n == scope.max
           slots == scope.ring
           R == scope'.ring
           cur == scope.current
<1>1. /\ scope' = [scope EXCEPT !.ring[scope.current + 1] = Null]
      /\ call' = [op |-> "add", arg |-> v, i |-> cur + 1]
      /\ call.op = "none" /\ Configured /\ wipe' = wipe /\ mingled' = mingled /\ mingled = FALSE
  BY DEF AddBreadcrumb, Idle, Begins, RingInd, RingTyped, Wiping
<1>2. /\ slots \in Seq(Slots) /\ Len(slots) = n /\ n \in Nat \ {0} /\ cur \in Nat /\ cur < n
      /\ DOMAIN slots = 1 .. n /\ scope.configured /\ IsRing(slots, cur) /\ 1 \in 1 .. Len(slots)
  BY <1>1, ConfiguredRing
<1>3. /\ R = Emptied(slots, cur + 1) /\ scope'.max = n /\ scope'.current = cur
      /\ scope'.configured = scope.configured /\ call'.op = "add" /\ call'.arg = v
  BY <1>1 DEF RingInd, RingTyped, Emptied, Stored
<1>4. R = Emptied(slots, Slot(slots, cur, 1)) /\ Slot(slots, cur, 1) = cur + 1
  BY <1>2, <1>3, FirstSlot
<1>5. /\ R \in Seq(Slots) /\ Len(R) = n
      /\ Filled(R, cur) = Filled(slots, cur) \ {1}
      /\ \A i \in Filled(R, cur) : R[Slot(R, cur, i)] = slots[Slot(slots, cur, i)]
  <2> HIDE DEF R, slots, n, cur
  <2>1. QED
    BY <1>2, <1>4, SlotEmptied
<1>6. OldestSlot = cur /\ OldestSlot' = cur
  BY <1>1, <1>3 DEF OldestSlot
<1>7. Clearing = FALSE /\ Clearing' = FALSE
  BY <1>1, <1>3 DEF Clearing, Wiping
<1>8. SlotsEmptied'
  BY <1>1, <1>2, <1>3, <1>7 DEF SlotsEmptied, Emptied, Stored
<1>10. EmptyFirst'
  <2>1. \A i, j \in 1 .. n : i <= j /\ i \in Filled(slots, cur) => j \in Filled(slots, cur)
    BY <1>1, <1>2, <1>6, <1>7 DEF RingInd, EmptyFirst
  <2>2. \A i, j \in 1 .. n : i <= j /\ i # 1 => j # 1
    OBVIOUS
  <2>3. \A i, j \in 1 .. n : i <= j /\ i \in Filled(R, cur) => j \in Filled(R, cur)
    BY <1>5, <2>1, <2>2
  <2>4. DOMAIN R = 1 .. n
    BY <1>5
  <2>5. QED
    BY <1>6, <2>3, <2>4 DEF EmptyFirst
<1>11. LoggedCrumbs = CrumbsFrom(slots, cur) /\ LoggedCrumbs' = CrumbsFrom(R, cur)
  BY <1>6, LoggedIs
<1> HIDE DEF n, slots, R, cur
<1>13. CASE 1 \notin Filled(slots, cur)
  <2>1. Filled(R, cur) = Filled(slots, cur)
    BY <1>5, <1>13
  <2>2. \A k \in 1 .. Cardinality(Filled(slots, cur)) : Nth(Filled(slots, cur), k) \in Filled(slots, cur)
    <3>1. Filled(slots, cur) \in SUBSET (1 .. n)
      BY <1>2 DEF Filled
    <3>2. QED
      BY <1>2, <3>1, NthFacts
  <2>3. CrumbsFrom(R, cur) = CrumbsFrom(slots, cur)
    BY <1>5, <2>1, <2>2 DEF CrumbsFrom
  <2>4. QED
    BY <1>1, <1>3, <1>7, <1>8, <1>10, <1>11, <2>3 DEF RingInd, Logs, n
<1>14. CASE 1 \in Filled(slots, cur)
  <2>1. PICK a \in 1 .. n + 1 : Filled(slots, cur) = a .. n
    <3>1. \E a \in 1 .. Len(slots) + 1 : Filled(slots, cur) = a .. Len(slots)
      BY <1>1, <1>6, <1>7, FilledSlots DEF slots
    <3>2. QED
      BY <1>2, <3>1
  <2>2. a = 1
    BY <1>2, <1>14, <2>1
  <2>3. Filled(R, cur) = 2 .. n
    BY <1>2, <1>5, <2>1, <2>2
  <2>4. LoggedCrumbs = [k \in 1 .. n |-> slots[Slot(slots, cur, k)]]
    <3>1. LoggedCrumbs = [k \in 1 .. n - 1 + 1 |-> slots[Slot(slots, cur, 1 + k - 1)]]
      <4>1. Len(slots) \in Nat /\ 1 \in 1 .. Len(slots) + 1 /\ Filled(slots, cur) = 1 .. Len(slots)
        BY <1>2, <2>1, <2>2
      <4>2. CrumbsFrom(slots, cur)
              = [k \in 1 .. Len(slots) - 1 + 1 |-> slots[Slot(slots, cur, 1 + k - 1)]]
        BY <4>1, CrumbsOfInterval
      <4>3. QED
        BY <1>2, <1>11, <4>2
    <3>2. n - 1 + 1 = n /\ \A k \in 1 .. n : 1 + k - 1 = k
      BY <1>2
    <3>3. QED
      BY <3>1, <3>2
  <2>5. LoggedCrumbs' = [k \in 1 .. n - 1 |-> R[Slot(R, cur, k + 1)]]
    <3>1. 2 \in 1 .. n + 1
      BY <1>2
    <3>2. LoggedCrumbs' = [k \in 1 .. n - 2 + 1 |-> R[Slot(R, cur, 2 + k - 1)]]
      <4>1. Len(R) \in Nat /\ 2 \in 1 .. Len(R) + 1 /\ Filled(R, cur) = 2 .. Len(R)
        BY <1>2, <1>5, <2>3, <3>1
      <4>2. CrumbsFrom(R, cur) = [k \in 1 .. Len(R) - 2 + 1 |-> R[Slot(R, cur, 2 + k - 1)]]
        BY <4>1, CrumbsOfInterval
      <4>3. QED
        BY <1>5, <1>11, <4>2
    <3>3. n - 2 + 1 = n - 1 /\ \A k \in 1 .. n - 1 : 2 + k - 1 = k + 1
      BY <1>2
    <3>4. QED
      BY <3>2, <3>3
  <2>6. \A k \in 1 .. n - 1 : R[Slot(R, cur, k + 1)] = slots[Slot(slots, cur, k + 1)]
    <3>1. \A k \in 1 .. n - 1 : k + 1 \in 2 .. n
      BY <1>2
    <3>2. QED
      BY <1>5, <2>3, <3>1
  <2>7. LoggedCrumbs' = [k \in 1 .. n - 1 |-> slots[Slot(slots, cur, k + 1)]]
    BY <2>5, <2>6
  <2>8. LoggedCrumbs \in Seq(Values) /\ Len(LoggedCrumbs) = n
    <3>1. LoggedCrumbs \in Seq(Values)
      BY <1>2, <1>11, CrumbsFromType
    <3>2. QED
      BY <1>2, <2>4, <3>1
  <2>9. LoggedCrumbs' = Tail(LoggedCrumbs)
    <3>1. Tail(LoggedCrumbs) = [k \in 1 .. n - 1 |-> LoggedCrumbs[k + 1]]
      <4>1. LoggedCrumbs # <<>>
        BY <1>2, <2>8
      <4>2. Tail(LoggedCrumbs) = [k \in 1 .. Len(LoggedCrumbs) - 1 |-> LoggedCrumbs[k + 1]]
        BY <2>8, <4>1, TailIs
      <4>3. QED
        BY <2>8, <4>2
    <3>2. \A k \in 1 .. n - 1 : LoggedCrumbs[k + 1] = slots[Slot(slots, cur, k + 1)]
      BY <1>2, <2>4
    <3>3. QED
      BY <2>7, <3>1, <3>2
  <2>10. CrumbsOfReport!Forget
    <3>1. LoggedCrumbs # <<>>
      BY <1>2, <2>8
    <3>2. QED
      BY <1>1, <1>3, <1>7, <2>8, <2>9, <3>1 DEF CrumbsOfReport!Forget, n
  <2>11. QED
    BY <1>8, <1>10, <2>10 DEF RingInd, Logs, CrumbsOfReport!Next
<1>15. QED
  BY <1>13, <1>14


LEMMA AppendIs ==
    ASSUME NEW S, NEW q \in Seq(S), NEW v \in S
    PROVE  Append(q, v) = [k \in 1 .. Len(q) + 1 |-> IF k <= Len(q) THEN q[k] ELSE v]
<1> DEFINE w == [k \in 1 .. Len(q) + 1 |-> IF k <= Len(q) THEN q[k] ELSE v]
<1>1. Append(q, v) \in Seq(S) /\ Len(Append(q, v)) = Len(q) + 1
      /\ \A i \in 1 .. Len(q) : Append(q, v)[i] = q[i]
      /\ Append(q, v)[Len(q) + 1] = v
  BY AppendProperties
<1>2. Len(q) \in Nat /\ \A k \in 1 .. Len(q) : q[k] \in S
  OBVIOUS
<1>3. w \in Seq(S) /\ Len(w) = Len(q) + 1
      /\ \A k \in 1 .. Len(q) + 1 : w[k] = IF k <= Len(q) THEN q[k] ELSE v
  BY <1>2
<1>4. \A k \in 1 .. Len(q) + 1 : k \in 1 .. Len(q) \/ k = Len(q) + 1
  BY <1>2
<1>5. \A k \in 1 .. Len(q) + 1 : Append(q, v)[k] = w[k]
  BY <1>1, <1>2, <1>3, <1>4
<1> HIDE DEF w
<1>6. Append(q, v) = w
  BY <1>1, <1>3, <1>5, SeqEqual
<1>7. QED
  BY <1>6 DEF w

(* The new breadcrumb is the newest from the moment it is stored.          *)
LEMMA StoreStep ==
    ASSUME RingInd, StoreBreadcrumb, RingTyped', RingShape', ~mingled
    PROVE  RingInd' /\ Logs
<1> DEFINE n == scope.max
           slots == scope.ring
           R == scope'.ring
           cur == scope.current
           v == call.arg
           next == NextOf(n, cur)
<1>1. /\ scope' = [scope EXCEPT !.ring[cur + 1] = call.arg]
      /\ call' = [call EXCEPT !.op = "advance"] /\ wipe' = wipe /\ wipe = 0 /\ mingled' = mingled /\ mingled = FALSE
      /\ call.op = "add" /\ Configured /\ v \in Values
  BY DEF StoreBreadcrumb, RingInd, RingShape, RingTyped, SlotsEmptied
<1>2. /\ slots \in Seq(Slots) /\ Len(slots) = n /\ n \in Nat \ {0} /\ cur \in Nat /\ cur < n
      /\ DOMAIN slots = 1 .. n /\ scope.configured /\ IsRing(slots, cur) /\ 1 \in 1 .. Len(slots)
  BY <1>1, ConfiguredRing
<1>3. /\ R = Stored(slots, cur + 1, v) /\ scope'.max = n /\ scope'.current = cur
      /\ scope'.configured = scope.configured /\ call'.op = "advance" /\ call'.arg = v
  BY <1>1 DEF RingInd, RingTyped, Stored
<1>4. OldestSlot = cur /\ OldestSlot' = next
  <2>1. OldestSlot = cur
    BY <1>1 DEF OldestSlot
  <2>2. OldestSlot' = (cur + 1) % n
    BY <1>3 DEF OldestSlot
  <2>3. (cur + 1) % n = next
    BY <1>2, NextStart
  <2>4. QED
    BY <2>1, <2>2, <2>3
<1>5. /\ R \in Seq(Slots) /\ Len(R) = n /\ next \in Nat /\ next < n
      /\ Filled(R, next) = {i \in 1 .. n : i = n \/ i + 1 \in Filled(slots, cur)}
      /\ \A i \in 1 .. n : R[Slot(R, next, i)] = IF i = n THEN v ELSE slots[Slot(slots, cur, i + 1)]
  <2> HIDE DEF R, slots, n, cur, v
  <2>1. v \in Values
    BY <1>1
  <2>2. QED
    BY <1>2, <1>3, <2>1, SlotStored
<1>6. slots[cur + 1] = Null
  BY <1>1 DEF RingInd, SlotsEmptied
<1>7. Clearing = FALSE /\ Clearing' = FALSE
  BY <1>1, <1>3 DEF Clearing, Wiping
<1>8. SlotsEmptied'
  BY <1>3, <1>7 DEF SlotsEmptied
<1>10. LoggedCrumbs = CrumbsFrom(slots, cur) /\ LoggedCrumbs' = CrumbsFrom(R, next)
  BY <1>4, LoggedIs
<1>12. \E a \in 1 .. n + 1 : Filled(slots, cur) = a .. n
  <2>1. \E a \in 1 .. Len(slots) + 1 : Filled(slots, cur) = a .. Len(slots)
    BY <1>1, <1>4, <1>7, FilledSlots
  <2>2. QED
    BY <1>2, <2>1
<1> HIDE DEF n, slots, R, cur, v, next
<1>13. PICK a \in 1 .. n + 1 : Filled(slots, cur) = a .. n
  BY <1>12
<1>14. a \in Nat /\ a >= 2 /\ a <= n + 1
  <2>1. 1 \notin Filled(slots, cur)
    <3>1. Slot(slots, cur, 1) = cur + 1
      BY <1>2, FirstSlot
    <3>2. QED
      BY <1>6, <3>1 DEF Filled
  <2>2. a # 1
    BY <1>2, <1>13, <2>1
  <2>3. QED
    BY <1>2, <2>2
<1>15. Filled(R, next) = (a - 1) .. n
  <2>1. \A i \in 1 .. n : i = n \/ i + 1 \in a .. n <=> i \in (a - 1) .. n
    BY <1>2, <1>14
  <2>2. \A i \in (a - 1) .. n : i \in 1 .. n
    BY <1>2, <1>14
  <2>3. QED
    BY <1>5, <1>13, <2>1, <2>2
<1>16. EmptyFirst'
  <2>1. \A i, j \in 1 .. n : i <= j /\ i \in (a - 1) .. n => j \in (a - 1) .. n
    BY <1>2, <1>14
  <2>2. \A i, j \in DOMAIN R : i <= j /\ i \in Filled(R, next) => j \in Filled(R, next)
    BY <1>5, <1>15, <2>1
  <2>3. QED
    BY <1>4, <2>2 DEF EmptyFirst, R
<1>17. LoggedCrumbs = [k \in 1 .. n - a + 1 |-> slots[Slot(slots, cur, a + k - 1)]]
  <2>1. Len(slots) \in Nat /\ a \in 1 .. Len(slots) + 1 /\ Filled(slots, cur) = a .. Len(slots)
    BY <1>2, <1>13
  <2>2. CrumbsFrom(slots, cur) = [k \in 1 .. Len(slots) - a + 1 |-> slots[Slot(slots, cur, a + k - 1)]]
    BY <2>1, CrumbsOfInterval
  <2>3. QED
    BY <1>2, <1>10, <2>2
<1>18. LoggedCrumbs' = [k \in 1 .. n - a + 2 |-> R[Slot(R, next, a + k - 2)]]
  <2> DEFINE b == a - 1
  <2>1. Len(R) \in Nat /\ b \in 1 .. Len(R) + 1 /\ Filled(R, next) = b .. Len(R)
    BY <1>2, <1>5, <1>14, <1>15
  <2>2. n - b + 1 = n - a + 2 /\ \A k \in 1 .. n - a + 2 : b + k - 1 = a + k - 2
    BY <1>2, <1>14
  <2> HIDE DEF b
  <2>3. CrumbsFrom(R, next) = [k \in 1 .. Len(R) - b + 1 |-> R[Slot(R, next, b + k - 1)]]
    BY <2>1, CrumbsOfInterval
  <2>4. QED
    BY <1>5, <1>10, <2>2, <2>3
<1>19. LoggedCrumbs \in Seq(Values) /\ Len(LoggedCrumbs) = n - a + 1
  <2>1. LoggedCrumbs \in Seq(Values)
    BY <1>2, <1>10, CrumbsFromType
  <2>2. n - a + 1 \in Nat
    BY <1>2, <1>14
  <2>3. QED
    BY <1>17, <2>1, <2>2
<1>20. LoggedCrumbs' = Append(LoggedCrumbs, v)
  <2> DEFINE m == n - a + 1
  <2>1. v \in Values
    BY <1>1 DEF v
  <2>2. Append(LoggedCrumbs, v) = [k \in 1 .. m + 1 |-> IF k <= m THEN LoggedCrumbs[k] ELSE v]
    BY <1>19, <2>1, AppendIs
  <2>3. n - a + 2 = m + 1 /\ m \in Nat
    BY <1>2, <1>14
  <2>4. ASSUME NEW k \in 1 .. m + 1
        PROVE  R[Slot(R, next, a + k - 2)] = IF k <= m THEN LoggedCrumbs[k] ELSE v
    <3>1. PICK i \in 1 .. n : i = a + k - 2
      BY <1>2, <1>14
    <3>2. R[Slot(R, next, i)] = IF i = n THEN v ELSE slots[Slot(slots, cur, i + 1)]
      BY <1>5
    <3>3. CASE k <= m
      <4>1. k \in 1 .. m /\ i # n /\ i + 1 = a + k - 1
        BY <1>2, <1>14, <3>1, <3>3
      <4>2. LoggedCrumbs[k] = slots[Slot(slots, cur, a + k - 1)]
        BY <1>17, <4>1
      <4>3. QED
        BY <3>1, <3>2, <3>3, <4>1, <4>2
    <3>4. CASE ~(k <= m)
      <4>1. i = n
        BY <1>2, <1>14, <3>1, <3>4
      <4>2. QED
        BY <3>1, <3>2, <3>4, <4>1
    <3>5. QED
      BY <3>3, <3>4
  <2> HIDE DEF m
  <2>5. QED
    BY <1>18, <2>2, <2>3, <2>4
<1>21. CrumbsOfReport!Add(v)
  <2>1. Len(LoggedCrumbs) < n
    BY <1>2, <1>14, <1>19
  <2>2. QED
    BY <1>1, <1>3, <1>7, <1>20, <2>1 DEF CrumbsOfReport!Add, n
<1>22. v \in Values
  BY <1>1 DEF v
<1>23. QED
  BY <1>8, <1>16, <1>21, <1>22 DEF RingInd, Logs, CrumbsOfReport!Next

LEMMA AdvanceStep ==
    ASSUME RingInd, AdvanceCrumb, RingTyped', RingShape', ~mingled
    PROVE  RingInd' /\ Logs
<1>1. /\ scope' = [scope EXCEPT !.current = (@ + 1) % scope.max] /\ call' = NoCall
      /\ call.op = "advance" /\ wipe = 0 /\ UNCHANGED <<wipe, mingled>>
  BY DEF AdvanceCrumb, RingInd, RingShape
<1>2. OldestSlot = (scope.current + 1) % scope.max
  BY <1>1 DEF OldestSlot
<1>3. /\ scope'.ring = scope.ring /\ scope'.max = scope.max
      /\ scope'.current = OldestSlot /\ call'.op = "none"
  BY <1>1, <1>2 DEF RingInd, RingTyped, NoCall
<1>4. OldestSlot' = OldestSlot
  BY <1>3 DEF OldestSlot
<1>5. Clearing = FALSE /\ Clearing' = FALSE
  BY <1>1, <1>3 DEF Clearing, Wiping
<1>6. EmptyFirst' /\ LoggedCrumbs' = LoggedCrumbs
  BY <1>1, <1>3, <1>4, <1>5, RingUntouched DEF RingInd, EmptyFirst
<1>7. SlotsEmptied'
  BY <1>3, <1>5 DEF SlotsEmptied
<1>8. QED
  BY <1>1, <1>3, <1>5, <1>6, <1>7 DEF RingInd, Logs

(* A clear begins when no other call is at the ring.  If calls had been    *)
(* mingled, it is the one that mends the log.                              *)
LEMMA ClearBeginsStep ==
    ASSUME RingInd, ClearBreadcrumbs \/ WipeBegins, RingTyped', RingShape', ~mingled'
    PROVE  RingInd' /\ Logs
<1>1. /\ scope' = scope /\ call.op = "none" /\ wipe = 0 /\ mingled' = FALSE
      /\ \/ call'.op = "clear" /\ call'.i = 1
         \/ call'.op = "none" /\ wipe' = 1
  <2> mingled' = FALSE /\ wipe \in Nat
    BY DEF RingInd, RingTyped
  <2>1. CASE ClearBreadcrumbs
    <3>1. ~Wiping
      BY <2>1 DEF ClearBreadcrumbs
    <3>2. wipe = 0
      BY <3>1 DEF Wiping
    <3>3. QED
      BY <2>1, <3>2 DEF ClearBreadcrumbs, Idle, Begins
  <2>2. CASE WipeBegins
    <3>1. ~Wiping /\ call.op = "none" /\ UNCHANGED <<scope, call>> /\ wipe' = 1
      BY <2>2 DEF WipeBegins
    <3>2. QED
      BY <3>1 DEF Wiping
  <2>3. QED
    BY <2>1, <2>2
<1>2. Clearing = FALSE /\ Clearing' = TRUE /\ NextEmptied' = 1
  BY <1>1 DEF Clearing, Wiping, NextEmptied
<1>3. OldestSlot' = OldestSlot
  BY <1>1 DEF OldestSlot
<1>4. EmptyFirst' /\ SlotsEmptied'
  <2>1. \A i \in DOMAIN scope.ring : ~(i < 1)
    BY DEF RingInd, RingTyped
  <2>2. QED
    BY <1>1, <1>2, <2>1 DEF EmptyFirst, SlotsEmptied
<1>5. LoggedCrumbs' = LoggedCrumbs
  BY <1>1, <1>3, RingUntouched
<1>6. CASE mingled
  <2>1. LoggedCrumbs \in Seq(Values)
    <3>1. OldestSlot \in Nat /\ (scope.ring = <<>> \/ OldestSlot < Len(scope.ring)) /\ scope.ring \in Seq(Slots)
      BY OldestSlotType DEF RingInd, RingTyped
    <3>2. QED
      BY <3>1, CrumbsFromType, LoggedIs
  <2>2. (~mingled /\ Clearing) = FALSE /\ (~mingled' /\ Clearing') = TRUE
    BY <1>1, <1>2
  <2>3. CrumbsOfReport!Mend
    BY <1>1, <1>5, <1>6, <2>1, <2>2 DEF CrumbsOfReport!Mend
  <2>4. QED
    BY <1>4, <2>3 DEF RingInd, Logs, CrumbsOfReport!Next
<1>7. CASE ~mingled
  <2>1. (~mingled /\ Clearing) = FALSE /\ (~mingled' /\ Clearing') = TRUE /\ mingled = FALSE
    BY <1>1, <1>2, <1>7 DEF RingInd, RingTyped
  <2>2. CrumbsOfReport!Clear
    BY <1>1, <1>5, <1>7, <2>1 DEF CrumbsOfReport!Clear
  <2>3. QED
    BY <1>4, <2>2 DEF RingInd, Logs, CrumbsOfReport!Next
<1>8. QED
  BY <1>6, <1>7

(* A step of a clear empties one place, wherever the oldest one is.        *)
LEMMA ClearNextStep ==
    ASSUME RingInd, ClearNext \/ WipeNext, RingTyped', RingShape', ~mingled
    PROVE  RingInd' /\ Logs
<1> DEFINE n == scope.max
           slots == scope.ring
           R == scope'.ring
           cur == scope.current
           p == NextEmptied
<1>1. /\ scope' = [scope EXCEPT !.ring[p] = Null] /\ NextEmptied' = p + 1 /\ p <= n
      /\ call.op \in {"none", "clear"} /\ call'.op = call.op /\ mingled' = mingled
      /\ Clearing = TRUE /\ Clearing' = TRUE
  <2>1. CASE ClearNext
    BY <2>1, NotBeside DEF ClearNext, RingInd, RingTyped, NextEmptied, Clearing, Wiping
  <2>2. CASE WipeNext
    <3>1. wipe > 0 /\ wipe + 1 > 0
      BY <2>2 DEF WipeNext, RingInd, RingTyped
    <3>2. QED
      BY <2>2, <3>1, NotBeside DEF WipeNext, RingInd, RingTyped, NextEmptied, Clearing, Wiping
  <2>3. QED
    BY <2>1, <2>2
<1>2. Configured /\ p >= 1 /\ p \in Nat
  BY <1>1 DEF RingInd, RingTyped, RingShape, Clearing, Wiping, NextEmptied
<1>3. /\ slots \in Seq(Slots) /\ Len(slots) = n /\ n \in Nat \ {0} /\ cur \in Nat /\ cur < n
      /\ DOMAIN slots = 1 .. n
  BY <1>2, ConfiguredRing
<1>4. p \in 1 .. n
  BY <1>1, <1>2, <1>3
<1>5. R = Emptied(slots, p) /\ scope'.max = n /\ scope'.current = cur
  BY <1>1 DEF RingInd, RingTyped, Emptied, Stored
<1>6. DOMAIN R = 1 .. n /\ \A i \in 1 .. n : R[i] = IF i = p THEN Null ELSE slots[i]
  <2>1. R = [slots EXCEPT ![p] = Null]
    BY <1>5 DEF Emptied, Stored
  <2>2. QED
    BY <1>3, <1>4, <2>1 DEF Slots
<1>7. EmptyFirst'
  BY <1>1 DEF EmptyFirst
<1>8. SlotsEmptied'
  <2>1. \A i \in 1 .. n : i < p => slots[i] = Null
    BY <1>1, <1>3 DEF RingInd, SlotsEmptied
  <2>2. \A i \in 1 .. n : i < p + 1 => i < p \/ i = p
    BY <1>4
  <2>3. \A i \in DOMAIN R : i < p + 1 => R[i] = Null
    BY <1>6, <2>1, <2>2
  <2>4. QED
    BY <1>1, <2>3 DEF SlotsEmptied
<1>9. OldestSlot = cur /\ OldestSlot' = cur
  BY <1>1, <1>5 DEF OldestSlot
<1>10. LoggedCrumbs = CrumbsFrom(slots, cur) /\ LoggedCrumbs' = CrumbsFrom(R, cur)
  BY <1>9, LoggedIs
<1>11. \/ CrumbsFrom(R, cur) = CrumbsFrom(slots, cur)
       \/ \E i \in DOMAIN CrumbsFrom(slots, cur) :
             CrumbsFrom(R, cur) = RemoveAt(CrumbsFrom(slots, cur), i)
  <2> HIDE DEF n, slots, R, cur, p
  <2>1. QED
    BY <1>3, <1>4, <1>5, CrumbsDropped
<1>12. CASE CrumbsFrom(R, cur) = CrumbsFrom(slots, cur)
  BY <1>1, <1>5, <1>7, <1>8, <1>10, <1>12 DEF RingInd, Logs
<1>13. CASE \E i \in DOMAIN CrumbsFrom(slots, cur) :
               CrumbsFrom(R, cur) = RemoveAt(CrumbsFrom(slots, cur), i)
  <2>1. \E i \in DOMAIN LoggedCrumbs : LoggedCrumbs' = RemoveAt(LoggedCrumbs, i)
    BY <1>10, <1>13
  <2>2. \E i \in DOMAIN LoggedCrumbs : LoggedCrumbs' = CrumbsOfReport!RemoveAt(LoggedCrumbs, i)
    BY <2>1 DEF RemoveAt, CrumbsOfReport!RemoveAt
  <2>3. CrumbsOfReport!Drop
    BY <1>1, <1>5, <2>2 DEF CrumbsOfReport!Drop
  <2>4. QED
    BY <1>7, <1>8, <2>3 DEF RingInd, Logs, CrumbsOfReport!Next
<1>14. QED
  BY <1>11, <1>12, <1>13

(* All its places are empty at the end.                                    *)
LEMMA ClearEndsStep ==
    ASSUME RingInd, ClearEnds \/ WipeEnds, RingTyped', RingShape', ~mingled
    PROVE  RingInd' /\ Logs
<1>1. /\ scope' = [scope EXCEPT !.current = 0] /\ NextEmptied > scope.max
      /\ call.op \in {"none", "clear"} /\ call'.op = "none" /\ mingled' = mingled
      /\ Clearing = TRUE /\ Clearing' = FALSE
  <2>1. CASE ClearEnds
    BY <2>1, NotBeside DEF ClearEnds, NoCall, NextEmptied, Clearing, Wiping
  <2>2. CASE WipeEnds
    <3>1. wipe > 0
      BY <2>2 DEF WipeEnds, RingInd, RingTyped
    <3>2. QED
      BY <2>2, <3>1, NotBeside DEF WipeEnds, NextEmptied, Clearing, Wiping
  <2>3. QED
    BY <2>1, <2>2
<1>2. scope'.ring = scope.ring /\ scope'.max = scope.max /\ scope'.current = 0
  BY <1>1 DEF RingInd, RingTyped
<1>3. scope.ring \in Seq(Slots) /\ \A p \in DOMAIN scope.ring : scope.ring[p] \in {Null, Freed}
  <2>1. \A p \in DOMAIN scope.ring : p < NextEmptied
    <3>1. scope.ring = <<>> \/ Len(scope.ring) = scope.max
      BY DEF RingInd, RingShape, RingTyped
    <3>2. scope.ring \in Seq(Slots) /\ scope.max \in Nat /\ NextEmptied \in Nat
      BY DEF RingInd, RingTyped, NextEmptied
    <3>3. QED
      BY <1>1, <3>1, <3>2
  <2>2. QED
    BY <1>1, <2>1 DEF RingInd, RingTyped, SlotsEmptied
<1>4. OldestSlot = scope.current /\ OldestSlot' = 0
  BY <1>1, <1>2 DEF OldestSlot
<1>5. LoggedCrumbs = <<>>
  <2>1. OldestSlot \in Nat /\ (scope.ring = <<>> \/ OldestSlot < Len(scope.ring))
    BY OldestSlotType
  <2>2. QED
    BY <1>3, <2>1, CrumbsOfEmpty, LoggedIs
<1>6. Filled(scope'.ring, OldestSlot') = {} /\ LoggedCrumbs' = <<>>
  <2>1. scope.ring = <<>> \/ 0 < Len(scope.ring)
    BY <1>3
  <2>2. Filled(scope.ring, 0) = {} /\ CrumbsFrom(scope.ring, 0) = <<>>
    BY <1>3, <2>1, CrumbsOfEmpty
  <2>3. QED
    BY <1>2, <1>4, <2>2, LoggedIs
<1>7. EmptyFirst' /\ SlotsEmptied'
  BY <1>1, <1>6 DEF EmptyFirst, SlotsEmptied
<1>8. CrumbsOfReport!Cleared
  BY <1>1, <1>2, <1>5, <1>6 DEF CrumbsOfReport!Cleared
<1>9. QED
  BY <1>7, <1>8 DEF RingInd, Logs, CrumbsOfReport!Next

(* Two calls at once: nothing is promised.                                 *)
LEMMA MingledStep ==
    ASSUME RingInd, ScopeNext, RingTyped', RingShape', mingled'
    PROVE  RingInd' /\ Logs
<1>1. mingled' = TRUE /\ mingled \in BOOLEAN
  BY DEF RingInd, RingTyped
<1>2. scope'.max = scope.max
  <2>1. \A n \in RingSizes : ~ConfigureBreadcrumbs(n)
    BY <1>1 DEF ConfigureBreadcrumbs
  <2>2. QED
    BY <2>1 DEF ScopeNext, ConfigureEnds, AddBreadcrumb, StoreBreadcrumb, AdvanceCrumb, ClearBreadcrumbs,
       ClearNext, ClearEnds, WipeBegins, WipeNext, WipeEnds, RingInd, RingTyped
<1>3. EmptyFirst' /\ SlotsEmptied'
  BY <1>1 DEF EmptyFirst, SlotsEmptied
<1>4. (~mingled' /\ Clearing') = FALSE
  BY <1>1
<1>5. CASE mingled
  <2>1. (~mingled /\ Clearing) = FALSE /\ mingled = TRUE
    BY <1>1, <1>5
  <2>2. QED
    BY <1>1, <1>2, <1>3, <1>4, <2>1 DEF RingInd, Logs
<1>6. CASE ~mingled
  <2>1. CrumbsOfReport!Spoil
    BY <1>1, <1>2, <1>4 DEF CrumbsOfReport!Spoil
  <2>2. QED
    BY <1>3, <2>1 DEF RingInd, Logs, CrumbsOfReport!Next
<1>7. QED
  BY <1>5, <1>6

LEMMA SyncStep == RingInd /\ [ScopeNext]_scopeVars => RingInd' /\ Logs
<1> SUFFICES ASSUME RingInd, [ScopeNext]_scopeVars PROVE RingInd' /\ Logs
  OBVIOUS
<1>1. CASE ScopeNext
  <2>1. RingTyped' /\ RingShape'
    BY <1>1, RingKept DEF RingInd
  <2>2. CASE mingled'
    BY <1>1, <2>1, <2>2, MingledStep
  <2>3. CASE ~mingled'
    <3>1. ASSUME NEW n \in RingSizes, ConfigureBreadcrumbs(n) PROVE RingInd' /\ Logs
      BY <2>1, <3>1, ConfigureStep
    <3>2. CASE ClearBreadcrumbs \/ WipeBegins
      BY <2>1, <2>3, <3>2, ClearBeginsStep
    <3>3. ASSUME NEW v \in Values, AddBreadcrumb(v) PROVE RingInd' /\ Logs
      <4>1. ~mingled /\ ~Wiping
        BY <2>3, <3>3 DEF AddBreadcrumb
      <4>2. QED
        BY <2>1, <3>3, <4>1, AddStep
    <3>4. CASE ConfigureEnds \/ StoreBreadcrumb \/ AdvanceCrumb \/ ClearNext \/ ClearEnds \/ WipeNext \/ WipeEnds
      <4>1. ~mingled
        BY <2>3, <3>4 DEF ConfigureEnds, StoreBreadcrumb, AdvanceCrumb, ClearNext, ClearEnds, WipeNext, WipeEnds
      <4>2. QED
        BY <2>1, <3>4, <4>1, ConfigureEndsStep, StoreStep, AdvanceStep, ClearNextStep, ClearEndsStep
    <3>5. QED
      BY <1>1, <3>1, <3>2, <3>3, <3>4 DEF ScopeNext
  <2>4. QED
    BY <2>2, <2>3
<1>2. CASE UNCHANGED scopeVars
  <2>1. scope' = scope /\ call' = call /\ wipe' = wipe /\ mingled' = mingled
    BY <1>2 DEF scopeVars
  <2>2. OldestSlot' = OldestSlot /\ NextEmptied' = NextEmptied /\ Clearing' = Clearing
    BY <2>1 DEF OldestSlot, NextEmptied, Clearing, Wiping
  <2>3. RingInd'
    BY <2>1, <2>2 DEF RingInd, RingTyped, RingShape, EmptyFirst, SlotsEmptied, Configured
  <2>4. QED
    BY <2>1, <2>2, <2>3, RingUntouched DEF Logs
<1>3. QED
  BY <1>1, <1>2

(***************************************************************************)
(* CrumbsAreLogged: sentrycrash_scopesync_addBreadcrumb, the clears with   *)
(* and without the scope's lock and configureBreadcrumbs, which change the *)
(* ring of breadcrumbs an assignment at a time, implement the log of the   *)
(* last breadcrumbs.  In every state that a crash may find, writeScopeJson *)
(* walks from currentCrumb over the last ones in the order of their        *)
(* addition; only one that is stored and not yet counted comes first       *)
(* instead of last.  From where a clear without the lock meets another     *)
(* call until a clear begins alone, nothing is said.                       *)
(***************************************************************************)
THEOREM CrumbsLogged == RingSpec => CrumbsAreLogged
<1>1. ScopeInit => RingInd /\ CrumbsOfReport!Init
  BY SyncInit
<1>2. RingInd /\ [ScopeNext]_scopeVars => RingInd' /\ Logs
  BY SyncStep
<1>3. QED
  BY <1>1, <1>2, PTL DEF RingSpec, Logs, CrumbsAreLogged, CrumbsOfReport!Spec

(***************************************************************************)
(* The ring of breadcrumbs.  Until it is full it is the log; from then on  *)
(* the place k of it has the k-th breadcrumb of the round, of this round   *)
(* before the index and of the last one behind it.                         *)
(***************************************************************************)
(* A part of a sequence, two put together, and one value more.            *)
LEMMA PartOf ==
    ASSUME NEW s \in Seq(Nat), NEW i \in Nat \ {0}, NEW m \in Nat, i <= m + 1, m <= Len(s)
    PROVE  /\ SubSeq(s, i, m) \in Seq(Nat) /\ Len(SubSeq(s, i, m)) = m + 1 - i
           /\ \A j \in 1 .. m + 1 - i : SubSeq(s, i, m)[j] = s[i - 1 + j]
<1>1. SubSeq(s, i, m) \in Seq(Nat)
  OBVIOUS
<1>2. Len(SubSeq(s, i, m)) = m + 1 - i
  OBVIOUS
<1>3. ASSUME NEW j \in 1 .. m + 1 - i
      PROVE  SubSeq(s, i, m)[j] = s[i - 1 + j]
  OBVIOUS
<1>4. QED
  BY <1>1, <1>2, <1>3

LEMMA FirstOf ==
    ASSUME NEW s \in Seq(Nat), NEW m \in Nat, m <= Len(s)
    PROVE  /\ SubSeq(s, 1, m) \in Seq(Nat) /\ Len(SubSeq(s, 1, m)) = m
           /\ \A j \in 1 .. m : SubSeq(s, 1, m)[j] = s[j]
OBVIOUS

LEMMA Joined ==
    ASSUME NEW s \in Seq(Nat), NEW t \in Seq(Nat)
    PROVE  /\ s \o t \in Seq(Nat) /\ Len(s \o t) = Len(s) + Len(t)
           /\ \A j \in 1 .. Len(s) : (s \o t)[j] = s[j]
           /\ \A j \in 1 .. Len(t) : (s \o t)[Len(s) + j] = t[j]
<1>1. /\ s \o t \in Seq(Nat) /\ Len(s \o t) = Len(s) + Len(t)
      /\ \A i \in 1 .. Len(s) + Len(t) : (s \o t)[i] = IF i <= Len(s) THEN s[i] ELSE t[i - Len(s)]
  BY ConcatProperties
<1>2. ASSUME NEW j \in 1 .. Len(t) PROVE (s \o t)[Len(s) + j] = t[j]
  <2>1. /\ Len(s) + j \in 1 .. Len(s) + Len(t) /\ ~(Len(s) + j <= Len(s))
        /\ Len(s) + j - Len(s) = j
    OBVIOUS
  <2>2. QED
    BY <1>1, <2>1
<1>3. ASSUME NEW j \in 1 .. Len(s) PROVE (s \o t)[j] = s[j]
  BY <1>1
<1>4. QED
  BY <1>1, <1>2, <1>3

LEMMA SameSeq ==
    ASSUME NEW s \in Seq(Nat), NEW t \in Seq(Nat), Len(s) = Len(t),
           \A i \in 1 .. Len(t) : s[i] = t[i]
    PROVE  s = t
OBVIOUS

LEMMA Appends ==
    ASSUME NEW s \in Seq(Nat), NEW c \in Nat
    PROVE  /\ Append(s, c) \in Seq(Nat) /\ Len(Append(s, c)) = Len(s) + 1
           /\ Append(s, c)[Len(s) + 1] = c
           /\ \A i \in 1 .. Len(s) : Append(s, c)[i] = s[i]
OBVIOUS

LEMMA Whole ==
    ASSUME NEW s \in Seq(Nat)
    PROVE  SubSeq(s, 1, Len(s)) = s /\ SubSeq(s, Len(s) + 1, Len(s)) = <<>> /\ <<>> \o s = s
OBVIOUS

(* What a full ring has of a log: the oldest at the index, the newest      *)
(* before it.                                                              *)
LastIn(array, index, log, n, max) ==
    \A k \in 1 .. max :
        /\ k > index => array[k] = log[n - max + k - index]
        /\ k <= index => array[k] = log[n - index + k]

(* A ring that has the last breadcrumbs of a log: all of them until it is  *)
(* full.                                                                   *)
RingHolds(r, log, max) ==
    /\ r \in [array : Seq(Nat), current : Nat] /\ log \in Seq(Nat)
    /\ Len(log) < max => r.array = log /\ r.current = Len(log)
    /\ Len(log) >= max =>
           /\ Len(r.array) = max /\ (r.current < max \/ r.current = 0)
           /\ LastIn(r.array, r.current, log, Len(log), max)

(* The call in progress keeps its two fields.                              *)
StepShape == step = [at |-> step.at, crumb |-> step.crumb]

(* The rings have the last of what was added; while the observers are told *)
(* of a clear, the ring of the scope is new and the log is not.            *)
RingsInd ==
    /\ limit \in Nat /\ StepShape
    /\ At("delete") => ring = EmptyRing
    /\ ~At("delete") => RingHolds(ring, added, limit)
    /\ copy.made /\ ~copy.full => RingHolds(copy.ring, copy.log, limit)

(* A remainder that wraps around once.                                     *)
LEMMA NextIndex ==
    ASSUME NEW max \in Nat \ {0}, NEW i \in Nat, i < max
    PROVE  (i + 1) % max = IF i + 1 < max THEN i + 1 ELSE 0
OBVIOUS

(* A new ring has nothing.                                                 *)
LEMMA EmptyHolds == \A max \in Nat : RingHolds(EmptyRing, <<>>, max)
BY DEF RingHolds, LastIn, EmptyRing

(* A ring that was just filled.                                            *)
LEMMA FilledLast ==
    ASSUME NEW max \in Nat, NEW log
    PROVE  LastIn(log, 0, log, max, max)
BY DEF LastIn

(* A sequence with another value in one place, and one with a value more.  *)
Replaces(new, array, index, c) ==
    \A k \in 1 .. Len(array) : new[k] = IF k = index + 1 THEN c ELSE array[k]

Prolongs(more, log, c) ==
    /\ Len(more) = Len(log) + 1 /\ more[Len(log) + 1] = c
    /\ \A k \in 1 .. Len(log) : more[k] = log[k]

(* The places of a full ring after one more breadcrumb: before its end,    *)
(* and at its end.                                                         *)
LEMMA AddBefore ==
    ASSUME NEW max \in Nat, NEW index \in Nat, index + 1 < max, NEW array, Len(array) = max,
           NEW log, Len(log) \in Nat, Len(log) >= max, LastIn(array, index, log, Len(log), max),
           NEW new, NEW more, NEW c, Replaces(new, array, index, c), Prolongs(more, log, c)
    PROVE  LastIn(new, index + 1, more, Len(log) + 1, max)
<1>1. PICK n \in Nat : n = Len(log) /\ n >= max
  OBVIOUS
<1>2. Len(more) = n + 1 /\ more[n + 1] = c /\ \A k \in 1 .. n : more[k] = log[k]
  BY <1>1 DEF Prolongs
<1>3. ASSUME NEW k \in 1 .. max
      PROVE  /\ k > index + 1 => new[k] = more[n + 1 - max + k - (index + 1)]
             /\ k <= index + 1 => new[k] = more[n + 1 - (index + 1) + k]
  <2>1. /\ k > index => array[k] = log[n - max + k - index]
        /\ k <= index => array[k] = log[n - index + k]
    BY <1>1 DEF LastIn
  <2>2. new[k] = IF k = index + 1 THEN c ELSE array[k]
    BY DEF Replaces
  <2>3. CASE k > index + 1
    <3>1. /\ n - max + k - index \in 1 .. n
          /\ n - max + k - index = n + 1 - max + k - (index + 1)
      BY <1>1, <2>3
    <3>2. QED
      BY <1>2, <2>1, <2>2, <2>3, <3>1
  <2>4. CASE k = index + 1
    <3>1. n + 1 - (index + 1) + k = n + 1
      BY <2>4
    <3>2. QED
      BY <1>2, <2>2, <2>4, <3>1
  <2>5. CASE k <= index
    <3>1. n - index + k \in 1 .. n /\ n - index + k = n + 1 - (index + 1) + k
      BY <1>1, <2>5
    <3>2. QED
      BY <1>2, <2>1, <2>2, <2>5, <3>1
  <2>6. QED
    BY <2>3, <2>4, <2>5
<1>4. LastIn(new, index + 1, more, n + 1, max)
  BY <1>3 DEF LastIn
<1>5. QED
  BY <1>1, <1>4

LEMMA AddAtEnd ==
    ASSUME NEW max \in Nat, NEW index \in Nat, index + 1 = max, NEW array, Len(array) = max,
           NEW log, Len(log) \in Nat, Len(log) >= max, LastIn(array, index, log, Len(log), max),
           NEW new, NEW more, NEW c, Replaces(new, array, index, c), Prolongs(more, log, c)
    PROVE  LastIn(new, 0, more, Len(log) + 1, max)
<1>1. PICK n \in Nat : n = Len(log) /\ n >= max
  OBVIOUS
<1>2. Len(more) = n + 1 /\ more[n + 1] = c /\ \A k \in 1 .. n : more[k] = log[k]
  BY <1>1 DEF Prolongs
<1>3. ASSUME NEW k \in 1 .. max
      PROVE  k > 0 /\ new[k] = more[n + 1 - max + k - 0]
  <2>1. k <= index => array[k] = log[n - index + k]
    BY <1>1 DEF LastIn
  <2>2. new[k] = IF k = index + 1 THEN c ELSE array[k]
    BY DEF Replaces
  <2>3. CASE k = max
    <3>1. n + 1 - max + k - 0 = n + 1
      BY <2>3
    <3>2. QED
      BY <1>2, <2>2, <2>3, <3>1
  <2>4. CASE k < max
    <3>1. n - index + k \in 1 .. n /\ n - index + k = n + 1 - max + k - 0
      BY <1>1, <2>4
    <3>2. QED
      BY <1>2, <2>1, <2>2, <2>4, <3>1
  <2>5. QED
    BY <2>3, <2>4
<1>4. LastIn(new, 0, more, n + 1, max)
  BY <1>3 DEF LastIn
<1>5. QED
  BY <1>1, <1>4

(* What addBreadcrumb does to the array and to the log.                    *)
LEMMA SetsPlace ==
    ASSUME NEW array \in Seq(Nat), NEW index \in Nat, index < Len(array), NEW c \in Nat
    PROVE  /\ [array EXCEPT ![index + 1] = c] \in Seq(Nat)
           /\ Len([array EXCEPT ![index + 1] = c]) = Len(array)
           /\ Replaces([array EXCEPT ![index + 1] = c], array, index, c)
BY DEF Replaces

LEMMA PutsBehind ==
    ASSUME NEW log \in Seq(Nat), NEW c \in Nat
    PROVE  Append(log, c) \in Seq(Nat) /\ Prolongs(Append(log, c), log, c)
BY Appends DEF Prolongs

(* addBreadcrumb keeps the last.                                           *)
LEMMA AddHolds ==
    ASSUME NEW max \in Nat \ {0}, NEW r, NEW log, RingHolds(r, log, max), NEW c \in Nat
    PROVE  RingHolds(RingAdd(r, c, max), Append(log, c), max)
<1>1. PICK array \in Seq(Nat), index \in Nat, n \in Nat :
          array = r.array /\ index = r.current /\ n = Len(log) /\ log \in Seq(Nat)
  BY DEF RingHolds
<1>2. PICK more \in Seq(Nat) : more = Append(log, c) /\ Prolongs(more, log, c)
  BY <1>1, PutsBehind
<1>3. Len(more) = n + 1
  BY <1>1, <1>2 DEF Prolongs
<1>4. /\ n < max => array = log /\ index = n
      /\ n >= max => Len(array) = max /\ index < max /\ LastIn(array, index, log, Len(log), max)
  BY <1>1 DEF RingHolds
<1>5. index < max /\ index <= Len(array) /\ Len(array) \in Nat
  BY <1>1, <1>4
<1>6. PICK next \in Nat : /\ next = (index + 1) % max
                         /\ next = IF index + 1 < max THEN index + 1 ELSE 0
  BY <1>5, NextIndex
<1>7. CASE n < max
  <2>1. RingAdd(r, c, max) = [array |-> more, current |-> next]
    BY <1>1, <1>2, <1>4, <1>6, <1>7 DEF RingAdd
  <2>2. CASE n + 1 < max
    <3>1. next = n + 1
      BY <1>4, <1>6, <1>7, <2>2
    <3>2. QED
      BY <1>2, <1>3, <2>1, <2>2, <3>1 DEF RingHolds
  <2>3. CASE n + 1 = max
    <3>1. next = 0
      BY <1>4, <1>6, <1>7, <2>3
    <3>2. LastIn(more, 0, more, Len(more), max)
      BY <1>3, <2>3, FilledLast
    <3>3. QED
      BY <1>2, <1>3, <2>1, <2>3, <3>1, <3>2 DEF RingHolds
  <2>4. QED
    BY <1>7, <2>2, <2>3
<1>8. CASE n >= max
  <2>1. PICK new : new = [array EXCEPT ![index + 1] = c]
    OBVIOUS
  <2>2. new \in Seq(Nat) /\ Len(new) = max /\ LastIn(new, next, more, Len(more), max)
    <3>1. Len(array) = max /\ index < max /\ LastIn(array, index, log, Len(log), max)
          /\ Len(log) >= max /\ Len(log) \in Nat
      BY <1>1, <1>4, <1>8
    <3>2. new \in Seq(Nat) /\ Len(new) = max /\ Replaces(new, array, index, c)
      BY <2>1, <3>1, SetsPlace
    <3>3. CASE index + 1 < max
      <4>1. LastIn(new, index + 1, more, Len(log) + 1, max)
        BY <1>2, <3>1, <3>2, <3>3, AddBefore
      <4>2. next = index + 1 /\ Len(more) = Len(log) + 1
        BY <1>1, <1>6, <1>3, <3>3
      <4>3. QED
        BY <3>2, <4>1, <4>2
    <3>4. CASE index + 1 = max
      <4>1. LastIn(new, 0, more, Len(log) + 1, max)
        BY <1>2, <3>1, <3>2, <3>4, AddAtEnd
      <4>2. next = 0 /\ Len(more) = Len(log) + 1
        BY <1>1, <1>6, <1>3, <3>4
      <4>3. QED
        BY <3>2, <4>1, <4>2
    <3>5. QED
      BY <3>1, <3>2, <3>3, <3>4
  <2>3. RingAdd(r, c, max) = [array |-> new, current |-> next]
    <3>1. Len(array) = max /\ index < max /\ index # Len(array)
      BY <1>4, <1>8
    <3>2. QED
      BY <1>1, <1>6, <2>1, <3>1 DEF RingAdd
  <2>4. next < max
    BY <1>5, <1>6
  <2>5. QED
    BY <1>2, <1>8, <1>3, <2>2, <2>3, <2>4 DEF RingHolds
<1>9. QED
  BY <1>7, <1>8

(* The last of a short log, and of a long one.                             *)
LEMMA LastOfShort ==
    ASSUME NEW log, NEW max \in Nat, Len(log) \in Nat, Len(log) <= max
    PROVE  LastOf(log, max) = SubSeq(log, 1, Len(log))
<1>1. ~(Len(log) > max)
  OBVIOUS
<1>2. QED
  BY <1>1 DEF LastOf

LEMMA LastOfLong ==
    ASSUME NEW log, NEW max \in Nat, Len(log) \in Nat, Len(log) >= max
    PROVE  LastOf(log, max) = SubSeq(log, Len(log) - max + 1, Len(log))
<1>1. CASE Len(log) > max
  BY <1>1 DEF LastOf
<1>2. CASE Len(log) = max
  <2>1. ~(Len(log) > max) /\ Len(log) - max + 1 = 1
    BY <1>2
  <2>2. QED
    BY <2>1 DEF LastOf
<1>3. QED
  BY <1>1, <1>2

(* A full ring shows the last of its log.                                  *)
LEMMA FullRingShows ==
    ASSUME NEW max \in Nat, NEW index \in Nat, index <= max, NEW array \in Seq(Nat),
           Len(array) = max, NEW log \in Seq(Nat), Len(log) >= max,
           LastIn(array, index, log, Len(log), max)
    PROVE  SubSeq(array, index + 1, max) \o SubSeq(array, 1, index)
               = SubSeq(log, Len(log) - max + 1, Len(log))
<1>0. PICK n \in Nat : n = Len(log) /\ n >= max
  OBVIOUS
<1> DEFINE s == SubSeq(array, index + 1, max)
           t == SubSeq(array, 1, index)
           u == SubSeq(log, n - max + 1, n)
           w == s \o t
<1>1. PICK a \in Nat : a = max - index
  OBVIOUS
<1>2. /\ s \in Seq(Nat) /\ Len(s) = a
      /\ \A j \in 1 .. a : s[j] = array[index + j]
  <2>1. PICK i \in Nat \ {0} : i = index + 1 /\ i <= max + 1 /\ max + 1 - i = a
    BY <1>1
  <2>2. /\ SubSeq(array, i, max) \in Seq(Nat) /\ Len(SubSeq(array, i, max)) = max + 1 - i
        /\ \A j \in 1 .. max + 1 - i : SubSeq(array, i, max)[j] = array[i - 1 + j]
    <3>1. max <= Len(array) /\ i <= max + 1
      BY <2>1
    <3>2. QED
      BY <3>1, PartOf
  <2>3. \A j \in 1 .. a : i - 1 + j = index + j
    BY <2>1
  <2>4. QED
    BY <2>1, <2>2, <2>3
<1>3. /\ t \in Seq(Nat) /\ Len(t) = index
      /\ \A j \in 1 .. index : t[j] = array[j]
  BY FirstOf
<1>4. /\ u \in Seq(Nat) /\ Len(u) = max
      /\ \A j \in 1 .. max : u[j] = log[n - max + j]
  <2>1. PICK i \in Nat \ {0} : i = n - max + 1 /\ i <= n + 1 /\ n + 1 - i = max
    <3>1. /\ n - max + 1 \in Nat \ {0} /\ n - max + 1 <= n + 1
          /\ n + 1 - (n - max + 1) = max
      BY <1>0
    <3>2. QED
      BY <3>1
  <2>2. /\ SubSeq(log, i, n) \in Seq(Nat) /\ Len(SubSeq(log, i, n)) = n + 1 - i
        /\ \A j \in 1 .. n + 1 - i : SubSeq(log, i, n)[j] = log[i - 1 + j]
    <3>1. n <= Len(log) /\ i <= n + 1
      BY <1>0, <2>1
    <3>2. QED
      BY <3>1, PartOf
  <2>3. \A j \in 1 .. max : i - 1 + j = n - max + j
    BY <2>1
  <2>4. QED
    BY <2>1, <2>2, <2>3
<1> HIDE DEF s, t, u
<1>5. /\ w \in Seq(Nat) /\ Len(w) = a + index
      /\ \A j \in 1 .. a : w[j] = s[j]
      /\ \A j \in 1 .. index : w[a + j] = t[j]
  <2>1. /\ w \in Seq(Nat) /\ Len(w) = Len(s) + Len(t)
        /\ \A j \in 1 .. Len(s) : w[j] = s[j]
        /\ \A j \in 1 .. Len(t) : w[Len(s) + j] = t[j]
    BY <1>2, <1>3, Joined, Zenon
  <2>2. Len(s) = a /\ Len(t) = index
    BY <1>2, <1>3
  <2>3. QED
    BY <2>1, <2>2, Zenon
<1> HIDE DEF w
<1>6. ASSUME NEW j \in 1 .. a PROVE w[j] = u[j]
  <2>1. w[j] = array[index + j]
    BY <1>2, <1>5
  <2>2. index + j \in 1 .. max /\ index + j > index /\ n - max + (index + j) - index = n - max + j
    BY <1>1
  <2>3. array[index + j] = log[n - max + (index + j) - index]
    BY <1>0, <2>2 DEF LastIn
  <2>4. u[j] = log[n - max + j]
    <3>1. j \in 1 .. max
      BY <1>1
    <3>2. QED
      BY <1>4, <3>1
  <2>5. QED
    BY <2>1, <2>2, <2>3, <2>4
<1>7. ASSUME NEW j \in 1 .. index PROVE w[a + j] = u[a + j]
  <2>1. w[a + j] = array[j]
    BY <1>3, <1>5
  <2>2. j \in 1 .. max /\ j <= index /\ a + j \in 1 .. max /\ n - max + (a + j) = n - index + j
    BY <1>1
  <2>3. array[j] = log[n - index + j]
    BY <1>0, <2>2 DEF LastIn
  <2>4. u[a + j] = log[n - max + (a + j)]
    BY <1>4, <2>2
  <2>5. QED
    BY <2>1, <2>2, <2>3, <2>4
<1>8. ASSUME NEW i \in 1 .. max PROVE w[i] = u[i]
  <2>1. CASE i <= a
    BY <1>6, <2>1
  <2>2. CASE i > a
    <3>1. PICK j \in 1 .. index : a + j = i
      BY <1>1, <2>2
    <3>2. QED
      BY <1>7, <3>1
  <2>3. QED
    BY <1>1, <2>1, <2>2
<1>9. w = u
  BY <1>1, <1>4, <1>5, <1>8, SameSeq
<1>10. QED
  BY <1>0, <1>9 DEF s, t, u, w

(* What such a ring shows.                                                 *)
LEMMA HoldsShows ==
    ASSUME NEW max \in Nat, NEW r, NEW log, RingHolds(r, log, max)
    PROVE  RingCrumbs(r, max) = LastOf(log, max)
<1>1. PICK array \in Seq(Nat), index \in Nat, n \in Nat :
          array = r.array /\ index = r.current /\ n = Len(log) /\ log \in Seq(Nat)
  BY DEF RingHolds
<1>2. CASE n < max
  <2>1. array = log /\ index = n
    BY <1>1, <1>2 DEF RingHolds
  <2>2. Shorter(max, n) = n /\ Shorter(n, n) = n
    BY <1>2 DEF Shorter
  <2>3. RingCrumbs(r, max) = SubSeq(log, n + 1, n) \o SubSeq(log, 1, n)
    BY <1>1, <2>1, <2>2 DEF RingCrumbs
  <2>4. LastOf(log, max) = SubSeq(log, 1, n)
    BY <1>1, <1>2, LastOfShort
  <2>5. SubSeq(log, 1, n) = log /\ SubSeq(log, n + 1, n) = <<>> /\ <<>> \o log = log
    BY <1>1, Whole
  <2>6. QED
    BY <2>3, <2>4, <2>5
<1>3. CASE n >= max
  <2>1. Len(array) = max /\ index <= max /\ LastIn(array, index, log, Len(log), max)
    BY <1>1, <1>3 DEF RingHolds
  <2>2. Shorter(max, max) = max /\ Shorter(index, max) = index
    BY <2>1 DEF Shorter
  <2>3. RingCrumbs(r, max) = SubSeq(array, index + 1, max) \o SubSeq(array, 1, index)
    BY <1>1, <2>1, <2>2 DEF RingCrumbs
  <2>4. LastOf(log, max) = SubSeq(log, n - max + 1, n)
    BY <1>1, <1>3, LastOfLong
  <2>5. SubSeq(array, index + 1, max) \o SubSeq(array, 1, index) = SubSeq(log, n - max + 1, n)
    <3>1. log \in Seq(Nat) /\ Len(log) >= max
      BY <1>1, <1>3
    <3>2. SubSeq(array, index + 1, max) \o SubSeq(array, 1, index)
              = SubSeq(log, Len(log) - max + 1, Len(log))
      BY <2>1, <3>1, FullRingShows
    <3>3. QED
      BY <1>1, <3>2
  <2>6. QED
    BY <2>3, <2>4, <2>5
<1>4. QED
  BY <1>2, <1>3

(* The invariant holds at the launch, and every step keeps it.             *)
LEMMA RingsInit == CrumbsInit => RingsInd
<1> SUFFICES ASSUME CrumbsInit PROVE RingsInd
  OBVIOUS
<1>1. /\ limit \in Nat /\ ring = EmptyRing /\ added = <<>> /\ ~copy.made /\ ~At("delete")
  BY BreadcrumbsAssumption DEF CrumbsInit, At
<1>2. StepShape
  BY DEF CrumbsInit, StepShape
<1>3. RingHolds(EmptyRing, <<>>, limit)
  BY <1>1, EmptyHolds
<1>4. QED
  BY <1>1, <1>2, <1>3 DEF RingsInd

(* A step that goes on from there.                                         *)
LEMMA GoesOn ==
    ASSUME StepShape, NEW where, Goes(where)
    PROVE  StepShape' /\ step'.at = where
BY DEF StepShape, Goes

(* A step that ends the call.                                             *)
LEMMA GoesIdle == step' = NoStep => StepShape' /\ step'.at = "idle"
BY DEF NoStep, StepShape

(* Only clearBreadcrumbs deletes.                                          *)
LEMMA OtherSteps ==
    ASSUME StepShape,
           \/ StoreData \/ StoreNewLine \/ StoreEnds \/ SwitchRemoves \/ SwitchCreates
           \/ MoveFirst \/ MoveSecond \/ WipeFirst \/ WipeSecond \/ WipeRemoves \/ WipeCreates
           \/ UNCHANGED crumbVars
    PROVE  StepShape' /\ (At("delete")' <=> At("delete"))
<1>1. CASE WipeFirst \/ WipeSecond \/ WipeRemoves \/ WipeCreates \/ UNCHANGED crumbVars
  BY <1>1 DEF WipeFirst, WipeSecond, WipeRemoves, WipeCreates, crumbVars, At, StepShape
<1>2. CASE \/ StoreData \/ StoreNewLine \/ StoreEnds \/ SwitchRemoves \/ SwitchCreates
           \/ MoveFirst \/ MoveSecond
  <2>1. ~At("delete")
    BY <1>2 DEF StoreData, StoreNewLine, StoreEnds, SwitchRemoves, SwitchCreates, MoveFirst,
                MoveSecond, At
  <2>2. \/ step' = NoStep
        \/ \E where \in {"newline", "finally", "remove", "create", "moved"} : Goes(where)
    BY <1>2 DEF StoreData, StoreNewLine, StoreEnds, SwitchRemoves, SwitchCreates, MoveFirst,
                MoveSecond
  <2>3. CASE step' = NoStep
    BY <2>1, <2>3, GoesIdle DEF At
  <2>4. ASSUME NEW where \in {"newline", "finally", "remove", "create", "moved"}, Goes(where)
        PROVE  StepShape' /\ ~At("delete")'
    BY <2>4, GoesOn DEF At
  <2>5. QED
    BY <2>1, <2>2, <2>3, <2>4
<1>3. QED
  BY <1>1, <1>2

(* Every step leaves the call in shape.                                    *)
LEMMA StepStays ==
    ASSUME StepShape, [CrumbsNext]_crumbVars
    PROVE  StepShape'
<1>1. CASE AddCrumb
  BY <1>1 DEF AddCrumb, StepShape
<1>2. CASE CopyScope \/ AddToCopy
  BY <1>2 DEF CopyScope, AddToCopy, StepShape
<1>3. CASE (\E all \in BOOLEAN : ClearCrumbs(all)) \/ DeleteSecond
  <2>1. Goes("delete") \/ Goes("remove")
    BY <1>3 DEF ClearCrumbs, DeleteSecond
  <2>2. QED
    BY <2>1, GoesOn
<1>4. CASE Killed
  BY <1>4 DEF Killed, StepShape
<1>5. QED
  BY <1>1, <1>2, <1>3, <1>4, OtherSteps DEF CrumbsNext

(* One case for each action that changes a ring, and one for the others.   *)
LEMMA RingsNext ==
    ASSUME RingsInd, [CrumbsNext]_crumbVars
    PROVE  RingsInd'
<1>1. limit \in Nat /\ limit' = limit
  BY DEF RingsInd, CrumbsNext, crumbVars, AddCrumb, CopyScope, AddToCopy, ClearCrumbs,
         DeleteSecond, StoreData, StoreNewLine, StoreEnds, SwitchRemoves, SwitchCreates, Killed,
         MoveFirst, MoveSecond, WipeFirst, WipeSecond, WipeRemoves, WipeCreates
<1>2. StepShape'
  BY StepStays DEF RingsInd
<1>3. CASE AddCrumb
  <2>1. PICK c \in Nat : /\ limit >= 1 /\ ~At("delete") /\ step'.at # "delete"
                         /\ ring' = RingAdd(ring, c, limit) /\ added' = Append(added, c)
                         /\ UNCHANGED copy
    <3>1. ~At("delete") /\ Len(added) + 1 \in Nat /\ limit >= 1
      BY <1>3 DEF AddCrumb, At, RingsInd, RingHolds
    <3>2. step' = [at |-> "data", crumb |-> Len(added) + 1] \/ step' = step
      BY <1>3 DEF AddCrumb
    <3>3. step'.at # "delete"
      BY <3>1, <3>2 DEF At
    <3>4. /\ ring' = RingAdd(ring, Len(added) + 1, limit) /\ added' = Append(added, Len(added) + 1)
          /\ UNCHANGED copy
      BY <1>3 DEF AddCrumb
    <3>5. QED
      BY <3>1, <3>3, <3>4
  <2>2. RingHolds(RingAdd(ring, c, limit), Append(added, c), limit)
    BY <1>1, <2>1, AddHolds DEF RingsInd
  <2>3. QED
    BY <1>1, <1>2, <2>1, <2>2 DEF RingsInd, At
<1>4. CASE CopyScope
  <2>1. /\ ~At("delete") /\ UNCHANGED <<ring, added, step>>
        /\ copy' = [made |-> TRUE, ring |-> RingCopy(ring, limit), log |-> RingCrumbs(ring, limit),
                    full |-> Len(ring.array) = limit]
    BY <1>4 DEF CopyScope, At
  <2>2. RingHolds(ring, added, limit)
    BY <2>1 DEF RingsInd
  <2>3. ASSUME ~copy'.full PROVE RingHolds(copy'.ring, copy'.log, limit)
    <3>1. Len(ring.array) # limit
      BY <2>1, <2>3
    <3>2. Len(added) < limit /\ added \in Seq(Nat)
      BY <1>1, <2>2, <3>1 DEF RingHolds
    <3>3. RingCrumbs(ring, limit) = LastOf(added, limit)
      BY <1>1, <2>2, HoldsShows
    <3>4. LastOf(added, limit) = added
      <4>1. Len(added) \in Nat /\ Len(added) <= limit /\ SubSeq(added, 1, Len(added)) = added
        BY <1>1, <3>2
      <4>2. QED
        BY <1>1, <4>1, LastOfShort
    <3>5. copy'.log = added /\ copy'.ring = [array |-> added, current |-> Len(added)]
      BY <2>1, <3>3, <3>4 DEF RingCopy
    <3>6. QED
      BY <1>1, <3>2, <3>5 DEF RingHolds
  <2>4. QED
    BY <1>1, <1>2, <2>1, <2>2, <2>3 DEF RingsInd, At
<1>5. CASE AddToCopy
  <2>1. /\ limit >= 1 /\ copy.made /\ UNCHANGED <<ring, added, step>>
        /\ copy' = [copy EXCEPT !.ring = RingAdd(copy.ring, MaxCrumbs + 1 + AddedToCopy, limit),
                                !.log = Append(@, MaxCrumbs + 1 + AddedToCopy)]
    BY <1>5 DEF AddToCopy
  <2>2. ASSUME copy'.made, ~copy'.full PROVE RingHolds(copy'.ring, copy'.log, limit)
    <3>1. RingHolds(copy.ring, copy.log, limit)
      BY <2>1, <2>2 DEF RingsInd
    <3>2. AddedToCopy \in Nat
      <4>1. copy.log \in Seq(Nat)
        BY <3>1 DEF RingHolds
      <4>2. IsFiniteSet({i \in DOMAIN copy.log : copy.log[i] > MaxCrumbs})
        <5>1. DOMAIN copy.log = 1 .. Len(copy.log) /\ Len(copy.log) \in Nat
          BY <4>1
        <5>2. IsFiniteSet(DOMAIN copy.log)
          BY <5>1, FS_Interval
        <5>3. QED
          BY <5>2, FS_Subset
      <4>3. QED
        BY <4>2, FS_CardinalityType DEF AddedToCopy
    <3>3. PICK c \in Nat : c = MaxCrumbs + 1 + AddedToCopy
      BY <3>2, BreadcrumbsAssumption
    <3>4. copy'.ring = RingAdd(copy.ring, c, limit) /\ copy'.log = Append(copy.log, c)
      BY <2>1, <3>3
    <3>5. RingHolds(RingAdd(copy.ring, c, limit), Append(copy.log, c), limit)
      BY <1>1, <2>1, <3>1, AddHolds
    <3>6. QED
      BY <3>4, <3>5
  <2>3. QED
    BY <1>1, <1>2, <2>1, <2>2 DEF RingsInd, At
<1>6. CASE \E all \in BOOLEAN : ClearCrumbs(all)
  <2>1. ring' = EmptyRing /\ UNCHANGED copy /\ Goes("delete")
    BY <1>6 DEF ClearCrumbs
  <2>2. At("delete")'
    BY <2>1, GoesOn DEF At, RingsInd
  <2>3. QED
    BY <1>1, <1>2, <2>1, <2>2 DEF RingsInd
<1>7. CASE DeleteSecond
  <2>1. ring = EmptyRing /\ added' = <<>> /\ UNCHANGED <<ring, copy>>
    BY <1>7 DEF DeleteSecond, RingsInd
  <2>2. RingHolds(EmptyRing, <<>>, limit)
    BY <1>1, EmptyHolds
  <2>3. QED
    BY <1>1, <1>2, <2>1, <2>2 DEF RingsInd
<1>8. CASE Killed
  <2>1. /\ ring' = EmptyRing /\ added' = <<>> /\ copy'.made = FALSE
    BY <1>8 DEF Killed
  <2>2. RingHolds(EmptyRing, <<>>, limit)
    BY <1>1, EmptyHolds
  <2>3. QED
    BY <1>1, <1>2, <2>1, <2>2 DEF RingsInd
<1>9. CASE \/ StoreData \/ StoreNewLine \/ StoreEnds \/ SwitchRemoves \/ SwitchCreates
           \/ MoveFirst \/ MoveSecond \/ WipeFirst \/ WipeSecond \/ WipeRemoves \/ WipeCreates
           \/ UNCHANGED crumbVars
  <2>1. UNCHANGED <<ring, added, copy>>
    BY <1>9 DEF StoreData, StoreNewLine, StoreEnds, SwitchRemoves, SwitchCreates, MoveFirst,
                MoveSecond, WipeFirst, WipeSecond, WipeRemoves, WipeCreates, crumbVars
  <2>2. At("delete")' <=> At("delete")
    BY <1>9, OtherSteps DEF RingsInd
  <2>3. QED
    BY <1>1, <1>2, <2>1, <2>2 DEF RingsInd
<1>10. QED
  BY <1>3, <1>4, <1>5, <1>6, <1>7, <1>8, <1>9 DEF CrumbsNext

(* The scope shows the last breadcrumbs that were added to it, as many as  *)
(* maxBreadcrumbs, the oldest first, and so does a copy that was made      *)
(* before the ring was full (addBreadcrumb, breadcrumbs and initWithScope  *)
(* of SentryScope), for every limit.                                       *)
THEOREM RingsKeepTheLast == CrumbsSpec => []RingsShowTheLast
<1>1. RingsInd => RingsShowTheLast
  BY HoldsShows DEF RingsInd, RingsShowTheLast
<1>2. QED
  BY <1>1, RingsInit, RingsNext, PTL DEF CrumbsSpec

=============================================================================
