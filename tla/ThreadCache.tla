------------------------------ MODULE ThreadCache ------------------------------
(***************************************************************************)
(* The names of the threads that a crash report gives                      *)
(* (SentryCrashCachedData.c).  A monitor thread replaces the arrays every  *)
(* minute, step by step and without a lock; the crash handler, for which   *)
(* the other threads have stopped, reads them between any two steps.  A    *)
(* monitor thread that was cancelled goes on until it sleeps, and the SDK  *)
(* may start the next one before that.  The name of a thread is the        *)
(* thread itself.                                                          *)
(***************************************************************************)
EXTENDS Integers, Sequences, FiniteSets

CONSTANTS Monitors,      \* monitor threads, one for each start
          ThreadLists,   \* the lists of threads that task_threads may return
          MaxUpdates,    \* bound: updates of the arrays
          MaxFreezes     \* bound: g_semaphoreCount

ASSUME ThreadCacheAssumption ==
    MaxUpdates \in Nat /\ MaxFreezes \in Nat /\ ThreadLists \subseteq Seq(Nat)

VARIABLES arrays,        \* every array ever made: [data, freed]
          machThreads,   \* g_allMachThreads, the index of an array or 0
          threadNames,   \* g_allThreadNames
          threadsCount,  \* g_allThreadsCount
          staticNames,   \* allThreadNames of updateThreadList, which is static
          monitor,       \* what each monitor thread does: [state, step, mach, new]
          hasThreadStarted, \* g_hasThreadStarted, and the thread it is about
          semaphore,     \* g_semaphoreCount
          overlapped     \* two updates were in progress at the same time

threadVars == <<arrays, machThreads, threadNames, threadsCount, staticNames, monitor,
                hasThreadStarted, semaphore, overlapped>>

NoArray == 0

Nobody == "nobody"

ThreadsInit ==
    /\ arrays = <<>> /\ machThreads = NoArray /\ threadNames = NoArray /\ threadsCount = 0
    /\ staticNames = NoArray
    /\ monitor = [m \in Monitors |-> [state |-> "new", step |-> "idle", mach |-> NoArray, new |-> 0]]
    /\ hasThreadStarted = Nobody /\ semaphore = 0 /\ overlapped = FALSE

Smaller(m, n) == IF m < n THEN m ELSE n

----------------------------------------------------------------------------
(* The monitor thread *)

\* sentrycrashccd_init and _close
InitThread(m) ==
    /\ hasThreadStarted = Nobody /\ monitor[m].state = "new"
    /\ hasThreadStarted' = m
    /\ monitor' = [monitor EXCEPT ![m].state = "runs"]
    /\ UNCHANGED <<arrays, machThreads, threadNames, threadsCount, staticNames, semaphore, overlapped>>

CloseThread ==
    /\ hasThreadStarted # Nobody
    /\ hasThreadStarted' = Nobody
    /\ monitor' = [monitor EXCEPT ![hasThreadStarted].state = "cancelled"]
    /\ UNCHANGED <<arrays, machThreads, threadNames, threadsCount, staticNames, semaphore, overlapped>>

\* sleep is where the thread is cancelled.
Sleep(m) ==
    /\ monitor[m].state = "cancelled" /\ monitor[m].step = "idle"
    /\ monitor' = [monitor EXCEPT ![m].state = "ended"]
    /\ UNCHANGED <<arrays, machThreads, threadNames, threadsCount, staticNames, hasThreadStarted,
                   semaphore, overlapped>>

\* monitorCachedData: an update begins unless the data is frozen.
BeginUpdate(m, list) ==
    /\ monitor[m].state \in {"runs", "cancelled"} /\ monitor[m].step = "idle"
    /\ semaphore <= 0 /\ Len(arrays) < 2 * MaxUpdates
    /\ arrays' = arrays \o <<[data |-> list, freed |-> FALSE], [data |-> list, freed |-> FALSE]>>
    /\ monitor' = [monitor EXCEPT ![m].step = "count", ![m].mach = Len(arrays) + 1, ![m].new = Len(list)]
    /\ staticNames' = Len(arrays) + 2
    /\ overlapped' = (overlapped \/ \E o \in Monitors : monitor[o].step # "idle")
    /\ UNCHANGED <<machThreads, threadNames, threadsCount, hasThreadStarted, semaphore>>

\* mutant: the new number of threads is published before the arrays
ShrinkCount_ToNew(m) ==
    /\ monitor[m].step = "count"
    /\ threadsCount' = monitor[m].new
    /\ monitor' = [monitor EXCEPT ![m].step = "mach"]
    /\ UNCHANGED <<arrays, machThreads, threadNames, staticNames, hasThreadStarted, semaphore, overlapped>>

ShrinkCount(m) ==
    /\ monitor[m].step = "count"
    /\ threadsCount' = Smaller(threadsCount, monitor[m].new)
    /\ monitor' = [monitor EXCEPT ![m].step = "mach"]
    /\ UNCHANGED <<arrays, machThreads, threadNames, staticNames, hasThreadStarted, semaphore, overlapped>>

\* SWAP_POINTERS; the locals then hold the old arrays.
SwapMachThreads(m) ==
    /\ monitor[m].step = "mach"
    /\ machThreads' = monitor[m].mach
    /\ monitor' = [monitor EXCEPT ![m].step = "names", ![m].mach = machThreads]
    /\ UNCHANGED <<arrays, threadNames, threadsCount, staticNames, hasThreadStarted, semaphore, overlapped>>

SwapThreadNames(m) ==
    /\ monitor[m].step = "names"
    /\ threadNames' = staticNames /\ staticNames' = threadNames
    /\ monitor' = [monitor EXCEPT ![m].step = "grow"]
    /\ UNCHANGED <<arrays, machThreads, threadsCount, hasThreadStarted, semaphore, overlapped>>

GrowCount(m) ==
    /\ monitor[m].step = "grow"
    /\ threadsCount' = monitor[m].new
    /\ monitor' = [monitor EXCEPT ![m].step = "free"]
    /\ UNCHANGED <<arrays, machThreads, threadNames, staticNames, hasThreadStarted, semaphore, overlapped>>

FreeOld(m) ==
    /\ monitor[m].step = "free"
    /\ arrays' = [i \in DOMAIN arrays |-> IF i \in {monitor[m].mach, staticNames}
                                          THEN [arrays[i] EXCEPT !.freed = TRUE] ELSE arrays[i]]
    /\ monitor' = [monitor EXCEPT ![m].step = "idle"]
    /\ UNCHANGED <<machThreads, threadNames, threadsCount, staticNames, hasThreadStarted, semaphore, overlapped>>

----------------------------------------------------------------------------
(* The crash handler *)

\* sentrycrashccd_freeze and _unfreeze; an extra unfreeze has no effect.
Freeze ==
    /\ semaphore < MaxFreezes
    /\ semaphore' = semaphore + 1
    /\ UNCHANGED <<arrays, machThreads, threadNames, threadsCount, staticNames, monitor,
                   hasThreadStarted, overlapped>>

Unfreeze ==
    /\ semaphore' = IF semaphore - 1 < 0 THEN semaphore ELSE semaphore - 1
    /\ UNCHANGED <<arrays, machThreads, threadNames, threadsCount, staticNames, monitor,
                   hasThreadStarted, overlapped>>

\* sentrycrashccd_getThreadName: the places it reads of an array.
PlacesRead == 1 .. IF threadNames = NoArray THEN 0 ELSE threadsCount

\* The name it gives a thread, 0 for none.
GetThreadName(t) ==
    LET at == {i \in PlacesRead : arrays[machThreads].data[i] = t}
    IN  IF at = {} THEN 0 ELSE arrays[threadNames].data[CHOOSE i \in at : \A j \in at : i <= j]

ThreadsNext ==
    \/ \E m \in Monitors :
           \/ InitThread(m) \/ Sleep(m)
           \/ \E list \in ThreadLists : BeginUpdate(m, list)
           \/ ShrinkCount(m) \/ SwapMachThreads(m) \/ SwapThreadNames(m) \/ GrowCount(m) \/ FreeOld(m)
    \/ CloseThread \/ Freeze \/ Unfreeze

ThreadsSpec == ThreadsInit /\ [][ThreadsNext]_threadVars

----------------------------------------------------------------------------
(* Properties *)

InBounds(array, i) == array # NoArray /\ ~arrays[array].freed /\ i <= Len(arrays[array].data)

\* One of the two arrays is new, the other is old.
Between == \E m \in Monitors : monitor[m].step = "names"

\* The crash handler may stop the monitor thread between any two steps of an
\* update: it never reads past an array or an array that was freed, although
\* the list of threads may shrink or grow, and a thread is given its own name
\* or none, but for the moment when only one of the two arrays is new.  A
\* monitor thread that is started before the cancelled one sleeps spoils this
\* only when their updates overlap.
ThreadNamesAreSafe ==
    ~overlapped =>
        /\ \A i \in PlacesRead : InBounds(machThreads, i) /\ InBounds(threadNames, i)
        /\ ~Between => \A i \in PlacesRead :
                           LET t == arrays[machThreads].data[i] IN GetThreadName(t) \in {0, t}

=============================================================================
