------------------------------ MODULE Breadcrumbs ------------------------------
(***************************************************************************)
(* The breadcrumbs of a scope (SentryScope.m): a ring, copies of it, and   *)
(* the two files that keep them for the event of a watchdog termination    *)
(* (SentryWatchdogTerminationScopeObserver.m), which the next launch moves *)
(* away and reads (SentryFileManager.m).  The files have no header: which  *)
(* one is older is told from the number of their lines.                    *)
(*                                                                         *)
(* The lock on the array of breadcrumbs is held while observers run, so    *)
(* one call is in progress at a time, and beside it the second half of the *)
(* scope's clear, which tells the observers once more without the lock.    *)
(* The process may be killed at any step.  A breadcrumb is the number of   *)
(* its addition.                                                           *)
(***************************************************************************)
EXTENDS Integers, Sequences, FiniteSets, SequencesExt

CONSTANTS CrumbLimits,     \* maxBreadcrumbs of the options
          MaxCrumbs,       \* bound: breadcrumbs added to the scope
          MaxCopied,       \* bound: breadcrumbs added to the copy
          MaxClears,       \* bound: clears of the scope
          MaxFaults,       \* bound: files that fail
          MaxKills         \* bound: launches that are killed

ASSUME BreadcrumbsAssumption ==
    /\ CrumbLimits \subseteq Nat /\ MaxCrumbs \in Nat /\ MaxCopied \in Nat /\ MaxClears \in Nat
    /\ MaxFaults \in Nat /\ MaxKills \in Nat

VARIABLES limit,       \* maxBreadcrumbs
          ring,        \* _breadcrumbArray and _currentBreadcrumbIndex of the scope
          copy,        \* those of a copy, and what was added to it
          files,       \* "one" and "two" -> NoFile or tokens
          previous,    \* the same, moved away
          writer,      \* the observer: [active, handle, counter]; see Handles
          step,        \* where the call in progress is
          wiper,       \* where clear of the observer is, which has no lock
          clears, faults, kills,
          \* History
          added,       \* breadcrumbs in the scope since the last clear
          written,     \* those the observer was given since its files were cleared,
                       \* those that got lost, and whether the files are torn
          dead         \* what the launch before left

crumbVars == <<limit, ring, copy, files, previous, writer, step, wiper, clears, faults, kills, added, written, dead>>

LineEnd == 0

Missing == <<-1>>

NoPath == "none"

\* A handle is nil (NoPath), closed, or open for the file at a path or for one that
\* was removed since.
Handles == {NoPath, "closed", "one", "two", "gone"}

NoWriter == [active |-> NoPath, handle |-> NoPath, counter |-> 0]

Nothing == [log |-> <<>>, lost |-> {}, tie |-> FALSE, torn |-> FALSE]

----------------------------------------------------------------------------
(* The ring *)

\* addBreadcrumb: behind the end of the array the object is appended.
RingAdd(r, c, max) ==
    [array |-> IF r.current = Len(r.array) THEN Append(r.array, c) ELSE [r.array EXCEPT ![r.current + 1] = c],
     current |-> (r.current + 1) % max]

Shorter(m, n) == IF m < n THEN m ELSE n

\* The method breadcrumbs, the oldest first: the places from the index to the end
\* of the ring, then those before it, as far as the array goes.
RingCrumbs(r, max) ==
    SubSeq(r.array, r.current + 1, Shorter(max, Len(r.array)))
        \o SubSeq(r.array, 1, Shorter(r.current, Len(r.array)))

EmptyRing == [array |-> <<>>, current |-> 0]

\* initWithScope: the index is the number of breadcrumbs, also of a full ring.
RingCopy(r, max) ==
    LET crumbs == RingCrumbs(r, max)
    IN  [array |-> crumbs, current |-> Len(crumbs)]

CrumbsInit ==
    /\ limit \in CrumbLimits
    /\ ring = EmptyRing
    /\ copy = [made |-> FALSE, ring |-> EmptyRing, log |-> <<>>, full |-> FALSE]
    /\ files = [p \in {"one", "two"} |-> Missing] /\ previous = files
    /\ writer = NoWriter
    /\ step = [at |-> "launch", crumb |-> 0] /\ wiper = "none"
    /\ clears = 0 /\ faults = 0 /\ kills = 0
    /\ added = <<>> /\ written = Nothing /\ dead = Nothing

At(where) == step.at = where

NoStep == [at |-> "idle", crumb |-> 0]

Goes(where) == step' = [step EXCEPT !.at = where]

MayFail == faults < MaxFaults /\ faults' = faults + 1

\* clear of the observer is in the middle of its work.
Deleting == wiper \in {"delete", "remove", "create"}

TornFiles == [Nothing EXCEPT !.torn = TRUE]

\* Two calls that change the files at once tear them, until one that clears them alone.
Spoilt(w, together) == IF w.torn \/ together THEN TornFiles ELSE w

----------------------------------------------------------------------------
(* The scope *)

\* addBreadcrumb; of the observer, a breadcrumb that is no JSON is left out.
AddCrumb ==
    /\ At("idle") /\ limit >= 1 /\ Len(added) < MaxCrumbs
    /\ LET c == Len(added) + 1
       IN  /\ ring' = RingAdd(ring, c, limit)
           /\ added' = Append(added, c)
           /\ \/ step' = [at |-> "data", crumb |-> c] /\ UNCHANGED <<faults, written>>
              \/ MayFail /\ UNCHANGED step /\ written' = Spoilt([written EXCEPT !.lost = @ \cup {c}], FALSE)
    /\ UNCHANGED <<limit, copy, files, previous, writer, wiper, clears, kills, dead>>

CopyScope ==
    /\ At("idle") /\ ~copy.made
    /\ copy' = [made |-> TRUE, ring |-> RingCopy(ring, limit), log |-> RingCrumbs(ring, limit),
                full |-> Len(ring.array) = limit]
    /\ UNCHANGED <<limit, ring, files, previous, writer, step, wiper, clears, faults, kills, added, written, dead>>

\* Breadcrumbs of the copy alone.
AddedToCopy == Cardinality({i \in DOMAIN copy.log : copy.log[i] > MaxCrumbs})

\* addBreadcrumb of the copy, which has no observers.
AddToCopy ==
    /\ copy.made /\ limit >= 1 /\ AddedToCopy < MaxCopied
    /\ LET c == MaxCrumbs + 1 + AddedToCopy
       IN  copy' = [copy EXCEPT !.ring = RingAdd(copy.ring, c, limit), !.log = Append(@, c)]
    /\ UNCHANGED <<limit, ring, files, previous, writer, step, wiper, clears, faults, kills, added, written, dead>>

----------------------------------------------------------------------------
(* The files of the watchdog observer *)

Other(path) == IF path = "one" THEN "two" ELSE "one"

\* A handle that is nil takes what is written and drops it.
Appended(token) ==
    IF writer.handle \in {"one", "two"} THEN [files EXCEPT ![writer.handle] = Append(@, token)] ELSE files

\* The breadcrumb will be a line of its own.
LineIsClean ==
    /\ writer.handle \in {"one", "two"}
    /\ files[writer.handle] = <<>> \/ Last(files[writer.handle]) = LineEnd

\* A file fails, or its handle was closed: an exception that store catches.
Raises == IF writer.handle = "closed" THEN UNCHANGED faults ELSE MayFail

\* store: the breadcrumb; without a handle nothing is written and nobody knows.
StoreData ==
    /\ At("data")
    /\ \/ /\ writer.handle # "closed"
          /\ files' = Appended(step.crumb)
          /\ Goes("newline")
          /\ written' = Spoilt([written EXCEPT !.log = Append(@, step.crumb),
                                             !.lost = IF LineIsClean THEN @ ELSE @ \cup {step.crumb}], Deleting)
          /\ UNCHANGED faults
       \/ /\ Raises
          /\ Goes("finally")
          /\ written' = Spoilt([written EXCEPT !.lost = @ \cup {step.crumb}], Deleting)
          /\ UNCHANGED files
    /\ UNCHANGED <<limit, ring, copy, previous, writer, wiper, clears, kills, added, dead>>

\* The line end and the count; without it the next breadcrumb spoils the line.
StoreNewLine ==
    /\ At("newline")
    /\ \/ /\ writer.handle # "closed"
          /\ files' = Appended(LineEnd)
          /\ writer' = [writer EXCEPT !.counter = @ + 1]
          /\ written' = Spoilt(written, Deleting)
          /\ UNCHANGED faults
       \/ /\ Raises
          /\ written' = Spoilt([written EXCEPT !.lost = @ \cup {step.crumb}], Deleting)
          /\ UNCHANGED <<files, writer>>
    /\ Goes("finally")
    /\ UNCHANGED <<limit, ring, copy, previous, wiper, clears, kills, added, dead>>

\* mutant: the counter goes on when the file was switched
StoreEnds_CountsOn ==
    /\ At("finally")
    /\ IF writer.counter >= limit THEN Goes("remove") ELSE step' = NoStep
    /\ UNCHANGED <<limit, ring, copy, files, previous, writer, wiper, clears, faults, kills, added, written, dead>>

\* The @finally: a full file is followed by the other one.
StoreEnds ==
    /\ At("finally")
    /\ IF writer.counter >= limit THEN Goes("remove") ELSE step' = NoStep
    /\ writer' = [writer EXCEPT !.counter = IF @ >= limit THEN 0 ELSE @]
    /\ written' = Spoilt(written, Deleting)
    /\ UNCHANGED <<limit, ring, copy, files, previous, wiper, clears, faults, kills, added, dead>>

\* switchFileHandle: the file goes, a new one is made and opened.
RemovesOther ==
    LET path == Other(writer.active)
    IN  /\ files' = [files EXCEPT ![path] = Missing]
        /\ writer' = [writer EXCEPT !.active = path, !.handle = IF @ = NoPath THEN @ ELSE "closed"]

CreatesActive ==
    IF writer.active = NoPath THEN writer' = [writer EXCEPT !.handle = NoPath] /\ UNCHANGED <<files, faults>>
    ELSE /\ files' = [files EXCEPT ![writer.active] = <<>>]
         /\ \/ writer' = [writer EXCEPT !.handle = writer.active] /\ UNCHANGED faults
            \/ MayFail /\ writer' = [writer EXCEPT !.handle = NoPath]

SwitchRemoves ==
    /\ At("remove") /\ RemovesOther /\ Goes("create")
    /\ written' = Spoilt(written, Deleting)
    /\ UNCHANGED <<limit, ring, copy, previous, wiper, clears, faults, kills, added, dead>>

SwitchCreates ==
    /\ At("create") /\ CreatesActive /\ step' = NoStep
    /\ written' = Spoilt(written, Deleting)
    /\ wiper' = IF wiper = "locked" THEN "due" ELSE wiper
    /\ UNCHANGED <<limit, ring, copy, previous, clears, kills, added, dead>>

\* deleteFiles: the handle is closed, the first file goes, then the second one.
DeletesFirst ==
    /\ files' = [files EXCEPT !["one"] = Missing]
    /\ writer' = NoWriter

DeletesSecond ==
    /\ files' = [files EXCEPT !["two"] = Missing]
    /\ writer' = [writer EXCEPT !.handle = IF @ = "two" THEN "gone" ELSE @]

\* clearBreadcrumbs of the scope, by itself or for clear, and of the observer:
\* deleteFiles, then the switch.
ClearCrumbs(all) ==
    /\ At("idle") /\ (all => wiper = "none" /\ clears < MaxClears)
    /\ ring' = EmptyRing
    /\ DeletesFirst
    /\ written' = Spoilt([written EXCEPT !.torn = FALSE], Deleting)
    /\ Goes("delete")
    /\ IF all THEN wiper' = "locked" /\ clears' = clears + 1 ELSE UNCHANGED <<wiper, clears>>
    /\ UNCHANGED <<limit, copy, previous, faults, kills, added, dead>>

DeleteSecond ==
    /\ At("delete") /\ DeletesSecond
    /\ added' = <<>>
    /\ written' = Spoilt([Nothing EXCEPT !.torn = written.torn], Deleting)
    /\ Goes("remove")
    /\ UNCHANGED <<limit, ring, copy, previous, wiper, clears, faults, kills, dead>>

\* The end of clear tells the observers to clear, without the lock: the same again,
\* beside whatever call is in progress now.  A handle that is released while the other
\* call uses it is a kill.
WipeFirst ==
    /\ wiper = "due" /\ DeletesFirst
    /\ wiper' = "delete"
    /\ written' = Spoilt([written EXCEPT !.torn = FALSE], ~At("idle"))
    /\ UNCHANGED <<limit, ring, copy, previous, step, clears, faults, kills, added, dead>>

WipeSecond ==
    /\ wiper = "delete" /\ DeletesSecond
    /\ wiper' = "remove"
    /\ written' = Spoilt([Nothing EXCEPT !.torn = written.torn], ~At("idle"))
    /\ UNCHANGED <<limit, ring, copy, previous, step, clears, faults, kills, added, dead>>

WipeRemoves ==
    /\ wiper = "remove" /\ RemovesOther
    /\ wiper' = "create"
    /\ written' = Spoilt(written, ~At("idle"))
    /\ UNCHANGED <<limit, ring, copy, previous, step, clears, faults, kills, added, dead>>

WipeCreates ==
    /\ wiper = "create" /\ CreatesActive
    /\ wiper' = "none"
    /\ written' = Spoilt(written, ~At("idle"))
    /\ UNCHANGED <<limit, ring, copy, previous, step, clears, kills, added, dead>>

----------------------------------------------------------------------------
(* Launches *)

\* The process is killed; it is a tie when the second file is the newest and as
\* long as the first.
Killed ==
    /\ kills < MaxKills /\ kills' = kills + 1
    /\ dead' = CASE step.at \in {"launch", "moved"} -> Spoilt(dead, At("moved"))
              [] written.torn \/ At("delete") \/ wiper = "delete" -> TornFiles
              [] OTHER -> [written EXCEPT !.tie = step.at \in {"finally", "remove"} /\ writer.active = "two"
                                                   /\ writer.counter \in {0, limit}]
    /\ ring' = EmptyRing /\ copy' = [made |-> FALSE, ring |-> EmptyRing, log |-> <<>>, full |-> FALSE]
    /\ writer' = NoWriter
    /\ added' = <<>> /\ written' = Nothing
    /\ step' = [at |-> "launch", crumb |-> 0] /\ wiper' = "none"
    /\ UNCHANGED <<limit, files, previous, clears, faults>>

\* moveState: what was there before goes, even if there is nothing to move.
Move(path) ==
    /\ previous' = [previous EXCEPT ![path] = files[path]]
    /\ files' = [files EXCEPT ![path] = Missing]

\* moveBreadcrumbsToPreviousBreadcrumbs, and the observer that begins.
MoveFirst ==
    /\ At("launch")
    /\ Move("one")
    /\ Goes("moved")
    /\ UNCHANGED <<limit, ring, copy, writer, wiper, clears, faults, kills, added, written, dead>>

MoveSecond ==
    /\ At("moved")
    /\ Move("two")
    /\ Goes("remove")
    /\ UNCHANGED <<limit, ring, copy, writer, wiper, clears, faults, kills, added, written, dead>>

CrumbsNext ==
    \/ AddCrumb \/ CopyScope \/ AddToCopy \/ (\E all \in BOOLEAN : ClearCrumbs(all)) \/ DeleteSecond
    \/ WipeFirst \/ WipeSecond \/ WipeRemoves \/ WipeCreates
    \/ StoreData \/ StoreNewLine \/ StoreEnds \/ SwitchRemoves \/ SwitchCreates
    \/ Killed \/ MoveFirst \/ MoveSecond

CrumbsSpec == CrumbsInit /\ [][CrumbsNext]_crumbVars

----------------------------------------------------------------------------
(* What the next launch reads *)

\* componentsSeparatedByCharactersInSet: one more than there are line ends.
Lines(file) == IF file = Missing THEN 0 ELSE Len(SelectSeq(file, LAMBDA x : x = LineEnd)) + 1

\* The lines that are one breadcrumb.
Parsed(file) ==
    LET Alone(i) == /\ file[i] # LineEnd
                    /\ i > 1 => file[i - 1] = LineEnd
                    /\ i < Len(file) => file[i + 1] = LineEnd
        at == SelectSeq([i \in 1 .. Len(file) |-> i], Alone)
    IN  IF file = Missing THEN <<>> ELSE [j \in 1 .. Len(at) |-> file[at[j]]]

\* readPreviousBreadcrumbs
ReadPrevious ==
    IF Lines(previous["one"]) > Lines(previous["two"])
    THEN Parsed(previous["one"]) \o Parsed(previous["two"])
    ELSE Parsed(previous["two"]) \o Parsed(previous["one"])

LastOf(s, n) == SubSeq(s, IF Len(s) > n THEN Len(s) - n + 1 ELSE 1, Len(s))

\* The breadcrumbs of the event of a watchdog termination.
Reported == LastOf(ReadPrevious, limit)

----------------------------------------------------------------------------
(* Properties *)

\* The breadcrumbs of a scope are the last that were added to it, as many as the
\* limit allows and the oldest first, however often the ring went round; so are
\* those of a copy and what was added to it since, unless the ring was full when
\* it was copied: then the copy writes behind the end of its ring.
RingsShowTheLast ==
    /\ ~At("delete") => RingCrumbs(ring, limit) = LastOf(added, limit)
    /\ copy.made /\ ~copy.full => RingCrumbs(copy.ring, limit) = LastOf(copy.log, limit)

\* The rings show the last breadcrumbs.  Wherever the process was killed, the event
\* of the next launch has the last breadcrumbs of the dead one in their order, as
\* many as the limit allows less those a failing file lost.  The order is wrong (and
\* the newest are cut off) only if the kill came when the second file had just been
\* filled; a launch that dies while it moves the files loses them.  The clear of a
\* scope tells the observer twice: what was added in between is shown by the ring
\* but not in the files any more, and where the second, unlocked clear met another
\* call on the files, they hold anything until they are cleared again.
CrumbsAreKept ==
    /\ RingsShowTheLast
    /\ step.at \notin {"launch", "moved"} /\ ~dead.tie /\ ~dead.torn =>
           LET want == SelectSeq(dead.log, LAMBDA c : c \notin dead.lost)
               told == SelectSeq(Reported, LAMBDA c : c \notin dead.lost)
           IN  /\ IsSuffix(told, want)
               /\ Len(told) >= Shorter(limit, Len(want)) - Cardinality(dead.lost)

=============================================================================
