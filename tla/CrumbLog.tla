-------------------------------- MODULE CrumbLog --------------------------------
(***************************************************************************)
(* What the breadcrumbs of the crash report promise: the last breadcrumbs  *)
(* that were added since the last clear, as many as the capacity allows,   *)
(* the oldest first.  A crash in the middle of an addition may find one    *)
(* breadcrumb less, a crash in the middle of a clear a part of them.       *)
(* Nothing is promised of a log that two calls at once have spoilt, until  *)
(* it is cleared or configured.                                            *)
(***************************************************************************)
EXTENDS Naturals, Sequences, SequencesExt

CONSTANTS Crumbs

VARIABLES log, capacity, clearing, spoilt

Init == log = <<>> /\ capacity = 0 /\ clearing = FALSE /\ spoilt = FALSE

\* A new capacity starts a new log.
Configure == ~clearing /\ capacity' \in Nat /\ log' = <<>> /\ spoilt' = FALSE /\ UNCHANGED clearing

\* The oldest makes room for the one that is about to be added.
Forget ==
    /\ ~clearing
    /\ log # <<>> /\ Len(log) = capacity
    /\ log' = Tail(log)
    /\ UNCHANGED <<capacity, clearing, spoilt>>

Add(c) ==
    /\ ~clearing /\ ~spoilt
    /\ Len(log) < capacity
    /\ log' = Append(log, c)
    /\ UNCHANGED <<capacity, clearing, spoilt>>

\* A clear goes on in steps, in any order, until nothing is left; those that
\* stay meanwhile keep theirs.
Clear == ~clearing /\ ~spoilt /\ clearing' = TRUE /\ UNCHANGED <<log, capacity, spoilt>>

Drop ==
    /\ clearing
    /\ \E i \in DOMAIN log : log' = RemoveAt(log, i)
    /\ UNCHANGED <<capacity, clearing, spoilt>>

Cleared == clearing /\ log = <<>> /\ clearing' = FALSE /\ UNCHANGED <<log, capacity, spoilt>>

Spoil == spoilt' = TRUE /\ log' = <<>> /\ clearing' = FALSE /\ UNCHANGED capacity

\* A clear of a spoilt log begins with whatever is there.
Mend == spoilt /\ spoilt' = FALSE /\ log' \in Seq(Crumbs) /\ clearing' = TRUE /\ UNCHANGED capacity

Next ==
    \/ Configure \/ Forget \/ (\E c \in Crumbs : Add(c))
    \/ Clear \/ Drop \/ Cleared \/ Spoil \/ Mend

Spec == Init /\ [][Next]_<<log, capacity, clearing, spoilt>>

=============================================================================
