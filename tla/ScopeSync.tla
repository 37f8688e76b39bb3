------------------------------- MODULE ScopeSync -------------------------------
(***************************************************************************)
(* The ring of breadcrumbs for the crash handler (SentryScopeSyncC.c).     *)
(* The scope holds its lock on the breadcrumbs around an addition and      *)
(* around clearBreadcrumbs; its clear tells the observers to clear once    *)
(* more without the lock, so that this may run beside a call.  A crash may *)
(* come between any two assignments, after which writeScopeJson reads what *)
(* is there.  The other fields of the copy are in Scope.                   *)
(***************************************************************************)
EXTENDS Integers, Sequences, FiniteSets, SequencesExt

CONSTANTS Values,      \* JSON of a breadcrumb
          RingSizes,   \* maxBreadcrumbs of the options
          MaxCalls     \* bound: calls

VARIABLES scope,       \* the SentryCrashScope
          call,        \* the call that holds the lock, and its step
          wipe,        \* the place that a clear without the lock empties next, or 0
          calls,       \* number of calls made
          \* History
          mingled      \* two calls were at the ring at once, and nothing has mended it

scopeVars == <<scope, call, wipe, calls, mingled>>

Null == "null"

Freed == "freed"

\* JSON is never a null pointer.
ASSUME ScopeSyncAssumption ==
    /\ MaxCalls \in Nat /\ RingSizes \subseteq Nat
    /\ Values \cap {Null, Freed} = {}

NoCall == [op |-> "none", arg |-> Null, i |-> 0]

\* breadcrumbs = NULL before the first configuration.
ScopeInit ==
    /\ scope = [ring |-> <<>>, configured |-> FALSE, max |-> 0, current |-> 0]
    /\ call = NoCall /\ wipe = 0
    /\ calls = 0
    /\ mingled = FALSE

\* Nobody holds the lock.
Idle == call.op = "none" /\ calls < MaxCalls

Wiping == wipe > 0

\* One that begins beside another call mingles the two.
Begins(c) == call' = c /\ calls' = calls + 1 /\ UNCHANGED wipe

\* sentrycrash_scopesync_configureBreadcrumbs: in the middle of it breadcrumbs
\* points to memory that was freed.  The SDK calls it for a new observer, which no
\* scope has yet.
ConfigureBreadcrumbs(n) ==
    /\ Idle /\ ~Wiping
    /\ scope' = [scope EXCEPT !.max = n, !.current = 0,
                              !.ring = IF scope.configured THEN [i \in 1 .. n |-> Freed] ELSE @]
    /\ Begins([op |-> "configure", arg |-> Null, i |-> n])
    /\ mingled' = FALSE

ConfigureEnds ==
    /\ call.op = "configure"
    /\ scope' = [scope EXCEPT !.configured = TRUE, !.ring = [i \in 1 .. call.i |-> Null]]
    /\ call' = NoCall
    /\ UNCHANGED <<wipe, calls, mingled>>

Configured == scope.configured /\ scope.max >= 1

\* sentrycrash_scopesync_addBreadcrumb: setField of the current place, which frees
\* what is there and keeps its address for the new one, then on.
AddBreadcrumb(v) ==
    /\ Idle /\ Configured
    /\ scope' = [scope EXCEPT !.ring[scope.current + 1] = Null]
    /\ Begins([op |-> "add", arg |-> v, i |-> scope.current + 1])
    /\ mingled' = (mingled \/ Wiping)

StoreBreadcrumb ==
    /\ call.op = "add"
    /\ scope' = [scope EXCEPT !.ring[call.i] = call.arg]
    /\ call' = [call EXCEPT !.op = "advance"]
    /\ UNCHANGED <<wipe, calls, mingled>>

\* mutant: the ring is one place longer than its array says
AdvanceCrumb_NoWrap ==
    /\ call.op = "advance"
    /\ scope' = [scope EXCEPT !.current = IF @ + 1 < scope.max THEN @ + 1 ELSE @]
    /\ call' = NoCall
    /\ UNCHANGED <<wipe, calls, mingled>>

AdvanceCrumb ==
    /\ call.op = "advance"
    /\ scope' = [scope EXCEPT !.current = (@ + 1) % scope.max]
    /\ call' = NoCall
    /\ UNCHANGED <<wipe, calls, mingled>>

\* sentrycrash_scopesync_clearBreadcrumbs, with the lock.  A clear that begins alone
\* mends the ring.
ClearBreadcrumbs ==
    /\ Idle /\ Configured
    /\ Begins([op |-> "clear", arg |-> Null, i |-> 1])
    /\ mingled' = Wiping
    /\ UNCHANGED scope

ClearNext ==
    /\ call.op = "clear" /\ call.i <= scope.max
    /\ scope' = [scope EXCEPT !.ring[call.i] = Null]
    /\ call' = [call EXCEPT !.i = @ + 1]
    /\ UNCHANGED <<wipe, calls, mingled>>

ClearEnds ==
    /\ call.op = "clear" /\ call.i > scope.max
    /\ scope' = [scope EXCEPT !.current = 0]
    /\ call' = NoCall
    /\ UNCHANGED <<wipe, calls, mingled>>

\* The same at the end of sentrycrash_scopesync_clear, which the scope calls without
\* the lock.  Where both free one breadcrumb the process dies.
WipeBegins ==
    /\ ~Wiping /\ Configured /\ call.op # "configure" /\ calls < MaxCalls
    /\ wipe' = 1 /\ calls' = calls + 1
    /\ mingled' = (call.op # "none")
    /\ UNCHANGED <<scope, call>>

WipeNext ==
    /\ wipe \in 1 .. scope.max
    /\ scope' = [scope EXCEPT !.ring[wipe] = Null]
    /\ wipe' = wipe + 1
    /\ UNCHANGED <<call, calls, mingled>>

WipeEnds ==
    /\ wipe > scope.max
    /\ scope' = [scope EXCEPT !.current = 0]
    /\ wipe' = 0
    /\ UNCHANGED <<call, calls, mingled>>

ScopeNext ==
    \/ (\E n \in RingSizes : ConfigureBreadcrumbs(n)) \/ ConfigureEnds
    \/ (\E v \in Values : AddBreadcrumb(v)) \/ StoreBreadcrumb \/ AdvanceCrumb
    \/ ClearBreadcrumbs \/ ClearNext \/ ClearEnds
    \/ WipeBegins \/ WipeNext \/ WipeEnds

RingSpec == ScopeInit /\ [][ScopeNext]_scopeVars

----------------------------------------------------------------------------
(* Properties *)

\* The i-th slot of a ring, counted from the one after the first start slots.
Slot(ring, start, i) == ((start + i - 1) % Len(ring)) + 1

Filled(ring, start) == {i \in DOMAIN ring : ring[Slot(ring, start, i)] \notin {Null, Freed}}

\* The k-th smallest number of a set.
Nth(S, k) == CHOOSE i \in S : Cardinality({j \in S : j <= i}) = k

\* The breadcrumbs in the slots of a ring, those that hold none left out.
CrumbsFrom(ring, start) ==
    [k \in 1 .. Cardinality(Filled(ring, start)) |-> ring[Slot(ring, start, Nth(Filled(ring, start), k))]]

\* The breadcrumbs that writeScopeJson would write now, from currentCrumb on.
WrittenCrumbs == CrumbsFrom(scope.ring, scope.current)

\* The same in the order of their addition: the one that was stored and not yet
\* counted is the newest.
LoggedCrumbs ==
    IF call.op = "advance" THEN CrumbsFrom(scope.ring, (scope.current + 1) % scope.max) ELSE WrittenCrumbs

Clearing == call.op = "clear" \/ Wiping

CrumbsOfReport ==
    INSTANCE CrumbLog
        WITH log <- IF mingled THEN <<>> ELSE LoggedCrumbs, capacity <- scope.max,
             clearing <- ~mingled /\ Clearing, spoilt <- mingled, Crumbs <- Values

\* The ring that additions and clears change step by step, and that wraps around
\* and is configured anew, implements the log of the last breadcrumbs: a crash
\* between any two assignments finds them complete but for the oldest, and in the
\* order of their addition but for one that is stored and not yet counted.  Where
\* the clear that has no lock meets a call that has it, the log is spoilt: nothing
\* is promised until a clear, or a configuration, begins alone.
CrumbsAreLogged == CrumbsOfReport!Spec

=============================================================================
