-------------------------------- MODULE Scope --------------------------------
(***************************************************************************)
(* The fields of a scope (SentryScope.m) and the observer that mirrors     *)
(* them as JSON for the crash handler (SentryCrashScopeObserver.m).        *)
(* Threads change the scope at any time.  Most fields have a lock that is  *)
(* held while the observer runs; three have none; clear takes the locks    *)
(* one after the other, but for that of the user, and calls the observer   *)
(* without any.                                                            *)
(*                                                                         *)
(* A dictionary or object is one value: Null when it is empty or nil, one  *)
(* that cannot be encoded, or another.  Breadcrumbs are in Breadcrumbs.    *)
(***************************************************************************)
EXTENDS Naturals, Sequences, FiniteSets, SequencesExt

CONSTANTS ScopeThreads,    \* threads that use the scope
          ScopeFields,     \* the fields in use
          ScopeValues,     \* values of a field
          Unencodable,     \* those the JSON encoder refuses
          MaxScopeCalls    \* bound: calls

\* The order in which clear empties them.
ClearOrder == <<"tags", "extras", "context", "fingerprint", "trace", "user", "dist", "environment", "level">>

VARIABLES value,       \* the scope
          mirror,      \* what the crash handler would read
          holder,      \* who holds the lock of each field
          thread,      \* what each thread does
          scopeCalls,
          \* History
          stale,       \* fields whose mirror may differ, see ScopeIsMirrored
          overlap      \* fields that are set while a clear is under way

fieldVars == <<value, mirror, holder, thread, scopeCalls, stale, overlap>>

Nil == "nil"

Unheld == "unheld"

ASSUME ScopeAssumption ==
    /\ ScopeFields \subseteq ToSet(ClearOrder) /\ {"extras", "context", "trace"} \subseteq ScopeFields
    /\ Unencodable \subseteq ScopeValues /\ MaxScopeCalls \in Nat /\ Unheld \notin ScopeThreads

\* setDist, setEnvironment and setLevel
WithoutLock == {"dist", "environment", "level"}

\* clear sets the user to nil without the lock that setUser holds.
ClearedFreely == WithoutLock \cup {"user"}

Resting == [op |-> "none", field |-> Nil, new |-> Nil, todo |-> {}]

\* The observer is told of no field before it is set.
FieldsInit ==
    /\ value = [f \in ScopeFields |-> Nil] /\ mirror = value
    /\ holder = [f \in ScopeFields |-> Unheld]
    /\ thread = [t \in ScopeThreads |-> Resting]
    /\ scopeCalls = 0
    /\ stale = {"trace"} /\ overlap = {}

MayCall(t) == thread[t] = Resting /\ scopeCalls < MaxScopeCalls /\ scopeCalls' = scopeCalls + 1

Others(t) == ScopeThreads \ {t}

\* A clear is under way.
ClearIsUnderWay == \E t \in ScopeThreads : thread[t].op = "clear"

\* The fields of the mirror that a call is about to write.
Touches(c) == CASE c.op = "set" -> {c.field} [] c.op = "remove" -> {"extras"} [] OTHER -> {}

Overlaps(fields) == overlap' = IF ClearIsUnderWay THEN overlap \cup fields ELSE overlap

----------------------------------------------------------------------------
(* Setters *)

\* mutant: the lock is released before the observer is called
Locks_NotTheObserver(t, f) == holder[f] = Unheld /\ UNCHANGED holder

\* @synchronized, until the observer has returned
Locks(t, f) ==
    /\ holder[f] = Unheld
    /\ holder' = IF f \in WithoutLock THEN holder ELSE [holder EXCEPT ![f] = t]

\* setTags, setExtras, setContextValue, setUser, setSpan and all others that set or
\* remove, but removeContextForKey: the scope's value.
SetScopeField(t, f, v) ==
    /\ MayCall(t) /\ Locks(t, f)
    /\ value' = [value EXCEPT ![f] = v]
    /\ thread' = [thread EXCEPT ![t] = [op |-> "set", field |-> f, new |-> v, todo |-> {}]]
    /\ Overlaps({f})
    /\ UNCHANGED <<mirror, stale>>

\* removeContextForKey passes the context on as the extras.
RemoveContext(t, v) ==
    /\ MayCall(t) /\ Locks(t, "context")
    /\ value' = [value EXCEPT !["context"] = v]
    /\ thread' = [thread EXCEPT ![t] = [op |-> "remove", field |-> "context", new |-> v, todo |-> {}]]
    /\ stale' = stale \cup {"context"}
    /\ Overlaps({"context", "extras"})
    /\ UNCHANGED mirror

\* buildTraceContext: without a span it is that of the propagation context.
Shown(f, v) == IF f = "trace" /\ v = Nil THEN "propagation" ELSE v

\* setField of the copy for the crash handler.
SetField(f, v) == mirror' = [mirror EXCEPT ![f] = v]

\* syncScope: a value that cannot be encoded leaves the old one.
SyncScope(f, v) == IF v \in Unencodable THEN UNCHANGED mirror ELSE SetField(f, Shown(f, v))

\* Without a lock another thread has set or cleared the field since, or is about to set it.
Raced(t, f) ==
    /\ f \in ClearedFreely
    /\ value[f] # thread[t].new \/ \E u \in Others(t) : f \in Touches(thread[u])

\* The observer's part of a setter.
Syncs(t) ==
    /\ thread[t].op \in {"set", "remove"}
    /\ LET f == CHOOSE x \in Touches(thread[t]) : TRUE
       IN  /\ SyncScope(f, thread[t].new)
           /\ stale' = IF thread[t].op = "remove" \/ thread[t].new \in Unencodable \/ Raced(t, f)
                       THEN stale \cup {f} ELSE stale \ {f}
           /\ Overlaps({f})
    /\ holder' = [holder EXCEPT ![thread[t].field] = IF @ = t THEN Unheld ELSE @]
    /\ thread' = [thread EXCEPT ![t] = Resting]
    /\ UNCHANGED <<value, scopeCalls>>

----------------------------------------------------------------------------
(* clear *)

ClearScope(t) ==
    /\ MayCall(t)
    /\ thread' = [thread EXCEPT ![t] = [op |-> "clear", field |-> Nil, new |-> Nil, todo |-> ScopeFields]]
    /\ overlap' = overlap \cup UNION {Touches(thread[u]) : u \in Others(t)}
    /\ UNCHANGED <<value, mirror, holder, stale>>

\* The place of a field in the order of clear.
Place(f) == CHOOSE i \in DOMAIN ClearOrder : ClearOrder[i] = f

ClearField(t) ==
    /\ thread[t].op = "clear"
    /\ \E f \in thread[t].todo :
           /\ \A g \in thread[t].todo : Place(f) <= Place(g)
           /\ f \notin ClearedFreely => holder[f] = Unheld
           /\ value' = [value EXCEPT ![f] = Nil]
           /\ thread' = [thread EXCEPT ![t].todo = @ \ {f}]
    /\ UNCHANGED <<mirror, holder, scopeCalls, stale, overlap>>

\* The observer's clear, which leaves the trace, without a lock.
ClearMirror(t) ==
    /\ thread[t].op = "clear" /\ thread[t].todo = {}
    /\ mirror' = [f \in ScopeFields |-> IF f = "trace" THEN mirror[f] ELSE Nil]
    /\ thread' = [thread EXCEPT ![t] = Resting]
    /\ stale' = {"trace"} \cup overlap
    /\ overlap' = IF \E u \in Others(t) : thread[u].op = "clear" THEN overlap ELSE {}
    /\ UNCHANGED <<value, holder, scopeCalls>>

FieldsNext ==
    \E t \in ScopeThreads :
        \/ \E f \in ScopeFields, v \in ScopeValues \cup {Nil} : SetScopeField(t, f, v)
        \/ \E v \in ScopeValues \cup {Nil} : RemoveContext(t, v)
        \/ Syncs(t) \/ ClearScope(t) \/ ClearField(t) \/ ClearMirror(t)

FieldsSpec == FieldsInit /\ [][FieldsNext]_fieldVars

----------------------------------------------------------------------------
(* Properties *)

\* When no thread is inside the scope, a crash finds each of its fields as it is.
\* The exceptions are those of the code: a value that cannot be encoded keeps the
\* one before it; the trace is not mirrored by clear; the context is not by
\* removeContextForKey, which writes it over the extras; dist, environment and
\* level can be left with either of two values set at once; a setter of one of
\* these or of the user whose value a clear takes away before the observer is told
\* leaves that value in the mirror; and what is set while a clear is under way may
\* be in only one of the two.  The next call that sets the field mends it.
ScopeIsMirrored ==
    (\A t \in ScopeThreads : thread[t] = Resting) =>
        \A f \in ScopeFields \ stale : mirror[f] = Shown(f, value[f])

=============================================================================
