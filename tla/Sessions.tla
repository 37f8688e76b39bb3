------------------------------ MODULE Sessions -------------------------------
(***************************************************************************)
(* SentrySession: what release health distinguishes about a session.  Its  *)
(* id, whether this is the init update, its status, its sequence number    *)
(* and its error count.  Timestamps, duration and attributes are left out. *)
(* Session ids are numbered in the order in which sessions are created.    *)
(***************************************************************************)
EXTENDS Naturals, Sequences

Status == {"ok", "exited", "crashed", "abnormal"}

Session ==
    [sid: Nat \ {0}, init: BOOLEAN, status: Status, seq: Nat \ {0}, errors: Nat]

(* A nil session.                                                          *)
NoSession == [sid |-> 0, init |-> FALSE, status |-> "ok", seq |-> 0, errors |-> 0]

MaybeSession == Session \cup {NoSession}

(* initWithReleaseName:distinctId:, then the errors the hub assigns.       *)
NewSession(sid, errors) ==
    [sid |-> sid, init |-> TRUE, status |-> "ok", seq |-> 1, errors |-> errors]

Changed(s) == [s EXCEPT !.init = FALSE, !.seq = @ + 1]

IncrementErrors(s) == [Changed(s) EXCEPT !.errors = @ + 1]

EndExited(s) == [Changed(s) EXCEPT !.status = "exited"]
EndCrashed(s) == [Changed(s) EXCEPT !.status = "crashed"]
EndAbnormal(s) == [Changed(s) EXCEPT !.status = "abnormal"]

IsEnded(s) == s.status # "ok"

-----------------------------------------------------------------------------
(* What a sequence of session updates, in the order they were handed to    *)
(* the client, says about its sessions.                                    *)
SamePair(updates) ==
    {p \in (DOMAIN updates) \X (DOMAIN updates) :
        p[1] # p[2] /\ updates[p[1]].sid = updates[p[2]].sid}

EndedIn(updates, sid) ==
    \E i \in DOMAIN updates : updates[i].sid = sid /\ IsEnded(updates[i])
=============================================================================
