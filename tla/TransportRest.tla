----------------------------- MODULE TransportRest -----------------------------
(***************************************************************************)
(* How the transport comes to rest, and what it leaves behind: the module  *)
(* HttpTransport with a history of how its last pass ended.                *)
(***************************************************************************)
EXTENDS MCHttpTransport

CONSTANT MaxPrompts  \* bound: flushes and connectivity changes together

VARIABLE
    lastPass    \* how the last pass of sendAllCachedEnvelopes ended, see RestNext

Waiting == {disk[n].id : n \in DOMAIN disk} \cup {notStored[i].id : i \in 1 .. Len(notStored)}

(* The steps that end a chain of passes with work left: a request without  *)
(* a response; a file evicted between its listing and its loading; a call  *)
(* for an envelope just stored, turned away by a pass that has looked for  *)
(* envelopes already; a call turned away by two operations of Spotlight in *)
(* the queue of the request manager.                                       *)
NoAnswer == FinishedSending("session")
Evicted == \E t \in Thread : FileIsGone(t)
Looked == \E u \in Thread : pc[u] \in {"list", "load", "finish"}
LostWakeup == \E t \in Thread : AlreadySending(t) /\ isSending /\ Looked
Busy == \E t \in Thread : AlreadySending(t) /\ ~isSending

RestInit == Init /\ lastPass = "none"

RestNext ==
    /\ Next
    /\ wakeups' + Cardinality({f \in Flusher : fpc'[f] # "ready"}) <= MaxPrompts
    /\ lastPass' =
          CASE NoAnswer -> "noResponse"
            [] Evicted -> "evicted"
            [] LostWakeup -> "lostWakeup"
            [] Busy -> "busy"
            [] \E t \in Thread : StartSending(t) -> "none"
            [] OTHER -> lastPass

RestSpec == RestInit /\ [][RestNext]_<<vars, lastPass>> /\ Fairness

(* No thread, block, timer or request is left.                             *)
Quiet ==
    /\ \A t \in Thread : pc[t] = "idle"
    /\ queue = <<>> /\ timers = 0 /\ requests = {} /\ spotlightOps = 0

(* The transport always comes to rest again, with no flush under way: the  *)
(* chain of delayed sends is finite, no two threads wait for each other,   *)
(* and the next call to flush is able to flush, unless two requests of     *)
(* Spotlight turned the flushing pass away.  And whenever it rests, no     *)
(* envelope given to sendEnvelope waits on the disk or in the not-stored   *)
(* list, but for four ways in which the last pass ended early: a request   *)
(* got no response; the file was evicted between listing and loading; an   *)
(* envelope came in after the pass had looked, and its call was lost as    *)
(* isSending was still set; or Spotlight kept the queue busy.  The next    *)
(* envelope, flush, launch or change of connectivity takes what is left.   *)
ComesToRest ==
    /\ []<>(Quiet /\ (lastPass # "busy" => AtRest /\ ~isFlushing))
    /\ [](Quiet => \/ Waiting \subseteq Direct
                   \/ lastPass \in {"noResponse", "evicted", "lostWakeup", "busy"})

=============================================================================
