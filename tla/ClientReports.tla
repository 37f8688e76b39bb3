---------------------------- MODULE ClientReports ----------------------------
(***************************************************************************)
(* The lost-event counters of SentryHttpTransport: discardedEvents maps    *)
(* <<category, reason>> to a quantity, 0 standing for "no entry".          *)
(***************************************************************************)
EXTENDS Envelopes

CONSTANTS
    SendClientReports   \* SentryOptions.sendClientReports

ASSUME SendClientReportsAssumption == SendClientReports \in BOOLEAN

Reason == {"ratelimit_backoff", "cache_overflow", "network_error"}
LossKey == Category \X Reason
Counters == [LossKey -> Nat]

NoLosses == [k \in LossKey |-> 0]

(* The quantity an entry has after recordLostEvent:reason:quantity:.  An   *)
(* existing entry grows by one whatever the quantity is.                   *)
Recorded(existing, quantity) == IF existing = 0 THEN quantity ELSE existing + 1

(* recordLostSpans: a lost transaction also loses its spans and itself.    *)
LostSpans(id) == Content[id].spans + 1

(* Recording every kind in types of envelope id as lost, one call per item *)
(* and a second one for the spans of a transaction.  The kinds of one      *)
(* envelope have pairwise different categories, so the calls touch         *)
(* different entries and commute.                                          *)
RecordLost(counters, id, types, reason) ==
    IF ~SendClientReports THEN counters
    ELSE [k \in LossKey |->
             IF k[2] # reason THEN counters[k]
             ELSE IF k[1] = "span" /\ "transaction" \in types
                  THEN Recorded(counters[k], LostSpans(id))
             ELSE IF \E ty \in types : CategoryOf[ty] = k[1]
                  THEN Recorded(counters[k], 1)
             ELSE counters[k]]

(* envelopeItemDropped: called for every item a rate limit removes.        *)
EnvelopeItemsDropped(counters, id, types) ==
    RecordLost(counters, id, types, "ratelimit_backoff")

(* envelopeItemDeleted: called for every item of an evicted file.          *)
EnvelopeItemsDeleted(counters, id, types) ==
    RecordLost(counters, id, types, "cache_overflow")

NetworkLosses(types) == types \ {"client_report"}

(* recordLostEventFor: skips client reports.                               *)
RecordLostEventFor(counters, id, types) ==
    RecordLost(counters, id, NetworkLosses(types), "network_error")

(* addClientReportTo: whether a client report item is attached.            *)
HasReport(counters) == SendClientReports /\ counters # NoLosses

AddClientReportTo(env, counters) ==
    IF HasReport(counters) THEN [env EXCEPT !.types = @ \cup {"client_report"}] ELSE env

CountersAfterReport(counters) == IF HasReport(counters) THEN NoLosses ELSE counters
=============================================================================
