--------------------------- MODULE MCHttpTransport ---------------------------
(***************************************************************************)
(* Small instances of HttpTransport for TLC.                               *)
(***************************************************************************)
EXTENDS HttpTransport

None == [c \in LimitCategory |-> 0]
Ok == [hasHeader |-> FALSE, header |-> None, is429 |-> FALSE, retryAfter |-> 0]
TooMany == [Ok EXCEPT !.is429 = TRUE, !.retryAfter = 2]
Limit(c, s) == [Ok EXCEPT !.hasHeader = TRUE, !.header = [None EXCEPT ![c] = s]]

Answered(response) == [answered |-> TRUE, response |-> response, error |-> FALSE]
AnsweredWithError == [answered |-> TRUE, response |-> Ok, error |-> TRUE]
NoResponse == [answered |-> FALSE, response |-> Ok, error |-> TRUE]

Event(s) == [types |-> {"event"}, sid |-> s, init |-> FALSE, spans |-> 0]
Update1(s) == [types |-> {"event", "session"}, sid |-> s, init |-> FALSE, spans |-> 0]
Transaction == [types |-> {"transaction"}, sid |-> "s", init |-> FALSE, spans |-> 2]
InitOf(s) == [types |-> {"session"}, sid |-> s, init |-> TRUE, spans |-> 0]

File(id, c) == [id |-> id, types |-> c.types, init |-> c.init]

(* The contents of the envelopes in use.                                   *)
Give(contents) == [id \in EnvId |-> contents[id]]

MixedContent == Give(<<InitOf("s"), Update1("s")>>)
DeliveryContent == Give(<<InitOf("s"), Update1("s"), Update1("s")>>)
CrashContent ==
    Give(<<InitOf("s"), Update1("s"), Event("s"), Transaction, Update1("s")>>)

NoCache == <<>>
CrashCache == [id \in 1 .. 3 |-> File(id, CrashContent[id])]

(* The outcomes of requests in use.                                        *)
MayFail == {Answered(Ok), NoResponse}
Limited == {Answered(Ok), Answered(TooMany), NoResponse}
Varied ==
    {Answered(Ok), AnsweredWithError, NoResponse,
     Answered(Limit("error", 2)), Answered(Limit("error", 1))}
=============================================================================
