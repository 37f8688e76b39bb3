----------------------------- MODULE RateLimits ------------------------------
(***************************************************************************)
(* SentryDefaultRateLimits and SentryEnvelopeRateLimit.  The dictionary    *)
(* holds, per data category, the date until which the server asked to back *)
(* off; 0 stands for "no entry".  The special category "all" applies to    *)
(* every item.                                                             *)
(***************************************************************************)
EXTENDS Envelopes

LimitCategory == Category \cup {"all"}

CONSTANTS
    DefaultRetryAfter   \* seconds used when a 429 has no usable Retry-After

ASSUME DefaultRetryAfterAssumption == DefaultRetryAfter \in Nat \ {0}

(* SentryDateUtil.isInFuture                                               *)
IsInFuture(date, now) == now < date

(* Mutant: the newer limit replaces the longer one.                        *)
MaximumDate_Newest(a, b) == b

(* SentryDateUtil.getMaximumDate; "no date" is 0, below every date.        *)
MaximumDate(a, b) == IF a >= b THEN a ELSE b

IsRateLimitActive(limits, now, category) ==
    IsInFuture(limits[category], now) \/ IsInFuture(limits["all"], now)

UpdateRateLimit(limits, category, date) ==
    [limits EXCEPT ![category] = MaximumDate(@, date)]

(* A response is what update: reads of it: the parsed X-Sentry-Rate-Limits *)
(* header (a function from the limited categories to seconds, when there   *)
(* is a header), whether the status is 429, and the seconds of Retry-After *)
(* (0 when it is missing or cannot be parsed).                             *)
Response ==
    [hasHeader: BOOLEAN, header: [LimitCategory -> Nat], is429: BOOLEAN, retryAfter: Nat]

(* update: the header wins over the status code, every category keeps the  *)
(* later of its two dates, a category of the header with 0 seconds is one  *)
(* the parser left out.                                                    *)
Update(limits, now, response) ==
    IF response.hasHeader
    THEN [c \in LimitCategory |->
             IF response.header[c] = 0 THEN limits[c]
             ELSE MaximumDate(limits[c], now + response.header[c])]
    ELSE IF response.is429
    THEN UpdateRateLimit(limits, "all",
             now + (IF response.retryAfter = 0 THEN DefaultRetryAfter
                                               ELSE response.retryAfter))
    ELSE limits

(* The item kinds SentryEnvelopeRateLimit drops from an envelope now.      *)
ItemsToDrop(types, limits, now) ==
    {ty \in types : IsRateLimitActive(limits, now, CategoryOf[ty])}

RemoveRateLimitedItems(env, limits, now) ==
    [env EXCEPT !.types = @ \ ItemsToDrop(@, limits, now)]
=============================================================================
