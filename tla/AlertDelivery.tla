--------------------------- MODULE AlertDelivery ---------------------------
(***************************************************************************)
(* The outbox and its dispatchers together with the delays between the     *)
(* attempts, which AlertOutbox only knows as available or not.             *)
(***************************************************************************)
EXTENDS AlertOutbox, Backoff

CONSTANTS
  MaxInitialBackoff,   \* what LoadConfig allows for ALERT_RETRY_INITIAL_BACKOFF
  MaxBackoff           \* the same for ALERT_RETRY_MAX_BACKOFF

ASSUME BackoffsAssumption == MaxInitialBackoff \in Nat /\ MaxBackoff \in 1..Largest

\* LoadConfig refuses a maximal backoff below the initial one.
Backoffs == {c \in (1..MaxInitialBackoff) \X (1..MaxBackoff) : c[1] <= c[2]}

\* The values of the header around which parseRetryAfter branches, large ones, and
\* ones that do not fit the width.
Seconds == {-Largest - 2, -1, 0, 1, MaxRetryAfter \div Unit - 1, MaxRetryAfter \div Unit,
            Largest \div 2 + 1, Largest, Largest + 1}

\* What the webhook asks for: a number of seconds, cut off at the limit.
Asked(seconds) == IF seconds \in 0..Largest THEN Least(seconds * Unit, MaxRetryAfter) ELSE 0

\* The attempts after which the delay is the initial one doubled for each attempt
\* but the first, up to the maximum, whatever the configuration.
DoublesAt == {n \in 1..MaxAttempts : \A c \in Backoffs :
                RetryDelay(n, c[1], c[2]) = Least(c[1] * PowerOfTwo(n - 1), c[2])}

\* The attempts after which the delay is the longer one of the backoff and of what
\* the webhook asked for, which is never more than the limit.
HonoursAt == {n \in 1..MaxAttempts : \A c \in Backoffs, seconds \in Seconds :
                LET delay == AlertDelay(n, c[1], c[2], seconds)
                IN  delay >= Asked(seconds) /\ delay \in {Asked(seconds), RetryDelay(n, c[1], c[2])}}

\* At whatever attempt an event has arrived, the delay of alertRetryDelay has doubled
\* up to the maximum.
DelayIsExact == \A k \in Events : alert[k].attempts > 0 => alert[k].attempts \in DoublesAt

\* An event is never retried before the webhook wants it because the product of
\* parseRetryAfter overflows, and a header cannot put it off beyond the limit.
RetryAfterHonoured == \A k \in Events : alert[k].attempts > 0 => alert[k].attempts \in HonoursAt

\* Both, for every configuration: the next attempt comes neither early nor never.
DelaysExact == DelayIsExact /\ RetryAfterHonoured
=============================================================================
