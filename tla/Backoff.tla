------------------------------ MODULE Backoff ------------------------------
(***************************************************************************)
(* The retry delays, as the code computes them on integers of a fixed      *)
(* width (time.Duration has 64 bits; here Width): functions of the number  *)
(* of the failed attempt, of the configured backoffs and of the            *)
(* Retry-After header.                                                     *)
(***************************************************************************)
EXTENDS Integers

CONSTANTS
  Width,          \* bits of a duration
  Unit,           \* time.Second, in the unit of durations
  MaxRetryAfter   \* maxAlertRetryAfter, a multiple of Unit

\* 2^n, in a form the proofs can unfold.
PowerOfTwo(n) ==
  LET power[i \in 0..n] == IF i = 0 THEN 1 ELSE 2 * power[i - 1]
  IN  power[n]

Largest == PowerOfTwo(Width - 1) - 1

ASSUME BackoffAssumption ==
  /\ Width \in Nat \ {0}
  /\ Unit \in Nat \ {0}
  /\ \E limit \in 1..Largest : MaxRetryAfter = limit * Unit
  /\ MaxRetryAfter <= Largest

\* Two's complement.
Wrap(n) == ((n + Largest + 1) % (2 * (Largest + 1))) - Largest - 1

Least(a, b) == IF a < b THEN a ELSE b

\* A round of the loop.  Returning the maximum is the same as going on with it: no
\* further round changes it.
Doubled(delay, max) ==
  IF ~(delay < max) THEN delay
  ELSE IF delay > max \div 2 THEN max
  ELSE Wrap(delay * 2)

\* alertRetryDelay, rabbitMQReconnectBaseDelay and checkJobRetryDelay.
RetryDelay(n, first, max) ==
  LET rounds == IF n < 1 THEN 0 ELSE n - 1
      delay[i \in 0..rounds] == IF i = 0 THEN first ELSE Doubled(delay[i - 1], max)
  IN  Least(delay[rounds], max)

\* Mutant: the product is compared with the limit, not the seconds.
ProductCompared(seconds) ==
  IF seconds > Largest \/ seconds <= 0 THEN 0 ELSE Least(Wrap(seconds * Unit), MaxRetryAfter)

\* The form of the header that gives seconds.  ParseInt refuses a number of seconds
\* that does not fit the width, which is then no date either.
ParseRetryAfter(seconds) ==
  IF seconds > Largest \/ seconds <= 0 THEN 0
  ELSE IF seconds >= MaxRetryAfter \div Unit THEN MaxRetryAfter
  ELSE Wrap(seconds * Unit)

\* The delay dispatchAlert hands to MarkAlertFailed.
AlertDelay(n, first, max, seconds) ==
  LET delay == RetryDelay(n, first, max)
  IN  IF ParseRetryAfter(seconds) > delay THEN ParseRetryAfter(seconds) ELSE delay
=============================================================================
