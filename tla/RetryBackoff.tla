---------------------------- MODULE RetryBackoff ----------------------------
(***************************************************************************)
(* The delay before the next attempt (Worker::calculateRetryDelay in       *)
(* src/src/worker.cpp): the job's backoff, doubled once for every attempt  *)
(* after the first, in a signed count of milliseconds that must not        *)
(* overflow.                                                               *)
(***************************************************************************)
EXTENDS Naturals

CONSTANT MaximumDelay   \* milliseconds::max(), 2^63 - 1 in the program.

\* Mutant: >= for >, which saturates one doubling too early.
DelayAtSaturatesEarly(backoff) ==
  LET delay[attempt \in Nat] ==
        IF attempt <= 1 THEN backoff
        ELSE IF delay[attempt - 1] >= MaximumDelay \div 2 THEN MaximumDelay
        ELSE 2 * delay[attempt - 1]
  IN  delay

\* The value of delay before the iteration of the loop for this attempt.
DelayAt(backoff) ==
  LET delay[attempt \in Nat] ==
        IF attempt <= 1 THEN backoff
        ELSE IF delay[attempt - 1] > MaximumDelay \div 2 THEN MaximumDelay
        ELSE 2 * delay[attempt - 1]
  IN  delay

CalculateRetryDelay(backoff, attempts) == DelayAt(backoff)[attempts]

\* What it is to compute: the exponential backoff, cut off at the largest
\* delay.
Exponential(backoff, attempts) ==
  LET exact == backoff * 2 ^ (attempts - 1)
  IN  IF exact < MaximumDelay THEN exact ELSE MaximumDelay
=============================================================================
