---------------------------- MODULE MCJobEngine ----------------------------
EXTENDS JobEngine, TLC

\* One job that is retried after a delay, one that starts after a delay, is
\* more urgent and may not be retried.
MCSpecs ==
  {[priority |-> 0, delay |-> 0, retryBackoff |-> 1, maxAttempts |-> 3],
   [priority |-> 1, delay |-> 1, retryBackoff |-> 0, maxAttempts |-> 1]}

\* Jobs that may be retried once after a delay, enough of them to fill a small
\* pool.
MCRetriedSpecs ==
  {[priority |-> 0, delay |-> 0, retryBackoff |-> 1, maxAttempts |-> 2]}

Backoff == INSTANCE RetryBackoff

MCRetryDelay(backoff, attempts) == Backoff!CalculateRetryDelay(backoff, attempts)

MCSymmetry == Permutations(RequestThreads) \cup Permutations(PoolThreads)
=============================================================================
