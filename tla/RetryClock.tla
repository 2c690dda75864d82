----------------------------- MODULE RetryClock -----------------------------
(***************************************************************************)
(* The two clocks a retried job waits by.  A failed attempt stores         *)
(*     system_clock::now() + retryDelay                                    *)
(* in available_at_ms and hands the job to the scheduler, which waits for  *)
(*     steady_clock::now() + retryDelay;                                   *)
(* after a restart restoreUnfinished recomputes what remains from the      *)
(* stored instant and the system clock, which may have been set meanwhile. *)
(*                                                                         *)
(* Delays count milliseconds, the clocks a finer tick, both in the same    *)
(* signed width: a delay that fits may not fit as an instant.  One job is  *)
(* followed, whose attempts fail or are cut short by crashes.              *)
(***************************************************************************)
EXTENDS Integers

CONSTANTS
  TicksPerMs,     \* Ticks of both clocks in a millisecond: 10^6.
  ClockMax,       \* The largest value of the width: 2^63 - 1.
  MaxBackoff,     \* maximumDelayMs of POST /jobs.
  Skews,          \* Bound: how far the system clock is ahead of the steady one.
  MaxTime,        \* Bound: ticks that pass.
  MaxAttempts,    \* Bound: the job's maxAttempts.
  MaxLaunches,    \* Bound: launches of the program.
  NULL

ASSUME ClockAssumption ==
  /\ TicksPerMs \in Nat \ {0} /\ ClockMax \in Nat
  /\ MaxBackoff \in 1 .. ClockMax
  /\ Skews \subseteq Nat
  /\ MaxTime \in Nat
  /\ \A ahead \in Skews : MaxTime + ahead <= ClockMax   \* now() itself fits.
  /\ MaxAttempts \in Nat \ {0} /\ MaxLaunches \in Nat \ {0}
  /\ NULL \notin Int \cup [at : Int, skew : Int]

VARIABLES
  backoff,       \* retryBackoff, not 0: without one no clock is read.
  time,          \* steady_clock::now(), 0 when the job is posted.
  skew,          \* system_clock::now() - time.
  pc,            \* "ready" | "active" | "waiting" | "failed"
  up,            \* Whether there is a process.
  attempts,      \* attempts_made.
  availableAt,   \* available_at_ms.
  readyAt,       \* readyAt in the scheduler.
  launches,
  \* History:
  promise,       \* The last retry: the tick it was promised for, and the skew then.
  restoredBy,    \* The skew a restart computed readyAt with, NULL if none did.
  shortened      \* Attempts that were not followed by their whole delay.

clockVars == <<backoff, time, skew, pc, up, attempts, availableAt, readyAt,
               launches, promise, restoredBy, shortened>>

Backoff == INSTANCE RetryBackoff WITH MaximumDelay <- ClockMax

-----------------------------------------------------------------------------
(* Arithmetic in the signed width. *)

\* What the hardware leaves of a sum, difference or product out of range.
Wrap(n) == ((n + ClockMax + 1) % (2 * (ClockMax + 1))) - (ClockMax + 1)

\* now() + delay: the delay becomes ticks before it is added.
Plus(instant, delay) == Wrap(instant + Wrap(delay * TicksPerMs))

\* duration_cast to milliseconds rounds towards zero.
Millis(ticks) ==
  IF ticks >= 0 THEN ticks \div TicksPerMs ELSE -((-ticks) \div TicksPerMs)

SystemNow == time + skew

-----------------------------------------------------------------------------
ClockInit ==
  /\ backoff \in 1 .. MaxBackoff
  /\ time = 0 /\ skew \in Skews
  /\ pc = "ready" /\ up = TRUE
  /\ attempts = 0
  /\ availableAt = NULL /\ readyAt = 0
  /\ launches = 1
  /\ promise = NULL /\ restoredBy = NULL /\ shortened = 0

AttemptStarts ==
  /\ up /\ pc = "ready"
  /\ pc' = "active"
  /\ attempts' = attempts + 1
  /\ availableAt' = NULL
  /\ shortened' = IF promise # NULL /\ time < promise.at THEN shortened + 1
                  ELSE shortened
  /\ UNCHANGED <<backoff, time, skew, up, readyAt, launches, promise, restoredBy>>

\* Mutant: the deadline is read from the system clock.
RetryOnOneClock ==
  LET delay == Backoff!CalculateRetryDelay(backoff, attempts)
  IN  /\ up /\ pc = "active" /\ attempts < MaxAttempts
      /\ pc' = "waiting"
      /\ availableAt' = Millis(Plus(SystemNow, delay))
      /\ readyAt' = Plus(SystemNow, delay)
      /\ promise' = [at |-> time + delay * TicksPerMs, skew |-> skew]
      /\ restoredBy' = NULL
      /\ UNCHANGED <<backoff, time, skew, up, attempts, launches, shortened>>

\* RetryableJobError with attempts left: markWaiting, then schedule.
Retry ==
  LET delay == Backoff!CalculateRetryDelay(backoff, attempts)
  IN  /\ up /\ pc = "active" /\ attempts < MaxAttempts
      /\ pc' = "waiting"
      /\ availableAt' = Millis(Plus(SystemNow, delay))
      /\ readyAt' = Plus(time, delay)
      /\ promise' = [at |-> time + delay * TicksPerMs, skew |-> skew]
      /\ restoredBy' = NULL
      /\ UNCHANGED <<backoff, time, skew, up, attempts, launches, shortened>>

\* No attempts left: markFailed.
GiveUp ==
  /\ up /\ pc = "active" /\ attempts >= MaxAttempts
  /\ pc' = "failed"
  /\ UNCHANGED <<backoff, time, skew, up, attempts, availableAt, readyAt,
                 launches, promise, restoredBy, shortened>>

\* The scheduler pushes the job.
Due ==
  /\ up /\ pc = "waiting" /\ time >= readyAt
  /\ pc' = "ready"
  /\ UNCHANGED <<backoff, time, skew, up, attempts, availableAt, readyAt,
                 launches, promise, restoredBy, shortened>>

Crash ==
  /\ up /\ launches < MaxLaunches
  /\ up' = FALSE
  /\ UNCHANGED <<backoff, time, skew, pc, attempts, availableAt, readyAt,
                 launches, promise, restoredBy, shortened>>

\* Mutant: a restored job is pushed at once.
RestoreWaitingPushes(remaining) ==
  pc' = "ready" /\ UNCHANGED readyAt

\* Wait for what remains, if anything does, or push the job at once.
RestoreWaiting(remaining) ==
  IF remaining > 0
  THEN pc' = "waiting" /\ readyAt' = Plus(time, remaining)
  ELSE pc' = "ready" /\ UNCHANGED readyAt

\* restoreUnfinished.  The row of a job that had become ready still says
\* when, until it is started.
Launch ==
  /\ ~up
  /\ up' = TRUE /\ launches' = launches + 1
  /\ \/ /\ pc = "failed"
        /\ UNCHANGED <<pc, availableAt, readyAt, promise, restoredBy, shortened>>
     \/ /\ pc # "failed" /\ attempts >= MaxAttempts
        /\ pc' = "failed"
        /\ UNCHANGED <<availableAt, readyAt, promise, restoredBy, shortened>>
     \/ /\ pc = "active" /\ attempts < MaxAttempts
        /\ pc' = "ready" /\ shortened' = shortened + 1
        /\ promise' = NULL /\ restoredBy' = NULL
        /\ UNCHANGED <<availableAt, readyAt>>
     \/ /\ pc \in {"ready", "waiting"} /\ attempts < MaxAttempts
        /\ IF availableAt = NULL THEN pc' = "ready" /\ UNCHANGED readyAt
           ELSE RestoreWaiting(Millis(Wrap(availableAt * TicksPerMs - SystemNow)))
        /\ restoredBy' = skew
        /\ UNCHANGED <<availableAt, promise, shortened>>
  /\ UNCHANGED <<backoff, time, skew, attempts>>

TimePasses ==
  /\ time < MaxTime
  /\ time' = time + 1
  /\ UNCHANGED <<backoff, skew, pc, up, attempts, availableAt, readyAt, launches,
                 promise, restoredBy, shortened>>

\* Somebody, or NTP, sets the system clock.
SetClock ==
  /\ skew' \in Skews \ {skew}
  /\ UNCHANGED <<backoff, time, pc, up, attempts, availableAt, readyAt, launches,
                 promise, restoredBy, shortened>>

ClockNext ==
  \/ AttemptStarts \/ Retry \/ GiveUp \/ Due \/ Crash \/ Launch \/ TimePasses \/ SetClock

ClockSpec == ClockInit /\ [][ClockNext]_clockVars

-----------------------------------------------------------------------------
(* Properties. *)

ClockTypeOK ==
  /\ backoff \in 1 .. MaxBackoff /\ time \in 0 .. MaxTime /\ skew \in Skews
  /\ pc \in {"ready", "active", "waiting", "failed"} /\ up \in BOOLEAN
  /\ attempts \in 0 .. MaxAttempts /\ launches \in 1 .. MaxLaunches
  /\ readyAt \in -(ClockMax + 1) .. ClockMax
  /\ availableAt \in (-(ClockMax + 1) .. ClockMax) \cup {NULL}
  /\ shortened \in 0 .. MaxAttempts

\* For the attempt under way the loop of calculateRetryDelay computes the
\* exponential backoff cut off at the largest delay, whatever backoff a row
\* carries: it saturates neither too early nor one doubling too late, and no
\* doubling leaves the range of the type.
ExponentialUpToMaximum ==
  pc = "active" =>
    \A milliseconds \in 0 .. ClockMax :
      Backoff!CalculateRetryDelay(milliseconds, attempts)
        = Backoff!Exponential(milliseconds, attempts)

\* The longest delay a job can have come to in the ticks since it was posted:
\* every delay is about as long as the delays before it together, so it has
\* been waited for already, unless attempts were not followed by theirs.
LongestDelay == 2 ^ shortened * (time + backoff * TicksPerMs)

\* Every number stays in its width, and now() + retryDelay overflows, although
\* only the doubling is guarded, no sooner than LongestDelay overflows: a job in
\* the scheduler waits exactly for its delay as long as that fits in the clock.
\* Each crash during an attempt halves the room.
OverflowTakesCrashes ==
  /\ ClockTypeOK
  /\ ( /\ pc = "waiting" /\ restoredBy = NULL
       /\ LongestDelay <= ClockMax - (time + promise.skew) )
     => /\ readyAt = promise.at
        /\ availableAt = (promise.at + promise.skew) \div TicksPerMs

\* A retry starts early only through a restart, and then by no more than the
\* system clock was set forward between the promise and the restart, and less
\* than two milliseconds for rounding twice.
EarlyOnlyByClockChange ==
  [][ ( /\ attempts' = attempts + 1
        /\ promise # NULL
        /\ \A ahead \in Skews : promise.at + ahead <= ClockMax )
      => IF restoredBy = NULL THEN time >= promise.at
         ELSE time + (restoredBy - promise.skew) + 2 * TicksPerMs > promise.at + 1
    ]_clockVars
=============================================================================
