---------------------------- MODULE DelayProofs -----------------------------
(***************************************************************************)
(* Proofs about the two places where jobs wait for an instant.             *)
(*                                                                         *)
(* DelayedJobSchedulerThreads: the scheduler thread never sleeps past the  *)
(* earliest job nor through stop(), for any number of callers, jobs, delays *)
(* and restarts.                                                           *)
(*                                                                         *)
(* RetryClock: the retry delay is the exponential backoff, cut off, and the *)
(* instants computed from it are those promised, in any width, for any     *)
(* backoff, any changes of the system clock and any crashes, as far as they *)
(* fit.  The two models share no variable.                                 *)
(***************************************************************************)
EXTENDS DelayedJobSchedulerThreads, RetryClock, Counting

-----------------------------------------------------------------------------
(* The scheduler thread. *)

\* What stop() and start() agree on: the owner's calls and running_ go
\* together, and a thread that stop() has notified does not sleep again.
OwnerOrder ==
  /\ running <=> owner = "started"
  /\ owner = "stopped" => runner.pc \in {"none", "returned"}
  /\ owner = "join" => ~Asleep

\* Only jobs that schedule() was called with are delayed or pushed.
JobsAreRequested ==
  /\ \A c \in Callers : caller[c].pc = "lock" => caller[c].job \in requested
  /\ \A entry \in delayedJobs : entry.job \in requested
  /\ runner.pc = "push" => runner.job \in requested

\* The inductive invariant.
SchedulerInv ==
  /\ ThreadsTypeOK
  /\ OwnerOrder
  /\ JobsAreRequested
  /\ NeverOversleeps

\* What a tick leaves of a waiting time is a waiting time, and ticks keep the order
\* of two of them.
LEMMA ElapsedType ==
  /\ \A n \in Nat : Elapsed(n) \in Nat
  /\ \A m, n \in Nat : m <= n => Elapsed(m) <= Elapsed(n)
PROOF
  BY DEF Elapsed

\* A scheduler that was not started yet satisfies the invariant.
LEMMA SchedulerInvInit == ThreadsInit => SchedulerInv
PROOF
<1> SUFFICES ASSUME ThreadsInit PROVE SchedulerInv
  OBVIOUS
<1>1. AnyJob \in Jobs
  BY ThreadsAssumption DEF AnyJob
<1>2. starts \in 0 .. MaxStarts
  BY ThreadsAssumption DEF ThreadsInit
<1>3. ThreadsTypeOK
  BY <1>1, <1>2
  DEF ThreadsInit, SchedulerInit, ThreadsTypeOK, SchedulerTypeOK
<1>4. \A c \in Callers : caller[c].pc = "ready"
  BY DEF ThreadsInit
<1>5. JobsAreRequested
  BY <1>4 DEF ThreadsInit, SchedulerInit, JobsAreRequested
<1>6. OwnerOrder /\ NeverOversleeps
  BY DEF ThreadsInit, SchedulerInit, OwnerOrder, NeverOversleeps, Asleep
<1> QED
  BY <1>3, <1>5, <1>6 DEF SchedulerInv

-----------------------------------------------------------------------------
(* Type correctness. *)

\* One unit of time keeps every instant well typed.
LEMMA TickTypes ==
  ASSUME SchedulerInv, Tick
  PROVE  ThreadsTypeOK' /\ JobsAreRequested'
PROOF
<1>1. /\ delayedJobs \subseteq ScheduledJob
      /\ caller \in [Callers -> [pc : {"ready", "lock", "notify"}, job : Jobs,
                                 readyIn : Nat]]
      /\ runner \in [pc : {"none", "check", "asleep", "timed", "push", "returned"},
                     job : Jobs, until : Nat]
  BY DEF SchedulerInv, ThreadsTypeOK, SchedulerTypeOK
<1>2. ASSUME NEW entry \in delayedJobs
      PROVE  /\ [entry EXCEPT !.readyIn = Elapsed(@)] \in ScheduledJob
             /\ [entry EXCEPT !.readyIn = Elapsed(@)].job = entry.job
  <2>1. Elapsed(entry.readyIn) \in Nat
    BY <1>1, ElapsedType DEF ScheduledJob
  <2> QED
    BY <1>1, <2>1 DEF ScheduledJob
<1>3. delayedJobs' \subseteq ScheduledJob
  BY <1>2 DEF Tick, ElapsedJobs
<1>4. ASSUME NEW c \in Callers
      PROVE  /\ caller'[c] \in [pc : {"ready", "lock", "notify"}, job : Jobs,
                                readyIn : Nat]
             /\ caller'[c].pc = caller[c].pc /\ caller'[c].job = caller[c].job
  <2>1. Elapsed(caller[c].readyIn) \in Nat
    BY <1>1, ElapsedType
  <2>2. caller'[c] = [caller[c] EXCEPT !.readyIn = Elapsed(@)]
    BY DEF Tick
  <2> QED
    BY <1>1, <2>1, <2>2
<1>5. caller' \in [Callers -> [pc : {"ready", "lock", "notify"}, job : Jobs,
                               readyIn : Nat]]
  BY <1>4 DEF Tick
<1>6. /\ runner' \in [pc : {"none", "check", "asleep", "timed", "push", "returned"},
                      job : Jobs, until : Nat]
      /\ runner'.pc = runner.pc /\ runner'.job = runner.job
  <2>1. Elapsed(runner.until) \in Nat
    BY <1>1, ElapsedType
  <2> QED
    BY <1>1, <2>1 DEF Tick
<1>7. ThreadsTypeOK'
  BY <1>3, <1>5, <1>6
  DEF Tick, SchedulerInv, ThreadsTypeOK, SchedulerTypeOK
<1>8. \A entry \in delayedJobs' : entry.job \in requested
  BY <1>2 DEF Tick, ElapsedJobs, SchedulerInv, JobsAreRequested
<1>9. JobsAreRequested'
  BY <1>4, <1>6, <1>8 DEF Tick, SchedulerInv, JobsAreRequested
<1> QED
  BY <1>7, <1>9

\* No call and no step of the scheduler thread leaves the types, and only requested
\* jobs are delayed or pushed.
LEMMA SchedulerTypeStep ==
  SchedulerInv /\ [ThreadsNext]_vars => ThreadsTypeOK' /\ JobsAreRequested'
PROOF
<1> SUFFICES ASSUME SchedulerInv, [ThreadsNext]_vars
             PROVE  ThreadsTypeOK' /\ JobsAreRequested'
  OBVIOUS
<1> DEFINE Goal == ThreadsTypeOK' /\ JobsAreRequested'
<1>a. ThreadsTypeOK /\ JobsAreRequested
  BY DEF SchedulerInv
<1> USE DEF ThreadsTypeOK, SchedulerTypeOK, JobsAreRequested
<1>1. ASSUME NEW c \in Callers, NEW job \in Jobs, NEW delay \in 0 .. MaxDelay,
             CallSchedule(c, job, delay)
      PROVE  Goal
  <2>1. delay \in Nat
    BY ThreadsAssumption
  <2> QED
    BY <1>a, <1>1, <2>1 DEF CallSchedule, schedulerVars
<1>2. ASSUME NEW c \in Callers, ScheduleLocked(c) PROVE Goal
  <2>1. [readyIn |-> caller[c].readyIn, job |-> caller[c].job] \in ScheduledJob
    BY <1>a DEF ScheduledJob
  <2> QED
    BY <1>a, <1>2, <2>1 DEF ScheduleLocked, ScheduleAt
<1>3. ASSUME NEW c \in Callers, ScheduleThrows(c) PROVE Goal
  BY <1>a, <1>3 DEF ScheduleThrows, schedulerVars
<1>4. ASSUME NEW c \in Callers, NotifyOne(c) PROVE Goal
  BY <1>a, <1>4 DEF NotifyOne, schedulerVars
<1>5. CASE RunEnds
  BY <1>a, <1>5 DEF RunEnds, schedulerVars
<1>6. CASE RunWaits
  BY <1>a, <1>6 DEF RunWaits, schedulerVars
<1>7. CASE RunWaitsUntil
  <2>1. PICK entry \in delayedJobs :
          runner' = [runner EXCEPT !.pc = "timed", !.until = entry.readyIn]
    BY <1>7 DEF RunWaitsUntil
  <2>2. entry.readyIn \in Nat
    BY <1>a DEF ScheduledJob
  <2> QED
    BY <1>a, <1>7, <2>1, <2>2 DEF RunWaitsUntil, schedulerVars
<1>8. CASE RunTimesOut \/ SpuriousWake
  BY <1>a, <1>8 DEF RunTimesOut, SpuriousWake, schedulerVars
<1>9. CASE RunTakes
  <2>1. PICK entry \in delayedJobs :
          /\ TakeDue(entry)
          /\ runner' = [runner EXCEPT !.pc = "push", !.job = entry.job]
    BY <1>9 DEF RunTakes
  <2>2. entry.job \in Jobs /\ entry.job \in requested
    BY <1>a DEF ScheduledJob
  <2> QED
    BY <1>a, <1>9, <2>1, <2>2 DEF RunTakes, TakeDue
<1>10. CASE RunPushes
  BY <1>a, <1>10 DEF RunPushes, schedulerVars
<1>11. CASE Start
  BY <1>a, <1>11, ThreadsAssumption DEF Start, StartScheduler
<1>12. CASE StopLocked
  BY <1>a, <1>12 DEF StopLocked, StopScheduler
<1>13. CASE StopNotifies
  BY <1>a, <1>13 DEF StopNotifies, schedulerVars
<1>14. CASE StopJoins
  BY <1>a, <1>14 DEF StopJoins, schedulerVars
<1>15. CASE Tick
  BY <1>15, TickTypes
<1>16. CASE UNCHANGED vars
  BY <1>a, <1>16 DEF vars
<1>17. ASSUME NEW c \in Callers, CallerStep(c) PROVE Goal
  BY <1>2, <1>3, <1>4, <1>17 DEF CallerStep
<1>18. CASE RunStep
  BY <1>5, <1>6, <1>7, <1>8, <1>9, <1>10, <1>18 DEF RunStep
<1>19. CASE StopStep
  BY <1>13, <1>14, <1>19 DEF StopStep
<1> QED
  BY <1>1, <1>8, <1>11, <1>12, <1>15, <1>16, <1>17, <1>18, <1>19
  DEF ThreadsNext, AllDone

-----------------------------------------------------------------------------
(* The thread and its sleep. *)

\* start() and stop() follow each other whatever the scheduler thread does between.
LEMMA OwnerOrderStep == SchedulerInv /\ [ThreadsNext]_vars => OwnerOrder'
PROOF
<1> SUFFICES ASSUME SchedulerInv, [ThreadsNext]_vars PROVE OwnerOrder'
  OBVIOUS
<1>a. /\ running \in BOOLEAN /\ OwnerOrder
      /\ runner \in [pc : {"none", "check", "asleep", "timed", "push", "returned"},
                     job : Jobs, until : Nat]
  BY DEF SchedulerInv, ThreadsTypeOK, SchedulerTypeOK
<1> USE DEF OwnerOrder, Asleep
<1>1. ASSUME NEW c \in Callers,
             \/ \E job \in Jobs, delay \in 0 .. MaxDelay : CallSchedule(c, job, delay)
             \/ CallerStep(c)
      PROVE  OwnerOrder'
  <2>1. UNCHANGED <<running, owner>>
    BY <1>1 DEF CallSchedule, CallerStep, ScheduleLocked, ScheduleAt,
                ScheduleThrows, NotifyOne, schedulerVars
  <2>2. CASE \E job \in Jobs, delay \in 0 .. MaxDelay : CallSchedule(c, job, delay)
    BY <1>a, <2>1, <2>2 DEF CallSchedule
  <2>3. CASE ScheduleLocked(c) \/ ScheduleThrows(c)
    BY <1>a, <2>1, <2>3 DEF ScheduleLocked, ScheduleThrows
  <2>4. CASE NotifyOne(c)
    BY <1>a, <2>1, <2>4 DEF NotifyOne
  <2> QED
    BY <1>1, <2>2, <2>3, <2>4 DEF CallerStep
<1>2. CASE RunEnds \/ RunWaits \/ RunTimesOut \/ RunPushes \/ SpuriousWake
  BY <1>a, <1>2 DEF RunEnds, RunWaits, RunTimesOut, RunPushes, SpuriousWake,
                    schedulerVars
<1>3. CASE RunWaitsUntil
  BY <1>a, <1>3 DEF RunWaitsUntil, schedulerVars
<1>4. CASE RunTakes
  BY <1>a, <1>4 DEF RunTakes, TakeDue
<1>5. CASE Start \/ StopLocked
  BY <1>a, <1>5 DEF Start, StartScheduler, StopLocked, StopScheduler
<1>6. CASE StopStep
  BY <1>a, <1>6 DEF StopStep, StopNotifies, StopJoins, schedulerVars
<1>7. CASE Tick
  BY <1>a, <1>7 DEF Tick
<1>8. CASE UNCHANGED vars
  BY <1>a, <1>8 DEF vars
<1> QED
  BY <1>1, <1>2, <1>3, <1>4, <1>5, <1>6, <1>7, <1>8
  DEF ThreadsNext, RunStep, AllDone

\* The steps that matter: a job is added, the thread computes its deadline, time
\* passes, stop() asks it to return.
LEMMA NeverOversleepsStep ==
  SchedulerInv /\ [ThreadsNext]_vars => NeverOversleeps'
PROOF
<1> SUFFICES ASSUME SchedulerInv, [ThreadsNext]_vars PROVE NeverOversleeps'
  OBVIOUS
<1>a. /\ OwnerOrder /\ NeverOversleeps
      /\ delayedJobs \subseteq ScheduledJob
      /\ caller \in [Callers -> [pc : {"ready", "lock", "notify"}, job : Jobs,
                                 readyIn : Nat]]
      /\ runner \in [pc : {"none", "check", "asleep", "timed", "push", "returned"},
                     job : Jobs, until : Nat]
  BY DEF SchedulerInv, ThreadsTypeOK, SchedulerTypeOK
<1>b. ASSUME ~Asleep' PROVE NeverOversleeps'
  BY <1>b DEF NeverOversleeps
<1>c. ASSUME Notifying' PROVE NeverOversleeps'
  BY <1>c DEF NeverOversleeps
<1>d. ASSUME UNCHANGED <<delayedJobs, running, runner>>, Notifying' <=> Notifying
      PROVE  NeverOversleeps'
  BY <1>a, <1>d DEF NeverOversleeps, Asleep
<1>1. ASSUME NEW c \in Callers, NEW job \in Jobs, NEW delay \in 0 .. MaxDelay,
             CallSchedule(c, job, delay)
      PROVE  NeverOversleeps'
  <2>1. Notifying' <=> Notifying
    BY <1>a, <1>1 DEF CallSchedule, Notifying
  <2> QED
    BY <1>1, <1>d, <2>1 DEF CallSchedule, schedulerVars
<1>2. ASSUME NEW c \in Callers, ScheduleLocked(c) PROVE NeverOversleeps'
  <2>1. Notifying'
    BY <1>a, <1>2 DEF ScheduleLocked, Notifying
  <2> QED
    BY <1>c, <2>1
<1>3. ASSUME NEW c \in Callers, ScheduleThrows(c) PROVE NeverOversleeps'
  <2>1. Notifying' <=> Notifying
    BY <1>a, <1>3 DEF ScheduleThrows, Notifying
  <2> QED
    BY <1>3, <1>d, <2>1 DEF ScheduleThrows, schedulerVars
<1>4. ASSUME NEW c \in Callers, NotifyOne(c) PROVE NeverOversleeps'
  <2>1. ~Asleep'
    BY <1>a, <1>4 DEF NotifyOne, Asleep
  <2> QED
    BY <1>b, <2>1
<1>5. CASE RunEnds \/ RunTimesOut \/ RunPushes \/ RunTakes \/ SpuriousWake
  <2>1. ~Asleep'
    BY <1>a, <1>5
    DEF RunEnds, RunTimesOut, RunPushes, RunTakes, SpuriousWake, Asleep
  <2> QED
    BY <1>b, <2>1
<1>6. CASE RunWaits
  BY <1>a, <1>6 DEF RunWaits, NeverOversleeps, schedulerVars
\* It takes the time of the earliest job as the limit of its sleep.
<1>7. CASE RunWaitsUntil
  <2>1. PICK entry \in delayedJobs :
          /\ IsEarliest(entry)
          /\ runner' = [runner EXCEPT !.pc = "timed", !.until = entry.readyIn]
    BY <1>7 DEF RunWaitsUntil
  <2>2. runner'.pc = "timed" /\ runner'.until = entry.readyIn
    BY <1>a, <2>1
  <2>3. UNCHANGED <<delayedJobs, running>> /\ running
    BY <1>7 DEF RunWaitsUntil, schedulerVars
  <2> QED
    BY <2>1, <2>2, <2>3 DEF NeverOversleeps, IsEarliest
<1>8. CASE Start \/ StopNotifies \/ StopJoins
  <2>1. ~Asleep'
    BY <1>a, <1>8 DEF Start, StopNotifies, StopJoins, Asleep
  <2> QED
    BY <1>b, <2>1
<1>9. CASE StopLocked
  <2>1. Notifying'
    BY <1>9 DEF StopLocked, Notifying
  <2> QED
    BY <1>c, <2>1
\* Time passes for the limit of the sleep and for the earliest job alike.
<1>10. CASE Tick
  <2>1. Notifying' <=> Notifying
    BY <1>a, <1>10 DEF Tick, Notifying
  <2>2. runner'.pc = runner.pc /\ runner'.until = Elapsed(runner.until)
        /\ running' = running /\ delayedJobs' = ElapsedJobs
    BY <1>a, <1>10 DEF Tick
  <2>3. delayedJobs = {} => delayedJobs' = {}
    BY <2>2 DEF ElapsedJobs
  <2>4. ASSUME \A entry \in delayedJobs : runner.until <= entry.readyIn,
               NEW later \in delayedJobs'
        PROVE  runner'.until <= later.readyIn
    <3>1. PICK entry \in delayedJobs : later = [entry EXCEPT !.readyIn = Elapsed(@)]
      BY <2>2 DEF ElapsedJobs
    <3>2. later.readyIn = Elapsed(entry.readyIn) /\ entry.readyIn \in Nat
      BY <1>a, <3>1 DEF ScheduledJob
    <3>3. runner.until \in Nat /\ runner.until <= entry.readyIn
      BY <1>a, <2>4
    <3> QED
      BY <2>2, <3>2, <3>3, ElapsedType
  <2> QED
    BY <1>a, <2>1, <2>2, <2>3, <2>4 DEF NeverOversleeps, Asleep
<1>11. CASE UNCHANGED vars
  <2>1. Notifying' <=> Notifying
    BY <1>11 DEF vars, Notifying
  <2> QED
    BY <1>11, <1>d, <2>1 DEF vars
<1>12. ASSUME NEW c \in Callers, CallerStep(c) PROVE NeverOversleeps'
  BY <1>2, <1>3, <1>4, <1>12 DEF CallerStep
<1>13. CASE RunStep
  BY <1>5, <1>6, <1>7, <1>13 DEF RunStep
<1>14. CASE StopStep
  BY <1>8, <1>14 DEF StopStep
<1> QED
  BY <1>1, <1>5, <1>8, <1>9, <1>10, <1>11, <1>12, <1>13, <1>14
  DEF ThreadsNext, AllDone

-----------------------------------------------------------------------------
\* Every step keeps the invariant.
LEMMA SchedulerInvStep == SchedulerInv /\ [ThreadsNext]_vars => SchedulerInv'
PROOF
<1> SUFFICES ASSUME SchedulerInv, [ThreadsNext]_vars PROVE SchedulerInv'
  OBVIOUS
<1>1. ThreadsTypeOK' /\ JobsAreRequested'
  BY SchedulerTypeStep
<1>2. OwnerOrder' /\ NeverOversleeps'
  BY OwnerOrderStep, NeverOversleepsStep
<1> QED
  BY <1>1, <1>2 DEF SchedulerInv

\* The scheduler, its threads and what they have done are well typed: in
\* particular it pushes only jobs that schedule() was called with.
THEOREM SchedulerIsTyped == ThreadsSpec => []ThreadsTypeOK
PROOF
<1>1. SchedulerInv => ThreadsTypeOK
  BY DEF SchedulerInv
<1> QED
  BY <1>1, SchedulerInvInit, SchedulerInvStep, PTL DEF ThreadsSpec

\* The scheduler thread never sleeps past the earliest job, nor on a stopped
\* scheduler: one notify_one for each schedule() and each stop() is enough.
THEOREM SleepIsNeverTooLong == ThreadsSpec => []NeverOversleeps
PROOF
<1>1. SchedulerInv => NeverOversleeps
  BY DEF SchedulerInv
<1> QED
  BY <1>1, SchedulerInvInit, SchedulerInvStep, PTL DEF ThreadsSpec

-----------------------------------------------------------------------------
(* The loop of calculateRetryDelay. *)

\* One doubling of the exponential, cut off at the largest delay.
LEMMA ExponentialDoubles ==
  ASSUME NEW b \in 0 .. ClockMax, NEW n \in Nat \ {0}
  PROVE  /\ Backoff!Exponential(b, 1) = b
         /\ Backoff!Exponential(b, n) \in 0 .. ClockMax
         /\ Backoff!Exponential(b, n + 1)
              = IF Backoff!Exponential(b, n) > ClockMax \div 2 THEN ClockMax
                ELSE 2 * Backoff!Exponential(b, n)
PROOF
<1> DEFINE E(m) == Backoff!Exponential(b, m)
<1> ClockMax \in Nat /\ b \in Nat /\ b <= ClockMax
  BY ClockAssumption
<1>1. E(1) = b
  BY PowerZero DEF Backoff!Exponential
<1>2. ASSUME NEW m \in Nat \ {0}
      PROVE  /\ E(m) \in 0 .. ClockMax
             /\ E(m + 1) = IF E(m) > ClockMax \div 2 THEN ClockMax ELSE 2 * E(m)
  <2> DEFINE e == b * 2 ^ (m - 1)
  <2>1. m - 1 \in Nat /\ (m - 1) + 1 = m /\ (m + 1) - 1 = m
    OBVIOUS
  <2>2. 2 ^ (m - 1) \in Nat /\ 2 ^ m = 2 * 2 ^ (m - 1)
    <3>1. 2 ^ ((m - 1) + 1) = 2 * 2 ^ (m - 1)
      BY <2>1, PowerStep
    <3> QED
      BY <2>1, <3>1, PowerType
  <2>3. e \in Nat /\ b * 2 ^ m = 2 * e
    <3> DEFINE p == 2 ^ (m - 1)
    <3> HIDE DEF p
    <3>1. p \in Nat /\ 2 ^ m = 2 * p
      BY <2>2 DEF p
    <3>2. b * p \in Nat /\ b * (2 * p) = 2 * (b * p)
      BY <3>1
    <3> QED
      BY <3>1, <3>2 DEF p
  <2>4. E(m) = IF e < ClockMax THEN e ELSE ClockMax
    BY DEF Backoff!Exponential
  <2>5. E(m + 1) = IF 2 * e < ClockMax THEN 2 * e ELSE ClockMax
    BY <2>1, <2>3 DEF Backoff!Exponential
  <2> HIDE DEF e, E
  <2> QED
    BY <2>3, <2>4, <2>5
<1> QED
  BY <1>1, <1>2

\* The loop of calculateRetryDelay computes the exponential backoff cut off at the
\* largest delay, for every backoff and every attempt, and so never leaves the
\* range of its type.  By induction over the attempts.
THEOREM DelayIsExponential ==
  ASSUME NEW b \in 0 .. ClockMax, NEW n \in Nat \ {0}
  PROVE  /\ Backoff!CalculateRetryDelay(b, n) = Backoff!Exponential(b, n)
         /\ Backoff!CalculateRetryDelay(b, n) \in 0 .. ClockMax
PROOF
<1> DEFINE Loop(f) == [attempt \in Nat |->
             IF attempt <= 1 THEN b
             ELSE IF f[attempt - 1] > ClockMax \div 2 THEN ClockMax
             ELSE 2 * f[attempt - 1]]
           E(m) == Backoff!Exponential(b, m)
           g == [m \in Nat |-> IF m <= 1 THEN b ELSE E(m)]
<1> ClockMax \in Nat /\ b \in Nat /\ b <= ClockMax
  BY ClockAssumption
<1>1. E(1) = b
  BY ExponentialDoubles
<1>2. ASSUME NEW m \in Nat \ {0}
      PROVE  /\ E(m) \in 0 .. ClockMax
             /\ E(m + 1) = IF E(m) > ClockMax \div 2 THEN ClockMax ELSE 2 * E(m)
  BY ExponentialDoubles
\* The loop computes something, and nothing else.
<1>3. g = Loop(g)
  <2>1. ASSUME NEW m \in Nat, m > 1
        PROVE  g[m] = IF g[m - 1] > ClockMax \div 2 THEN ClockMax ELSE 2 * g[m - 1]
    <3>1. m - 1 \in Nat \ {0} /\ (m - 1) + 1 = m
      BY <2>1
    <3>2. g[m] = E(m)
      BY <2>1
    <3>3. g[m - 1] = E(m - 1)
      BY <3>1, <1>1
    <3>4. E((m - 1) + 1) = IF E(m - 1) > ClockMax \div 2 THEN ClockMax ELSE 2 * E(m - 1)
      BY <3>1, <1>2
    <3> HIDE DEF g, E
    <3> QED
      BY <3>1, <3>2, <3>3, <3>4
  <2>2. \A m \in Nat : m <= 1 => g[m] = b
    OBVIOUS
  <2>3. g = [m \in Nat |-> g[m]]
    OBVIOUS
  <2>4. \A m \in Nat : g[m] = Loop(g)[m]
    <3> HIDE DEF g, E
    <3> QED
      BY <2>1, <2>2
  <2>5. Loop(g) = [m \in Nat |-> Loop(g)[m]]
    <3> HIDE DEF g
    <3> QED
      OBVIOUS
  <2> HIDE DEF g, Loop
  <2> QED
    BY <2>3, <2>4, <2>5
<1> DEFINE d == Backoff!DelayAt(b)
<1>4. d = CHOOSE f : f = Loop(f)
  BY DEF Backoff!DelayAt
<1>5. d = Loop(d)
  <2> HIDE DEF d, Loop, g
  <2> QED
    BY <1>3, <1>4
<1> DEFINE T == {m \in Nat : d[m + 1] = E(m + 1)}
<1>6. 0 \in T
  <2>1. d[1] = b
    <3> HIDE DEF d
    <3> QED
      BY <1>5
  <2> HIDE DEF d, E
  <2> QED
    BY <2>1, <1>1
<1>7. \A m \in Nat : m \in T => m + 1 \in T
  <2> SUFFICES ASSUME NEW m \in Nat, d[m + 1] = E(m + 1)
               PROVE  d[(m + 1) + 1] = E((m + 1) + 1)
    OBVIOUS
  <2>1. m + 1 \in Nat \ {0} /\ (m + 1) + 1 \in Nat /\ ~((m + 1) + 1 <= 1)
        /\ ((m + 1) + 1) - 1 = m + 1
    OBVIOUS
  <2>2. d[(m + 1) + 1] = IF d[m + 1] > ClockMax \div 2 THEN ClockMax ELSE 2 * d[m + 1]
    <3> HIDE DEF d
    <3> QED
      BY <1>5, <2>1
  <2> HIDE DEF d, E
  <2> QED
    BY <1>2, <2>1, <2>2
<1>8. Nat \subseteq T
  <2> HIDE DEF T
  <2> QED
    BY <1>6, <1>7, NatSetInduction
<1>9. d[n] = E(n)
  <2>1. n - 1 \in Nat /\ (n - 1) + 1 = n
    OBVIOUS
  <2>2. n - 1 \in T
    BY <1>8, <2>1
  <2> HIDE DEF d, E
  <2> QED
    BY <2>1, <2>2
<1> QED
  BY <1>2, <1>9 DEF Backoff!CalculateRetryDelay

-----------------------------------------------------------------------------
(* Arithmetic in the width of the clocks. *)

\* What Wrap returns fits, and is its argument when that fits.
LEMMA WrapFits ==
  ASSUME NEW n \in Int
  PROVE  /\ Wrap(n) \in -(ClockMax + 1) .. ClockMax
         /\ n \in -(ClockMax + 1) .. ClockMax => Wrap(n) = n
PROOF
<1> DEFINE K == 2 * (ClockMax + 1)
           x == n + ClockMax + 1
<1>1. ClockMax \in Nat /\ K \in Nat \ {0} /\ x \in Int
  BY ClockAssumption
<1>2. /\ x % K \in 0 .. (K - 1)
      /\ x \in 0 .. (K - 1) => x % K = x
  <2> HIDE DEF K, x
  <2> QED
    BY <1>1
<1>3. Wrap(n) = (x % K) - (ClockMax + 1)
  BY DEF Wrap
<1> QED
  <2>1. \A y \in 0 .. (K - 1) : y - (ClockMax + 1) \in -(ClockMax + 1) .. ClockMax
    BY <1>1
  <2>2. n \in -(ClockMax + 1) .. ClockMax => x \in 0 .. (K - 1)
    BY <1>1
  <2>3. x - (ClockMax + 1) = n
    BY <1>1
  <2> HIDE DEF K, x
  <2> QED
    BY <1>2, <1>3, <2>1, <2>2, <2>3

\* Milliseconds stay in the width of their ticks, and lose less than one.
LEMMA MillisRounds ==
  ASSUME NEW n \in -(ClockMax + 1) .. ClockMax
  PROVE  /\ Millis(n) \in -(ClockMax + 1) .. ClockMax
         /\ n <= 0 => Millis(n) <= 0
         /\ n >= 0 => /\ Millis(n) = n \div TicksPerMs /\ Millis(n) \in Nat
                      /\ Millis(n) * TicksPerMs \in Nat
                      /\ Millis(n) * TicksPerMs <= n
                      /\ n < Millis(n) * TicksPerMs + TicksPerMs
PROOF
<1> TicksPerMs \in Nat \ {0} /\ ClockMax \in Nat /\ n \in Int
  BY ClockAssumption
<1>1. ASSUME NEW k \in Nat
      PROVE  /\ k \div TicksPerMs \in Nat /\ k \div TicksPerMs <= k
             /\ (k \div TicksPerMs) * TicksPerMs \in Nat
             /\ (k \div TicksPerMs) * TicksPerMs <= k
             /\ k < (k \div TicksPerMs) * TicksPerMs + TicksPerMs
  OBVIOUS
<1>2. CASE n >= 0
  <2>1. n \in Nat /\ Millis(n) = n \div TicksPerMs
    BY <1>2 DEF Millis
  <2> QED
    BY <2>1, <1>1
<1>3. CASE n < 0
  <2>1. -n \in Nat /\ -n <= ClockMax + 1 /\ Millis(n) = -((-n) \div TicksPerMs)
    BY <1>3 DEF Millis
  <2>2. (-n) \div TicksPerMs \in Nat /\ (-n) \div TicksPerMs <= -n
    BY <2>1, <1>1
  <2> QED
    BY <2>1, <2>2, <1>3
<1> QED
  BY <1>2, <1>3

-----------------------------------------------------------------------------
(* The inductive invariant. *)

\* The delay before attempt n + 1, in ticks.
Delay(b, n) == Backoff!CalculateRetryDelay(b, n) * TicksPerMs

LastDelay == Delay(backoff, attempts)
NextDelay == Delay(backoff, attempts + 1)

\* The job was promised a retry that has not started.
Pending == pc \in {"ready", "waiting"} /\ promise # NULL

JobInv ==
  /\ promise \in {NULL} \cup [at : Nat, skew : Skews]
  /\ restoredBy \in {NULL} \cup Skews
  /\ pc \in {"ready", "waiting"} => attempts < MaxAttempts
  /\ pc = "active" => attempts > 0
  /\ pc = "waiting" => promise # NULL
  /\ ~up => launches < MaxLaunches
  /\ Pending => availableAt # NULL /\ attempts > 0
  /\ pc = "active" \/ (pc = "ready" /\ promise = NULL) => availableAt = NULL
  /\ shortened + (IF promise # NULL \/ pc = "active" THEN 1 ELSE 0) <= attempts

\* Each delay is no longer than the delays before it together.
DelayInv ==
  /\ pc = "active" => LastDelay <= LongestDelay
  /\ pc = "ready" /\ promise = NULL => NextDelay <= LongestDelay
  /\ Pending =>
       /\ promise.at - LastDelay \in 0 .. time
       /\ LastDelay <= 2 ^ shortened * ((promise.at - LastDelay) + backoff * TicksPerMs)

\* When the job is ready at the earliest.
Release == IF pc = "waiting" THEN readyAt ELSE time

\* The promise fits in the system clock, whatever it is set to.
PromiseFits == \A ahead \in Skews : promise.at + ahead <= ClockMax

InstantInv ==
  /\ Pending /\ promise.at + promise.skew <= ClockMax =>
       /\ availableAt = (promise.at + promise.skew) \div TicksPerMs
       /\ restoredBy = NULL => /\ Release >= promise.at
                               /\ pc = "waiting" => readyAt = promise.at
  /\ Pending /\ PromiseFits /\ restoredBy # NULL =>
       Release + (restoredBy - promise.skew) + 2 * TicksPerMs > promise.at + 1

\* The delay of the first attempt is the backoff, and no delay is more than twice
\* the one before.
LEMMA DelayBounds ==
  ASSUME NEW b \in 1 .. MaxBackoff, NEW n \in Nat \ {0}
  PROVE  /\ Backoff!CalculateRetryDelay(b, n) \in 0 .. ClockMax
         /\ Delay(b, n) \in Nat
         /\ Delay(b, 1) = b * TicksPerMs
         /\ Delay(b, n + 1) \in Nat /\ Delay(b, n + 1) <= 2 * Delay(b, n)
PROOF
<1> DEFINE D(k) == Backoff!CalculateRetryDelay(b, k)
<1>1. b \in 0 .. ClockMax /\ TicksPerMs \in Nat /\ ClockMax \in Nat
  BY ClockAssumption
<1>2. D(n) \in 0 .. ClockMax /\ D(n) = Backoff!Exponential(b, n)
  BY <1>1, DelayIsExponential
<1>3. n + 1 \in Nat \ {0} /\ 1 \in Nat \ {0}
  OBVIOUS
<1>4. D(n + 1) \in 0 .. ClockMax /\ D(n + 1) = Backoff!Exponential(b, n + 1)
  BY <1>1, <1>3, DelayIsExponential
<1>5. D(1) = b
  BY <1>1, <1>3, DelayIsExponential, ExponentialDoubles
<1>6. D(n + 1) <= 2 * D(n)
  <2>1. D(n + 1) = IF D(n) > ClockMax \div 2 THEN ClockMax ELSE 2 * D(n)
    BY <1>1, <1>2, <1>4, ExponentialDoubles
  <2> HIDE DEF D
  <2> QED
    BY <1>1, <1>2, <2>1
<1>7. \A x, y \in Nat : /\ x * TicksPerMs \in Nat
                        /\ x <= 2 * y => x * TicksPerMs <= 2 * (y * TicksPerMs)
  <2> SUFFICES ASSUME NEW x \in Nat, NEW y \in Nat, x <= 2 * y
               PROVE  x * TicksPerMs <= 2 * (y * TicksPerMs)
    BY <1>1
  <2>1. x * TicksPerMs <= (2 * y) * TicksPerMs
    BY <1>1
  <2> QED
    BY <1>1, <2>1
<1> HIDE DEF D
<1>8. D(n) \in Nat /\ D(n + 1) \in Nat
  BY <1>1, <1>2, <1>4
<1> QED
  BY <1>2, <1>5, <1>6, <1>7, <1>8 DEF Delay, D

\* now() + delay fits its width, and is exact when the delay and the sum fit.
LEMMA PlusFits ==
  ASSUME NEW t \in Nat, NEW delay \in Nat
  PROVE  /\ Plus(t, delay) \in -(ClockMax + 1) .. ClockMax
         /\ t + delay * TicksPerMs <= ClockMax => Plus(t, delay) = t + delay * TicksPerMs
PROOF
<1> DEFINE d == delay * TicksPerMs
<1>1. d \in Nat /\ ClockMax \in Nat
  BY ClockAssumption
<1> HIDE DEF d
<1>2. Wrap(d) \in -(ClockMax + 1) .. ClockMax
      /\ (d \in -(ClockMax + 1) .. ClockMax => Wrap(d) = d)
  BY <1>1, WrapFits
<1>3. t + Wrap(d) \in Int
  BY <1>1, <1>2
<1>4. /\ Wrap(t + Wrap(d)) \in -(ClockMax + 1) .. ClockMax
      /\ t + Wrap(d) \in -(ClockMax + 1) .. ClockMax => Wrap(t + Wrap(d)) = t + Wrap(d)
  BY <1>3, WrapFits
<1>5. Plus(t, delay) = Wrap(t + Wrap(d))
  BY DEF Plus, d
<1>6. ASSUME t + d <= ClockMax PROVE Plus(t, delay) = t + d
  <2>1. d \in -(ClockMax + 1) .. ClockMax
    BY <1>1, <1>6
  <2>2. t + d \in -(ClockMax + 1) .. ClockMax
    BY <1>1, <1>6
  <2> QED
    BY <2>1, <2>2, <1>2, <1>4, <1>5
<1> QED
  BY <1>4, <1>5, <1>6 DEF d

ClockInv == ClockTypeOK /\ JobInv /\ DelayInv /\ InstantInv

\* No product of the invariant shrinks with time, or when an attempt is
\* not followed by its delay.
LEMMA RoomGrows ==
  ASSUME NEW p \in Nat, p >= 1, NEW t \in Nat, NEW u \in Nat, t <= u, NEW b \in Nat
  PROVE  /\ p * (t + b) \in Nat /\ p * (u + b) \in Nat
         /\ p * (t + b) + (u - t) <= p * (u + b)
         /\ p * (t + b) <= p * (u + b)
         /\ (2 * p) * (t + b) = 2 * (p * (t + b))
PROOF
<1> DEFINE d == u - t
           x == t + b
<1>1. d \in Nat /\ x \in Nat /\ u + b = x + d
  OBVIOUS
<1> HIDE DEF d, x
<1>2. p * (x + d) = p * x + p * d /\ p * x \in Nat /\ p * d \in Nat
  BY <1>1
<1>3. d <= p * d
  BY <1>1
<1>4. (2 * p) * x = 2 * (p * x)
  BY <1>1
<1> QED
  BY <1>1, <1>2, <1>3, <1>4 DEF d, x

\* The invariant holds when the job is posted.
LEMMA ClockInvInit == ClockInit => ClockInv
PROOF
<1> SUFFICES ASSUME ClockInit PROVE ClockInv
  OBVIOUS
<1> USE ClockAssumption DEF ClockInit
<1>1. ClockTypeOK
  BY DEF ClockTypeOK
<1>2. JobInv
  BY DEF JobInv, Pending
<1>3. DelayInv
  <2>1. NextDelay = backoff * TicksPerMs
    <3>1. Delay(backoff, 1) = backoff * TicksPerMs
      BY DelayBounds
    <3> QED
      BY <3>1 DEF NextDelay
  <2>2. LongestDelay = backoff * TicksPerMs
    <3>1. backoff * TicksPerMs \in Nat
      OBVIOUS
    <3> QED
      BY <3>1, PowerZero DEF LongestDelay
  <2>3. backoff * TicksPerMs \in Nat
    OBVIOUS
  <2> QED
    BY <2>1, <2>2, <2>3 DEF DelayInv, Pending
<1>4. InstantInv
  BY DEF InstantInv, Pending
<1> QED
  BY <1>1, <1>2, <1>3, <1>4 DEF ClockInv

-----------------------------------------------------------------------------
(* Every step keeps the types, and the bookkeeping of one job. *)

\* The instants that a retry or a restart computes.
LEMMA InstantTypes ==
  ASSUME ClockTypeOK
  PROVE  /\ attempts > 0 =>
              LET delay == Backoff!CalculateRetryDelay(backoff, attempts)
              IN  /\ delay \in Nat /\ delay * TicksPerMs \in Nat
                  /\ Plus(time, delay) \in -(ClockMax + 1) .. ClockMax
                  /\ Millis(Plus(SystemNow, delay)) \in -(ClockMax + 1) .. ClockMax
         /\ \A remaining \in Nat : Plus(time, remaining) \in -(ClockMax + 1) .. ClockMax
         /\ availableAt # NULL =>
              Millis(Wrap(availableAt * TicksPerMs - SystemNow)) \in Int
PROOF
<1>1. /\ TicksPerMs \in Nat /\ ClockMax \in Nat /\ time \in Nat /\ SystemNow \in Nat
      /\ attempts \in Nat /\ backoff \in 1 .. MaxBackoff
  BY ClockAssumption DEF ClockTypeOK, SystemNow
<1>2. ASSUME attempts > 0
      PROVE  LET delay == Backoff!CalculateRetryDelay(backoff, attempts)
             IN  /\ delay \in Nat /\ delay * TicksPerMs \in Nat
                 /\ Plus(time, delay) \in -(ClockMax + 1) .. ClockMax
                 /\ Millis(Plus(SystemNow, delay)) \in -(ClockMax + 1) .. ClockMax
  <2> DEFINE delay == Backoff!CalculateRetryDelay(backoff, attempts)
  <2>1. attempts \in Nat \ {0}
    BY <1>1, <1>2
  <2>2. delay \in 0 .. ClockMax
    BY <1>1, <2>1, DelayBounds
  <2> HIDE DEF delay
  <2>3. delay \in Nat /\ delay * TicksPerMs \in Nat
    BY <1>1, <2>2
  <2>4. /\ Plus(time, delay) \in -(ClockMax + 1) .. ClockMax
        /\ Plus(SystemNow, delay) \in -(ClockMax + 1) .. ClockMax
    BY <1>1, <2>3, PlusFits
  <2>5. Millis(Plus(SystemNow, delay)) \in -(ClockMax + 1) .. ClockMax
    BY <2>4, MillisRounds
  <2> QED
    BY <2>3, <2>4, <2>5 DEF delay
<1>3. \A remaining \in Nat : Plus(time, remaining) \in -(ClockMax + 1) .. ClockMax
  BY <1>1, PlusFits
<1>4. ASSUME availableAt # NULL
      PROVE  Millis(Wrap(availableAt * TicksPerMs - SystemNow)) \in Int
  <2>1. availableAt \in Int
    BY <1>1, <1>4 DEF ClockTypeOK
  <2>2. availableAt * TicksPerMs - SystemNow \in Int
    BY <1>1, <2>1
  <2>3. Wrap(availableAt * TicksPerMs - SystemNow) \in -(ClockMax + 1) .. ClockMax
    BY <2>2, WrapFits
  <2>4. \A n \in -(ClockMax + 1) .. ClockMax : n \in Int
    BY <1>1
  <2> QED
    BY <2>3, <2>4, MillisRounds
<1> QED
  BY <1>2, <1>3, <1>4

\* A restart either leaves readyAt alone or makes the job wait.
LEMMA RestoreSets ==
  ASSUME ClockTypeOK, availableAt # NULL,
         RestoreWaiting(Millis(Wrap(availableAt * TicksPerMs - SystemNow)))
  PROVE  /\ pc' \in {"ready", "waiting"}
         /\ readyAt' \in -(ClockMax + 1) .. ClockMax
PROOF
<1> DEFINE remaining == Millis(Wrap(availableAt * TicksPerMs - SystemNow))
<1>1. remaining \in Int
  BY InstantTypes
<1>2. RestoreWaiting(remaining)
  OBVIOUS
<1> HIDE DEF remaining
<1>3. CASE remaining > 0
  <2>1. remaining \in Nat
    BY <1>1, <1>3
  <2> QED
    BY <1>2, <1>3, <2>1, InstantTypes DEF RestoreWaiting
<1>4. CASE ~(remaining > 0)
  BY <1>2, <1>4 DEF RestoreWaiting, ClockTypeOK
<1> QED
  BY <1>3, <1>4

\* The branches of a restart, one for each state of the job.
LEMMA LaunchCases ==
  ASSUME ClockTypeOK, Launch
  PROVE  /\ pc = "failed" \/ attempts >= MaxAttempts =>
              /\ pc' = "failed"
              /\ UNCHANGED <<availableAt, readyAt, promise, restoredBy, shortened>>
         /\ pc = "active" /\ attempts < MaxAttempts =>
              /\ pc' = "ready" /\ shortened' = shortened + 1
              /\ promise' = NULL /\ restoredBy' = NULL
              /\ UNCHANGED <<availableAt, readyAt>>
         /\ pc \in {"ready", "waiting"} /\ attempts < MaxAttempts =>
              /\ IF availableAt = NULL THEN pc' = "ready" /\ UNCHANGED readyAt
                 ELSE RestoreWaiting(Millis(Wrap(availableAt * TicksPerMs - SystemNow)))
              /\ restoredBy' = skew
              /\ UNCHANGED <<availableAt, promise, shortened>>
PROOF
<1> attempts \in Nat /\ MaxAttempts \in Nat /\ pc \in {"ready", "active", "waiting", "failed"}
  BY ClockAssumption DEF ClockTypeOK
<1>1. CASE pc = "failed"
  BY <1>1 DEF Launch
<1>2. CASE pc # "failed" /\ attempts >= MaxAttempts
  BY <1>2 DEF Launch
<1>3. CASE pc = "active" /\ attempts < MaxAttempts
  BY <1>3 DEF Launch
<1>4. CASE pc \in {"ready", "waiting"} /\ attempts < MaxAttempts
  BY <1>4 DEF Launch
<1> QED
  BY <1>1, <1>2, <1>3, <1>4

\* Every step keeps the types and the bookkeeping.
LEMMA JobStep == ClockTypeOK /\ JobInv /\ [ClockNext]_clockVars => ClockTypeOK' /\ JobInv'
PROOF
<1> SUFFICES ASSUME ClockTypeOK, JobInv, [ClockNext]_clockVars
             PROVE  ClockTypeOK' /\ JobInv'
  OBVIOUS
<1> USE ClockAssumption
<1>1. CASE AttemptStarts
  <2>1. ClockTypeOK'
    BY <1>1 DEF AttemptStarts, ClockTypeOK, JobInv
  <2>2. JobInv'
    BY <1>1 DEF AttemptStarts, ClockTypeOK, JobInv, Pending
  <2> QED
    BY <2>1, <2>2
<1>2. CASE Retry
  <2> DEFINE delay == Backoff!CalculateRetryDelay(backoff, attempts)
  <2>1. attempts > 0
    BY <1>2 DEF Retry, JobInv
  <2>2. /\ delay \in Nat /\ delay * TicksPerMs \in Nat
        /\ Plus(time, delay) \in -(ClockMax + 1) .. ClockMax
        /\ Millis(Plus(SystemNow, delay)) \in -(ClockMax + 1) .. ClockMax
    BY <2>1, InstantTypes
  <2>3. /\ pc = "active" /\ attempts < MaxAttempts
        /\ pc' = "waiting"
        /\ availableAt' = Millis(Plus(SystemNow, delay))
        /\ readyAt' = Plus(time, delay)
        /\ promise' = [at |-> time + delay * TicksPerMs, skew |-> skew]
        /\ restoredBy' = NULL
        /\ UNCHANGED <<backoff, time, skew, up, attempts, launches, shortened>>
    BY <1>2 DEF Retry
  <2> HIDE DEF delay
  <2>4. ClockTypeOK'
    BY <2>2, <2>3 DEF ClockTypeOK
  <2>5. promise' \in [at : Nat, skew : Skews]
    <3>1. time + delay * TicksPerMs \in Nat
      BY <2>2 DEF ClockTypeOK
    <3> QED
      BY <2>3, <3>1 DEF ClockTypeOK
  <2>6. promise' # NULL /\ availableAt' # NULL
    <3>1. promise' \in [at : Int, skew : Int]
      <4>1. time + delay * TicksPerMs \in Int /\ skew \in Int
        BY <2>2 DEF ClockTypeOK
      <4> QED
        BY <2>3, <4>1
    <3>2. availableAt' \in Int
      BY <2>2, <2>3
    <3> QED
      BY <3>1, <3>2
  <2>7. JobInv'
    BY <2>1, <2>3, <2>5, <2>6 DEF JobInv, Pending, ClockTypeOK
  <2> QED
    BY <2>4, <2>7
<1>3. CASE GiveUp
  BY <1>3 DEF GiveUp, ClockTypeOK, JobInv, Pending
<1>4. CASE Due
  BY <1>4 DEF Due, ClockTypeOK, JobInv, Pending
<1>5. CASE Crash
  BY <1>5 DEF Crash, ClockTypeOK, JobInv, Pending
<1>6. CASE Launch
  <2>1. /\ ~up /\ up' = TRUE /\ launches' = launches + 1
        /\ UNCHANGED <<backoff, time, skew, attempts>>
    BY <1>6 DEF Launch
  <2>2. CASE pc = "failed" \/ attempts >= MaxAttempts
    <3>1. /\ pc' = "failed"
          /\ UNCHANGED <<availableAt, readyAt, promise, restoredBy, shortened>>
      BY <1>6, <2>2, LaunchCases
    <3> QED
      BY <2>1, <3>1 DEF ClockTypeOK, JobInv, Pending
  <2>3. CASE pc = "active" /\ attempts < MaxAttempts
    <3>1. /\ pc' = "ready" /\ shortened' = shortened + 1
          /\ promise' = NULL /\ restoredBy' = NULL
          /\ UNCHANGED <<availableAt, readyAt>>
      BY <1>6, <2>3, LaunchCases
    <3> QED
      BY <2>1, <2>3, <3>1 DEF ClockTypeOK, JobInv, Pending
  <2>4. CASE pc \in {"ready", "waiting"} /\ attempts < MaxAttempts
    <3>1. /\ IF availableAt = NULL THEN pc' = "ready" /\ UNCHANGED readyAt
             ELSE RestoreWaiting(Millis(Wrap(availableAt * TicksPerMs - SystemNow)))
          /\ restoredBy' = skew
          /\ UNCHANGED <<availableAt, promise, shortened>>
      BY <1>6, <2>4, LaunchCases
    <3>2. pc' \in {"ready", "waiting"} /\ readyAt' \in -(ClockMax + 1) .. ClockMax
      BY <3>1, RestoreSets DEF ClockTypeOK
    <3>3. pc' = "waiting" => promise # NULL
      BY <2>4, <3>1 DEF JobInv
    <3> QED
      BY <2>1, <2>4, <3>1, <3>2, <3>3 DEF ClockTypeOK, JobInv, Pending
  <2> QED
    BY <2>2, <2>3, <2>4 DEF ClockTypeOK
<1>7. CASE TimePasses
  BY <1>7 DEF TimePasses, ClockTypeOK, JobInv, Pending
<1>8. CASE SetClock
  BY <1>8 DEF SetClock, ClockTypeOK, JobInv, Pending
<1>9. CASE UNCHANGED clockVars
  BY <1>9 DEF clockVars, ClockTypeOK, JobInv, Pending
<1> QED
  BY <1>1, <1>2, <1>3, <1>4, <1>5, <1>6, <1>7, <1>8, <1>9 DEF ClockNext

-----------------------------------------------------------------------------
(* No delay outruns the time already waited. *)

\* The numbers of DelayInv.
LEMMA DelayNumbers ==
  ASSUME ClockTypeOK
  PROVE  /\ time \in Nat /\ attempts \in Nat /\ shortened \in Nat
         /\ backoff * TicksPerMs \in Nat
         /\ 2 ^ shortened \in Nat /\ 2 ^ shortened >= 1
         /\ 2 ^ (shortened + 1) = 2 * 2 ^ shortened
         /\ NextDelay \in Nat
         /\ attempts > 0 => LastDelay \in Nat /\ NextDelay <= 2 * LastDelay
PROOF
<1>1. /\ time \in Nat /\ attempts \in Nat /\ shortened \in Nat
      /\ backoff \in 1 .. MaxBackoff /\ backoff * TicksPerMs \in Nat
  BY ClockAssumption DEF ClockTypeOK
<1>2. /\ 2 ^ shortened \in Nat /\ 2 ^ shortened >= 1
      /\ 2 ^ (shortened + 1) = 2 * 2 ^ shortened
  BY <1>1, PowerType, PowerStep, PowerPositive
<1>3. NextDelay \in Nat
  <2>1. attempts + 1 \in Nat \ {0}
    BY <1>1
  <2> QED
    BY <1>1, <2>1, DelayBounds DEF NextDelay
<1>4. ASSUME attempts > 0 PROVE LastDelay \in Nat /\ NextDelay <= 2 * LastDelay
  <2>1. attempts \in Nat \ {0}
    BY <1>1, <1>4
  <2> QED
    BY <1>1, <2>1, DelayBounds DEF LastDelay, NextDelay
<1> QED
  BY <1>1, <1>2, <1>3, <1>4

\* A step that changes neither the job nor its promise, while time may pass.
LEMMA DelaysKept ==
  ASSUME ClockTypeOK, JobInv, DelayInv, ClockTypeOK',
         UNCHANGED <<backoff, attempts, shortened, promise>>, time <= time',
         \/ pc' = pc
         \/ pc \in {"ready", "waiting"} /\ pc' \in {"ready", "waiting"}
              /\ (promise = NULL => pc' = pc)
         \/ pc' = "failed"
  PROVE  DelayInv'
PROOF
<1> DEFINE p == 2 ^ shortened
           b == backoff * TicksPerMs
<1>1. time \in Nat /\ time' \in Nat /\ p \in Nat /\ p >= 1 /\ b \in Nat /\ NextDelay \in Nat
  BY DelayNumbers, ClockAssumption DEF ClockTypeOK
<1>2. LongestDelay = p * (time + b) /\ LongestDelay' = p * (time' + b)
  BY DEF LongestDelay
<1>3. LastDelay' = LastDelay /\ NextDelay' = NextDelay
  BY DEF LastDelay, NextDelay
<1>4. p * (time + b) \in Nat /\ p * (time' + b) \in Nat /\ p * (time + b) <= p * (time' + b)
  <2> HIDE DEF p, b
  <2> QED
    BY <1>1, RoomGrows
<1>5. p' * ((promise'.at - LastDelay') + backoff' * TicksPerMs)
        = p * ((promise.at - LastDelay) + b)
  BY <1>3
<1>6. pc' = "active" => LastDelay' <= LongestDelay'
  <2> SUFFICES ASSUME pc = "active" PROVE LastDelay' <= LongestDelay'
    OBVIOUS
  <2>1. LastDelay \in Nat /\ LastDelay <= LongestDelay
    BY DelayNumbers DEF DelayInv, JobInv
  <2> HIDE DEF p, b
  <2> QED
    BY <1>2, <1>3, <1>4, <2>1
<1>7. pc' = "ready" /\ promise' = NULL => NextDelay' <= LongestDelay'
  <2> SUFFICES ASSUME pc = "ready", promise = NULL PROVE NextDelay' <= LongestDelay'
    OBVIOUS
  <2>1. NextDelay \in Nat /\ NextDelay <= LongestDelay
    BY DelayNumbers DEF DelayInv
  <2> HIDE DEF p, b
  <2> QED
    BY <1>2, <1>3, <1>4, <2>1
<1>8. Pending' => /\ Pending
                  /\ promise'.at - LastDelay' \in 0 .. time'
                  /\ LastDelay' <= p' * ((promise'.at - LastDelay') + backoff' * TicksPerMs)
  <2> SUFFICES ASSUME Pending'
               PROVE  /\ Pending
                      /\ promise'.at - LastDelay' \in 0 .. time'
                      /\ LastDelay' <= p' * ((promise'.at - LastDelay') + backoff' * TicksPerMs)
    OBVIOUS
  <2>1. Pending
    BY DEF Pending
  <2>2. promise.at - LastDelay \in 0 .. time /\ LastDelay <= p * ((promise.at - LastDelay) + b)
    BY <2>1 DEF DelayInv
  <2>3. promise'.at - LastDelay' \in 0 .. time'
    BY <1>1, <1>3, <2>2
  <2> HIDE DEF p, b
  <2> QED
    BY <1>3, <1>5, <2>1, <2>2, <2>3
<1> QED
  BY <1>6, <1>7, <1>8 DEF DelayInv

\* Every step keeps each delay within the delays before it: a retry doubles what
\* has been waited for, an attempt that starts early counts as shortened.
LEMMA DelayStep ==
  ASSUME ClockTypeOK, JobInv, DelayInv, [ClockNext]_clockVars, ClockTypeOK', JobInv'
  PROVE  DelayInv'
PROOF
<1> DEFINE p == 2 ^ shortened
           b == backoff * TicksPerMs
<1>0. /\ time \in Nat /\ attempts \in Nat /\ shortened \in Nat
      /\ p \in Nat /\ p >= 1 /\ b \in Nat /\ NextDelay \in Nat
      /\ 2 ^ (shortened + 1) = 2 * p
      /\ LongestDelay = p * (time + b) /\ p * (time + b) \in Nat
      /\ (2 * p) * (time + b) = 2 * (p * (time + b))
  <2>1. /\ time \in Nat /\ attempts \in Nat /\ shortened \in Nat
        /\ p \in Nat /\ p >= 1 /\ b \in Nat /\ NextDelay \in Nat
        /\ 2 ^ (shortened + 1) = 2 * p
        /\ LongestDelay = p * (time + b)
    BY DelayNumbers DEF LongestDelay
  <2>2. p * (time + b) \in Nat /\ (2 * p) * (time + b) = 2 * (p * (time + b))
    <3>1. time <= time
      BY <2>1
    <3> HIDE DEF p, b
    <3> QED
      BY <2>1, <3>1, RoomGrows
  <2> QED
    BY <2>1, <2>2
<1>1. CASE AttemptStarts
  <2>1. /\ pc = "ready" /\ pc' = "active" /\ attempts' = attempts + 1
        /\ UNCHANGED <<backoff, time, promise>>
        /\ shortened' = IF promise # NULL /\ time < promise.at THEN shortened + 1
                        ELSE shortened
    BY <1>1 DEF AttemptStarts
  <2>2. LastDelay' = NextDelay
    BY <2>1 DEF LastDelay, NextDelay
  <2>3. LongestDelay' = 2 ^ shortened' * (time + b)
    BY <2>1 DEF LongestDelay
  <2>4. NextDelay <= LongestDelay'
    <3>1. CASE promise = NULL
      BY <2>1, <2>3, <3>1, <1>0 DEF DelayInv
    <3>2. CASE promise # NULL
      <4> DEFINE t == promise.at - LastDelay
      <4>1. /\ t \in 0 .. time /\ LastDelay <= p * (t + b)
            /\ LastDelay \in Nat /\ NextDelay <= 2 * LastDelay
        BY <2>1, <3>2, DelayNumbers DEF DelayInv, Pending, JobInv
      <4>2. p * (t + b) \in Nat /\ p * (t + b) + (time - t) <= p * (time + b)
        <5>1. t \in Nat /\ t <= time
          BY <4>1
        <5> HIDE DEF p, b, t
        <5> QED
          BY <1>0, <5>1, RoomGrows
      <4>3. promise.at = t + LastDelay
        <5>1. promise.at \in Nat
          BY <3>2 DEF JobInv
        <5> QED
          BY <4>1, <5>1
      <4>4. CASE time < promise.at
        <5>1. LongestDelay' = (2 * p) * (time + b)
          BY <2>1, <2>3, <3>2, <4>4, <1>0
        <5> HIDE DEF p, b, t
        <5> QED
          BY <1>0, <4>1, <4>2, <5>1
      <4>5. CASE ~(time < promise.at)
        <5>1. LongestDelay' = p * (time + b)
          BY <2>1, <2>3, <4>5
        <5>2. time - t >= LastDelay
          <6> HIDE DEF t
          <6> QED
            BY <4>1, <4>3, <4>5, <1>0
        <5> HIDE DEF p, b, t
        <5> QED
          BY <1>0, <4>1, <4>2, <5>1, <5>2
      <4> QED
        BY <4>4, <4>5
    <3> QED
      BY <3>1, <3>2
  <2> QED
    BY <2>1, <2>2, <2>4 DEF DelayInv, Pending
<1>2. CASE Retry
  <2> DEFINE delay == Backoff!CalculateRetryDelay(backoff, attempts)
  <2>1. /\ pc = "active" /\ pc' = "waiting"
        /\ promise' = [at |-> time + delay * TicksPerMs, skew |-> skew]
        /\ UNCHANGED <<backoff, time, attempts, shortened>>
    BY <1>2 DEF Retry
  <2>2. LastDelay = delay * TicksPerMs /\ LastDelay' = LastDelay
    BY <2>1 DEF LastDelay, Delay
  <2>3. LastDelay \in Nat /\ LastDelay <= p * (time + b)
    BY <2>1, <1>0, DelayNumbers DEF DelayInv, JobInv
  <2>4. promise'.at - LastDelay' = time
    BY <2>1, <2>2, <2>3, <1>0
  <2>5. promise'.at - LastDelay' \in 0 .. time'
    BY <2>1, <2>4, <1>0
  <2>6. LastDelay' <= (2 ^ shortened)' * ((promise'.at - LastDelay') + (backoff * TicksPerMs)')
    BY <2>1, <2>2, <2>3, <2>4
  <2> QED
    BY <2>1, <2>5, <2>6 DEF DelayInv
<1>3. CASE GiveUp
  <2>1. time <= time'
    BY <1>3, <1>0 DEF GiveUp
  <2> QED
    BY <1>3, <2>1, DelaysKept DEF GiveUp
<1>4. CASE Due
  <2>1. time <= time' /\ promise # NULL
    BY <1>4, <1>0 DEF Due, JobInv
  <2> QED
    BY <1>4, <2>1, DelaysKept DEF Due
<1>5. CASE Crash
  <2>1. time <= time'
    BY <1>5, <1>0 DEF Crash
  <2> QED
    BY <1>5, <2>1, DelaysKept DEF Crash
<1>6. CASE Launch
  <2>1. UNCHANGED <<backoff, time, skew, attempts>> /\ time <= time'
    BY <1>6, <1>0 DEF Launch
  <2>2. CASE pc = "failed" \/ attempts >= MaxAttempts
    <3>1. pc' = "failed" /\ UNCHANGED <<promise, shortened>>
      BY <1>6, <2>2, LaunchCases
    <3> QED
      BY <2>1, <3>1, DelaysKept
  <2>3. CASE pc = "active" /\ attempts < MaxAttempts
    <3>1. pc' = "ready" /\ shortened' = shortened + 1 /\ promise' = NULL
      BY <1>6, <2>3, LaunchCases
    <3>2. NextDelay' = NextDelay /\ LongestDelay' = (2 * p) * (time + b)
      BY <2>1, <3>1, <1>0 DEF NextDelay, LongestDelay
    <3>3. LastDelay \in Nat /\ LastDelay <= p * (time + b) /\ NextDelay <= 2 * LastDelay
      BY <2>3, <1>0, DelayNumbers DEF DelayInv, JobInv
    <3>4. NextDelay' <= LongestDelay'
      <4> HIDE DEF p, b
      <4> QED
        BY <1>0, <3>2, <3>3
    <3> QED
      BY <3>1, <3>4 DEF DelayInv, Pending
  <2>4. CASE pc \in {"ready", "waiting"} /\ attempts < MaxAttempts
    <3>1. /\ IF availableAt = NULL THEN pc' = "ready" /\ UNCHANGED readyAt
             ELSE RestoreWaiting(Millis(Wrap(availableAt * TicksPerMs - SystemNow)))
          /\ UNCHANGED <<promise, shortened>>
      BY <1>6, <2>4, LaunchCases
    <3>2. pc' \in {"ready", "waiting"}
      BY <3>1, RestoreSets
    <3>3. promise = NULL => pc' = pc
      BY <2>4, <3>1 DEF JobInv
    <3> QED
      BY <2>1, <2>4, <3>1, <3>2, <3>3, DelaysKept
  <2> QED
    BY <2>2, <2>3, <2>4, <1>0, ClockAssumption DEF ClockTypeOK
<1>7. CASE TimePasses
  <2>1. time <= time'
    BY <1>7, <1>0 DEF TimePasses
  <2> QED
    BY <1>7, <2>1, DelaysKept DEF TimePasses
<1>8. CASE SetClock
  <2>1. time <= time'
    BY <1>8, <1>0 DEF SetClock
  <2> QED
    BY <1>8, <2>1, DelaysKept DEF SetClock
<1>9. CASE UNCHANGED clockVars
  <2>1. time <= time'
    BY <1>9, <1>0 DEF clockVars
  <2> QED
    BY <1>9, <2>1, DelaysKept DEF clockVars
<1> QED
  BY <1>1, <1>2, <1>3, <1>4, <1>5, <1>6, <1>7, <1>8, <1>9 DEF ClockNext

-----------------------------------------------------------------------------
(* No instant lies before its promise by more than the clock was set. *)

\* The numbers of a promised retry.
LEMMA PromiseType ==
  ASSUME JobInv, promise # NULL
  PROVE  promise.at \in Nat /\ promise.skew \in Skews /\ promise.skew \in Nat
PROOF
<1>1. promise \in [at : Nat, skew : Skews]
  BY DEF JobInv
<1>2. promise.at \in Nat /\ promise.skew \in Skews
  BY <1>1
<1> QED
  BY <1>2, ClockAssumption

\* The instant a restart recomputes from a row, when the promise fits.
LEMMA RestoredInstant ==
  ASSUME ClockTypeOK, JobInv, InstantInv, Pending, PromiseFits,
         RestoreWaiting(Millis(Wrap(availableAt * TicksPerMs - SystemNow))),
         UNCHANGED time
  PROVE  Release' + (skew - promise.skew) + 2 * TicksPerMs > promise.at + 1
PROOF
<1> DEFINE q == promise.at + promise.skew
           a == availableAt
           x == a * TicksPerMs - SystemNow
           r == Millis(x)
<1>1. /\ promise.at \in Nat /\ promise.skew \in Nat
      /\ q \in Nat /\ q <= ClockMax
  <2>1. promise.at \in Nat /\ promise.skew \in Skews /\ promise.skew \in Nat
    BY PromiseType DEF Pending
  <2> QED
    BY <2>1 DEF PromiseFits
<1>2. /\ a = q \div TicksPerMs
      /\ a \in Nat /\ a * TicksPerMs \in Nat
      /\ a * TicksPerMs <= q /\ q < a * TicksPerMs + TicksPerMs
  <2>1. q \in -(ClockMax + 1) .. ClockMax /\ q >= 0
    BY <1>1, ClockAssumption
  <2>2. a = q \div TicksPerMs
    BY <1>1 DEF InstantInv
  <2>3. /\ Millis(q) = q \div TicksPerMs /\ Millis(q) \in Nat
        /\ Millis(q) * TicksPerMs \in Nat
        /\ Millis(q) * TicksPerMs <= q
        /\ q < Millis(q) * TicksPerMs + TicksPerMs
    <3> HIDE DEF q
    <3> QED
      BY <2>1, MillisRounds
  <2> QED
    BY <2>2, <2>3
<1>3. /\ time \in Nat /\ skew \in Nat /\ time + skew <= ClockMax
      /\ SystemNow = time + skew
      /\ TicksPerMs \in Nat \ {0} /\ ClockMax \in Nat /\ promise.skew \in Nat
  <2>1. time \in Nat /\ time <= MaxTime /\ skew \in Skews /\ MaxTime \in Nat
    BY ClockAssumption DEF ClockTypeOK
  <2>2. skew \in Nat /\ MaxTime + skew <= ClockMax
    BY <2>1, ClockAssumption
  <2>3. TicksPerMs \in Nat \ {0} /\ ClockMax \in Nat
    BY ClockAssumption
  <2> QED
    BY <1>1, <2>1, <2>2, <2>3 DEF SystemNow
<1>4. x \in Int /\ x <= ClockMax /\ x >= -ClockMax
  <2> DEFINE aT == a * TicksPerMs
  <2>1. aT \in Nat /\ aT <= ClockMax /\ x = aT - (time + skew)
    <3>1. aT \in Nat /\ aT <= q
      BY <1>2
    <3> HIDE DEF aT, q
    <3> QED
      BY <1>1, <1>3, <3>1 DEF aT
  <2> HIDE DEF aT, x
  <2> QED
    BY <1>3, <2>1
<1>5. Wrap(x) = x /\ x \in -(ClockMax + 1) .. ClockMax
  <2>1. x \in -(ClockMax + 1) .. ClockMax
    BY <1>3, <1>4
  <2> HIDE DEF x
  <2> QED
    BY <1>4, <2>1, WrapFits
<1>6. /\ r \in Int
      /\ x <= 0 => r <= 0
      /\ x >= 0 => /\ r \in Nat /\ r * TicksPerMs \in Nat /\ r * TicksPerMs <= x
                   /\ x < r * TicksPerMs + TicksPerMs
  <2> HIDE DEF x
  <2>1. \A n \in -(ClockMax + 1) .. ClockMax : n \in Int
    BY <1>3
  <2> QED
    BY <1>5, <2>1, MillisRounds
<1>7. IF r > 0 THEN pc' = "waiting" /\ readyAt' = Plus(time, r)
      ELSE pc' = "ready" /\ UNCHANGED readyAt
  BY <1>5 DEF RestoreWaiting
<1> DEFINE aT == a * TicksPerMs
<1>8. /\ aT \in Nat /\ aT <= q /\ q < aT + TicksPerMs /\ x = aT - (time + skew)
      /\ q = promise.at + promise.skew /\ aT <= ClockMax
  <2>1. /\ aT \in Nat /\ aT <= q /\ q < aT + TicksPerMs
    BY <1>2
  <2> HIDE DEF aT
  <2> QED
    BY <1>1, <1>3, <2>1 DEF aT
<1>9. CASE r > 0
  <2> DEFINE rT == r * TicksPerMs
  <2>1. r \in Nat /\ rT \in Nat /\ rT <= x /\ x < rT + TicksPerMs
    <3> HIDE DEF x, r
    <3> QED
      BY <1>4, <1>6, <1>9
  <2>2. time + rT <= ClockMax
    <3> HIDE DEF rT, x, aT, q
    <3> QED
      BY <1>3, <1>4, <1>8, <2>1
  <2>3. readyAt' = time + rT /\ pc' = "waiting"
    <3>1. readyAt' = Plus(time, r) /\ pc' = "waiting"
      BY <1>7, <1>9
    <3>2. Plus(time, r) = time + rT
      <4> HIDE DEF r
      <4> QED
        BY <1>3, <2>1, <2>2, PlusFits
    <3> QED
      BY <3>1, <3>2
  <2>4. Release' = time + rT
    BY <2>3 DEF Release
  <2> HIDE DEF rT, x, aT, q, r
  <2> QED
    BY <1>1, <1>3, <1>4, <1>8, <2>1, <2>4
<1>10. CASE ~(r > 0)
  <2>1. x < TicksPerMs
    <3>1. CASE x >= 0
      <4>1. r = 0
        <5> HIDE DEF x, r
        <5> QED
          BY <1>6, <1>10, <3>1
      <4>2. r * TicksPerMs = 0
        BY <4>1, <1>3
      <4> HIDE DEF x, r
      <4> QED
        BY <1>3, <1>4, <1>6, <3>1, <4>2
    <3>2. CASE ~(x >= 0)
      <4> HIDE DEF x
      <4> QED
        BY <1>3, <1>4, <3>2
    <3> QED
      BY <3>1, <3>2
  <2>2. Release' = time
    BY <1>7, <1>10 DEF Release
  <2> HIDE DEF x, aT, q, r
  <2> QED
    BY <1>1, <1>3, <1>4, <1>8, <2>1, <2>2
<1> QED
  BY <1>9, <1>10

\* A step that leaves the promise alone and releases the job no earlier.
LEMMA InstantKept ==
  ASSUME ClockTypeOK, ClockTypeOK', JobInv, InstantInv,
         Pending' => /\ Pending /\ Release' >= Release
                     /\ UNCHANGED <<availableAt, promise, restoredBy>>
                     /\ pc' = "waiting" => pc = "waiting" /\ readyAt' = readyAt
  PROVE  InstantInv'
PROOF
<1> SUFFICES ASSUME Pending' PROVE InstantInv'
  BY DEF InstantInv
<1>1. /\ Pending /\ Release' >= Release
      /\ UNCHANGED <<availableAt, promise, restoredBy>>
      /\ pc' = "waiting" => pc = "waiting" /\ readyAt' = readyAt
  OBVIOUS
<1>2. /\ Release \in Int /\ Release' \in Int
      /\ promise.at \in Nat /\ promise.skew \in Nat /\ TicksPerMs \in Nat
  <2>1. Release \in Int /\ Release' \in Int
    BY ClockAssumption DEF Release, ClockTypeOK
  <2>2. promise.at \in Nat /\ promise.skew \in Nat
    BY <1>1, PromiseType DEF Pending
  <2> QED
    BY <2>1, <2>2, ClockAssumption
<1>3. PromiseFits' <=> PromiseFits
  BY <1>1 DEF PromiseFits
<1>4. restoredBy # NULL => restoredBy \in Nat
  BY ClockAssumption DEF JobInv
<1> QED
  BY <1>1, <1>2, <1>3, <1>4 DEF InstantInv

\* Every step keeps the instants true.
LEMMA InstantStep ==
  ASSUME ClockTypeOK, JobInv, InstantInv, [ClockNext]_clockVars, ClockTypeOK', JobInv'
  PROVE  InstantInv'
PROOF
<1>0. /\ time \in Nat /\ skew \in Nat /\ readyAt \in Int
      /\ attempts \in Nat /\ MaxAttempts \in Nat
  BY ClockAssumption DEF ClockTypeOK
<1>1. CASE AttemptStarts
  BY <1>1 DEF AttemptStarts, InstantInv, Pending
<1>2. CASE Retry
  <2> DEFINE delay == Backoff!CalculateRetryDelay(backoff, attempts)
             d == delay * TicksPerMs
  <2>1. /\ pc' = "waiting" /\ restoredBy' = NULL
        /\ promise' = [at |-> time + d, skew |-> skew]
        /\ availableAt' = Millis(Plus(SystemNow, delay))
        /\ readyAt' = Plus(time, delay)
    BY <1>2 DEF Retry
  <2>2. delay \in Nat /\ d \in Nat /\ ClockMax \in Nat
    <3>1. attempts > 0
      BY <1>2 DEF Retry, JobInv
    <3> QED
      BY <3>1, InstantTypes, ClockAssumption
  <2>3. ASSUME promise'.at + promise'.skew <= ClockMax
        PROVE  /\ availableAt' = (promise'.at + promise'.skew) \div TicksPerMs
               /\ readyAt' = promise'.at
    <3>1. promise'.at = time + d /\ promise'.skew = skew
      BY <2>1
    <3>2. /\ time + d <= ClockMax /\ SystemNow + d <= ClockMax /\ SystemNow \in Nat
          /\ SystemNow + d = promise'.at + promise'.skew
          /\ SystemNow + d \in Nat
      <4> HIDE DEF d
      <4> QED
        BY <1>0, <2>2, <2>3, <3>1 DEF SystemNow
    <3>3. Plus(time, delay) = time + d /\ Plus(SystemNow, delay) = SystemNow + d
      <4> HIDE DEF delay
      <4> QED
        BY <1>0, <2>2, <3>2, PlusFits
    <3>4. Millis(SystemNow + d) = (SystemNow + d) \div TicksPerMs
      <4> HIDE DEF d
      <4> QED
        BY <3>2 DEF Millis
    <3> QED
      BY <2>1, <3>1, <3>2, <3>3, <3>4
  <2>4. promise'.at \in Nat
    <3> HIDE DEF d
    <3> QED
      BY <1>0, <2>1, <2>2
  <2> HIDE DEF d, delay
  <2> QED
    BY <2>1, <2>3, <2>4 DEF InstantInv, Release
<1>3. CASE GiveUp
  BY <1>3 DEF GiveUp, InstantInv, Pending
<1>4. CASE Due
  <2>1. Release' >= Release
    BY <1>0, <1>4 DEF Due, Release
  <2> QED
    BY <1>4, <2>1, InstantKept DEF Due, Pending, JobInv
<1>5. CASE Crash
  <2>1. Release' >= Release
    BY <1>0, <1>5 DEF Crash, Release
  <2> QED
    BY <1>5, <2>1, InstantKept DEF Crash, Pending
<1>6. CASE Launch
  <2>1. UNCHANGED <<backoff, time, skew, attempts>>
    BY <1>6 DEF Launch
  <2>2. CASE pc = "failed" \/ attempts >= MaxAttempts
    <3>1. pc' = "failed"
      BY <1>6, <2>2, LaunchCases
    <3> QED
      BY <3>1 DEF InstantInv, Pending
  <2>3. CASE pc = "active" /\ attempts < MaxAttempts
    <3>1. pc' = "ready" /\ promise' = NULL
      BY <1>6, <2>3, LaunchCases
    <3> QED
      BY <3>1 DEF InstantInv, Pending
  <2>4. CASE pc \in {"ready", "waiting"} /\ attempts < MaxAttempts
    <3> SUFFICES ASSUME Pending' PROVE InstantInv'
      BY DEF InstantInv
    <3>1. /\ IF availableAt = NULL THEN pc' = "ready" /\ UNCHANGED readyAt
             ELSE RestoreWaiting(Millis(Wrap(availableAt * TicksPerMs - SystemNow)))
          /\ restoredBy' = skew
          /\ UNCHANGED <<availableAt, promise, shortened>>
      BY <1>6, <2>4, LaunchCases
    <3>2. Pending
      BY <2>4, <3>1 DEF Pending
    <3>3. RestoreWaiting(Millis(Wrap(availableAt * TicksPerMs - SystemNow)))
      BY <3>1, <3>2 DEF JobInv
    <3>4. PromiseFits => Release' + (skew - promise.skew) + 2 * TicksPerMs > promise.at + 1
      BY <2>1, <3>2, <3>3, RestoredInstant
    <3>5. skew # NULL
      BY <1>0, ClockAssumption
    <3>6. PromiseFits' <=> PromiseFits
      BY <3>1 DEF PromiseFits
    <3> QED
      BY <3>1, <3>2, <3>4, <3>5, <3>6 DEF InstantInv
  <2> QED
    BY <1>0, <2>2, <2>3, <2>4 DEF ClockTypeOK
<1>7. CASE TimePasses
  <2>1. Release' >= Release
    BY <1>0, <1>7 DEF TimePasses, Release
  <2> QED
    BY <1>7, <2>1, InstantKept DEF TimePasses, Pending
<1>8. CASE SetClock
  <2>1. Release' >= Release
    BY <1>0, <1>8 DEF SetClock, Release
  <2> QED
    BY <1>8, <2>1, InstantKept DEF SetClock, Pending
<1>9. CASE UNCHANGED clockVars
  <2>1. Release' >= Release
    BY <1>0, <1>9 DEF clockVars, Release
  <2> QED
    BY <1>9, <2>1, InstantKept DEF clockVars, Pending
<1> QED
  BY <1>1, <1>2, <1>3, <1>4, <1>5, <1>6, <1>7, <1>8, <1>9 DEF ClockNext

-----------------------------------------------------------------------------
(* The theorems. *)

\* Every step keeps the invariant.
LEMMA ClockInvStep == ClockInv /\ [ClockNext]_clockVars => ClockInv'
PROOF
<1> SUFFICES ASSUME ClockInv, [ClockNext]_clockVars PROVE ClockInv'
  OBVIOUS
<1>1. ClockTypeOK' /\ JobInv'
  BY JobStep DEF ClockInv
<1>2. DelayInv'
  BY <1>1, DelayStep DEF ClockInv
<1>3. InstantInv'
  BY <1>1, InstantStep DEF ClockInv
<1> QED
  BY <1>1, <1>2, <1>3 DEF ClockInv

\* In any behaviour, whatever the width, the ticks of a millisecond, the clock
\* changes and the crashes: the state is typed, the delays of a job are within the
\* time it has been posted for, and what is stored of a promised retry is the
\* promise.
THEOREM ClocksAreConsistent == ClockSpec => []ClockInv
PROOF
<1>1. ClockInit => ClockInv
  BY ClockInvInit
<1>2. ClockInv /\ [ClockNext]_clockVars => ClockInv'
  BY ClockInvStep
<1> QED
  BY <1>1, <1>2, PTL DEF ClockSpec

\* The attempt under way gets the exponential backoff, cut off at the largest
\* delay, whatever backoff its row carries.
THEOREM BackoffIsExponential == ClockSpec => []ExponentialUpToMaximum
PROOF
<1>1. ClockInv => ExponentialUpToMaximum
  <2> SUFFICES ASSUME ClockInv, pc = "active", NEW milliseconds \in 0 .. ClockMax
               PROVE  Backoff!CalculateRetryDelay(milliseconds, attempts)
                        = Backoff!Exponential(milliseconds, attempts)
    BY DEF ExponentialUpToMaximum
  <2>1. attempts \in Nat \ {0}
    BY ClockAssumption DEF ClockInv, ClockTypeOK, JobInv
  <2> QED
    BY <2>1, DelayIsExponential
<1> QED
  BY <1>1, ClocksAreConsistent, PTL

\* now() + retryDelay overflows no sooner than LongestDelay: a job waits exactly
\* for its delay as long as that fits, and only crashes halve the room.
THEOREM ClocksOverflowByCrashes == ClockSpec => []OverflowTakesCrashes
PROOF
<1>1. ClockInv => OverflowTakesCrashes
  <2> SUFFICES ASSUME ClockInv, pc = "waiting", restoredBy = NULL,
                      LongestDelay <= ClockMax - (time + promise.skew)
               PROVE  /\ readyAt = promise.at
                      /\ availableAt = (promise.at + promise.skew) \div TicksPerMs
    BY DEF OverflowTakesCrashes, ClockInv
  <2> DEFINE p == 2 ^ shortened
             b == backoff * TicksPerMs
             t == promise.at - LastDelay
  <2>1. Pending /\ attempts > 0
    BY DEF ClockInv, JobInv, Pending
  <2>2. /\ promise.at \in Nat /\ promise.skew \in Nat /\ ClockMax \in Nat
        /\ time \in Nat /\ p \in Nat /\ p >= 1 /\ b \in Nat /\ LastDelay \in Nat
    BY <2>1, DelayNumbers, ClockAssumption DEF ClockInv, JobInv, Pending
  <2>3. t \in 0 .. time /\ LastDelay <= p * (t + b) /\ LongestDelay = p * (time + b)
    BY <2>1 DEF ClockInv, DelayInv, LongestDelay
  <2>4. /\ p * (t + b) \in Nat /\ p * (time + b) \in Nat
        /\ p * (t + b) <= p * (time + b)
    <3>1. t \in Nat /\ t <= time
      BY <2>2, <2>3
    <3> HIDE DEF p, b, t
    <3> QED
      BY <2>2, <3>1, RoomGrows
  <2>5. promise.at = t + LastDelay
    BY <2>2
  <2>6. promise.at + promise.skew <= ClockMax
    <3> HIDE DEF p, b, t
    <3> QED
      BY <2>2, <2>3, <2>4, <2>5
  <2> QED
    BY <2>1, <2>6 DEF ClockInv, InstantInv
<1> QED
  BY <1>1, ClocksAreConsistent, PTL

\* A retry starts early only through a restart, by no more than the system clock
\* was set forward since the promise, and less than two milliseconds of rounding.
THEOREM RetriesAreEarlyOnlyByClockChange == ClockSpec => EarlyOnlyByClockChange
PROOF
<1> DEFINE Early ==
      ( /\ attempts' = attempts + 1
        /\ promise # NULL
        /\ \A ahead \in Skews : promise.at + ahead <= ClockMax )
      => IF restoredBy = NULL THEN time >= promise.at
         ELSE time + (restoredBy - promise.skew) + 2 * TicksPerMs > promise.at + 1
<1>1. ClockInv /\ [ClockNext]_clockVars => [Early]_clockVars
  <2> SUFFICES ASSUME ClockInv, ClockNext, attempts' = attempts + 1, promise # NULL, PromiseFits
               PROVE  IF restoredBy = NULL THEN time >= promise.at
                      ELSE time + (restoredBy - promise.skew) + 2 * TicksPerMs
                             > promise.at + 1
    BY DEF PromiseFits
  <2>1. attempts \in Nat
    BY ClockAssumption DEF ClockInv, ClockTypeOK
  <2>2. AttemptStarts
    BY <2>1 DEF ClockNext, Retry, GiveUp, Due, Crash, Launch, TimePasses, SetClock
  <2>3. pc = "ready" /\ Pending /\ Release = time
    BY <2>2 DEF AttemptStarts, Pending, Release
  <2>4. promise.at + promise.skew <= ClockMax
    BY <2>3 DEF PromiseFits, ClockInv, JobInv, Pending
  <2> QED
    BY <2>3, <2>4 DEF ClockInv, InstantInv
<1>2. ClockSpec => [][Early]_clockVars
  <2> HIDE DEF Early
  <2> QED
    BY <1>1, ClocksAreConsistent, PTL DEF ClockSpec
<1> QED
  BY <1>2 DEF EarlyOnlyByClockChange
=============================================================================
