--------------------- MODULE DelayedJobSchedulerThreads ---------------------
(***************************************************************************)
(* The scheduler with its threads: callers of schedule(), the thread that  *)
(* executes run(), and the owner that calls start() and stop()             *)
(* (src/src/delayed_job_scheduler.cpp).                                    *)
(*                                                                         *)
(* The thread sleeps on cv_ without a limit while there is no job, and     *)
(* until readyAt of the earliest job otherwise.  schedule() and stop()     *)
(* notify after they have released mutex_.                                 *)
(***************************************************************************)
EXTENDS DelayedJobScheduler, FiniteSets

CONSTANTS
  Callers,     \* Threads that schedule jobs.
  MaxDelay,    \* Bound: the longest delay.
  MaxStarts    \* Bound: how often the owner starts the scheduler.

ASSUME ThreadsAssumption ==
  /\ IsFiniteSet(Callers)
  /\ Jobs # {}
  /\ MaxDelay \in Nat
  /\ MaxStarts \in Nat

VARIABLES
  caller,      \* Callers -> [pc, job, readyIn]
  runner,      \* [pc, job, until]: the scheduler thread.
  owner,       \* "stopped" | "started" | "notify" | "join"
  starts,      \* How often the owner has called start().
  requested,   \* The jobs schedule() was called with (history).
  pushed       \* The jobs pushed to JobQueue (history).

vars == <<delayedJobs, running, caller, runner, owner, starts, requested,
          pushed>>

AnyJob == CHOOSE job \in Jobs : TRUE

ThreadsInit ==
  /\ SchedulerInit
  /\ caller = [c \in Callers |-> [pc |-> "ready", job |-> AnyJob, readyIn |-> 0]]
  /\ runner = [pc |-> "none", job |-> AnyJob, until |-> 0]
  /\ owner = "stopped"
  /\ starts = 0
  /\ requested = {}
  /\ pushed = {}

Notifying == owner = "notify" \/ \E c \in Callers : caller[c].pc = "notify"

Asleep == runner.pc \in {"asleep", "timed"}

-----------------------------------------------------------------------------
(* Callers of schedule(); each job is scheduled once. *)

\* readyAt is computed before the mutex is taken.
CallSchedule(c, job, delay) ==
  /\ caller[c].pc = "ready"
  /\ job \notin requested
  /\ requested' = requested \cup {job}
  /\ caller' = [caller EXCEPT ![c] =
                  [pc |-> "lock", job |-> job, readyIn |-> delay]]
  /\ UNCHANGED <<schedulerVars, runner, owner, starts, pushed>>

\* Mutant: a notification only when there was no job.
ScheduleNotifiesIfEmpty(c) ==
  /\ caller[c].pc = "lock"
  /\ ScheduleAt(caller[c].job, caller[c].readyIn)
  /\ caller' = [caller EXCEPT ![c].pc = IF delayedJobs = {} THEN "notify"
                                        ELSE "ready"]
  /\ UNCHANGED <<runner, owner, starts, requested, pushed>>

ScheduleLocked(c) ==
  /\ caller[c].pc = "lock"
  /\ ScheduleAt(caller[c].job, caller[c].readyIn)
  /\ caller' = [caller EXCEPT ![c].pc = "notify"]
  /\ UNCHANGED <<runner, owner, starts, requested, pushed>>

\* "Cannot schedule job on stopped scheduler"
ScheduleThrows(c) ==
  /\ caller[c].pc = "lock"
  /\ ~AcceptsSchedule
  /\ caller' = [caller EXCEPT ![c].pc = "ready"]
  /\ UNCHANGED <<schedulerVars, runner, owner, starts, requested, pushed>>

\* cv_.notify_one(): only the scheduler thread waits on cv_.
NotifyOne(c) ==
  /\ caller[c].pc = "notify"
  /\ caller' = [caller EXCEPT ![c].pc = "ready"]
  /\ runner' = IF Asleep THEN [runner EXCEPT !.pc = "check"] ELSE runner
  /\ UNCHANGED <<schedulerVars, owner, starts, requested, pushed>>

-----------------------------------------------------------------------------
(* run() *)

RunEnds ==
  /\ runner.pc = "check"
  /\ ~running
  /\ runner' = [runner EXCEPT !.pc = "returned"]
  /\ UNCHANGED <<schedulerVars, caller, owner, starts, requested, pushed>>

\* No job at all: cv_.wait.
RunWaits ==
  /\ runner.pc = "check"
  /\ running
  /\ delayedJobs = {}
  /\ runner' = [runner EXCEPT !.pc = "asleep"]
  /\ UNCHANGED <<schedulerVars, caller, owner, starts, requested, pushed>>

\* Mutant: cv_.wait for cv_.wait_until.
RunWaitsForever ==
  /\ runner.pc = "check"
  /\ running
  /\ \E entry \in delayedJobs :
       /\ IsEarliest(entry)
       /\ entry.readyIn > 0
       /\ runner' = [runner EXCEPT !.pc = "asleep"]
  /\ UNCHANGED <<schedulerVars, caller, owner, starts, requested, pushed>>

\* The earliest job is not due: cv_.wait_until its readyAt.
RunWaitsUntil ==
  /\ runner.pc = "check"
  /\ running
  /\ \E entry \in delayedJobs :
       /\ IsEarliest(entry)
       /\ entry.readyIn > 0
       /\ runner' = [runner EXCEPT !.pc = "timed", !.until = entry.readyIn]
  /\ UNCHANGED <<schedulerVars, caller, owner, starts, requested, pushed>>

\* wait_until ends because the time has come.
RunTimesOut ==
  /\ runner.pc = "timed"
  /\ runner.until = 0
  /\ runner' = [runner EXCEPT !.pc = "check"]
  /\ UNCHANGED <<schedulerVars, caller, owner, starts, requested, pushed>>

\* The standard allows either wait to end for no reason.
SpuriousWake ==
  /\ Asleep
  /\ runner' = [runner EXCEPT !.pc = "check"]
  /\ UNCHANGED <<schedulerVars, caller, owner, starts, requested, pushed>>

RunTakes ==
  /\ runner.pc = "check"
  /\ \E entry \in delayedJobs :
       /\ TakeDue(entry)
       /\ runner' = [runner EXCEPT !.pc = "push", !.job = entry.job]
  /\ UNCHANGED <<caller, owner, starts, requested, pushed>>

\* queue_.push, outside the mutex.
RunPushes ==
  /\ runner.pc = "push"
  /\ runner' = [runner EXCEPT !.pc = "check"]
  /\ pushed' = pushed \cup {runner.job}
  /\ UNCHANGED <<schedulerVars, caller, owner, starts, requested>>

-----------------------------------------------------------------------------
(* The owner. *)

Start ==
  /\ owner = "stopped"
  /\ starts < MaxStarts
  /\ starts' = starts + 1
  /\ StartScheduler
  /\ owner' = "started"
  /\ runner' = [runner EXCEPT !.pc = "check"]
  /\ UNCHANGED <<caller, requested, pushed>>

StopLocked ==
  /\ owner = "started"
  /\ StopScheduler
  /\ owner' = "notify"
  /\ UNCHANGED <<caller, runner, starts, requested, pushed>>

\* Mutant: stop() does not notify.
StopNotifiesNobody ==
  /\ owner = "notify"
  /\ owner' = "join"
  /\ UNCHANGED <<schedulerVars, caller, runner, starts, requested, pushed>>

StopNotifies ==
  /\ owner = "notify"
  /\ owner' = "join"
  /\ runner' = IF Asleep THEN [runner EXCEPT !.pc = "check"] ELSE runner
  /\ UNCHANGED <<schedulerVars, caller, starts, requested, pushed>>

StopJoins ==
  /\ owner = "join"
  /\ runner.pc = "returned"
  /\ owner' = "stopped"
  /\ UNCHANGED <<schedulerVars, caller, runner, starts, requested, pushed>>

-----------------------------------------------------------------------------
\* One unit of time passes for every instant that is still to come.
Tick ==
  /\ \/ runner.until > 0
     \/ \E entry \in delayedJobs : entry.readyIn > 0
     \/ \E c \in Callers : caller[c].readyIn > 0
  /\ delayedJobs' = ElapsedJobs
  /\ runner' = [runner EXCEPT !.until = Elapsed(@)]
  /\ caller' = [c \in Callers |-> [caller[c] EXCEPT !.readyIn = Elapsed(@)]]
  /\ UNCHANGED <<running, owner, starts, requested, pushed>>

RunStep == RunEnds \/ RunWaits \/ RunWaitsUntil \/ RunTimesOut \/ RunTakes
           \/ RunPushes

CallerStep(c) == ScheduleLocked(c) \/ ScheduleThrows(c) \/ NotifyOne(c)

StopStep == StopNotifies \/ StopJoins

AllDone ==
  /\ owner = "stopped"
  /\ \A c \in Callers : caller[c].pc = "ready"
  /\ UNCHANGED vars

ThreadsNext ==
  \/ \E c \in Callers :
       \/ \E job \in Jobs, delay \in 0 .. MaxDelay : CallSchedule(c, job, delay)
       \/ CallerStep(c)
  \/ RunStep
  \/ SpuriousWake
  \/ Start
  \/ StopLocked
  \/ StopStep
  \/ Tick
  \/ AllDone

\* Threads inside a call go on, and time passes.  Nobody has to call start(),
\* stop() or schedule(), and nothing depends on a spurious wake-up.
ThreadsFairness ==
  /\ \A c \in Callers : WF_vars(CallerStep(c))
  /\ WF_vars(RunStep)
  /\ WF_vars(StopStep)
  /\ WF_vars(Tick)

ThreadsSpec == ThreadsInit /\ [][ThreadsNext]_vars /\ ThreadsFairness

-----------------------------------------------------------------------------
(* Properties. *)

ThreadsTypeOK ==
  /\ SchedulerTypeOK
  /\ caller \in [Callers -> [pc : {"ready", "lock", "notify"}, job : Jobs,
                             readyIn : Nat]]
  /\ runner \in [pc : {"none", "check", "asleep", "timed", "push", "returned"},
                 job : Jobs, until : Nat]
  /\ owner \in {"stopped", "started", "notify", "join"}
  /\ starts \in 0 .. MaxStarts
  /\ requested \subseteq Jobs
  /\ pushed \subseteq requested

\* The thread never oversleeps.  Unless a notification is on its way, it sleeps
\* without a limit only while no job is delayed, and with a limit only until
\* the earliest job is due -- also when an earlier job was scheduled after it
\* fell asleep -- and it does not sleep at all on a stopped scheduler.
NeverOversleeps ==
  Asleep /\ ~Notifying =>
    /\ running
    /\ runner.pc = "asleep" => delayedJobs = {}
    /\ runner.pc = "timed" =>
         \A entry \in delayedJobs : runner.until <= entry.readyIn

\* While the scheduler runs, a job that is due is pushed to JobQueue.
DueJobsArePushed ==
  \A job \in Jobs :
    (\E entry \in delayedJobs : entry.job = job /\ entry.readyIn = 0)
      ~> (job \in pushed \/ ~running)

\* stop() returns, and only when the thread has ended.
StopReturns == owner = "notify" ~> owner = "stopped" /\ runner.pc = "returned"
=============================================================================
