------------------------ MODULE DelayedJobScheduler ------------------------
(***************************************************************************)
(* The scheduler of jobs that become ready later                           *)
(* (src/src/delayed_job_scheduler.cpp): a priority queue ordered by        *)
(* readyAt behind mutex_, and one thread that moves due jobs to JobQueue.  *)
(*                                                                         *)
(* An instant is represented by the time that remains until it, 0 once it  *)
(* has come: readyIn stands for readyAt - Clock::now().  Elapsed is what   *)
(* one unit of time does to it.  Two instants that have both come are no   *)
(* longer told apart.                                                      *)
(***************************************************************************)
EXTENDS Naturals

CONSTANT Jobs   \* In-memory jobs.

VARIABLES
  delayedJobs,   \* delayedJobs_: the set of its entries.
  running        \* running_.

schedulerVars == <<delayedJobs, running>>

ScheduledJob == [readyIn : Nat, job : Jobs]

Elapsed(remaining) == IF remaining > 0 THEN remaining - 1 ELSE 0

ElapsedJobs == {[entry EXCEPT !.readyIn = Elapsed(@)] : entry \in delayedJobs}

\* delayedJobs_.top(): EarlierReady keeps the earliest instant on top.
IsEarliest(entry) ==
  /\ entry \in delayedJobs
  /\ \A other \in delayedJobs : entry.readyIn <= other.readyIn

-----------------------------------------------------------------------------
SchedulerInit ==
  /\ delayedJobs = {}
  /\ running = FALSE

\* The critical section of start(), when the scheduler is not running yet.
\* Jobs left over from an earlier stop() are kept.
StartScheduler ==
  /\ ~running
  /\ running' = TRUE
  /\ UNCHANGED delayedJobs

\* The critical section of schedule(); it throws when the scheduler is not
\* running.
AcceptsSchedule == running

ScheduleAt(job, readyIn) ==
  /\ AcceptsSchedule
  /\ delayedJobs' = delayedJobs \cup {[readyIn |-> readyIn, job |-> job]}
  /\ UNCHANGED running

\* run() takes the earliest job out when its instant has come; it then
\* releases the mutex and pushes the job.
TakeDue(entry) ==
  /\ running
  /\ IsEarliest(entry)
  /\ entry.readyIn = 0
  /\ delayedJobs' = delayedJobs \ {entry}
  /\ UNCHANGED running

\* The critical section of stop(), when the scheduler is running.
StopScheduler ==
  /\ running
  /\ running' = FALSE
  /\ UNCHANGED delayedJobs

SchedulerTypeOK ==
  /\ delayedJobs \subseteq ScheduledJob
  /\ running \in BOOLEAN
=============================================================================
