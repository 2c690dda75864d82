-------------------------- MODULE JobEngineProofs ---------------------------
(***************************************************************************)
(* Proofs about the whole engine, for any number of request threads, pool  *)
(* threads, jobs, launches and failing statements, any pool size and any   *)
(* function that computes retry delays within bounds.                      *)
(*                                                                         *)
(* The first part proves its types and that its parts are switched on and  *)
(* off in order.  The second proves that it never has a job in two places, *)
(* starts only jobs that can be started and never early, keeps the row of a *)
(* running job active, and never changes a recorded end; that its failure  *)
(* reasons are true, that it forgets no unfinished job and leaves no row   *)
(* active when it stops, but for one job by each statement that failed.    *)
(* The third part proves that it implements the lifecycle of its jobs.     *)
(*                                                                         *)
(* The inductive invariant of the second part says where an id can be, At, *)
(* and what the table says about it there, Fits.  A step moves at most one *)
(* id from one place to another, and changes at most that id's row: lemma  *)
(* Moves.  The other direction, that an unfinished row has its id at some  *)
(* place, is AllKept.                                                      *)
(***************************************************************************)
EXTENDS JobEngine, FiniteSetTheorems, TLAPS

-----------------------------------------------------------------------------
(* A part of the state that a step leaves alone keeps its type. *)

\* A step that leaves the variables of a part alone keeps the part's type.
\* First the job table.
LEMMA StoreSame ==
  ASSUME StoreTypeOK, UNCHANGED tableVars PROVE StoreTypeOK'
BY DEF StoreTypeOK, tableVars

\* The same for the job queue.
LEMMA QueueSame ==
  ASSUME QueueTypeOK, UNCHANGED jobQueueVars PROVE QueueTypeOK'
BY DEF QueueTypeOK, jobQueueVars

\* The same for the task queue of the pool.
LEMMA PoolSame ==
  ASSUME PoolTypeOK, UNCHANGED taskVars PROVE PoolTypeOK'
BY DEF PoolTypeOK, taskVars

\* The same for the delayed jobs.
LEMMA SchedulerSame ==
  ASSUME SchedulerTypeOK, UNCHANGED delayVars PROVE SchedulerTypeOK'
BY DEF SchedulerTypeOK, delayVars

\* The same for main and the counters.
LEMMA MainSame ==
  ASSUME MainTypeOK, UNCHANGED mainVars, UNCHANGED boundVars
  PROVE  MainTypeOK'
BY DEF MainTypeOK, mainVars, boundVars

\* The same for restoreUnfinished.
LEMMA RestoreSame ==
  ASSUME RestoreTypeOK, UNCHANGED restoreVars PROVE RestoreTypeOK'
BY DEF RestoreTypeOK, restoreVars

\* The same for the request threads.
LEMMA RequestSame ==
  ASSUME RequestTypeOK, UNCHANGED request PROVE RequestTypeOK'
BY DEF RequestTypeOK

\* The same for the dispatcher and the scheduler thread.
LEMMA DispatcherSame ==
  ASSUME DispatcherTypeOK, UNCHANGED <<workerRunning, dispatcher, schedulerHand>>
  PROVE  DispatcherTypeOK'
BY DEF DispatcherTypeOK

\* The same for the pool threads.
LEMMA WorkerSame ==
  ASSUME WorkerTypeOK, UNCHANGED worker PROVE WorkerTypeOK'
BY DEF WorkerTypeOK

\* A failing statement is counted within its bound.
LEMMA FaultCounted ==
  ASSUME MainTypeOK, StatementFails PROVE faults' \in 0 .. MaxFaults
PROOF
<1>1. faults \in 0 .. MaxFaults
  BY DEF MainTypeOK
<1>2. MaxFaults \in Nat
  BY BoundsAssumption
<1>3. faults < MaxFaults /\ faults' = faults + 1
  BY DEF StatementFails
<1> QED
  BY <1>1, <1>2, <1>3

\* A failing statement keeps the type of main.
LEMMA MainFault ==
  ASSUME MainTypeOK, StatementFails, UNCHANGED mainVars PROVE MainTypeOK'
PROOF
<1>1. faults' \in 0 .. MaxFaults
  BY FaultCounted
<1>2. launches' = launches /\ mainPc' = mainPc /\ stopRequested' = stopRequested
  BY DEF StatementFails, mainVars
<1> QED
  BY <1>1, <1>2 DEF MainTypeOK

-----------------------------------------------------------------------------
(* The steps of the components keep their types. *)

\* An UPDATE that sets columns of the right types keeps the table well typed.
LEMMA UpdateType ==
  ASSUME StoreTypeOK, NEW id \in DOMAIN rows,
         NEW status \in Statuses, NEW attempts \in Nat,
         NEW reason \in FailureReasons \cup {NULL},
         NEW result \in {"result", NULL}, NEW at \in Nat \cup {NULL},
         UpdateRow(id, status, attempts, reason, result, at)
  PROVE  StoreTypeOK'
BY DEF StoreTypeOK, UpdateRow, Row

\* So does an INSERT.
LEMMA SaveType ==
  ASSUME StoreTypeOK, NEW job \in Job, NEW at \in Nat \cup {NULL},
         Save(job, at)
  PROVE  StoreTypeOK'
PROOF
<1>1. job.id \in JobIds /\ job.spec \in Specs
  BY DEF Job
<1>2. DOMAIN rows' = DOMAIN rows \cup {job.id}
  BY DEF Save
<1>3. ASSUME NEW i \in DOMAIN rows' PROVE rows'[i] \in Row
  BY <1>1, <1>2 DEF Save, StoreTypeOK, Row, Statuses
<1>4. rows' = [i \in DOMAIN rows' |-> rows'[i]]
  BY DEF Save
<1> QED
  BY <1>1, <1>2, <1>3, <1>4 DEF Save, StoreTypeOK

\* markCompleted and markFailed keep the type of the table.
LEMMA OutcomeType ==
  ASSUME StoreTypeOK, NEW id, NEW reason \in FailureReasons,
         MarkCompleted(id, "result") \/ MarkFailed(id, reason)
  PROVE  StoreTypeOK'
PROOF
<1>1. id \in DOMAIN rows /\ rows[id].attemptsMade \in Nat
  BY DEF MarkCompleted, MarkFailed, AcceptsOutcome, StoreTypeOK, Row
<1> QED
  BY <1>1, UpdateType DEF MarkCompleted, MarkFailed, Statuses

\* So does markWaiting.
LEMMA WaitingType ==
  ASSUME StoreTypeOK, NEW id, NEW at \in Nat \cup {NULL}, MarkWaiting(id, at)
  PROVE  StoreTypeOK'
PROOF
<1>1. id \in DOMAIN rows /\ rows[id].attemptsMade \in Nat
  BY DEF MarkWaiting, AcceptsWaiting, StoreTypeOK, Row
<1> QED
  BY <1>1, UpdateType DEF MarkWaiting, Statuses

\* So does startAttempt.
LEMMA StartType ==
  ASSUME StoreTypeOK, NEW id, StartAttempt(id)
  PROVE  /\ StoreTypeOK' /\ id \in DOMAIN rows
         /\ rows'[id].attemptsMade \in Nat
PROOF
<1>1. id \in DOMAIN rows /\ rows[id].attemptsMade + 1 \in Nat
  BY DEF StartAttempt, AcceptsStart, StoreTypeOK, Row
<1>2. StoreTypeOK'
  BY <1>1, UpdateType DEF StartAttempt, Statuses
<1>3. rows'[id].attemptsMade \in Nat
  BY <1>1 DEF StartAttempt, UpdateRow
<1> QED
  BY <1>1, <1>2, <1>3

\* A push keeps the type of the job queue.
LEMMA PushType ==
  ASSUME QueueTypeOK, NEW job \in Job, Push(job) PROVE QueueTypeOK'
BY DEF QueueTypeOK, Push, QueuedJob

\* Handing a job on keeps the types of the queue and of the scheduler.
LEMMA RouteType ==
  ASSUME QueueTypeOK, SchedulerTypeOK, NEW job \in Job, NEW delay \in Nat,
         Route(job, delay)
  PROVE  QueueTypeOK' /\ SchedulerTypeOK'
PROOF
<1>1. CASE delay > 0
  BY <1>1, QueueSame DEF Route, ScheduleAt, SchedulerTypeOK, ScheduledJob
<1>2. CASE ~(delay > 0)
  BY <1>2, PushType, SchedulerSame DEF Route
<1> QED
  BY <1>1, <1>2

\* A process that has just started, or just died, has a well-typed memory.
LEMMA FreshMemoryType ==
  ASSUME FreshMemory
  PROVE  /\ QueueTypeOK' /\ PoolTypeOK' /\ SchedulerTypeOK' /\ RestoreTypeOK'
         /\ RequestTypeOK' /\ DispatcherTypeOK' /\ WorkerTypeOK'
         /\ stopRequested' \in BOOLEAN
PROOF
<1>1. QueueTypeOK' /\ PoolTypeOK' /\ SchedulerTypeOK' /\ RestoreTypeOK'
  BY DEF FreshMemory, QueueTypeOK, PoolTypeOK, SchedulerTypeOK, RestoreTypeOK
<1>2. RequestTypeOK' /\ DispatcherTypeOK'
  BY DEF FreshMemory, RequestTypeOK, DispatcherTypeOK, IdleRequest
<1>3. WorkerTypeOK'
  BY DEF FreshMemory, WorkerTypeOK, IdleWorker, Progress
<1> QED
  BY <1>1, <1>2, <1>3 DEF FreshMemory

-----------------------------------------------------------------------------
(* The steps of the threads keep the types. *)

\* The steps of a request thread, POST /jobs through JobService::add.
LEMMA RequestThreadType ==
  ASSUME EngineTypeOK, NEW h \in RequestThreads, NEW spec \in Specs,
         GenerateId(h, spec) \/ RequestThread(h)
  PROVE  EngineTypeOK'
PROOF
<1> USE DEF EngineTypeOK
<1>1. CASE GenerateId(h, spec)
  <2>1. nextValue \in JobIds /\ StoreTypeOK'
    BY <1>1, BoundsAssumption DEF GenerateId, GenerateJobId, StoreTypeOK, JobIds
  <2>2. AvailableAt(spec.delay) \in Nat \cup {NULL}
    BY SpecsAssumption, BoundsAssumption DEF AvailableAt
  <2>3. RequestTypeOK'
    BY <1>1, <2>1, <2>2 DEF GenerateId, RequestTypeOK, Job
  <2> QED
    BY <1>1, <2>1, <2>3, QueueSame, PoolSame, SchedulerSame, MainSame,
       RestoreSame, DispatcherSame, WorkerSame
    DEF GenerateId
<1>2. CASE SaveJob(h)
  <2>1. request[h].job \in Job /\ request[h].availableAt \in Nat \cup {NULL}
    BY <1>2 DEF SaveJob, RequestTypeOK
  <2>2. StoreTypeOK' /\ MainTypeOK'
    BY <1>2, <2>1, SaveType, StoreSame, MainSame, MainFault
    DEF SaveJob, StatementFails
  <2>3. RequestTypeOK'
    BY <1>2, <2>1 DEF SaveJob, RequestTypeOK, IdleRequest
  <2> QED
    BY <1>2, <2>2, <2>3, QueueSame, PoolSame, SchedulerSame, RestoreSame,
       DispatcherSame, WorkerSame
    DEF SaveJob
<1>3. CASE RouteJob(h)
  <2>1. request[h].job \in Job /\ request[h].job.spec.delay \in Nat
    BY <1>3, SpecsAssumption DEF RouteJob, RequestTypeOK, Job
  <2>2. QueueTypeOK' /\ SchedulerTypeOK'
    BY <1>3, <2>1, RouteType DEF RouteJob
  <2>3. RequestTypeOK'
    BY <1>3 DEF RouteJob, RequestTypeOK, IdleRequest
  <2> QED
    BY <1>3, <2>2, <2>3, StoreSame, PoolSame, MainSame, RestoreSame,
       DispatcherSame, WorkerSame
    DEF RouteJob
<1> QED
  BY <1>1, <1>2, <1>3 DEF RequestThread

\* The steps of the dispatcher thread.
LEMMA DispatcherType ==
  ASSUME EngineTypeOK, Dispatcher PROVE EngineTypeOK'
PROOF
<1> USE DEF EngineTypeOK
<1>1. CASE DispatcherLoop
  <2>1. DispatcherTypeOK'
    BY <1>1 DEF DispatcherLoop, DispatcherTypeOK
  <2> QED
    BY <1>1, <2>1, StoreSame, QueueSame, PoolSame, SchedulerSame, MainSame,
       RestoreSame, RequestSame, WorkerSame
    DEF DispatcherLoop
<1>2. CASE DispatcherPop
  <2>1. QueueTypeOK' /\ DispatcherTypeOK'
    BY <1>2 DEF DispatcherPop, PopJob, PopNothing, QueueTypeOK, QueuedJob,
                queueVars, DispatcherTypeOK
  <2> QED
    BY <1>2, <2>1, StoreSame, PoolSame, SchedulerSame, MainSame, RestoreSame,
       RequestSame, WorkerSame
    DEF DispatcherPop
<1>3. CASE DispatcherEnqueue
  <2>1. dispatcher.job \in Job /\ dispatcher.job.spec.priority \in Nat
    BY <1>3, SpecsAssumption DEF DispatcherEnqueue, DispatcherTypeOK, Job
  <2>2. PoolTypeOK' /\ DispatcherTypeOK'
    BY <1>3, <2>1 DEF DispatcherEnqueue, Enqueue, PoolTypeOK, PrioritizedTask,
                      DispatcherTypeOK
  <2> QED
    BY <1>3, <2>2, StoreSame, QueueSame, SchedulerSame, MainSame, RestoreSame,
       RequestSame, WorkerSame
    DEF DispatcherEnqueue
<1> QED
  BY <1>1, <1>2, <1>3 DEF Dispatcher

\* The steps of the scheduler thread.
LEMMA SchedulerThreadType ==
  ASSUME EngineTypeOK, SchedulerThread PROVE EngineTypeOK'
PROOF
<1> USE DEF EngineTypeOK
<1>1. CASE SchedulerTakes
  <2>1. SchedulerTypeOK' /\ DispatcherTypeOK'
    BY <1>1 DEF SchedulerTakes, TakeDue, SchedulerTypeOK, ScheduledJob,
                DispatcherTypeOK
  <2> QED
    BY <1>1, <2>1, StoreSame, QueueSame, PoolSame, MainSame, RestoreSame,
       RequestSame, WorkerSame
    DEF SchedulerTakes
<1>2. CASE SchedulerPushes
  <2>1. QueueTypeOK' /\ DispatcherTypeOK'
    BY <1>2, PushType DEF SchedulerPushes, DispatcherTypeOK
  <2> QED
    BY <1>2, <2>1, StoreSame, PoolSame, SchedulerSame, MainSame, RestoreSame,
       RequestSame, WorkerSame
    DEF SchedulerPushes
<1> QED
  BY <1>1, <1>2 DEF SchedulerThread

\* The delay of a task that retries is within bounds.
LEMMA RetryDelayType ==
  ASSUME NEW spec \in Specs, NEW attempts \in Nat, attempts < spec.maxAttempts
  PROVE  RetryDelay(spec.retryBackoff, attempts) \in Nat
BY SpecsAssumption, BoundsAssumption

\* A pool thread that goes on with its task keeps the type.
LEMMA ProgressType ==
  ASSUME WorkerTypeOK, NEW w \in PoolThreads,
         NEW pc \in {"starting", "processing", "completing", "failing",
                    "retrying", "rerouting"},
         NEW job \in Job, NEW attempts \in Nat,
         NEW at \in Nat \cup {NULL}, NEW reason \in FailureReasons \cup {NULL},
         pc = "failing" => reason \in FailureReasons,
         pc \in {"retrying", "rerouting"} => attempts < job.spec.maxAttempts,
         worker' = [worker EXCEPT ![w] = Progress(pc, job, attempts, at, reason)]
  PROVE  WorkerTypeOK'
BY DEF WorkerTypeOK, Progress

\* Entering a catch clause keeps the type of the pool threads.
LEMMA CatchesType ==
  ASSUME WorkerTypeOK, NEW w \in PoolThreads, worker[w].pc # "idle",
         NEW reason \in FailureReasons, Catches(w, reason)
  PROVE  WorkerTypeOK'
PROOF
<1>1. worker[w].job \in Job /\ worker[w].attemptsMade \in Nat
  BY DEF WorkerTypeOK
<1> QED
  BY <1>1, ProgressType DEF Catches

\* The steps of a pool thread that runs a task.
LEMMA PoolThreadType ==
  ASSUME EngineTypeOK, NEW w \in PoolThreads, PoolThread(w)
  PROVE  EngineTypeOK'
PROOF
<1> USE DEF EngineTypeOK
<1>1. CASE TakeTask(w)
  <2>1. PoolTypeOK' /\ WorkerTypeOK'
    <3>1. PICK task \in tasks :
            /\ Take(task)
            /\ worker' = [worker EXCEPT ![w] =
                            Progress("starting", task.function, 0, NULL, NULL)]
      BY <1>1 DEF TakeTask
    <3>2. task.function \in Job /\ PoolTypeOK'
      BY <3>1 DEF Take, PoolTypeOK, PrioritizedTask
    <3>3. WorkerTypeOK'
      BY <3>1, <3>2 DEF WorkerTypeOK, IdleWorker, Progress
    <3> QED
      BY <3>2, <3>3
  <2> QED
    BY <1>1, <2>1, StoreSame, QueueSame, SchedulerSame, MainSame, RestoreSame,
       RequestSame, DispatcherSame
    DEF TakeTask
<1>2. CASE StartJob(w)
  <2>1. StoreTypeOK' /\ MainTypeOK'
    BY <1>2, StartType, StoreSame, MainSame, MainFault DEF StartJob, StatementFails
  <2>2. WorkerTypeOK'
    <3>1. worker[w].pc = "starting" /\ worker[w].job \in Job
      BY <1>2 DEF StartJob, WorkerTypeOK
    <3>2. CASE /\ StartAttempt(worker[w].job.id)
               /\ worker' = [worker EXCEPT ![w] =
                    Progress("processing", worker[w].job,
                             rows'[worker[w].job.id].attemptsMade, NULL, NULL)]
      <4>1. rows'[worker[w].job.id].attemptsMade \in Nat
        BY <3>2, StartType
      <4> QED
        BY <3>1, <3>2, <4>1, ProgressType
    <3>3. CASE Catches(w, "not started")
      BY <3>1, <3>3, CatchesType DEF FailureReasons
    <3> QED
      BY <1>2, <3>2, <3>3 DEF StartJob
  <2> QED
    BY <1>2, <2>1, <2>2, QueueSame, PoolSame, SchedulerSame, RestoreSame,
       RequestSame, DispatcherSame
    DEF StartJob
<1>3. CASE Process(w)
  <2>1. worker[w].job \in Job /\ worker[w].attemptsMade \in Nat
    BY <1>3 DEF Process, WorkerTypeOK
  <2>2. worker[w].attemptsMade < worker[w].job.spec.maxAttempts =>
          AvailableAt(TaskRetryDelay(w)) \in Nat \cup {NULL}
    BY <2>1, RetryDelayType DEF AvailableAt, TaskRetryDelay, Job
  <2>3. WorkerTypeOK'
    <3>1. CASE worker' = [worker EXCEPT ![w].pc = "completing"]
      BY <2>1, <3>1 DEF WorkerTypeOK
    <3>2. CASE /\ worker[w].attemptsMade < worker[w].job.spec.maxAttempts
               /\ worker' = [worker EXCEPT ![w] =
                    Progress("retrying", worker[w].job, worker[w].attemptsMade,
                             AvailableAt(TaskRetryDelay(w)), NULL)]
      BY <2>1, <2>2, <3>2, ProgressType
    <3>3. CASE Catches(w, "exhausted") \/ Catches(w, "permanent")
      BY <1>3, <3>3, CatchesType DEF FailureReasons, Process
    <3> QED
      BY <1>3, <3>1, <3>2, <3>3 DEF Process, HasAttemptsRemaining
  <2> QED
    BY <1>3, <2>3, StoreSame, QueueSame, PoolSame, SchedulerSame, MainSame,
       RestoreSame, RequestSame, DispatcherSame
    DEF Process
<1>4. CASE Complete(w)
  <2>1. StoreTypeOK' /\ MainTypeOK'
    BY <1>4, OutcomeType, StoreSame, MainSame, MainFault
    DEF Complete, StatementFails, FailureReasons
  <2>2. WorkerTypeOK'
    <3>1. CASE worker' = [worker EXCEPT ![w] = IdleWorker]
      BY <3>1 DEF WorkerTypeOK, IdleWorker, Progress
    <3>2. CASE Catches(w, "not completed")
      BY <1>4, <3>2, CatchesType DEF Complete, FailureReasons
    <3> QED
      BY <1>4, <3>1, <3>2 DEF Complete
  <2> QED
    BY <1>4, <2>1, <2>2, QueueSame, PoolSame, SchedulerSame, RestoreSame,
       RequestSame, DispatcherSame
    DEF Complete
<1>5. CASE Fail(w)
  <2>1. worker[w].reason \in FailureReasons
    BY <1>5 DEF Fail, WorkerTypeOK
  <2>2. StoreTypeOK' /\ MainTypeOK'
    BY <1>5, <2>1, OutcomeType, StoreSame, MainSame, MainFault
    DEF Fail, StatementFails
  <2>3. WorkerTypeOK'
    BY <1>5 DEF Fail, WorkerTypeOK, IdleWorker, Progress
  <2> QED
    BY <1>5, <2>2, <2>3, QueueSame, PoolSame, SchedulerSame, RestoreSame,
       RequestSame, DispatcherSame
    DEF Fail
<1>6. CASE Retry(w)
  <2>1. worker[w].availableAt \in Nat \cup {NULL}
    BY DEF WorkerTypeOK
  <2>2. StoreTypeOK' /\ MainTypeOK'
    BY <1>6, <2>1, WaitingType, StoreSame, MainSame, MainFault
    DEF Retry, StatementFails
  <2>3. WorkerTypeOK'
    BY <1>6 DEF Retry, WorkerTypeOK, IdleWorker, Progress
  <2> QED
    BY <1>6, <2>2, <2>3, QueueSame, PoolSame, SchedulerSame, RestoreSame,
       RequestSame, DispatcherSame
    DEF Retry
<1>7. CASE Reroute(w)
  <2>1. worker[w].job \in Job /\ TaskRetryDelay(w) \in Nat
    BY <1>7, RetryDelayType DEF Reroute, WorkerTypeOK, TaskRetryDelay, Job
  <2>2. QueueTypeOK' /\ SchedulerTypeOK'
    BY <1>7, <2>1, RouteType DEF Reroute
  <2>3. WorkerTypeOK'
    BY <1>7 DEF Reroute, WorkerTypeOK, IdleWorker, Progress
  <2> QED
    BY <1>7, <2>2, <2>3, StoreSame, PoolSame, MainSame, RestoreSame,
       RequestSame, DispatcherSame
    DEF Reroute
<1> QED
  BY <1>1, <1>2, <1>3, <1>4, <1>5, <1>6, <1>7 DEF PoolThread

-----------------------------------------------------------------------------
(* The steps of main, crashes and time keep the types. *)

\* The death of the process leaves a well-typed state.
LEMMA DiesType ==
  ASSUME EngineTypeOK, StatementFails, Dies PROVE EngineTypeOK'
PROOF
<1>1. StoreTypeOK'
  BY StoreSame DEF EngineTypeOK, StatementFails
<1>2. faults' \in 0 .. MaxFaults /\ launches' \in 0 .. MaxLaunches
  BY FaultCounted DEF EngineTypeOK, MainTypeOK, StatementFails
<1>3. MainTypeOK'
  BY <1>2, FreshMemoryType DEF Dies, MainTypeOK
<1> QED
  BY <1>1, <1>3, FreshMemoryType DEF EngineTypeOK, Dies

\* The steps by which a process begins and ends, and the request to stop it.
LEMMA ProcessType ==
  ASSUME EngineTypeOK, Launch \/ Crash \/ RequestStop
  PROVE  EngineTypeOK'
PROOF
<1> USE DEF EngineTypeOK
<1>1. CASE Launch
  <2>1. launches \in 0 .. MaxLaunches /\ faults \in 0 .. MaxFaults
    BY DEF MainTypeOK
  <2>2. MaxLaunches \in Nat
    BY BoundsAssumption
  <2>3. launches' \in 0 .. MaxLaunches /\ faults' \in 0 .. MaxFaults
    BY <1>1, <2>1, <2>2 DEF Launch
  <2>4. MainTypeOK'
    BY <1>1, <2>3, FreshMemoryType DEF Launch, MainTypeOK
  <2> QED
    BY <1>1, <2>4, StoreSame, FreshMemoryType DEF Launch
<1>2. CASE Crash
  <2>1. MainTypeOK'
    BY <1>2, FreshMemoryType DEF Crash, Dies, MainTypeOK, boundVars
  <2> QED
    BY <1>2, <2>1, StoreSame, FreshMemoryType DEF Crash, Dies
<1>3. CASE RequestStop
  <2>1. MainTypeOK'
    BY <1>3 DEF RequestStop, MainTypeOK, boundVars
  <2> QED
    BY <1>3, <2>1, StoreSame, QueueSame, PoolSame, SchedulerSame, RestoreSame,
       RequestSame, DispatcherSame, WorkerSame
    DEF RequestStop, threadVars
<1> QED
  BY <1>1, <1>2, <1>3

\* Every row read at startup has the type of a snapshot.
LEMMA UnfinishedType ==
  ASSUME StoreTypeOK PROVE Unfinished \subseteq Snapshot
BY DEF Unfinished, ReadBack, Snapshot, StoreTypeOK, Row, Job

\* The steps of restoreUnfinished.
LEMMA RestoreType ==
  ASSUME EngineTypeOK, Restore PROVE EngineTypeOK'
PROOF
<1> USE DEF EngineTypeOK
<1>0. ASSUME StatementFails, Dies PROVE EngineTypeOK'
  BY <1>0, DiesType
<1>1. CASE ReadUnfinished /\ ~(StatementFails /\ Dies)
  <2>1. MainTypeOK'
    BY <1>1 DEF ReadUnfinished, Main, MainTypeOK, boundVars
  <2>2. RestoreTypeOK'
    BY <1>1, UnfinishedType DEF ReadUnfinished, RestoreTypeOK
  <2> QED
    BY <1>1, <2>1, <2>2, StoreSame, QueueSame, PoolSame, SchedulerSame,
       RequestSame, DispatcherSame, WorkerSame
    DEF ReadUnfinished, threadVars
<1>2. CASE RestoreNext
  <2>1. RestoreTypeOK'
    BY <1>2 DEF RestoreNext, RestoreTypeOK
  <2> QED
    BY <1>2, <2>1, StoreSame, QueueSame, PoolSame, SchedulerSame, MainSame,
       RequestSame, DispatcherSame, WorkerSame
    DEF RestoreNext, threadVars
<1>3. CASE RestoreFail /\ ~(StatementFails /\ Dies)
  <2>1. StoreTypeOK'
    BY <1>3, OutcomeType DEF RestoreFail, FailureReasons
  <2>2. RestoreTypeOK'
    BY <1>3 DEF RestoreFail, RestoreTypeOK
  <2> QED
    BY <1>3, <2>1, <2>2, QueueSame, PoolSame, SchedulerSame, MainSame,
       RequestSame, DispatcherSame, WorkerSame
    DEF RestoreFail, threadVars
<1>4. CASE RestoreWaiting /\ ~(StatementFails /\ Dies)
  <2>1. StoreTypeOK'
    BY <1>4, WaitingType DEF RestoreWaiting
  <2>2. recovering \in Snapshot
    BY <1>4 DEF RestoreWaiting, RestoreTypeOK
  <2>3. RestoreTypeOK'
    BY <1>4, <2>2 DEF RestoreWaiting, RestoreTypeOK, Snapshot, Statuses
  <2> QED
    BY <1>4, <2>1, <2>3, QueueSame, PoolSame, SchedulerSame, MainSame,
       RequestSame, DispatcherSame, WorkerSame
    DEF RestoreWaiting, threadVars
<1>5. CASE RestoreRoute
  <2>1. recovering \in Snapshot
    BY <1>5 DEF RestoreRoute, RestoreTypeOK
  <2>2. QueueTypeOK' /\ SchedulerTypeOK'
    BY <1>5, <2>1, RouteType DEF RestoreRoute, Snapshot
  <2>3. RestoreTypeOK'
    BY <1>5 DEF RestoreRoute, RestoreTypeOK
  <2> QED
    BY <1>5, <2>2, <2>3, StoreSame, PoolSame, MainSame, RequestSame,
       DispatcherSame, WorkerSame
    DEF RestoreRoute, threadVars
<1> QED
  BY <1>0, <1>1, <1>2, <1>3, <1>4, <1>5
  DEF Restore

\* A step of main() to another of its places keeps the type of main.
LEMMA MainMoves ==
  ASSUME MainTypeOK, UNCHANGED stopRequested, UNCHANGED boundVars,
         mainPc' \in {"reading", "binding", "serving", "joining http",
                     "stopping worker", "shutting queue down",
                     "joining dispatcher", "stopping pool", "joining pool",
                     "stopping scheduler", "joining scheduler", "exited"}
  PROVE  MainTypeOK'
PROOF
<1>1. launches' = launches /\ faults' = faults
  BY DEF boundVars
<1>2. /\ launches' \in 0 .. MaxLaunches /\ faults' \in 0 .. MaxFaults
      /\ stopRequested' \in BOOLEAN
  BY <1>1 DEF MainTypeOK
<1> QED
  BY <1>2 DEF MainTypeOK

\* The other steps of main.
LEMMA MainThreadType ==
  ASSUME EngineTypeOK, MainThread PROVE EngineTypeOK'
PROOF
<1> USE DEF EngineTypeOK
<1>1. CASE SchedulerStart
  <2>1. SchedulerTypeOK' /\ MainTypeOK'
    BY <1>1, MainMoves
    DEF SchedulerStart, StartScheduler, Main, SchedulerTypeOK
  <2> QED
    BY <1>1, <2>1, StoreSame, QueueSame, PoolSame, RestoreSame, RequestSame,
       DispatcherSame, WorkerSame
    DEF SchedulerStart, threadVars
<1>2. CASE Restore
  BY <1>2, RestoreType
<1>3. CASE WorkerStart
  <2>1. MainTypeOK'
    BY <1>3, MainMoves DEF WorkerStart, Main
  <2>2. DispatcherTypeOK'
    BY <1>3 DEF WorkerStart, DispatcherTypeOK
  <2> QED
    BY <1>3, <2>1, <2>2, StoreSame, QueueSame, PoolSame, SchedulerSame,
       RestoreSame, RequestSame, WorkerSame
    DEF WorkerStart
<1>4. CASE HttpServerStart \/ HttpServerStop
  <2>1. MainTypeOK'
    BY <1>4, MainMoves DEF HttpServerStart, HttpServerStop, Main
  <2> QED
    BY <1>4, <2>1, StoreSame, QueueSame, PoolSame, SchedulerSame, RestoreSame,
       RequestSame, DispatcherSame, WorkerSame
    DEF HttpServerStart, HttpServerStop, threadVars
<1>5. CASE WorkerStop
  <2>1. MainTypeOK'
    BY <1>5, MainMoves DEF WorkerStop, Main
  <2>2. QueueTypeOK'
    BY <1>5, QueueSame DEF WorkerStop, Shutdown, QueueTypeOK
  <2>3. DispatcherTypeOK'
    BY <1>5 DEF WorkerStop, DispatcherTypeOK
  <2> QED
    BY <1>5, <2>1, <2>2, <2>3, StoreSame, PoolSame, SchedulerSame, RestoreSame,
       RequestSame, WorkerSame
    DEF WorkerStop
<1>6. CASE PoolStop
  <2>1. MainTypeOK'
    BY <1>6, MainMoves DEF PoolStop, Main
  <2>2. PoolTypeOK'
    BY <1>6, PoolSame DEF PoolStop, StopPool, PoolTypeOK
  <2> QED
    BY <1>6, <2>1, <2>2, StoreSame, QueueSame, SchedulerSame, RestoreSame,
       RequestSame, DispatcherSame, WorkerSame
    DEF PoolStop, threadVars
<1>7. CASE SchedulerStop
  <2>1. MainTypeOK'
    BY <1>7, MainMoves DEF SchedulerStop, Main
  <2>2. SchedulerTypeOK'
    BY <1>7, SchedulerSame DEF SchedulerStop, StopScheduler, SchedulerTypeOK
  <2> QED
    BY <1>7, <2>1, <2>2, StoreSame, QueueSame, PoolSame, RestoreSame,
       RequestSame, DispatcherSame, WorkerSame
    DEF SchedulerStop, threadVars
<1> QED
  BY <1>1, <1>2, <1>3, <1>4, <1>5, <1>6, <1>7 DEF MainThread

\* The passing of time.
LEMMA TickType ==
  ASSUME EngineTypeOK, Tick PROVE EngineTypeOK'
PROOF
<1> USE DEF EngineTypeOK
<1>1. \A at \in Nat \cup {NULL} : Later(at) \in Nat \cup {NULL}
  BY DEF Later, Elapsed
<1>2. StoreTypeOK'
  BY <1>1 DEF Tick, StoreTypeOK, Row
<1>3. SchedulerTypeOK'
  BY DEF Tick, ElapsedJobs, Elapsed, SchedulerTypeOK, ScheduledJob
<1>4. RestoreTypeOK'
  BY <1>1 DEF Tick, RestoreTypeOK, Snapshot
<1>5. RequestTypeOK'
  BY <1>1 DEF Tick, RequestTypeOK
<1>6. WorkerTypeOK'
  BY <1>1 DEF Tick, WorkerTypeOK
<1> QED
  BY <1>2, <1>3, <1>4, <1>5, <1>6, QueueSame, PoolSame, MainSame, DispatcherSame
  DEF Tick

-----------------------------------------------------------------------------
\* The first state is well typed.
LEMMA TypeInit == Init => EngineTypeOK
PROOF
<1> SUFFICES ASSUME Init PROVE EngineTypeOK
  OBVIOUS
<1>1. StoreTypeOK
  BY BoundsAssumption DEF Init, StoreInit, StoreTypeOK
<1>2. QueueTypeOK /\ PoolTypeOK /\ SchedulerTypeOK /\ RestoreTypeOK
  BY DEF Init, MemoryInit, QueueInit, QueueTypeOK, PoolInit, PoolTypeOK,
         SchedulerInit, SchedulerTypeOK, RestoreTypeOK
<1>3. RequestTypeOK /\ DispatcherTypeOK
  BY DEF Init, MemoryInit, RequestTypeOK, IdleRequest, DispatcherTypeOK
<1>4. WorkerTypeOK
  BY DEF Init, MemoryInit, WorkerTypeOK, IdleWorker, Progress
<1>5. MainTypeOK
  <2>1. 0 \in 0 .. MaxLaunches /\ 0 \in 0 .. MaxFaults
    BY BoundsAssumption
  <2> QED
    BY <2>1 DEF Init, MemoryInit, MainTypeOK
<1> QED
  BY <1>1, <1>2, <1>3, <1>4, <1>5 DEF EngineTypeOK

\* Every step keeps the types.
LEMMA TypeStep == EngineTypeOK /\ [Next]_vars => EngineTypeOK'
PROOF
<1> SUFFICES ASSUME EngineTypeOK, [Next]_vars PROVE EngineTypeOK'
  OBVIOUS
<1>1. ASSUME NEW h \in RequestThreads,
             RequestThread(h) \/ \E spec \in Specs : GenerateId(h, spec)
      PROVE  EngineTypeOK'
  <2>1. CASE RequestThread(h) /\ Specs = {}
    <3>1. request[h].job.spec \in Specs
      BY <2>1 DEF RequestThread, SaveJob, RouteJob, EngineTypeOK, RequestTypeOK, Job
    <3> QED
      BY <2>1, <3>1
  <2> QED
    BY <1>1, <2>1, RequestThreadType
<1>2. CASE Dispatcher
  BY <1>2, DispatcherType
<1>3. ASSUME NEW w \in PoolThreads, PoolThread(w) PROVE EngineTypeOK'
  BY <1>3, PoolThreadType
<1>4. CASE SchedulerThread
  BY <1>4, SchedulerThreadType
<1>5. CASE MainThread
  BY <1>5, MainThreadType
<1>6. CASE Tick
  BY <1>6, TickType
<1>7. CASE RequestStop \/ Launch \/ Crash
  BY <1>7, ProcessType
<1>8. CASE Halted \/ UNCHANGED vars
  <2>1. UNCHANGED vars
    BY <1>8 DEF Halted
  <2>2. /\ UNCHANGED <<tableVars, jobQueueVars, taskVars, delayVars>>
        /\ UNCHANGED <<mainVars, restoreVars, threadVars, boundVars>>
    BY <2>1 DEF vars
  <2> QED
    BY <2>2, StoreSame, QueueSame, PoolSame, SchedulerSame, MainSame,
       RestoreSame, RequestSame, DispatcherSame, WorkerSame
    DEF EngineTypeOK, threadVars
<1> QED
  BY <1>1, <1>2, <1>3, <1>4, <1>5, <1>6, <1>7, <1>8 DEF Next

\* The engine keeps its types through every interleaving, crash and restart;
\* in particular no thread ever acts on a job it does not hold.
THEOREM EngineIsTyped == Spec => []EngineTypeOK
BY TypeInit, TypeStep, PTL DEF Spec

-----------------------------------------------------------------------------
(* The order of starts and stops. *)

\* running_ of the scheduler, shutdown_ of the queue and stop_ of the pool say
\* how far main is with its starts and stops.
SwitchesFollowMain ==
  /\ running <=>
       mainPc \notin {"down", "starting", "joining scheduler", "exited"}
  /\ shutdown <=>
       mainPc \in {"joining dispatcher", "stopping pool", "joining pool",
                   "stopping scheduler", "joining scheduler", "exited"}
  /\ stop <=>
       mainPc \in {"joining pool", "stopping scheduler", "joining scheduler",
                   "exited"}

\* Requests are served from HttpServer::start until its stop has joined them.
RequestsInTime ==
  mainPc \notin {"serving", "joining http"} =>
    \A h \in RequestThreads : request[h].pc = "idle"

\* The dispatcher runs from Worker::start until its stop has joined it.
DispatcherInTime ==
  /\ mainPc \in {"down", "starting", "reading", "restoring"} =>
       dispatcher.pc = "none"
  /\ mainPc \in {"stopping pool", "joining pool", "stopping scheduler",
                 "joining scheduler", "exited"} => dispatcher.pc = "returned"

\* No task is there before the first start, or after the pool was joined.
TasksInTime ==
  mainPc \in {"down", "starting", "stopping scheduler", "joining scheduler",
              "exited"} =>
    tasks = {} /\ \A w \in PoolThreads : worker[w].pc = "idle"

\* restoreUnfinished is done before the dispatcher starts.
RestoreInTime ==
  mainPc # "restoring" => toRestore = {} /\ recovering = NULL

ControlInv ==
  /\ SwitchesFollowMain /\ RequestsInTime /\ DispatcherInTime
  /\ TasksInTime /\ RestoreInTime

\* The steps of threads other than main's that handle jobs.
JobStep ==
  \/ \E h \in RequestThreads :
       RequestThread(h) \/ \E spec \in Specs : GenerateId(h, spec)
  \/ Dispatcher
  \/ \E w \in PoolThreads : PoolThread(w)
  \/ SchedulerThread

\* A job that is handed on changes no switch.
LEMMA RouteSwitches ==
  ASSUME NEW job, NEW delay, Route(job, delay)
  PROVE  UNCHANGED <<running, shutdown>>
BY DEF Route, ScheduleAt, Push, jobQueueVars, delayVars

\* The threads other than main's change no switch.
LEMMA JobStepSwitches ==
  ASSUME JobStep
  PROVE  UNCHANGED <<mainPc, running, shutdown, stop, toRestore, recovering>>
PROOF
<1>1. ASSUME NEW h \in RequestThreads, NEW spec, GenerateId(h, spec)
      PROVE  UNCHANGED <<mainPc, running, shutdown, stop, toRestore, recovering>>
  BY <1>1 DEF GenerateId, jobQueueVars, taskVars, delayVars, mainVars, restoreVars
<1>2. ASSUME NEW h \in RequestThreads, RequestThread(h)
      PROVE  UNCHANGED <<mainPc, running, shutdown, stop, toRestore, recovering>>
  BY <1>2, RouteSwitches
  DEF RequestThread, SaveJob, RouteJob, jobQueueVars, taskVars, delayVars,
      mainVars, restoreVars
<1>3. CASE Dispatcher
  BY <1>3
  DEF Dispatcher, DispatcherLoop, DispatcherPop, DispatcherEnqueue, PopJob,
      PopNothing, Enqueue, jobQueueVars, taskVars, delayVars, mainVars,
      restoreVars
<1>4. ASSUME NEW w \in PoolThreads, PoolThread(w)
      PROVE  UNCHANGED <<mainPc, running, shutdown, stop, toRestore, recovering>>
  <2>1. CASE TakeTask(w) \/ Reroute(w)
    BY <2>1, RouteSwitches
    DEF TakeTask, Reroute, Take, jobQueueVars, taskVars, delayVars, mainVars,
        restoreVars
  <2>2. CASE ~(TakeTask(w) \/ Reroute(w))
    BY <1>4, <2>2
    DEF PoolThread, StartJob, Process, Complete, Fail, Retry, jobQueueVars,
        taskVars, delayVars, mainVars, restoreVars
  <2> QED
    BY <2>1, <2>2
<1>5. CASE SchedulerThread
  BY <1>5
  DEF SchedulerThread, SchedulerTakes, SchedulerPushes, TakeDue, Push,
      jobQueueVars, taskVars, delayVars, mainVars, restoreVars
<1> QED
  BY <1>1, <1>2, <1>3, <1>4, <1>5 DEF JobStep

\* The steps by which a process begins and ends put everything in its first
\* state.
LEMMA FreshControl ==
  ASSUME FreshMemory, mainPc' \in {"down", "starting"} PROVE ControlInv'
BY DEF FreshMemory, ControlInv, SwitchesFollowMain, RequestsInTime,
       DispatcherInTime, TasksInTime, RestoreInTime, IdleRequest, IdleWorker,
       Progress

\* While rows are restored, only the switches and the requests matter.
LEMMA RestoringControl ==
  ASSUME ControlInv, mainPc \in {"reading", "restoring"},
         mainPc' = "restoring",
         UNCHANGED <<running, shutdown, stop, request, dispatcher>>
  PROVE  ControlInv'
PROOF
<1>1. SwitchesFollowMain'
  BY DEF ControlInv, SwitchesFollowMain
<1>2. RequestsInTime'
  BY DEF ControlInv, RequestsInTime
<1>3. DispatcherInTime' /\ TasksInTime' /\ RestoreInTime'
  BY DEF ControlInv, DispatcherInTime, TasksInTime, RestoreInTime
<1> QED
  BY <1>1, <1>2, <1>3 DEF ControlInv

\* The switches are turned by main at the places it goes through.
LEMMA MainControl ==
  ASSUME ControlInv, MainThread PROVE ControlInv'
PROOF
<1>0. /\ SwitchesFollowMain /\ RequestsInTime /\ DispatcherInTime
      /\ TasksInTime /\ RestoreInTime
  BY DEF ControlInv
<1>1. CASE SchedulerStart
  BY <1>1
  DEF SchedulerStart, StartScheduler, Main, jobQueueVars, taskVars,
      restoreVars, threadVars, ControlInv, SwitchesFollowMain, RequestsInTime,
      DispatcherInTime, TasksInTime, RestoreInTime
<1>2. CASE Restore
  <2>1. CASE Dies
    BY <2>1, FreshControl DEF Dies
  <2>2. CASE ReadUnfinished /\ ~Dies
    BY <2>2, RestoringControl
    DEF ReadUnfinished, Main, jobQueueVars, taskVars, delayVars, threadVars
  <2>3. CASE RestoreNext
    BY <2>3, RestoringControl
    DEF RestoreNext, mainVars, jobQueueVars, taskVars, delayVars, threadVars
  <2>4. recovering # NULL => mainPc = "restoring"
    BY DEF ControlInv, RestoreInTime
  <2>5. CASE (RestoreFail \/ RestoreWaiting) /\ ~Dies
    BY <2>4, <2>5, RestoringControl
    DEF RestoreFail, RestoreWaiting, mainVars, jobQueueVars, taskVars,
        delayVars, threadVars
  <2>6. CASE RestoreRoute
    <3>1. UNCHANGED <<running, shutdown>>
      BY <2>6, RouteSwitches DEF RestoreRoute
    <3> QED
      BY <2>4, <2>6, <3>1, RestoringControl
      DEF RestoreRoute, mainVars, taskVars, threadVars
  <2> QED
    BY <1>2, <2>1, <2>2, <2>3, <2>5, <2>6 DEF Restore
<1>3. CASE WorkerStart
  BY <1>3
  DEF WorkerStart, Main, jobQueueVars, taskVars, delayVars, restoreVars,
      ControlInv, SwitchesFollowMain, RequestsInTime,
      DispatcherInTime, TasksInTime, RestoreInTime
<1>4. CASE HttpServerStart
  BY <1>4
  DEF HttpServerStart, Main, jobQueueVars, taskVars, delayVars, restoreVars,
      threadVars, ControlInv, SwitchesFollowMain, RequestsInTime,
      DispatcherInTime, TasksInTime, RestoreInTime
<1>5. CASE HttpServerStop
  BY <1>5
  DEF HttpServerStop, Main, jobQueueVars, taskVars, delayVars, restoreVars,
      threadVars, ControlInv, SwitchesFollowMain, RequestsInTime,
      DispatcherInTime, TasksInTime, RestoreInTime
<1>6. CASE WorkerStop
  <2>1. UNCHANGED <<running, stop, tasks, toRestore, recovering, request,
                    dispatcher, worker>>
    BY <1>6 DEF WorkerStop, taskVars, delayVars, restoreVars
  <2>2. \/ /\ mainPc = "stopping worker" /\ mainPc' = "shutting queue down"
           /\ shutdown' = shutdown
        \/ /\ mainPc = "shutting queue down" /\ mainPc' = "joining dispatcher"
           /\ shutdown' = TRUE
        \/ /\ mainPc = "joining dispatcher" /\ mainPc' = "stopping pool"
           /\ shutdown' = shutdown /\ dispatcher.pc = "returned"
    BY <1>6 DEF WorkerStop, Shutdown, Main, jobQueueVars
  <2>3. SwitchesFollowMain'
    <3>1. CASE mainPc \in {"stopping worker", "joining dispatcher"}
      <4>1. /\ shutdown' = shutdown
            /\ \/ mainPc = "stopping worker" /\ mainPc' = "shutting queue down"
               \/ mainPc = "joining dispatcher" /\ mainPc' = "stopping pool"
        BY <2>2, <3>1
      <4> QED
        BY <1>0, <2>1, <4>1 DEF SwitchesFollowMain
    <3>2. CASE mainPc = "shutting queue down"
      <4>1. mainPc' = "joining dispatcher" /\ shutdown' = TRUE
        BY <2>2, <3>2
      <4>2. running' /\ ~stop'
        BY <1>0, <2>1, <3>2 DEF SwitchesFollowMain
      <4> QED
        BY <4>1, <4>2 DEF SwitchesFollowMain
    <3> QED
      BY <2>2, <3>1, <3>2
  <2>4. RequestsInTime' /\ DispatcherInTime'
    BY <1>0, <2>1, <2>2 DEF RequestsInTime, DispatcherInTime
  <2>5. TasksInTime' /\ RestoreInTime'
    BY <1>0, <2>1, <2>2 DEF TasksInTime, RestoreInTime
  <2> QED
    BY <2>3, <2>4, <2>5 DEF ControlInv
<1>7. CASE PoolStop
  BY <1>7
  DEF PoolStop, StopPool, Drained, Main, jobQueueVars, taskVars, delayVars,
      restoreVars, threadVars, ControlInv, SwitchesFollowMain, RequestsInTime,
      DispatcherInTime, TasksInTime, RestoreInTime
<1>8. CASE SchedulerStop
  <2>1. UNCHANGED <<shutdown, stop, tasks, toRestore, recovering, request,
                    dispatcher, worker>>
    BY <1>8 DEF SchedulerStop, jobQueueVars, taskVars, restoreVars, threadVars
  <2>2. \/ /\ mainPc = "stopping scheduler" /\ mainPc' = "joining scheduler"
           /\ running' = FALSE
        \/ /\ mainPc = "joining scheduler" /\ mainPc' = "exited"
           /\ running' = running
    BY <1>8 DEF SchedulerStop, StopScheduler, Main, delayVars
  <2>3. SwitchesFollowMain'
    <3>1. CASE mainPc = "joining scheduler"
      <4>1. running' = running /\ mainPc' = "exited"
        BY <2>2, <3>1
      <4> QED
        BY <1>0, <2>1, <3>1, <4>1 DEF SwitchesFollowMain
    <3>2. CASE mainPc = "stopping scheduler"
      <4>1. mainPc' = "joining scheduler" /\ running' = FALSE
        BY <2>2, <3>2
      <4>2. shutdown' /\ stop'
        BY <1>0, <2>1, <3>2 DEF SwitchesFollowMain
      <4> QED
        BY <4>1, <4>2 DEF SwitchesFollowMain
    <3> QED
      BY <2>2, <3>1, <3>2
  <2>4. RequestsInTime' /\ DispatcherInTime' /\ TasksInTime' /\ RestoreInTime'
    BY <1>0, <2>1, <2>2
    DEF RequestsInTime, DispatcherInTime, TasksInTime, RestoreInTime
  <2> QED
    BY <2>3, <2>4 DEF ControlInv
<1> QED
  BY <1>1, <1>2, <1>3, <1>4, <1>5, <1>6, <1>7, <1>8 DEF MainThread

\* A thread begins to handle a job only while main lets it.
LEMMA JobControl ==
  ASSUME EngineTypeOK, ControlInv, JobStep PROVE ControlInv'
PROOF
<1>0. UNCHANGED <<mainPc, running, shutdown, stop, toRestore, recovering>>
  BY JobStepSwitches
<1>1. SwitchesFollowMain' /\ RestoreInTime'
  BY <1>0 DEF ControlInv, SwitchesFollowMain, RestoreInTime
<1>2. RequestsInTime'
  <2> SUFFICES ASSUME mainPc \notin {"serving", "joining http"}
               PROVE  request' = request
    BY <1>0 DEF ControlInv, RequestsInTime
  <2>1. \A h \in RequestThreads : request[h].pc = "idle"
    BY DEF ControlInv, RequestsInTime
  <2>2. ASSUME NEW h \in RequestThreads,
               RequestThread(h) \/ \E spec \in Specs : GenerateId(h, spec)
        PROVE  FALSE
    BY <2>1, <2>2 DEF RequestThread, SaveJob, RouteJob, GenerateId
  <2>3. CASE Dispatcher \/ SchedulerThread
    BY <2>3
    DEF Dispatcher, DispatcherLoop, DispatcherPop, DispatcherEnqueue,
        SchedulerThread, SchedulerTakes, SchedulerPushes
  <2>4. ASSUME NEW w \in PoolThreads, PoolThread(w) PROVE request' = request
    BY <2>4
    DEF PoolThread, TakeTask, StartJob, Process, Complete, Fail, Retry, Reroute
  <2> QED
    BY <2>2, <2>3, <2>4 DEF JobStep
<1>3. DispatcherInTime'
  <2> SUFFICES ASSUME dispatcher.pc \in {"none", "returned"}
               PROVE  dispatcher' = dispatcher
    BY <1>0 DEF ControlInv, DispatcherInTime
  <2>1. ~Dispatcher
    BY DEF Dispatcher, DispatcherLoop, DispatcherPop, DispatcherEnqueue
  <2>2. ASSUME NEW h \in RequestThreads,
               RequestThread(h) \/ \E spec \in Specs : GenerateId(h, spec)
        PROVE  dispatcher' = dispatcher
    BY <2>2 DEF RequestThread, SaveJob, RouteJob, GenerateId
  <2>3. ASSUME NEW w \in PoolThreads, PoolThread(w)
        PROVE  dispatcher' = dispatcher
    BY <2>3
    DEF PoolThread, TakeTask, StartJob, Process, Complete, Fail, Retry, Reroute
  <2>4. CASE SchedulerThread
    BY <2>4 DEF SchedulerThread, SchedulerTakes, SchedulerPushes
  <2> QED
    BY <2>1, <2>2, <2>3, <2>4 DEF JobStep
<1>4. TasksInTime'
  <2> SUFFICES ASSUME mainPc \in {"down", "starting", "stopping scheduler",
                                  "joining scheduler", "exited"}
               PROVE  tasks' = tasks /\ worker' = worker
    BY <1>0 DEF ControlInv, TasksInTime
  <2>1. /\ tasks = {} /\ dispatcher.pc \in {"none", "returned"}
        /\ \A w \in PoolThreads : worker[w].pc = "idle"
    BY DEF ControlInv, TasksInTime, DispatcherInTime
  <2>2. ASSUME NEW w \in PoolThreads, PoolThread(w) PROVE FALSE
    BY <2>1, <2>2
    DEF PoolThread, TakeTask, StartJob, Process, Complete, Fail, Retry, Reroute
  <2>3. ~Dispatcher
    BY <2>1 DEF Dispatcher, DispatcherLoop, DispatcherPop, DispatcherEnqueue
  <2>4. ASSUME NEW h \in RequestThreads,
               RequestThread(h) \/ \E spec \in Specs : GenerateId(h, spec)
        PROVE  tasks' = tasks /\ worker' = worker
    BY <2>4 DEF RequestThread, SaveJob, RouteJob, GenerateId, taskVars
  <2>5. CASE SchedulerThread
    BY <2>5 DEF SchedulerThread, SchedulerTakes, SchedulerPushes, taskVars
  <2> QED
    BY <2>2, <2>3, <2>4, <2>5 DEF JobStep
<1> QED
  BY <1>1, <1>2, <1>3, <1>4 DEF ControlInv

\* Every step keeps the order of starts and stops.
LEMMA ControlStep ==
  ASSUME EngineTypeOK, ControlInv, [Next]_vars PROVE ControlInv'
PROOF
<1>1. CASE JobStep
  BY <1>1, JobControl
<1>2. CASE MainThread
  BY <1>2, MainControl
<1>3. CASE Tick
  <2>1. /\ UNCHANGED <<mainPc, running, shutdown, stop, tasks, dispatcher>>
        /\ \A h \in RequestThreads : request'[h].pc = request[h].pc
        /\ \A w \in PoolThreads : worker'[w].pc = worker[w].pc
        /\ toRestore = {} => toRestore' = {}
        /\ recovering = NULL => recovering' = NULL
    BY <1>3 DEF Tick, jobQueueVars, taskVars, mainVars, EngineTypeOK,
                RequestTypeOK, WorkerTypeOK
  <2> QED
    BY <2>1 DEF ControlInv, SwitchesFollowMain, RequestsInTime,
                DispatcherInTime, TasksInTime, RestoreInTime
<1>4. CASE Launch \/ Crash
  BY <1>4, FreshControl DEF Launch, Crash, Dies
<1>5. CASE RequestStop \/ Halted \/ UNCHANGED vars
  <2>1. UNCHANGED <<mainPc, running, shutdown, stop, tasks, dispatcher, request,
                    worker, toRestore, recovering>>
    BY <1>5 DEF RequestStop, Halted, vars, jobQueueVars, taskVars, delayVars,
                mainVars, restoreVars, threadVars
  <2> QED
    BY <2>1 DEF ControlInv, SwitchesFollowMain, RequestsInTime,
                DispatcherInTime, TasksInTime, RestoreInTime
<1> QED
  BY <1>1, <1>2, <1>3, <1>4, <1>5 DEF Next, JobStep

\* The engine goes through its starts and stops in order.
THEOREM EngineKeepsOrder == Spec => []ControlInv
PROOF
<1>1. Init => ControlInv
  BY DEF Init, MemoryInit, QueueInit, PoolInit, SchedulerInit, ControlInv,
         SwitchesFollowMain, RequestsInTime, DispatcherInTime, TasksInTime,
         RestoreInTime, IdleRequest, IdleWorker, Progress
<1>2. EngineTypeOK /\ ControlInv /\ [Next]_vars => ControlInv'
  BY ControlStep
<1> QED
  BY <1>1, <1>2, EngineIsTyped, PTL DEF Spec

\* A request that routes its job, and recovery, find the scheduler running and
\* the queue open, the dispatcher finds the pool open, and a task that runs finds
\* the scheduler running, for any number of jobs and threads and wherever the stop
\* comes.  The pushes of tasks and of the scheduler thread to a queue that is
\* already shut down are not excluded.
THEOREM HandoffsNeverMeetAStop == Spec => []HandoffsAreAccepted
PROOF
<1>1. ControlInv => HandoffsAreAccepted
  BY DEF ControlInv, SwitchesFollowMain, RequestsInTime, DispatcherInTime,
         TasksInTime, RestoreInTime, HandoffsAreAccepted
<1> QED
  BY <1>1, EngineKeepsOrder, PTL

-----------------------------------------------------------------------------
(* Places. *)

\* The job with this id is at place x of this kind of place; a kind that has
\* only one place calls it 0.
At(kind, x, id) ==
  \/ /\ kind = "request" /\ x \in RequestThreads
     /\ request[x].pc # "idle" /\ request[x].job.id = id
  \/ kind = "queue" /\ x \in queue /\ x.job.id = id
  \/ kind = "scheduler" /\ x \in delayedJobs /\ x.job.id = id
  \/ /\ kind = "scheduler thread" /\ x = 0
     /\ schedulerHand # NULL /\ schedulerHand.id = id
  \/ /\ kind = "dispatcher" /\ x = 0
     /\ dispatcher.pc = "enqueueing" /\ dispatcher.job.id = id
  \/ kind = "task" /\ x \in tasks /\ x.function.id = id
  \/ /\ kind = "worker" /\ x \in PoolThreads
     /\ worker[x].pc # "idle" /\ worker[x].job.id = id
  \/ kind = "read" /\ x \in toRestore /\ x.job.id = id
  \/ /\ kind = "recovering" /\ x = 0
     /\ recovering # NULL /\ recovering.job.id = id

\* startAttempt accepts the job, with the columns it was saved with.
Ready(job) == AcceptsStart(job.id) /\ rows[job.id].spec = job.spec

\* The row of a task that runs a handler, or acts on its outcome.
Runs(w) ==
  /\ worker[w].job.id \in DOMAIN rows
  /\ rows[worker[w].job.id].status = "active"
  /\ rows[worker[w].job.id].attemptsMade = worker[w].attemptsMade
  /\ rows[worker[w].job.id].spec = worker[w].job.spec

\* A reason that says a job has no attempt left tells the truth about it.
Explains(reason, id) ==
  reason \in {"exhausted", "no attempts at recovery"} =>
    rows[id].attemptsMade = rows[id].spec.maxAttempts

\* The row of a task that is about to mark its job failed; a row that still
\* waits is that of a task whose startAttempt failed.
MayFail(w) ==
  /\ worker[w].job.id \in DOMAIN rows
  /\ ~IsTerminal(rows[worker[w].job.id].status)
  /\ Explains(worker[w].reason, worker[w].job.id)
  /\ faults = 0 => rows[worker[w].job.id].status = "active"

\* What restoreUnfinished has read of a row is still what the row says.
Current(snapshot) ==
  /\ snapshot.job.id \in DOMAIN rows
  /\ ~IsTerminal(snapshot.status)
  /\ rows[snapshot.job.id].status = snapshot.status
  /\ rows[snapshot.job.id].attemptsMade = snapshot.attemptsMade
  /\ rows[snapshot.job.id].spec = snapshot.job.spec

\* An instant, or none, that comes within this time.
Comes(at, time) == at = NULL \/ at <= time

\* The row becomes available within this time.
DueWithin(id, time) == Comes(rows[id].availableAt, time)

\* The time that restoreUnfinished computes from a row it has read.
RemainingDelay(snapshot) ==
  IF snapshot.availableAt = NULL THEN 0 ELSE snapshot.availableAt

\* The job will not start before its row says it is available: the time it
\* still has to spend where it is covers the time that its row asks for.
OnTime(kind, x, id) ==
  /\ kind = "request" =>
       IF request[x].pc = "saving"
       THEN Comes(request[x].availableAt, request[x].job.spec.delay)
       ELSE DueWithin(id, request[x].job.spec.delay)
  /\ kind \in {"queue", "scheduler thread", "dispatcher", "task"} =>
       DueWithin(id, 0)
  /\ kind = "scheduler" => DueWithin(id, x.readyIn)
  /\ kind = "worker" =>
       /\ worker[x].pc = "starting" => DueWithin(id, 0)
       /\ worker[x].pc = "retrying" =>
            Comes(worker[x].availableAt, TaskRetryDelay(x))
       /\ worker[x].pc = "rerouting" => DueWithin(id, TaskRetryDelay(x))
  /\ kind = "read" => DueWithin(id, RemainingDelay(x))
  /\ kind = "recovering" => DueWithin(id, RemainingDelay(recovering))

\* The table agrees with the place the id is at.
Fits(kind, x, id) ==
  /\ id < nextValue
  /\ OnTime(kind, x, id)
  /\ kind = "request" => IF request[x].pc = "saving" THEN id \notin DOMAIN rows
                         ELSE Ready(request[x].job)
  /\ kind \in {"queue", "scheduler"} => Ready(x.job)
  /\ kind = "scheduler thread" => Ready(schedulerHand)
  /\ kind = "dispatcher" => Ready(dispatcher.job)
  /\ kind = "task" => Ready(x.function)
  /\ kind = "worker" =>
       /\ worker[x].pc \in {"starting", "rerouting"} => Ready(worker[x].job)
       /\ worker[x].pc \in {"processing", "completing", "retrying"} => Runs(x)
       /\ worker[x].pc = "failing" => MayFail(x)
  /\ kind = "read" => Current(x)
  /\ kind = "recovering" => Current(recovering)

\* Every id is at one place at most, and its row agrees with that place.
Placed ==
  \A kind, x, id : At(kind, x, id) =>
    /\ Fits(kind, x, id)
    /\ \A other, y : At(other, y, id) => other = kind /\ y = x

\* What a place holds does not change.
Same(kind, x) ==
  /\ kind = "request" => request'[x] = request[x]
  /\ kind = "scheduler thread" => schedulerHand' = schedulerHand
  /\ kind = "dispatcher" => dispatcher' = dispatcher
  /\ kind = "worker" => worker'[x] = worker[x]
  /\ kind = "recovering" => recovering' = recovering

\* The table changes in the row of this id at most, ids that were handed out
\* stay so, and at most one statement fails.
OnlyRow(id) ==
  /\ \A other : other # id =>
       /\ other \in DOMAIN rows' <=> other \in DOMAIN rows
       /\ other \in DOMAIN rows => rows'[other] = rows[other]
  /\ nextValue \in Nat /\ nextValue' \in Nat /\ nextValue <= nextValue'
  /\ faults \in Nat /\ faults' \in {faults, faults + 1}

\* A place that holds what it held still agrees with the table, when the row
\* of its id did not change.
LEMMA StillFits ==
  ASSUME NEW kind, NEW x, NEW id, NEW changed, id # changed,
         At(kind, x, id), Fits(kind, x, id), Same(kind, x),
         OnlyRow(changed), id \in Nat
  PROVE  Fits(kind, x, id)'
PROOF
<1>1. id < nextValue'
  <2>1. id < nextValue
    BY DEF Fits
  <2>2. nextValue \in Nat /\ nextValue' \in Nat /\ nextValue <= nextValue'
    BY DEF OnlyRow
  <2> QED
    BY <2>1, <2>2
<1>2. /\ id \in DOMAIN rows' <=> id \in DOMAIN rows
      /\ id \in DOMAIN rows => rows'[id] = rows[id]
  BY DEF OnlyRow
<1>3. ASSUME NEW job, job.id = id, Ready(job) PROVE Ready(job)'
  BY <1>2, <1>3 DEF Ready, AcceptsStart
<1>4. ASSUME NEW snapshot, snapshot.job.id = id, Current(snapshot)
      PROVE  Current(snapshot)'
  BY <1>2, <1>4 DEF Current
<1>0. OnTime(kind, x, id)
  BY DEF Fits
<1>a. ASSUME id \in DOMAIN rows, NEW time, DueWithin(id, time)
      PROVE  DueWithin(id, time)'
  BY <1>2, <1>a DEF DueWithin, Comes
<1>b. ASSUME NEW job, job.id = id, Ready(job) PROVE id \in DOMAIN rows
  BY <1>b DEF Ready, AcceptsStart
<1>5. CASE kind = "request"
  <2>1. request'[x] = request[x]
    BY <1>5 DEF Same
  <2>2. OnTime(kind, x, id)'
    BY <1>0, <1>a, <1>b, <1>5, <2>1 DEF At, Fits, OnTime
  <2> QED
    BY <1>1, <1>2, <1>3, <1>5, <2>1, <2>2 DEF At, Fits
<1>6. CASE kind \in {"queue", "scheduler", "task"}
  <2>1. OnTime(kind, x, id)'
    BY <1>0, <1>a, <1>b, <1>6 DEF At, Fits, OnTime
  <2> QED
    BY <1>1, <1>3, <1>6, <2>1 DEF At, Fits
<1>7. CASE kind \in {"scheduler thread", "dispatcher"}
  <2>1. OnTime(kind, x, id)'
    BY <1>0, <1>a, <1>b, <1>7 DEF At, Fits, OnTime
  <2> QED
    BY <1>1, <1>3, <1>7, <2>1 DEF At, Fits, Same
<1>8. CASE kind = "worker"
  <2>1. worker'[x] = worker[x]
    BY <1>8 DEF Same
  <2>2. OnTime(kind, x, id)'
    BY <1>0, <1>a, <1>b, <1>8, <2>1 DEF At, Fits, OnTime, TaskRetryDelay
  <2> QED
    <3>1. faults' = 0 => faults = 0
      BY DEF OnlyRow
    <3> QED
      BY <1>1, <1>2, <1>3, <1>8, <2>1, <2>2, <3>1
      DEF At, Fits, Runs, MayFail, Explains
<1>9. CASE kind \in {"read", "recovering"}
  <2>1. ASSUME NEW snapshot, snapshot.job.id = id, Current(snapshot)
        PROVE  id \in DOMAIN rows
    BY <2>1 DEF Current
  <2>2. OnTime(kind, x, id)'
    BY <1>0, <1>a, <1>9, <2>1 DEF At, Fits, OnTime, RemainingDelay, Same
  <2> QED
    BY <1>1, <1>4, <1>9, <2>2 DEF At, Fits, Same
<1> QED
  BY <1>5, <1>6, <1>7, <1>8, <1>9 DEF At

\* The ids at places are ids of jobs.
LEMMA AtTyped ==
  ASSUME EngineTypeOK, NEW kind, NEW x, NEW id, At(kind, x, id)
  PROVE  id \in JobIds /\ id \in Nat
PROOF
<1>1. id \in JobIds
  <2> USE DEF EngineTypeOK, Job
  <2>1. CASE kind = "request"
    BY <2>1 DEF At, RequestTypeOK
  <2>2. CASE kind \in {"queue", "scheduler", "task"}
    BY <2>2 DEF At, QueueTypeOK, QueuedJob, SchedulerTypeOK, ScheduledJob,
                PoolTypeOK, PrioritizedTask
  <2>3. CASE kind \in {"scheduler thread", "dispatcher"}
    BY <2>3 DEF At, DispatcherTypeOK
  <2>4. CASE kind = "worker"
    BY <2>4 DEF At, WorkerTypeOK
  <2>5. CASE kind \in {"read", "recovering"}
    BY <2>5 DEF At, RestoreTypeOK, Snapshot
  <2> QED
    BY <2>1, <2>2, <2>3, <2>4, <2>5 DEF At
<1> QED
  BY <1>1, BoundsAssumption DEF JobIds

\* The parts of the type that the proofs below use.
LEMMA Typed ==
  ASSUME EngineTypeOK
  PROVE  /\ nextValue \in Nat /\ faults \in Nat
         /\ DOMAIN rows \subseteq Nat
         /\ DOMAIN request = RequestThreads /\ DOMAIN worker = PoolThreads
         /\ \A h \in RequestThreads :
              request[h].pc # "idle" => request[h].job \in Job
         /\ \A w \in PoolThreads :
              worker[w].pc # "idle" => worker[w].job \in Job
PROOF
<1>1. nextValue \in Nat /\ DOMAIN rows \subseteq Nat
  BY BoundsAssumption DEF EngineTypeOK, StoreTypeOK, JobIds
<1>2. faults \in Nat
  <2>1. faults \in 0 .. MaxFaults
    BY DEF EngineTypeOK, MainTypeOK
  <2> QED
    BY <2>1, BoundsAssumption
<1>3. /\ DOMAIN request = RequestThreads
      /\ \A h \in RequestThreads :
           request[h].pc # "idle" => request[h].job \in Job
  BY DEF EngineTypeOK, RequestTypeOK
<1>4. /\ DOMAIN worker = PoolThreads
      /\ \A w \in PoolThreads :
           worker[w].pc # "idle" => worker[w].job \in Job
  BY DEF EngineTypeOK, WorkerTypeOK
<1> QED
  BY <1>1, <1>2, <1>3, <1>4

\* The id is at no other place than x, and the step takes it from there to y,
\* or drops it; every other id stays where it was.
Goes(id, from, x, to, y) ==
  /\ \A kind, z : At(kind, z, id) => kind = from /\ z = x
  /\ \A kind, z, i : At(kind, z, i)' =>
       \/ kind = to /\ z = y /\ i = id
       \/ At(kind, z, i) /\ Same(kind, z) /\ ~(kind = from /\ z = x)

\* A step that takes one id from one place to another, or keeps it there with
\* something else in the place, and changes no row but that id's.
LEMMA Moves ==
  ASSUME EngineTypeOK, Placed, NEW id, NEW from, NEW x, NEW to, NEW y,
         Goes(id, from, x, to, y), OnlyRow(id),
         At(to, y, id)' => Fits(to, y, id)'
  PROVE  Placed'
PROOF
<1>1. ASSUME NEW kind, NEW z, NEW i, At(kind, z, i)' , i # id
      PROVE  At(kind, z, i) /\ Fits(kind, z, i)'
  BY <1>1, StillFits, AtTyped DEF Placed, Goes
<1>2. ASSUME NEW kind, NEW z, At(kind, z, id)'
      PROVE  kind = to /\ z = y
  BY <1>2 DEF Goes
<1>3. ASSUME NEW kind, NEW z, NEW i, At(kind, z, i)'
      PROVE  /\ Fits(kind, z, i)'
             /\ \A other, u : At(other, u, i)' => other = kind /\ u = z
  BY <1>1, <1>2, <1>3 DEF Placed
<1> QED
  BY <1>3 DEF Placed

-----------------------------------------------------------------------------
(* What the table's statements change. *)

\* The next place in the code of a request thread.
LEMMA RequestGoesOn ==
  ASSUME EngineTypeOK, NEW h \in RequestThreads, NEW pc,
         request' = [request EXCEPT ![h].pc = pc]
  PROVE  request'[h].pc = pc /\ request'[h].job = request[h].job
BY DEF EngineTypeOK, RequestTypeOK

\* The next place in the code of a pool thread.
LEMMA WorkerGoesOn ==
  ASSUME EngineTypeOK, NEW w \in PoolThreads, NEW pc,
         worker' = [worker EXCEPT ![w].pc = pc]
  PROVE  /\ worker'[w].pc = pc /\ worker'[w].job = worker[w].job
         /\ worker'[w].attemptsMade = worker[w].attemptsMade
BY DEF EngineTypeOK, WorkerTypeOK

\* A step that leaves the table alone changes no row, whatever fails.
LEMMA TableStays ==
  ASSUME EngineTypeOK, NEW id, UNCHANGED tableVars,
         UNCHANGED boundVars \/ StatementFails
  PROVE  OnlyRow(id)
PROOF
<1>1. nextValue \in Nat /\ nextValue' = nextValue /\ rows' = rows
  BY BoundsAssumption DEF EngineTypeOK, StoreTypeOK, tableVars
<1>2. faults' = faults \/ faults' = faults + 1
  BY DEF boundVars, StatementFails
<1>3. faults \in Nat
  BY Typed
<1> QED
  BY <1>1, <1>2, <1>3 DEF OnlyRow

\* An UPDATE changes the row it names.
LEMMA RowChanges ==
  ASSUME EngineTypeOK, NEW id, NEW status, NEW attempts, NEW reason,
         NEW result, NEW at, id \in DOMAIN rows,
         UpdateRow(id, status, attempts, reason, result, at),
         UNCHANGED boundVars
  PROVE  /\ OnlyRow(id)
         /\ id \in DOMAIN rows'
         /\ rows'[id].spec = rows[id].spec /\ rows'[id].status = status
         /\ rows'[id].attemptsMade = attempts /\ rows'[id].availableAt = at
PROOF
<1>1. nextValue \in Nat /\ nextValue' = nextValue
  BY BoundsAssumption DEF EngineTypeOK, StoreTypeOK, UpdateRow
<1>2. rows \in [DOMAIN rows -> Row]
  BY DEF EngineTypeOK, StoreTypeOK
<1>3. OnlyRow(id)
  BY <1>1, <1>2, Typed DEF OnlyRow, UpdateRow, boundVars
<1> QED
  BY <1>2, <1>3 DEF UpdateRow

-----------------------------------------------------------------------------
(* Steps of the threads move one id at most. *)

\* A step that moves nothing and leaves the table alone.
LEMMA Stands ==
  ASSUME EngineTypeOK, Placed, UNCHANGED tableVars, UNCHANGED boundVars,
         \A kind, z, i : At(kind, z, i)' => At(kind, z, i) /\ Same(kind, z)
  PROVE  Placed'
PROOF
<1>1. ASSUME NEW kind, NEW z, NEW i, At(kind, z, i)'
      PROVE  /\ Fits(kind, z, i)'
             /\ \A other, u : At(other, u, i)' => other = kind /\ u = z
  <2>1. i \in Nat /\ At(kind, z, i) /\ Same(kind, z)
    BY <1>1, AtTyped
  <2> PICK other : other = i + 1
    OBVIOUS
  <2>2. i # other /\ OnlyRow(other)
    BY <2>1, TableStays
  <2>3. Fits(kind, z, i)'
    BY <2>1, <2>2, StillFits DEF Placed
  <2> QED
    BY <1>1, <2>3 DEF Placed
<1> QED
  BY <1>1 DEF Placed

\* A place that a step does not touch holds what it held.
LEMMA Untouched ==
  ASSUME NEW kind, NEW z, NEW i, At(kind, z, i)',
         kind = "request" => UNCHANGED request,
         kind = "queue" => UNCHANGED queue,
         kind = "scheduler" => UNCHANGED delayedJobs,
         kind = "scheduler thread" => UNCHANGED schedulerHand,
         kind = "dispatcher" => UNCHANGED dispatcher,
         kind = "task" => UNCHANGED tasks,
         kind = "worker" => UNCHANGED worker,
         kind = "read" => UNCHANGED toRestore,
         kind = "recovering" => UNCHANGED recovering
  PROVE  At(kind, z, i) /\ Same(kind, z)
PROOF
<1>1. CASE kind \in {"request", "worker"}
  BY <1>1 DEF At, Same
<1>2. CASE kind \in {"queue", "scheduler", "task"}
  BY <1>2 DEF At, Same
<1>3. CASE kind \in {"scheduler thread", "dispatcher"}
  BY <1>3 DEF At, Same
<1>4. CASE kind \in {"read", "recovering"}
  BY <1>4 DEF At, Same
<1> QED
  BY <1>1, <1>2, <1>3, <1>4 DEF At

\* What the table says about a job, by the place the job is at.
LEMMA PlacedJobs ==
  ASSUME Placed
  PROVE  /\ \A h \in RequestThreads : request[h].pc = "routing" =>
              Ready(request[h].job)
         /\ \A entry \in queue \cup delayedJobs : Ready(entry.job)
         /\ schedulerHand # NULL => Ready(schedulerHand)
         /\ dispatcher.pc = "enqueueing" => Ready(dispatcher.job)
         /\ \A task \in tasks : Ready(task.function)
         /\ \A w \in PoolThreads :
              /\ worker[w].pc \in {"starting", "rerouting"} => Ready(worker[w].job)
              /\ worker[w].pc \in {"processing", "completing", "retrying"} => Runs(w)
              /\ worker[w].pc = "failing" => MayFail(w)
         /\ \A snapshot \in toRestore : Current(snapshot)
         /\ recovering # NULL => Current(recovering)
PROOF
<1>1. ASSUME NEW h \in RequestThreads, request[h].pc = "routing"
      PROVE  Ready(request[h].job)
  <2>1. At("request", h, request[h].job.id)
    BY <1>1 DEF At
  <2> QED
    BY <1>1, <2>1 DEF Placed, Fits
<1>2. ASSUME NEW entry \in queue \cup delayedJobs PROVE Ready(entry.job)
  <2>1. At("queue", entry, entry.job.id) \/ At("scheduler", entry, entry.job.id)
    BY DEF At
  <2> QED
    BY <2>1 DEF Placed, Fits
<1>3. schedulerHand # NULL => Ready(schedulerHand)
  <2>1. schedulerHand # NULL => At("scheduler thread", 0, schedulerHand.id)
    BY DEF At
  <2>2. schedulerHand # NULL => Fits("scheduler thread", 0, schedulerHand.id)
    BY <2>1 DEF Placed
  <2> QED
    BY <2>2 DEF Fits
<1>4. dispatcher.pc = "enqueueing" => Ready(dispatcher.job)
  <2>1. dispatcher.pc = "enqueueing" => At("dispatcher", 0, dispatcher.job.id)
    BY DEF At
  <2>2. dispatcher.pc = "enqueueing" => Fits("dispatcher", 0, dispatcher.job.id)
    BY <2>1 DEF Placed
  <2> QED
    BY <2>2 DEF Fits
<1>5. ASSUME NEW task \in tasks PROVE Ready(task.function)
  <2>1. At("task", task, task.function.id)
    BY DEF At
  <2> QED
    BY <2>1 DEF Placed, Fits
<1>6. ASSUME NEW w \in PoolThreads
      PROVE  /\ worker[w].pc \in {"starting", "rerouting"} => Ready(worker[w].job)
             /\ worker[w].pc \in {"processing", "completing", "retrying"} => Runs(w)
             /\ worker[w].pc = "failing" => MayFail(w)
  <2>1. worker[w].pc # "idle" => At("worker", w, worker[w].job.id)
    BY DEF At
  <2>2. worker[w].pc # "idle" => Fits("worker", w, worker[w].job.id)
    BY <2>1 DEF Placed
  <2> QED
    BY <2>2 DEF Fits
<1>7. ASSUME NEW snapshot \in toRestore PROVE Current(snapshot)
  <2>1. At("read", snapshot, snapshot.job.id)
    BY DEF At
  <2> QED
    BY <2>1 DEF Placed, Fits
<1>8. recovering # NULL => Current(recovering)
  <2>1. recovering # NULL => At("recovering", 0, recovering.job.id)
    BY DEF At
  <2> QED
    BY <2>1 DEF Placed, Fits
<1> QED
  BY <1>1, <1>2, <1>3, <1>4, <1>5, <1>6, <1>7, <1>8

\* When a job becomes available, by the place the job is at.
LEMMA PlacedTimes ==
  ASSUME Placed, NEW kind, NEW x, NEW id, At(kind, x, id)
  PROVE  OnTime(kind, x, id)
BY DEF Placed, Fits

\* The step takes a job from place x, and puts none in other places than the
\* queue and the scheduler.
Leaves(from, x) ==
  \A kind, z, i :
    At(kind, z, i)' /\ kind \notin {"queue", "scheduler"} =>
      At(kind, z, i) /\ Same(kind, z) /\ ~(kind = from /\ z = x)

\* A job that is ready goes to the queue or to the scheduler, or nowhere when
\* the queue is shut down.
LEMMA RouteMoves ==
  ASSUME EngineTypeOK, Placed, NEW job, NEW delay, Route(job, delay),
         NEW from, NEW x, from \notin {"queue", "scheduler"},
         At(from, x, job.id), Ready(job),
         delay \in Nat, DueWithin(job.id, delay),
         UNCHANGED tableVars, UNCHANGED boundVars, Leaves(from, x)
  PROVE  Placed'
PROOF
<1> PICK id : id = job.id
  OBVIOUS
<1>1. OnlyRow(id)
  BY TableStays
<1>2. \A kind, z : At(kind, z, id) => kind = from /\ z = x
  BY DEF Placed
<1>3. id < nextValue' /\ Ready(job)' /\ DueWithin(id, delay)'
  BY DEF Placed, Fits, Ready, AcceptsStart, tableVars, DueWithin, Comes
<1>4. CASE delay > 0
  <2> PICK entry : entry = [readyIn |-> delay, job |-> job]
    OBVIOUS
  <2>1. queue' = queue /\ delayedJobs' = delayedJobs \cup {entry}
    BY <1>4 DEF Route, ScheduleAt, jobQueueVars
  <2>2. Goes(id, from, x, "scheduler", entry)
    <3> SUFFICES ASSUME NEW kind, NEW z, NEW i, At(kind, z, i)'
                 PROVE  \/ kind = "scheduler" /\ z = entry /\ i = id
                        \/ /\ At(kind, z, i) /\ Same(kind, z)
                           /\ ~(kind = from /\ z = x)
      BY <1>2 DEF Goes
    <3>1. CASE kind = "scheduler"
      <4>1. z \in delayedJobs' /\ z.job.id = i
        BY <3>1 DEF At
      <4>2. z = entry => i = id
        BY <4>1
      <4>3. z \in delayedJobs => At(kind, z, i)
        BY <3>1, <4>1 DEF At
      <4> QED
        BY <2>1, <3>1, <4>1, <4>2, <4>3 DEF Same
    <3>2. CASE kind = "queue"
      BY <2>1, <3>2, Untouched
    <3>3. CASE kind \notin {"queue", "scheduler"}
      BY <3>3 DEF Leaves
    <3> QED
      BY <3>1, <3>2, <3>3
  <2>3. Fits("scheduler", entry, id)'
    BY <1>3 DEF Fits, OnTime
  <2> QED
    BY <1>1, <2>2, <2>3, Moves
<1>5. CASE ~(delay > 0)
  <2> PICK entry : entry = [sequence |-> nextSequence, job |-> job]
    OBVIOUS
  <2>1. queue' \in {queue, queue \cup {entry}} /\ delayedJobs' = delayedJobs
    BY <1>5 DEF Route, Push, delayVars
  <2>2. Goes(id, from, x, "queue", entry)
    <3> SUFFICES ASSUME NEW kind, NEW z, NEW i, At(kind, z, i)'
                 PROVE  \/ kind = "queue" /\ z = entry /\ i = id
                        \/ /\ At(kind, z, i) /\ Same(kind, z)
                           /\ ~(kind = from /\ z = x)
      BY <1>2 DEF Goes
    <3>1. CASE kind = "queue"
      <4>1. z \in queue' /\ z.job.id = i
        BY <3>1 DEF At
      <4>2. z = entry => i = id
        BY <4>1
      <4>3. z \in queue => At(kind, z, i)
        BY <3>1, <4>1 DEF At
      <4> QED
        BY <2>1, <3>1, <4>1, <4>2, <4>3 DEF Same
    <3>2. CASE kind = "scheduler"
      BY <2>1, <3>2, Untouched
    <3>3. CASE kind \notin {"queue", "scheduler"}
      BY <3>3 DEF Leaves
    <3> QED
      BY <3>1, <3>2, <3>3
  <2>3. delay = 0
    BY <1>5
  <2>4. Fits("queue", entry, id)'
    BY <1>3, <2>3 DEF Fits, OnTime
  <2> QED
    BY <1>1, <2>2, <2>4, Moves
<1> QED
  BY <1>4, <1>5

\* A step of a request thread that takes one id from it, puts one in, or
\* keeps it.
LEMMA RequestGoes ==
  ASSUME EngineTypeOK, NEW h \in RequestThreads, NEW id,
         \A kind, z : At(kind, z, id) => kind = "request" /\ z = h,
         request'[h].pc = "idle" \/ request'[h].job.id = id,
         \A other \in RequestThreads : other # h => request'[other] = request[other],
         UNCHANGED <<queue, delayedJobs, schedulerHand, dispatcher, tasks,
                     worker, restoreVars>>
  PROVE  Goes(id, "request", h, "request", h)
PROOF
<1> SUFFICES ASSUME NEW kind, NEW z, NEW i, At(kind, z, i)'
             PROVE  \/ kind = "request" /\ z = h /\ i = id
                    \/ /\ At(kind, z, i) /\ Same(kind, z)
                       /\ ~(kind = "request" /\ z = h)
  BY DEF Goes
<1>1. CASE kind = "request"
  BY <1>1 DEF At, Same
<1>2. CASE kind # "request"
  BY <1>2 DEF At, Same, restoreVars
<1> QED
  BY <1>1, <1>2

\* The steps of a request thread, with no id in the table or at a place that
\* was not handed out.
LEMMA RequestThreadMoves ==
  ASSUME EngineTypeOK, EngineTypeOK', Placed,
         \A id \in DOMAIN rows : id < nextValue,
         NEW h \in RequestThreads, NEW spec \in Specs,
         GenerateId(h, spec) \/ RequestThread(h)
  PROVE  Placed'
PROOF
<1>1. CASE GenerateId(h, spec)
  <2> PICK id : id = nextValue
    OBVIOUS
  <2>1. id \in Nat /\ nextValue' = id + 1 /\ rows' = rows
    BY <1>1, Typed DEF GenerateId, GenerateJobId
  <2>2. OnlyRow(id)
    BY <1>1, <2>1, Typed DEF OnlyRow, GenerateId, boundVars
  <2>3. \A kind, z : At(kind, z, id) => kind = "request" /\ z = h
    <3> SUFFICES ASSUME NEW kind, NEW z, At(kind, z, id) PROVE FALSE
      OBVIOUS
    <3>1. Fits(kind, z, id)
      BY DEF Placed
    <3>2. nextValue < nextValue
      BY <3>1 DEF Fits
    <3> QED
      BY <2>1, <3>2
  <2>4. /\ request'[h].pc = "saving" /\ request'[h].job.id = id
        /\ \A other \in RequestThreads : other # h => request'[other] = request[other]
    BY <1>1, Typed DEF GenerateId
  <2>5. Goes(id, "request", h, "request", h)
    BY <1>1, <2>3, <2>4, RequestGoes
    DEF GenerateId, delayVars, jobQueueVars, taskVars
  <2>6. Fits("request", h, id)'
    <3>1. id \notin DOMAIN rows' /\ id < nextValue'
      BY <2>1
    <3>2. /\ request'[h].availableAt = AvailableAt(spec.delay)
          /\ request'[h].job.spec = spec
      BY <1>1, Typed DEF GenerateId
    <3>3. spec.delay \in Nat
      BY SpecsAssumption
    <3>4. OnTime("request", h, id)'
      BY <2>4, <3>2, <3>3 DEF OnTime, Comes, AvailableAt
    <3> QED
      BY <2>4, <3>1, <3>4 DEF Fits
  <2> QED
    BY <2>2, <2>5, <2>6, Moves
<1>2. CASE SaveJob(h)
  <2> PICK id : id = request[h].job.id
    OBVIOUS
  <2>1. At("request", h, id) /\ request[h].pc = "saving"
    BY <1>2 DEF SaveJob, At
  <2>2. /\ request'[h].pc = "idle" \/ request'[h].job.id = id
        /\ \A other \in RequestThreads : other # h => request'[other] = request[other]
    BY <1>2, RequestGoesOn, Typed DEF SaveJob, IdleRequest
  <2>3. Goes(id, "request", h, "request", h)
    BY <1>2, <2>1, <2>2, RequestGoes
    DEF Placed, SaveJob, delayVars, jobQueueVars, taskVars
  <2>4. CASE /\ Save(request[h].job, request[h].availableAt)
             /\ request' = [request EXCEPT ![h].pc = "routing"]
             /\ UNCHANGED boundVars
    <3>1. nextValue' = nextValue /\ nextValue \in Nat
      BY <2>4, Typed DEF Save
    <3>2. OnlyRow(id)
      BY <2>4, <3>1, Typed DEF OnlyRow, Save, boundVars
    <3>3. request[h].job \in Job
      BY <2>1, Typed
    <3>4. request'[h].job = request[h].job /\ request'[h].pc = "routing"
      BY <2>4, RequestGoesOn
    <3>5. Ready(request[h].job)'
      BY <2>4, <3>3, <3>4, SpecsAssumption DEF Ready, AcceptsStart, Save, Job
    <3>6. id < nextValue
      BY <2>1 DEF Placed, Fits
    <3>8. rows'[id].availableAt = request[h].availableAt
      BY <2>4 DEF Save
    <3>9. Comes(request[h].availableAt, request[h].job.spec.delay)
      BY <2>1, PlacedTimes DEF OnTime
    <3>10. OnTime("request", h, id)'
      BY <3>4, <3>8, <3>9 DEF OnTime, DueWithin, Comes
    <3>7. Fits("request", h, id)'
      BY <3>1, <3>4, <3>5, <3>6, <3>10 DEF Fits
    <3> QED
      BY <2>3, <3>2, <3>7, Moves
  <2>5. CASE StatementFails /\ request' = [request EXCEPT ![h] = IdleRequest]
    <3>1. OnlyRow(id)
      BY <2>5, TableStays DEF StatementFails
    <3>2. ~At("request", h, id)'
      BY <2>1, <2>5, Typed DEF At, IdleRequest
    <3> QED
      BY <2>3, <3>1, <3>2, Moves
  <2> QED
    BY <1>2, <2>4, <2>5 DEF SaveJob
<1>3. CASE RouteJob(h)
  <2> PICK id : id = request[h].job.id
    OBVIOUS
  <2>1. At("request", h, id) /\ Ready(request[h].job)
    BY <1>3, PlacedJobs DEF RouteJob, At
  <2>2. /\ request'[h].pc = "idle"
        /\ \A other \in RequestThreads : other # h => request'[other] = request[other]
    BY <1>3, Typed DEF RouteJob, IdleRequest
  <2>3. Leaves("request", h)
    <3> SUFFICES ASSUME NEW kind, NEW z, NEW i, At(kind, z, i)',
                        kind \notin {"queue", "scheduler"}
                 PROVE  /\ At(kind, z, i) /\ Same(kind, z)
                        /\ ~(kind = "request" /\ z = h)
      BY DEF Leaves
    <3>1. CASE kind = "request"
      BY <2>2, <3>1 DEF At, Same
    <3>2. CASE kind # "request"
      BY <1>3, <3>2 DEF RouteJob, At, Same, restoreVars, taskVars
    <3> QED
      BY <3>1, <3>2
  <2> PICK job : job = request[h].job
    OBVIOUS
  <2>4. job.spec.delay \in Nat /\ DueWithin(job.id, job.spec.delay)
    <3>1. request[h].pc = "routing" /\ request[h].job \in Job
      BY <1>3, Typed DEF RouteJob
    <3>2. job.spec.delay \in Nat
      BY <3>1, SpecsAssumption DEF Job
    <3>3. OnTime("request", h, id)
      BY <2>1, PlacedTimes
    <3> QED
      BY <3>1, <3>2, <3>3 DEF OnTime
  <2> PICK delay : delay = job.spec.delay
    OBVIOUS
  <2>5. Route(job, delay) /\ UNCHANGED tableVars /\ UNCHANGED boundVars
    BY <1>3 DEF RouteJob
  <2> QED
    BY <2>1, <2>3, <2>4, <2>5, RouteMoves
<1> QED
  BY <1>1, <1>2, <1>3 DEF RequestThread

\* The steps of the dispatcher thread.
LEMMA DispatcherMoves ==
  ASSUME EngineTypeOK, EngineTypeOK', Placed, Dispatcher
  PROVE  Placed'
PROOF
<1>1. CASE DispatcherLoop
  <2>1. ASSUME NEW kind, NEW z, NEW i, At(kind, z, i)'
        PROVE  At(kind, z, i) /\ Same(kind, z)
    <3>1. kind # "dispatcher"
      BY <1>1, <2>1 DEF DispatcherLoop, At, EngineTypeOK, DispatcherTypeOK
    <3> QED
      BY <1>1, <2>1, <3>1, Untouched
      DEF DispatcherLoop, jobQueueVars, taskVars, delayVars, restoreVars
  <2> QED
    BY <1>1, <2>1, Stands DEF DispatcherLoop
<1>2. CASE DispatcherPop
  <2>1. ASSUME NEW entry \in queue, PopJob(entry),
               dispatcher' = [pc |-> "enqueueing", job |-> entry.job]
        PROVE  Placed'
    <3> PICK id : id = entry.job.id
      OBVIOUS
    <3>1. At("queue", entry, id) /\ Ready(entry.job)
      BY PlacedJobs DEF At
    <3>2. Goes(id, "queue", entry, "dispatcher", 0)
      <4> SUFFICES ASSUME NEW kind, NEW z, NEW i, At(kind, z, i)'
                   PROVE  \/ kind = "dispatcher" /\ z = 0 /\ i = id
                          \/ /\ At(kind, z, i) /\ Same(kind, z)
                             /\ ~(kind = "queue" /\ z = entry)
        BY <3>1 DEF Goes, Placed
      <4>1. CASE kind = "dispatcher"
        BY <2>1, <4>1 DEF At
      <4>2. CASE kind = "queue"
        BY <2>1, <4>2 DEF PopJob, At, Same
      <4>3. CASE kind \notin {"dispatcher", "queue"}
        BY <1>2, <4>3, Untouched
        DEF DispatcherPop, taskVars, delayVars, restoreVars
      <4> QED
        BY <4>1, <4>2, <4>3
    <3>3. OnlyRow(id)
      BY <1>2, TableStays DEF DispatcherPop
    <3>4. id < nextValue /\ nextValue' = nextValue /\ rows' = rows
      BY <1>2, <3>1 DEF DispatcherPop, Placed, Fits, tableVars
    <3>5. OnTime("dispatcher", 0, id)'
      BY <3>1, <3>4, PlacedTimes DEF OnTime, DueWithin, Comes
    <3>6. Fits("dispatcher", 0, id)'
      BY <2>1, <3>1, <3>4, <3>5 DEF Fits, Ready, AcceptsStart
    <3> QED
      BY <3>2, <3>3, <3>6, Moves
  <2>2. CASE PopNothing /\ dispatcher' = [dispatcher EXCEPT !.pc = "returned"]
    <3>1. ASSUME NEW kind, NEW z, NEW i, At(kind, z, i)'
          PROVE  At(kind, z, i) /\ Same(kind, z)
      <4>1. kind # "dispatcher"
        BY <2>2, <3>1 DEF At, EngineTypeOK, DispatcherTypeOK
      <4> QED
        BY <1>2, <2>2, <3>1, <4>1, Untouched
        DEF DispatcherPop, PopNothing, taskVars, delayVars, restoreVars
    <3> QED
      BY <1>2, <3>1, Stands DEF DispatcherPop
  <2> QED
    BY <1>2, <2>1, <2>2 DEF DispatcherPop, PopJob, IsTop
<1>3. CASE DispatcherEnqueue
  <2> PICK task : task = [priority |-> dispatcher.job.spec.priority,
                          sequence |-> nextTaskSequence,
                          function |-> dispatcher.job]
    OBVIOUS
  <2> PICK id : id = task.function.id
    OBVIOUS
  <2>1. At("dispatcher", 0, id) /\ Ready(task.function)
    BY <1>3, PlacedJobs DEF DispatcherEnqueue, At
  <2>2. Goes(id, "dispatcher", 0, "task", task)
    <3> SUFFICES ASSUME NEW kind, NEW z, NEW i, At(kind, z, i)'
                 PROVE  \/ kind = "task" /\ z = task /\ i = id
                        \/ /\ At(kind, z, i) /\ Same(kind, z)
                           /\ ~(kind = "dispatcher" /\ z = 0)
      BY <2>1 DEF Goes, Placed
    <3>1. CASE kind = "dispatcher"
      BY <1>3, <3>1 DEF DispatcherEnqueue, At
    <3>2. CASE kind = "task"
      BY <1>3, <3>2 DEF DispatcherEnqueue, Enqueue, At, Same
    <3>3. CASE kind \notin {"dispatcher", "task"}
      BY <1>3, <3>3, Untouched
      DEF DispatcherEnqueue, jobQueueVars, delayVars, restoreVars
    <3> QED
      BY <3>1, <3>2, <3>3
  <2>3. OnlyRow(id)
    BY <1>3, TableStays DEF DispatcherEnqueue
  <2>4. id < nextValue /\ nextValue' = nextValue /\ rows' = rows
    BY <1>3, <2>1 DEF DispatcherEnqueue, Placed, Fits, tableVars
  <2>5. OnTime("task", task, id)'
    BY <2>1, <2>4, PlacedTimes DEF OnTime, DueWithin, Comes
  <2>6. Fits("task", task, id)'
    BY <2>1, <2>4, <2>5 DEF Fits, Ready, AcceptsStart
  <2> QED
    BY <2>2, <2>3, <2>6, Moves
<1> QED
  BY <1>1, <1>2, <1>3 DEF Dispatcher

\* A step of a pool thread that keeps its job or drops it.
LEMMA WorkerGoes ==
  ASSUME EngineTypeOK, Placed, NEW w \in PoolThreads, worker[w].pc # "idle",
         NEW id, id = worker[w].job.id,
         NEW next, worker' = [worker EXCEPT ![w] = next],
         next.pc = "idle" \/ next.job.id = id,
         UNCHANGED <<queue, delayedJobs, schedulerHand, dispatcher, tasks,
                     request, restoreVars>>
  PROVE  Goes(id, "worker", w, "worker", w)
PROOF
<1>1. At("worker", w, id)
  BY DEF At
<1>2. /\ worker'[w] = next
      /\ \A other \in PoolThreads : other # w => worker'[other] = worker[other]
  BY Typed
<1> SUFFICES ASSUME NEW kind, NEW z, NEW i, At(kind, z, i)'
             PROVE  \/ kind = "worker" /\ z = w /\ i = id
                    \/ /\ At(kind, z, i) /\ Same(kind, z)
                       /\ ~(kind = "worker" /\ z = w)
  BY <1>1 DEF Goes, Placed
<1>3. CASE kind = "worker"
  BY <1>2, <1>3 DEF At, Same
<1>4. CASE kind # "worker"
  BY <1>4, Untouched DEF restoreVars
<1> QED
  BY <1>3, <1>4

\* A pool thread whose statement succeeds, or that goes on without one.
LEMMA WorkerMoves ==
  ASSUME EngineTypeOK, Placed, NEW w \in PoolThreads, worker[w].pc # "idle",
         NEW next, worker' = [worker EXCEPT ![w] = next],
         next.pc = "idle" \/ next.job.id = worker[w].job.id,
         UNCHANGED <<queue, delayedJobs, schedulerHand, dispatcher, tasks,
                     request, restoreVars>>,
         OnlyRow(worker[w].job.id),
         next.pc \in {"starting", "rerouting"} => Ready(next.job)',
         next.pc \in {"processing", "completing", "retrying"} => Runs(w)',
         next.pc = "failing" => MayFail(w)',
         OnTime("worker", w, worker[w].job.id)'
  PROVE  Placed'
PROOF
<1> PICK id : id = worker[w].job.id
  OBVIOUS
<1>1. Goes(id, "worker", w, "worker", w)
  BY WorkerGoes
<1>2. At("worker", w, id)
  BY DEF At
<1>3. id < nextValue /\ nextValue \in Nat /\ nextValue' \in Nat
      /\ nextValue <= nextValue'
  BY <1>2 DEF Placed, Fits, OnlyRow
<1>4. worker'[w] = next
  BY Typed
<1>5. At("worker", w, id)' => Fits("worker", w, id)'
  <2>1. id \in Nat /\ id < nextValue'
    BY <1>2, <1>3, AtTyped
  <2>2. At("worker", w, id)' => OnTime("worker", w, id)'
    BY DEF At, OnTime
  <2> QED
    BY <1>4, <2>1, <2>2 DEF Fits
<1> QED
  BY <1>1, <1>5, Moves

\* A task whose statement fails stores that in the row, if the row is not
\* over.
LEMMA CatchesMoves ==
  ASSUME EngineTypeOK, Placed, NEW w \in PoolThreads, worker[w].pc # "idle",
         NEW reason, Catches(w, reason),
         UNCHANGED <<queue, delayedJobs, schedulerHand, dispatcher, tasks,
                     request, restoreVars>>,
         UNCHANGED tableVars,
         (UNCHANGED boundVars /\ Runs(w)) \/ StatementFails,
         worker[w].job.id \in DOMAIN rows,
         ~IsTerminal(rows[worker[w].job.id].status),
         Explains(reason, worker[w].job.id)
  PROVE  Placed'
PROOF
<1> PICK next : next = Progress("failing", worker[w].job,
                                worker[w].attemptsMade, NULL, reason)
  OBVIOUS
<1>1. /\ worker' = [worker EXCEPT ![w] = next]
      /\ next.pc = "failing" /\ next.job.id = worker[w].job.id
      /\ worker'[w].job = worker[w].job /\ worker'[w].reason = reason
  BY Typed DEF Catches, Progress
<1>2. OnlyRow(worker[w].job.id)
  BY TableStays
<1>3. faults' = 0 => Runs(w)
  BY Typed DEF StatementFails
<1>4. MayFail(w)'
  <2>1. rows' = rows
    BY DEF tableVars
  <2> QED
    BY <1>1, <1>3, <2>1 DEF MayFail, Runs, Explains
<1>5. OnTime("worker", w, worker[w].job.id)'
  BY <1>1, Typed DEF OnTime
<1> QED
  BY <1>1, <1>2, <1>4, <1>5, WorkerMoves

\* A pool thread takes a task.
LEMMA TakeTaskMoves ==
  ASSUME EngineTypeOK, Placed, NEW w \in PoolThreads, TakeTask(w)
  PROVE  Placed'
PROOF
<1> PICK task \in tasks :
      /\ Take(task)
      /\ worker' = [worker EXCEPT ![w] =
                      Progress("starting", task.function, 0, NULL, NULL)]
  BY DEF TakeTask
<1> PICK id : id = task.function.id
  OBVIOUS
<1>1. At("task", task, id) /\ Ready(task.function)
  BY PlacedJobs DEF At
<1>2. /\ worker'[w].pc = "starting" /\ worker'[w].job = task.function
      /\ worker[w].pc = "idle"
      /\ \A other \in PoolThreads : other # w => worker'[other] = worker[other]
  BY Typed DEF TakeTask, Progress
<1>3. Goes(id, "task", task, "worker", w)
  <2> SUFFICES ASSUME NEW kind, NEW z, NEW i, At(kind, z, i)'
               PROVE  \/ kind = "worker" /\ z = w /\ i = id
                      \/ /\ At(kind, z, i) /\ Same(kind, z)
                         /\ ~(kind = "task" /\ z = task)
    BY <1>1 DEF Goes, Placed
  <2>1. CASE kind = "worker"
    BY <1>2, <2>1 DEF At, Same
  <2>2. CASE kind = "task"
    BY <2>2 DEF Take, At, Same
  <2>3. CASE kind \notin {"worker", "task"}
    BY <2>3, Untouched DEF TakeTask, jobQueueVars, delayVars, restoreVars
  <2> QED
    BY <2>1, <2>2, <2>3
<1>4. OnlyRow(id)
  BY TableStays DEF TakeTask
<1>5. id < nextValue /\ nextValue' = nextValue /\ rows' = rows
  BY <1>1 DEF TakeTask, Placed, Fits, tableVars
<1>6. OnTime("worker", w, id)'
  BY <1>1, <1>2, <1>5, PlacedTimes DEF OnTime, DueWithin, Comes
<1>7. Fits("worker", w, id)'
  BY <1>1, <1>2, <1>5, <1>6 DEF Fits, Ready, AcceptsStart
<1> QED
  BY <1>3, <1>4, <1>7, Moves

\* The rows that a pool thread that is about to execute a statement meets.
LEMMA WorkerRow ==
  ASSUME Placed, NEW w \in PoolThreads, worker[w].pc # "idle",
         worker[w].pc \in {"starting", "processing", "completing", "failing",
                           "retrying", "rerouting"}
  PROVE  /\ worker[w].job.id \in DOMAIN rows
         /\ ~IsTerminal(rows[worker[w].job.id].status)
PROOF
<1>1. CASE worker[w].pc \in {"starting", "rerouting"}
  BY <1>1, PlacedJobs DEF Ready, AcceptsStart, IsTerminal
<1>2. CASE worker[w].pc \in {"processing", "completing", "retrying"}
  BY <1>2, PlacedJobs DEF Runs, IsTerminal
<1>3. CASE worker[w].pc = "failing"
  BY <1>3, PlacedJobs DEF MayFail
<1> QED
  BY <1>1, <1>2, <1>3

\* The steps of a pool thread that runs a task.
LEMMA PoolThreadMoves ==
  ASSUME EngineTypeOK, EngineTypeOK', Placed, AttemptsWithinLimit,
         NEW w \in PoolThreads, PoolThread(w)
  PROVE  Placed'
PROOF
<1> DEFINE job == worker[w].job
<1> DEFINE OthersStay == UNCHANGED <<queue, delayedJobs, schedulerHand,
                                     dispatcher, tasks, request, restoreVars>>
<1>0. IdleWorker.pc = "idle"
  BY DEF IdleWorker, Progress
<1>a. ASSUME worker'[w].pc \in {"idle", "processing", "completing"}, NEW id
      PROVE  OnTime("worker", w, id)'
  BY <1>a DEF OnTime
<1>b. worker' = [worker EXCEPT ![w] = IdleWorker] => worker'[w].pc = "idle"
  BY <1>0, Typed
<1>1. CASE TakeTask(w)
  BY <1>1, TakeTaskMoves
<1>2. CASE StartJob(w)
  <2>1. worker[w].pc = "starting" /\ OthersStay
    BY <1>2 DEF StartJob, jobQueueVars, taskVars, delayVars
  <2>2. job \in Job /\ Ready(job)
    BY <2>1, PlacedJobs, Typed
  <2>3. CASE /\ StartAttempt(job.id)
             /\ worker' = [worker EXCEPT ![w] =
                  Progress("processing", job, rows'[job.id].attemptsMade,
                           NULL, NULL)]
             /\ UNCHANGED boundVars
    <3> PICK count : count = rows'[job.id].attemptsMade
      OBVIOUS
    <3> PICK next : next = Progress("processing", job, count, NULL, NULL)
      OBVIOUS
    <3>1. /\ worker' = [worker EXCEPT ![w] = next] /\ next.pc = "processing"
          /\ next.job = job /\ next.attemptsMade = count
          /\ worker'[w] = next
      BY <2>3, Typed DEF Progress
    <3>2. /\ OnlyRow(job.id) /\ job.id \in DOMAIN rows'
          /\ rows'[job.id].spec = job.spec /\ rows'[job.id].status = "active"
          /\ rows'[job.id].attemptsMade = count
      BY <2>2, <2>3, RowChanges DEF StartAttempt, AcceptsStart, Ready
    <3>3. Runs(w)'
      BY <3>1, <3>2 DEF Runs
    <3> QED
      BY <1>a, <2>1, <3>1, <3>2, <3>3, WorkerMoves
  <2>4. CASE StatementFails /\ Catches(w, "not started")
    BY <2>1, <2>4, WorkerRow, CatchesMoves DEF StatementFails, Explains
  <2> QED
    BY <1>2, <2>3, <2>4 DEF StartJob
<1>3. CASE Process(w)
  <2>1. /\ worker[w].pc = "processing" /\ OthersStay
        /\ UNCHANGED tableVars /\ UNCHANGED boundVars
    BY <1>3 DEF Process, jobQueueVars, taskVars, delayVars
  <2>2. job \in Job /\ Runs(w)
    BY <2>1, PlacedJobs, Typed
  <2>3. OnlyRow(job.id)
    BY <2>1, TableStays
  <2>4. CASE worker' = [worker EXCEPT ![w].pc = "completing"]
    <3> PICK next : next = [worker[w] EXCEPT !.pc = "completing"]
      OBVIOUS
    <3>1. /\ worker' = [worker EXCEPT ![w] = next] /\ worker'[w] = next
      BY <2>4, Typed
    <3>2. /\ worker'[w].pc = "completing" /\ worker'[w].job = job
          /\ worker'[w].attemptsMade = worker[w].attemptsMade
      BY <2>4, WorkerGoesOn
    <3>3. Runs(w)'
      BY <2>1, <2>2, <3>2 DEF Runs, tableVars
    <3> QED
      BY <1>a, <2>1, <2>3, <3>1, <3>2, <3>3, WorkerMoves
  <2>5. CASE worker' = [worker EXCEPT ![w] =
                  Progress("retrying", job, worker[w].attemptsMade,
                           AvailableAt(TaskRetryDelay(w)), NULL)]
    <3> PICK next : next = Progress("retrying", job, worker[w].attemptsMade,
                                    AvailableAt(TaskRetryDelay(w)), NULL)
      OBVIOUS
    <3>1. /\ worker' = [worker EXCEPT ![w] = next] /\ worker'[w] = next
          /\ next.pc = "retrying" /\ next.job = job
          /\ next.attemptsMade = worker[w].attemptsMade
      BY <2>5, Typed DEF Progress
    <3>2. Runs(w)'
      BY <2>1, <2>2, <3>1 DEF Runs, tableVars
    <3>3. TaskRetryDelay(w)' = TaskRetryDelay(w) /\ TaskRetryDelay(w) \in Nat
      <4>1. job.spec \in Specs /\ worker'[w].attemptsMade = worker[w].attemptsMade
        BY <2>2, <3>1 DEF Job
      <4>2. worker[w].attemptsMade \in Nat
        BY DEF EngineTypeOK, WorkerTypeOK
      <4>3. worker[w].attemptsMade < job.spec.maxAttempts
        BY <3>1 DEF EngineTypeOK, WorkerTypeOK
      <4> QED
        BY <3>1, <4>1, <4>2, <4>3, RetryDelayType DEF TaskRetryDelay
    <3>4. worker'[w].availableAt = AvailableAt(TaskRetryDelay(w))
      BY <3>1 DEF Progress
    <3>5. OnTime("worker", w, job.id)'
      BY <3>1, <3>3, <3>4 DEF OnTime, Comes, AvailableAt
    <3> QED
      BY <2>1, <2>3, <3>1, <3>2, <3>5, WorkerMoves
  <2>6. CASE ~HasAttemptsRemaining(w) /\ Catches(w, "exhausted")
    <3>1. /\ rows[job.id].attemptsMade = worker[w].attemptsMade
          /\ rows[job.id].spec = job.spec /\ job.id \in DOMAIN rows
      BY <2>2 DEF Runs
    <3>2. rows[job.id].attemptsMade <= rows[job.id].spec.maxAttempts
      BY <3>1 DEF AttemptsWithinLimit
    <3>3. rows[job.id].attemptsMade \in Nat /\ rows[job.id].spec.maxAttempts \in Nat
      BY <3>1, SpecsAssumption DEF EngineTypeOK, StoreTypeOK, Row
    <3>4. rows[job.id].attemptsMade = rows[job.id].spec.maxAttempts
      BY <2>6, <3>1, <3>2, <3>3 DEF HasAttemptsRemaining
    <3>5. Explains("exhausted", job.id)
      BY <3>4 DEF Explains
    <3> QED
      BY <2>1, <2>2, <2>6, <3>5, WorkerRow, CatchesMoves
  <2>7. CASE Catches(w, "permanent")
    <3>1. Explains("permanent", job.id)
      BY DEF Explains
    <3> QED
      BY <2>1, <2>2, <2>7, <3>1, WorkerRow, CatchesMoves
  <2> QED
    BY <1>3, <2>4, <2>5, <2>6, <2>7 DEF Process
<1>4. CASE Complete(w)
  <2>1. worker[w].pc = "completing" /\ OthersStay
    BY <1>4 DEF Complete, jobQueueVars, taskVars, delayVars
  <2>2. CASE /\ MarkCompleted(job.id, "result")
             /\ worker' = [worker EXCEPT ![w] = IdleWorker]
             /\ UNCHANGED boundVars
    <3>1. OnlyRow(job.id)
      BY <2>2, RowChanges DEF MarkCompleted, AcceptsOutcome
    <3> QED
      BY <1>0, <1>a, <1>b, <2>1, <2>2, <3>1, WorkerMoves
  <2>3. CASE StatementFails /\ Catches(w, "not completed")
    BY <2>1, <2>3, WorkerRow, CatchesMoves DEF StatementFails, Explains
  <2> QED
    BY <1>4, <2>2, <2>3 DEF Complete
<1>5. CASE Fail(w)
  <2>1. /\ worker[w].pc = "failing" /\ OthersStay
        /\ worker' = [worker EXCEPT ![w] = IdleWorker]
    BY <1>5 DEF Fail, jobQueueVars, taskVars, delayVars
  <2>2. OnlyRow(job.id)
    BY <1>5, RowChanges, TableStays
    DEF Fail, MarkFailed, AcceptsOutcome, StatementFails
  <2> QED
    BY <1>0, <1>a, <1>b, <2>1, <2>2, WorkerMoves
<1>6. CASE Retry(w)
  <2>1. worker[w].pc = "retrying" /\ OthersStay
    BY <1>6 DEF Retry, jobQueueVars, taskVars, delayVars
  <2>2. CASE /\ MarkWaiting(job.id, worker[w].availableAt)
             /\ worker' = [worker EXCEPT ![w].pc = "rerouting"]
             /\ UNCHANGED boundVars
    <3> PICK next : next = [worker[w] EXCEPT !.pc = "rerouting"]
      OBVIOUS
    <3>1. /\ worker' = [worker EXCEPT ![w] = next] /\ worker'[w] = next
      BY <2>2, Typed
    <3>2. worker'[w].pc = "rerouting" /\ worker'[w].job = job
      BY <2>2, WorkerGoesOn
    <3>3. /\ OnlyRow(job.id) /\ job.id \in DOMAIN rows'
          /\ rows'[job.id].spec = rows[job.id].spec
          /\ rows'[job.id].status = "waiting"
          /\ rows'[job.id].attemptsMade = rows[job.id].attemptsMade
          /\ rows'[job.id].availableAt = worker[w].availableAt
      BY <2>2, RowChanges DEF MarkWaiting, AcceptsWaiting
    <3>4. /\ worker[w].attemptsMade < job.spec.maxAttempts
      BY <2>1 DEF EngineTypeOK, WorkerTypeOK
    <3>5. next.job = job /\ next.pc = "rerouting" /\ Runs(w)
      BY <2>1, <3>1, <3>2, PlacedJobs
    <3>6. Ready(job)'
      BY <3>2, <3>3, <3>4, <3>5 DEF Runs, Ready, AcceptsStart
    <3>7. Ready(next.job)'
      BY <3>1, <3>2, <3>6
    <3>8. Comes(worker[w].availableAt, TaskRetryDelay(w))
      BY <2>1, PlacedTimes DEF OnTime, At
    <3>9. TaskRetryDelay(w)' = TaskRetryDelay(w)
      BY <2>2, WorkerGoesOn DEF TaskRetryDelay
    <3>10. OnTime("worker", w, job.id)'
      BY <3>2, <3>3, <3>8, <3>9 DEF OnTime, DueWithin, Comes
    <3> QED
      BY <2>1, <3>1, <3>3, <3>5, <3>7, <3>10, WorkerMoves
  <2>3. CASE StatementFails /\ worker' = [worker EXCEPT ![w] = IdleWorker]
    <3>1. OnlyRow(job.id)
      BY <2>3, TableStays DEF StatementFails
    <3> QED
      BY <1>0, <1>a, <1>b, <2>1, <2>3, <3>1, WorkerMoves
  <2> QED
    BY <1>6, <2>2, <2>3 DEF Retry
<1>7. CASE Reroute(w)
  <2> PICK held : held = worker[w].job
    OBVIOUS
  <2>1. /\ worker[w].pc = "rerouting" /\ At("worker", w, held.id)
        /\ Ready(held)
    BY <1>7, PlacedJobs DEF Reroute, At
  <2>2. /\ worker'[w].pc = "idle"
        /\ \A other \in PoolThreads : other # w => worker'[other] = worker[other]
    BY <1>0, <1>7, Typed DEF Reroute
  <2>3. Leaves("worker", w)
    <3> SUFFICES ASSUME NEW kind, NEW z, NEW i, At(kind, z, i)',
                        kind \notin {"queue", "scheduler"}
                 PROVE  /\ At(kind, z, i) /\ Same(kind, z)
                        /\ ~(kind = "worker" /\ z = w)
      BY DEF Leaves
    <3>1. CASE kind = "worker"
      BY <2>2, <3>1 DEF At, Same
    <3>2. CASE kind # "worker"
      BY <1>7, <3>2, Untouched DEF Reroute, restoreVars, taskVars
    <3> QED
      BY <3>1, <3>2
  <2> PICK delay : delay = TaskRetryDelay(w)
    OBVIOUS
  <2>4. Route(held, delay) /\ UNCHANGED tableVars /\ UNCHANGED boundVars
    BY <1>7 DEF Reroute
  <2>5. delay \in Nat
    <3>1. /\ held.spec \in Specs /\ worker[w].attemptsMade \in Nat
          /\ worker[w].attemptsMade < held.spec.maxAttempts
      BY <2>1 DEF EngineTypeOK, WorkerTypeOK, Job
    <3> QED
      BY <3>1, RetryDelayType DEF TaskRetryDelay
  <2>6. DueWithin(held.id, delay)
    BY <2>1, PlacedTimes DEF OnTime
  <2> QED
    BY <2>1, <2>3, <2>4, <2>5, <2>6, RouteMoves
<1> QED
  BY <1>1, <1>2, <1>3, <1>4, <1>5, <1>6, <1>7 DEF PoolThread

\* The steps of the scheduler thread.
LEMMA SchedulerThreadMoves ==
  ASSUME EngineTypeOK, Placed, SchedulerThread PROVE Placed'
PROOF
<1>1. CASE SchedulerTakes
  <2> PICK entry \in delayedJobs : TakeDue(entry) /\ schedulerHand' = entry.job
    BY <1>1 DEF SchedulerTakes
  <2> PICK id : id = entry.job.id
    OBVIOUS
  <2>1. At("scheduler", entry, id) /\ Ready(entry.job)
    BY PlacedJobs DEF At
  <2>2. \A kind, z : At(kind, z, id) => kind = "scheduler" /\ z = entry
    <3>1. At("scheduler", entry, id)
      BY <2>1
    <3> QED
      BY <3>1 DEF Placed
  <2>3. Goes(id, "scheduler", entry, "scheduler thread", 0)
    <3> SUFFICES ASSUME NEW kind, NEW z, NEW i, At(kind, z, i)'
                 PROVE  \/ kind = "scheduler thread" /\ z = 0 /\ i = id
                        \/ /\ At(kind, z, i) /\ Same(kind, z)
                           /\ ~(kind = "scheduler" /\ z = entry)
      BY <2>2 DEF Goes
    <3>1. CASE kind = "scheduler thread"
      BY <3>1 DEF At
    <3>2. CASE kind = "scheduler"
      BY <3>2 DEF TakeDue, At, Same
    <3>3. CASE kind \notin {"scheduler", "scheduler thread"}
      BY <1>1, <3>3, Untouched
      DEF SchedulerTakes, jobQueueVars, taskVars, restoreVars
    <3> QED
      BY <3>1, <3>2, <3>3
  <2>4. OnlyRow(id)
    BY <1>1, TableStays DEF SchedulerTakes
  <2>5. id < nextValue /\ nextValue' = nextValue /\ rows' = rows
    BY <1>1, <2>1 DEF SchedulerTakes, Placed, Fits, tableVars
  <2>6. OnTime("scheduler thread", 0, id)'
    <3>1. DueWithin(id, 0)
      BY <2>1, PlacedTimes DEF OnTime, TakeDue
    <3> QED
      BY <2>5, <3>1 DEF OnTime, DueWithin, Comes
  <2>7. Fits("scheduler thread", 0, id)'
    BY <2>1, <2>5, <2>6 DEF Fits, Ready, AcceptsStart
  <2> QED
    BY <2>3, <2>4, <2>7, Moves
<1>2. CASE SchedulerPushes
  <2> PICK job : job = schedulerHand
    OBVIOUS
  <2>1. At("scheduler thread", 0, job.id) /\ Ready(job)
    BY <1>2, PlacedJobs DEF SchedulerPushes, At
  <2>2. Leaves("scheduler thread", 0)
    <3> SUFFICES ASSUME NEW kind, NEW z, NEW i, At(kind, z, i)',
                        kind \notin {"queue", "scheduler"}
                 PROVE  /\ At(kind, z, i) /\ Same(kind, z)
                        /\ ~(kind = "scheduler thread" /\ z = 0)
      BY DEF Leaves
    <3>1. kind # "scheduler thread"
      BY <1>2 DEF SchedulerPushes, At
    <3> QED
      BY <1>2, <3>1, Untouched DEF SchedulerPushes, restoreVars, taskVars
  <2>3. Route(job, 0) /\ UNCHANGED tableVars /\ UNCHANGED boundVars
    BY <1>2 DEF SchedulerPushes, Route
  <2>4. DueWithin(job.id, 0)
    BY <2>1, PlacedTimes DEF OnTime
  <2> QED
    BY <2>1, <2>2, <2>3, <2>4, RouteMoves
<1> QED
  BY <1>1, <1>2 DEF SchedulerThread

\* Nothing is in the memory of a process that has just started or died.
LEMMA FreshMemoryEmpty ==
  ASSUME FreshMemory, NEW kind, NEW z, NEW i PROVE ~At(kind, z, i)'
PROOF
<1>1. CASE kind \in {"request", "worker"}
  BY <1>1 DEF FreshMemory, At, IdleRequest, IdleWorker, Progress
<1>2. CASE kind \in {"queue", "scheduler", "task", "read"}
  BY <1>2 DEF FreshMemory, At
<1>3. CASE kind \in {"scheduler thread", "dispatcher", "recovering"}
  BY <1>3 DEF FreshMemory, At
<1> QED
  BY <1>1, <1>2, <1>3 DEF At

\* So the invariant holds of such a memory.
LEMMA FreshMemoryPlaced ==
  ASSUME FreshMemory PROVE Placed'
BY FreshMemoryEmpty DEF Placed

\* A step of restoreUnfinished that keeps the row it handles or drops it.
LEMMA RecoveringGoes ==
  ASSUME Placed, recovering # NULL, NEW id, id = recovering.job.id,
         recovering' = NULL \/ recovering'.job.id = id,
         UNCHANGED <<queue, delayedJobs, tasks, toRestore, threadVars>>
  PROVE  Goes(id, "recovering", 0, "recovering", 0)
PROOF
<1>1. At("recovering", 0, id)
  BY DEF At
<1> SUFFICES ASSUME NEW kind, NEW z, NEW i, At(kind, z, i)'
             PROVE  \/ kind = "recovering" /\ z = 0 /\ i = id
                    \/ /\ At(kind, z, i) /\ Same(kind, z)
                       /\ ~(kind = "recovering" /\ z = 0)
  BY <1>1 DEF Goes, Placed
<1>2. CASE kind = "recovering"
  BY <1>2 DEF At
<1>3. CASE kind # "recovering"
  BY <1>3, Untouched DEF threadVars
<1> QED
  BY <1>2, <1>3

\* The steps of restoreUnfinished after it has read the table.
LEMMA RestoreMoves ==
  ASSUME EngineTypeOK, Placed,
         RestoreNext \/ RestoreFail \/ RestoreWaiting \/ RestoreRoute
  PROVE  Placed'
PROOF
<1>0. CASE Dies
  BY <1>0, FreshMemoryPlaced DEF Dies
<1>1. CASE RestoreNext
  <2> PICK snapshot \in toRestore :
        recovering' = snapshot /\ toRestore' = toRestore \ {snapshot}
    BY <1>1 DEF RestoreNext
  <2> PICK id : id = snapshot.job.id
    OBVIOUS
  <2>1. At("read", snapshot, id) /\ Current(snapshot)
    BY PlacedJobs DEF At
  <2>2. Goes(id, "read", snapshot, "recovering", 0)
    <3> SUFFICES ASSUME NEW kind, NEW z, NEW i, At(kind, z, i)'
                 PROVE  \/ kind = "recovering" /\ z = 0 /\ i = id
                        \/ /\ At(kind, z, i) /\ Same(kind, z)
                           /\ ~(kind = "read" /\ z = snapshot)
      BY <2>1 DEF Goes, Placed
    <3>1. CASE kind = "recovering"
      BY <3>1 DEF At
    <3>2. CASE kind = "read"
      BY <3>2 DEF At, Same
    <3>3. CASE kind \notin {"read", "recovering"}
      BY <1>1, <3>3, Untouched
      DEF RestoreNext, jobQueueVars, taskVars, delayVars, threadVars
    <3> QED
      BY <3>1, <3>2, <3>3
  <2>3. OnlyRow(id)
    BY <1>1, TableStays DEF RestoreNext
  <2>4. id < nextValue /\ nextValue' = nextValue /\ rows' = rows
    BY <1>1, <2>1 DEF RestoreNext, Placed, Fits, tableVars
  <2>5. OnTime("recovering", 0, id)'
    BY <2>1, <2>4, PlacedTimes DEF OnTime, DueWithin, Comes, RemainingDelay
  <2>6. Fits("recovering", 0, id)'
    BY <2>1, <2>4, <2>5 DEF Fits, Current
  <2> QED
    BY <2>2, <2>3, <2>6, Moves
<1>2. CASE RestoreFail /\ ~Dies
  <2> PICK id : id = recovering.job.id
    OBVIOUS
  <2>1. Goes(id, "recovering", 0, "recovering", 0)
    BY <1>2, RecoveringGoes DEF RestoreFail, jobQueueVars, taskVars, delayVars
  <2>2. OnlyRow(id)
    BY <1>2, RowChanges DEF RestoreFail, MarkFailed, AcceptsOutcome
  <2>3. ~At("recovering", 0, id)'
    BY <1>2 DEF RestoreFail, At
  <2> QED
    BY <2>1, <2>2, <2>3, Moves
<1>3. CASE RestoreWaiting /\ ~Dies
  <2> PICK id : id = recovering.job.id
    OBVIOUS
  <2>1. /\ recovering # NULL /\ MarkWaiting(id, NULL)
        /\ UNCHANGED boundVars
        /\ recovering' = [job |-> recovering.job, status |-> "waiting",
                          attemptsMade |-> recovering.attemptsMade,
                          availableAt |-> NULL]
    BY <1>3 DEF RestoreWaiting
  <2>2. Goes(id, "recovering", 0, "recovering", 0)
    BY <1>3, <2>1, RecoveringGoes
    DEF RestoreWaiting, jobQueueVars, taskVars, delayVars
  <2>3. /\ OnlyRow(id) /\ id \in DOMAIN rows'
        /\ rows'[id].spec = rows[id].spec /\ rows'[id].status = "waiting"
        /\ rows'[id].attemptsMade = rows[id].attemptsMade
        /\ rows'[id].availableAt = NULL
    BY <2>1, RowChanges DEF MarkWaiting, AcceptsWaiting
  <2>4. At("recovering", 0, id) /\ Current(recovering)
    BY <2>1, PlacedJobs DEF At
  <2>5. id < nextValue /\ nextValue' = nextValue
    BY <2>1, <2>4 DEF Placed, Fits, MarkWaiting, UpdateRow
  <2>6. Current(recovering)'
    BY <2>1, <2>3, <2>4 DEF Current, IsTerminal
  <2>7. OnTime("recovering", 0, id)'
    BY <2>3 DEF OnTime, DueWithin, Comes
  <2>8. Fits("recovering", 0, id)'
    BY <2>5, <2>6, <2>7 DEF Fits
  <2> QED
    BY <2>2, <2>3, <2>8, Moves
<1>4. CASE RestoreRoute
  <2> PICK job : job = recovering.job
    OBVIOUS
  <2> PICK delay : delay = IF recovering.availableAt = NULL THEN 0
                           ELSE recovering.availableAt
    OBVIOUS
  <2>1. At("recovering", 0, job.id) /\ Current(recovering)
    BY <1>4, PlacedJobs DEF RestoreRoute, At
  <2>2. Ready(job)
    BY <1>4, <2>1 DEF RestoreRoute, Current, Ready, AcceptsStart
  <2>3. Leaves("recovering", 0)
    <3> SUFFICES ASSUME NEW kind, NEW z, NEW i, At(kind, z, i)',
                        kind \notin {"queue", "scheduler"}
                 PROVE  /\ At(kind, z, i) /\ Same(kind, z)
                        /\ ~(kind = "recovering" /\ z = 0)
      BY DEF Leaves
    <3>1. kind # "recovering"
      BY <1>4 DEF RestoreRoute, At
    <3> QED
      BY <1>4, <3>1, Untouched DEF RestoreRoute, taskVars, threadVars
  <2>4. Route(job, delay) /\ UNCHANGED tableVars /\ UNCHANGED boundVars
    BY <1>4 DEF RestoreRoute
  <2>5. delay \in Nat
    BY <2>1 DEF EngineTypeOK, RestoreTypeOK, Snapshot, At
  <2>6. DueWithin(job.id, delay)
    BY <2>1, PlacedTimes DEF OnTime, RemainingDelay
  <2> QED
    BY <2>1, <2>2, <2>3, <2>4, <2>5, <2>6, RouteMoves
<1> QED
  BY <1>0, <1>1, <1>2, <1>3, <1>4

-----------------------------------------------------------------------------
(* The invariant. *)

\* Every id in the table was handed out.
IdsHandedOut == \A id \in DOMAIN rows : id < nextValue

\* A thread that is not busy with a job does not hold one.
IdleThreadsHoldNothing ==
  /\ \A h \in RequestThreads : request[h].pc = "idle" => request[h].job = NULL
  /\ \A w \in PoolThreads : worker[w].pc = "idle" => worker[w].job = NULL
  /\ dispatcher.pc # "enqueueing" => dispatcher.job = NULL

\* Nothing is in memory before the table is read.
EmptyBeforeRead ==
  mainPc \in {"down", "starting", "reading"} =>
    \A kind, x, id : ~At(kind, x, id)

\* An instant to wait for is only set while a row waits, and a row that waits
\* has an attempt left.
WaitingRows ==
  \A id \in DOMAIN rows :
    /\ rows[id].availableAt # NULL => rows[id].status = "waiting"
    /\ rows[id].status = "waiting" =>
         rows[id].attemptsMade < rows[id].spec.maxAttempts

EngineInv ==
  /\ EngineTypeOK /\ Placed /\ IdsHandedOut /\ IdleThreadsHoldNothing
  /\ EmptyBeforeRead /\ WaitingRows /\ AttemptsWithinLimit

\* restoreUnfinished reads the table into an empty memory.
LEMMA ReadUnfinishedMoves ==
  ASSUME EngineInv, ReadUnfinished PROVE Placed'
PROOF
<1>1. CASE Dies
  BY <1>1, FreshMemoryPlaced DEF Dies
<1>2. CASE ~Dies
  <2>1. /\ mainPc = "reading" /\ toRestore' = Unfinished /\ rows' = rows
        /\ nextValue' = nextValue
    BY <1>2 DEF ReadUnfinished, Main, tableVars
  <2>2. ASSUME NEW kind, NEW z, NEW i, At(kind, z, i)'
        PROVE  kind = "read" /\ z \in Unfinished /\ z.job.id = i
    <3>1. CASE kind = "read"
      BY <2>1, <2>2, <3>1 DEF At
    <3>2. CASE kind # "read"
      <4>1. At(kind, z, i)
        BY <1>2, <2>2, <3>2, Untouched
        DEF ReadUnfinished, jobQueueVars, taskVars, delayVars, threadVars
      <4> QED
        BY <2>1, <4>1 DEF EngineInv, EmptyBeforeRead
    <3> QED
      BY <3>1, <3>2
  <2>3. ASSUME NEW z \in Unfinished
        PROVE  /\ z.job.id \in DOMAIN rows /\ Current(z)
               /\ z = [job |-> [id |-> z.job.id, spec |-> rows[z.job.id].spec],
                       status |-> rows[z.job.id].status,
                       attemptsMade |-> rows[z.job.id].attemptsMade,
                       availableAt |-> rows[z.job.id].availableAt]
    BY DEF Unfinished, ReadBack, Current
  <2>4. ASSUME NEW kind, NEW z, NEW i, At(kind, z, i)' PROVE Fits(kind, z, i)'
    <3>1. kind = "read" /\ z.job.id = i /\ i \in DOMAIN rows /\ Current(z)
      BY <2>2, <2>3, <2>4
    <3>2. i < nextValue' /\ Current(z)'
      BY <2>1, <3>1 DEF EngineInv, IdsHandedOut, Current
    <3>3. z.availableAt = rows[i].availableAt
      BY <2>2, <2>3, <2>4
    <3>4. rows[i].availableAt \in Nat \cup {NULL}
      BY <3>1 DEF EngineInv, EngineTypeOK, StoreTypeOK, Row
    <3>5. OnTime(kind, z, i)'
      BY <2>1, <3>1, <3>3, <3>4 DEF OnTime, DueWithin, Comes, RemainingDelay
    <3> QED
      BY <3>1, <3>2, <3>5 DEF Fits
  <2>5. ASSUME NEW kind, NEW z, NEW i, At(kind, z, i)',
               NEW other, NEW u, At(other, u, i)'
        PROVE  other = kind /\ u = z
    BY <2>2, <2>3, <2>5
  <2> QED
    BY <2>4, <2>5 DEF Placed
<1> QED
  BY <1>1, <1>2

\* The steps of main and of the process that move no job.
LEMMA MainStands ==
  ASSUME EngineTypeOK, Placed,
         \/ SchedulerStart \/ WorkerStart \/ HttpServerStart \/ HttpServerStop
         \/ WorkerStop \/ PoolStop \/ SchedulerStop \/ RequestStop
         \/ UNCHANGED vars
  PROVE  Placed' /\ \A kind, z, i : At(kind, z, i)' => At(kind, z, i)
PROOF
<1>1. /\ UNCHANGED <<queue, tasks, delayedJobs, request, worker, schedulerHand,
                     restoreVars, tableVars, boundVars>>
      /\ dispatcher' = dispatcher \/ dispatcher'.pc = "loop"
  <2>1. CASE SchedulerStart \/ WorkerStart
    BY <2>1 DEF SchedulerStart, StartScheduler, WorkerStart, jobQueueVars,
                taskVars, delayVars, threadVars
  <2>2. CASE HttpServerStart \/ HttpServerStop \/ RequestStop
    BY <2>2 DEF HttpServerStart, HttpServerStop, RequestStop, jobQueueVars,
                taskVars, delayVars, threadVars
  <2>3. CASE WorkerStop
    BY <2>3 DEF WorkerStop, Shutdown, jobQueueVars, taskVars, delayVars
  <2>4. CASE PoolStop
    BY <2>4 DEF PoolStop, StopPool, jobQueueVars, taskVars, delayVars, threadVars
  <2>5. CASE SchedulerStop
    BY <2>5 DEF SchedulerStop, StopScheduler, jobQueueVars, taskVars, delayVars,
                threadVars
  <2>6. CASE UNCHANGED vars
    BY <2>6 DEF vars, jobQueueVars, taskVars, delayVars, threadVars
  <2> QED
    BY <2>1, <2>2, <2>3, <2>4, <2>5, <2>6
<1>2. ASSUME NEW kind, NEW z, NEW i, At(kind, z, i)'
      PROVE  At(kind, z, i) /\ Same(kind, z)
  <2>1. CASE kind = "dispatcher"
    BY <1>1, <1>2, <2>1 DEF At, Same
  <2>2. CASE kind # "dispatcher"
    BY <1>1, <1>2, <2>2, Untouched DEF restoreVars
  <2> QED
    BY <2>1, <2>2
<1> QED
  BY <1>1, <1>2, Stands

\* A place after one unit of time; the jobs in it are the same.
Aged(kind, y) ==
  IF kind = "scheduler" THEN [y EXCEPT !.readyIn = Elapsed(@)]
  ELSE IF kind = "read" THEN [y EXCEPT !.availableAt = Later(@)]
  ELSE y

\* Time changes no place but by the time that remains.
LEMMA TickPlaces ==
  ASSUME EngineTypeOK, Tick, NEW kind, NEW z, NEW i, At(kind, z, i)'
  PROVE  \E y : At(kind, y, i) /\ z = Aged(kind, y)
PROOF
<1>1. CASE kind = "request"
  BY <1>1, Typed DEF Tick, At, Aged
<1>2. CASE kind = "worker"
  BY <1>2, Typed DEF Tick, At, Aged
<1>3. CASE kind = "scheduler"
  <2>1. PICK y \in delayedJobs : z = [y EXCEPT !.readyIn = Elapsed(@)]
    BY <1>3 DEF Tick, At, ElapsedJobs
  <2>2. z.job = y.job /\ z.job.id = i
    BY <1>3, <2>1 DEF At, EngineTypeOK, SchedulerTypeOK, ScheduledJob
  <2> QED
    BY <1>3, <2>1, <2>2 DEF At, Aged
<1>4. CASE kind = "read"
  <2>1. PICK y \in toRestore : z = [y EXCEPT !.availableAt = Later(@)]
    BY <1>4 DEF Tick, At
  <2>2. z.job = y.job /\ z.job.id = i
    BY <1>4, <2>1 DEF At, EngineTypeOK, RestoreTypeOK, Snapshot
  <2> QED
    BY <1>4, <2>1, <2>2 DEF At, Aged
<1>5. CASE kind = "recovering"
  <2>1. recovering # NULL /\ recovering \in Snapshot /\ z = 0
    BY <1>5 DEF Tick, At, EngineTypeOK, RestoreTypeOK
  <2>2. recovering'.job = recovering.job /\ recovering'.job.id = i
    BY <1>5, <2>1 DEF Tick, At, Snapshot
  <2> QED
    BY <1>5, <2>1, <2>2 DEF At, Aged
<1>6. CASE kind \notin {"request", "worker", "scheduler", "read", "recovering"}
  <2>1. At(kind, z, i)
    BY <1>6, Untouched DEF Tick, jobQueueVars, taskVars
  <2> QED
    BY <1>6, <2>1 DEF Aged
<1> QED
  BY <1>1, <1>2, <1>3, <1>4, <1>5, <1>6

\* An instant that comes within some time comes within less, one unit later.
LEMMA LaterComes ==
  ASSUME NEW at \in Nat \cup {NULL}, NEW time \in Nat, Comes(at, time)
  PROVE  Comes(Later(at), time) /\ Comes(Later(at), Elapsed(time))
BY DEF Comes, Later, Elapsed

\* The same for the instant of a row.
LEMMA LaterDue ==
  ASSUME EngineTypeOK, Tick, NEW id \in DOMAIN rows, NEW time \in Nat,
         DueWithin(id, time)
  PROVE  Comes(rows'[id].availableAt, time)
         /\ Comes(rows'[id].availableAt, Elapsed(time))
PROOF
<1>1. rows[id].availableAt \in Nat \cup {NULL}
  BY DEF EngineTypeOK, StoreTypeOK, Row
<1>2. rows'[id].availableAt = Later(rows[id].availableAt)
  BY DEF Tick, EngineTypeOK, StoreTypeOK, Row
<1> QED
  BY <1>1, <1>2, LaterComes DEF DueWithin

\* The jobs at places are in the table, but for a request that is to be saved.
LEMMA PlacedRows ==
  ASSUME Placed, NEW kind, NEW x, NEW id, At(kind, x, id),
         kind = "request" => request[x].pc # "saving",
         EngineTypeOK
  PROVE  id \in DOMAIN rows
PROOF
<1>1. Fits(kind, x, id)
  BY DEF Placed
<1>2. CASE kind \in {"request", "queue", "scheduler", "task"}
  BY <1>1, <1>2 DEF At, Fits, Ready, AcceptsStart
<1>3. CASE kind \in {"scheduler thread", "dispatcher"}
  BY <1>1, <1>3 DEF At, Fits, Ready, AcceptsStart
<1>4. CASE kind = "worker"
  BY <1>1, <1>4 DEF At, Fits, Ready, AcceptsStart, Runs, MayFail, EngineTypeOK,
                    WorkerTypeOK
<1>5. CASE kind \in {"read", "recovering"}
  BY <1>1, <1>5 DEF At, Fits, Current
<1> QED
  BY <1>2, <1>3, <1>4, <1>5 DEF At

\* Time passes in memory and in the table alike.
LEMMA TickOnTime ==
  ASSUME EngineTypeOK, Placed, Tick, NEW kind, NEW z, NEW i, At(kind, z, i)'
  PROVE  OnTime(kind, z, i)'
PROOF
<1>1. PICK y : At(kind, y, i) /\ z = Aged(kind, y)
  BY TickPlaces
<1>2. OnTime(kind, y, i)
  BY <1>1, PlacedTimes
<1>3. ASSUME kind = "request" => request[y].pc # "saving",
             NEW time \in Nat, DueWithin(i, time)
      PROVE  Comes(rows'[i].availableAt, time)
             /\ Comes(rows'[i].availableAt, Elapsed(time))
  BY <1>1, <1>3, PlacedRows, LaterDue
<1>4. CASE kind = "request"
  <2>1. z = y /\ z \in RequestThreads /\ request[z].pc # "idle"
    BY <1>1, <1>4 DEF At, Aged
  <2>2. /\ request'[z].pc = request[z].pc /\ request'[z].job = request[z].job
        /\ request'[z].availableAt = Later(request[z].availableAt)
        /\ request[z].availableAt \in Nat \cup {NULL}
    BY <2>1 DEF Tick, EngineTypeOK, RequestTypeOK
  <2>3. request[z].job.spec.delay \in Nat
    BY <2>1, Typed, SpecsAssumption DEF Job
  <2>4. CASE request[z].pc = "saving"
    BY <1>2, <1>4, <2>1, <2>2, <2>3, <2>4, LaterComes DEF OnTime
  <2>5. CASE request[z].pc # "saving"
    BY <1>2, <1>3, <1>4, <2>1, <2>2, <2>3, <2>5 DEF OnTime, DueWithin
  <2> QED
    BY <2>4, <2>5
<1>5. CASE kind \in {"queue", "scheduler thread", "dispatcher", "task"}
  BY <1>2, <1>3, <1>5 DEF OnTime, DueWithin
<1>6. CASE kind = "scheduler"
  <2>1. y.readyIn \in Nat /\ z.readyIn = Elapsed(y.readyIn)
    BY <1>1, <1>6 DEF At, Aged, EngineTypeOK, SchedulerTypeOK, ScheduledJob
  <2>2. DueWithin(i, y.readyIn)
    BY <1>2, <1>6 DEF OnTime
  <2>3. Comes(rows'[i].availableAt, z.readyIn)
    BY <1>3, <1>6, <2>1, <2>2
  <2> QED
    BY <1>6, <2>3 DEF OnTime, DueWithin
<1>7. CASE kind = "worker"
  <2>1. z = y /\ z \in PoolThreads /\ worker[z].pc # "idle"
    BY <1>1, <1>7 DEF At, Aged
  <2>2. /\ worker'[z].pc = worker[z].pc /\ worker'[z].job = worker[z].job
        /\ worker'[z].attemptsMade = worker[z].attemptsMade
        /\ worker'[z].availableAt = Later(worker[z].availableAt)
        /\ worker[z].availableAt \in Nat \cup {NULL}
    BY <2>1 DEF Tick, EngineTypeOK, WorkerTypeOK
  <2>3. TaskRetryDelay(z)' = TaskRetryDelay(z)
    BY <2>2 DEF TaskRetryDelay
  <2>4. CASE worker[z].pc = "starting"
    BY <1>2, <1>3, <1>7, <2>1, <2>2, <2>4 DEF OnTime, DueWithin
  <2>5. CASE worker[z].pc \in {"retrying", "rerouting"}
    <3>1. /\ worker[z].job.spec \in Specs /\ worker[z].attemptsMade \in Nat
          /\ worker[z].attemptsMade < worker[z].job.spec.maxAttempts
      BY <2>1, <2>5 DEF EngineTypeOK, WorkerTypeOK, Job
    <3>2. TaskRetryDelay(z) \in Nat
      BY <3>1, RetryDelayType DEF TaskRetryDelay
    <3>3. CASE worker[z].pc = "retrying"
      BY <1>2, <1>7, <2>1, <2>2, <2>3, <3>2, <3>3, LaterComes DEF OnTime
    <3>4. CASE worker[z].pc = "rerouting"
      BY <1>2, <1>3, <1>7, <2>1, <2>2, <2>3, <3>2, <3>4 DEF OnTime, DueWithin
    <3> QED
      BY <2>5, <3>3, <3>4
  <2>6. CASE worker[z].pc \notin {"starting", "retrying", "rerouting"}
    BY <1>7, <2>2, <2>6 DEF OnTime
  <2> QED
    BY <2>4, <2>5, <2>6
<1>8. CASE kind = "read"
  <2>1. y \in Snapshot /\ z = [y EXCEPT !.availableAt = Later(@)]
    BY <1>1, <1>8 DEF At, Aged, EngineTypeOK, RestoreTypeOK
  <2>2. y.availableAt \in Nat \cup {NULL} /\ z.availableAt = Later(y.availableAt)
    BY <2>1 DEF Snapshot
  <2>3. RemainingDelay(y) \in Nat /\ RemainingDelay(z) = Elapsed(RemainingDelay(y))
    BY <2>2, BoundsAssumption DEF RemainingDelay, Later, Elapsed
  <2>4. DueWithin(i, RemainingDelay(y))
    BY <1>2, <1>8 DEF OnTime
  <2>5. Comes(rows'[i].availableAt, RemainingDelay(z))
    BY <1>3, <1>8, <2>3, <2>4
  <2> QED
    BY <1>8, <2>5 DEF OnTime, DueWithin, RemainingDelay
<1>9. CASE kind = "recovering"
  <2>1. recovering # NULL /\ recovering \in Snapshot
    BY <1>1, <1>9 DEF At, EngineTypeOK, RestoreTypeOK
  <2>2. /\ recovering.availableAt \in Nat \cup {NULL}
        /\ recovering'.availableAt = Later(recovering.availableAt)
    BY <2>1 DEF Tick, Snapshot
  <2>3. /\ RemainingDelay(recovering) \in Nat
        /\ RemainingDelay(recovering)' = Elapsed(RemainingDelay(recovering))
    BY <2>2, BoundsAssumption DEF RemainingDelay, Later, Elapsed
  <2>4. DueWithin(i, RemainingDelay(recovering))
    BY <1>2, <1>9 DEF OnTime
  <2>5. Comes(rows'[i].availableAt, RemainingDelay(recovering)')
    BY <1>3, <1>9, <2>3, <2>4
  <2> QED
    BY <1>9, <2>5 DEF OnTime, DueWithin
<1> QED
  BY <1>1, <1>4, <1>5, <1>6, <1>7, <1>8, <1>9 DEF At

\* The passing of time.
LEMMA TickMoves ==
  ASSUME EngineTypeOK, Placed, Tick PROVE Placed'
PROOF
<1>1. /\ DOMAIN rows' = DOMAIN rows
      /\ \A id \in DOMAIN rows :
           /\ rows'[id].status = rows[id].status
           /\ rows'[id].attemptsMade = rows[id].attemptsMade
           /\ rows'[id].spec = rows[id].spec
  BY DEF Tick, EngineTypeOK, StoreTypeOK, Row
<1>2. ASSUME NEW job, Ready(job) PROVE Ready(job)'
  BY <1>1, <1>2 DEF Ready, AcceptsStart
<1>3. nextValue' = nextValue /\ faults' = faults
  BY DEF Tick, boundVars
<1>a. ASSUME NEW kind, NEW z, NEW i, At(kind, z, i)' PROVE OnTime(kind, z, i)'
  BY <1>a, TickOnTime
<1>4. ASSUME NEW kind, NEW z, NEW i, At(kind, z, i)' PROVE Fits(kind, z, i)'
  <2>1. PICK y : At(kind, y, i) /\ z = Aged(kind, y)
    BY <1>4, TickPlaces
  <2>2. Fits(kind, y, i) /\ i < nextValue' /\ OnTime(kind, z, i)'
    BY <1>3, <1>4, <1>a, <2>1 DEF Placed, Fits
  <2>3. CASE kind = "request"
    <3>1. z = y /\ z \in RequestThreads /\ request[z].pc # "idle"
          /\ request[z].job.id = i
      BY <2>1, <2>3 DEF At, Aged
    <3>2. request'[z].pc = request[z].pc /\ request'[z].job = request[z].job
      BY <3>1 DEF Tick, EngineTypeOK, RequestTypeOK
    <3> QED
      BY <1>1, <1>2, <2>2, <2>3, <3>1, <3>2 DEF Fits
  <2>4. CASE kind = "worker"
    <3>1. z = y /\ z \in PoolThreads
      BY <2>1, <2>4 DEF At, Aged
    <3>2. /\ worker'[z].pc = worker[z].pc /\ worker'[z].job = worker[z].job
          /\ worker'[z].attemptsMade = worker[z].attemptsMade
          /\ worker'[z].reason = worker[z].reason
      BY <3>1 DEF Tick, EngineTypeOK, WorkerTypeOK
    <3>3. /\ Runs(z) => Runs(z)'
          /\ MayFail(z) => MayFail(z)'
          /\ Ready(worker[z].job) => Ready(worker[z].job)'
      BY <1>1, <1>3, <3>2 DEF Runs, MayFail, Explains, Ready, AcceptsStart
    <3> QED
      BY <2>2, <2>4, <3>1, <3>2, <3>3 DEF Fits
  <2>5. CASE kind = "scheduler"
    <3>1. y \in ScheduledJob
      BY <2>1, <2>5 DEF At, EngineTypeOK, SchedulerTypeOK
    <3>2. z.job = y.job
      BY <2>1, <2>5, <3>1 DEF Aged, ScheduledJob
    <3> QED
      BY <1>2, <2>2, <2>5, <3>2 DEF Fits
  <2>6. CASE kind = "read"
    <3>1. y \in Snapshot
      BY <2>1, <2>6 DEF At, EngineTypeOK, RestoreTypeOK
    <3>2. z.job = y.job /\ z.status = y.status /\ z.attemptsMade = y.attemptsMade
      BY <2>1, <2>6, <3>1 DEF Aged, Snapshot
    <3>3. Current(y)
      BY <2>2, <2>6 DEF Fits
    <3>4. Current(z)'
      BY <1>1, <3>2, <3>3 DEF Current
    <3> QED
      BY <2>2, <2>6, <3>4 DEF Fits
  <2>7. CASE kind = "recovering"
    <3>1. recovering \in Snapshot /\ recovering # NULL
      BY <2>1, <2>7 DEF At, EngineTypeOK, RestoreTypeOK
    <3>2. /\ recovering'.job = recovering.job
          /\ recovering'.status = recovering.status
          /\ recovering'.attemptsMade = recovering.attemptsMade
      BY <3>1 DEF Tick, Snapshot
    <3>3. Current(recovering)
      BY <2>2, <2>7 DEF Fits
    <3>4. Current(recovering)'
      BY <1>1, <3>2, <3>3 DEF Current
    <3> QED
      BY <2>2, <2>7, <3>4 DEF Fits
  <2>8. CASE kind \in {"queue", "task"}
    BY <1>2, <2>1, <2>2, <2>8 DEF Fits, Aged
  <2>9. CASE kind \in {"scheduler thread", "dispatcher"}
    <3>1. schedulerHand' = schedulerHand /\ dispatcher' = dispatcher
      BY DEF Tick
    <3> QED
      BY <1>2, <2>2, <2>9, <3>1 DEF Fits
  <2> QED
    BY <2>1, <2>3, <2>4, <2>5, <2>6, <2>7, <2>8, <2>9 DEF At
<1>5. ASSUME NEW kind, NEW z, NEW i, At(kind, z, i)',
             NEW other, NEW u, At(other, u, i)'
      PROVE  other = kind /\ u = z
  <2>1. PICK y : At(kind, y, i) /\ z = Aged(kind, y)
    BY <1>5, TickPlaces
  <2>2. PICK v : At(other, v, i) /\ u = Aged(other, v)
    BY <1>5, TickPlaces
  <2>3. other = kind /\ v = y
    BY <2>1, <2>2 DEF Placed
  <2> QED
    BY <2>1, <2>2, <2>3
<1> QED
  BY <1>4, <1>5 DEF Placed

-----------------------------------------------------------------------------
(* The invariant holds. *)

\* The steps of all threads and of main keep Placed.
LEMMA PlacedStep ==
  ASSUME EngineInv, EngineTypeOK', [Next]_vars PROVE Placed'
PROOF
<1> USE DEF EngineInv
<1>1. ASSUME NEW h \in RequestThreads,
             RequestThread(h) \/ \E spec \in Specs : GenerateId(h, spec)
      PROVE  Placed'
  <2>1. ASSUME Specs = {} PROVE ~RequestThread(h)
    BY <2>1 DEF RequestThread, SaveJob, RouteJob, EngineTypeOK, RequestTypeOK,
                Job
  <2> QED
    BY <1>1, <2>1, RequestThreadMoves DEF IdsHandedOut
<1>2. CASE Dispatcher
  BY <1>2, DispatcherMoves
<1>3. ASSUME NEW w \in PoolThreads, PoolThread(w) PROVE Placed'
  BY <1>3, PoolThreadMoves
<1>4. CASE SchedulerThread
  BY <1>4, SchedulerThreadMoves
<1>5. CASE Restore
  BY <1>5, RestoreMoves, ReadUnfinishedMoves DEF Restore
<1>6. CASE MainThread /\ ~Restore
  BY <1>6, MainStands DEF MainThread
<1>7. CASE Tick
  BY <1>7, TickMoves
<1>8. CASE Launch \/ Crash
  BY <1>8, FreshMemoryPlaced DEF Launch, Crash, Dies
<1>9. CASE RequestStop \/ Halted \/ UNCHANGED vars
  BY <1>9, MainStands DEF Halted
<1> QED
  BY <1>1, <1>2, <1>3, <1>4, <1>5, <1>6, <1>7, <1>8, <1>9 DEF Next

-----------------------------------------------------------------------------
(* What a step of the engine does to the table. *)

\* The reasons that lay the blame on a statement, and the jobs that a task is
\* about to fail for one of them.
Blames == {"not started", "not completed"}

BlamedTasks ==
  {worker[w].job.id : w \in {v \in PoolThreads :
     worker[v].pc = "failing" /\ worker[v].reason \in Blames}}

\* The statement that a step executes, if it executes one, and what is known
\* of the row it is executed on.
TableStep ==
  \/ UNCHANGED rows /\ nextValue' \in {nextValue, nextValue + 1}
  \/ /\ \E job \in Job, at \in Nat \cup {NULL} :
          job.id < nextValue /\ Save(job, at)
     /\ UNCHANGED boundVars
  \/ /\ \E id \in DOMAIN rows :
          \/ StartAttempt(id) /\ DueWithin(id, 0)
          \/ rows[id].status = "active" /\ MarkCompleted(id, "result")
          \/ /\ \E reason \in FailureReasons :
                  /\ MarkFailed(id, reason)
                  /\ Explains(reason, id)
                  /\ reason \in Blames => id \in BlamedTasks
             /\ ~IsTerminal(rows[id].status)
             /\ faults = 0 => rows[id].status = "active"
          \/ /\ \E at \in Nat \cup {NULL} : MarkWaiting(id, at)
             /\ rows[id].attemptsMade < rows[id].spec.maxAttempts
     /\ UNCHANGED boundVars
  \/ Tick

\* The statements of a pool thread.
LEMMA PoolThreadTable ==
  ASSUME EngineInv, NEW w \in PoolThreads, PoolThread(w) PROVE TableStep
PROOF
<1> DEFINE id == worker[w].job.id
<1> USE DEF EngineInv
<1>1. CASE UNCHANGED tableVars
  BY <1>1 DEF TableStep, tableVars
<1>2. CASE StartJob(w) /\ ~UNCHANGED tableVars
  <2>1. DueWithin(id, 0)
    BY <1>2, PlacedTimes DEF StartJob, At, OnTime
  <2> QED
    BY <1>2, <2>1
    DEF StartJob, StatementFails, StartAttempt, AcceptsStart, TableStep
<1>3. CASE Complete(w) /\ ~UNCHANGED tableVars
  <2>1. MarkCompleted(id, "result") /\ UNCHANGED boundVars
    BY <1>3 DEF Complete, StatementFails
  <2>2. id \in DOMAIN rows /\ rows[id].status = "active"
    BY <1>3, PlacedJobs DEF Complete, Runs
  <2> QED
    BY <2>1, <2>2 DEF TableStep
<1>4. CASE Fail(w) /\ ~UNCHANGED tableVars
  <2>1. MarkFailed(id, worker[w].reason) /\ UNCHANGED boundVars
    BY <1>4 DEF Fail, StatementFails
  <2>2. /\ id \in DOMAIN rows /\ ~IsTerminal(rows[id].status)
        /\ faults = 0 => rows[id].status = "active"
        /\ Explains(worker[w].reason, id)
        /\ worker[w].reason \in Blames => id \in BlamedTasks
    BY <1>4, PlacedJobs DEF Fail, MayFail, BlamedTasks
  <2>3. worker[w].reason \in FailureReasons
    BY <1>4 DEF Fail, EngineTypeOK, WorkerTypeOK
  <2> QED
    BY <2>1, <2>2, <2>3 DEF TableStep
<1>5. CASE Retry(w) /\ ~UNCHANGED tableVars
  <2>1. MarkWaiting(id, worker[w].availableAt) /\ UNCHANGED boundVars
    BY <1>5 DEF Retry, StatementFails
  <2>2. Runs(w) /\ id \in DOMAIN rows
    BY <1>5, PlacedJobs DEF Retry, Runs
  <2>3. /\ worker[w].attemptsMade < worker[w].job.spec.maxAttempts
        /\ worker[w].availableAt \in Nat \cup {NULL}
    BY <1>5 DEF Retry, EngineTypeOK, WorkerTypeOK
  <2>4. rows[id].attemptsMade < rows[id].spec.maxAttempts
    BY <2>2, <2>3 DEF Runs
  <2> QED
    BY <2>1, <2>2, <2>3, <2>4 DEF TableStep
<1> QED
  BY <1>1, <1>2, <1>3, <1>4, <1>5 DEF PoolThread, TakeTask, Process, Reroute

\* The statements of restoreUnfinished.
LEMMA RestoreTable ==
  ASSUME EngineInv, Restore PROVE TableStep
PROOF
<1> DEFINE id == recovering.job.id
<1> USE DEF EngineInv
<1>1. CASE UNCHANGED tableVars
  BY <1>1 DEF TableStep, tableVars
<1>2. CASE RestoreFail /\ ~UNCHANGED tableVars
  <2>1. /\ recovering # NULL /\ MarkFailed(id, "no attempts at recovery")
        /\ recovering.attemptsMade >= recovering.job.spec.maxAttempts
        /\ UNCHANGED boundVars
    BY <1>2 DEF RestoreFail, StatementFails
  <2>2. Current(recovering)
    BY <2>1, PlacedJobs
  <2>3. /\ id \in DOMAIN rows /\ rows[id] \in Row
        /\ rows[id].attemptsMade \in Nat /\ rows[id].spec.maxAttempts \in Nat
    BY <2>2, SpecsAssumption DEF Current, EngineTypeOK, StoreTypeOK, Row
  <2>4. rows[id].attemptsMade >= rows[id].spec.maxAttempts
    BY <2>1, <2>2 DEF Current
  <2>5. rows[id].status # "waiting"
    BY <2>3, <2>4 DEF WaitingRows
  <2>6. rows[id].status = "active"
    BY <2>2, <2>3, <2>5 DEF Current, Row, Statuses, IsTerminal
  <2>7. Explains("no attempts at recovery", id)
    BY <2>3, <2>4 DEF Explains, AttemptsWithinLimit
  <2> QED
    BY <2>1, <2>3, <2>6, <2>7 DEF TableStep, FailureReasons, Blames, IsTerminal
<1>3. CASE RestoreWaiting /\ ~UNCHANGED tableVars
  <2>1. /\ recovering # NULL /\ MarkWaiting(id, NULL) /\ UNCHANGED boundVars
        /\ recovering.attemptsMade < recovering.job.spec.maxAttempts
    BY <1>3 DEF RestoreWaiting, StatementFails
  <2>2. /\ id \in DOMAIN rows
        /\ rows[id].attemptsMade < rows[id].spec.maxAttempts
    BY <2>1, PlacedJobs DEF Current
  <2> QED
    BY <2>1, <2>2 DEF TableStep
<1> QED
  BY <1>1, <1>2, <1>3
  DEF Restore, ReadUnfinished, StatementFails, RestoreNext, RestoreRoute

\* Every step executes one of the statements on a row it fits, or none.
LEMMA TableSteps ==
  ASSUME EngineInv, [Next]_vars PROVE TableStep
PROOF
<1> USE DEF EngineInv
<1>1. CASE UNCHANGED tableVars
  BY <1>1 DEF TableStep, tableVars
<1>2. ASSUME NEW h \in RequestThreads, NEW spec \in Specs, GenerateId(h, spec)
      PROVE  TableStep
  BY <1>2 DEF GenerateId, GenerateJobId, TableStep
<1>3. ASSUME NEW h \in RequestThreads, RequestThread(h), ~UNCHANGED tableVars
      PROVE  TableStep
  <2>1. /\ request[h].pc = "saving" /\ UNCHANGED boundVars
        /\ Save(request[h].job, request[h].availableAt)
    BY <1>3 DEF RequestThread, SaveJob, RouteJob, StatementFails
  <2>2. /\ request[h].job \in Job /\ request[h].availableAt \in Nat \cup {NULL}
    BY <2>1 DEF EngineTypeOK, RequestTypeOK
  <2>3. At("request", h, request[h].job.id)
    BY <2>1 DEF At
  <2>4. request[h].job.id < nextValue
    BY <2>3 DEF Placed, Fits
  <2> QED
    BY <2>1, <2>2, <2>4 DEF TableStep
<1>4. CASE Dispatcher \/ SchedulerThread
  BY <1>1, <1>4
  DEF Dispatcher, DispatcherLoop, DispatcherPop, DispatcherEnqueue,
      SchedulerThread, SchedulerTakes, SchedulerPushes
<1>5. ASSUME NEW w \in PoolThreads, PoolThread(w) PROVE TableStep
  BY <1>5, PoolThreadTable
<1>6. CASE MainThread
  BY <1>1, <1>6, RestoreTable
  DEF MainThread, SchedulerStart, WorkerStart, HttpServerStart,
      HttpServerStop, WorkerStop, PoolStop, SchedulerStop
<1>7. CASE Tick
  BY <1>7 DEF TableStep
<1>8. CASE RequestStop \/ Launch \/ Crash
  BY <1>1, <1>8 DEF RequestStop, Launch, Crash
<1>9. CASE Halted \/ UNCHANGED vars
  BY <1>1, <1>9 DEF Halted, vars
<1> QED
  BY <1>1, <1>2, <1>3, <1>4, <1>5, <1>6, <1>7, <1>8, <1>9 DEF Next

\* The columns of an updated row, and of the others.
LEMMA UpdatedRow ==
  ASSUME EngineTypeOK, NEW id \in DOMAIN rows, NEW status, NEW attempts,
         NEW reason, NEW result, NEW at,
         UpdateRow(id, status, attempts, reason, result, at)
  PROVE  /\ DOMAIN rows' = DOMAIN rows /\ nextValue' = nextValue
         /\ rows'[id].spec = rows[id].spec /\ rows'[id].status = status
         /\ rows'[id].attemptsMade = attempts /\ rows'[id].availableAt = at
         /\ \A other \in DOMAIN rows : other # id => rows'[other] = rows[other]
BY DEF EngineTypeOK, StoreTypeOK, UpdateRow

\* Ids in the table were handed out, and stay so.
LEMMA HandedOutStep ==
  ASSUME EngineInv, TableStep PROVE IdsHandedOut'
PROOF
<1> USE DEF EngineInv
<1>0. nextValue \in Nat /\ DOMAIN rows \subseteq Nat
  BY Typed
<1>1. CASE UNCHANGED rows /\ nextValue' \in {nextValue, nextValue + 1}
  BY <1>0, <1>1 DEF IdsHandedOut
<1>2. ASSUME NEW job, NEW at, job.id < nextValue, Save(job, at)
      PROVE  IdsHandedOut'
  BY <1>2 DEF IdsHandedOut, Save
<1>3. ASSUME NEW id \in DOMAIN rows, NEW reason, NEW at,
             \/ StartAttempt(id) \/ MarkCompleted(id, "result")
             \/ MarkFailed(id, reason) \/ MarkWaiting(id, at)
      PROVE  IdsHandedOut'
  <2>1. DOMAIN rows' = DOMAIN rows /\ nextValue' = nextValue
    BY <1>3, UpdatedRow DEF StartAttempt, MarkCompleted, MarkFailed, MarkWaiting
  <2> QED
    BY <2>1 DEF IdsHandedOut
<1>4. CASE Tick
  BY <1>4 DEF Tick, IdsHandedOut
<1> QED
  BY <1>1, <1>2, <1>3, <1>4 DEF TableStep

\* Only rows that wait have an instant to wait for, and each has an attempt
\* left.
LEMMA WaitingRowsStep ==
  ASSUME EngineInv, TableStep PROVE WaitingRows'
PROOF
<1> USE DEF EngineInv
<1>1. CASE UNCHANGED rows
  BY <1>1 DEF WaitingRows
<1>2. ASSUME NEW job \in Job, NEW at, Save(job, at) PROVE WaitingRows'
  <2>1. job.spec.maxAttempts > 0
    BY SpecsAssumption DEF Job
  <2> QED
    BY <1>2, <2>1 DEF Save, WaitingRows
<1>3. ASSUME NEW id \in DOMAIN rows, NEW status, NEW attempts, NEW reason,
             NEW result, NEW at,
             UpdateRow(id, status, attempts, reason, result, at),
             at # NULL => status = "waiting",
             status = "waiting" => attempts < rows[id].spec.maxAttempts
      PROVE  WaitingRows'
  BY <1>3, UpdatedRow DEF WaitingRows
<1>4. ASSUME NEW id \in DOMAIN rows, StartAttempt(id) PROVE WaitingRows'
  BY <1>3, <1>4 DEF StartAttempt
<1>5. ASSUME NEW id \in DOMAIN rows, NEW reason,
             MarkCompleted(id, "result") \/ MarkFailed(id, reason)
      PROVE  WaitingRows'
  BY <1>3, <1>5 DEF MarkCompleted, MarkFailed
<1>6. ASSUME NEW id \in DOMAIN rows, NEW at, MarkWaiting(id, at),
             rows[id].attemptsMade < rows[id].spec.maxAttempts
      PROVE  WaitingRows'
  BY <1>3, <1>6 DEF MarkWaiting
<1>7. CASE Tick
  <2>1. /\ DOMAIN rows' = DOMAIN rows
        /\ \A id \in DOMAIN rows :
             /\ rows'[id].status = rows[id].status
             /\ rows'[id].attemptsMade = rows[id].attemptsMade
             /\ rows'[id].spec = rows[id].spec
             /\ rows'[id].availableAt = Later(rows[id].availableAt)
    BY <1>7 DEF Tick, EngineTypeOK, StoreTypeOK, Row
  <2>2. Later(NULL) = NULL
    BY DEF Later
  <2> QED
    BY <2>1, <2>2 DEF WaitingRows
<1> QED
  BY <1>1, <1>2, <1>4, <1>5, <1>6, <1>7 DEF TableStep

\* No step counts an attempt beyond the limit of its job.
LEMMA AttemptsStep ==
  ASSUME EngineInv, TableStep PROVE AttemptsWithinLimit'
PROOF
<1> USE DEF EngineInv
<1>1. CASE UNCHANGED rows
  BY <1>1 DEF AttemptsWithinLimit
<1>2. ASSUME NEW job \in Job, NEW at, Save(job, at) PROVE AttemptsWithinLimit'
  <2>1. job.spec.maxAttempts > 0 /\ 0 <= job.spec.maxAttempts
    BY SpecsAssumption DEF Job
  <2>2. ASSUME NEW id \in DOMAIN rows'
        PROVE  /\ rows'[id].spec.maxAttempts > 0
               /\ rows'[id].attemptsMade <= rows'[id].spec.maxAttempts
    <3>1. CASE id = job.id
      BY <1>2, <2>1, <3>1 DEF Save
    <3>2. CASE id # job.id
      BY <1>2, <3>2 DEF Save, AttemptsWithinLimit
    <3> QED
      BY <3>1, <3>2
  <2> QED
    BY <2>2 DEF AttemptsWithinLimit
<1>3. ASSUME NEW id \in DOMAIN rows, NEW status, NEW attempts, NEW reason,
             NEW result, NEW at,
             UpdateRow(id, status, attempts, reason, result, at),
             attempts <= rows[id].spec.maxAttempts
      PROVE  AttemptsWithinLimit'
  <2>1. /\ DOMAIN rows' = DOMAIN rows
        /\ rows'[id].spec = rows[id].spec /\ rows'[id].attemptsMade = attempts
        /\ \A other \in DOMAIN rows : other # id => rows'[other] = rows[other]
    BY <1>3, UpdatedRow
  <2> QED
    BY <1>3, <2>1 DEF AttemptsWithinLimit
<1>4. ASSUME NEW id \in DOMAIN rows, StartAttempt(id)
      PROVE  AttemptsWithinLimit'
  <2>1. rows[id].attemptsMade \in Nat /\ rows[id].spec.maxAttempts \in Nat
    BY SpecsAssumption DEF EngineTypeOK, StoreTypeOK, Row
  <2>2. rows[id].attemptsMade + 1 <= rows[id].spec.maxAttempts
    BY <1>4, <2>1 DEF StartAttempt, AcceptsStart
  <2> QED
    BY <1>3, <1>4, <2>2 DEF StartAttempt
<1>5. ASSUME NEW id \in DOMAIN rows, NEW reason, NEW at,
             \/ MarkCompleted(id, "result") \/ MarkFailed(id, reason)
             \/ MarkWaiting(id, at)
      PROVE  AttemptsWithinLimit'
  <2>1. rows[id].attemptsMade <= rows[id].spec.maxAttempts
    BY DEF AttemptsWithinLimit
  <2> QED
    BY <1>3, <1>5, <2>1 DEF MarkCompleted, MarkFailed, MarkWaiting
<1>6. CASE Tick
  <2>1. /\ DOMAIN rows' = DOMAIN rows
        /\ \A id \in DOMAIN rows :
             /\ rows'[id].attemptsMade = rows[id].attemptsMade
             /\ rows'[id].spec = rows[id].spec
    BY <1>6 DEF Tick, EngineTypeOK, StoreTypeOK, Row
  <2> QED
    BY <2>1 DEF AttemptsWithinLimit
<1> QED
  BY <1>1, <1>2, <1>4, <1>5, <1>6 DEF TableStep

\* A thread that becomes idle lets go of its job.
LEMMA IdleStep ==
  ASSUME EngineInv, EngineTypeOK', [Next]_vars PROVE IdleThreadsHoldNothing'
PROOF
<1> USE DEF EngineInv
<1>1. CASE UNCHANGED <<request, worker, dispatcher>>
  BY <1>1 DEF IdleThreadsHoldNothing
<1>2. ASSUME NEW h \in RequestThreads,
             RequestThread(h) \/ \E spec \in Specs : GenerateId(h, spec)
      PROVE  IdleThreadsHoldNothing'
  <2>1. request'[h].pc = "idle" => request'[h].job = NULL
    BY <1>2, RequestGoesOn, Typed
    DEF RequestThread, GenerateId, SaveJob, RouteJob, IdleRequest
  <2>2. /\ \A other \in RequestThreads : other # h => request'[other] = request[other]
        /\ UNCHANGED <<worker, dispatcher>>
    BY <1>2, Typed DEF RequestThread, GenerateId, SaveJob, RouteJob
  <2> QED
    BY <2>1, <2>2 DEF IdleThreadsHoldNothing
<1>3. CASE Dispatcher
  <2>1. dispatcher'.pc # "enqueueing" => dispatcher'.job = NULL
    BY <1>3 DEF Dispatcher, DispatcherLoop, DispatcherPop, DispatcherEnqueue,
                IdleThreadsHoldNothing, EngineTypeOK, DispatcherTypeOK
  <2>2. UNCHANGED <<request, worker>>
    BY <1>3 DEF Dispatcher, DispatcherLoop, DispatcherPop, DispatcherEnqueue
  <2> QED
    BY <2>1, <2>2 DEF IdleThreadsHoldNothing
<1>4. ASSUME NEW w \in PoolThreads, PoolThread(w) PROVE IdleThreadsHoldNothing'
  <2>1. worker'[w].pc = "idle" => worker'[w].job = NULL
    <3>1. CASE TakeTask(w)
      BY <3>1, Typed DEF TakeTask, Progress
    <3>2. ASSUME NEW reason, Catches(w, reason) PROVE worker'[w].pc = "failing"
      BY <3>2, Typed DEF Catches, Progress
    <3>3. ASSUME worker' = [worker EXCEPT ![w] = IdleWorker]
          PROVE  worker'[w].job = NULL
      BY <3>3, Typed DEF IdleWorker, Progress
    <3>4. CASE StartJob(w)
      <4> PICK next : next = Progress("processing", worker[w].job,
                                      rows'[worker[w].job.id].attemptsMade,
                                      NULL, NULL)
        OBVIOUS
      <4>1. next.pc = "processing"
        BY DEF Progress
      <4>2. Catches(w, "not started") \/ worker' = [worker EXCEPT ![w] = next]
        BY <3>4 DEF StartJob
      <4> QED
        BY <3>2, <4>1, <4>2, Typed
    <3>5. CASE Process(w)
      <4>1. \/ Catches(w, "exhausted") \/ Catches(w, "permanent")
            \/ worker' = [worker EXCEPT ![w].pc = "completing"]
            \/ worker' = [worker EXCEPT ![w] =
                 Progress("retrying", worker[w].job, worker[w].attemptsMade,
                          AvailableAt(TaskRetryDelay(w)), NULL)]
        BY <3>5 DEF Process
      <4>2. worker'[w].pc \in {"failing", "completing", "retrying"}
        BY <3>2, <4>1, WorkerGoesOn, Typed DEF Progress
      <4> QED
        BY <4>2
    <3>6. CASE Complete(w) \/ Fail(w)
      <4>1. \/ Catches(w, "not completed")
            \/ worker' = [worker EXCEPT ![w] = IdleWorker]
        BY <3>6 DEF Complete, Fail
      <4> QED
        BY <3>2, <3>3, <4>1
    <3>7. CASE Retry(w) \/ Reroute(w)
      <4>1. \/ worker' = [worker EXCEPT ![w] = IdleWorker]
            \/ worker' = [worker EXCEPT ![w].pc = "rerouting"]
        BY <3>7 DEF Retry, Reroute
      <4> QED
        BY <3>3, <4>1, WorkerGoesOn
    <3> QED
      BY <1>4, <3>1, <3>4, <3>5, <3>6, <3>7 DEF PoolThread
  <2>2. \A other \in PoolThreads : other # w => worker'[other] = worker[other]
    BY <1>4, Typed
    DEF PoolThread, TakeTask, StartJob, Process, Complete, Fail, Retry, Reroute,
        Catches
  <2>3. UNCHANGED <<request, dispatcher>>
    BY <1>4
    DEF PoolThread, TakeTask, StartJob, Process, Complete, Fail, Retry, Reroute
  <2> QED
    BY <2>1, <2>2, <2>3 DEF IdleThreadsHoldNothing
<1>5. CASE FreshMemory
  BY <1>5 DEF FreshMemory, IdleThreadsHoldNothing, IdleRequest, IdleWorker, Progress
<1>6. CASE SchedulerThread
  BY <1>1, <1>6 DEF SchedulerThread, SchedulerTakes, SchedulerPushes
<1>7. CASE Restore
  BY <1>1, <1>5, <1>7
  DEF Restore, ReadUnfinished, RestoreNext, RestoreFail, RestoreWaiting,
      RestoreRoute, Dies, threadVars
<1>8. CASE MainThread /\ ~Restore
  <2>1. /\ UNCHANGED <<request, worker>>
        /\ dispatcher' = dispatcher \/ dispatcher' = [pc |-> "loop", job |-> NULL]
    BY <1>8 DEF MainThread, SchedulerStart, WorkerStart, HttpServerStart,
                HttpServerStop, WorkerStop, PoolStop, SchedulerStop, threadVars
  <2> QED
    BY <2>1 DEF IdleThreadsHoldNothing
<1>9. CASE Tick
  <2>1. /\ \A h \in RequestThreads : request'[h].pc = request[h].pc
                                     /\ request'[h].job = request[h].job
        /\ \A w \in PoolThreads : worker'[w].pc = worker[w].pc
                                  /\ worker'[w].job = worker[w].job
        /\ dispatcher' = dispatcher
    BY <1>9 DEF Tick, EngineTypeOK, RequestTypeOK, WorkerTypeOK
  <2> QED
    BY <2>1 DEF IdleThreadsHoldNothing
<1>10. CASE RequestStop \/ Launch \/ Crash
  BY <1>1, <1>5, <1>10 DEF RequestStop, Launch, Crash, Dies, threadVars
<1>11. CASE Halted \/ UNCHANGED vars
  BY <1>1, <1>11 DEF Halted, vars, threadVars
<1> QED
  BY <1>2, <1>3, <1>4, <1>6, <1>7, <1>8, <1>9, <1>10, <1>11 DEF Next

\* No step before the table is read puts a job in memory.
LEMMA EmptyStep ==
  ASSUME EngineInv, [Next]_vars PROVE EmptyBeforeRead'
PROOF
<1> SUFFICES ASSUME mainPc' \in {"down", "starting", "reading"},
                    NEW kind, NEW z, NEW i, At(kind, z, i)'
             PROVE  FALSE
  BY DEF EmptyBeforeRead
<1> USE DEF EngineInv
<1>1. ~FreshMemory
  BY FreshMemoryEmpty
<1>2. mainPc \in {"down", "starting", "reading"}
  <2>1. mainPc' = mainPc \/ SchedulerStart
    BY <1>1
    DEF Next, RequestThread, GenerateId, SaveJob, RouteJob, Dispatcher,
        DispatcherLoop, DispatcherPop, DispatcherEnqueue, PoolThread, TakeTask,
        StartJob, Process, Complete, Fail, Retry, Reroute, SchedulerThread,
        SchedulerTakes, SchedulerPushes, MainThread, Restore, ReadUnfinished,
        RestoreNext, RestoreFail, RestoreWaiting, RestoreRoute, Dies,
        WorkerStart, HttpServerStart, HttpServerStop, WorkerStop, PoolStop,
        SchedulerStop, Main, Tick, RequestStop, Launch, Crash, Halted, vars,
        mainVars
  <2> QED
    BY <2>1 DEF SchedulerStart, Main
<1>3. \A other, y, id : ~At(other, y, id)
  BY <1>2 DEF EmptyBeforeRead
<1>4. /\ \A h \in RequestThreads : request[h].pc = "idle"
      /\ \A w \in PoolThreads : worker[w].pc = "idle"
  <2>1. ASSUME NEW h \in RequestThreads PROVE request[h].pc = "idle"
    <3>1. ~At("request", h, request[h].job.id)
      BY <1>3
    <3> QED
      BY <3>1 DEF At
  <2>2. ASSUME NEW w \in PoolThreads PROVE worker[w].pc = "idle"
    <3>1. ~At("worker", w, worker[w].job.id)
      BY <1>3
    <3> QED
      BY <3>1 DEF At
  <2> QED
    BY <2>1, <2>2
<1>5. queue = {} /\ delayedJobs = {} /\ tasks = {} /\ toRestore = {}
  <2>1. ASSUME NEW e \in queue PROVE FALSE
    BY <1>3 DEF At
  <2>2. ASSUME NEW e \in delayedJobs PROVE FALSE
    BY <1>3 DEF At
  <2>3. ASSUME NEW e \in tasks PROVE FALSE
    BY <1>3 DEF At
  <2>4. ASSUME NEW e \in toRestore PROVE FALSE
    BY <1>3 DEF At
  <2> QED
    BY <2>1, <2>2, <2>3, <2>4
<1>6. schedulerHand = NULL /\ recovering = NULL /\ dispatcher.pc # "enqueueing"
  <2>1. schedulerHand = NULL
    BY <1>3 DEF At
  <2>2. recovering = NULL
    BY <1>3 DEF At
  <2>3. dispatcher.pc # "enqueueing"
    BY <1>3 DEF At
  <2> QED
    BY <2>1, <2>2, <2>3
<1>7. ASSUME NEW h \in RequestThreads,
             RequestThread(h) \/ \E spec \in Specs : GenerateId(h, spec)
      PROVE  FALSE
  BY <1>2, <1>4, <1>7 DEF RequestThread, GenerateId, SaveJob, RouteJob
<1>8. CASE Dispatcher
  <2>1. dispatcher'.pc # "enqueueing"
    BY <1>5, <1>6, <1>8
    DEF Dispatcher, DispatcherLoop, DispatcherPop, DispatcherEnqueue,
        EngineTypeOK, DispatcherTypeOK
  <2>2. UNCHANGED <<queue, delayedJobs, tasks, toRestore, request, worker,
                    schedulerHand, recovering>>
    BY <1>5, <1>6, <1>8
    DEF Dispatcher, DispatcherLoop, DispatcherPop, DispatcherEnqueue,
        PopNothing, jobQueueVars, taskVars, delayVars, restoreVars
  <2>3. kind # "dispatcher"
    BY <2>1 DEF At
  <2> QED
    BY <1>3, <2>2, <2>3, Untouched
<1>9. ASSUME NEW w \in PoolThreads, PoolThread(w) PROVE FALSE
  BY <1>4, <1>5, <1>9
  DEF PoolThread, TakeTask, StartJob, Process, Complete, Fail, Retry, Reroute
<1>10. ~SchedulerThread
  BY <1>5, <1>6 DEF SchedulerThread, SchedulerTakes, SchedulerPushes
<1>11. ~Restore
  <2>1. ~ReadUnfinished
    BY <1>1 DEF ReadUnfinished, Dies, Main
  <2> QED
    BY <1>5, <1>6, <2>1
    DEF Restore, RestoreNext, RestoreFail, RestoreWaiting, RestoreRoute
<1>12. CASE MainThread \/ RequestStop \/ Halted \/ UNCHANGED vars
  BY <1>3, <1>11, <1>12, MainStands DEF MainThread, Halted
<1>13. CASE Tick
  BY <1>3, <1>13, TickPlaces
<1>14. ~Launch /\ ~Crash
  BY <1>1 DEF Launch, Crash, Dies
<1> QED
  BY <1>7, <1>8, <1>9, <1>10, <1>12, <1>13, <1>14 DEF Next

\* The invariant holds of the first state.
LEMMA EngineInvInit ==
  ASSUME Init PROVE EngineInv
PROOF
<1>1. EngineTypeOK
  BY TypeInit
<1>2. ASSUME NEW kind, NEW z, NEW i PROVE ~At(kind, z, i)
  <2> USE DEF Init, MemoryInit, QueueInit, PoolInit, SchedulerInit
  <2>1. CASE kind \in {"request", "worker"}
    BY <2>1 DEF At, IdleRequest, IdleWorker, Progress
  <2>2. CASE kind \in {"queue", "scheduler", "task", "read"}
    BY <2>2 DEF At
  <2>3. CASE kind \in {"scheduler thread", "dispatcher", "recovering"}
    BY <2>3 DEF At
  <2> QED
    BY <2>1, <2>2, <2>3 DEF At
<1>3. Placed /\ EmptyBeforeRead
  BY <1>2 DEF Placed, EmptyBeforeRead
<1>4. IdsHandedOut /\ WaitingRows /\ AttemptsWithinLimit
  BY DEF Init, StoreInit, IdsHandedOut, WaitingRows, AttemptsWithinLimit
<1>5. IdleThreadsHoldNothing
  BY DEF Init, MemoryInit, IdleThreadsHoldNothing, IdleRequest, IdleWorker, Progress
<1> QED
  BY <1>1, <1>3, <1>4, <1>5 DEF EngineInv

\* Every step keeps the invariant.
LEMMA EngineInvStep ==
  ASSUME EngineInv, [Next]_vars PROVE EngineInv'
PROOF
<1>1. EngineTypeOK'
  BY TypeStep DEF EngineInv
<1>2. Placed'
  BY <1>1, PlacedStep
<1>3. IdsHandedOut' /\ WaitingRows' /\ AttemptsWithinLimit'
  BY TableSteps, HandedOutStep, WaitingRowsStep, AttemptsStep
<1>4. IdleThreadsHoldNothing' /\ EmptyBeforeRead'
  BY <1>1, IdleStep, EmptyStep
<1> QED
  BY <1>1, <1>2, <1>3, <1>4 DEF EngineInv

\* The invariant holds of every state the engine reaches.
THEOREM EngineKeepsInv == Spec => []EngineInv
PROOF
<1>1. Init => EngineInv
  BY EngineInvInit
<1>2. EngineInv /\ [Next]_vars => EngineInv'
  BY EngineInvStep
<1> QED
  BY <1>1, <1>2, PTL DEF Spec

-----------------------------------------------------------------------------
(* What the invariant says. *)

\* The name that Carriers has for a place.
PlaceName(kind, x) ==
  IF kind \in {"scheduler thread", "dispatcher", "recovering"} THEN <<kind>>
  ELSE <<kind, x>>

\* Every carrier of an id is a place the id is at.
LEMMA CarriersArePlaces ==
  ASSUME EngineInv, NEW id, NEW c \in Carriers(id)
  PROVE  \E kind, x : At(kind, x, id) /\ c = PlaceName(kind, x)
PROOF
<1> DEFINE Holds(job) == job # NULL /\ job.id = id
<1> USE DEF EngineInv
<1>1. ASSUME NEW h \in RequestThreads, Holds(request[h].job), c = <<"request", h>>
      PROVE  At("request", h, id) /\ c = PlaceName("request", h)
  BY <1>1 DEF At, PlaceName, IdleThreadsHoldNothing
<1>2. ASSUME NEW e \in queue, Holds(e.job), c = <<"queue", e>>
      PROVE  At("queue", e, id) /\ c = PlaceName("queue", e)
  BY <1>2 DEF At, PlaceName
<1>3. ASSUME NEW e \in delayedJobs, Holds(e.job), c = <<"scheduler", e>>
      PROVE  At("scheduler", e, id) /\ c = PlaceName("scheduler", e)
  BY <1>3 DEF At, PlaceName
<1>4. ASSUME Holds(schedulerHand), c = <<"scheduler thread">>
      PROVE  At("scheduler thread", 0, id) /\ c = PlaceName("scheduler thread", 0)
  BY <1>4 DEF At, PlaceName
<1>5. ASSUME Holds(dispatcher.job), c = <<"dispatcher">>
      PROVE  At("dispatcher", 0, id) /\ c = PlaceName("dispatcher", 0)
  BY <1>5 DEF At, PlaceName, IdleThreadsHoldNothing
<1>6. ASSUME NEW t \in tasks, Holds(t.function), c = <<"task", t>>
      PROVE  At("task", t, id) /\ c = PlaceName("task", t)
  BY <1>6 DEF At, PlaceName
<1>7. ASSUME NEW w \in PoolThreads, Holds(worker[w].job), c = <<"worker", w>>
      PROVE  At("worker", w, id) /\ c = PlaceName("worker", w)
  BY <1>7 DEF At, PlaceName, IdleThreadsHoldNothing
<1>8. ASSUME NEW s \in toRestore, Holds(s.job), c = <<"read", s>>
      PROVE  At("read", s, id) /\ c = PlaceName("read", s)
  BY <1>8 DEF At, PlaceName
<1>9. ASSUME recovering # NULL, Holds(recovering.job), c = <<"recovering">>
      PROVE  At("recovering", 0, id) /\ c = PlaceName("recovering", 0)
  BY <1>9 DEF At, PlaceName
<1> QED
  BY <1>1, <1>2, <1>3, <1>4, <1>5, <1>6, <1>7, <1>8, <1>9 DEF Carriers

\* Under the invariant no job is in two places.
LEMMA SingleCarrierFollows ==
  ASSUME EngineInv PROVE SingleCarrier
PROOF
<1> SUFFICES ASSUME NEW id \in JobIds PROVE Cardinality(Carriers(id)) <= 1
  BY DEF SingleCarrier
<1>1. ASSUME NEW c \in Carriers(id), NEW d \in Carriers(id) PROVE c = d
  <2>1. PICK kind, x : At(kind, x, id) /\ c = PlaceName(kind, x)
    BY CarriersArePlaces
  <2>2. PICK other, y : At(other, y, id) /\ d = PlaceName(other, y)
    BY CarriersArePlaces
  <2>3. other = kind /\ y = x
    BY <2>1, <2>2 DEF EngineInv, Placed
  <2> QED
    BY <2>1, <2>2, <2>3
<1>2. CASE Carriers(id) = {}
  BY <1>2, FS_EmptySet
<1>3. CASE Carriers(id) # {}
  <2>1. PICK c : Carriers(id) = {c}
    BY <1>1, <1>3
  <2>2. Cardinality({c}) = 1
    BY FS_Singleton
  <2> QED
    BY <2>1, <2>2
<1> QED
  BY <1>2, <1>3

\* Under the invariant the jobs on their way to startAttempt can be started,
\* and the row of a job that runs is active.
LEMMA JobsFollow ==
  ASSUME EngineInv PROVE ReadyJobsCanStart /\ RunningJobsAreActive
PROOF
<1> USE DEF EngineInv
<1>1. ASSUME NEW job \in ReadyJobs PROVE Ready(job)
  <2>1. dispatcher.job # NULL => dispatcher.pc = "enqueueing"
    BY DEF IdleThreadsHoldNothing
  <2> QED
    BY <1>1, <2>1, PlacedJobs DEF ReadyJobs
<1>2. ReadyJobsCanStart
  BY <1>1 DEF ReadyJobsCanStart, Ready
<1>3. RunningJobsAreActive
  BY PlacedJobs DEF RunningJobsAreActive, Runs
<1> QED
  BY <1>2, <1>3

\* No step changes the row of a job that has ended.
LEMMA EndsStay ==
  ASSUME EngineInv, TableStep, NEW id \in DOMAIN rows,
         IsTerminal(rows[id].status)
  PROVE  rows'[id] = rows[id]
PROOF
<1> USE DEF EngineInv
<1>1. ASSUME NEW job, NEW at, Save(job, at) PROVE rows'[id] = rows[id]
  BY <1>1 DEF Save, AcceptsSave
<1>2. ASSUME NEW other \in DOMAIN rows, NEW reason, NEW at,
             ~IsTerminal(rows[other].status),
             \/ StartAttempt(other) \/ MarkCompleted(other, "result")
             \/ MarkFailed(other, reason) \/ MarkWaiting(other, at)
      PROVE  rows'[id] = rows[id]
  BY <1>2, UpdatedRow DEF StartAttempt, MarkCompleted, MarkFailed, MarkWaiting
<1>3. ASSUME NEW other \in DOMAIN rows, NEW at,
             \/ StartAttempt(other) \/ MarkWaiting(other, at)
             \/ rows[other].status = "active"
      PROVE  ~IsTerminal(rows[other].status)
  BY <1>3 DEF StartAttempt, AcceptsStart, MarkWaiting, AcceptsWaiting, IsTerminal
<1>4. CASE Tick
  <2>1. rows[id] \in Row
    BY DEF EngineTypeOK, StoreTypeOK
  <2>2. rows[id].availableAt = NULL
    BY DEF WaitingRows, IsTerminal
  <2>3. rows'[id] = [rows[id] EXCEPT !.availableAt = NULL]
    BY <1>4, <2>2 DEF Tick, Later
  <2> QED
    BY <2>1, <2>2, <2>3 DEF Row
<1> QED
  BY <1>1, <1>2, <1>3, <1>4 DEF TableStep

\* No job is ever in two places of the process's memory, so no two threads
\* run the same job: for every schedule of the threads, and through every
\* retry, failing statement, crash and restart.
THEOREM NoJobInTwoPlaces == Spec => []SingleCarrier
PROOF
<1>1. EngineInv => SingleCarrier
  BY SingleCarrierFollows
<1> QED
  BY <1>1, EngineKeepsInv, PTL

\* A job that is on its way to startAttempt is accepted there: the error that
\* would fail it for good never arises.
THEOREM ReadyJobsStart == Spec => []ReadyJobsCanStart
PROOF
<1>1. EngineInv => ReadyJobsCanStart
  BY JobsFollow
<1> QED
  BY <1>1, EngineKeepsInv, PTL

\* While a task runs a handler, or acts on its outcome, the row is active and
\* counts the attempts that the task counts.
THEOREM RunningRowsAreActive == Spec => []RunningJobsAreActive
PROOF
<1>1. EngineInv => RunningJobsAreActive
  BY JobsFollow
<1> QED
  BY <1>1, EngineKeepsInv, PTL

\* What is recorded as the end of a job is never changed, although the
\* statements that record an end ask for no status.
THEOREM EndsStayRecorded == Spec => EndsAreFinal
PROOF
<1>1. EngineInv /\ [Next]_vars =>
        [\A id \in DOMAIN rows :
           IsTerminal(rows[id].status) => rows'[id] = rows[id]]_vars
  BY TableSteps, EndsStay
<1> QED
  BY <1>1, EngineKeepsInv, PTL DEF Spec, EndsAreFinal

\* A step that makes a waiting row active starts an attempt that is due.
LEMMA StartsAreDue ==
  ASSUME EngineInv, TableStep, NEW id \in DOMAIN rows,
         rows[id].status = "waiting", rows'[id].status = "active"
  PROVE  rows[id].availableAt \in {0, NULL}
PROOF
<1> USE DEF EngineInv
<1>1. ASSUME NEW job, NEW at, Save(job, at) PROVE FALSE
  BY <1>1 DEF Save, AcceptsSave
<1>2. ASSUME NEW other \in DOMAIN rows, NEW reason, NEW at,
             \/ MarkCompleted(other, "result") \/ MarkFailed(other, reason)
             \/ MarkWaiting(other, at)
      PROVE  FALSE
  BY <1>2, UpdatedRow DEF MarkCompleted, MarkFailed, MarkWaiting
<1>3. ASSUME NEW other \in DOMAIN rows, StartAttempt(other), DueWithin(other, 0)
      PROVE  rows[id].availableAt \in {0, NULL}
  <2>1. other = id
    BY <1>3, UpdatedRow DEF StartAttempt
  <2>2. rows[id].availableAt \in Nat \cup {NULL}
    BY DEF EngineTypeOK, StoreTypeOK, Row
  <2> QED
    BY <1>3, <2>1, <2>2 DEF DueWithin, Comes
<1>4. ~Tick
  BY DEF Tick, EngineTypeOK, StoreTypeOK, Row
<1> QED
  BY <1>1, <1>2, <1>3, <1>4 DEF TableStep

\* No attempt starts before the instant its row says the job is available: not
\* through retries with a delay that was computed twice, the scheduler, or a
\* recovery that computes the delay anew from the table.
THEOREM AttemptsAreNeverEarly == Spec => NeverStartsEarly
PROOF
<1>1. EngineInv /\ [Next]_vars =>
        [\A id \in DOMAIN rows :
           rows[id].status = "waiting" /\ rows'[id].status = "active" =>
             rows[id].availableAt \in {0, NULL}]_vars
  BY TableSteps, StartsAreDue
<1> QED
  BY <1>1, EngineKeepsInv, PTL DEF Spec, NeverStartsEarly

-----------------------------------------------------------------------------
(* Failure reasons, and the statements that failed. *)

\* At most one statement fails in a step.
LEMMA FaultsStep ==
  ASSUME EngineTypeOK, [Next]_vars
  PROVE  faults \in Nat /\ faults' \in {faults, faults + 1}
PROOF
<1>1. faults' = faults \/ faults' = faults + 1
  BY DEF Next, RequestThread, GenerateId, SaveJob, RouteJob, Dispatcher,
         DispatcherLoop, DispatcherPop, DispatcherEnqueue, PoolThread,
         TakeTask, StartJob, Process, Complete, Fail, Retry, Reroute,
         SchedulerThread, SchedulerTakes, SchedulerPushes, MainThread,
         Restore, ReadUnfinished, RestoreNext, RestoreFail, RestoreWaiting,
         RestoreRoute, WorkerStart, HttpServerStart, HttpServerStop,
         WorkerStop, PoolStop, SchedulerStop, SchedulerStart, StatementFails,
         Tick, RequestStop, Launch, Crash, Halted, vars, boundVars
<1> QED
  BY <1>1, Typed

\* A set that gains at most one element when a number goes up by one, and none
\* otherwise, is never larger than the number.
LEMMA OneForEach ==
  ASSUME NEW S, IsFiniteSet(S), NEW T, NEW n \in Nat, NEW m, NEW x,
         Cardinality(S) <= n,
         \/ m \in {n, n + 1} /\ T \subseteq S
         \/ m = n + 1 /\ T \subseteq S \cup {x}
  PROVE  IsFiniteSet(T) /\ Cardinality(T) <= m
PROOF
<1>1. Cardinality(S) \in Nat
  BY FS_CardinalityType
<1>2. CASE m \in {n, n + 1} /\ T \subseteq S
  <2>1. IsFiniteSet(T) /\ Cardinality(T) <= Cardinality(S)
    BY <1>2, FS_Subset
  <2>2. Cardinality(T) \in Nat
    BY <2>1, FS_CardinalityType
  <2> QED
    BY <1>1, <1>2, <2>1, <2>2
<1>3. CASE m = n + 1 /\ T \subseteq S \cup {x}
  <2>1. /\ IsFiniteSet(S \cup {x})
        /\ Cardinality(S \cup {x}) =
             IF x \in S THEN Cardinality(S) ELSE Cardinality(S) + 1
    BY FS_AddElement
  <2>2. IsFiniteSet(T) /\ Cardinality(T) <= Cardinality(S \cup {x})
    BY <1>3, <2>1, FS_Subset
  <2>3. Cardinality(T) \in Nat
    BY <2>2, FS_CardinalityType
  <2> QED
    BY <1>1, <1>3, <2>1, <2>2, <2>3
<1> QED
  BY <1>2, <1>3

\* The reasons that say a job has no attempt left tell the truth.
ExhaustedIsTrue ==
  \A id \in DOMAIN rows :
    rows[id].failureReason \in {"exhausted", "no attempts at recovery"} =>
      rows[id].attemptsMade = rows[id].spec.maxAttempts

\* The jobs that failed, or are about to fail, because a statement did.
BlamedRows == {id \in DOMAIN rows : rows[id].failureReason \in Blames}

Blamed == BlamedRows \cup BlamedTasks

\* Each of them is the cost of a statement that failed.
BlameIsCounted == IsFiniteSet(Blamed) /\ Cardinality(Blamed) <= faults

\* A statement on the table keeps the reasons in it true, and blames no
\* statement that was not blamed before.
LEMMA ReasonsStep ==
  ASSUME EngineInv, ExhaustedIsTrue, TableStep
  PROVE  ExhaustedIsTrue' /\ BlamedRows' \subseteq Blamed
PROOF
<1> USE DEF EngineInv
<1> DEFINE Explained(row) ==
      row.failureReason \in {"exhausted", "no attempts at recovery"} =>
        row.attemptsMade = row.spec.maxAttempts
<1>1. \A id \in DOMAIN rows :
        /\ Explained(rows[id])
        /\ rows[id].failureReason \in Blames => id \in Blamed
  BY DEF ExhaustedIsTrue, Blamed, BlamedRows
<1> SUFFICES ASSUME NEW id \in DOMAIN rows'
             PROVE  /\ Explained(rows'[id])
                    /\ rows'[id].failureReason \in Blames => id \in Blamed
  BY DEF ExhaustedIsTrue, BlamedRows
<1>2. NULL \notin {"exhausted", "no attempts at recovery"} /\ NULL \notin Blames
  BY NullAssumption DEF FailureReasons, Blames
<1>3. CASE UNCHANGED rows
  BY <1>1, <1>3
<1>4. ASSUME NEW job \in Job, NEW at, Save(job, at)
      PROVE  /\ Explained(rows'[id])
             /\ rows'[id].failureReason \in Blames => id \in Blamed
  <2>1. id # job.id => id \in DOMAIN rows /\ rows'[id] = rows[id]
    BY <1>4 DEF Save
  <2>2. id = job.id => rows'[id].failureReason = NULL
    BY <1>4 DEF Save
  <2> QED
    BY <1>1, <1>2, <2>1, <2>2
<1>5. ASSUME NEW other \in DOMAIN rows, NEW status, NEW attempts, NEW reason,
             NEW result, NEW at,
             UpdateRow(other, status, attempts, reason, result, at),
             \/ reason = NULL
             \/ /\ attempts = rows[other].attemptsMade /\ Explains(reason, other)
                /\ reason \in Blames => other \in BlamedTasks
      PROVE  /\ Explained(rows'[id])
             /\ rows'[id].failureReason \in Blames => id \in Blamed
  <2>1. /\ id \in DOMAIN rows /\ id # other => rows'[id] = rows[id]
        /\ rows'[other].failureReason = reason
        /\ rows'[other].attemptsMade = attempts
        /\ rows'[other].spec = rows[other].spec
        /\ DOMAIN rows' = DOMAIN rows
    BY <1>5 DEF UpdateRow, EngineTypeOK, StoreTypeOK
  <2>2. CASE id = other /\ reason = NULL
    BY <1>2, <2>1, <2>2
  <2>3. CASE id = other /\ reason # NULL
    BY <1>5, <2>1, <2>3 DEF Explains, Blamed
  <2>4. CASE id # other
    BY <1>1, <2>1, <2>4
  <2> QED
    BY <2>2, <2>3, <2>4
<1>6. CASE Tick
  <2>1. /\ id \in DOMAIN rows
        /\ rows'[id].failureReason = rows[id].failureReason
        /\ rows'[id].attemptsMade = rows[id].attemptsMade
        /\ rows'[id].spec = rows[id].spec
    BY <1>6 DEF Tick, EngineTypeOK, StoreTypeOK, Row
  <2> QED
    BY <1>1, <2>1
<1>7. ASSUME NEW other \in DOMAIN rows, NEW at,
             \/ StartAttempt(other) \/ MarkCompleted(other, "result")
             \/ MarkWaiting(other, at)
      PROVE  /\ Explained(rows'[id])
             /\ rows'[id].failureReason \in Blames => id \in Blamed
  BY <1>5, <1>7 DEF StartAttempt, MarkCompleted, MarkWaiting
<1>8. ASSUME NEW other \in DOMAIN rows, NEW reason, MarkFailed(other, reason),
             Explains(reason, other),
             reason \in Blames => other \in BlamedTasks
      PROVE  /\ Explained(rows'[id])
             /\ rows'[id].failureReason \in Blames => id \in Blamed
  BY <1>5, <1>8 DEF MarkFailed
<1> QED
  BY <1>3, <1>4, <1>6, <1>7, <1>8 DEF TableStep

\* A pool thread lays the blame on a statement only as the statement fails.
LEMMA PoolThreadBlames ==
  ASSUME EngineTypeOK, NEW w \in PoolThreads, PoolThread(w)
  PROVE  \/ BlamedTasks' \subseteq BlamedTasks
         \/ /\ faults' = faults + 1
            /\ BlamedTasks' \subseteq BlamedTasks \cup {worker[w].job.id}
PROOF
<1>1. \A other \in PoolThreads : other # w => worker'[other] = worker[other]
  BY Typed DEF PoolThread, TakeTask, StartJob, Process, Complete, Fail, Retry,
               Reroute, Catches
<1>2. CASE ~(worker'[w].pc = "failing" /\ worker'[w].reason \in Blames)
  BY <1>1, <1>2 DEF BlamedTasks
<1>3. CASE worker'[w].pc = "failing" /\ worker'[w].reason \in Blames
  <2>1. ASSUME NEW pc, NEW job, NEW attempts, NEW at, NEW reason,
               worker' = [worker EXCEPT ![w] =
                            Progress(pc, job, attempts, at, reason)]
        PROVE  /\ pc = "failing" /\ reason \in Blames
               /\ worker'[w].job = job
    BY <1>3, <2>1, Typed DEF Progress
  <2>2. ASSUME NEW pc, worker' = [worker EXCEPT ![w].pc = pc]
        PROVE  pc = "failing"
    BY <1>3, <2>2, WorkerGoesOn
  <2>3. worker' # [worker EXCEPT ![w] = IdleWorker]
    BY <2>1 DEF IdleWorker
  <2>4. ASSUME NEW reason, Catches(w, reason)
        PROVE  reason \in Blames /\ worker'[w].job = worker[w].job
    BY <2>1, <2>4 DEF Catches
  <2>5. ~TakeTask(w)
    BY <2>1 DEF TakeTask
  <2>6. ~Fail(w) /\ ~Retry(w) /\ ~Reroute(w)
    BY <2>2, <2>3 DEF Fail, Retry, Reroute
  <2>7. ~Process(w)
    <3>0. "exhausted" \notin Blames /\ "permanent" \notin Blames
      BY DEF Blames
    <3>1. ~Catches(w, "exhausted") /\ ~Catches(w, "permanent")
      BY <2>4, <3>0
    <3>2. worker' # [worker EXCEPT ![w].pc = "completing"]
      BY <2>2
    <3>3. worker' # [worker EXCEPT ![w] =
                       Progress("retrying", worker[w].job, worker[w].attemptsMade,
                                AvailableAt(TaskRetryDelay(w)), NULL)]
      BY <2>1
    <3> QED
      BY <3>1, <3>2, <3>3 DEF Process
  <2>8. /\ StatementFails
        /\ Catches(w, "not started") \/ Catches(w, "not completed")
    <3>1. CASE StartJob(w)
      <4>1. worker' # [worker EXCEPT ![w] =
                         Progress("processing", worker[w].job,
                                  rows'[worker[w].job.id].attemptsMade,
                                  NULL, NULL)]
        BY <2>1
      <4> QED
        BY <3>1, <4>1 DEF StartJob
    <3>2. CASE Complete(w)
      BY <2>3, <3>2 DEF Complete
    <3> QED
      BY <2>5, <2>6, <2>7, <3>1, <3>2 DEF PoolThread
  <2>9. worker'[w].job = worker[w].job /\ faults' = faults + 1
    BY <2>4, <2>8 DEF StatementFails
  <2> QED
    BY <1>1, <2>9 DEF BlamedTasks
<1> QED
  BY <1>2, <1>3

\* Every step lays the blame on one statement at most, and only on one that
\* fails in it.
LEMMA BlameStep ==
  ASSUME EngineTypeOK, [Next]_vars
  PROVE  \/ BlamedTasks' \subseteq BlamedTasks
         \/ /\ faults' = faults + 1
            /\ \E x : BlamedTasks' \subseteq BlamedTasks \cup {x}
PROOF
<1>1. CASE UNCHANGED worker
  BY <1>1 DEF BlamedTasks
<1>2. ASSUME NEW w \in PoolThreads, PoolThread(w)
      PROVE  \/ BlamedTasks' \subseteq BlamedTasks
             \/ /\ faults' = faults + 1
                /\ \E x : BlamedTasks' \subseteq BlamedTasks \cup {x}
  BY <1>2, PoolThreadBlames
<1>3. CASE FreshMemory
  BY <1>3 DEF FreshMemory, BlamedTasks, IdleWorker, Progress
<1>4. CASE Tick
  <2>1. \A w \in PoolThreads :
          /\ worker'[w].pc = worker[w].pc /\ worker'[w].job = worker[w].job
          /\ worker'[w].reason = worker[w].reason
    BY <1>4 DEF Tick, EngineTypeOK, WorkerTypeOK
  <2> QED
    BY <2>1 DEF BlamedTasks
<1>5. \/ UNCHANGED worker \/ FreshMemory \/ Tick
      \/ \E w \in PoolThreads : PoolThread(w)
  BY DEF Next, RequestThread, GenerateId, SaveJob, RouteJob, Dispatcher,
         DispatcherLoop, DispatcherPop, DispatcherEnqueue, SchedulerThread,
         SchedulerTakes, SchedulerPushes, MainThread, Restore, ReadUnfinished,
         RestoreNext, RestoreFail, RestoreWaiting, RestoreRoute, WorkerStart,
         HttpServerStart, HttpServerStop, WorkerStop, PoolStop, SchedulerStop,
         SchedulerStart, RequestStop, Launch, Crash, Dies, Halted, vars,
         threadVars
<1> QED
  BY <1>1, <1>2, <1>3, <1>4, <1>5

\* So the blamed jobs stay as few as the statements that failed.
LEMMA BlameCountStep ==
  ASSUME EngineInv, ExhaustedIsTrue, BlameIsCounted, [Next]_vars
  PROVE  BlameIsCounted'
PROOF
<1>1. BlamedRows' \subseteq Blamed
  BY TableSteps, ReasonsStep
<1>2. /\ faults \in Nat /\ faults' \in {faults, faults + 1}
      /\ \/ BlamedTasks' \subseteq BlamedTasks
         \/ /\ faults' = faults + 1
            /\ \E x : BlamedTasks' \subseteq BlamedTasks \cup {x}
  BY FaultsStep, BlameStep DEF EngineInv
<1>3. CASE BlamedTasks' \subseteq BlamedTasks
  <2>1. Blamed' \subseteq Blamed
    BY <1>1, <1>3 DEF Blamed
  <2> QED
    BY <1>2, <2>1, OneForEach DEF BlameIsCounted
<1>4. ASSUME faults' = faults + 1, NEW x,
             BlamedTasks' \subseteq BlamedTasks \cup {x}
      PROVE  BlameIsCounted'
  <2>1. Blamed' \subseteq Blamed \cup {x}
    BY <1>1, <1>4 DEF Blamed
  <2> QED
    BY <1>2, <1>4, <2>1, OneForEach DEF BlameIsCounted
<1> QED
  BY <1>2, <1>3, <1>4

\* A failure reason tells the truth, whatever schedule of retries, stops,
\* crashes and recoveries led to it and whichever statements failed; and each
\* statement that fails in startAttempt or markCompleted costs one job at most.
THEOREM ReasonsTellTheTruth == Spec => []FailuresAreExplained
PROOF
<1>1. Init => ExhaustedIsTrue /\ BlameIsCounted
  <2> SUFFICES ASSUME Init PROVE ExhaustedIsTrue /\ BlameIsCounted
    OBVIOUS
  <2>1. DOMAIN rows = {} /\ faults = 0
    BY DEF Init, StoreInit
  <2>2. \A w \in PoolThreads : worker[w].pc = "idle"
    BY DEF Init, MemoryInit, IdleWorker, Progress
  <2>3. Blamed = {}
    BY <2>1, <2>2 DEF Blamed, BlamedRows, BlamedTasks
  <2> QED
    BY <2>1, <2>3, FS_EmptySet DEF ExhaustedIsTrue, BlameIsCounted
<1>2. EngineInv /\ ExhaustedIsTrue /\ BlameIsCounted /\ [Next]_vars =>
        ExhaustedIsTrue' /\ BlameIsCounted'
  BY TableSteps, ReasonsStep, BlameCountStep
<1>3. EngineInv /\ ExhaustedIsTrue /\ BlameIsCounted => FailuresAreExplained
  <2> SUFFICES ASSUME EngineInv, ExhaustedIsTrue, BlameIsCounted
               PROVE  FailuresAreExplained
    OBVIOUS
  <2>1. BlamedRows \subseteq Blamed /\ faults \in Nat
    BY Typed DEF Blamed, EngineInv
  <2>2. Cardinality(BlamedRows) <= faults
    BY <2>1, OneForEach DEF BlameIsCounted
  <2> QED
    BY <2>2 DEF FailuresAreExplained, ExhaustedIsTrue, BlamedRows, Blames
<1> QED
  BY <1>1, <1>2, <1>3, EngineKeepsInv, PTL DEF Spec

-----------------------------------------------------------------------------
(* Every unfinished row is in somebody's hands. *)

\* main is between reading the table and the end of the process.
AfterRead == mainPc \notin {"down", "starting", "reading"}

\* The row of an attempt is held by the thread that makes it, or by recovery;
\* until the queue drops what is pushed, a row that waits is held too.
Kept(id) ==
  /\ rows[id].status = "active" =>
       \E kind, x : kind \in {"worker", "read", "recovering"} /\ At(kind, x, id)
  /\ rows[id].status = "waiting" /\ ~shutdown => \E kind, x : At(kind, x, id)

\* The unfinished jobs that nobody will run or recover before the next launch.
Forgotten == {id \in DOMAIN rows : ~Kept(id)}

\* Each of them is the cost of a statement that failed.
AllKept ==
  AfterRead => IsFiniteSet(Forgotten) /\ Cardinality(Forgotten) <= faults

\* A place that is still there, and holds what it held.
Remains(kind, z) ==
  /\ Same(kind, z)
  /\ kind = "queue" => z \in queue'
  /\ kind = "scheduler" => z \in delayedJobs'
  /\ kind = "task" => z \in tasks'
  /\ kind = "read" => z \in toRestore'

\* Every place stays, but those of this id.
Stays(id) == \A kind, z, i : i # id /\ At(kind, z, i) => Remains(kind, z)

\* An id is where it was when its place stays.
LEMMA StillThere ==
  ASSUME NEW kind, NEW z, NEW i, At(kind, z, i), Remains(kind, z)
  PROVE  At(kind, z, i)'
PROOF
<1>1. CASE kind \in {"request", "worker"}
  BY <1>1 DEF At, Remains, Same
<1>2. CASE kind \in {"queue", "scheduler", "task"}
  BY <1>2 DEF At, Remains, Same
<1>3. CASE kind \in {"scheduler thread", "dispatcher"}
  BY <1>3 DEF At, Remains, Same
<1>4. CASE kind \in {"read", "recovering"}
  BY <1>4 DEF At, Remains, Same
<1> QED
  BY <1>1, <1>2, <1>3, <1>4 DEF At

\* A place that a step does not touch stays.
LEMMA UntouchedRemains ==
  ASSUME NEW kind, NEW z, NEW i, At(kind, z, i),
         kind = "request" => UNCHANGED request,
         kind = "queue" => UNCHANGED queue,
         kind = "scheduler" => UNCHANGED delayedJobs,
         kind = "scheduler thread" => UNCHANGED schedulerHand,
         kind = "dispatcher" => UNCHANGED dispatcher,
         kind = "task" => UNCHANGED tasks,
         kind = "worker" => UNCHANGED worker,
         kind = "read" => UNCHANGED toRestore,
         kind = "recovering" => UNCHANGED recovering
  PROVE  Remains(kind, z)
PROOF
<1>1. CASE kind \in {"request", "worker"}
  BY <1>1 DEF At, Same, Remains
<1>2. CASE kind \in {"queue", "scheduler", "task"}
  BY <1>2 DEF At, Same, Remains
<1>3. CASE kind \in {"scheduler thread", "dispatcher"}
  BY <1>3 DEF At, Same, Remains
<1>4. CASE kind \in {"read", "recovering"}
  BY <1>4 DEF At, Same, Remains
<1> QED
  BY <1>1, <1>2, <1>3, <1>4 DEF At

\* A step of a process that takes one id somewhere and changes only its row
\* forgets that job at most, and only when a statement fails in it.
LEMMA MoveKeeps ==
  ASSUME AllKept, NEW id, Stays(id), OnlyRow(id), UNCHANGED <<mainPc, shutdown>>,
         faults' = faults /\ AfterRead /\ id \in DOMAIN rows' => Kept(id)'
  PROVE  AllKept'
PROOF
<1> SUFFICES ASSUME AfterRead'
             PROVE  IsFiniteSet(Forgotten)' /\ (Cardinality(Forgotten) <= faults)'
  BY DEF AllKept
<1>1. /\ AfterRead /\ faults \in Nat /\ faults' \in {faults, faults + 1}
      /\ IsFiniteSet(Forgotten) /\ Cardinality(Forgotten) <= faults
  BY DEF OnlyRow, AfterRead, AllKept
<1>2. ASSUME NEW i \in DOMAIN rows', i # id, ~Kept(i)' PROVE i \in Forgotten
  <2>1. i \in DOMAIN rows /\ rows'[i] = rows[i]
    BY <1>2 DEF OnlyRow
  <2>2. ASSUME NEW kind, NEW z, At(kind, z, i) PROVE At(kind, z, i)'
    BY <1>2, <2>2, StillThere DEF Stays
  <2>3. ~Kept(i)
    BY <1>2, <2>1, <2>2 DEF Kept
  <2> QED
    BY <2>1, <2>3 DEF Forgotten
<1>3. Forgotten' \subseteq Forgotten \cup {id}
  BY <1>2 DEF Forgotten
<1>4. faults' = faults => Forgotten' \subseteq Forgotten
  <2> SUFFICES ASSUME faults' = faults, NEW i \in Forgotten'
               PROVE  i \in Forgotten
    OBVIOUS
  <2>1. i \in DOMAIN rows' /\ ~Kept(i)'
    BY DEF Forgotten
  <2> QED
    BY <1>1, <1>2, <2>1
<1> QED
  BY <1>1, <1>3, <1>4, OneForEach

\* A step that changes no row and leaves every id where it was.
LEMMA StandKeeps ==
  ASSUME AllKept, UNCHANGED rows, faults \in Nat, UNCHANGED faults,
         AfterRead' => AfterRead, shutdown => shutdown',
         \A kind, z, i : At(kind, z, i) => At(kind, z, i)'
  PROVE  AllKept'
PROOF
<1> SUFFICES ASSUME AfterRead'
             PROVE  IsFiniteSet(Forgotten)' /\ (Cardinality(Forgotten) <= faults)'
  BY DEF AllKept
<1>1. IsFiniteSet(Forgotten) /\ Cardinality(Forgotten) <= faults
  BY DEF AllKept
<1>2. \A i : Kept(i) => Kept(i)'
  BY DEF Kept
<1>3. Forgotten' \subseteq Forgotten
  BY <1>2 DEF Forgotten
<1> QED
  BY <1>1, <1>3, OneForEach

\* A job that is handed on is in the scheduler or in the queue, unless the
\* queue was shut down.
LEMMA RouteKeeps ==
  ASSUME EngineTypeOK, AllKept, NEW job, NEW delay, Route(job, delay),
         Ready(job), UNCHANGED tableVars, UNCHANGED boundVars, UNCHANGED mainPc,
         \A kind, z, i :
           i # job.id /\ kind \notin {"queue", "scheduler"} /\ At(kind, z, i) =>
             Remains(kind, z)
  PROVE  AllKept'
PROOF
<1> PICK id : id = job.id
  OBVIOUS
<1>1. shutdown' = shutdown
  BY RouteSwitches
<1>2. queue \subseteq queue' /\ delayedJobs \subseteq delayedJobs'
  BY DEF Route, ScheduleAt, Push, jobQueueVars, delayVars
<1>3. Stays(id)
  <2> SUFFICES ASSUME NEW kind, NEW z, NEW i, i # id, At(kind, z, i)
               PROVE  Remains(kind, z)
    BY DEF Stays
  <2>1. CASE kind \in {"queue", "scheduler"}
    BY <1>2, <2>1 DEF At, Remains, Same
  <2> QED
    BY <2>1
<1>4. OnlyRow(id)
  BY TableStays
<1>5. rows'[id].status = "waiting"
  BY DEF Ready, AcceptsStart, tableVars
<1>6. ASSUME ~shutdown' PROVE \E kind, x : At(kind, x, id)'
  <2>1. CASE delay > 0
    <3> PICK entry : entry = [readyIn |-> delay, job |-> job]
      OBVIOUS
    <3>1. At("scheduler", entry, id)'
      BY <2>1 DEF Route, ScheduleAt, At
    <3> QED
      BY <3>1
  <2>2. CASE ~(delay > 0)
    <3> PICK entry : entry = [sequence |-> nextSequence, job |-> job]
      OBVIOUS
    <3>1. At("queue", entry, id)'
      BY <1>1, <1>6, <2>2 DEF Route, Push, At
    <3> QED
      BY <3>1
  <2> QED
    BY <2>1, <2>2
<1>7. Kept(id)'
  BY <1>5, <1>6 DEF Kept
<1> QED
  BY <1>1, <1>3, <1>4, <1>7, MoveKeeps

\* The steps of a request thread.
LEMMA RequestKeeps ==
  ASSUME EngineInv, AllKept, NEW h \in RequestThreads, NEW spec \in Specs,
         GenerateId(h, spec) \/ RequestThread(h)
  PROVE  AllKept'
PROOF
<1> USE DEF EngineInv
<1>1. CASE GenerateId(h, spec)
  <2> PICK id : id = nextValue
    OBVIOUS
  <2>1. id \in Nat /\ nextValue' = id + 1 /\ rows' = rows
    BY <1>1, Typed DEF GenerateId, GenerateJobId
  <2>2. OnlyRow(id)
    BY <1>1, <2>1, Typed DEF OnlyRow, GenerateId, boundVars
  <2>3. id \notin DOMAIN rows'
    BY <2>1 DEF IdsHandedOut
  <2>4. request[h].pc = "idle"
        /\ \A other \in RequestThreads : other # h => request'[other] = request[other]
    BY <1>1, Typed DEF GenerateId
  <2>5. Stays(id)
    <3> SUFFICES ASSUME NEW kind, NEW z, NEW i, At(kind, z, i)
                 PROVE  Remains(kind, z)
      BY DEF Stays
    <3>1. CASE kind = "request"
      BY <2>4, <3>1 DEF At, Same, Remains
    <3>2. CASE kind # "request"
      BY <1>1, <3>2, UntouchedRemains
      DEF GenerateId, restoreVars, taskVars, delayVars, jobQueueVars
    <3> QED
      BY <3>1, <3>2
  <2>6. UNCHANGED <<mainPc, shutdown>>
    BY <1>1 DEF GenerateId, mainVars, jobQueueVars
  <2> QED
    BY <2>2, <2>3, <2>5, <2>6, MoveKeeps
<1>2. CASE SaveJob(h)
  <2> PICK id : id = request[h].job.id
    OBVIOUS
  <2>1. /\ request[h].pc = "saving"
        /\ \A other \in RequestThreads : other # h => request'[other] = request[other]
    BY <1>2, Typed DEF SaveJob
  <2>2. Stays(id)
    <3> SUFFICES ASSUME NEW kind, NEW z, NEW i, i # id, At(kind, z, i)
                 PROVE  Remains(kind, z)
      BY DEF Stays
    <3>1. CASE kind = "request"
      BY <2>1, <3>1 DEF At, Same, Remains
    <3>2. CASE kind # "request"
      BY <1>2, <3>2, UntouchedRemains
      DEF SaveJob, restoreVars, taskVars, delayVars, jobQueueVars
    <3> QED
      BY <3>1, <3>2
  <2>3. UNCHANGED <<mainPc, shutdown>>
    BY <1>2 DEF SaveJob, mainVars, jobQueueVars
  <2>4. CASE /\ Save(request[h].job, request[h].availableAt)
             /\ request' = [request EXCEPT ![h].pc = "routing"]
             /\ UNCHANGED boundVars
    <3>1. nextValue' = nextValue /\ nextValue \in Nat
      BY <2>4, Typed DEF Save
    <3>2. OnlyRow(id)
      BY <2>4, <3>1, Typed DEF OnlyRow, Save, boundVars
    <3>3. At("request", h, id)'
      <4>1. request'[h].pc = "routing" /\ request'[h].job = request[h].job
        BY <2>4, RequestGoesOn
      <4> QED
        BY <4>1 DEF At
    <3>4. rows'[id].status = "waiting"
      BY <2>4 DEF Save
    <3>5. Kept(id)'
      BY <3>3, <3>4 DEF Kept
    <3> QED
      BY <2>2, <2>3, <3>2, <3>5, MoveKeeps
  <2>5. CASE StatementFails
    <3>1. OnlyRow(id)
      BY <2>5, TableStays DEF StatementFails
    <3>2. faults' # faults
      BY <2>5, Typed DEF StatementFails
    <3> QED
      BY <2>2, <2>3, <3>1, <3>2, MoveKeeps
  <2> QED
    BY <1>2, <2>4, <2>5 DEF SaveJob
<1>3. CASE RouteJob(h)
  <2> PICK job : job = request[h].job
    OBVIOUS
  <2> PICK delay : delay = job.spec.delay
    OBVIOUS
  <2>1. Ready(job)
    BY <1>3, PlacedJobs DEF RouteJob
  <2>2. /\ Route(job, delay) /\ UNCHANGED tableVars /\ UNCHANGED boundVars
        /\ UNCHANGED mainPc
    BY <1>3 DEF RouteJob, mainVars
  <2>3. ASSUME NEW kind, NEW z, NEW i, i # job.id,
               kind \notin {"queue", "scheduler"}, At(kind, z, i)
        PROVE  Remains(kind, z)
    <3>1. CASE kind = "request"
      BY <1>3, <2>3, <3>1, Typed DEF RouteJob, At, Same, Remains
    <3>2. CASE kind # "request"
      BY <1>3, <2>3, <3>2, UntouchedRemains DEF RouteJob, restoreVars, taskVars
    <3> QED
      BY <3>1, <3>2
  <2> QED
    BY <2>1, <2>2, <2>3, RouteKeeps
<1> QED
  BY <1>1, <1>2, <1>3 DEF RequestThread

\* The steps of the dispatcher thread.
LEMMA DispatcherKeeps ==
  ASSUME EngineInv, AllKept, Dispatcher PROVE AllKept'
PROOF
<1> USE DEF EngineInv
<1>0. UNCHANGED rows /\ UNCHANGED faults /\ UNCHANGED mainPc /\ UNCHANGED shutdown
  BY DEF Dispatcher, DispatcherLoop, DispatcherPop, DispatcherEnqueue, PopJob,
         PopNothing, tableVars, boundVars, mainVars, jobQueueVars
<1>1. CASE DispatcherLoop \/ (DispatcherPop /\ PopNothing)
  <2>1. ASSUME NEW kind, NEW z, NEW i, At(kind, z, i) PROVE At(kind, z, i)'
    <3>1. kind # "dispatcher"
      BY <1>1, <2>1 DEF DispatcherLoop, DispatcherPop, At
    <3>2. Remains(kind, z)
      BY <1>1, <2>1, <3>1, UntouchedRemains
      DEF DispatcherLoop, DispatcherPop, PopNothing, jobQueueVars, taskVars,
          delayVars, restoreVars
    <3> QED
      BY <2>1, <3>2, StillThere
  <2> QED
    BY <1>0, <2>1, StandKeeps, Typed DEF AfterRead
<1>2. ASSUME NEW entry \in queue, DispatcherPop, PopJob(entry),
             dispatcher' = [pc |-> "enqueueing", job |-> entry.job]
      PROVE  AllKept'
  <2> PICK id : id = entry.job.id
    OBVIOUS
  <2>1. Ready(entry.job)
    BY PlacedJobs
  <2>2. Stays(id)
    <3> SUFFICES ASSUME NEW kind, NEW z, NEW i, i # id, At(kind, z, i)
                 PROVE  Remains(kind, z)
      BY DEF Stays
    <3>1. CASE kind = "queue"
      BY <1>2, <3>1 DEF PopJob, At, Same, Remains
    <3>2. kind # "dispatcher"
      BY <1>2 DEF DispatcherPop, At
    <3>3. CASE kind # "queue"
      BY <1>2, <3>2, <3>3, UntouchedRemains
      DEF DispatcherPop, taskVars, delayVars, restoreVars
    <3> QED
      BY <3>1, <3>3
  <2>3. OnlyRow(id)
    BY <1>2, TableStays DEF DispatcherPop
  <2>4. At("dispatcher", 0, id)'
    BY <1>2 DEF At
  <2>5. Kept(id)'
    BY <1>0, <2>1, <2>4 DEF Kept, Ready, AcceptsStart
  <2> QED
    BY <1>0, <2>2, <2>3, <2>5, MoveKeeps
<1>3. CASE DispatcherEnqueue
  <2> PICK task : task = [priority |-> dispatcher.job.spec.priority,
                          sequence |-> nextTaskSequence,
                          function |-> dispatcher.job]
    OBVIOUS
  <2> PICK id : id = task.function.id
    OBVIOUS
  <2>1. Ready(task.function)
    BY <1>3, PlacedJobs DEF DispatcherEnqueue
  <2>2. tasks' = tasks \cup {task}
    BY <1>3 DEF DispatcherEnqueue, Enqueue
  <2>3. Stays(id)
    <3> SUFFICES ASSUME NEW kind, NEW z, NEW i, i # id, At(kind, z, i)
                 PROVE  Remains(kind, z)
      BY DEF Stays
    <3>1. CASE kind = "task"
      BY <2>2, <3>1 DEF At, Same, Remains
    <3>2. kind # "dispatcher"
      BY DEF At
    <3>3. CASE kind # "task"
      BY <1>3, <3>2, <3>3, UntouchedRemains
      DEF DispatcherEnqueue, jobQueueVars, delayVars, restoreVars
    <3> QED
      BY <3>1, <3>3
  <2>4. OnlyRow(id)
    BY <1>3, TableStays DEF DispatcherEnqueue
  <2>5. At("task", task, id)'
    BY <2>2 DEF At
  <2>6. Kept(id)'
    BY <1>0, <2>1, <2>5 DEF Kept, Ready, AcceptsStart
  <2> QED
    BY <1>0, <2>3, <2>4, <2>6, MoveKeeps
<1> QED
  BY <1>1, <1>2, <1>3 DEF Dispatcher, DispatcherPop, PopJob, IsTop

\* The steps of the scheduler thread.
LEMMA SchedulerKeeps ==
  ASSUME EngineInv, AllKept, SchedulerThread PROVE AllKept'
PROOF
<1> USE DEF EngineInv
<1>1. CASE SchedulerTakes
  <2> PICK entry \in delayedJobs : TakeDue(entry) /\ schedulerHand' = entry.job
    BY <1>1 DEF SchedulerTakes
  <2> PICK id : id = entry.job.id
    OBVIOUS
  <2>1. Ready(entry.job)
    BY PlacedJobs
  <2>2. Stays(id)
    <3> SUFFICES ASSUME NEW kind, NEW z, NEW i, i # id, At(kind, z, i)
                 PROVE  Remains(kind, z)
      BY DEF Stays
    <3>1. CASE kind = "scheduler"
      BY <3>1 DEF TakeDue, At, Same, Remains
    <3>2. kind # "scheduler thread"
      BY <1>1 DEF SchedulerTakes, At
    <3>3. CASE kind # "scheduler"
      BY <1>1, <3>2, <3>3, UntouchedRemains
      DEF SchedulerTakes, jobQueueVars, taskVars, restoreVars
    <3> QED
      BY <3>1, <3>3
  <2>3. OnlyRow(id)
    BY <1>1, TableStays DEF SchedulerTakes
  <2>4. At("scheduler thread", 0, id)'
    <3>1. entry.job \in Job
      BY DEF EngineTypeOK, SchedulerTypeOK, ScheduledJob
    <3>2. schedulerHand' # NULL
      BY <3>1, NullAssumption
    <3> QED
      BY <3>2 DEF At
  <2>5. UNCHANGED <<rows, mainPc, shutdown>>
    BY <1>1 DEF SchedulerTakes, tableVars, mainVars, jobQueueVars
  <2>6. Kept(id)'
    BY <2>1, <2>4, <2>5 DEF Kept, Ready, AcceptsStart
  <2> QED
    BY <2>2, <2>3, <2>5, <2>6, MoveKeeps
<1>2. CASE SchedulerPushes
  <2> PICK job : job = schedulerHand
    OBVIOUS
  <2>1. Ready(job)
    BY <1>2, PlacedJobs DEF SchedulerPushes
  <2>2. /\ Route(job, 0) /\ UNCHANGED tableVars /\ UNCHANGED boundVars
        /\ UNCHANGED mainPc
    BY <1>2 DEF SchedulerPushes, Route, mainVars
  <2>3. ASSUME NEW kind, NEW z, NEW i, i # job.id,
               kind \notin {"queue", "scheduler"}, At(kind, z, i)
        PROVE  Remains(kind, z)
    <3>1. kind # "scheduler thread"
      BY <2>3 DEF At
    <3> QED
      BY <1>2, <2>3, <3>1, UntouchedRemains
      DEF SchedulerPushes, restoreVars, taskVars
  <2> QED
    BY <2>1, <2>2, <2>3, RouteKeeps
<1> QED
  BY <1>1, <1>2 DEF SchedulerThread

\* A step of a pool thread that keeps its job, or ends it.
LEMMA WorkerKeeps ==
  ASSUME EngineTypeOK, AllKept, NEW w \in PoolThreads, worker[w].pc # "idle",
         NEW next, worker' = [worker EXCEPT ![w] = next],
         UNCHANGED <<queue, delayedJobs, schedulerHand, dispatcher, tasks,
                     request, restoreVars>>,
         UNCHANGED <<mainPc, shutdown>>,
         OnlyRow(worker[w].job.id),
         faults' = faults =>
           \/ next.pc # "idle" /\ next.job = worker[w].job
           \/ rows'[worker[w].job.id].status \in {"completed", "failed"}
  PROVE  AllKept'
PROOF
<1> PICK id : id = worker[w].job.id
  OBVIOUS
<1>1. /\ worker'[w] = next
      /\ \A other \in PoolThreads : other # w => worker'[other] = worker[other]
  BY Typed
<1>2. Stays(id)
  <2> SUFFICES ASSUME NEW kind, NEW z, NEW i, i # id, At(kind, z, i)
               PROVE  Remains(kind, z)
    BY DEF Stays
  <2>1. CASE kind = "worker"
    BY <1>1, <2>1 DEF At, Same, Remains
  <2>2. CASE kind # "worker"
    BY <2>2, UntouchedRemains DEF restoreVars
  <2> QED
    BY <2>1, <2>2
<1>3. ASSUME faults' = faults PROVE Kept(id)'
  <2>1. CASE next.pc # "idle" /\ next.job = worker[w].job
    <3>1. At("worker", w, id)'
      BY <1>1, <2>1 DEF At
    <3> QED
      BY <3>1 DEF Kept
  <2>2. CASE rows'[id].status \in {"completed", "failed"}
    BY <2>2 DEF Kept
  <2> QED
    BY <1>3, <2>1, <2>2
<1> QED
  BY <1>2, <1>3, MoveKeeps

\* The steps of a pool thread.
LEMMA PoolThreadKeeps ==
  ASSUME EngineInv, AllKept, NEW w \in PoolThreads, PoolThread(w)
  PROVE  AllKept'
PROOF
<1> DEFINE job == worker[w].job
<1> DEFINE Others == UNCHANGED <<queue, delayedJobs, schedulerHand, dispatcher,
                                 tasks, request, restoreVars>>
                     /\ UNCHANGED <<mainPc, shutdown>>
<1> USE DEF EngineInv
<1>1. CASE TakeTask(w)
  <2> PICK task \in tasks :
        /\ Take(task)
        /\ worker' = [worker EXCEPT ![w] =
                        Progress("starting", task.function, 0, NULL, NULL)]
    BY <1>1 DEF TakeTask
  <2> PICK id : id = task.function.id
    OBVIOUS
  <2>1. /\ worker'[w].pc = "starting" /\ worker'[w].job = task.function
        /\ worker[w].pc = "idle"
        /\ \A other \in PoolThreads : other # w => worker'[other] = worker[other]
    BY <1>1, Typed DEF TakeTask, Progress
  <2>2. Stays(id)
    <3> SUFFICES ASSUME NEW kind, NEW z, NEW i, i # id, At(kind, z, i)
                 PROVE  Remains(kind, z)
      BY DEF Stays
    <3>1. CASE kind = "worker"
      BY <2>1, <3>1 DEF At, Same, Remains
    <3>2. CASE kind = "task"
      BY <3>2 DEF Take, At, Same, Remains
    <3>3. CASE kind \notin {"worker", "task"}
      BY <1>1, <3>3, UntouchedRemains
      DEF TakeTask, jobQueueVars, delayVars, restoreVars
    <3> QED
      BY <3>1, <3>2, <3>3
  <2>3. OnlyRow(id)
    BY <1>1, TableStays DEF TakeTask
  <2>4. At("worker", w, id)'
    BY <2>1 DEF At
  <2>5. UNCHANGED <<mainPc, shutdown>>
    BY <1>1 DEF TakeTask, mainVars, jobQueueVars
  <2>6. Kept(id)'
    BY <2>4 DEF Kept
  <2> QED
    BY <2>2, <2>3, <2>5, <2>6, MoveKeeps
<1>2. ASSUME worker[w].pc # "idle", Others, StatementFails,
             NEW next, worker' = [worker EXCEPT ![w] = next]
      PROVE  AllKept'
  <2>1. OnlyRow(job.id)
    BY <1>2, TableStays DEF StatementFails
  <2>2. faults' # faults
    BY <1>2, Typed DEF StatementFails
  <2> QED
    BY <1>2, <2>1, <2>2, WorkerKeeps
<1>3. CASE StartJob(w)
  <2>1. worker[w].pc = "starting" /\ Others
    BY <1>3 DEF StartJob, jobQueueVars, taskVars, delayVars, mainVars
  <2>2. Ready(job)
    BY <2>1, PlacedJobs
  <2>3. CASE /\ StartAttempt(job.id)
             /\ worker' = [worker EXCEPT ![w] =
                  Progress("processing", job, rows'[job.id].attemptsMade,
                           NULL, NULL)]
             /\ UNCHANGED boundVars
    <3> PICK next : next = Progress("processing", job,
                                    rows'[job.id].attemptsMade, NULL, NULL)
      OBVIOUS
    <3>1. worker' = [worker EXCEPT ![w] = next] /\ next.pc = "processing"
          /\ next.job = job
      BY <2>3 DEF Progress
    <3>2. OnlyRow(job.id)
      BY <2>2, <2>3, RowChanges DEF StartAttempt, AcceptsStart, Ready
    <3> QED
      BY <2>1, <3>1, <3>2, WorkerKeeps
  <2>4. CASE StatementFails /\ Catches(w, "not started")
    BY <1>2, <2>1, <2>4 DEF Catches
  <2> QED
    BY <1>3, <2>3, <2>4 DEF StartJob
<1>4. CASE Process(w)
  <2>1. /\ worker[w].pc = "processing" /\ Others
        /\ UNCHANGED tableVars /\ UNCHANGED boundVars
    BY <1>4 DEF Process, jobQueueVars, taskVars, delayVars, mainVars
  <2>2. OnlyRow(job.id)
    BY <2>1, TableStays
  <2>3. PICK next : /\ worker' = [worker EXCEPT ![w] = next]
                    /\ next.pc # "idle" /\ next.job = job
    <3>1. CASE worker' = [worker EXCEPT ![w].pc = "completing"]
      <4> PICK next : next = [worker[w] EXCEPT !.pc = "completing"]
        OBVIOUS
      <4>1. worker' = [worker EXCEPT ![w] = next] /\ worker'[w] = next
        BY <3>1, Typed
      <4>2. next.pc = "completing" /\ next.job = job
        BY <3>1, <4>1, WorkerGoesOn
      <4> QED
        BY <4>1, <4>2
    <3>2. CASE worker' = [worker EXCEPT ![w] =
                 Progress("retrying", job, worker[w].attemptsMade,
                          AvailableAt(TaskRetryDelay(w)), NULL)]
      <4> PICK next : next = Progress("retrying", job, worker[w].attemptsMade,
                                      AvailableAt(TaskRetryDelay(w)), NULL)
        OBVIOUS
      <4>1. worker' = [worker EXCEPT ![w] = next]
        BY <3>2
      <4>2. next.pc # "idle" /\ next.job = job
        BY DEF Progress
      <4> QED
        BY <4>1, <4>2
    <3>3. ASSUME NEW reason, Catches(w, reason)
          PROVE  \E next : /\ worker' = [worker EXCEPT ![w] = next]
                           /\ next.pc # "idle" /\ next.job = job
      <4> PICK next : next = Progress("failing", job, worker[w].attemptsMade,
                                      NULL, reason)
        OBVIOUS
      <4>1. worker' = [worker EXCEPT ![w] = next]
        BY <3>3 DEF Catches
      <4>2. next.pc # "idle" /\ next.job = job
        BY DEF Progress
      <4> QED
        BY <4>1, <4>2
    <3> QED
      BY <1>4, <3>1, <3>2, <3>3 DEF Process
  <2> QED
    BY <2>1, <2>2, <2>3, WorkerKeeps
<1>5. CASE Complete(w)
  <2>1. worker[w].pc = "completing" /\ Others
    BY <1>5 DEF Complete, jobQueueVars, taskVars, delayVars, mainVars
  <2>2. CASE /\ MarkCompleted(job.id, "result")
             /\ worker' = [worker EXCEPT ![w] = IdleWorker]
             /\ UNCHANGED boundVars
    <3>1. OnlyRow(job.id) /\ rows'[job.id].status = "completed"
      BY <2>2, RowChanges DEF MarkCompleted, AcceptsOutcome
    <3> QED
      BY <2>1, <2>2, <3>1, WorkerKeeps
  <2>3. CASE StatementFails /\ Catches(w, "not completed")
    BY <1>2, <2>1, <2>3 DEF Catches
  <2> QED
    BY <1>5, <2>2, <2>3 DEF Complete
<1>6. CASE Fail(w)
  <2>1. /\ worker[w].pc = "failing" /\ Others
        /\ worker' = [worker EXCEPT ![w] = IdleWorker]
    BY <1>6 DEF Fail, jobQueueVars, taskVars, delayVars, mainVars
  <2>2. CASE MarkFailed(job.id, worker[w].reason) /\ UNCHANGED boundVars
    <3>1. OnlyRow(job.id) /\ rows'[job.id].status = "failed"
      BY <2>2, RowChanges DEF MarkFailed, AcceptsOutcome
    <3> QED
      BY <2>1, <3>1, WorkerKeeps
  <2>3. CASE StatementFails
    BY <1>2, <2>1, <2>3
  <2> QED
    BY <1>6, <2>2, <2>3 DEF Fail
<1>7. CASE Retry(w)
  <2>1. worker[w].pc = "retrying" /\ Others
    BY <1>7 DEF Retry, jobQueueVars, taskVars, delayVars, mainVars
  <2>2. CASE /\ MarkWaiting(job.id, worker[w].availableAt)
             /\ worker' = [worker EXCEPT ![w].pc = "rerouting"]
             /\ UNCHANGED boundVars
    <3> PICK next : next = [worker[w] EXCEPT !.pc = "rerouting"]
      OBVIOUS
    <3>1. worker' = [worker EXCEPT ![w] = next] /\ worker'[w] = next
      BY <2>2, Typed
    <3>2. next.pc = "rerouting" /\ next.job = job
      BY <2>2, <3>1, WorkerGoesOn
    <3>3. OnlyRow(job.id)
      BY <2>2, RowChanges DEF MarkWaiting, AcceptsWaiting
    <3> QED
      BY <2>1, <3>1, <3>2, <3>3, WorkerKeeps
  <2>3. CASE StatementFails /\ worker' = [worker EXCEPT ![w] = IdleWorker]
    BY <1>2, <2>1, <2>3
  <2> QED
    BY <1>7, <2>2, <2>3 DEF Retry
<1>8. CASE Reroute(w)
  <2> PICK held : held = worker[w].job
    OBVIOUS
  <2> PICK delay : delay = TaskRetryDelay(w)
    OBVIOUS
  <2>1. Ready(held)
    BY <1>8, PlacedJobs DEF Reroute
  <2>2. /\ Route(held, delay) /\ UNCHANGED tableVars /\ UNCHANGED boundVars
        /\ UNCHANGED mainPc
    BY <1>8 DEF Reroute, mainVars
  <2>3. ASSUME NEW kind, NEW z, NEW i, i # held.id,
               kind \notin {"queue", "scheduler"}, At(kind, z, i)
        PROVE  Remains(kind, z)
    <3>1. CASE kind = "worker"
      BY <1>8, <2>3, <3>1, Typed DEF Reroute, At, Same, Remains
    <3>2. CASE kind # "worker"
      BY <1>8, <2>3, <3>2, UntouchedRemains DEF Reroute, restoreVars, taskVars
    <3> QED
      BY <3>1, <3>2
  <2> QED
    BY <2>1, <2>2, <2>3, RouteKeeps
<1> QED
  BY <1>1, <1>3, <1>4, <1>5, <1>6, <1>7, <1>8 DEF PoolThread

\* The steps of restoreUnfinished, from the step that reads the table.
LEMMA RestoreKeeps ==
  ASSUME EngineInv, AllKept, Restore PROVE AllKept'
PROOF
<1> USE DEF EngineInv
<1>0. CASE Dies
  BY <1>0 DEF Dies, AllKept, AfterRead
<1>1. CASE ReadUnfinished /\ ~Dies
  <2>1. toRestore' = Unfinished /\ rows' = rows
    BY <1>1 DEF ReadUnfinished, tableVars
  <2>2. ASSUME NEW id \in DOMAIN rows, ~IsTerminal(rows[id].status)
        PROVE  \E x : At("read", x, id)'
    <3> PICK x : x = [job |-> [id |-> id, spec |-> rows[id].spec],
                      status |-> rows[id].status,
                      attemptsMade |-> rows[id].attemptsMade,
                      availableAt |-> rows[id].availableAt]
      OBVIOUS
    <3>1. x \in Unfinished /\ x.job.id = id
      BY <2>2 DEF Unfinished, ReadBack
    <3>2. At("read", x, id)'
      BY <2>1, <3>1 DEF At
    <3> QED
      BY <3>2
  <2>3. ASSUME NEW id \in DOMAIN rows PROVE Kept(id)'
    BY <2>1, <2>2 DEF Kept, IsTerminal
  <2>4. Forgotten' = {} /\ faults' = faults /\ faults \in Nat
    BY <1>1, <2>1, <2>3, Typed DEF Forgotten, ReadUnfinished, boundVars
  <2> QED
    BY <2>4, FS_EmptySet DEF AllKept
<1>2. CASE RestoreNext
  <2> PICK snapshot \in toRestore :
        recovering' = snapshot /\ toRestore' = toRestore \ {snapshot}
    BY <1>2 DEF RestoreNext
  <2> PICK id : id = snapshot.job.id
    OBVIOUS
  <2>1. Stays(id)
    <3> SUFFICES ASSUME NEW kind, NEW z, NEW i, i # id, At(kind, z, i)
                 PROVE  Remains(kind, z)
      BY DEF Stays
    <3>1. CASE kind = "read"
      BY <3>1 DEF At, Same, Remains
    <3>2. kind # "recovering"
      BY <1>2 DEF RestoreNext, At
    <3>3. CASE kind # "read"
      BY <1>2, <3>2, <3>3, UntouchedRemains
      DEF RestoreNext, jobQueueVars, taskVars, delayVars, threadVars
    <3> QED
      BY <3>1, <3>3
  <2>2. OnlyRow(id)
    BY <1>2, TableStays DEF RestoreNext
  <2>3. At("recovering", 0, id)'
    <3>1. snapshot \in Snapshot
      BY DEF EngineTypeOK, RestoreTypeOK
    <3>2. snapshot # NULL
      BY <3>1, NullAssumption
    <3> QED
      BY <3>2 DEF At
  <2>4. UNCHANGED <<mainPc, shutdown>>
    BY <1>2 DEF RestoreNext, mainVars, jobQueueVars
  <2>5. Kept(id)'
    BY <2>3 DEF Kept
  <2> QED
    BY <2>1, <2>2, <2>4, <2>5, MoveKeeps
<1>3. CASE (RestoreFail \/ RestoreWaiting) /\ ~Dies
  <2> PICK id : id = recovering.job.id
    OBVIOUS
  <2>1. /\ recovering # NULL /\ id \in DOMAIN rows
        /\ UNCHANGED <<queue, delayedJobs, tasks, toRestore, threadVars>>
        /\ UNCHANGED <<mainPc, shutdown>>
    BY <1>3, PlacedJobs
    DEF RestoreFail, RestoreWaiting, jobQueueVars, taskVars, delayVars,
        mainVars, Current
  <2>2. Stays(id)
    <3> SUFFICES ASSUME NEW kind, NEW z, NEW i, i # id, At(kind, z, i)
                 PROVE  Remains(kind, z)
      BY DEF Stays
    <3>1. kind # "recovering"
      BY DEF At
    <3> QED
      BY <2>1, <3>1, UntouchedRemains DEF threadVars
  <2>3. CASE RestoreFail
    <3>1. OnlyRow(id) /\ rows'[id].status = "failed"
      <4>1. /\ MarkFailed(id, "no attempts at recovery")
            /\ UNCHANGED boundVars
        BY <1>3, <2>3 DEF RestoreFail
      <4>2. UpdateRow(id, "failed", rows[id].attemptsMade,
                      "no attempts at recovery", NULL, NULL)
        BY <4>1 DEF MarkFailed
      <4> QED
        BY <2>1, <4>1, <4>2, RowChanges
    <3>2. Kept(id)'
      BY <3>1 DEF Kept
    <3> QED
      BY <2>1, <2>2, <3>1, <3>2, MoveKeeps
  <2>4. CASE RestoreWaiting
    <3>1. OnlyRow(id)
      BY <1>3, <2>1, <2>4, RowChanges
      DEF RestoreWaiting, MarkWaiting
    <3>2. At("recovering", 0, id)'
      <4>1. recovering' = [job |-> recovering.job, status |-> "waiting",
                           attemptsMade |-> recovering.attemptsMade,
                           availableAt |-> NULL]
        BY <1>3, <2>4 DEF RestoreWaiting
      <4>2. recovering \in Snapshot
        BY <2>1 DEF EngineTypeOK, RestoreTypeOK
      <4>3. recovering' \in Snapshot
        BY <4>1, <4>2 DEF Snapshot, Statuses
      <4>4. recovering' # NULL /\ recovering'.job.id = id
        BY <4>1, <4>3, NullAssumption
      <4> QED
        BY <4>4 DEF At
    <3>3. Kept(id)'
      BY <3>2 DEF Kept
    <3> QED
      BY <2>1, <2>2, <3>1, <3>3, MoveKeeps
  <2> QED
    BY <1>3, <2>3, <2>4
<1>4. CASE RestoreRoute
  <2> PICK job : job = recovering.job
    OBVIOUS
  <2> PICK delay : delay = IF recovering.availableAt = NULL THEN 0
                           ELSE recovering.availableAt
    OBVIOUS
  <2>1. Ready(job)
    <3>1. recovering # NULL /\ Current(recovering)
      BY <1>4, PlacedJobs DEF RestoreRoute
    <3> QED
      BY <1>4, <3>1 DEF RestoreRoute, Current, Ready, AcceptsStart
  <2>2. /\ Route(job, delay) /\ UNCHANGED tableVars /\ UNCHANGED boundVars
        /\ UNCHANGED mainPc
    BY <1>4 DEF RestoreRoute, mainVars
  <2>3. ASSUME NEW kind, NEW z, NEW i, i # job.id,
               kind \notin {"queue", "scheduler"}, At(kind, z, i)
        PROVE  Remains(kind, z)
    <3>1. kind # "recovering"
      BY <2>3 DEF At
    <3> QED
      BY <1>4, <2>3, <3>1, UntouchedRemains
      DEF RestoreRoute, threadVars, taskVars
  <2> QED
    BY <2>1, <2>2, <2>3, RouteKeeps
<1> QED
  BY <1>0, <1>1, <1>2, <1>3, <1>4 DEF Restore

\* Time moves no job.
LEMMA TickStays ==
  ASSUME EngineTypeOK, Tick, NEW kind, NEW z, NEW i, At(kind, z, i)
  PROVE  At(kind, Aged(kind, z), i)'
PROOF
<1>1. CASE kind = "request"
  <2>1. /\ z \in RequestThreads /\ request[z].pc # "idle"
        /\ request[z].job.id = i
    BY <1>1 DEF At
  <2>2. /\ request'[z].pc = request[z].pc
        /\ request'[z].job = request[z].job
    BY <2>1 DEF Tick, EngineTypeOK, RequestTypeOK
  <2> QED
    BY <1>1, <2>1, <2>2 DEF At, Aged
<1>2. CASE kind = "worker"
  <2>1. /\ z \in PoolThreads /\ worker[z].pc # "idle"
        /\ worker[z].job.id = i
    BY <1>2 DEF At
  <2>2. /\ worker'[z].pc = worker[z].pc
        /\ worker'[z].job = worker[z].job
    BY <2>1 DEF Tick, EngineTypeOK, WorkerTypeOK
  <2> QED
    BY <1>2, <2>1, <2>2 DEF At, Aged
<1>3. CASE kind = "scheduler"
  <2>1. z \in delayedJobs /\ z.job.id = i
    BY <1>3 DEF At
  <2>2. Aged(kind, z).job = z.job
    BY <1>3, <2>1 DEF Aged, EngineTypeOK, SchedulerTypeOK, ScheduledJob
  <2>3. Aged(kind, z) \in delayedJobs'
    BY <1>3, <2>1 DEF Aged, Tick, ElapsedJobs
  <2> QED
    BY <1>3, <2>1, <2>2, <2>3 DEF At
<1>4. CASE kind = "read"
  <2>1. z \in toRestore /\ z.job.id = i
    BY <1>4 DEF At
  <2>2. Aged(kind, z).job = z.job
    BY <1>4, <2>1 DEF Aged, EngineTypeOK, RestoreTypeOK, Snapshot
  <2>3. Aged(kind, z) \in toRestore'
    BY <1>4, <2>1 DEF Aged, Tick
  <2> QED
    BY <1>4, <2>1, <2>2, <2>3 DEF At
<1>5. CASE kind = "recovering"
  <2>1. /\ recovering # NULL /\ recovering \in Snapshot /\ z = 0
        /\ recovering.job.id = i
    BY <1>5 DEF At, EngineTypeOK, RestoreTypeOK
  <2>2. /\ recovering' = [recovering EXCEPT !.availableAt = Later(@)]
        /\ recovering'.job = recovering.job
    BY <2>1 DEF Tick, Snapshot
  <2>3. recovering' # NULL
    <3>1. recovering.availableAt \in Nat \cup {NULL}
      BY <2>1 DEF Snapshot
    <3>2. Later(recovering.availableAt) \in Nat \cup {NULL}
      BY <3>1 DEF Later, Elapsed
    <3>3. recovering' \in Snapshot
      BY <2>1, <2>2, <3>2 DEF Snapshot
    <3> QED
      BY <3>3, NullAssumption
  <2> QED
    BY <1>5, <2>1, <2>2, <2>3 DEF At, Aged
<1>6. CASE kind \notin {"request", "worker", "scheduler", "read", "recovering"}
  <2>1. Remains(kind, z)
    BY <1>6, UntouchedRemains DEF Tick, jobQueueVars, taskVars
  <2>2. Aged(kind, z) = z
    BY <1>6 DEF Aged
  <2> QED
    BY <2>1, <2>2, StillThere
<1> QED
  BY <1>1, <1>2, <1>3, <1>4, <1>5, <1>6

\* So time keeps every unfinished row in the hands it is in.
LEMMA TickKeeps ==
  ASSUME EngineInv, AllKept, Tick PROVE AllKept'
PROOF
<1> USE DEF EngineInv
<1>1. /\ DOMAIN rows' = DOMAIN rows
      /\ \A id \in DOMAIN rows : rows'[id].status = rows[id].status
      /\ UNCHANGED <<mainPc, shutdown, faults>>
  BY DEF Tick, EngineTypeOK, StoreTypeOK, Row, mainVars, jobQueueVars, boundVars
<1>2. ASSUME NEW id \in DOMAIN rows, Kept(id) PROVE Kept(id)'
  BY <1>1, <1>2, TickStays DEF Kept
<1>3. Forgotten' \subseteq Forgotten
  BY <1>1, <1>2 DEF Forgotten
<1> SUFFICES ASSUME AfterRead' PROVE AllKept'
  BY DEF AllKept
<1>4. IsFiniteSet(Forgotten) /\ Cardinality(Forgotten) <= faults /\ faults \in Nat
  BY <1>1, Typed DEF AllKept, AfterRead
<1> QED
  BY <1>1, <1>3, <1>4, OneForEach DEF AllKept

\* The steps of main and of the process that move no job.
LEMMA MainKeeps ==
  ASSUME EngineInv, ControlInv, AllKept,
         \/ SchedulerStart \/ WorkerStart \/ HttpServerStart \/ HttpServerStop
         \/ WorkerStop \/ PoolStop \/ SchedulerStop \/ RequestStop
         \/ UNCHANGED vars
  PROVE  AllKept'
PROOF
<1>1. /\ UNCHANGED <<queue, tasks, delayedJobs, request, worker, schedulerHand,
                     restoreVars, rows, faults>>
      /\ dispatcher' = dispatcher \/ dispatcher.pc = "none"
      /\ AfterRead' => AfterRead
      /\ shutdown => shutdown'
  <2>1. CASE SchedulerStart
    BY <2>1 DEF SchedulerStart, StartScheduler, jobQueueVars, taskVars, threadVars,
                tableVars, boundVars, Main, AfterRead
  <2>2. CASE WorkerStart
    BY <2>2 DEF WorkerStart, jobQueueVars, taskVars, delayVars, tableVars,
                boundVars, Main, AfterRead, ControlInv, DispatcherInTime
  <2>3. CASE HttpServerStart \/ HttpServerStop \/ RequestStop
    <3>1. AfterRead' => AfterRead
      BY <2>3 DEF HttpServerStart, HttpServerStop, RequestStop, Main, AfterRead
    <3>2. /\ UNCHANGED <<tableVars, jobQueueVars, taskVars, delayVars>>
          /\ UNCHANGED <<restoreVars, threadVars, boundVars>>
      BY <2>3 DEF HttpServerStart, HttpServerStop, RequestStop
    <3> QED
      BY <3>1, <3>2 DEF jobQueueVars, taskVars, delayVars, threadVars, tableVars,
                        boundVars
  <2>4. CASE WorkerStop
    <3>1. AfterRead' => AfterRead
      BY <2>4 DEF WorkerStop, Main, AfterRead
    <3>2. queue' = queue /\ (shutdown => shutdown')
      <4>1. UNCHANGED jobQueueVars \/ Shutdown
        BY <2>4 DEF WorkerStop
      <4>2. CASE UNCHANGED jobQueueVars
        BY <4>2, Zenon DEF jobQueueVars
      <4>3. CASE Shutdown
        BY <4>3, Zenon DEF Shutdown
      <4> QED
        BY <4>1, <4>2, <4>3
    <3>3. /\ UNCHANGED <<tableVars, taskVars, delayVars, boundVars>>
          /\ UNCHANGED <<restoreVars, request, dispatcher, worker, schedulerHand>>
      BY <2>4 DEF WorkerStop
    <3> QED
      BY <3>1, <3>2, <3>3 DEF taskVars, delayVars, tableVars, boundVars
  <2>5. CASE PoolStop
    BY <2>5 DEF PoolStop, StopPool, jobQueueVars, taskVars, delayVars, threadVars,
                tableVars, boundVars, Main, AfterRead
  <2>6. CASE SchedulerStop
    BY <2>6 DEF SchedulerStop, StopScheduler, jobQueueVars, taskVars, delayVars,
                threadVars, tableVars, boundVars, Main, AfterRead
  <2>7. CASE UNCHANGED vars
    BY <2>7 DEF vars, jobQueueVars, taskVars, delayVars, threadVars, tableVars,
                boundVars, mainVars, AfterRead
  <2> QED
    BY <2>1, <2>2, <2>3, <2>4, <2>5, <2>6, <2>7
<1>2. ASSUME NEW kind, NEW z, NEW i, At(kind, z, i) PROVE At(kind, z, i)'
  <2>1. kind = "dispatcher" => dispatcher' = dispatcher
    BY <1>1, <1>2 DEF At
  <2>2. Remains(kind, z)
    BY <1>1, <1>2, <2>1, UntouchedRemains DEF restoreVars
  <2> QED
    BY <1>2, <2>2, StillThere
<1> QED
  BY <1>1, <1>2, StandKeeps, Typed DEF EngineInv

\* A step of the engine keeps every unfinished row in somebody's hands.
LEMMA KeptStep ==
  ASSUME EngineInv, ControlInv, AllKept, [Next]_vars PROVE AllKept'
PROOF
<1>1. ASSUME NEW h \in RequestThreads,
             RequestThread(h) \/ \E spec \in Specs : GenerateId(h, spec)
      PROVE  AllKept'
  <2>1. ASSUME Specs = {} PROVE ~RequestThread(h)
    BY <2>1 DEF RequestThread, SaveJob, RouteJob, EngineInv, EngineTypeOK,
                RequestTypeOK, Job
  <2> QED
    BY <1>1, <2>1, RequestKeeps
<1>2. CASE Dispatcher
  BY <1>2, DispatcherKeeps
<1>3. ASSUME NEW w \in PoolThreads, PoolThread(w) PROVE AllKept'
  BY <1>3, PoolThreadKeeps
<1>4. CASE SchedulerThread
  BY <1>4, SchedulerKeeps
<1>5. CASE Restore
  BY <1>5, RestoreKeeps
<1>6. CASE MainThread /\ ~Restore
  BY <1>6, MainKeeps DEF MainThread
<1>7. CASE Tick
  BY <1>7, TickKeeps
<1>8. CASE Launch \/ Crash
  BY <1>8 DEF Launch, Crash, Dies, AllKept, AfterRead
<1>9. CASE RequestStop \/ Halted \/ UNCHANGED vars
  BY <1>9, MainKeeps DEF Halted
<1> QED
  BY <1>1, <1>2, <1>3, <1>4, <1>5, <1>6, <1>7, <1>8, <1>9 DEF Next

\* Every place is a carrier.
LEMMA PlacesAreCarriers ==
  ASSUME EngineTypeOK, NEW kind, NEW x, NEW id, At(kind, x, id)
  PROVE  Carriers(id) # {}
PROOF
<1> DEFINE Holds(job) == job # NULL /\ job.id = id
<1>1. CASE kind = "request"
  <2>1. x \in RequestThreads /\ Holds(request[x].job)
    BY <1>1, NullAssumption, Typed DEF At
  <2> QED
    BY <2>1 DEF Carriers
<1>2. CASE kind = "queue"
  <2>1. x \in queue /\ Holds(x.job)
    BY <1>2, NullAssumption DEF At, EngineTypeOK, QueueTypeOK, QueuedJob
  <2> QED
    BY <2>1 DEF Carriers
<1>3. CASE kind = "scheduler"
  <2>1. x \in delayedJobs /\ Holds(x.job)
    BY <1>3, NullAssumption DEF At, EngineTypeOK, SchedulerTypeOK, ScheduledJob
  <2> QED
    BY <2>1 DEF Carriers
<1>4. CASE kind = "scheduler thread"
  <2>1. Holds(schedulerHand)
    BY <1>4 DEF At
  <2> QED
    BY <2>1 DEF Carriers
<1>5. CASE kind = "dispatcher"
  <2>1. Holds(dispatcher.job)
    BY <1>5, NullAssumption DEF At, EngineTypeOK, DispatcherTypeOK
  <2> QED
    BY <2>1 DEF Carriers
<1>6. CASE kind = "task"
  <2>1. x \in tasks /\ Holds(x.function)
    BY <1>6, NullAssumption DEF At, EngineTypeOK, PoolTypeOK, PrioritizedTask
  <2> QED
    BY <2>1 DEF Carriers
<1>7. CASE kind = "worker"
  <2>1. x \in PoolThreads /\ Holds(worker[x].job)
    BY <1>7, NullAssumption, Typed DEF At
  <2> QED
    BY <2>1 DEF Carriers
<1>8. CASE kind = "read"
  <2>1. x \in toRestore /\ Holds(x.job)
    BY <1>8, NullAssumption DEF At, EngineTypeOK, RestoreTypeOK, Snapshot
  <2> QED
    BY <2>1 DEF Carriers
<1>9. CASE kind = "recovering"
  <2>1. recovering # NULL /\ Holds(recovering.job)
    BY <1>9, NullAssumption DEF At, EngineTypeOK, RestoreTypeOK, Snapshot
  <2> QED
    BY <2>1 DEF Carriers
<1> QED
  BY <1>1, <1>2, <1>3, <1>4, <1>5, <1>6, <1>7, <1>8, <1>9 DEF At

\* What the places say of the table: an unfinished row that nothing holds, and
\* a row that is active when main has returned, are forgotten.
LEMMA KeptFollows ==
  ASSUME EngineInv, ControlInv, AllKept PROVE OrphansAreExplained /\ CleanExit
PROOF
<1> USE DEF EngineInv
<1>0. /\ faults \in Nat
      /\ AfterRead => IsFiniteSet(Forgotten) /\ Cardinality(Forgotten) <= faults
  BY Typed DEF AllKept
<1>1. ASSUME NEW S, AfterRead, S \subseteq Forgotten
      PROVE  Cardinality(S) <= faults
  BY <1>0, <1>1, OneForEach
<1>2. OrphansAreExplained
  <2> DEFINE Orphans == {id \in DOMAIN rows :
                           ~IsTerminal(rows[id].status) /\ Carriers(id) = {}}
  <2> SUFFICES ASSUME ~shutdown, AfterRead PROVE Cardinality(Orphans) <= faults
    BY DEF OrphansAreExplained, AfterRead
  <2>1. ASSUME NEW id \in Orphans PROVE id \in Forgotten
    <3>1. rows[id].status \in {"waiting", "active"}
      BY DEF EngineTypeOK, StoreTypeOK, Row, Statuses, IsTerminal
    <3>2. ~ \E kind, x : At(kind, x, id)
      BY PlacesAreCarriers
    <3>3. ~Kept(id)
      BY <3>1, <3>2 DEF Kept
    <3> QED
      BY <3>3 DEF Forgotten
  <2>2. Orphans \subseteq Forgotten
    BY <2>1
  <2> HIDE DEF Orphans
  <2> QED
    BY <1>1, <2>2
<1>3. CleanExit
  <2> DEFINE Active == {id \in DOMAIN rows : rows[id].status = "active"}
  <2> SUFFICES ASSUME mainPc = "exited" PROVE Cardinality(Active) <= faults
    BY DEF CleanExit
  <2>1. ASSUME NEW id \in Active PROVE id \in Forgotten
    <3>1. /\ \A w \in PoolThreads : worker[w].pc = "idle"
          /\ toRestore = {} /\ recovering = NULL
      BY DEF ControlInv, TasksInTime, RestoreInTime
    <3>2. ~ \E kind, x : /\ kind \in {"worker", "read", "recovering"}
                         /\ At(kind, x, id)
      BY <3>1 DEF At
    <3>3. ~Kept(id)
      BY <3>2 DEF Kept
    <3> QED
      BY <3>3 DEF Forgotten
  <2>2. Active \subseteq Forgotten /\ AfterRead
    BY <2>1 DEF AfterRead
  <2> HIDE DEF Active
  <2> QED
    BY <1>1, <2>2
<1> QED
  BY <1>2, <1>3

\* So it is in every state the engine reaches.
LEMMA EngineKeepsAll == Spec => []AllKept
PROOF
<1>1. Init => AllKept
  BY DEF Init, AllKept, AfterRead
<1>2. EngineInv /\ ControlInv /\ AllKept /\ [Next]_vars => AllKept'
  BY KeptStep
<1> QED
  BY <1>1, <1>2, EngineKeepsInv, EngineKeepsOrder, PTL DEF Spec

\* No unfinished job is forgotten without a reason: from the moment the table
\* was read until the queue is shut down, the rows that wait or are active and are
\* in the hands of no thread, no queue and not of recovery are no more than the
\* statements that failed, for any number of threads, jobs, crashes and failures.
THEOREM NoJobIsForgotten == Spec => []OrphansAreExplained
PROOF
<1>1. EngineInv /\ ControlInv /\ AllKept => OrphansAreExplained
  BY KeptFollows
<1> QED
  BY <1>1, EngineKeepsInv, EngineKeepsOrder, EngineKeepsAll, PTL

\* An ordered stop lets every attempt end: when main returns, each row that is
\* still active is so because a statement failed.
THEOREM StopsLeaveNothingActive == Spec => []CleanExit
PROOF
<1>1. EngineInv /\ ControlInv /\ AllKept => CleanExit
  BY KeptFollows
<1> QED
  BY <1>1, EngineKeepsInv, EngineKeepsOrder, EngineKeepsAll, PTL

-----------------------------------------------------------------------------
(* Refinement. *)

\* The lifecycle that a row stands for.
Progressed(row) ==
  [phase |-> row.status, attempts |-> row.attemptsMade,
   limit |-> row.spec.maxAttempts]

LifecycleJobs == [id \in DOMAIN rows |-> Progressed(rows[id])]

\* What a step does to the table is a step of the lifecycle of one job, or none;
\* a statement that fails is a failure of the storage.
LEMMA LifecycleStep ==
  ASSUME EngineInv, TableStep, faults' \in {faults, faults + 1}
  PROVE  [Lifecycle!Next]_<<LifecycleJobs, faults>>
PROOF
<1> USE DEF EngineInv
<1> DEFINE jobs == LifecycleJobs
<1>0. \A id \in DOMAIN rows :
        /\ rows[id] \in Row /\ id \in JobIds
        /\ jobs[id].phase = rows[id].status
        /\ jobs[id].attempts = rows[id].attemptsMade
        /\ jobs[id].limit = rows[id].spec.maxAttempts
  BY DEF EngineTypeOK, StoreTypeOK, LifecycleJobs, Progressed
<1>1. CASE UNCHANGED rows
  <2>1. UNCHANGED jobs
    BY <1>1 DEF LifecycleJobs
  <2>2. faults' = faults + 1 => Lifecycle!Next
    BY <2>1 DEF Lifecycle!Next, Lifecycle!StorageFails, LifecycleJobs, Progressed
  <2> QED
    BY <2>1, <2>2
<1>a. UNCHANGED boundVars => faults' = faults
  BY DEF boundVars
<1>2. ASSUME NEW job \in Job, NEW at, Save(job, at), UNCHANGED boundVars
      PROVE  Lifecycle!Next
  <2>1. job.id \in JobIds /\ job.spec.maxAttempts \in {spec.maxAttempts : spec \in Specs}
    BY DEF Job
  <2>2. jobs' = [i \in DOMAIN jobs \cup {job.id} |->
                   IF i = job.id
                   THEN [phase |-> "waiting", attempts |-> 0,
                         limit |-> job.spec.maxAttempts]
                   ELSE jobs[i]]
    BY <1>2 DEF Save, LifecycleJobs, Progressed
  <2>3. Lifecycle!Post(job.id, job.spec.maxAttempts)
    BY <1>2, <1>a, <2>2 DEF Lifecycle!Post, Save, AcceptsSave, LifecycleJobs, Progressed
  <2> QED
    BY <2>1, <2>3 DEF Lifecycle!Next
<1>3. ASSUME NEW id \in DOMAIN rows, NEW status, NEW attempts, NEW reason,
             NEW result, NEW at,
             UpdateRow(id, status, attempts, reason, result, at)
      PROVE  /\ jobs' = [jobs EXCEPT ![id] =
                           [phase |-> status, attempts |-> attempts,
                            limit |-> jobs[id].limit]]
             /\ id \in DOMAIN jobs
  <2>1. /\ DOMAIN rows' = DOMAIN rows
        /\ rows'[id].spec = rows[id].spec /\ rows'[id].status = status
        /\ rows'[id].attemptsMade = attempts
        /\ \A other \in DOMAIN rows : other # id => rows'[other] = rows[other]
    BY <1>3, UpdatedRow
  <2>2. jobs' = [i \in DOMAIN rows |-> Progressed(rows'[i])]
    BY <2>1 DEF LifecycleJobs, Progressed
  <2>3. /\ Progressed(rows'[id]) = [phase |-> status, attempts |-> attempts,
                                    limit |-> jobs[id].limit]
        /\ \A other \in DOMAIN rows \ {id} :
             Progressed(rows'[other]) = jobs[other]
    BY <1>0, <2>1 DEF LifecycleJobs, Progressed
  <2>4. jobs = [i \in DOMAIN rows |-> jobs[i]] /\ DOMAIN jobs = DOMAIN rows
    BY DEF LifecycleJobs
  <2> HIDE DEF jobs
  <2> QED
    BY <2>2, <2>3, <2>4
<1>4. ASSUME NEW id \in DOMAIN rows, NEW status, NEW reason, NEW result, NEW at,
             UpdateRow(id, status, rows[id].attemptsMade, reason, result, at)
      PROVE  jobs' = [jobs EXCEPT ![id].phase = status] /\ id \in DOMAIN jobs
  BY <1>0, <1>3, <1>4 DEF LifecycleJobs, Progressed
<1>5. ASSUME NEW id \in DOMAIN rows, StartAttempt(id), UNCHANGED boundVars
      PROVE  Lifecycle!Next
  <2>1. /\ jobs' = [jobs EXCEPT ![id] =
                      [phase |-> "active", attempts |-> rows[id].attemptsMade + 1,
                       limit |-> jobs[id].limit]]
        /\ id \in DOMAIN jobs
    BY <1>3, <1>5 DEF StartAttempt
  <2>2. Lifecycle!Begin(id)
    BY <1>0, <1>5, <1>a, <2>1
    DEF Lifecycle!Begin, StartAttempt, AcceptsStart, LifecycleJobs, Progressed
  <2> QED
    BY <1>3, <1>5, <2>2 DEF StartAttempt, Lifecycle!Next, LifecycleJobs, Progressed
<1>6. ASSUME NEW id \in DOMAIN rows, rows[id].status = "active",
             MarkCompleted(id, "result"), UNCHANGED boundVars
      PROVE  Lifecycle!Next
  <2>1. Lifecycle!Succeed(id) /\ id \in DOMAIN jobs
    BY <1>0, <1>4, <1>6, <1>a
    DEF MarkCompleted, Lifecycle!Succeed, Lifecycle!Moves, LifecycleJobs, Progressed
  <2> QED
    BY <2>1 DEF Lifecycle!Next, LifecycleJobs, Progressed
<1>7. ASSUME NEW id \in DOMAIN rows, NEW reason, MarkFailed(id, reason),
             ~IsTerminal(rows[id].status),
             faults = 0 => rows[id].status = "active", UNCHANGED boundVars
      PROVE  Lifecycle!Next
  <2>0. rows[id].status = "active" \/ (rows[id].status = "waiting" /\ faults > 0)
    <3>1. rows[id].status \in {"waiting", "active"} /\ faults \in Nat
      BY <1>0, <1>7, Typed DEF Row, Statuses, IsTerminal
    <3> QED
      BY <1>7, <3>1
  <2>1. Lifecycle!GiveUp(id) /\ id \in DOMAIN jobs
    BY <1>0, <1>4, <1>7, <1>a, <2>0
    DEF MarkFailed, Lifecycle!GiveUp, Lifecycle!Moves, LifecycleJobs, Progressed
  <2> QED
    BY <2>1 DEF Lifecycle!Next, LifecycleJobs, Progressed
<1>8. ASSUME NEW id \in DOMAIN rows, NEW at, MarkWaiting(id, at),
             rows[id].attemptsMade < rows[id].spec.maxAttempts,
             UNCHANGED boundVars
      PROVE  Lifecycle!Next
  <2>1. Lifecycle!TryAgain(id) /\ id \in DOMAIN jobs
    BY <1>0, <1>4, <1>8, <1>a
    DEF MarkWaiting, AcceptsWaiting, Lifecycle!TryAgain, Lifecycle!Moves,
        LifecycleJobs, Progressed
  <2> QED
    BY <2>1 DEF Lifecycle!Next, LifecycleJobs, Progressed
<1>9. CASE Tick
  <2>1. /\ DOMAIN rows' = DOMAIN rows
        /\ \A id \in DOMAIN rows :
             /\ rows'[id].status = rows[id].status
             /\ rows'[id].attemptsMade = rows[id].attemptsMade
             /\ rows'[id].spec = rows[id].spec
        /\ faults' = faults
    BY <1>9 DEF Tick, EngineTypeOK, StoreTypeOK, Row, boundVars
  <2> QED
    BY <2>1 DEF LifecycleJobs, Progressed
<1> QED
  BY <1>1, <1>2, <1>5, <1>6, <1>7, <1>8, <1>9 DEF TableStep

\* The engine implements the lifecycle of its jobs, through every interleaving,
\* crash, restart, stop and failing statement.
THEOREM EngineImplementsLifecycle == Spec => ImplementsLifecycle
PROOF
<1>1. Init => Lifecycle!Init
  <2> SUFFICES ASSUME Init PROVE LifecycleJobs = [id \in {} |-> 0] /\ faults = 0
    BY DEF Lifecycle!Init, LifecycleJobs, Progressed
  <2> QED
    BY DEF Init, StoreInit, LifecycleJobs
<1>2. EngineInv /\ [Next]_vars => [Lifecycle!Next]_<<LifecycleJobs, faults>>
  <2> SUFFICES ASSUME EngineInv, [Next]_vars
               PROVE  [Lifecycle!Next]_<<LifecycleJobs, faults>>
    OBVIOUS
  <2>1. faults' \in {faults, faults + 1}
    BY FaultsStep DEF EngineInv
  <2> QED
    BY <2>1, TableSteps, LifecycleStep
<1> QED
  BY <1>1, <1>2, EngineKeepsInv, PTL
  DEF Spec, ImplementsLifecycle, Lifecycle!Spec, Lifecycle!lifecycleVars,
      LifecycleJobs, Progressed
=============================================================================
