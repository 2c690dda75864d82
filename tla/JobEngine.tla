----------------------------- MODULE JobEngine -----------------------------
(***************************************************************************)
(* The whole job engine: main (src/src/main.cpp) with the HTTP server's    *)
(* request threads, JobService, the Worker's dispatcher and tasks, and the *)
(* scheduler thread, over the job table, the job queue, the thread pool    *)
(* and the delayed-job scheduler.                                          *)
(*                                                                         *)
(* Every call on a component is one action of its thread, so two threads   *)
(* interleave between any two calls.  A wait on a condition variable is a  *)
(* guard; the modules ...Threads model the condition variables.  A process *)
(* may die at any step and be launched again on the same database file.    *)
(* Any SQL statement may fail, without an effect, up to MaxFaults times.   *)
(***************************************************************************)
EXTENDS Naturals, FiniteSets

CONSTANTS
  RequestThreads,  \* Threads of the HTTP library that serve POST /jobs.
  PoolThreads,     \* workers_ of the thread pool.
  MaxQueueSize,    \* maxQueueSize_ of the thread pool.
  Specs,           \* The immutable columns of the jobs that are posted.
  MaximumDelay,    \* The longest delay.
  RetryDelay(_, _),  \* Worker::calculateRetryDelay of a backoff and a number
                     \* of attempts made: see RetryBackoff.
  MaxJobs,         \* Bound: jobs posted over all launches.
  MaxLaunches,     \* Bound: launches of the program.
  MaxFaults,       \* Bound: SQL statements that fail.
  NULL

ASSUME BoundsAssumption ==
  /\ MaxJobs \in Nat /\ MaxLaunches \in Nat /\ MaxFaults \in Nat
  /\ MaxQueueSize \in Nat \ {0}
  /\ MaximumDelay \in Nat \ {0}
  /\ IsFiniteSet(RequestThreads) /\ IsFiniteSet(PoolThreads)
  /\ NULL \notin Nat

ASSUME SpecsAssumption ==
  /\ Specs \subseteq [priority : Nat, delay : 0 .. MaximumDelay,
                      retryBackoff : 0 .. MaximumDelay,
                      maxAttempts : Nat \ {0}]
  /\ \A spec \in Specs : \A attempts \in 0 .. spec.maxAttempts :
       RetryDelay(spec.retryBackoff, attempts) \in 0 .. MaximumDelay

VARIABLES
  rows, nextValue,                      \* JobStore: the only durable state.
  queue, nextSequence, shutdown,        \* JobQueue.
  tasks, nextTaskSequence, stop,        \* ThreadPool.
  delayedJobs, running,                 \* DelayedJobScheduler.
  mainPc,          \* Where main() is; "down" when there is no process.
  stopRequested,   \* The flag the signal handler sets.
  toRestore,       \* restoreUnfinished: the rows read and not yet handled,
  recovering,      \*   and the one being handled.
  request,         \* Each request thread's progress through JobService::add.
  workerRunning,   \* running_ of Worker.
  dispatcher,      \* The dispatcher thread.
  worker,          \* Each pool thread's progress through a task.
  schedulerHand,   \* The job the scheduler thread took and not yet pushed.
  launches, faults

Outcomes == {"returns", "retryable", "permanent"}

\* The texts a failure_reason tells apart: the handler's own error, thrown
\* with no attempt left or never to be retried, the errors of startAttempt
\* and markCompleted, and the text of recovery.
FailureReasons == {"exhausted", "permanent", "not started", "not completed",
                   "no attempts at recovery"}

INSTANCE JobStore WITH Reasons <- FailureReasons, Results <- {"result"},
                       Delays <- 0 .. MaximumDelay
INSTANCE JobQueue WITH Jobs <- Job
INSTANCE ThreadPool WITH Functions <- Job
INSTANCE DelayedJobScheduler WITH Jobs <- Job

tableVars    == <<rows, nextValue>>
jobQueueVars == <<queue, nextSequence, shutdown>>
taskVars     == <<tasks, nextTaskSequence, stop>>
delayVars    == <<delayedJobs, running>>
mainVars     == <<mainPc, stopRequested>>
restoreVars  == <<toRestore, recovering>>
threadVars   == <<request, workerRunning, dispatcher, worker, schedulerHand>>
boundVars    == <<launches, faults>>
vars == <<tableVars, jobQueueVars, taskVars, delayVars, mainVars,
          restoreVars, threadVars, boundVars>>

-----------------------------------------------------------------------------
(* What threads hold. *)

Snapshot == [job : Job, status : Statuses, attemptsMade : Nat,
             availableAt : Nat \cup {NULL}]

\* NULL is none of the values it stands in for.
ASSUME NullAssumption ==
  NULL \notin FailureReasons /\ NULL \notin Job /\ NULL \notin Snapshot

IdleRequest == [pc |-> "idle", job |-> NULL, availableAt |-> NULL]

\* A pool thread's progress through a task: the statement it is about to
\* execute, its copy of the job, and the text it will store if that fails.
Progress(pc, job, attemptsMade, availableAt, reason) ==
  [pc |-> pc, job |-> job, attemptsMade |-> attemptsMade,
   availableAt |-> availableAt, reason |-> reason]

IdleWorker == Progress("idle", NULL, 0, NULL, NULL)

\* now() + delay, or no instant at all for a delay of zero.
AvailableAt(delay) == IF delay > 0 THEN delay ELSE NULL

\* calculateRetryDelay(job), with the attempts this task has counted.
TaskRetryDelay(w) ==
  RetryDelay(worker[w].job.spec.retryBackoff, worker[w].attemptsMade)

\* A job goes to the scheduler when it has to wait, to the queue otherwise.
Route(job, delay) ==
  IF delay > 0
  THEN ScheduleAt(job, delay) /\ UNCHANGED jobQueueVars
  ELSE Push(job) /\ UNCHANGED delayVars

StatementFails ==
  /\ faults < MaxFaults
  /\ faults' = faults + 1
  /\ UNCHANGED <<tableVars, launches>>

-----------------------------------------------------------------------------
(* HTTP requests: JobService::add. *)

\* POST /jobs with a body that passes validation: generateJobId, then the
\* instant at which the job becomes available.
GenerateId(h, spec) ==
  /\ mainPc = "serving"
  /\ request[h].pc = "idle"
  /\ GenerateJobId
  /\ request' = [request EXCEPT ![h] =
                   [pc |-> "saving", job |-> [id |-> nextValue, spec |-> spec],
                    availableAt |-> AvailableAt(spec.delay)]]
  /\ UNCHANGED <<jobQueueVars, taskVars, delayVars, mainVars, restoreVars,
                 workerRunning, dispatcher, worker, schedulerHand, boundVars>>

\* store_.save; an exception ends the request.
SaveJob(h) ==
  /\ request[h].pc = "saving"
  /\ \/ /\ Save(request[h].job, request[h].availableAt)
        /\ request' = [request EXCEPT ![h].pc = "routing"]
        /\ UNCHANGED boundVars
     \/ /\ StatementFails
        /\ request' = [request EXCEPT ![h] = IdleRequest]
  /\ UNCHANGED <<jobQueueVars, taskVars, delayVars, mainVars, restoreVars,
                 workerRunning, dispatcher, worker, schedulerHand>>

\* scheduler_.schedule or queue_.push, with the delay the job came with.
RouteJob(h) ==
  /\ request[h].pc = "routing"
  /\ Route(request[h].job, request[h].job.spec.delay)
  /\ request' = [request EXCEPT ![h] = IdleRequest]
  /\ UNCHANGED <<tableVars, taskVars, mainVars, restoreVars, workerRunning,
                 dispatcher, worker, schedulerHand, boundVars>>

-----------------------------------------------------------------------------
(* The dispatcher thread of Worker. *)

\* while (running_.load())
DispatcherLoop ==
  /\ dispatcher.pc = "loop"
  /\ dispatcher' = [dispatcher EXCEPT !.pc = IF workerRunning THEN "popping"
                                             ELSE "returned"]
  /\ UNCHANGED <<tableVars, jobQueueVars, taskVars, delayVars, mainVars,
                 restoreVars, request, workerRunning, worker, schedulerHand,
                 boundVars>>

\* queue_.pop(): a job, also one that was left when the queue was shut down,
\* or nullopt, on which the thread returns.
DispatcherPop ==
  /\ dispatcher.pc = "popping"
  /\ \/ \E entry \in queue :
          /\ PopJob(entry)
          /\ dispatcher' = [pc |-> "enqueueing", job |-> entry.job]
     \/ /\ PopNothing
        /\ dispatcher' = [dispatcher EXCEPT !.pc = "returned"]
  /\ UNCHANGED <<tableVars, taskVars, delayVars, mainVars, restoreVars,
                 request, workerRunning, worker, schedulerHand, boundVars>>

\* pool_.enqueueWithPriority: waits while the pool is full.
DispatcherEnqueue ==
  /\ dispatcher.pc = "enqueueing"
  /\ Enqueue(dispatcher.job.spec.priority, dispatcher.job)
  /\ dispatcher' = [pc |-> "loop", job |-> NULL]
  /\ UNCHANGED <<tableVars, jobQueueVars, delayVars, mainVars, restoreVars,
                 request, workerRunning, worker, schedulerHand, boundVars>>

-----------------------------------------------------------------------------
(* A pool thread that runs the Worker's task. *)

TakeTask(w) ==
  /\ worker[w].pc = "idle"
  /\ \E task \in tasks :
       /\ Take(task)
       /\ worker' = [worker EXCEPT ![w] =
                       Progress("starting", task.function, 0, NULL, NULL)]
  /\ UNCHANGED <<tableVars, jobQueueVars, delayVars, mainVars, restoreVars,
                 request, workerRunning, dispatcher, schedulerHand, boundVars>>

\* A catch clause is entered that is about to mark the job failed.
Catches(w, reason) ==
  worker' = [worker EXCEPT ![w] = Progress("failing", worker[w].job,
                                           worker[w].attemptsMade, NULL, reason)]

\* Mutant: the task keeps the count its copy of the job came with.
StartJobKeepsCount(w) ==
  LET job == worker[w].job
  IN
  /\ worker[w].pc = "starting"
  /\ \/ /\ StartAttempt(job.id)
        /\ worker' = [worker EXCEPT ![w] =
             Progress("processing", job, rows[job.id].attemptsMade, NULL, NULL)]
        /\ UNCHANGED boundVars
     \/ StatementFails /\ Catches(w, "not started")
  /\ UNCHANGED <<jobQueueVars, taskVars, delayVars, mainVars, restoreVars,
                 request, workerRunning, dispatcher, schedulerHand>>

\* store_.startAttempt, whose RETURNING gives the task its count.  When it
\* throws, the handler for std::exception marks the job failed, whatever the
\* reason of the error was.
StartJob(w) ==
  LET job == worker[w].job
  IN
  /\ worker[w].pc = "starting"
  /\ \/ /\ StartAttempt(job.id)
        /\ worker' = [worker EXCEPT ![w] =
             Progress("processing", job, rows'[job.id].attemptsMade, NULL, NULL)]
        /\ UNCHANGED boundVars
     \/ StatementFails /\ Catches(w, "not started")
  /\ UNCHANGED <<jobQueueVars, taskVars, delayVars, mainVars, restoreVars,
                 request, workerRunning, dispatcher, schedulerHand>>

\* Mutant: one attempt too many.
HasAttemptsBeyondLimit(w) ==
  worker[w].attemptsMade <= worker[w].job.spec.maxAttempts

\* hasAttemptsRemaining, from the task's own copy of the job.
HasAttemptsRemaining(w) ==
  worker[w].attemptsMade < worker[w].job.spec.maxAttempts

\* processor_.process(job), and the choice of the catch clause.
Process(w) ==
  LET job == worker[w].job
      attemptsMade == worker[w].attemptsMade
  IN
  /\ worker[w].pc = "processing"
  /\ \E outcome \in Outcomes :
       \/ /\ outcome = "returns"
          /\ worker' = [worker EXCEPT ![w].pc = "completing"]
       \/ /\ outcome = "retryable"
          /\ HasAttemptsRemaining(w)
          /\ worker' = [worker EXCEPT ![w] =
               Progress("retrying", job, attemptsMade,
                        AvailableAt(TaskRetryDelay(w)), NULL)]
       \/ /\ outcome = "retryable"
          /\ ~HasAttemptsRemaining(w)
          /\ Catches(w, "exhausted")
       \/ /\ outcome = "permanent"
          /\ Catches(w, "permanent")
  /\ UNCHANGED <<tableVars, jobQueueVars, taskVars, delayVars, mainVars,
                 restoreVars, request, workerRunning, dispatcher,
                 schedulerHand, boundVars>>

\* store_.markCompleted; an exception is caught by the same task, which then
\* marks the job failed.
Complete(w) ==
  /\ worker[w].pc = "completing"
  /\ \/ /\ MarkCompleted(worker[w].job.id, "result")
        /\ worker' = [worker EXCEPT ![w] = IdleWorker]
        /\ UNCHANGED boundVars
     \/ StatementFails /\ Catches(w, "not completed")
  /\ UNCHANGED <<jobQueueVars, taskVars, delayVars, mainVars, restoreVars,
                 request, workerRunning, dispatcher, schedulerHand>>

\* store_.markFailed in a catch clause; an exception there ends in the future
\* of the task, which nobody reads.
Fail(w) ==
  /\ worker[w].pc = "failing"
  /\ \/ MarkFailed(worker[w].job.id, worker[w].reason) /\ UNCHANGED boundVars
     \/ StatementFails
  /\ worker' = [worker EXCEPT ![w] = IdleWorker]
  /\ UNCHANGED <<jobQueueVars, taskVars, delayVars, mainVars, restoreVars,
                 request, workerRunning, dispatcher, schedulerHand>>

\* store_.markWaiting; an exception ends in the future of the task.
Retry(w) ==
  /\ worker[w].pc = "retrying"
  /\ \/ /\ MarkWaiting(worker[w].job.id, worker[w].availableAt)
        /\ worker' = [worker EXCEPT ![w].pc = "rerouting"]
        /\ UNCHANGED boundVars
     \/ /\ StatementFails
        /\ worker' = [worker EXCEPT ![w] = IdleWorker]
  /\ UNCHANGED <<jobQueueVars, taskVars, delayVars, mainVars, restoreVars,
                 request, workerRunning, dispatcher, schedulerHand>>

\* Mutant: the task ends without handing the job on.
RerouteForgotten(w) ==
  /\ worker[w].pc = "rerouting"
  /\ worker' = [worker EXCEPT ![w] = IdleWorker]
  /\ UNCHANGED <<tableVars, jobQueueVars, taskVars, delayVars, mainVars,
                 restoreVars, request, workerRunning, dispatcher,
                 schedulerHand, boundVars>>

\* scheduler_.schedule or queue_.push, with the whole retry delay.
Reroute(w) ==
  /\ worker[w].pc = "rerouting"
  /\ Route(worker[w].job, TaskRetryDelay(w))
  /\ worker' = [worker EXCEPT ![w] = IdleWorker]
  /\ UNCHANGED <<tableVars, taskVars, mainVars, restoreVars, request,
                 workerRunning, dispatcher, schedulerHand, boundVars>>

-----------------------------------------------------------------------------
(* The scheduler thread. *)

SchedulerTakes ==
  /\ schedulerHand = NULL
  /\ \E entry \in delayedJobs :
       /\ TakeDue(entry)
       /\ schedulerHand' = entry.job
  /\ UNCHANGED <<tableVars, jobQueueVars, taskVars, mainVars, restoreVars,
                 request, workerRunning, dispatcher, worker, boundVars>>

SchedulerPushes ==
  /\ schedulerHand # NULL
  /\ Push(schedulerHand)
  /\ schedulerHand' = NULL
  /\ UNCHANGED <<tableVars, taskVars, delayVars, mainVars, restoreVars,
                 request, workerRunning, dispatcher, worker, boundVars>>

-----------------------------------------------------------------------------
(* main: start, JobService::restoreUnfinished, and the ordered stop. *)

\* The memory of a process that has just been launched.
MemoryInit ==
  /\ QueueInit /\ PoolInit /\ SchedulerInit
  /\ stopRequested = FALSE
  /\ toRestore = {} /\ recovering = NULL
  /\ request = [h \in RequestThreads |-> IdleRequest]
  /\ workerRunning = FALSE
  /\ dispatcher = [pc |-> "none", job |-> NULL]
  /\ worker = [w \in PoolThreads |-> IdleWorker]
  /\ schedulerHand = NULL

\* A step after which memory is as MemoryInit says.
FreshMemory ==
  /\ queue' = {} /\ nextSequence' = 0 /\ shutdown' = FALSE
  /\ tasks' = {} /\ nextTaskSequence' = 0 /\ stop' = FALSE
  /\ delayedJobs' = {} /\ running' = FALSE
  /\ stopRequested' = FALSE
  /\ toRestore' = {} /\ recovering' = NULL
  /\ request' = [h \in RequestThreads |-> IdleRequest]
  /\ workerRunning' = FALSE
  /\ dispatcher' = [pc |-> "none", job |-> NULL]
  /\ worker' = [w \in PoolThreads |-> IdleWorker]
  /\ schedulerHand' = NULL

Main(from, to) == mainPc = from /\ mainPc' = to

Up == mainPc \notin {"down", "exited"}

Launch ==
  /\ ~Up
  /\ launches < MaxLaunches
  /\ launches' = launches + 1
  /\ mainPc' = "starting"
  /\ FreshMemory
  /\ UNCHANGED <<tableVars, faults>>

\* The process dies; its memory is gone.
Dies ==
  /\ mainPc' = "down"
  /\ FreshMemory

Crash ==
  /\ Up
  /\ Dies
  /\ UNCHANGED <<tableVars, boundVars>>

SchedulerStart ==
  /\ Main("starting", "reading")
  /\ StartScheduler
  /\ UNCHANGED <<tableVars, jobQueueVars, taskVars, stopRequested, restoreVars,
                 threadVars, boundVars>>

\* store_.unfinished().  Nothing catches an exception of restoreUnfinished:
\* the program terminates.
ReadUnfinished ==
  \/ /\ Main("reading", "restoring")
     /\ toRestore' = Unfinished
     /\ UNCHANGED <<tableVars, jobQueueVars, taskVars, delayVars,
                    stopRequested, recovering, threadVars, boundVars>>
  \/ /\ mainPc = "reading"
     /\ StatementFails
     /\ Dies

\* for (Job &job : jobs)
RestoreNext ==
  /\ mainPc = "restoring"
  /\ recovering = NULL
  /\ \E snapshot \in toRestore :
       /\ recovering' = snapshot
       /\ toRestore' = toRestore \ {snapshot}
  /\ UNCHANGED <<tableVars, jobQueueVars, taskVars, delayVars, mainVars,
                 threadVars, boundVars>>

\* Mutant: recovery takes the last attempt away.
RestoreFailTooEarly ==
  /\ recovering # NULL
  /\ recovering.attemptsMade + 1 >= recovering.job.spec.maxAttempts
  /\ MarkFailed(recovering.job.id, "no attempts at recovery")
  /\ recovering' = NULL
  /\ UNCHANGED <<jobQueueVars, taskVars, delayVars, mainVars, toRestore,
                 threadVars, boundVars>>

\* A job that may not be attempted again fails.
RestoreFail ==
  /\ recovering # NULL
  /\ recovering.attemptsMade >= recovering.job.spec.maxAttempts
  /\ \/ /\ MarkFailed(recovering.job.id, "no attempts at recovery")
        /\ recovering' = NULL
        /\ UNCHANGED <<jobQueueVars, taskVars, delayVars, mainVars, toRestore,
                       threadVars, boundVars>>
     \/ StatementFails /\ Dies

\* A job that was running when the last process ended waits again.
RestoreWaiting ==
  /\ recovering # NULL
  /\ recovering.attemptsMade < recovering.job.spec.maxAttempts
  /\ recovering.status = "active"
  /\ \/ /\ MarkWaiting(recovering.job.id, NULL)
        /\ recovering' = [job |-> recovering.job, status |-> "waiting",
                          attemptsMade |-> recovering.attemptsMade,
                          availableAt |-> NULL]
        /\ UNCHANGED <<jobQueueVars, taskVars, delayVars, mainVars, toRestore,
                       threadVars, boundVars>>
     \/ StatementFails /\ Dies

\* Mutant: the branch that schedules forgets its continue.
RestoreRouteTwice ==
  /\ recovering # NULL
  /\ recovering.attemptsMade < recovering.job.spec.maxAttempts
  /\ recovering.status = "waiting"
  /\ IF recovering.availableAt \in {0, NULL} THEN UNCHANGED delayVars
     ELSE ScheduleAt(recovering.job, recovering.availableAt)
  /\ Push(recovering.job)
  /\ recovering' = NULL
  /\ UNCHANGED <<tableVars, taskVars, mainVars, toRestore, threadVars,
                 boundVars>>

\* Mutant: a job that was active is handed on without markWaiting.
RestoreRouteActive ==
  /\ recovering # NULL
  /\ recovering.attemptsMade < recovering.job.spec.maxAttempts
  /\ Route(recovering.job, IF recovering.availableAt = NULL THEN 0
                           ELSE recovering.availableAt)
  /\ recovering' = NULL
  /\ UNCHANGED <<tableVars, taskVars, mainVars, toRestore, threadVars,
                 boundVars>>

\* Mutant: a restored job starts at once.
RestoreRouteAtOnce ==
  /\ recovering # NULL
  /\ recovering.attemptsMade < recovering.job.spec.maxAttempts
  /\ recovering.status = "waiting"
  /\ Route(recovering.job, 0)
  /\ recovering' = NULL
  /\ UNCHANGED <<tableVars, taskVars, mainVars, toRestore, threadVars,
                 boundVars>>

\* A waiting job goes to the scheduler for the time that remains, or to the
\* queue when no time remains.
RestoreRoute ==
  /\ recovering # NULL
  /\ recovering.attemptsMade < recovering.job.spec.maxAttempts
  /\ recovering.status = "waiting"
  /\ Route(recovering.job, IF recovering.availableAt = NULL THEN 0
                           ELSE recovering.availableAt)
  /\ recovering' = NULL
  /\ UNCHANGED <<tableVars, taskVars, mainVars, toRestore, threadVars,
                 boundVars>>

\* restoreUnfinished returns and worker.start() runs.
WorkerStart ==
  /\ toRestore = {} /\ recovering = NULL
  /\ Main("restoring", "binding")
  /\ workerRunning' = TRUE
  /\ dispatcher' = [pc |-> "loop", job |-> NULL]
  /\ UNCHANGED <<tableVars, jobQueueVars, taskVars, delayVars, stopRequested,
                 restoreVars, request, worker, schedulerHand, boundVars>>

\* httpServer.start: requests are accepted from here on.  A port that cannot
\* be bound ends the program, like Crash.
HttpServerStart ==
  /\ Main("binding", "serving")
  /\ UNCHANGED <<tableVars, jobQueueVars, taskVars, delayVars, stopRequested,
                 restoreVars, threadVars, boundVars>>

\* SIGINT or SIGTERM.
RequestStop ==
  /\ Up
  /\ ~stopRequested
  /\ stopRequested' = TRUE
  /\ UNCHANGED <<tableVars, jobQueueVars, taskVars, delayVars, mainPc,
                 restoreVars, threadVars, boundVars>>

\* Mutant: httpServer.stop() does not wait for requests.
HttpServerStopAtOnce ==
  /\ stopRequested /\ Main("serving", "stopping worker")
  /\ UNCHANGED <<tableVars, jobQueueVars, taskVars, delayVars, stopRequested,
                 restoreVars, threadVars, boundVars>>

\* main leaves its polling loop; httpServer.stop() accepts no more requests
\* and joins the threads that still serve one.
HttpServerStop ==
  /\ \/ stopRequested /\ Main("serving", "joining http")
     \/ /\ \A h \in RequestThreads : request[h].pc = "idle"
        /\ Main("joining http", "stopping worker")
  /\ UNCHANGED <<tableVars, jobQueueVars, taskVars, delayVars, stopRequested,
                 restoreVars, threadVars, boundVars>>

\* Mutant: the dispatcher is joined without shutting the queue down.
WorkerStopNoShutdown ==
  /\ \/ /\ Main("stopping worker", "joining dispatcher")
        /\ workerRunning' = FALSE
     \/ /\ Main("joining dispatcher", "stopping pool")
        /\ dispatcher.pc = "returned"
        /\ UNCHANGED workerRunning
  /\ UNCHANGED <<tableVars, jobQueueVars, taskVars, delayVars, stopRequested,
                 restoreVars, request, dispatcher, worker, schedulerHand,
                 boundVars>>

\* worker.stop(): running_.store(false), queue_.shutdown(), join.
WorkerStop ==
  /\ \/ /\ Main("stopping worker", "shutting queue down")
        /\ workerRunning' = FALSE
        /\ UNCHANGED jobQueueVars
     \/ /\ Main("shutting queue down", "joining dispatcher")
        /\ Shutdown
        /\ UNCHANGED workerRunning
     \/ /\ Main("joining dispatcher", "stopping pool")
        /\ dispatcher.pc = "returned"
        /\ UNCHANGED <<jobQueueVars, workerRunning>>
  /\ UNCHANGED <<tableVars, taskVars, delayVars, stopRequested,
                 restoreVars, request, dispatcher, worker, schedulerHand,
                 boundVars>>

\* Mutant: pool.stop() does not join the pool threads.
PoolStopNoJoin ==
  /\ Main("stopping pool", "stopping scheduler") /\ StopPool
  /\ UNCHANGED <<tableVars, jobQueueVars, delayVars, stopRequested,
                 restoreVars, threadVars, boundVars>>

\* pool.stop(): the pool threads finish every task before they return.
PoolStop ==
  /\ \/ Main("stopping pool", "joining pool") /\ StopPool
     \/ /\ Main("joining pool", "stopping scheduler")
        /\ Drained
        /\ \A w \in PoolThreads : worker[w].pc = "idle"
        /\ UNCHANGED taskVars
  /\ UNCHANGED <<tableVars, jobQueueVars, delayVars, stopRequested,
                 restoreVars, threadVars, boundVars>>

\* scheduler.stop(), and the end of main.
SchedulerStop ==
  /\ \/ Main("stopping scheduler", "joining scheduler") /\ StopScheduler
     \/ /\ Main("joining scheduler", "exited")
        /\ schedulerHand = NULL
        /\ UNCHANGED delayVars
  /\ UNCHANGED <<tableVars, jobQueueVars, taskVars, stopRequested, restoreVars,
                 threadVars, boundVars>>

-----------------------------------------------------------------------------
(* Time. *)

Later(at) == IF at = NULL THEN NULL ELSE Elapsed(at)

\* One unit of time passes: every instant that is still to come is nearer.
Tick ==
  /\ rows' = [id \in DOMAIN rows |->
                [rows[id] EXCEPT !.availableAt = Later(@)]]
  /\ delayedJobs' = ElapsedJobs
  /\ toRestore' = {[s EXCEPT !.availableAt = Later(@)] : s \in toRestore}
  /\ recovering' = IF recovering = NULL THEN NULL
                   ELSE [recovering EXCEPT !.availableAt = Later(@)]
  /\ request' = [h \in RequestThreads |->
                   [request[h] EXCEPT !.availableAt = Later(@)]]
  /\ worker' = [w \in PoolThreads |->
                  [worker[w] EXCEPT !.availableAt = Later(@)]]
  /\ UNCHANGED <<nextValue, jobQueueVars, taskVars, running, mainVars,
                 workerRunning, dispatcher, schedulerHand, boundVars>>

-----------------------------------------------------------------------------
Init ==
  /\ StoreInit
  /\ MemoryInit
  /\ mainPc = "down"
  /\ launches = 0
  /\ faults = 0

RequestThread(h) == SaveJob(h) \/ RouteJob(h)

Dispatcher == DispatcherLoop \/ DispatcherPop \/ DispatcherEnqueue

PoolThread(w) ==
  \/ TakeTask(w) \/ StartJob(w) \/ Process(w)
  \/ Complete(w) \/ Fail(w) \/ Retry(w) \/ Reroute(w)

SchedulerThread == SchedulerTakes \/ SchedulerPushes

Restore ==
  \/ ReadUnfinished \/ RestoreNext \/ RestoreFail \/ RestoreWaiting
  \/ RestoreRoute

MainThread ==
  \/ SchedulerStart \/ Restore \/ WorkerStart \/ HttpServerStart
  \/ HttpServerStop \/ WorkerStop \/ PoolStop \/ SchedulerStop

\* Nothing is left to happen.
Halted ==
  /\ ~Up
  /\ launches = MaxLaunches
  /\ UNCHANGED vars

Next ==
  \/ \E h \in RequestThreads : RequestThread(h) \/ \E spec \in Specs : GenerateId(h, spec)
  \/ Dispatcher
  \/ \E w \in PoolThreads : PoolThread(w)
  \/ SchedulerThread
  \/ MainThread
  \/ Tick
  \/ RequestStop \/ Launch \/ Crash \/ Halted

Spec == Init /\ [][Next]_vars

\* Every thread that can take a step takes one, and time passes.  Nobody has
\* to post a job, ask the program to stop, launch it or kill it.
Fairness ==
  /\ \A h \in RequestThreads : WF_vars(RequestThread(h))
  /\ WF_vars(Dispatcher)
  /\ \A w \in PoolThreads : WF_vars(PoolThread(w))
  /\ WF_vars(SchedulerThread)
  /\ WF_vars(MainThread)
  /\ WF_vars(Tick)

FairSpec == Spec /\ Fairness

-----------------------------------------------------------------------------
(* Properties. *)

MainTypeOK ==
  /\ mainPc \in {"down", "starting", "reading", "restoring", "binding",
                 "serving", "joining http", "stopping worker",
                 "shutting queue down", "joining dispatcher", "stopping pool",
                 "joining pool", "stopping scheduler", "joining scheduler",
                 "exited"}
  /\ stopRequested \in BOOLEAN
  /\ launches \in 0 .. MaxLaunches
  /\ faults \in 0 .. MaxFaults

RestoreTypeOK ==
  /\ toRestore \subseteq Snapshot
  /\ recovering \in Snapshot \cup {NULL}

RequestTypeOK ==
  /\ request \in [RequestThreads ->
       [pc : {"idle", "saving", "routing"}, job : Job \cup {NULL},
        availableAt : Nat \cup {NULL}]]
  /\ \A h \in RequestThreads :
       request[h].pc # "idle" => request[h].job \in Job

DispatcherTypeOK ==
  /\ workerRunning \in BOOLEAN
  /\ dispatcher \in [pc : {"none", "loop", "popping", "enqueueing", "returned"},
                     job : Job \cup {NULL}]
  /\ dispatcher.pc = "enqueueing" => dispatcher.job \in Job
  /\ schedulerHand \in Job \cup {NULL}

WorkerTypeOK ==
  /\ worker \in [PoolThreads ->
       [pc : {"idle", "starting", "processing", "completing", "failing",
              "retrying", "rerouting"},
        job : Job \cup {NULL}, attemptsMade : Nat,
        availableAt : Nat \cup {NULL}, reason : FailureReasons \cup {NULL}]]
  /\ \A w \in PoolThreads :
       /\ worker[w].pc # "idle" => worker[w].job \in Job
       /\ worker[w].pc = "failing" => worker[w].reason \in FailureReasons
       /\ worker[w].pc \in {"retrying", "rerouting"} =>
            worker[w].attemptsMade < worker[w].job.spec.maxAttempts

\* Every variable has its type; a thread that is busy holds a job, one that
\* fails a job has a reason, and one that retries it has an attempt left.
EngineTypeOK ==
  /\ StoreTypeOK /\ QueueTypeOK /\ PoolTypeOK /\ SchedulerTypeOK
  /\ MainTypeOK /\ RestoreTypeOK
  /\ RequestTypeOK /\ DispatcherTypeOK /\ WorkerTypeOK

\* The places of a process's memory that hold the job with this id.
Carriers(id) ==
  LET Holds(job) == job # NULL /\ job.id = id
  IN  {<<"request", h>> : h \in {r \in RequestThreads : Holds(request[r].job)}}
      \cup {<<"queue", e>> : e \in {q \in queue : Holds(q.job)}}
      \cup {<<"scheduler", e>> : e \in {d \in delayedJobs : Holds(d.job)}}
      \cup {<<"scheduler thread">> : x \in {y \in {schedulerHand} : Holds(y)}}
      \cup {<<"dispatcher">> : x \in {y \in {dispatcher.job} : Holds(y)}}
      \cup {<<"task", t>> : t \in {k \in tasks : Holds(k.function)}}
      \cup {<<"worker", w>> : w \in {v \in PoolThreads : Holds(worker[v].job)}}
      \cup {<<"read", s>> : s \in {r \in toRestore : Holds(r.job)}}
      \cup {<<"recovering">> : s \in {r \in {recovering} \ {NULL} : Holds(r.job)}}

\* No job is ever in two places at once, so no two threads run the same job:
\* not through retries that go back to the queue while the task still runs,
\* nor through a restore that meets jobs of the last process.
SingleCarrier == \A id \in JobIds : Cardinality(Carriers(id)) <= 1

\* The jobs that are on their way to startAttempt.
ReadyJobs ==
  {request[h].job : h \in {r \in RequestThreads : request[r].pc = "routing"}}
  \cup {entry.job : entry \in queue}
  \cup {entry.job : entry \in delayedJobs}
  \cup ({schedulerHand, dispatcher.job} \ {NULL})
  \cup {task.function : task \in tasks}
  \cup {worker[w].job :
          w \in {v \in PoolThreads : worker[v].pc \in {"starting", "rerouting"}}}

\* A job on its way to startAttempt is one that startAttempt accepts, with
\* the columns it was saved with: it was saved, or marked waiting, before it
\* was handed on, and it still has an attempt left.  So the error "cannot
\* start attempt", which would fail the job for good, never arises.
ReadyJobsCanStart ==
  \A job \in ReadyJobs : AcceptsStart(job.id) /\ rows[job.id].spec = job.spec

\* While a task runs a handler or acts on its outcome, the row is active and
\* counts the attempts that the task counts, so the retry decision taken from
\* the copy in memory is the one the table would give.
RunningJobsAreActive ==
  \A w \in PoolThreads :
    worker[w].pc \in {"processing", "completing", "retrying"} =>
      /\ rows[worker[w].job.id].status = "active"
      /\ rows[worker[w].job.id].attemptsMade = worker[w].attemptsMade

\* From the moment restoreUnfinished has read the table until the queue is
\* shut down, every unfinished row is in somebody's hands: no job waits for a
\* restart to be run.  A statement that fails while it should have recorded what
\* becomes of a job lets go of that job, and of no other: there are never more
\* orphans than statements have failed.
OrphansAreExplained ==
  ~shutdown /\ mainPc \notin {"down", "starting", "reading", "exited"}
  => Cardinality({id \in DOMAIN rows :
                    ~IsTerminal(rows[id].status) /\ Carriers(id) = {}}) <= faults

\* These handoffs find the other side's end still there: a request that has
\* saved its job, and recovery, the scheduler and the queue; the dispatcher the
\* pool; a task that is running the scheduler.  So the errors of a stopped pool
\* or scheduler, which would end the program or lose a retry, have no action
\* here.  It does not speak of the pushes of running tasks and of the scheduler
\* thread: these may meet a queue that was shut down, which drops the job.  Its
\* row waits, as ReadyJobsCanStart says, for the next launch.
HandoffsAreAccepted ==
  /\ \A h \in RequestThreads : request[h].pc = "routing" => running /\ ~shutdown
  /\ dispatcher.pc = "enqueueing" => ~stop
  /\ \A w \in PoolThreads : worker[w].pc # "idle" => running
  /\ recovering # NULL => running /\ ~shutdown

\* When main returns in order, no attempt was cut short, so that the next launch
\* has none to recover: a row is left active only by a statement that failed,
\* one row by each.
CleanExit ==
  mainPc = "exited" =>
    Cardinality({id \in DOMAIN rows : rows[id].status = "active"}) <= faults

\* A failure reason tells the truth: an exhausted job used all its attempts, and
\* only a job with no attempt left is failed by recovery.  A statement that fails
\* in startAttempt or markCompleted, which fails the job for good although it did
\* not run, or although it ran, costs one job and no more.
FailuresAreExplained ==
  /\ \A id \in DOMAIN rows :
       rows[id].failureReason \in {"exhausted", "no attempts at recovery"} =>
         rows[id].attemptsMade = rows[id].spec.maxAttempts
  /\ Cardinality({id \in DOMAIN rows :
                    rows[id].failureReason \in {"not started", "not completed"}}) <= faults

\* What is recorded as the end of a job is never changed, by a late task, a
\* restart or a recovery.
EndsAreFinal ==
  [][\A id \in DOMAIN rows :
       IsTerminal(rows[id].status) => rows'[id] = rows[id]]_vars

\* No attempt starts before the instant its row says the job is available,
\* across retries, schedulers and restarts.
NeverStartsEarly ==
  [][\A id \in DOMAIN rows :
       rows[id].status = "waiting" /\ rows'[id].status = "active" =>
         rows[id].availableAt \in {0, NULL}]_vars

\* A job that is unfinished while the program serves ends, unless the program
\* is asked to stop or dies.
JobsFinish ==
  \A id \in JobIds :
    id \in DOMAIN rows /\ mainPc = "serving" ~>
      \/ id \in DOMAIN rows /\ IsTerminal(rows[id].status)
      \/ stopRequested \/ ~Up

\* A request to stop ends the program: no thread waits for another for ever,
\* however many jobs are queued, delayed, running or posted.
StopEnds == stopRequested ~> ~Up

\* The table, seen as the lifecycles of the jobs in it, and the statements that
\* failed.
Lifecycle == INSTANCE JobLifecycle WITH
  Ids <- JobIds,
  Limits <- {spec.maxAttempts : spec \in Specs},
  jobs <- [id \in DOMAIN rows |->
             [phase |-> rows[id].status, attempts |-> rows[id].attemptsMade,
              limit |-> rows[id].spec.maxAttempts]],
  errors <- faults

\* The engine implements the lifecycle, through every interleaving, crash,
\* restart, stop and failing statement.  The statements alone do not:
\* markCompleted and markFailed would end a job that waits or has ended.
ImplementsLifecycle == Lifecycle!Spec
=============================================================================
