# Specifications of the job engine

This directory holds TLA+ models of the job engine in `src/`: a C++ program
that accepts jobs over HTTP, stores them in SQLite, and runs them on a pool of
threads with priorities, delays and retries. TLC checks the models on small
instances; TLAPS proves theorems about them for every value of the constants.

1. [The system](#1-the-system)
2. [What makes it hard](#2-what-makes-it-hard)
3. [Modules](#3-modules)
4. [How the models read the code](#4-how-the-models-read-the-code)
5. [Runs](#5-runs)
6. [Fairness](#6-fairness)
7. [Proofs](#7-proofs)
8. [Not modelled, or only in part](#8-not-modelled-or-only-in-part)
9. [What could come next](#9-what-could-come-next)
10. [Running the checks](#10-running-the-checks)

## 1. The system

| Part | State | Operations | Talks to |
|---|---|---|---|
| `JobStore` (`src/src/job_store.cpp`) | tables `jobs` and `job_id_sequence`, the only durable state; `mutex_`, `cv_` | `generateJobId`, `save`, `startAttempt`, `markCompleted`, `markFailed`, `markWaiting`, `unfinished`, `waitUntilFinished`; reads `findById`, `all`, `metrics` | SQLite |
| `JobQueue` (`job_queue.cpp`) | priority queue `queue_`, `nextSequence_`, `shutdown_` | `push`, `pop` (blocks), `shutdown` | |
| `ThreadPool` (`thread_pool.cpp`, `include/thread_pool.hpp`) | bounded priority queue `tasks_`, `nextTaskSequence_`, `stop_`, threads | `enqueueWithPriority` (blocks while full), the loop of a thread, `stop` | runs the tasks |
| `DelayedJobScheduler` (`delayed_job_scheduler.cpp`) | `delayedJobs_` ordered by `readyAt`, `running_`, one thread | `start`, `schedule`, `run`, `stop` | pushes to `JobQueue` |
| `Worker` (`worker.cpp`) | `running_`, the dispatcher thread | `start`, `stop`, the task of a job, `calculateRetryDelay` | pops `JobQueue`, enqueues on `ThreadPool`; tasks call `JobStore`, `JobProcessor`, `DelayedJobScheduler`, `JobQueue` |
| `JobService` (`job_service.cpp`) | none | `add`, `restoreUnfinished` | `JobStore`, `JobQueue`, `DelayedJobScheduler` |
| `HttpServer` (`http_server.cpp`) | `running_`, the listening thread, the library's request threads | `start`, `stop`, the routes | `JobService::add`, reads of `JobStore` |
| `main` (`main.cpp`) | `stopRequested` | the order of starts and stops | everything |
| `JobProcessor` (`job_processor.cpp`) | the handlers, filled before any thread starts | `process` | user code |
| `SqliteDatabase`, `SqliteStatement` | one connection | `execute`, `step`, bindings | the SQLite library |
| `Logger` | a mutex | prints lines | |
| Dashboard (`src/public/app.js`) | the page | periodic `loadJobs`, `loadMetrics`, the form | HTTP |

A job travels like this:

```
 POST /jobs                                          retry, delay > 0
     | JobService::add                        +---------------------------+
     v                                        v                           |
 JobStore.save --> delay > 0 --> DelayedJobScheduler --+                  |
     |                                                 | due              |
     +-----------> delay = 0 -----------------> JobQueue <-- retry --+    |
                                                    | pop            |    |
                                                dispatcher           |    |
                                                    | enqueue        |    |
                                                ThreadPool.tasks_    |    |
                                                    | take           |    |
                        pool thread: startAttempt, process, mark... -+----+
```

`main` starts the scheduler, restores the unfinished rows of earlier processes
into scheduler and queue, starts the dispatcher and then the HTTP server. On a
signal it stops the HTTP server, the dispatcher, the pool and the scheduler, in
this order.

What makes each part correct:

* **JobStore**: result, failure reason and available time always fit the
  status; attempts are counted once each and never beyond the limit; a waiter
  never misses the end of its job.
* **JobQueue**: no lost wake-up; accepted jobs come out; `nullopt` only when
  nothing is left.
* **ThreadPool**: the same, and backpressure that never becomes a deadlock;
  `stop` runs every accepted task before it returns.
* **DelayedJobScheduler**: the thread never sleeps past the earliest job.
* **JobQueue, dispatcher and ThreadPool in a row**: priorities hold up to a
  fixed number of jobs, equal priorities keep their order, also over a restart.
* **HttpServer**: what an answer says is true of the table.
* **Dashboard**: it goes on refreshing, ends up showing the table, and says
  "created" only of what was.
* **Worker, JobService, main together**: no job is lost, held twice, started
  early, started without being waiting, or changed after its end, over
  interleavings, retries, crashes, restarts, ordered stops and failing SQL
  statements; while the program runs every job ends; a stop terminates.

## 2. What makes it hard

The program has five kinds of threads (main, requests, dispatcher, pool
threads, scheduler) and four mutexes that are never held together. Every
handoff of a job is therefore two or more separate steps, and what is true when
a job leaves one part may no longer be true when the next looks at it. The
hazards are listed, each at its line, under `hazards` in `PROJECT.json`:

* the order of *save, then hand on* (`job_service.cpp:36`) and *mark waiting,
  then hand on* (`worker.cpp:95`), and a retried job that another thread may
  pick up before the task that retried it has returned;
* notifications sent after the mutex is released, and predicates of two
  condition variables that share one mutex;
* the order of the four stops;
* crashes between any two statements, and the recovery that follows;
* SQL statements that fail: an exception of `startAttempt` or `markCompleted`
  lands in the catch clause meant for handlers;
* `markFailed` and `markCompleted`, which have no condition on the status;
* an exception of `markWaiting`, which leaves the handler of
  `RetryableJobError` and ends in a future nobody reads (`worker.cpp:95`);
* the doubling of the backoff at the edge of its integer type, and its result
  as an instant of a clock that counts finer than milliseconds (`worker.cpp:91`);
* two clocks: `available_at_ms` is of the system clock, which may be set,
  `readyAt` of the steady clock (`job_service.cpp:72`);
* the job that the dispatcher has in its hand while the pool is full, out of
  reach of more urgent jobs (`worker.cpp:59`);
* the order of restored jobs: by a time in seconds, then by the text of the id,
  in which `job-10` precedes `job-9` (`job_store.cpp:770`), and requests that
  overlap (`job_service.cpp:44`);
* the truth of the answers of `POST /jobs`: bounds of signed and unsigned
  integers (`http_server.cpp:112`), an exception after the row was saved
  (`http_server.cpp:457`), a text bound only up to its first NUL
  (`sqlite_statement.cpp:50`), a lost answer (`app.js:277`);
* loads of the dashboard that overlap, fail, or end a refresh that has to go on
  (`app.js:211`, `313`, `326`);
* a second process on the same database, which takes over the jobs of the first
  before it fails to bind the port (`main.cpp:109`).

One hazard has no property: after a lost answer to a POST the page says "Cannot
create job", and a second try makes a second job. The code has no key by which
a repeated POST could be recognised, so there is nothing that could hold.
`HttpApi` and `Dashboard` do model the lost answer.

## 3. Modules

| Module | Models | Uses |
|---|---|---|
| `JobStore` | every statement of `JobStore` as one atomic action | |
| `JobStoreWaiters` | `waitUntilFinished`: writers notify after their statement, waiters sleep and wake | EXTENDS `JobStore` |
| `JobQueue` | the critical sections of the queue | |
| `JobQueueThreads` | pushing, popping and stopping threads with `cv_` | EXTENDS `JobQueue` |
| `ThreadPool` | the critical sections of the pool | |
| `ThreadPoolThreads` | producers, pool threads and `stop` with `condition_` and `notFull_` | EXTENDS `ThreadPool` |
| `DelayedJobScheduler` | the critical sections of the scheduler, and time | |
| `DelayedJobSchedulerThreads` | callers, the thread of `run`, `start` and `stop` with `cv_` | EXTENDS `DelayedJobScheduler` |
| `JobLifecycle` | the abstract specification: what a poster of jobs is promised | |
| `JobEngine` | the whole program: `main`, requests, `JobService`, `Worker`, scheduler thread, crashes | INSTANCEs of `JobStore`, `JobQueue`, `ThreadPool`, `DelayedJobScheduler`, `JobLifecycle` |
| `DispatchOrder` | in which order jobs start: queue, dispatcher and pool | INSTANCEs of `JobQueue`, `ThreadPool` |
| `RestoreOrder` | in which order they start over overlapping requests and a restart | INSTANCEs of `JobStore`, `JobQueue` |
| `RetryBackoff` | `calculateRetryDelay`: operators only | |
| `RetryClock` | one job's retries on the two clocks, with their width | INSTANCE of `RetryBackoff` |
| `HttpApi` | `POST /jobs` and `GET /jobs/:id`: validation, INSERT, answers | |
| `Dashboard` | `app.js` and the routes it calls | |
| `TwoProcesses` | several processes on one database file | INSTANCE of `JobStore` |
| `Counting` | lemmas on the size of a set that gains or loses an element, on induction, and on powers of two | |
| `WaitingProofs` | theorems about `JobStore`, `JobStoreWaiters`, `JobQueueThreads` and `ThreadPoolThreads` | EXTENDS the latter three, and `Counting` |
| `DelayProofs` | theorems about `DelayedJobSchedulerThreads` and `RetryClock` | EXTENDS both, and `Counting` |
| `ClientProofs` | theorems about `HttpApi` and `Dashboard` | EXTENDS both, and `Counting` |
| `DispatchOrderProofs`, `RestoreOrderProofs`, `JobEngineProofs`, `TwoProcessesProofs` | theorems | EXTEND the module in their name |
| `MC...` | constants for TLC | |

Each component has a base module whose operators are its critical sections, with
a wait written as a guard. The `...Threads` module of a component adds the
condition variables and shows that the guard is what the code implements:
whoever could go on is awake or about to be woken. `JobEngine` composes the base
modules and relies on that.

### JobStore

`rows` is the `jobs` table and `nextValue` is `job_id_sequence`. The columns an
UPDATE never touches form the field `spec`. An id `job-<n>` is the number `n`.
`Accepts...` is the condition under which an operation does not throw. A caller of
`waitUntilFinished` returns at the end of its job, or leaves by the exception of a
failing SELECT (`CheckThrows`).

### JobQueue, ThreadPool

A priority queue is the set of its entries; `IsTop` picks the entry the
comparator puts on top. Entries carry the sequence number that the code gives
them, so equal priorities leave in the order of arrival.

### DelayedJobScheduler and time

An instant is represented by the time that remains until it, 0 once it has
come. `Tick` brings every instant one unit nearer, in whatever variable it is
stored: `available_at_ms` of a row, `readyAt` of a scheduled job, `availableAt`
in a local copy. So no counter of time has to be bounded. Two instants that
have both passed are not told apart.

### JobEngine

One action per call that a thread makes on a component, so other threads
interleave between any two of them.

| Actions | Code |
|---|---|
| `GenerateId`, `SaveJob`, `RouteJob` | `JobService::add` (`job_service.cpp:13-48`) |
| `DispatcherLoop`, `DispatcherPop`, `DispatcherEnqueue` | `Worker::start` (`worker.cpp:33-62`) |
| `TakeTask` | loop of a pool thread (`thread_pool.cpp:36-71`) |
| `StartJob`, `Process`, `Complete`, `Fail`, `Retry`, `Reroute` | the task (`worker.cpp:61-124`) |
| `SchedulerTakes`, `SchedulerPushes` | `DelayedJobScheduler::run` |
| `Launch`, `SchedulerStart`, `WorkerStart`, `HttpServerStart` | `main` until it serves |
| `ReadUnfinished`, `RestoreNext`, `RestoreFail`, `RestoreWaiting`, `RestoreRoute` | `restoreUnfinished` |
| `RequestStop`, `HttpServerStop`, `WorkerStop`, `PoolStop`, `SchedulerStop` | the signal and the ordered stop |
| `Crash` | death of the process at any point; a port that cannot be bound |
| `StatementFails` | the branch in which an SQL statement throws |

The errors "enqueue on stopped ThreadPool", "Cannot schedule job on stopped
scheduler" and "Job cannot start ..." have no branch in `JobEngine`.
`HandoffsAreAccepted` and `ReadyJobsCanStart` state that they cannot arise, so
nothing is cut off by leaving them out: where one of them could arise, the
invariant would be violated in that state. Pushes to a queue that was shut down
are not errors: `push` drops the job, and the model does (`Reroute`,
`SchedulerPushes`).

### JobLifecycle

What is left when queues, threads and processes are forgotten: a job waits,
begins attempts only from waiting and only while it has one left, and ends once,
out of a running attempt. Statements fail in it too (`StorageFails`): only after
one has may a job be given up that still waits, as the task does whose
`startAttempt` threw. `JobEngine!ImplementsLifecycle` maps `rows` and `faults` to
it.
The statements of `JobStore` alone do not implement it, since `markFailed`
accepts a waiting or finished job; it is the discipline of the callers that
does.

### DispatchOrder

The base modules of queue and pool with the dispatcher between them: the loop
of `Worker::start` as `DispatcherLoops`, `DispatcherPops`, `DispatcherBreaks` and
`DispatcherEnqueues`, where `hand` is `optionalJob`. `Start` is a pool thread
taking a task. The stops are those of `Worker::stop` and `ThreadPool::stop`.
`started` and `overtaken` are history.

### RestoreOrder

`JobService::add` as `TakeId`, `SaveJob` and `PushJob` of threads that
overlap, a restart that pushes the unfinished rows in the order of
`ORDER BY created_at, id`, and a clock in seconds. Ids are numerals in a small
radix, compared as texts. A job starts when it leaves the queue, since
`DispatchOrder` shows that what follows keeps the order of equal priorities.

### RetryBackoff, RetryClock

`CalculateRetryDelay` is the loop of `worker.cpp:145-163` as a recursive
function, `Exponential` what it is meant to compute. `RetryClock` follows one
job: `Retry` stores `system_clock::now() + retryDelay` in milliseconds and
hands `steady_clock::now() + retryDelay` to the scheduler, both wrapped at the
width of the clock; `Launch` recomputes what remains, `RestoreWaiting` rounds
it; `SetClock` sets the system clock.

### HttpApi

A body is a record of its fields, each an integer of the width or one beyond
it, absent, or of another type. `Verdict` is the handler's checks up to the
status, 500 for a malformed body that is no UTF-8, since the answer would quote it;
`ReadIntegerField` the library's two kinds of integers and the bounds,
`BindText` and `RowOf` what the INSERT stores, `MeetsChecks` the CHECKs of the
table. `Receive`, `TakeId`, `SaveJob`, `HandOver` and `Answer` are the steps of a
request; `StatementFails` and `AnswerLost` its failures; `CloseServer`,
`StopScheduler`, `Down` and `Launch` the rest of the process.

### Dashboard

Every `await` of `refreshDashboard`, `loadJobs`, `loadMetrics` and the form's
handler is a point at which something else may happen. `load` holds the fetches
under way, for each caller and route; `ServeLoad` answers one with the table of
that moment, `BreakLoad` fails it, `Render` is what follows the `await`. Of a
job the page shows whether it has ended. `overlapping` is history: the loads of
the list that were under way when the list now shown was rendered.

### TwoProcesses

Each process has its `pc`, the rows it read, the jobs it holds and the tasks
it runs; the table and the port are shared. `RestoreThrows` is an exception of
`restoreUnfinished`, which ends the process, `RetryThrows` one of `markWaiting`,
which ends only the task. `Bind` fails when another process has the port.

## 4. How the models read the code

* A critical section is one action. The mutexes are never nested, and no state
  is read outside them except `Worker::running_`, which is atomic.
* `SaveJob` inserts a fresh row. The INSERT of `save` binds the status, the attempts
  and the outcome that the `Job` carries, but `JobService::add`, its only caller,
  passes one that was just constructed.
* One SQL statement is one atomic step. `JobStore` has one connection, holds
  `mutex_` around each statement and uses no explicit transaction, so each
  statement commits by itself. A statement that throws had no effect.
* A handler returns, throws `RetryableJobError`, or throws anything else. A job
  without a handler is the third case.
* `restoreUnfinished` reads rows ordered by `created_at, id`. The order only
  affects which of two jobs of equal priority is pushed first; `JobEngine` takes
  them in any order, which includes the one of the code, and `RestoreOrder`
  models the order itself.
* `JobEngine` has one clock, which drives `available_at_ms` and `readyAt`;
  `RetryClock` has both.
* `request` covers a POST from the moment it passed validation. A failing
  `generateJobId` ends the request and changes nothing, which is the same as no
  request.
* The signal handler may set `stopRequested` at any time while the process is
  up; `main` looks at it only in its polling loop.
* `pool.stop()` and `scheduler.stop()` at the end of `main` are followed by the
  destructors, which find everything stopped (`StopAgain` in
  `ThreadPoolThreads`).
* A restored delay is truncated to whole milliseconds, and so is
  `available_at_ms`; a job whose remaining delay is below one millisecond goes
  straight to the queue. One unit of time in the engine is not smaller than
  that; `RetryClock` has finer instants and models the truncation.

## 5. Runs

All runs pass. Every property also has a mutant, a plausible bug in one mapped
definition under which TLC finds the property violated; mutants stand next to
the definition they replace and nothing else refers to them.

| Run | Module | Question | Properties | States |
|---|---|---|---|---|
| `job_store` | `MCJobStoreWaiters` | Does the table stay consistent under calls in any order? Can a waiter sleep through the end of its job? | `OutcomeMatchesStatus`, `AttemptsCountStarts`, `NoMissedEnding`, `WaitersReturn` | 139 thousand |
| `job_queue` | `MCJobQueueThreads` | Lost wake-ups, jobs left behind, sleepers that shutdown misses? | `PopsAreWoken`, `AcceptedJobsAreHanded`, `ShutdownReachesPoppers` | 10 thousand |
| `thread_pool` | `MCThreadPoolThreads` | Is backpressure free of deadlock, and does `stop` drain? | `NoLostWakeup`, `StopRunsEveryTask`, `CallsReturn`, `AcceptedTasksRun` | 126 thousand |
| `delayed_scheduler` | `MCDelayedJobSchedulerThreads` | Can the thread oversleep, or not be stopped? | `NeverOversleeps`, `DueJobsArePushed`, `StopReturns` | 279 thousand |
| `engine_safety` | `MCJobEngine` | Is a job ever lost, duplicated, started early, or changed after its end? What does a failing statement cost? Is the lifecycle implemented? | `SingleCarrier`, `ReadyJobsCanStart`, `RunningJobsAreActive`, `OrphansAreExplained`, `HandoffsAreAccepted`, `CleanExit`, `FailuresAreExplained`, `EndsAreFinal`, `NeverStartsEarly`, `ImplementsLifecycle` | 1.46 million |
| `engine_live` | `MCJobEngine` | Does every job end while the program serves? Does a stop terminate with everything full? | `JobsFinish`, `StopEnds` | 87 thousand |
| `dispatch_order` | `MCDispatchOrder` | How many less urgent jobs can start first, and do equal ones keep their order? | `BoundedOvertaking`, `EqualPrioritiesKeepOrder` | 187 thousand |
| `restore_order` | `MCRestoreOrder` | Do they keep it over overlapping requests and a restart? | `SubmissionOrder` | 617 thousand |
| `retry_clock` | `MCRetryClock` | Does the backoff saturate where the type ends, can the clocks overflow, and how early can a restart start a job? | `ExponentialUpToMaximum`, `OverflowTakesCrashes`, `EarlyOnlyByClockChange` | 1.55 million |
| `http_api` | `MCHttpApi` | Do the answers say what is in the table? | `AnswersAreTrue` | 307 thousand |
| `dashboard` | `MCDashboard` | Does the page catch up with the table in spite of failing and overlapping loads? | `CreatedIsTrue`, `GoesBackOnlyByOverlap`, `PageCatchesUp`, `FormComesBack` | 46 thousand |
| `two_processes` | `MCTwoProcesses` | What survives a second process on the database? | `AttemptsAreExclusive`, `EndedJobsStayEnded`, `LoneProcessFinishes` | 278 thousand |

The type invariants are theorems or, where a module has no proofs, the first
conjunct of one of its properties.

### Bounds

* `job_store`: two writers and two waiters tell `notify_all` from `notify_one`;
  two jobs tell a waiter's own job from another, and show interference of
  statements on different rows; two attempts show a retry.
* `job_queue`: two pushers, two poppers, three pushes; entries outnumber
  poppers, and sleepers outnumber entries.
* `thread_pool`: one place, two producers and two pool threads, three tasks.
  Producers that sleep while workers sleep is ruled out, each alone occurs.
* `delayed_scheduler`: delays 0 to 2, three jobs, two callers, two starts: a job
  due earlier than the one slept for, jobs left over from the first stop.
* `engine_safety`: two jobs, two request threads, two pool threads, one place in
  the pool, two launches (a crash or a stop, then a recovery), two failing
  statements, of one job or of both. One kind of job retries with a backoff and
  has three attempts, so that recovery meets jobs with attempts left and one
  without; the other is delayed, urgent and has one. Request and pool threads are interchangeable, so
  the run uses them as symmetry sets; it checks no liveness property.
* `engine_live`: three undelayed jobs that may be retried once, for one pool
  thread and one place, so that queue, dispatcher, pool and thread are full
  together; one launch, no fault.
* `dispatch_order`: two priorities, a queue of two in the pool, six pushes: the
  bound of three is reached, and more jobs wait than could overtake.
* `restore_order`: radix 3 and three jobs, so that the third id has two digits
  and comes second as a text; two requests, two seconds, two launches.
* `retry_clock`: clocks of 7 bits (63 for 2^63 - 1), three ticks to the
  millisecond, backoffs 1 and 2, five attempts, four launches, 20 ticks: enough
  to overflow after crashes, to saturate the doubling, and to set the clock
  forward and back across a restart. `ExponentialUpToMaximum` also takes every
  backoff of the width.
* `http_api`: integers of 3 bits (`IntMax` 3) with limits inside the signed and
  the unsigned range, one valid body and every body that differs from it in one
  respect; two overlapping requests, a failing statement, two launches. The
  checks of the fields are independent of each other.
* `dashboard`: one job, two failing requests; two loads of the same kind and
  caller at once. One job passes through all states of the list: absent,
  unfinished, ended.
* `two_processes`: two processes, two jobs, three launches: one process serves,
  another takes its jobs over and dies, and one is launched alone.

`MaxJobs`, `MaxLaunches`, `MaxFaults`, `MaxPushes`, `MaxTasks`, `MaxStarts`,
`MaxTime`, `MaxAttempts` and `Skews` of `RetryClock`, `MaxSecond`, `MaxRequests`
and `MaxBreaks` are bounds of the models, not of the code. Deadlock is not
checked in `dispatch_order`, `restore_order`, `retry_clock`, `http_api` and
`two_processes`, which stop at their bounds; elsewhere the actions `Halted`,
`QueueDone` and `AllDone` name the states in which nothing is left to do, and the dashboard
never stops.

### What the runs show

* A retried job may be in the hands of another pool thread while the task that
  retried it is still returning, but never held twice (`SingleCarrier`), and
  the order *mark waiting, then hand on* is what makes `startAttempt` succeed
  (`ReadyJobsCanStart`).
* The order of the stops in `main` is needed. With it a request that has saved its
  job finds the scheduler running and the queue open, the dispatcher finds the
  pool open, and a task finds the scheduler running (`HandoffsAreAccepted`); an
  ordered exit cuts no attempt short (`CleanExit`). Other calls do meet a part
  that was stopped: the tasks that the pool still drains, and the scheduler
  thread, push to a queue that was shut down, which drops the job. Its row is
  waiting then, as is that of a job the dispatcher has not popped when
  `running_` becomes false; the next process runs them.
* A failing statement costs at most one job. After a failing `startAttempt` a
  job that never ran is recorded as failed, after a failing `markCompleted` one
  that ran (`FailuresAreExplained`); after a failing `markWaiting` or `markFailed`
  the row stays active, in nobody's hands, until the next launch
  (`OrphansAreExplained`, `CleanExit`). These properties count the jobs that fare
  so, and bound them by the statements that have failed. `ImplementsLifecycle`
  allows them only that a waiting job is given up.
* A job is overtaken by at most `maxQueueSize` + 1 less urgent ones: those that
  were in the pool's queue and in the dispatcher's hand when it was pushed.
* Of jobs with equal priority, the one whose request had ended before the other
  began starts first, but for one case: a restart, both saved in the same
  second, and an id with more digits.
* Adding a delay to the clock can overflow only after crashes have raised the
  number of attempts ahead of the time that passed: otherwise the delays that
  led there took as long as the clock has room for. A restart can start a job
  early by what the system clock was set forward, and two milliseconds.
* A text with a NUL is stored only up to it (`bindText` passes length -1), while
  the first process runs the job with the whole text: `AnswersAreTrue` makes
  that exception. It makes none for an exception after the save, since
  requests are joined before the scheduler stops.
* The list on the page goes back to an older state only when loads of the form
  and of the refresh overlap: the answer rendered later was asked for before the
  newer one was rendered. Later loads repair it. "Created job" stays until the
  next submission, whatever the loads after it do.
* The progress properties `AcceptedJobsAreHanded`, `AcceptedTasksRun` and
  `JobsFinish` hold of finitely many jobs. They say that no thread sleeps or waits
  for good; that endless more urgent jobs would starve a less urgent one is the
  nature of a priority queue, which no bounded run shows.
* With a second process on the database, `EndsAreFinal`, `ImplementsLifecycle` and
  `OrphansAreExplained` do not hold: an active job is taken over and runs twice, one may
  record its end over the other's, and a `markWaiting` that finds the row in
  another status drops the job until the next launch. What remains is that an
  attempt number is used once, that an ended job stays ended, and that a
  process launched alone finishes all.

## 6. Fairness

Safety runs assume none. Liveness runs assume weak fairness of each thread's own
steps: a thread that is inside a call goes on, tasks and handlers end, time
passes. The code relies on the operating system's scheduler for the former and
on handlers that return for the latter. A thread is never assumed to win a
mutex against others infinitely often (no strong fairness). Nobody is assumed to
post, stop, launch or crash anything, and nothing depends on spurious wake-ups,
which are modelled as steps that may happen and need not.

In `Dashboard` the page's callbacks run, and a request ends in an answer or an
error: no `fetch` has a timeout, so this is up to the browser. In `TwoProcesses`
each process that is up takes steps, with one weak fairness condition for all
its threads.

## 7. Proofs

TLAPS checks the following for every value of the constants that satisfies the
named assumptions. The assumptions are those of the modules: bounds are natural
numbers, thread sets are finite, the pool has a place and a thread, there is
something to run, ids have a radix of at least two, delays and attempts are natural
numbers, `NULL` is none of the values it stands beside (`NullAssumption` and parts of the others), and the
retry delay stays within `MaximumDelay`, which `DelayIsExponential` proves of the
function that computes it. `RetryClock` assumes that `now()` itself fits in the
clock, whatever the skew, and `HttpApi` that the limits of the handler are within
64 bits, that a body's texts are sequences and its numbers integers, and that a
missing field is told from one of another type.

| Theorem | Statement |
|---|---|
| `WaitingProofs!StoreIsTyped` | `StoreSpec => []StoreTypeOK` |
| `WaitingProofs!OutcomesAreConsistent` | `StoreSpec => []OutcomeMatchesStatus` |
| `WaitingProofs!AttemptsStayWithinLimit` | `StoreSpec => []AttemptsWithinLimit` |
| `WaitingProofs!AttemptsAreStarts` | `StoreSpec => AttemptsCountStarts` |
| `WaitingProofs!WaitersUseTheStore` | `WaitersSpec => StoreSpec` |
| `WaitingProofs!NoEndingIsMissed` | `WaitersSpec => []NoMissedEnding` |
| `WaitingProofs!WaitsReturnAtTheEnd` | `WaitersSpec => []ReturnsOnlyAtTheEnd` |
| `WaitingProofs!QueueIsTyped` | `QueueThreadsSpec => []QueueThreadsTypeOK` |
| `WaitingProofs!NoWakeupIsLost` | `QueueThreadsSpec => []PopsAreWoken` |
| `WaitingProofs!StopMeansDrained` | `QueueThreadsSpec => []StopsOnlyWhenDrained` |
| `WaitingProofs!PoolIsTyped` | `ThreadsSpec => []ThreadsTypeOK` |
| `WaitingProofs!PoolLosesNoWakeup` | `ThreadsSpec => []NoLostWakeup` |
| `WaitingProofs!ReturnMeansDrained` | `ThreadsSpec => []WorkersDrainBeforeExit` |
| `WaitingProofs!StopRunsAll` | `ThreadsSpec => []StopRunsEveryTask` |
| `DelayProofs!SchedulerIsTyped` | `ThreadsSpec => []ThreadsTypeOK` |
| `DelayProofs!SleepIsNeverTooLong` | `ThreadsSpec => []NeverOversleeps` |
| `DelayProofs!DelayIsExponential` | `CalculateRetryDelay(b, n)` is `b * 2 ^ (n - 1)`, or the largest delay if that is less |
| `DelayProofs!ClocksAreConsistent` | `ClockSpec => []ClockInv` |
| `DelayProofs!BackoffIsExponential` | `ClockSpec => []ExponentialUpToMaximum` |
| `DelayProofs!ClocksOverflowByCrashes` | `ClockSpec => []OverflowTakesCrashes` |
| `DelayProofs!RetriesAreEarlyOnlyByClockChange` | `ClockSpec => EarlyOnlyByClockChange` |
| `DispatchOrderProofs!OrderIsTyped` | `OrderSpec => []OrderTypeOK` |
| `DispatchOrderProofs!OvertakingStaysBounded` | `OrderSpec => []BoundedOvertaking` |
| `DispatchOrderProofs!EqualPrioritiesAreFifo` | `OrderSpec => []EqualPrioritiesKeepOrder` |
| `RestoreOrderProofs!JobsStartInOrder` | `RestoreSpec => SubmissionOrder` |
| `JobEngineProofs!EngineIsTyped` | `Spec => []EngineTypeOK` |
| `JobEngineProofs!EngineKeepsOrder` | `Spec => []ControlInv` |
| `JobEngineProofs!HandoffsNeverMeetAStop` | `Spec => []HandoffsAreAccepted` |
| `JobEngineProofs!EngineKeepsInv` | `Spec => []EngineInv` |
| `JobEngineProofs!NoJobInTwoPlaces` | `Spec => []SingleCarrier` |
| `JobEngineProofs!ReadyJobsStart` | `Spec => []ReadyJobsCanStart` |
| `JobEngineProofs!RunningRowsAreActive` | `Spec => []RunningJobsAreActive` |
| `JobEngineProofs!EndsStayRecorded` | `Spec => EndsAreFinal` |
| `JobEngineProofs!AttemptsAreNeverEarly` | `Spec => NeverStartsEarly` |
| `JobEngineProofs!ReasonsTellTheTruth` | `Spec => []FailuresAreExplained` |
| `JobEngineProofs!NoJobIsForgotten` | `Spec => []OrphansAreExplained` |
| `JobEngineProofs!StopsLeaveNothingActive` | `Spec => []CleanExit` |
| `JobEngineProofs!EngineImplementsLifecycle` | `Spec => ImplementsLifecycle` |
| `ClientProofs!ApiKeepsInv` | `ApiSpec => []ApiInv` |
| `ClientProofs!AnswersStayTrue` | `ApiSpec => []AnswersAreTrue` |
| `ClientProofs!PageKeepsInv` | `DashboardSpec => []PageInv` |
| `ClientProofs!CreatedStaysTrue` | `DashboardSpec => CreatedIsTrue` |
| `ClientProofs!ListGoesBackOnlyByOverlap` | `DashboardSpec => GoesBackOnlyByOverlap` |
| `TwoProcessesProofs!ProcessesAreConsistent` | `ProcessesSpec => []ProcessesInv` |
| `TwoProcessesProofs!AttemptsBelongToOneTask` | `ProcessesSpec => []AttemptsAreExclusive` |
| `TwoProcessesProofs!ProcessesUseTheStore` | `ProcessesSpec => StoreSpec` |
| `TwoProcessesProofs!NobodyRevivesEndedJobs` | `ProcessesSpec => EndedJobsStayEnded` |

So every safety property that a run checks is also a theorem. A proof module
about several components makes the assumptions of all of them; they have no
constant in common, so none narrows another's.

**JobStore.** `StoreTypeOK` is inductive. The other proofs go through one lemma,
`StepsOnRows`: a step keeps each row, inserts it fresh, starts an attempt of it,
or records an outcome or a wait. `OutcomeMatchesStatus` and
`AttemptsWithinLimit` are inductive together with the type, since each statement
replaces all columns that belong to a status at once. The waiters take only the
store's own steps, so the theorems about the store hold of them too.

**Condition variables.** That no wake-up is lost is a statement about numbers:
whoever sleeps although it could go on is matched by a thread that is about to
notify, or by one that is awake. It is inductive together with the types, the
finiteness of the sets that are counted, and, for the pool, with what `stop` has
done so far. Module `Counting` has the lemmas on sizes these proofs need.
`StopRunsEveryTask` needs that every sequence number that was given out is
queued, held or run (`NoTaskIsForgotten`), and that no pool thread returns
while something is queued. The scheduler's invariant adds that a thread which
`stop` has notified does not fall asleep again.

**Retries and clocks.** `DelayIsExponential` is an induction over the attempts.
The library's induction theorems take the formula as an operator, which the
provers cannot instantiate; `Counting` has one that takes the set of numbers the
formula holds of (`NatSetInduction`). It rests on `NatMin`, that a set of natural
numbers has a least element, and that on a theorem about finite sets. `ClockInv` has
four parts: types; what a job's place says of its promised retry (`JobInv`); that
no delay is longer than the delays before it together, doubled for each attempt
that a crash cut short (`DelayInv`), which is why an overflow takes crashes; and
that the stored millisecond and the scheduler's instant are the promised one, less
what a restart loses (`InstantInv`).

**DispatchOrder.** What has overtaken a job is bounded by bounding it together
with what still may: the tasks and the job in the dispatcher's hand with a lower
priority. The sum never grows after the push, and is at most the pool's queue
and one (`OvertakingOK`). The order of equal priorities is that of every pair
of places along the way (`FifoOK`).

**RestoreOrder.** The second half of the proof is about states, the first about
texts. `Numeral` is a recursive function; that there is a function which obeys
its definition, so that `Numeral` does (`NumeralDef`), is shown with
`NatSetInduction`: up to each number there is one, and two of them agree.
`FirstDifference` reads the order of two texts off the first place where they
differ, which makes it a strict order (`TextOrder`); among numerals of one length
it is the order of the numbers, and a larger number has no shorter numeral
(`NumeralsGrow`). `RestoreInv` says that a job which never started is in the queue
unless its request has not ended or there is no process (`QueueOK`), that ids,
seconds and `before` go in one direction (`IdsOK`), and that the queue holds two
such jobs in the order of their requests or the exception applies (`OrderOK`).
A launch gives each job the number of rows read before it as its sequence, so that
`OrderOK` after it is the strict order of the rows (`ReadPositions`).

**JobEngine.** `EngineTypeOK` is inductive, and more than a typing: a busy thread
holds a job, a task that is about to retry has an attempt left, a task about to
fail has a reason. The proof has a lemma per thread and under it a step per
action. A lemma `...Same` per part of the state disposes of what an action
leaves alone. `ControlInv` relates the place of `main` to every switch and every
thread: which of them exist, run, or have been joined. It is inductive, and what
the order of starts and stops is for; `HandoffsAreAccepted` follows from it.

**The engine's safety.** Hardly any of the engine's safety properties is
inductive. That a job starts properly depends on what its row says, and that the
row still says so depends on nobody else holding the job. `EngineInv` joins the
two:

* `Placed` is the core. `At(kind, x, id)` says that an id is at one place of the
  process: a request, an entry of the queue or of the scheduler, the hands of the
  scheduler thread or of the dispatcher, a task of the pool, a pool thread, or
  the list that recovery has read. `Placed` says that an id is at one place at
  most, and that its row is what that place needs (`Fits`): it can start where the
  job still waits for a thread, it is active with the task's count of attempts
  where the handler runs, it is what was read where recovery holds it. It also
  says that the time left in the row is no more than what the place still waits
  for (`OnTime`), and that a reason about to be stored is true (`Explains`).
* `IdsHandedOut`, `IdleThreadsHoldNothing`, `EmptyBeforeRead` and `WaitingRows`
  are what a launch needs: recovery reads every unfinished row, which puts no id
  in a second place only because memory is empty then.

Every step moves at most one id from one place to another and changes the
row of that id only. Lemma `Moves` says that `Placed` is kept by such a step;
each action is shown to be one, and `StillFits` disposes of all other ids. A
failing statement keeps the id where it is, or sends it to the step that
marks the job failed: that is why `MayFail` lets a row still wait there, once a
statement has failed.

`AllKept` is the other direction: from the moment the table was read, the
unfinished rows whose ids are at no place (`Forgotten`) are no more than the
statements that have failed. `Kept` says where the others are: an active row is at
a pool thread or in recovery's hands, until the process ends; a waiting one is
somewhere until the queue is shut down, which drops what is pushed afterwards. It
is inductive relative to `EngineInv` and `ControlInv`: a step forgets nobody, or
one id, and then it is a failing statement (lemmas `MoveKeeps` and `StandKeeps`,
one lemma per thread; `OneForEach` for the sizes). `OrphansAreExplained` and
`CleanExit` follow from the three together.

`FailuresAreExplained` is counted in the same way. `Blamed` are the jobs that
failed because a statement did, together with those a task is about to fail for
that reason: the statement fails one step before the row says so. A step of a pool
thread adds one of them only by a failing statement (`PoolThreadBlames`), and
executing `markFailed` moves an id from the second set to the first.

`TableStep` lists what a step of the engine does to the table: nothing, a new row,
or one statement on a row that is in the right status for it. `EndsAreFinal` and
the refinement follow from it row by row. A statement that fails maps to
`StorageFails`, and a task that marks a job failed whose `startAttempt` threw to
`GiveUp` from waiting, which needs that a statement has failed: `MayFail` in
`Placed` says that.

**HttpApi.** `ReadIsExact` says that an integer which is not refused is the
posted one, whatever the casts do in between, `BindKeepsText` that a text without a
NUL is stored as it is, and `RowIsAskedFor` puts them together: the row of an
accepted body, and what GET reads back of it, are what the body asks for, and no
CHECK refuses it. `ApiInv` says what each place in the handler (`InOrder`) and each
answer (`Truth`) implies of the table, that an id is in one request or one answer
(`OwnIds`), and that ids do not run out (`IdsSuffice`). That a request is in the
handler only while `main` has not stopped the scheduler is a part of `InOrder`, and
what makes an exception after the save impossible. `ThreadStep` is the one lemma
about all steps of a handler; each action is shown to be such a step.

**Dashboard.** The age of a table grows with every step of the server
(`AgeGrows`). `PageInv` says that an owner has no load under way unless it waits for
it (`OneLoadEach`), and that an answer under way is no older than the list unless the
other owner rendered that while the load was under way (`AnswerIsLater`): so a
load that makes the list older is the other owner's, and overlapped with the load
of the list.

**TwoProcesses.** Ids and rows are related across processes by `HoldsInv`: an id
is in one request until its row is there, and everything else a process holds has a
row. With it a task that runs has the attempt that it counted itself, and no other
task of any process has (`AttemptsInv`). The table takes only the store's steps
(`ProcessesUseTheStore`), so the theorems about `JobStore` hold for any number of
processes on one file.

Only model-checked: everything under fairness, since the provers cannot deal with
ENABLED, on which fairness rests.

## 8. Not modelled, or only in part

* The HTTP library is external: it is assumed to run handlers on its own
  threads, several at once, and `stop` plus the join of the listening thread to
  wait for those running, also when a stop comes while the listening thread is
  still on its way into `listen_after_bind`. `GET /health` and the static files have no state.
* The page's markup, style and layout of a job have no state.
* `JobProcessor`: a handler is a choice of its outcomes; the map of handlers does
  not change after it is filled.
* `Logger`: output only.
* The SQLite wrappers: a statement is atomic, and takes effect or fails without
  an effect. What binding makes of texts and reading of integers is in
  `HttpApi`. Opening the file, creating the tables and the pragmas are not modelled.
* `findById`, `all` and `metrics` change nothing; `HttpApi` and `Dashboard` use
  what they return.
* Ids at the end of the integer type, which takes 2^63 - 1 accepted POSTs.

## 9. What could come next

* `TwoProcesses` with delays, and with the queue, the dispatcher and the pool of
  each process apart.
* A key for repeated POSTs, if the code gets one: `HttpApi` and `Dashboard` have
  the lost answer to check it against.

## 10. Running the checks

```
tlc -workers 2 -config MCJobStoreWaiters.cfg MCJobStoreWaiters    # a run
tlapm WaitingProofs.tla                                           # proofs
```

A run's configuration has the name of its module, except that `MCJobEngine` has
`MCJobEngineSafety.cfg` and `MCJobEngineLive.cfg`. `PROJECT.json` lists the runs,
their mutants, the lines of code behind each definition, the hazards and the
theorems.
