---------------------------- MODULE DispatchOrder ----------------------------
(***************************************************************************)
(* In which order jobs start: the queue of ready jobs, the dispatcher      *)
(* thread of the Worker (src/src/worker.cpp) and the bounded task queue of *)
(* the thread pool, one behind the other.                                  *)
(*                                                                         *)
(* Both queues order by priority, but a job that has left the first one is *)
(* out of its reach: the dispatcher keeps the job it popped until the pool *)
(* has room, whatever is pushed meanwhile.                                 *)
(***************************************************************************)
EXTENDS Naturals, FiniteSets

CONSTANTS
  Jobs,           \* Jobs somebody pushes; each has a spec.priority.
  MaxQueueSize,   \* maxQueueSize_ of the thread pool.
  MaxPushes       \* Bound: calls of push that are not dropped.

ASSUME OrderAssumption ==
  /\ \A job \in Jobs : job.spec.priority \in Nat
  /\ MaxQueueSize \in Nat \ {0}
  /\ MaxPushes \in Nat

VARIABLES
  queue, nextSequence, shutdown,   \* JobQueue.
  tasks, nextTaskSequence, stop,   \* ThreadPool.
  workerRunning,   \* running_ of Worker.
  dispatcher,      \* Where its thread is: "loop" | "pop" | "enqueue" | "done".
  hand,            \* optionalJob: {}, or the set of the one job it popped.
  started,         \* The jobs that pool threads took (history).
  overtaken        \* For each push, by its sequence, how many jobs of lower
                   \*   priority were started while that job waited (history).

\* A task holds its job; the sequence the job was queued under is history.
INSTANCE JobQueue
INSTANCE ThreadPool WITH Functions <- QueuedJob

vars == <<queue, nextSequence, shutdown, tasks, nextTaskSequence, stop,
          workerRunning, dispatcher, hand, started, overtaken>>

OrderInit ==
  /\ QueueInit
  /\ PoolInit
  /\ workerRunning = TRUE
  /\ dispatcher = "loop"
  /\ hand = {}
  /\ started = {}
  /\ overtaken = [s \in {} |-> 0]

\* The jobs that have left the job queue and have not started.
Dispatched == hand \cup {task.function : task \in tasks}

\* The jobs that were accepted and have not started.
Pending == queue \cup Dispatched

-----------------------------------------------------------------------------
\* JobService, the scheduler thread or a task that retries pushes a job.
PushJob(job) ==
  /\ nextSequence < MaxPushes
  /\ Push(job)
  /\ overtaken' = IF shutdown THEN overtaken
                  ELSE [s \in DOMAIN overtaken \cup {nextSequence} |->
                          IF s = nextSequence THEN 0 ELSE overtaken[s]]
  /\ UNCHANGED <<tasks, nextTaskSequence, stop, workerRunning, dispatcher,
                 hand, started>>

\* while (running_.load())
DispatcherLoops ==
  /\ dispatcher = "loop"
  /\ dispatcher' = IF workerRunning THEN "pop" ELSE "done"
  /\ UNCHANGED <<queue, nextSequence, shutdown, tasks, nextTaskSequence, stop,
                 workerRunning, hand, started, overtaken>>

DispatcherPops ==
  /\ dispatcher = "pop"
  /\ \E entry \in queue : PopJob(entry) /\ hand' = {entry}
  /\ dispatcher' = "enqueue"
  /\ UNCHANGED <<tasks, nextTaskSequence, stop, workerRunning, started,
                 overtaken>>

DispatcherBreaks ==
  /\ dispatcher = "pop"
  /\ PopNothing
  /\ dispatcher' = "done"
  /\ UNCHANGED <<tasks, nextTaskSequence, stop, workerRunning, hand, started,
                 overtaken>>

\* enqueueWithPriority, which waits for room.
DispatcherEnqueues ==
  /\ dispatcher = "enqueue"
  /\ \E entry \in hand : Enqueue(entry.job.spec.priority, entry)
  /\ hand' = {}
  /\ dispatcher' = "loop"
  /\ UNCHANGED <<queue, nextSequence, shutdown, workerRunning, started,
                 overtaken>>

\* The jobs that wait while a task of a lower priority is started.
OvertakenBy(task) ==
  {entry.sequence : entry \in {e \in Pending : e.job.spec.priority > task.priority}}

\* A pool thread takes the top task and runs it.
Start(task) ==
  /\ Take(task)
  /\ started' = started \cup {task.function}
  /\ overtaken' = [s \in DOMAIN overtaken |->
                     IF s \in OvertakenBy(task) THEN overtaken[s] + 1
                     ELSE overtaken[s]]
  /\ UNCHANGED <<queue, nextSequence, shutdown, workerRunning, dispatcher, hand>>

\* Worker::stop: running_.store(false), then queue_.shutdown(), then the join,
\* after which main stops the pool.
StopRunning ==
  /\ workerRunning
  /\ workerRunning' = FALSE
  /\ UNCHANGED <<queue, nextSequence, shutdown, tasks, nextTaskSequence, stop,
                 dispatcher, hand, started, overtaken>>

ShutdownQueue ==
  /\ ~workerRunning /\ ~shutdown
  /\ Shutdown
  /\ UNCHANGED <<tasks, nextTaskSequence, stop, workerRunning, dispatcher, hand,
                 started, overtaken>>

PoolStops ==
  /\ shutdown /\ dispatcher = "done"
  /\ StopPool
  /\ UNCHANGED <<queue, nextSequence, shutdown, workerRunning, dispatcher, hand,
                 started, overtaken>>

OrderNext ==
  \/ \E job \in Jobs : PushJob(job)
  \/ DispatcherLoops \/ DispatcherPops \/ DispatcherBreaks
  \/ DispatcherEnqueues
  \/ \E task \in tasks : Start(task)
  \/ StopRunning \/ ShutdownQueue \/ PoolStops

OrderSpec == OrderInit /\ [][OrderNext]_vars

-----------------------------------------------------------------------------
(* Properties. *)

OrderTypeOK ==
  /\ QueueTypeOK
  /\ PoolTypeOK
  /\ workerRunning \in BOOLEAN
  /\ dispatcher \in {"loop", "pop", "enqueue", "done"}
  /\ hand \in SUBSET QueuedJob
  /\ started \subseteq QueuedJob
  /\ overtaken \in [0 .. nextSequence - 1 -> Nat]

\* Priorities hold in spite of the dispatcher, which fetches jobs before they
\* can run: while an accepted job waits, the jobs of lower priority that start
\* are among those which had already left the queue when it was pushed, and
\* those are never more than the pool's queue holds, and one.
BoundedOvertaking ==
  \A entry \in Pending : overtaken[entry.sequence] <= MaxQueueSize + 1

\* Jobs of the same priority start in the order in which they were pushed,
\* through both queues and the dispatcher's hand.
EqualPrioritiesKeepOrder ==
  \A first \in Pending, second \in started :
    first.job.spec.priority = second.job.spec.priority
      => second.sequence < first.sequence
=============================================================================
