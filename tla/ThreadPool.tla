----------------------------- MODULE ThreadPool -----------------------------
(***************************************************************************)
(* The bounded task queue of the thread pool (include/thread_pool.hpp,     *)
(* src/src/thread_pool.cpp).                                               *)
(*                                                                         *)
(* Each action is one critical section of queueMutex_.  The waits on       *)
(* condition_ and notFull_ appear here as guards; ThreadPoolThreads models *)
(* the condition variables, and the threads that run the tasks.            *)
(***************************************************************************)
EXTENDS Naturals, FiniteSets

CONSTANTS
  Functions,      \* What a task does: here, the job it was made for.
  MaxQueueSize    \* maxQueueSize_; the constructor refuses 0.

ASSUME PoolAssumption == MaxQueueSize \in Nat \ {0}

VARIABLES
  tasks,              \* tasks_: the set of its entries.
  nextTaskSequence,   \* nextTaskSequence_.
  stop                \* stop_.

poolVars == <<tasks, nextTaskSequence, stop>>

PrioritizedTask == [priority : Nat, sequence : Nat, function : Functions]

\* left is taken after right.
TaskComesAfter(left, right) ==
  \/ left.priority < right.priority
  \/ left.priority = right.priority /\ left.sequence > right.sequence

\* tasks_.top().
IsTopTask(task) ==
  /\ task \in tasks
  /\ \A other \in tasks \ {task} : TaskComesAfter(other, task)

\* Mutant: one task too many.
HasRoomForOneMore == Cardinality(tasks) <= MaxQueueSize

HasRoom == Cardinality(tasks) < MaxQueueSize

-----------------------------------------------------------------------------
PoolInit ==
  /\ tasks = {}
  /\ nextTaskSequence = 0
  /\ stop = FALSE

\* enqueueWithPriority returns: the wait on notFull_ ended with room left and
\* the pool not stopped.
Enqueue(priority, function) ==
  /\ ~stop
  /\ HasRoom
  /\ tasks' = tasks \cup {[priority |-> priority, sequence |-> nextTaskSequence,
                           function |-> function]}
  /\ nextTaskSequence' = nextTaskSequence + 1
  /\ UNCHANGED stop

\* A pool thread takes the top task: also after stop, while there are any.
Take(task) ==
  /\ IsTopTask(task)
  /\ tasks' = tasks \ {task}
  /\ UNCHANGED <<nextTaskSequence, stop>>

\* The condition on which a pool thread returns from its loop.
Drained == stop /\ tasks = {}

\* The critical section of stop(), when the pool was not stopped before.
StopPool ==
  /\ ~stop
  /\ stop' = TRUE
  /\ UNCHANGED <<tasks, nextTaskSequence>>

PoolTypeOK ==
  /\ tasks \subseteq PrioritizedTask
  /\ nextTaskSequence \in Nat
  /\ stop \in BOOLEAN
=============================================================================
