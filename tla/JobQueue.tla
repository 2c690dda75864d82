------------------------------ MODULE JobQueue ------------------------------
(***************************************************************************)
(* The in-memory queue of jobs that are ready to run                       *)
(* (src/src/job_queue.cpp): a std::priority_queue behind mutex_.           *)
(*                                                                         *)
(* Every operation is one critical section, hence one action.  The wait of *)
(* pop() on cv_ appears here as the guard of PopJob and PopNothing;        *)
(* JobQueueThreads models the condition variable.                          *)
(***************************************************************************)
EXTENDS Naturals

CONSTANT Jobs   \* In-memory jobs; each has an id and a spec.priority.

ASSUME QueueAssumption == \A job \in Jobs : job.spec.priority \in Nat

VARIABLES
  queue,          \* queue_: the set of its entries.
  nextSequence,   \* nextSequence_.
  shutdown        \* shutdown_.

queueVars == <<queue, nextSequence, shutdown>>

QueuedJob == [sequence : Nat, job : Jobs]

\* left leaves the queue after right: a higher priority leaves first, equal
\* priorities leave in the order they were pushed.
JobComesAfter(left, right) ==
  \/ left.job.spec.priority < right.job.spec.priority
  \/ /\ left.job.spec.priority = right.job.spec.priority
     /\ left.sequence > right.sequence

\* queue_.top().
IsTop(entry) ==
  /\ entry \in queue
  /\ \A other \in queue \ {entry} : JobComesAfter(other, entry)

-----------------------------------------------------------------------------
QueueInit ==
  /\ queue = {}
  /\ nextSequence = 0
  /\ shutdown = FALSE

\* Mutant: nextSequence_-- for nextSequence_++.
PushBackwards(job) ==
  IF shutdown
  THEN UNCHANGED <<queue, nextSequence, shutdown>>
  ELSE /\ queue' = queue \cup {[sequence |-> nextSequence, job |-> job]}
       /\ nextSequence' = nextSequence - 1
       /\ UNCHANGED shutdown

\* After shutdown a push is dropped without an error.
Push(job) ==
  IF shutdown
  THEN UNCHANGED <<queue, nextSequence, shutdown>>
  ELSE /\ queue' = queue \cup {[sequence |-> nextSequence, job |-> job]}
       /\ nextSequence' = nextSequence + 1
       /\ UNCHANGED shutdown

\* pop() returns a job: also after shutdown, while there are any.
PopJob(entry) ==
  /\ IsTop(entry)
  /\ queue' = queue \ {entry}
  /\ UNCHANGED <<nextSequence, shutdown>>

\* pop() returns nullopt.
PopNothing ==
  /\ shutdown
  /\ queue = {}
  /\ UNCHANGED <<queue, nextSequence, shutdown>>

Shutdown ==
  /\ shutdown' = TRUE
  /\ UNCHANGED <<queue, nextSequence>>

QueueTypeOK ==
  /\ queue \subseteq QueuedJob
  /\ nextSequence \in Nat
  /\ shutdown \in BOOLEAN
=============================================================================
