------------------------ MODULE DispatchOrderProofs ------------------------
(***************************************************************************)
(* Proofs about DispatchOrder: how far a job can be overtaken on its way   *)
(* through the two queues, and that jobs of equal priority are not, for    *)
(* any number of jobs and any size of the pool's queue.                    *)
(***************************************************************************)
EXTENDS DispatchOrder, Counting

Priority(entry) == entry.job.spec.priority

\* The tasks, and as 0 or 1 the job in the dispatcher's hand, that may still
\* start before this entry although their priority is lower.
LowerTasks(entry) == {task \in tasks : task.priority < Priority(entry)}
LowerHand(entry)  == IF \E e \in hand : Priority(e) < Priority(entry) THEN 1 ELSE 0

Behind(entry) == Cardinality(LowerTasks(entry)) + LowerHand(entry)

\* Sequences identify the jobs that wait, and every task stands for its job.
SequencesOK ==
  /\ IsFiniteSet(tasks) /\ Cardinality(tasks) <= MaxQueueSize
  /\ \A task \in tasks : /\ task.sequence < nextTaskSequence
                         /\ task.priority = Priority(task.function)
  /\ \A entry \in Pending \cup started : entry.sequence < nextSequence
  /\ \A a, b \in Pending : a.sequence = b.sequence => a = b

\* What was overtaken already, and what may still overtake, is bounded from the
\* push on; a job that has become a task is not overtaken any more.
OvertakingOK ==
  /\ \A entry \in queue \cup hand :
       overtaken[entry.sequence] + Behind(entry) <= MaxQueueSize + 1
  /\ \A task \in tasks : overtaken[task.function.sequence] <= MaxQueueSize + 1

\* Among equal priorities, what is further ahead was pushed before.
Ahead(a, b) == Priority(a) = Priority(b) => a.sequence < b.sequence

FifoOK ==
  /\ \A a \in Dispatched \cup started, b \in queue : Ahead(a, b)
  /\ \A a \in {task.function : task \in tasks} \cup started, b \in hand : Ahead(a, b)
  /\ \A a \in started, task \in tasks : Ahead(a, task.function)
  /\ \A first, second \in tasks :
       first.sequence < second.sequence => Ahead(first.function, second.function)

\* The inductive invariant.
OrderInv == OrderTypeOK /\ SequencesOK /\ OvertakingOK /\ FifoOK

\* Empty queues satisfy the invariant.
LEMMA OrderInvInit == OrderInit => OrderInv
PROOF
<1> SUFFICES ASSUME OrderInit PROVE OrderInv
  OBVIOUS
<1>1. /\ queue = {} /\ hand = {} /\ tasks = {} /\ started = {}
      /\ nextSequence = 0 /\ nextTaskSequence = 0
      /\ shutdown = FALSE /\ stop = FALSE /\ workerRunning = TRUE
      /\ dispatcher = "loop" /\ overtaken = [s \in {} |-> 0]
  BY DEF OrderInit, QueueInit, PoolInit
<1>2. OrderTypeOK
  <2>1. 0 .. nextSequence - 1 = {}
    BY <1>1
  <2>2. overtaken \in [0 .. nextSequence - 1 -> Nat]
    BY <1>1, <2>1
  <2> QED
    BY <1>1, <2>2 DEF OrderTypeOK, QueueTypeOK, PoolTypeOK
<1>3. Pending = {} /\ Dispatched = {}
  BY <1>1 DEF Pending, Dispatched
<1>4. SequencesOK
  <2>1. IsFiniteSet(tasks) /\ Cardinality(tasks) = 0
    BY <1>1, FS_EmptySet
  <2>2. Cardinality(tasks) <= MaxQueueSize
    BY <2>1, OrderAssumption
  <2> QED
    BY <1>1, <1>3, <2>1, <2>2 DEF SequencesOK
<1>5. OvertakingOK /\ FifoOK
  BY <1>1, <1>3 DEF OvertakingOK, FifoOK
<1> QED
  BY <1>2, <1>4, <1>5 DEF OrderInv

-----------------------------------------------------------------------------
(* The four steps that move a job. *)

Pushes(new) ==
  /\ new \in QueuedJob /\ new.sequence = nextSequence
  /\ queue' = queue \cup {new} /\ nextSequence' = nextSequence + 1
  /\ overtaken' = [s \in DOMAIN overtaken \cup {nextSequence} |->
                     IF s = nextSequence THEN 0 ELSE overtaken[s]]
  /\ UNCHANGED <<tasks, nextTaskSequence, hand, started>>

Pops(entry) ==
  /\ IsTop(entry)
  /\ queue' = queue \ {entry} /\ hand' = {entry}
  /\ UNCHANGED <<nextSequence, tasks, nextTaskSequence, started, overtaken>>

Enqueues(entry, new) ==
  /\ entry \in hand /\ hand' = {}
  /\ new \in PrioritizedTask
  /\ new.priority = Priority(entry) /\ new.sequence = nextTaskSequence
  /\ new.function = entry
  /\ Cardinality(tasks) < MaxQueueSize
  /\ tasks' = tasks \cup {new} /\ nextTaskSequence' = nextTaskSequence + 1
  /\ UNCHANGED <<queue, nextSequence, started, overtaken>>

Moves(task) ==
  /\ IsTopTask(task) /\ tasks' = tasks \ {task}
  /\ started' = started \cup {task.function}
  /\ overtaken' = [s \in DOMAIN overtaken |->
                     IF s \in OvertakenBy(task) THEN overtaken[s] + 1
                     ELSE overtaken[s]]
  /\ UNCHANGED <<queue, nextSequence, nextTaskSequence, hand>>

Idles == UNCHANGED <<queue, nextSequence, tasks, nextTaskSequence, hand, started,
                     overtaken>>

AnyMove ==
  \/ \E new : Pushes(new)
  \/ \E entry \in queue : Pops(entry)
  \/ \E entry, new : Enqueues(entry, new)
  \/ \E task \in tasks : Moves(task)
  \/ Idles

\* Flags and the place of the dispatcher keep their types.
FlagsOK ==
  /\ shutdown \in BOOLEAN /\ stop \in BOOLEAN /\ workerRunning \in BOOLEAN
  /\ dispatcher \in {"loop", "pop", "enqueue", "done"}

\* What is known of the jobs under way.
LEMMA EntryTypes ==
  ASSUME OrderInv
  PROVE  /\ \A entry \in Pending \cup started :
              /\ entry \in QueuedJob /\ entry.sequence \in Nat
              /\ Priority(entry) \in Nat
              /\ entry.sequence \in DOMAIN overtaken
              /\ overtaken[entry.sequence] \in Nat
         /\ \A task \in tasks :
              /\ task \in PrioritizedTask /\ task.function \in Dispatched
              /\ task.sequence \in Nat /\ task.priority \in Nat
         /\ nextSequence \in Nat /\ nextTaskSequence \in Nat
         /\ Cardinality(tasks) \in Nat /\ MaxQueueSize \in Nat
PROOF
<1>1. /\ tasks \subseteq PrioritizedTask /\ queue \subseteq QueuedJob
      /\ hand \subseteq QueuedJob /\ started \subseteq QueuedJob
      /\ nextSequence \in Nat /\ nextTaskSequence \in Nat
      /\ overtaken \in [0 .. nextSequence - 1 -> Nat]
  BY DEF OrderInv, OrderTypeOK, QueueTypeOK, PoolTypeOK
<1>2. \A task \in tasks : /\ task \in PrioritizedTask
                          /\ task.function \in QueuedJob
                          /\ task.function \in Dispatched
                          /\ task.sequence \in Nat /\ task.priority \in Nat
  BY <1>1 DEF PrioritizedTask, Dispatched
<1>3. \A entry \in Pending \cup started : entry \in QueuedJob
  BY <1>1, <1>2 DEF Pending, Dispatched
<1>4. ASSUME NEW entry \in Pending \cup started
      PROVE  /\ entry.sequence \in Nat /\ Priority(entry) \in Nat
             /\ entry.sequence \in 0 .. nextSequence - 1
  <2>1. entry.sequence \in Nat /\ Priority(entry) \in Nat
    BY <1>3, OrderAssumption DEF QueuedJob, Priority
  <2>2. entry.sequence < nextSequence
    BY DEF OrderInv, SequencesOK
  <2> QED
    BY <1>1, <2>1, <2>2
<1>5. Cardinality(tasks) \in Nat /\ MaxQueueSize \in Nat
  BY FS_CardinalityType, OrderAssumption DEF OrderInv, SequencesOK
<1> QED
  BY <1>1, <1>2, <1>3, <1>4, <1>5

\* Every step is one of the moves above: what it takes from where and puts where.
LEMMA StepsOfOrder ==
  OrderInv /\ [OrderNext]_vars => AnyMove /\ FlagsOK'
PROOF
<1> SUFFICES ASSUME OrderInv, [OrderNext]_vars PROVE AnyMove /\ FlagsOK'
  OBVIOUS
<1>a. FlagsOK
  BY DEF OrderInv, OrderTypeOK, QueueTypeOK, PoolTypeOK, FlagsOK
<1>b. nextSequence \in Nat /\ nextTaskSequence \in Nat
  BY EntryTypes
<1>1. ASSUME NEW job \in Jobs, PushJob(job) PROVE AnyMove /\ FlagsOK'
  <2>1. CASE shutdown
    BY <1>a, <1>1, <2>1 DEF PushJob, Push, AnyMove, Idles, FlagsOK
  <2>2. CASE ~shutdown
    <3> DEFINE new == [sequence |-> nextSequence, job |-> job]
    <3>1. new \in QueuedJob /\ new.sequence = nextSequence
      BY <1>b DEF QueuedJob
    <3>2. Pushes(new)
      BY <1>1, <2>2, <3>1 DEF PushJob, Push, Pushes
    <3> QED
      BY <1>a, <1>1, <2>2, <3>2 DEF PushJob, Push, AnyMove, FlagsOK
  <2> QED
    BY <2>1, <2>2
<1>2. CASE DispatcherPops
  <2>1. PICK entry \in queue : PopJob(entry) /\ hand' = {entry}
    BY <1>2 DEF DispatcherPops
  <2>2. Pops(entry)
    BY <1>2, <2>1 DEF DispatcherPops, PopJob, Pops
  <2> QED
    BY <1>a, <1>2, <2>1, <2>2 DEF DispatcherPops, PopJob, AnyMove, FlagsOK
<1>3. CASE DispatcherEnqueues
  <2>1. PICK entry \in hand : Enqueue(entry.job.spec.priority, entry)
    BY <1>3 DEF DispatcherEnqueues
  <2> DEFINE new == [priority |-> entry.job.spec.priority,
                     sequence |-> nextTaskSequence, function |-> entry]
  <2>2. entry \in QueuedJob /\ Priority(entry) \in Nat
    BY EntryTypes DEF Pending, Dispatched
  <2>3. /\ new \in PrioritizedTask /\ new.priority = Priority(entry)
        /\ new.sequence = nextTaskSequence /\ new.function = entry
    BY <1>b, <2>2 DEF PrioritizedTask, Priority
  <2>4. Enqueues(entry, new)
    BY <1>3, <2>1, <2>3 DEF DispatcherEnqueues, Enqueue, HasRoom, Enqueues
  <2>5. AnyMove
    BY <2>4 DEF AnyMove
  <2> QED
    BY <1>a, <1>3, <2>1, <2>5 DEF DispatcherEnqueues, Enqueue, FlagsOK
<1>4. ASSUME NEW task \in tasks, Start(task) PROVE AnyMove /\ FlagsOK'
  <2>1. Moves(task)
    BY <1>4 DEF Start, Take, Moves
  <2> QED
    BY <1>a, <1>4, <2>1 DEF Start, Take, AnyMove, FlagsOK
<1>5. CASE DispatcherLoops
  BY <1>a, <1>5 DEF DispatcherLoops, AnyMove, Idles, FlagsOK
<1>6. CASE DispatcherBreaks
  BY <1>a, <1>6 DEF DispatcherBreaks, PopNothing, AnyMove, Idles, FlagsOK
<1>7. CASE StopRunning
  BY <1>a, <1>7 DEF StopRunning, AnyMove, Idles, FlagsOK
<1>8. CASE ShutdownQueue
  BY <1>a, <1>8 DEF ShutdownQueue, Shutdown, AnyMove, Idles, FlagsOK
<1>9. CASE PoolStops
  BY <1>a, <1>9 DEF PoolStops, StopPool, AnyMove, Idles, FlagsOK
<1>10. CASE UNCHANGED vars
  BY <1>a, <1>10 DEF vars, AnyMove, Idles, FlagsOK
<1> QED
  BY <1>1, <1>2, <1>3, <1>4, <1>5, <1>6, <1>7, <1>8, <1>9, <1>10 DEF OrderNext

\* Where the jobs are after each move.
LEMMA MovesOfJobs ==
  ASSUME OrderInv
  PROVE  /\ \A new : Pushes(new) =>
              Dispatched' = Dispatched /\ Pending' = Pending \cup {new}
         /\ \A entry \in queue : Pops(entry) =>
              /\ Dispatched' \subseteq Dispatched \cup {entry}
              /\ Pending' \subseteq Pending
         /\ \A entry, new : Enqueues(entry, new) =>
              Dispatched' \subseteq Dispatched /\ Pending' \subseteq Pending
         /\ \A task \in tasks : Moves(task) =>
              /\ Dispatched' \subseteq Dispatched /\ Pending' \subseteq Pending
              /\ task.function \in Dispatched
PROOF
<1>1. ASSUME NEW new, Pushes(new)
      PROVE  Dispatched' = Dispatched /\ Pending' = Pending \cup {new}
  BY <1>1 DEF Pushes, Dispatched, Pending
<1>2. ASSUME NEW entry \in queue, Pops(entry)
      PROVE  /\ Dispatched' \subseteq Dispatched \cup {entry}
             /\ Pending' \subseteq Pending
  BY <1>2 DEF Pops, Dispatched, Pending
<1>3. ASSUME NEW entry, NEW new, Enqueues(entry, new)
      PROVE  Dispatched' \subseteq Dispatched /\ Pending' \subseteq Pending
  BY <1>3 DEF Enqueues, Dispatched, Pending
<1>4. ASSUME NEW task \in tasks, Moves(task)
      PROVE  /\ Dispatched' \subseteq Dispatched /\ Pending' \subseteq Pending
             /\ task.function \in Dispatched
  BY <1>4 DEF Moves, Dispatched, Pending
<1> QED
  BY <1>1, <1>2, <1>3, <1>4

-----------------------------------------------------------------------------
(* Types and sequences. *)

\* No step leaves the types; sequences stay below the next one and name one waiting
\* job each, and the pool stays within its limit.
LEMMA SequencesStep ==
  OrderInv /\ [OrderNext]_vars => OrderTypeOK' /\ SequencesOK'
PROOF
<1> SUFFICES ASSUME OrderInv, [OrderNext]_vars
             PROVE  OrderTypeOK' /\ SequencesOK'
  OBVIOUS
<1> DEFINE Goal == OrderTypeOK' /\ SequencesOK'
<1>t. /\ tasks \subseteq PrioritizedTask /\ queue \subseteq QueuedJob
      /\ hand \subseteq QueuedJob /\ started \subseteq QueuedJob
      /\ nextSequence \in Nat /\ nextTaskSequence \in Nat
      /\ overtaken \in [0 .. nextSequence - 1 -> Nat]
  BY DEF OrderInv, OrderTypeOK, QueueTypeOK, PoolTypeOK
<1>s. SequencesOK
  BY DEF OrderInv
<1>e. /\ \A entry \in Pending \cup started :
           entry \in QueuedJob /\ entry.sequence \in Nat
      /\ \A task \in tasks : task.function \in Dispatched /\ task.sequence \in Nat
      /\ Cardinality(tasks) \in Nat /\ MaxQueueSize \in Nat
  BY EntryTypes
<1>f. AnyMove /\ FlagsOK'
  BY StepsOfOrder
<1> USE DEF OrderTypeOK, QueueTypeOK, PoolTypeOK, FlagsOK
<1>1. ASSUME NEW new, Pushes(new) PROVE Goal
  <2>1. Pending' = Pending \cup {new}
    BY <1>1, MovesOfJobs
  <2>2. overtaken' \in [0 .. nextSequence' - 1 -> Nat]
    BY <1>t, <1>1 DEF Pushes
  <2>3. OrderTypeOK'
    BY <1>t, <1>f, <1>1, <2>2 DEF Pushes
  <2>4. \A entry \in (Pending \cup started)' : entry.sequence < nextSequence'
    BY <1>t, <1>s, <1>e, <1>1, <2>1 DEF Pushes, SequencesOK
  <2>5. \A a, b \in Pending' : a.sequence = b.sequence => a = b
    BY <1>t, <1>s, <1>e, <1>1, <2>1 DEF Pushes, SequencesOK
  <2> QED
    BY <1>s, <1>1, <2>3, <2>4, <2>5 DEF Pushes, SequencesOK
<1>2. ASSUME NEW entry \in queue, Pops(entry) PROVE Goal
  <2>1. Pending' \subseteq Pending
    BY <1>2, MovesOfJobs
  <2>2. OrderTypeOK'
    BY <1>t, <1>f, <1>2 DEF Pops
  <2> QED
    BY <1>s, <1>2, <2>1, <2>2 DEF Pops, SequencesOK
<1>3. ASSUME NEW entry, NEW new, Enqueues(entry, new) PROVE Goal
  <2>1. Pending' \subseteq Pending
    BY <1>3, MovesOfJobs
  <2>2. OrderTypeOK'
    BY <1>t, <1>f, <1>3 DEF Enqueues
  <2>3. IsFiniteSet(tasks') /\ Cardinality(tasks') <= Cardinality(tasks) + 1
        /\ Cardinality(tasks') \in Nat
    BY <1>s, <1>3, CountMore DEF Enqueues, SequencesOK
  <2>4. Cardinality(tasks) < MaxQueueSize
    BY <1>3 DEF Enqueues
  <2>5. Cardinality(tasks') <= MaxQueueSize
    BY <1>e, <2>3, <2>4
  <2>6. \A task \in tasks' : /\ task.sequence < nextTaskSequence'
                             /\ task.priority = Priority(task.function)
    BY <1>t, <1>s, <1>e, <1>3 DEF Enqueues, SequencesOK
  <2>7. \A e \in (Pending \cup started)' : e.sequence < nextSequence'
    BY <1>s, <1>3, <2>1 DEF Enqueues, SequencesOK
  <2>8. \A a, b \in Pending' : a.sequence = b.sequence => a = b
    BY <1>s, <2>1 DEF SequencesOK
  <2> QED
    BY <2>2, <2>3, <2>5, <2>6, <2>7, <2>8 DEF SequencesOK
<1>4. ASSUME NEW task \in tasks, Moves(task) PROVE Goal
  <2>1. Pending' \subseteq Pending /\ task.function \in Pending
    BY <1>4, MovesOfJobs DEF Pending
  <2>2. overtaken' \in [0 .. nextSequence' - 1 -> Nat]
    BY <1>t, <1>4 DEF Moves
  <2>3. OrderTypeOK'
    BY <1>t, <1>e, <1>f, <1>4, <2>1, <2>2 DEF Moves
  <2>4. IsFiniteSet(tasks') /\ Cardinality(tasks') <= Cardinality(tasks)
        /\ Cardinality(tasks') \in Nat
    BY <1>s, <1>4, CountLess DEF Moves, SequencesOK
  <2>5. Cardinality(tasks') <= MaxQueueSize
    BY <1>s, <1>e, <2>4 DEF SequencesOK
  <2>6. \A e \in (Pending \cup started)' : e.sequence < nextSequence'
    BY <1>s, <1>4, <2>1 DEF Moves, SequencesOK
  <2>7. \A t \in tasks' : /\ t.sequence < nextTaskSequence'
                          /\ t.priority = Priority(t.function)
    BY <1>s, <1>4 DEF Moves, SequencesOK
  <2>8. \A a, b \in Pending' : a.sequence = b.sequence => a = b
    BY <1>s, <2>1 DEF SequencesOK
  <2> QED
    BY <2>3, <2>4, <2>5, <2>6, <2>7, <2>8 DEF SequencesOK
<1>5. CASE Idles
  <2>1. Pending' = Pending
    BY <1>5 DEF Idles, Pending, Dispatched
  <2> QED
    BY <1>t, <1>s, <1>f, <1>5, <2>1 DEF Idles, SequencesOK
<1> QED
  BY <1>f, <1>1, <1>2, <1>3, <1>4, <1>5 DEF AnyMove

-----------------------------------------------------------------------------
(* Equal priorities. *)

\* No move puts a job behind one of its priority that was pushed later.
LEMMA FifoStep == OrderInv /\ [OrderNext]_vars => FifoOK'
PROOF
<1> SUFFICES ASSUME OrderInv, [OrderNext]_vars PROVE FifoOK'
  OBVIOUS
<1>o. FifoOK /\ SequencesOK
  BY DEF OrderInv
<1>e. /\ \A entry \in Pending \cup started : entry.sequence \in Nat
      /\ \A task \in tasks : task.function \in Dispatched /\ task.sequence \in Nat
      /\ nextSequence \in Nat /\ nextTaskSequence \in Nat
  BY EntryTypes
\* A new job has the largest sequence of all.
<1>1. ASSUME NEW new, Pushes(new) PROVE FifoOK'
  <2>1. Dispatched' = Dispatched /\ UNCHANGED <<tasks, hand, started>>
        /\ queue' = queue \cup {new}
    BY <1>1, MovesOfJobs DEF Pushes
  <2>2. \A a \in Dispatched \cup started : a.sequence < new.sequence
    BY <1>1, <1>o DEF Pushes, SequencesOK, Pending
  <2> QED
    BY <1>o, <2>1, <2>2 DEF FifoOK, Ahead
\* The top of the queue is the oldest of its priority.
<1>2. ASSUME NEW entry \in queue, Pops(entry) PROVE FifoOK'
  <2>1. Dispatched' \subseteq Dispatched \cup {entry}
        /\ UNCHANGED <<tasks, started>>
        /\ queue' = queue \ {entry} /\ hand' = {entry}
    BY <1>2, MovesOfJobs DEF Pops
  <2>2. \A b \in queue' : Ahead(entry, b)
    <3>1. \A b \in queue' : JobComesAfter(b, entry)
      BY <1>2, <2>1 DEF Pops, IsTop
    <3>2. \A b \in queue : Priority(b) \in Nat /\ b.sequence \in Nat
      BY EntryTypes DEF Pending
    <3> QED
      BY <2>1, <3>1, <3>2 DEF JobComesAfter, Ahead, Priority
  <2>3. \A a \in Dispatched' \cup started', b \in queue' : Ahead(a, b)
    BY <1>o, <2>1, <2>2 DEF FifoOK
  <2>4. \A a \in {task.function : task \in tasks'} \cup started', b \in hand' : Ahead(a, b)
    BY <1>o, <2>1 DEF FifoOK, Dispatched
  <2> QED
    BY <1>o, <2>1, <2>3, <2>4 DEF FifoOK
\* A new task has the largest sequence of the tasks, and its job is younger than
\* theirs.
<1>3. ASSUME NEW entry, NEW new, Enqueues(entry, new) PROVE FifoOK'
  <2>1. /\ Dispatched' \subseteq Dispatched /\ UNCHANGED <<queue, started>>
        /\ tasks' = tasks \cup {new} /\ hand' = {} /\ entry \in hand
        /\ new.function = entry /\ new.sequence = nextTaskSequence
    BY <1>3, MovesOfJobs DEF Enqueues
  <2>2. \A a \in Dispatched' \cup started', b \in queue' : Ahead(a, b)
    BY <1>o, <2>1 DEF FifoOK
  <2>3. \A a \in started', task \in tasks' : Ahead(a, task.function)
    BY <1>o, <2>1 DEF FifoOK
  <2>4. ASSUME NEW first \in tasks', NEW second \in tasks',
               first.sequence < second.sequence
        PROVE  Ahead(first.function, second.function)
    <3>1. CASE first \in tasks /\ second \in tasks
      BY <1>o, <2>4, <3>1 DEF FifoOK
    <3>2. CASE first \in tasks /\ second = new
      BY <1>o, <2>1, <3>2 DEF FifoOK
    <3>3. CASE first = new
      <4>1. second.sequence <= nextTaskSequence
        BY <1>e, <1>o, <2>1 DEF SequencesOK
      <4>2. second.sequence \in Nat
        BY <1>e, <2>1
      <4> QED
        BY <1>e, <2>1, <2>4, <3>3, <4>1, <4>2
    <3> QED
      BY <2>1, <3>1, <3>2, <3>3
  <2> QED
    BY <2>1, <2>2, <2>3, <2>4 DEF FifoOK
\* The top task is the oldest of its priority.
<1>4. ASSUME NEW task \in tasks, Moves(task) PROVE FifoOK'
  <2>1. /\ Dispatched' \subseteq Dispatched /\ task.function \in Dispatched
        /\ UNCHANGED <<queue, hand>> /\ tasks' = tasks \ {task}
        /\ started' = started \cup {task.function}
    BY <1>4, MovesOfJobs DEF Moves
  <2>2. ASSUME NEW other \in tasks' PROVE Ahead(task.function, other.function)
    <3>1. TaskComesAfter(other, task)
      BY <1>4, <2>1, <2>2 DEF Moves, IsTopTask
    <3>2. /\ task.priority = Priority(task.function)
          /\ other.priority = Priority(other.function)
          /\ other.priority \in Nat /\ task.priority \in Nat
          /\ other.sequence \in Nat /\ task.sequence \in Nat
      BY <1>o, <2>1, <2>2, EntryTypes DEF SequencesOK
    <3>3. CASE other.priority = task.priority
      <4>1. task.sequence < other.sequence
        BY <3>1, <3>2, <3>3 DEF TaskComesAfter
      <4> QED
        BY <1>o, <2>1, <4>1 DEF FifoOK
    <3> QED
      BY <3>2, <3>3 DEF Ahead
  <2>3. \A a \in Dispatched' \cup started', b \in queue' : Ahead(a, b)
    BY <1>o, <2>1 DEF FifoOK
  <2>4. \A a \in {t.function : t \in tasks'} \cup started', b \in hand' : Ahead(a, b)
    BY <1>o, <2>1 DEF FifoOK
  <2>5. \A a \in started', t \in tasks' : Ahead(a, t.function)
    BY <1>o, <2>1, <2>2 DEF FifoOK
  <2> QED
    BY <1>o, <2>1, <2>3, <2>4, <2>5 DEF FifoOK
<1>5. CASE Idles
  <2>1. Dispatched' = Dispatched
    BY <1>5 DEF Idles, Dispatched
  <2> QED
    BY <1>o, <1>5, <2>1 DEF Idles, FifoOK
<1> QED
  BY <1>1, <1>2, <1>3, <1>4, <1>5, StepsOfOrder DEF AnyMove

-----------------------------------------------------------------------------
(* Overtaking. *)

\* The tasks of lower priority are a finite set, no larger than the queue.
LEMMA BehindType ==
  ASSUME OrderInv, NEW entry
  PROVE  /\ IsFiniteSet(LowerTasks(entry)) /\ Cardinality(LowerTasks(entry)) \in Nat
         /\ Cardinality(LowerTasks(entry)) <= MaxQueueSize
         /\ LowerHand(entry) \in {0, 1}
PROOF
<1>1. LowerTasks(entry) \in SUBSET tasks
  BY DEF LowerTasks
<1>2. IsFiniteSet(tasks) /\ Cardinality(tasks) <= MaxQueueSize
  BY DEF OrderInv, SequencesOK
<1>3. /\ IsFiniteSet(LowerTasks(entry))
      /\ Cardinality(LowerTasks(entry)) <= Cardinality(tasks)
  BY <1>1, <1>2, FS_Subset
<1>4. /\ Cardinality(LowerTasks(entry)) \in Nat /\ Cardinality(tasks) \in Nat
      /\ MaxQueueSize \in Nat
  BY <1>2, <1>3, FS_CardinalityType, OrderAssumption
<1>5. LowerHand(entry) \in {0, 1}
  BY DEF LowerHand
<1> QED
  BY <1>2, <1>3, <1>4, <1>5

\* A start overtakes the jobs of higher priority, each once, and no other.
LEMMA StartOvertakes ==
  ASSUME OrderInv, NEW task \in tasks, Moves(task), NEW entry \in Pending
  PROVE  overtaken'[entry.sequence] =
           IF Priority(entry) > task.priority THEN overtaken[entry.sequence] + 1
           ELSE overtaken[entry.sequence]
PROOF
<1>1. entry.sequence \in OvertakenBy(task) <=> Priority(entry) > task.priority
  BY DEF OvertakenBy, OrderInv, SequencesOK, Priority
<1>2. entry.sequence \in DOMAIN overtaken
  BY EntryTypes
<1> QED
  BY <1>1, <1>2 DEF Moves

\* What a job has been overtaken by and what may still overtake it never exceed
\* the limit of the pool and one.
LEMMA OvertakingStep == OrderInv /\ [OrderNext]_vars => OvertakingOK'
PROOF
<1> SUFFICES ASSUME OrderInv, [OrderNext]_vars PROVE OvertakingOK'
  OBVIOUS
<1>o. OvertakingOK /\ SequencesOK
  BY DEF OrderInv
<1>e. /\ \A entry \in Pending \cup started :
           /\ entry.sequence \in Nat /\ Priority(entry) \in Nat
           /\ entry.sequence \in DOMAIN overtaken
           /\ overtaken[entry.sequence] \in Nat
      /\ \A task \in tasks : task.function \in Pending /\ task.priority \in Nat
      /\ nextSequence \in Nat /\ nextTaskSequence \in Nat /\ MaxQueueSize \in Nat
  BY EntryTypes DEF Pending
<1>b. \A entry : /\ IsFiniteSet(LowerTasks(entry))
                 /\ Cardinality(LowerTasks(entry)) \in Nat
                 /\ Cardinality(LowerTasks(entry)) <= MaxQueueSize
                 /\ LowerHand(entry) \in {0, 1}
  BY BehindType
\* A new job has been overtaken by nobody, and finds no more jobs ahead of it
\* than the pool's queue holds, and one.
<1>1. ASSUME NEW new, Pushes(new) PROVE OvertakingOK'
  <2>1. UNCHANGED <<tasks, hand>> /\ queue' = queue \cup {new}
        /\ new.sequence = nextSequence
    BY <1>1 DEF Pushes
  <2>2. \A entry : Behind(entry)' = Behind(entry)
    BY <2>1 DEF Behind, LowerTasks, LowerHand
  <2>3. overtaken'[new.sequence] = 0
    BY <1>1 DEF Pushes
  <2>4. \A entry \in Pending : overtaken'[entry.sequence] = overtaken[entry.sequence]
    <3>1. \A entry \in Pending : entry.sequence # nextSequence
      BY <1>o, <1>e DEF SequencesOK
    <3> QED
      BY <1>1, <1>e, <3>1 DEF Pushes
  <2>5. overtaken'[new.sequence] + Behind(new)' <= MaxQueueSize + 1
    <3>1. /\ Cardinality(LowerTasks(new)) \in Nat
          /\ Cardinality(LowerTasks(new)) <= MaxQueueSize
          /\ LowerHand(new) \in {0, 1}
      BY <1>b
    <3>2. Behind(new)' = Cardinality(LowerTasks(new)) + LowerHand(new)
      BY <2>2 DEF Behind
    <3> QED
      BY <1>e, <2>3, <3>1, <3>2
  <2>6. \A entry \in queue \cup hand :
          overtaken'[entry.sequence] + Behind(entry)' <= MaxQueueSize + 1
    BY <1>o, <2>2, <2>4 DEF OvertakingOK, Pending, Dispatched
  <2>7. \A task \in tasks' : overtaken'[task.function.sequence] <= MaxQueueSize + 1
    BY <1>o, <1>e, <2>1, <2>4 DEF OvertakingOK
  <2> QED
    BY <2>1, <2>5, <2>6, <2>7 DEF OvertakingOK
\* The job taken into the hand is of the highest priority in the queue, so the
\* hand is no threat to the others.
<1>2. ASSUME NEW entry \in queue, Pops(entry) PROVE OvertakingOK'
  <2>1. UNCHANGED <<tasks, overtaken>> /\ hand' = {entry}
        /\ queue' = queue \ {entry}
    BY <1>2 DEF Pops
  <2>2. ASSUME NEW x \in queue PROVE LowerHand(x)' = 0
    <3>1. x = entry \/ JobComesAfter(x, entry)
      BY <1>2 DEF Pops, IsTop
    <3>2. Priority(x) \in Nat /\ Priority(entry) \in Nat
      BY <1>e DEF Pending
    <3>3. ~(Priority(entry) < Priority(x))
      BY <3>1, <3>2 DEF JobComesAfter, Priority
    <3> QED
      BY <2>1, <3>3 DEF LowerHand
  <2>3. \A x : LowerTasks(x)' = LowerTasks(x)
    BY <2>1 DEF LowerTasks
  <2>4. ASSUME NEW x \in queue
        PROVE  overtaken'[x.sequence] + Behind(x)' <= MaxQueueSize + 1
    <3>1. Behind(x)' = Cardinality(LowerTasks(x)) + 0
      BY <2>2, <2>3 DEF Behind
    <3>2. overtaken[x.sequence] + (Cardinality(LowerTasks(x)) + LowerHand(x))
            <= MaxQueueSize + 1
      BY <1>o DEF OvertakingOK, Behind
    <3>3. overtaken[x.sequence] \in Nat /\ Cardinality(LowerTasks(x)) \in Nat
          /\ LowerHand(x) \in {0, 1}
      BY <1>e, <1>b DEF Pending
    <3> QED
      BY <1>e, <2>1, <3>1, <3>2, <3>3
  <2>5. \A task \in tasks' : overtaken'[task.function.sequence] <= MaxQueueSize + 1
    BY <1>o, <2>1 DEF OvertakingOK
  <2> QED
    BY <2>1, <2>4, <2>5 DEF OvertakingOK
\* From the hand to the tasks: behind the others nothing changes.
<1>3. ASSUME NEW entry, NEW new, Enqueues(entry, new) PROVE OvertakingOK'
  <2>1. /\ UNCHANGED <<queue, overtaken>> /\ hand' = {} /\ entry \in hand
        /\ tasks' = tasks \cup {new} /\ new.function = entry
        /\ new.priority = Priority(entry)
    BY <1>3 DEF Enqueues
  <2>2. ASSUME NEW x \in queue
        PROVE  overtaken'[x.sequence] + Behind(x)' <= MaxQueueSize + 1
    <3>1. overtaken[x.sequence] + (Cardinality(LowerTasks(x)) + LowerHand(x))
            <= MaxQueueSize + 1
      BY <1>o DEF OvertakingOK, Behind
    <3>2. overtaken[x.sequence] \in Nat /\ Cardinality(LowerTasks(x)) \in Nat
          /\ LowerHand(x) \in {0, 1} /\ IsFiniteSet(LowerTasks(x))
      BY <1>e, <1>b DEF Pending
    <3>3. Behind(x)' = Cardinality(LowerTasks(x)')
      <4>1. LowerHand(x)' = 0
        BY <2>1 DEF LowerHand
      <4>2. Behind(x)' = Cardinality(LowerTasks(x)') + 0
        BY <4>1 DEF Behind
      <4>3. IsFiniteSet(LowerTasks(x)')
        <5>1. LowerTasks(x)' = LowerTasks(x) \/ LowerTasks(x)' = LowerTasks(x) \cup {new}
          BY <2>1 DEF LowerTasks
        <5> QED
          BY <3>2, <5>1, CountMore
      <4>4. Cardinality(LowerTasks(x)') \in Nat
        BY <4>3, FS_CardinalityType
      <4> QED
        BY <4>2, <4>4
    <3>4. CASE Priority(entry) < Priority(x)
      <4>1. LowerTasks(x)' = LowerTasks(x) \cup {new} /\ LowerHand(x) = 1
        BY <2>1, <3>4 DEF LowerTasks, LowerHand
      <4>2. Cardinality(LowerTasks(x)') <= Cardinality(LowerTasks(x)) + 1
            /\ Cardinality(LowerTasks(x)') \in Nat
        BY <3>2, <4>1, CountMore
      <4> QED
        BY <1>e, <2>1, <3>1, <3>2, <3>3, <4>1, <4>2
    <3>5. CASE ~(Priority(entry) < Priority(x))
      <4>1. LowerTasks(x)' = LowerTasks(x)
        BY <2>1, <3>5 DEF LowerTasks
      <4> QED
        BY <1>e, <2>1, <3>1, <3>2, <3>3, <4>1
    <3> QED
      BY <3>4, <3>5
  <2>3. overtaken[entry.sequence] <= MaxQueueSize + 1
    <3>1. overtaken[entry.sequence] + (Cardinality(LowerTasks(entry)) + LowerHand(entry))
            <= MaxQueueSize + 1
      BY <1>o, <2>1 DEF OvertakingOK, Behind
    <3>2. overtaken[entry.sequence] \in Nat /\ Cardinality(LowerTasks(entry)) \in Nat
          /\ LowerHand(entry) \in {0, 1}
      BY <1>e, <1>b, <2>1 DEF Pending, Dispatched
    <3> QED
      BY <1>e, <3>1, <3>2
  <2>4. \A task \in tasks' : overtaken'[task.function.sequence] <= MaxQueueSize + 1
    BY <1>o, <2>1, <2>3 DEF OvertakingOK
  <2> QED
    BY <2>1, <2>2, <2>4 DEF OvertakingOK
\* A start of lower priority takes one job from those behind.
<1>4. ASSUME NEW task \in tasks, Moves(task) PROVE OvertakingOK'
  <2>1. UNCHANGED <<queue, hand>> /\ tasks' = tasks \ {task}
    BY <1>4 DEF Moves
  <2>2. ASSUME NEW x \in queue \cup hand
        PROVE  overtaken'[x.sequence] + Behind(x)' <= MaxQueueSize + 1
    <3>1. overtaken[x.sequence] + (Cardinality(LowerTasks(x)) + LowerHand(x))
            <= MaxQueueSize + 1
      BY <1>o DEF OvertakingOK, Behind
    <3>2. overtaken[x.sequence] \in Nat /\ Cardinality(LowerTasks(x)) \in Nat
          /\ LowerHand(x) \in {0, 1} /\ IsFiniteSet(LowerTasks(x))
      BY <1>e, <1>b DEF Pending, Dispatched
    <3>3. Behind(x)' = Cardinality(LowerTasks(x)') + LowerHand(x)
      BY <2>1 DEF Behind, LowerHand
    <3>4. overtaken'[x.sequence] =
            IF Priority(x) > task.priority THEN overtaken[x.sequence] + 1
            ELSE overtaken[x.sequence]
      BY <1>4, StartOvertakes DEF Pending, Dispatched
    <3>5. Priority(x) \in Nat /\ task.priority \in Nat
      BY <1>e DEF Pending, Dispatched
    <3>6. LowerTasks(x)' = LowerTasks(x) \ {task}
          /\ (Priority(x) > task.priority => task \in LowerTasks(x))
      BY <2>1, <3>5 DEF LowerTasks
    <3>7. /\ Cardinality(LowerTasks(x)') \in Nat
          /\ Cardinality(LowerTasks(x)') <= Cardinality(LowerTasks(x))
          /\ Priority(x) > task.priority =>
               Cardinality(LowerTasks(x)') = Cardinality(LowerTasks(x)) - 1
      BY <3>2, <3>6, CountLess
    <3>8. CASE Priority(x) > task.priority
      BY <1>e, <3>1, <3>2, <3>3, <3>4, <3>7, <3>8
    <3>9. CASE ~(Priority(x) > task.priority)
      BY <1>e, <3>1, <3>2, <3>3, <3>4, <3>7, <3>9
    <3> QED
      BY <3>8, <3>9
  <2>3. ASSUME NEW other \in tasks'
        PROVE  overtaken'[other.function.sequence] <= MaxQueueSize + 1
    <3>1. TaskComesAfter(other, task)
      BY <1>4, <2>1, <2>3 DEF Moves, IsTopTask
    <3>2. /\ other.priority = Priority(other.function)
          /\ other.priority \in Nat /\ task.priority \in Nat
          /\ other.function \in Pending
          /\ overtaken[other.function.sequence] <= MaxQueueSize + 1
      BY <1>o, <1>e, <2>1, <2>3 DEF SequencesOK, OvertakingOK
    <3>3. ~(Priority(other.function) > task.priority)
      BY <3>1, <3>2 DEF TaskComesAfter
    <3>4. overtaken'[other.function.sequence] = overtaken[other.function.sequence]
      BY <1>4, <3>2, <3>3, StartOvertakes
    <3> QED
      BY <3>2, <3>4
  <2> QED
    BY <2>1, <2>2, <2>3 DEF OvertakingOK
<1>5. CASE Idles
  <2>1. \A entry : Behind(entry)' = Behind(entry)
    BY <1>5 DEF Idles, Behind, LowerTasks, LowerHand
  <2> QED
    BY <1>o, <1>5, <2>1 DEF Idles, OvertakingOK
<1> QED
  BY <1>1, <1>2, <1>3, <1>4, <1>5, StepsOfOrder DEF AnyMove

-----------------------------------------------------------------------------
\* Every step keeps the invariant.
LEMMA OrderInvStep == OrderInv /\ [OrderNext]_vars => OrderInv'
PROOF
<1> SUFFICES ASSUME OrderInv, [OrderNext]_vars PROVE OrderInv'
  OBVIOUS
<1>1. OrderTypeOK' /\ SequencesOK'
  BY SequencesStep
<1>2. OvertakingOK' /\ FifoOK'
  BY OvertakingStep, FifoStep
<1> QED
  BY <1>1, <1>2 DEF OrderInv

\* The invariant bounds how often a job is overtaken.
LEMMA OvertakingIsBounded == OrderInv => BoundedOvertaking
PROOF
<1> SUFFICES ASSUME OrderInv, NEW entry \in Pending
             PROVE  overtaken[entry.sequence] <= MaxQueueSize + 1
  BY DEF BoundedOvertaking
<1>1. OvertakingOK
  BY DEF OrderInv
<1>2. CASE entry \in queue \cup hand
  <2>1. overtaken[entry.sequence] + (Cardinality(LowerTasks(entry)) + LowerHand(entry))
          <= MaxQueueSize + 1
    BY <1>1, <1>2 DEF OvertakingOK, Behind
  <2>2. overtaken[entry.sequence] \in Nat /\ Cardinality(LowerTasks(entry)) \in Nat
        /\ LowerHand(entry) \in {0, 1} /\ MaxQueueSize \in Nat
    BY EntryTypes, BehindType
  <2> QED
    BY <2>1, <2>2
<1>3. CASE entry \in {task.function : task \in tasks}
  BY <1>1, <1>3 DEF OvertakingOK
<1> QED
  BY <1>2, <1>3 DEF Pending, Dispatched

\* The invariant is stronger than the order of equal priorities.
LEMMA OrderIsKept == OrderInv => EqualPrioritiesKeepOrder
PROOF
  BY DEF OrderInv, FifoOK, Ahead, EqualPrioritiesKeepOrder, Pending, Dispatched,
         Priority

\* Both queues, the hand between them and what has started are well typed.
THEOREM OrderIsTyped == OrderSpec => []OrderTypeOK
PROOF
<1>1. OrderInv => OrderTypeOK
  BY DEF OrderInv
<1> QED
  BY <1>1, OrderInvInit, OrderInvStep, PTL DEF OrderSpec

\* Whatever is pushed meanwhile, a job is overtaken by at most as many jobs of
\* lower priority as the pool's queue holds, and one.
THEOREM OvertakingStaysBounded == OrderSpec => []BoundedOvertaking
PROOF
<1> QED
  BY OvertakingIsBounded, OrderInvInit, OrderInvStep, PTL DEF OrderSpec

\* Two queues in a row, and a thread between them, are still first in first out
\* for each priority.
THEOREM EqualPrioritiesAreFifo == OrderSpec => []EqualPrioritiesKeepOrder
PROOF
<1> QED
  BY OrderIsKept, OrderInvInit, OrderInvStep, PTL DEF OrderSpec
=============================================================================
