------------------------- MODULE ThreadPoolThreads -------------------------
(***************************************************************************)
(* The thread pool with its threads: producers inside enqueueWithPriority, *)
(* the pool's own workers, and the caller of stop() (include/thread_pool.hpp, *)
(* src/src/thread_pool.cpp).                                               *)
(*                                                                         *)
(* Two condition variables share queueMutex_: workers sleep on condition_  *)
(* while there is no task, producers on notFull_ while there is no room.   *)
(* Every notification is sent after the mutex was released.                *)
(***************************************************************************)
EXTENDS ThreadPool

CONSTANTS
  Producers, Workers,   \* Threads.
  Priorities,           \* The priorities producers use.
  MaxTasks              \* Bound: how many tasks are enqueued in all.

ASSUME ThreadsAssumption ==
  /\ IsFiniteSet(Producers)
  /\ IsFiniteSet(Workers)
  /\ Workers # {}      \* The constructor refuses threadCount = 0.
  /\ Functions # {}
  /\ Priorities \subseteq Nat
  /\ MaxTasks \in Nat

VARIABLES
  producer,   \* Producers -> [pc, priority]
  worker,     \* Workers -> [pc, task]: the task taken last.
  stopper,    \* "ready" | "notify" | "join" | "returned" | "destroyed"
  ran         \* The tasks that have been run to their end (history).

vars == <<tasks, nextTaskSequence, stop, producer, worker, stopper, ran>>

NoTask == [priority |-> 0, sequence |-> 0,
           function |-> CHOOSE f \in Functions : TRUE]

ThreadsInit ==
  /\ PoolInit
  /\ producer = [p \in Producers |-> [pc |-> "ready", priority |-> 0]]
  /\ worker = [w \in Workers |-> [pc |-> "check", task |-> NoTask]]
  /\ stopper = "ready"
  /\ ran = {}

WorkersAt(pcs)   == {w \in Workers : worker[w].pc \in pcs}
ProducersAt(pcs) == {p \in Producers : producer[p].pc \in pcs}

-----------------------------------------------------------------------------
(* Producers. *)

CallEnqueue(p, priority) ==
  /\ producer[p].pc = "ready"
  /\ nextTaskSequence + Cardinality(ProducersAt({"check", "woken", "asleep"}))
       < MaxTasks
  /\ producer' = [producer EXCEPT ![p] = [pc |-> "check", priority |-> priority]]
  /\ UNCHANGED <<poolVars, worker, stopper, ran>>

\* notFull_.wait ends and the task is pushed.
EnqueueLocked(p) ==
  /\ producer[p].pc \in {"check", "woken"}
  /\ \E f \in Functions : Enqueue(producer[p].priority, f)
  /\ producer' = [producer EXCEPT ![p].pc = "notify"]
  /\ UNCHANGED <<worker, stopper, ran>>

\* notFull_.wait ends because the pool was stopped: "enqueue on stopped
\* ThreadPool" is thrown.
EnqueueThrows(p) ==
  /\ producer[p].pc \in {"check", "woken"}
  /\ stop
  /\ producer' = [producer EXCEPT ![p].pc = "thrown"]
  /\ UNCHANGED <<poolVars, worker, stopper, ran>>

EnqueueSleeps(p) ==
  /\ producer[p].pc \in {"check", "woken"}
  /\ ~stop
  /\ ~HasRoom
  /\ producer' = [producer EXCEPT ![p].pc = "asleep"]
  /\ UNCHANGED <<poolVars, worker, stopper, ran>>

\* Mutant: no notification.
NotifyNoWorker(p) ==
  /\ producer[p].pc = "notify"
  /\ producer' = [producer EXCEPT ![p].pc = "ready"]
  /\ UNCHANGED <<poolVars, worker, stopper, ran>>

\* condition_.notify_one()
NotifyWorker(p) ==
  /\ producer[p].pc = "notify"
  /\ producer' = [producer EXCEPT ![p].pc = "ready"]
  /\ \/ WorkersAt({"asleep"}) = {} /\ UNCHANGED worker
     \/ \E w \in WorkersAt({"asleep"}) :
          worker' = [worker EXCEPT ![w].pc = "woken"]
  /\ UNCHANGED <<poolVars, stopper, ran>>

-----------------------------------------------------------------------------
(* The loop of a pool thread. *)

TakeLocked(w) ==
  /\ worker[w].pc \in {"check", "woken"}
  /\ \E task \in tasks :
       /\ Take(task)
       /\ worker' = [worker EXCEPT ![w] = [pc |-> "notify", task |-> task]]
  /\ UNCHANGED <<producer, stopper, ran>>

WorkerReturns(w) ==
  /\ worker[w].pc \in {"check", "woken"}
  /\ Drained
  /\ worker' = [worker EXCEPT ![w].pc = "returned"]
  /\ UNCHANGED <<poolVars, producer, stopper, ran>>

WorkerSleeps(w) ==
  /\ worker[w].pc \in {"check", "woken"}
  /\ ~stop
  /\ tasks = {}
  /\ worker' = [worker EXCEPT ![w].pc = "asleep"]
  /\ UNCHANGED <<poolVars, producer, stopper, ran>>

\* Mutant: no notification.
NotifyNoProducer(w) ==
  /\ worker[w].pc = "notify"
  /\ worker' = [worker EXCEPT ![w].pc = "run"]
  /\ UNCHANGED <<poolVars, producer, stopper, ran>>

\* notFull_.notify_one()
NotifyProducer(w) ==
  /\ worker[w].pc = "notify"
  /\ worker' = [worker EXCEPT ![w].pc = "run"]
  /\ \/ ProducersAt({"asleep"}) = {} /\ UNCHANGED producer
     \/ \E p \in ProducersAt({"asleep"}) :
          producer' = [producer EXCEPT ![p].pc = "woken"]
  /\ UNCHANGED <<poolVars, stopper, ran>>

\* task(): an exception of the task stays in its future.
RunTask(w) ==
  /\ worker[w].pc = "run"
  /\ worker' = [worker EXCEPT ![w].pc = "check"]
  /\ ran' = ran \cup {worker[w].task}
  /\ UNCHANGED <<poolVars, producer, stopper>>

\* The standard allows a wait to end without a notification.
SpuriousWake ==
  /\ \/ /\ \E w \in WorkersAt({"asleep"}) :
             worker' = [worker EXCEPT ![w].pc = "woken"]
        /\ UNCHANGED producer
     \/ /\ \E p \in ProducersAt({"asleep"}) :
             producer' = [producer EXCEPT ![p].pc = "woken"]
        /\ UNCHANGED worker
  /\ UNCHANGED <<poolVars, stopper, ran>>

-----------------------------------------------------------------------------
(* stop(), called by the owner and then again by the destructor. *)

StopLocked ==
  /\ stopper = "ready"
  /\ StopPool
  /\ stopper' = "notify"
  /\ UNCHANGED <<producer, worker, ran>>

\* Mutant: stop() forgets notFull_.
StopNotifiesWorkers ==
  /\ stopper = "notify"
  /\ stopper' = "join"
  /\ worker' = [w \in Workers |->
                  IF worker[w].pc = "asleep"
                  THEN [worker[w] EXCEPT !.pc = "woken"] ELSE worker[w]]
  /\ UNCHANGED <<poolVars, producer, ran>>

\* condition_.notify_all() and notFull_.notify_all(), which wake disjoint sets
\* of threads.
StopNotifies ==
  /\ stopper = "notify"
  /\ stopper' = "join"
  /\ worker' = [w \in Workers |->
                  IF worker[w].pc = "asleep"
                  THEN [worker[w] EXCEPT !.pc = "woken"] ELSE worker[w]]
  /\ producer' = [p \in Producers |->
                    IF producer[p].pc = "asleep"
                    THEN [producer[p] EXCEPT !.pc = "woken"] ELSE producer[p]]
  /\ UNCHANGED <<poolVars, ran>>

\* Mutant: stop() does not join.
StopJoinsNobody ==
  /\ stopper = "join"
  /\ stopper' = "returned"
  /\ UNCHANGED <<poolVars, producer, worker, ran>>

StopJoins ==
  /\ stopper = "join"
  /\ \A w \in Workers : worker[w].pc = "returned"
  /\ stopper' = "returned"
  /\ UNCHANGED <<poolVars, producer, worker, ran>>

\* The destructor's call finds stop_ set and returns at once.
StopAgain ==
  /\ stopper = "returned"
  /\ stop
  /\ stopper' = "destroyed"
  /\ UNCHANGED <<poolVars, producer, worker, ran>>

-----------------------------------------------------------------------------
ProducerStep(p) == EnqueueLocked(p) \/ EnqueueThrows(p) \/ EnqueueSleeps(p)
                   \/ NotifyWorker(p)

WorkerStep(w) == TakeLocked(w) \/ WorkerReturns(w) \/ WorkerSleeps(w)
                 \/ NotifyProducer(w) \/ RunTask(w)

StopStep == StopNotifies \/ StopJoins \/ StopAgain

\* Stopped, and every call has returned.
AllDone ==
  /\ stopper = "destroyed"
  /\ ProducersAt({"ready", "thrown"}) = Producers
  /\ UNCHANGED vars

ThreadsNext ==
  \/ \E p \in Producers :
       (\E priority \in Priorities : CallEnqueue(p, priority)) \/ ProducerStep(p)
  \/ \E w \in Workers : WorkerStep(w)
  \/ StopLocked
  \/ StopStep
  \/ SpuriousWake
  \/ AllDone

\* A thread inside a call goes on, and a task that runs ends.  No one has to
\* enqueue or to stop, and nothing depends on the spurious wake-ups.
ThreadsFairness ==
  /\ \A p \in Producers : WF_vars(ProducerStep(p))
  /\ \A w \in Workers : WF_vars(WorkerStep(w))
  /\ WF_vars(StopStep)

ThreadsSpec == ThreadsInit /\ [][ThreadsNext]_vars /\ ThreadsFairness

-----------------------------------------------------------------------------
(* Properties. *)

ThreadsTypeOK ==
  /\ PoolTypeOK
  /\ producer \in [Producers ->
       [pc : {"ready", "check", "woken", "asleep", "notify", "thrown"},
        priority : Nat]]
  /\ worker \in [Workers ->
       [pc : {"check", "woken", "asleep", "notify", "run", "returned"},
        task : PrioritizedTask]]
  /\ stopper \in {"ready", "notify", "join", "returned", "destroyed"}
  /\ ran \subseteq PrioritizedTask
  /\ Cardinality(tasks) <= MaxQueueSize

StopPending == stopper = "notify"

\* No lost wake-up of a worker.  While one sleeps, every task is matched by a
\* notification still to be sent or by a worker that was woken and has not
\* looked yet; after stop() a worker sleeps only until it has notified.
WorkersWoken ==
  WorkersAt({"asleep"}) # {} =>
    /\ Cardinality(tasks) <= Cardinality(ProducersAt({"notify"}))
                             + Cardinality(WorkersAt({"woken"}))
    /\ stop => StopPending

\* The same for backpressure.  While a producer sleeps on a pool that is not
\* stopped, every free place of the queue is matched by a notification or by a
\* producer already woken; on a stopped pool it sleeps only until stop() has
\* notified it.
ProducersWoken ==
  ProducersAt({"asleep"}) # {} =>
    IF stop
    THEN StopPending
    ELSE MaxQueueSize - Cardinality(tasks)
           <= Cardinality(WorkersAt({"notify"})) + Cardinality(ProducersAt({"woken"}))

\* No sleeper on either condition variable misses what it waits for: neither
\* push nor take nor stop() may rely on a thread that is already awake.
NoLostWakeup == WorkersWoken /\ ProducersWoken

\* "They exit only when stop_ == true AND tasks_ is empty"
\* (src/thread_pool.cpp): once a pool thread has returned no task is queued
\* and none is accepted any more.
WorkersDrainBeforeExit ==
  WorkersAt({"returned"}) # {} => stop /\ tasks = {}

\* After stop() has returned, every task that was ever accepted
\* has been run to its end.
StopRunsEveryTask ==
  stopper = "returned" =>
    \A i \in 0 .. nextTaskSequence - 1 : \E task \in ran : task.sequence = i

\* Nobody waits for ever.  stop() returns, whatever producers and workers were
\* doing when it was called; and backpressure is not a deadlock: a producer that
\* sleeps on a full queue gets its task in, or is told that the pool was
\* stopped.
CallsReturn ==
  /\ stop ~> stopper = "destroyed"
  /\ \A p \in Producers :
       producer[p].pc = "asleep" ~> producer[p].pc \in {"ready", "thrown"}

\* Every accepted task is run.
AcceptedTasksRun ==
  \A i \in 0 .. MaxTasks - 1 :
    nextTaskSequence > i ~> \E task \in ran : task.sequence = i
=============================================================================
