-------------------------- MODULE JobQueueThreads --------------------------
(***************************************************************************)
(* JobQueue as its callers meet it: threads that push, threads blocked in  *)
(* pop() on the condition variable cv_, and one thread that shuts it down  *)
(* (src/src/job_queue.cpp).                                                *)
(*                                                                         *)
(* push() and shutdown() notify after they have released mutex_, so the    *)
(* notification is a step of its own.  cv_.wait re-evaluates its predicate *)
(* under mutex_ each time the thread is awake, and falls asleep in the     *)
(* critical section in which the predicate was false.                      *)
(***************************************************************************)
EXTENDS JobQueue, FiniteSets

CONSTANTS
  Pushers, Poppers,   \* Threads.
  MaxPushes           \* Bound: how many jobs are pushed in all.

ASSUME QueueThreadsAssumption ==
  /\ IsFiniteSet(Pushers)
  /\ IsFiniteSet(Poppers)
  /\ MaxPushes \in Nat

VARIABLES
  pusher,    \* Pushers -> "ready" | "notify"
  popper,    \* Poppers -> "ready" | "check" | "woken" | "asleep" | "done"
  closer,   \* "ready" | "notify" | "done"
  pushed,    \* How many calls of push there were.
  handed     \* The entries pop() has returned (history).

queueThreadsVars == <<queue, nextSequence, shutdown, pusher, popper, closer, pushed,
          handed>>

QueueThreadsInit ==
  /\ QueueInit
  /\ pusher = [p \in Pushers |-> "ready"]
  /\ popper = [c \in Poppers |-> "ready"]
  /\ closer = "ready"
  /\ pushed = 0
  /\ handed = {}

Asleep == {c \in Poppers : popper[c] = "asleep"}
Woken  == {c \in Poppers : popper[c] = "woken"}

\* Mutant: a notification only when the queue was empty.
PushNotifiesIfEmpty(p, job) ==
  /\ pusher[p] = "ready"
  /\ pushed < MaxPushes
  /\ pushed' = pushed + 1
  /\ Push(job)
  /\ pusher' = [pusher EXCEPT ![p] = IF shutdown \/ queue # {} THEN "ready"
                                     ELSE "notify"]
  /\ UNCHANGED <<popper, closer, handed>>

\* The critical section of push(); a dropped push returns before notify_one.
PushLocked(p, job) ==
  /\ pusher[p] = "ready"
  /\ pushed < MaxPushes
  /\ pushed' = pushed + 1
  /\ Push(job)
  /\ pusher' = [pusher EXCEPT ![p] = IF shutdown THEN "ready" ELSE "notify"]
  /\ UNCHANGED <<popper, closer, handed>>

\* cv_.notify_one(): wakes one of the sleeping threads, if there is one.
NotifyOne(p) ==
  /\ pusher[p] = "notify"
  /\ pusher' = [pusher EXCEPT ![p] = "ready"]
  /\ \/ Asleep = {} /\ UNCHANGED popper
     \/ \E c \in Asleep : popper' = [popper EXCEPT ![c] = "woken"]
  /\ UNCHANGED <<queueVars, closer, pushed, handed>>

CallPop(c) ==
  /\ popper[c] = "ready"
  /\ popper' = [popper EXCEPT ![c] = "check"]
  /\ UNCHANGED <<queueVars, pusher, closer, pushed, handed>>

\* The predicate of cv_.wait holds and a job is returned.
PopReturnsJob(c) ==
  /\ popper[c] \in {"check", "woken"}
  /\ \E entry \in queue :
       /\ PopJob(entry)
       /\ handed' = handed \cup {entry}
  /\ popper' = [popper EXCEPT ![c] = "ready"]
  /\ UNCHANGED <<pusher, closer, pushed>>

\* The predicate holds and nullopt is returned; the caller stops popping.
PopReturnsNothing(c) ==
  /\ popper[c] \in {"check", "woken"}
  /\ PopNothing
  /\ popper' = [popper EXCEPT ![c] = "done"]
  /\ UNCHANGED <<pusher, closer, pushed, handed>>

\* Mutant: cv_.wait before the predicate is evaluated.
PopSleepsUnchecked(c) ==
  /\ popper[c] = "check"
  /\ ~shutdown
  /\ popper' = [popper EXCEPT ![c] = "asleep"]
  /\ UNCHANGED <<queueVars, pusher, closer, pushed, handed>>

\* The predicate does not hold.
PopSleeps(c) ==
  /\ popper[c] \in {"check", "woken"}
  /\ ~shutdown
  /\ queue = {}
  /\ popper' = [popper EXCEPT ![c] = "asleep"]
  /\ UNCHANGED <<queueVars, pusher, closer, pushed, handed>>

\* The standard allows a wait to end without a notification.
PopperWakes(c) ==
  /\ popper[c] = "asleep"
  /\ popper' = [popper EXCEPT ![c] = "woken"]
  /\ UNCHANGED <<queueVars, pusher, closer, pushed, handed>>

\* The critical section of shutdown().
ShutdownLocked ==
  /\ closer = "ready"
  /\ closer' = "notify"
  /\ Shutdown
  /\ UNCHANGED <<pusher, popper, pushed, handed>>

\* Mutant: shutdown() calls cv_.notify_one().
NotifyJustOne ==
  /\ closer = "notify"
  /\ closer' = "done"
  /\ \/ Asleep = {} /\ UNCHANGED popper
     \/ \E c \in Asleep : popper' = [popper EXCEPT ![c] = "woken"]
  /\ UNCHANGED <<queueVars, pusher, pushed, handed>>

\* cv_.notify_all()
NotifyAll ==
  /\ closer = "notify"
  /\ closer' = "done"
  /\ popper' = [c \in Poppers |->
                  IF popper[c] = "asleep" THEN "woken" ELSE popper[c]]
  /\ UNCHANGED <<queueVars, pusher, pushed, handed>>

PopStep(c) == PopReturnsJob(c) \/ PopReturnsNothing(c) \/ PopSleeps(c)

\* Shut down, every popper told so and every pusher out of push().
QueueDone ==
  /\ closer = "done"
  /\ \A c \in Poppers : popper[c] = "done"
  /\ \A p \in Pushers : pusher[p] = "ready"
  /\ UNCHANGED queueThreadsVars

QueueThreadsNext ==
  \/ \E p \in Pushers, job \in Jobs : PushLocked(p, job)
  \/ \E p \in Pushers : NotifyOne(p)
  \/ \E c \in Poppers : CallPop(c) \/ PopStep(c) \/ PopperWakes(c)
  \/ ShutdownLocked
  \/ NotifyAll
  \/ QueueDone

\* A thread inside a call goes on, and a popper calls pop() again as the
\* dispatcher's loop does.  Nobody has to push, and nothing depends on the
\* spurious wake-ups.  Shutting down is not forced.
QueueThreadsFairness ==
  /\ \A p \in Pushers : WF_queueThreadsVars(NotifyOne(p))
  /\ \A c \in Poppers : WF_queueThreadsVars(CallPop(c) \/ PopStep(c))
  /\ WF_queueThreadsVars(NotifyAll)

QueueThreadsSpec ==
  QueueThreadsInit /\ [][QueueThreadsNext]_queueThreadsVars /\ QueueThreadsFairness

-----------------------------------------------------------------------------
(* Properties. *)

QueueThreadsTypeOK ==
  /\ QueueTypeOK
  /\ pusher \in [Pushers -> {"ready", "notify"}]
  /\ popper \in [Poppers -> {"ready", "check", "woken", "asleep", "done"}]
  /\ closer \in {"ready", "notify", "done"}
  /\ pushed \in 0 .. MaxPushes
  /\ handed \subseteq QueuedJob

\* No lost wake-up.  While a thread sleeps in pop(), every entry of the queue
\* is matched by a notification still to be sent or by a thread that was woken
\* and has not looked yet; and once the queue is shut down a thread sleeps
\* only until shutdown() has notified.
PopsAreWoken ==
  Asleep # {} =>
    /\ Cardinality(queue) <= Cardinality({p \in Pushers : pusher[p] = "notify"})
                             + Cardinality(Woken)
    /\ shutdown => closer = "notify"

\* "nullopt when queue is shut down and empty" (include/job_queue.hpp): a
\* popper is told to stop only when no job is left and none will come.
StopsOnlyWhenDrained ==
  (\E c \in Poppers : popper[c] = "done") => shutdown /\ queue = {}

\* A job that was accepted is eventually returned by a pop().
AcceptedJobsAreHanded ==
  \A i \in 0 .. MaxPushes - 1 :
    (\E e \in queue : e.sequence = i) ~> (\E e \in handed : e.sequence = i)

\* shutdown() reaches every thread, also those asleep when it is called.
ShutdownReachesPoppers ==
  shutdown ~> \A c \in Poppers : popper[c] = "done"
=============================================================================
