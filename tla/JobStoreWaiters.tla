-------------------------- MODULE JobStoreWaiters --------------------------
(***************************************************************************)
(* JobStore::waitUntilFinished and the condition variable cv_ behind it    *)
(* (src/src/job_store.cpp).                                                *)
(*                                                                         *)
(* A writer runs its statement under mutex_, releases the mutex and only   *)
(* then calls cv_.notify_all(): two steps, with other threads in between.  *)
(* A waiter evaluates its predicate, a SELECT, under mutex_ and either     *)
(* returns or goes to sleep in the same critical section.                  *)
(***************************************************************************)
EXTENDS JobStore

CONSTANTS Writers, Waiters   \* Threads.

VARIABLES
  writer,    \* Writers -> "ready" | "notify"
  waiter     \* Waiters -> [pc, id]

waitersVars == <<rows, nextValue, writer, waiter>>

WaiterPc == {"ready", "check", "asleep", "returned", "thrown"}

WaitersInit ==
  /\ StoreInit
  /\ writer = [t \in Writers |-> "ready"]
  /\ waiter = [c \in Waiters |-> [pc |-> "ready", id |-> 1]]

\* The critical section of save, startAttempt, markCompleted, markFailed or
\* markWaiting.  A call that throws changes nothing and notifies nobody.
Write(t) ==
  /\ writer[t] = "ready"
  /\ StoreWrite
  /\ writer' = [writer EXCEPT ![t] = "notify"]
  /\ UNCHANGED waiter

\* generateJobId notifies nobody.
TakeId ==
  /\ GenerateJobId
  /\ UNCHANGED <<writer, waiter>>

Awakened(c) == IF c.pc = "asleep" THEN [c EXCEPT !.pc = "check"] ELSE c

\* Mutant: cv_.notify_one().
NotifyOneWaiter(t) ==
  /\ writer[t] = "notify"
  /\ writer' = [writer EXCEPT ![t] = "ready"]
  /\ \/ /\ \A c \in Waiters : waiter[c].pc # "asleep"
        /\ UNCHANGED waiter
     \/ \E c \in Waiters :
          /\ waiter[c].pc = "asleep"
          /\ waiter' = [waiter EXCEPT ![c] = Awakened(@)]
  /\ UNCHANGED storeVars

\* cv_.notify_all() after the critical section.
NotifyWaiters(t) ==
  /\ writer[t] = "notify"
  /\ writer' = [writer EXCEPT ![t] = "ready"]
  /\ waiter' = [c \in Waiters |-> Awakened(waiter[c])]
  /\ UNCHANGED storeVars

\* A call of waitUntilFinished, for an id that may not be saved yet.
CallWait(c, id) ==
  /\ waiter[c].pc = "ready"
  /\ waiter' = [waiter EXCEPT ![c] = [pc |-> "check", id |-> id]]
  /\ UNCHANGED <<storeVars, writer>>

\* The predicate of cv_.wait.
Finished(id) ==
  /\ id \in DOMAIN rows
  /\ IsTerminal(rows[id].status)

CheckPredicate(c) ==
  /\ waiter[c].pc = "check"
  /\ waiter' = [waiter EXCEPT ![c].pc =
                  IF Finished(waiter[c].id) THEN "returned" ELSE "asleep"]
  /\ UNCHANGED <<storeVars, writer>>

\* The SELECT fails: the exception leaves waitUntilFinished.
CheckThrows(c) ==
  /\ waiter[c].pc = "check"
  /\ waiter' = [waiter EXCEPT ![c].pc = "thrown"]
  /\ UNCHANGED <<storeVars, writer>>

\* The standard allows a wait to end without a notification.
WaiterWakes(c) ==
  /\ waiter[c].pc = "asleep"
  /\ waiter' = [waiter EXCEPT ![c].pc = "check"]
  /\ UNCHANGED <<storeVars, writer>>

WaitersNext ==
  \/ TakeId
  \/ \E t \in Writers : Write(t) \/ NotifyWaiters(t)
  \/ \E c \in Waiters, id \in JobIds : CallWait(c, id)
  \/ \E c \in Waiters : CheckPredicate(c) \/ CheckThrows(c) \/ WaiterWakes(c)

\* A thread that is inside a call goes on; no thread has to start a call, and
\* nothing depends on a spurious wake-up.
WaitersFairness ==
  /\ \A t \in Writers : WF_waitersVars(NotifyWaiters(t))
  /\ \A c \in Waiters : WF_waitersVars(CheckPredicate(c) \/ CheckThrows(c))

WaitersSpec == WaitersInit /\ [][WaitersNext]_waitersVars /\ WaitersFairness

-----------------------------------------------------------------------------
(* Properties. *)

WaitersTypeOK ==
  /\ StoreTypeOK
  /\ writer \in [Writers -> {"ready", "notify"}]
  /\ waiter \in [Waiters -> [pc : WaiterPc, id : JobIds \cup {1}]]

\* Nobody sleeps through the end of the job it waits for: while the job is
\* finished and the waiter asleep, a writer has yet to notify it.
NoMissedEnding ==
  \A c \in Waiters :
    waiter[c].pc = "asleep" /\ Finished(waiter[c].id)
      => \E t \in Writers : writer[t] = "notify"

\* "Blocks until the specified job reaches Completed or Failed"
\* (include/job_store.hpp): after waitUntilFinished returns the job is, and
\* stays, completed or failed.
ReturnsOnlyAtTheEnd ==
  \A c \in Waiters : waiter[c].pc = "returned" => Finished(waiter[c].id)

\* The same comment, read as a promise: every waiter on a job that ends
\* returns, unless its SELECT fails.
WaitersReturn ==
  \A c \in Waiters :
    (waiter[c].pc \in {"check", "asleep"} /\ Finished(waiter[c].id))
      ~> waiter[c].pc \in {"returned", "thrown"}
=============================================================================
