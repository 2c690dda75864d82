---------------------------- MODULE JobLifecycle ----------------------------
(***************************************************************************)
(* What the engine promises to whoever posts a job, without a word about   *)
(* queues, threads, processes or tables: a job waits, runs at most as many *)
(* attempts as it was posted with, each begun from waiting, and ends once, *)
(* out of a running attempt.  Only after the storage has failed may a job  *)
(* be given up that still waits.                                           *)
(***************************************************************************)
EXTENDS Naturals

CONSTANTS
  Ids,     \* Names of jobs.
  Limits   \* Numbers of attempts a job may be posted with.

VARIABLES
  jobs,    \* A function from the posted ids to the progress of their jobs.
  errors   \* How often the storage has failed.

lifecycleVars == <<jobs, errors>>

Phases == {"waiting", "active", "completed", "failed"}

LifecycleTypeOK ==
  /\ DOMAIN jobs \subseteq Ids
  /\ jobs \in [DOMAIN jobs -> [phase : Phases, attempts : Nat, limit : Limits]]
  /\ errors \in Nat

\* The job moves to another phase and nothing else changes.
Moves(id, to) == jobs' = [jobs EXCEPT ![id].phase = to] /\ UNCHANGED errors

-----------------------------------------------------------------------------
Post(id, limit) ==
  /\ id \notin DOMAIN jobs
  /\ jobs' = [i \in DOMAIN jobs \cup {id} |->
                IF i = id
                THEN [phase |-> "waiting", attempts |-> 0, limit |-> limit]
                ELSE jobs[i]]
  /\ UNCHANGED errors

Begin(id) ==
  /\ jobs[id].phase = "waiting"
  /\ jobs[id].attempts < jobs[id].limit
  /\ jobs' = [jobs EXCEPT ![id] =
                [phase |-> "active", attempts |-> jobs[id].attempts + 1,
                 limit |-> jobs[id].limit]]
  /\ UNCHANGED errors

Succeed(id) == jobs[id].phase = "active" /\ Moves(id, "completed")

\* Another attempt is given only while one is left.
TryAgain(id) ==
  /\ jobs[id].phase = "active"
  /\ jobs[id].attempts < jobs[id].limit
  /\ Moves(id, "waiting")

GiveUp(id) ==
  /\ jobs[id].phase = "active" \/ (jobs[id].phase = "waiting" /\ errors > 0)
  /\ Moves(id, "failed")

StorageFails == errors' = errors + 1 /\ UNCHANGED jobs

Init == jobs = [id \in {} |-> 0] /\ errors = 0

Next ==
  \/ StorageFails
  \/ \E id \in Ids, limit \in Limits : Post(id, limit)
  \/ \E id \in DOMAIN jobs :
       Begin(id) \/ Succeed(id) \/ TryAgain(id) \/ GiveUp(id)

Spec == Init /\ [][Next]_lifecycleVars
=============================================================================
