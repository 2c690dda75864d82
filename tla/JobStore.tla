------------------------------ MODULE JobStore ------------------------------
(***************************************************************************)
(* The persistent job table (src/src/job_store.cpp).                       *)
(*                                                                         *)
(* JobStore wraps one SQLite connection.  Every public operation takes     *)
(* mutex_, runs one autocommitted statement and releases the mutex, so     *)
(* each is one atomic action here.  An operation whose statement matches   *)
(* no row throws and changes nothing: Accepts... names the condition under *)
(* which it does not throw.                                                *)
(*                                                                         *)
(* Ids "job-<n>" are the numbers n.  The columns that never change after   *)
(* the INSERT (name, payload, priority, delay_ms, retry_backoff_ms,        *)
(* max_attempts) form the member "spec" of a row.  available_at_ms is the  *)
(* time that remains until the instant it names, NULL for SQL NULL.        *)
(***************************************************************************)
EXTENDS Naturals

CONSTANTS
  MaxJobs,   \* Bound: the largest id that job_id_sequence hands out.
  Specs,     \* The immutable columns callers may ask for.
  Reasons,   \* Texts of failure_reason.
  Results,   \* Texts of result.
  Delays,    \* Remaining times a caller may store in available_at_ms.
  NULL       \* SQL NULL, and the absent value of an optional.

ASSUME StoreAssumption ==
  /\ MaxJobs \in Nat
  /\ Specs \subseteq [priority : Nat, delay : Nat, retryBackoff : Nat,
                      maxAttempts : Nat]
  /\ Delays \subseteq Nat
  /\ NULL \notin Reasons \cup Results \cup Nat

VARIABLES
  rows,       \* The jobs table: a function from the saved ids to their rows.
  nextValue   \* job_id_sequence.next_value.

storeVars == <<rows, nextValue>>

JobIds   == 1 .. MaxJobs
Statuses == {"waiting", "active", "completed", "failed"}

\* The part of an in-memory Job that a carrier of it needs.
Job == [id : JobIds, spec : Specs]

Row == [spec : Specs, status : Statuses, attemptsMade : Nat,
        failureReason : Reasons \cup {NULL}, result : Results \cup {NULL},
        availableAt : Nat \cup {NULL}]

IsTerminal(status) == status \in {"completed", "failed"}

-----------------------------------------------------------------------------
(* The statements. *)

\* initializeSchema on a new database file.
StoreInit ==
  /\ rows = [id \in {} |-> NULL]
  /\ nextValue = 1

\* UPDATE job_id_sequence ... RETURNING next_value - 1: the id handed out is
\* the value of nextValue before the step.
GenerateJobId ==
  /\ nextValue \in JobIds
  /\ nextValue' = nextValue + 1
  /\ UNCHANGED rows

\* INSERT.  maxAttempts = 0 is refused before the statement runs, an id that
\* is already there by the primary key.
AcceptsSave(job) ==
  /\ job.spec.maxAttempts # 0
  /\ job.id \notin DOMAIN rows

\* The statement binds the status, the attempts and the outcome that the Job
\* carries; JobService::add, the only caller, passes one that is fresh.
Save(job, availableAt) ==
  /\ AcceptsSave(job)
  /\ rows' = [id \in DOMAIN rows \cup {job.id} |->
                IF id = job.id
                THEN [spec |-> job.spec, status |-> "waiting",
                      attemptsMade |-> 0, failureReason |-> NULL,
                      result |-> NULL, availableAt |-> availableAt]
                ELSE rows[id]]
  /\ UNCHANGED nextValue

\* Every UPDATE of the jobs table sets all these columns.
UpdateRow(id, status, attemptsMade, failureReason, result, availableAt) ==
  /\ rows' = [rows EXCEPT ![id] =
                [spec |-> rows[id].spec, status |-> status,
                 attemptsMade |-> attemptsMade, failureReason |-> failureReason,
                 result |-> result, availableAt |-> availableAt]]
  /\ UNCHANGED nextValue

\* UPDATE ... WHERE id = ? AND status = 'waiting'
\*            AND attempts_made < max_attempts RETURNING attempts_made
AcceptsStart(id) ==
  /\ id \in DOMAIN rows
  /\ rows[id].status = "waiting"
  /\ rows[id].attemptsMade < rows[id].spec.maxAttempts

\* Mutant: the statement forgets to count.
StartAttemptUncounted(id) ==
  /\ AcceptsStart(id)
  /\ UpdateRow(id, "active", rows[id].attemptsMade, NULL, NULL, NULL)

StartAttempt(id) ==
  /\ AcceptsStart(id)
  /\ UpdateRow(id, "active", rows[id].attemptsMade + 1, NULL, NULL, NULL)

\* UPDATE ... WHERE id = ?: no condition on the status.
AcceptsOutcome(id) == id \in DOMAIN rows

\* Mutant: an earlier failure_reason stays.
MarkCompletedKeepsReason(id, result) ==
  /\ AcceptsOutcome(id)
  /\ UpdateRow(id, "completed", rows[id].attemptsMade, rows[id].failureReason,
               result, NULL)

MarkCompleted(id, result) ==
  /\ AcceptsOutcome(id)
  /\ UpdateRow(id, "completed", rows[id].attemptsMade, NULL, result, NULL)

MarkFailed(id, failureReason) ==
  /\ AcceptsOutcome(id)
  /\ UpdateRow(id, "failed", rows[id].attemptsMade, failureReason, NULL, NULL)

\* Mutant: the statement forgets status = 'active'.
AcceptsWaitingAlways(id) == id \in DOMAIN rows

\* UPDATE ... WHERE id = ? AND status = 'active'
AcceptsWaiting(id) ==
  /\ id \in DOMAIN rows
  /\ rows[id].status = "active"

\* Mutant: a job that waits again starts counting anew.
MarkWaitingRecounts(id, availableAt) ==
  /\ AcceptsWaiting(id)
  /\ UpdateRow(id, "waiting", 0, NULL, NULL, availableAt)

MarkWaiting(id, availableAt) ==
  /\ AcceptsWaiting(id)
  /\ UpdateRow(id, "waiting", rows[id].attemptsMade, NULL, NULL, availableAt)

\* jobFromCurrentRow for the rows with these ids, in no particular order.
ReadBack(ids) ==
  {[job |-> [id |-> id, spec |-> rows[id].spec], status |-> rows[id].status,
    attemptsMade |-> rows[id].attemptsMade,
    availableAt |-> rows[id].availableAt] : id \in ids}

\* Mutant: WHERE status = 'waiting'.
UnfinishedWaiting ==
  ReadBack({id \in DOMAIN rows : rows[id].status = "waiting"})

\* Mutant: no WHERE at all.
UnfinishedAll == ReadBack(DOMAIN rows)

\* SELECT ... WHERE status IN ('waiting', 'active')
Unfinished == ReadBack({id \in DOMAIN rows : ~IsTerminal(rows[id].status)})

-----------------------------------------------------------------------------
(* The table under callers that use it in any order. *)

\* Any statement that changes the jobs table.
StoreWrite ==
  \/ \E id \in 1 .. nextValue - 1, spec \in Specs, at \in Delays \cup {NULL} :
       Save([id |-> id, spec |-> spec], at)
  \/ \E id \in JobIds : StartAttempt(id)
  \/ \E id \in JobIds, result \in Results : MarkCompleted(id, result)
  \/ \E id \in JobIds, reason \in Reasons : MarkFailed(id, reason)
  \/ \E id \in JobIds, at \in Delays \cup {NULL} : MarkWaiting(id, at)

StoreNext == GenerateJobId \/ StoreWrite

StoreSpec == StoreInit /\ [][StoreNext]_storeVars

-----------------------------------------------------------------------------
(* Properties. *)

\* Every row has its type.
StoreTypeOK ==
  /\ rows \in [DOMAIN rows -> Row]
  /\ DOMAIN rows \subseteq JobIds
  /\ nextValue \in 1 .. MaxJobs + 1

\* Whatever order markCompleted, markFailed, markWaiting and startAttempt are
\* called in, even on a job that has already ended, a row carries a result
\* exactly when it is completed, a failure reason exactly when it is failed,
\* and a time to wait for only while it waits.
OutcomeMatchesStatus ==
  \A id \in DOMAIN rows :
    /\ rows[id].result # NULL <=> rows[id].status = "completed"
    /\ rows[id].failureReason # NULL <=> rows[id].status = "failed"
    /\ rows[id].availableAt # NULL => rows[id].status = "waiting"

\* No sequence of calls counts more attempts than the job was saved with.
AttemptsWithinLimit ==
  \A id \in DOMAIN rows :
    /\ rows[id].spec.maxAttempts > 0
    /\ rows[id].attemptsMade <= rows[id].spec.maxAttempts

\* A row outlives every later statement with the columns it was saved with;
\* its count of attempts moves only up, by one, and only by the statement
\* that makes a waiting job active.
AttemptsCountStarts ==
  [][\A id \in DOMAIN rows :
       /\ id \in DOMAIN rows'
       /\ rows'[id].spec = rows[id].spec
       /\ \/ rows'[id].attemptsMade = rows[id].attemptsMade
          \/ /\ rows[id].status = "waiting"
             /\ rows'[id].status = "active"
             /\ rows'[id].attemptsMade = rows[id].attemptsMade + 1]_storeVars
=============================================================================
