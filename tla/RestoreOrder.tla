---------------------------- MODULE RestoreOrder ----------------------------
(***************************************************************************)
(* In which order jobs without a delay start across a restart: requests    *)
(* that overlap (JobService::add), the job queue, and the order in which   *)
(* JobStore::unfinished hands the jobs to restoreUnfinished,               *)
(*     ORDER BY created_at, id                                             *)
(* where created_at counts seconds and id is a TEXT: "job-10" comes before *)
(* "job-9".                                                                *)
(*                                                                         *)
(* A job starts here when it leaves the queue: DispatchOrder shows that    *)
(* the dispatcher and the pool keep the order of equal priorities.  The    *)
(* wall clock is not set back, the process may die at any step.            *)
(***************************************************************************)
EXTENDS Naturals, FiniteSets, Sequences, SequencesExt

CONSTANTS
  RequestThreads,  \* Threads of the HTTP library that serve POST /jobs.
  Specs,           \* The immutable columns of the jobs that are posted.
  Radix,           \* Of the numerals in ids: 10.
  MaxJobs,         \* Bound: jobs posted over all launches.
  MaxSecond,       \* Bound: the clock.
  MaxLaunches,     \* Bound: launches of the program.
  NULL

ASSUME RestoreAssumption ==
  /\ Radix \in Nat \ {0, 1}
  /\ Specs \subseteq [priority : Nat, delay : Nat, retryBackoff : Nat,
                      maxAttempts : Nat]
  /\ MaxJobs \in Nat /\ MaxSecond \in Nat /\ MaxLaunches \in Nat \ {0}

VARIABLES
  rows, nextValue, createdAt,       \* The job table, created_at on its own.
  queue, nextSequence, shutdown,    \* JobQueue.
  request,    \* Each request thread: "idle", or the job it saves or pushes.
  running,    \* The ids of the jobs that left the queue.
  up,         \* Whether there is a process.
  now,        \* CURRENT_TIMESTAMP.
  launches,
  before      \* For each id, the jobs in the table whose requests had ended
              \*   when the id was handed out (history).

INSTANCE JobStore WITH Reasons <- {"exhausted"}, Results <- {"result"},
                       Delays <- {}
INSTANCE JobQueue WITH Jobs <- Job

tableVars    == <<rows, nextValue, createdAt>>
jobQueueVars == <<queue, nextSequence, shutdown>>
historyVars  == <<now, launches, before>>
vars == <<tableVars, jobQueueVars, request, running, up, historyVars>>

Idle == [pc |-> "idle", job |-> NULL]

-----------------------------------------------------------------------------
(* The order of the rows read back. *)

\* The digits of n.
Numeral[n \in Nat] ==
  IF n < Radix THEN <<n>> ELSE Append(Numeral[n \div Radix], n % Radix)

\* The ids as texts, compared byte by byte.
TextBefore(i, j) ==
  LET a == Numeral[i]  b == Numeral[j]
  IN  \/ IsStrictPrefix(a, b)
      \/ \E k \in DOMAIN a \cap DOMAIN b :
           SubSeq(a, 1, k - 1) = SubSeq(b, 1, k - 1) /\ a[k] < b[k]

\* Mutant: ORDER BY id.
ReadBeforeById(i, j) == TextBefore(i, j)

\* ORDER BY created_at, id
ReadBefore(i, j) ==
  \/ createdAt[i] < createdAt[j]
  \/ createdAt[i] = createdAt[j] /\ TextBefore(i, j)

-----------------------------------------------------------------------------
RestoreInit ==
  /\ StoreInit
  /\ createdAt = [id \in {} |-> 0]
  /\ QueueInit
  /\ request = [h \in RequestThreads |-> Idle]
  /\ running = {}
  /\ up = TRUE
  /\ now = 0
  /\ launches = 1
  /\ before = [id \in {} |-> {}]

\* Ids whose requests are still in add().
InAdd == {request[h].job.id : h \in {t \in RequestThreads : request[t].pc # "idle"}}

\* JobService::add takes an id.
TakeId(h, spec) ==
  /\ up
  /\ request[h].pc = "idle"
  /\ GenerateJobId
  /\ request' = [request EXCEPT ![h] =
                   [pc |-> "save", job |-> [id |-> nextValue, spec |-> spec]]]
  /\ before' = [id \in DOMAIN before \cup {nextValue} |->
                  IF id = nextValue THEN DOMAIN rows \ InAdd ELSE before[id]]
  /\ UNCHANGED <<createdAt, jobQueueVars, running, up, now, launches>>

\* save(): the INSERT sets created_at to CURRENT_TIMESTAMP.
SaveJob(h) ==
  /\ request[h].pc = "save"
  /\ Save(request[h].job, NULL)
  /\ createdAt' = [id \in DOMAIN rows' |-> IF id \in DOMAIN rows THEN createdAt[id]
                                           ELSE now]
  /\ request' = [request EXCEPT ![h].pc = "push"]
  /\ UNCHANGED <<jobQueueVars, running, up, historyVars>>

\* queue_.push, and the answer.
PushJob(h) ==
  /\ request[h].pc = "push"
  /\ Push(request[h].job)
  /\ request' = [request EXCEPT ![h] = Idle]
  /\ UNCHANGED <<tableVars, running, up, historyVars>>

\* The job leaves the queue and its attempt is counted.
Start(entry) ==
  /\ PopJob(entry)
  /\ StartAttempt(entry.job.id)
  /\ running' = running \cup {entry.job.id}
  /\ UNCHANGED <<createdAt, request, up, historyVars>>

\* The attempt ends the job; markFailed is alike for the order.
Complete(id) ==
  /\ id \in running
  /\ MarkCompleted(id, "result")
  /\ running' = running \ {id}
  /\ UNCHANGED <<createdAt, jobQueueVars, request, up, historyVars>>

\* The handler asks for a retry, without a backoff: back into the queue.
Retry(id) ==
  /\ id \in running
  /\ rows[id].attemptsMade < rows[id].spec.maxAttempts
  /\ MarkWaiting(id, NULL)
  /\ Push([id |-> id, spec |-> rows[id].spec])
  /\ running' = running \ {id}
  /\ UNCHANGED <<createdAt, request, up, historyVars>>

\* The process dies; what is not in the table is gone.
Crash ==
  /\ up
  /\ up' = FALSE
  /\ queue' = {} /\ nextSequence' = 0 /\ shutdown' = FALSE
  /\ request' = [h \in RequestThreads |-> Idle]
  /\ running' = {}
  /\ UNCHANGED <<tableVars, historyVars>>

\* restoreUnfinished, before any other thread is there: a job with no attempt
\* left fails, every other one waits and is pushed in the order of the rows.
Launch ==
  LET unfinished == {id \in DOMAIN rows : ~IsTerminal(rows[id].status)}
      exhausted  == {id \in unfinished :
                       rows[id].attemptsMade >= rows[id].spec.maxAttempts}
      restored   == unfinished \ exhausted
  IN  /\ ~up /\ launches < MaxLaunches
      /\ rows' = [id \in DOMAIN rows |->
                    CASE id \in exhausted ->
                           [rows[id] EXCEPT !.status = "failed",
                                            !.failureReason = "exhausted"]
                      [] id \in restored -> [rows[id] EXCEPT !.status = "waiting"]
                      [] OTHER -> rows[id]]
      /\ queue' = {[sequence |-> Cardinality({i \in restored : ReadBefore(i, id)}),
                    job |-> [id |-> id, spec |-> rows[id].spec]] : id \in restored}
      /\ nextSequence' = Cardinality(restored)
      /\ up' = TRUE
      /\ launches' = launches + 1
      /\ UNCHANGED <<nextValue, createdAt, shutdown, request, running, now, before>>

Tick ==
  /\ now < MaxSecond
  /\ now' = now + 1
  /\ UNCHANGED <<tableVars, jobQueueVars, request, running, up, launches, before>>

RestoreNext ==
  \/ \E h \in RequestThreads, spec \in Specs : TakeId(h, spec)
  \/ \E h \in RequestThreads : SaveJob(h) \/ PushJob(h)
  \/ \E entry \in queue : Start(entry)
  \/ \E id \in running : Complete(id) \/ Retry(id)
  \/ Crash \/ Launch \/ Tick

RestoreSpec == RestoreInit /\ [][RestoreNext]_vars

-----------------------------------------------------------------------------
(* Properties. *)

RestoreTypeOK ==
  /\ StoreTypeOK
  /\ QueueTypeOK
  /\ createdAt \in [DOMAIN rows -> 0 .. MaxSecond]
  /\ request \in [RequestThreads -> {Idle} \cup [pc : {"save", "push"}, job : Job]]
  /\ running \subseteq DOMAIN rows
  /\ up \in BOOLEAN /\ now \in 0 .. MaxSecond /\ launches \in 1 .. MaxLaunches
  /\ before \in [DOMAIN before -> SUBSET JobIds]

NeverStarted(id) == rows[id].attemptsMade = 0

\* Every variable has its type, and a job whose request had ended before another
\* one began is started first, if their priorities are equal, also when a
\* restart pushes both anew.  The one exception: both were saved within the same
\* second and the later id has more digits, so that the restart reads it first.
SubmissionOrder ==
  /\ []RestoreTypeOK
  /\ [][\A later \in DOMAIN rows : \A earlier \in before[later] :
          ( /\ NeverStarted(earlier) /\ NeverStarted(later)
            /\ rows[earlier].spec.priority = rows[later].spec.priority
            /\ rows'[later].attemptsMade = 1 )
          => /\ launches > 1
             /\ createdAt[earlier] = createdAt[later]
             /\ Len(Numeral[earlier]) < Len(Numeral[later])]_vars
=============================================================================
