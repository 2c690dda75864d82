--------------------------- MODULE WaitingProofs ---------------------------
(***************************************************************************)
(* Proofs about the three classes whose callers wait on a condition        *)
(* variable.  JobStore: what its statements guarantee on their own,        *)
(* whoever calls them, in whatever order, and what waitUntilFinished       *)
(* promises on top of them (JobStoreWaiters).  JobQueueThreads: no wake-up *)
(* of a thread in pop() is lost, for any number of threads, jobs and       *)
(* pushes.  ThreadPoolThreads: no wake-up is lost on either condition      *)
(* variable, and stop() runs every task that was accepted, for any number  *)
(* of producers, pool threads and tasks.                                   *)
(***************************************************************************)
EXTENDS JobStoreWaiters, JobQueueThreads, ThreadPoolThreads, Counting

-----------------------------------------------------------------------------
(* JobStore and its waiters. *)

\* An UPDATE that sets columns of the right types leaves the table well typed.
LEMMA UpdateType ==
  ASSUME StoreTypeOK, NEW id \in DOMAIN rows,
         NEW status \in Statuses, NEW attempts \in Nat,
         NEW reason \in Reasons \cup {NULL}, NEW result \in Results \cup {NULL},
         NEW at \in Nat \cup {NULL},
         UpdateRow(id, status, attempts, reason, result, at)
  PROVE  StoreTypeOK'
BY DEF StoreTypeOK, UpdateRow, Row

\* So does an INSERT under an id that was handed out.
LEMMA SaveType ==
  ASSUME StoreTypeOK, NEW job \in Job, NEW at \in Nat \cup {NULL},
         Save(job, at)
  PROVE  StoreTypeOK'
PROOF
<1>1. job.id \in JobIds /\ job.spec \in Specs
  BY DEF Job
<1>2. DOMAIN rows' = DOMAIN rows \cup {job.id}
  BY DEF Save
<1>3. ASSUME NEW i \in DOMAIN rows' PROVE rows'[i] \in Row
  BY <1>1, <1>2 DEF Save, StoreTypeOK, Row, Statuses
<1>4. rows' = [i \in DOMAIN rows' |-> rows'[i]]
  BY DEF Save
<1> QED
  BY <1>1, <1>2, <1>3, <1>4 DEF Save, StoreTypeOK

\* Type correctness is kept by every statement.
LEMMA StoreTypeStep == StoreTypeOK /\ [StoreNext]_storeVars => StoreTypeOK'
PROOF
<1> SUFFICES ASSUME StoreTypeOK, [StoreNext]_storeVars PROVE StoreTypeOK'
  OBVIOUS
<1>1. CASE GenerateJobId
  BY <1>1, StoreAssumption DEF GenerateJobId, StoreTypeOK, JobIds
<1>2. ASSUME NEW id \in 1 .. nextValue - 1, NEW spec \in Specs,
             NEW at \in Delays \cup {NULL}, Save([id |-> id, spec |-> spec], at)
      PROVE  StoreTypeOK'
  <2>1. [id |-> id, spec |-> spec] \in Job /\ at \in Nat \cup {NULL}
    BY StoreAssumption DEF StoreTypeOK, JobIds, Job
  <2> QED
    BY <1>2, <2>1, SaveType
<1>3. ASSUME NEW id \in JobIds, StartAttempt(id) PROVE StoreTypeOK'
  <2>1. id \in DOMAIN rows /\ rows[id].attemptsMade + 1 \in Nat
    BY <1>3 DEF StartAttempt, AcceptsStart, StoreTypeOK, Row
  <2> QED
    BY <1>3, <2>1, UpdateType DEF StartAttempt, Statuses
<1>4. ASSUME NEW id \in JobIds, NEW result \in Results,
             MarkCompleted(id, result)
      PROVE  StoreTypeOK'
  <2>1. id \in DOMAIN rows /\ rows[id].attemptsMade \in Nat
    BY <1>4 DEF MarkCompleted, AcceptsOutcome, StoreTypeOK, Row
  <2> QED
    BY <1>4, <2>1, UpdateType DEF MarkCompleted, Statuses
<1>5. ASSUME NEW id \in JobIds, NEW reason \in Reasons, MarkFailed(id, reason)
      PROVE  StoreTypeOK'
  <2>1. id \in DOMAIN rows /\ rows[id].attemptsMade \in Nat
    BY <1>5 DEF MarkFailed, AcceptsOutcome, StoreTypeOK, Row
  <2> QED
    BY <1>5, <2>1, UpdateType DEF MarkFailed, Statuses
<1>6. ASSUME NEW id \in JobIds, NEW at \in Delays \cup {NULL},
             MarkWaiting(id, at)
      PROVE  StoreTypeOK'
  <2>1. /\ id \in DOMAIN rows /\ rows[id].attemptsMade \in Nat
        /\ at \in Nat \cup {NULL}
    BY <1>6, StoreAssumption DEF MarkWaiting, AcceptsWaiting, StoreTypeOK, Row
  <2> QED
    BY <1>6, <2>1, UpdateType DEF MarkWaiting, Statuses
<1>7. CASE UNCHANGED storeVars
  BY <1>7 DEF storeVars, StoreTypeOK
<1> QED
  BY <1>1, <1>2, <1>3, <1>4, <1>5, <1>6, <1>7 DEF StoreNext, StoreWrite

\* The table is well typed at all times, whatever statements run in whatever
\* order: the rows have the columns of their type, under ids of the sequence.
THEOREM StoreIsTyped == StoreSpec => []StoreTypeOK
PROOF
<1>1. StoreInit => StoreTypeOK
  BY StoreAssumption DEF StoreInit, StoreTypeOK
<1> QED
  BY <1>1, StoreTypeStep, PTL DEF StoreSpec

-----------------------------------------------------------------------------
(* Every step of StoreNext is one of four kinds as far as a row is          *)
(* concerned.  The remaining properties follow from this case split.       *)

\* The row of id is the same after the step.
RowKept(id) == rows'[id] = rows[id]

\* The row of id was inserted by the step.
Inserted(id) ==
  /\ id \notin DOMAIN rows
  /\ \E spec \in Specs, at \in Delays \cup {NULL} :
       /\ spec.maxAttempts # 0
       /\ rows'[id] = [spec |-> spec, status |-> "waiting", attemptsMade |-> 0,
                       failureReason |-> NULL, result |-> NULL,
                       availableAt |-> at]

\* The step began an attempt of id.
Started(id) ==
  /\ AcceptsStart(id)
  /\ rows'[id] = [spec |-> rows[id].spec, status |-> "active",
                  attemptsMade |-> rows[id].attemptsMade + 1,
                  failureReason |-> NULL, result |-> NULL, availableAt |-> NULL]

\* The step recorded an outcome of id.
Recorded(id) ==
  \E status \in Statuses, reason \in Reasons \cup {NULL},
     result \in Results \cup {NULL}, at \in Delays \cup {NULL} :
    /\ status # "active"
    /\ status = "waiting" => rows[id].status = "active"
    /\ result # NULL <=> status = "completed"
    /\ reason # NULL <=> status = "failed"
    /\ at # NULL => status = "waiting"
    /\ rows'[id] = [spec |-> rows[id].spec, status |-> status,
                    attemptsMade |-> rows[id].attemptsMade,
                    failureReason |-> reason, result |-> result,
                    availableAt |-> at]

\* No row is deleted, and every row is kept, inserted, started or recorded.
LEMMA StepsOnRows ==
  ASSUME StoreTypeOK, [StoreNext]_storeVars
  PROVE  /\ DOMAIN rows \subseteq DOMAIN rows'
         /\ \A i \in DOMAIN rows' :
              \/ Inserted(i)
              \/ i \in DOMAIN rows /\ (RowKept(i) \/ Started(i) \/ Recorded(i))
PROOF
<1> DEFINE Goal == /\ DOMAIN rows \subseteq DOMAIN rows'
                   /\ \A i \in DOMAIN rows' :
                        \/ Inserted(i)
                        \/ i \in DOMAIN rows /\ (RowKept(i) \/ Started(i) \/ Recorded(i))
<1>1. CASE GenerateJobId
  BY <1>1 DEF GenerateJobId, RowKept
<1>2. ASSUME NEW id \in 1 .. nextValue - 1, NEW spec \in Specs,
             NEW at \in Delays \cup {NULL}, Save([id |-> id, spec |-> spec], at)
      PROVE  Goal
  BY <1>2 DEF Save, AcceptsSave, Inserted, RowKept
<1>3. ASSUME NEW id \in JobIds, StartAttempt(id) PROVE Goal
  <2>1. id \in DOMAIN rows /\ Started(id)
    BY <1>3 DEF StartAttempt, UpdateRow, Started, AcceptsStart, StoreTypeOK
  <2>2. DOMAIN rows' = DOMAIN rows /\ \A i \in DOMAIN rows \ {id} : RowKept(i)
    BY <1>3 DEF StartAttempt, UpdateRow, RowKept, StoreTypeOK
  <2> QED
    BY <2>1, <2>2
<1>4. ASSUME NEW id \in JobIds, NEW result \in Results,
             MarkCompleted(id, result)
      PROVE  Goal
  <2>1. id \in DOMAIN rows /\ Recorded(id)
    BY <1>4, StoreAssumption
    DEF MarkCompleted, AcceptsOutcome, UpdateRow, Recorded, Statuses, StoreTypeOK
  <2>2. DOMAIN rows' = DOMAIN rows /\ \A i \in DOMAIN rows \ {id} : RowKept(i)
    BY <1>4 DEF MarkCompleted, UpdateRow, RowKept, StoreTypeOK
  <2> QED
    BY <2>1, <2>2
<1>5. ASSUME NEW id \in JobIds, NEW reason \in Reasons, MarkFailed(id, reason)
      PROVE  Goal
  <2>1. id \in DOMAIN rows /\ Recorded(id)
    BY <1>5, StoreAssumption
    DEF MarkFailed, AcceptsOutcome, UpdateRow, Recorded, Statuses, StoreTypeOK
  <2>2. DOMAIN rows' = DOMAIN rows /\ \A i \in DOMAIN rows \ {id} : RowKept(i)
    BY <1>5 DEF MarkFailed, UpdateRow, RowKept, StoreTypeOK
  <2> QED
    BY <2>1, <2>2
<1>6. ASSUME NEW id \in JobIds, NEW at \in Delays \cup {NULL},
             MarkWaiting(id, at)
      PROVE  Goal
  <2>1. id \in DOMAIN rows /\ Recorded(id)
    BY <1>6
    DEF MarkWaiting, AcceptsWaiting, UpdateRow, Recorded, Statuses, StoreTypeOK
  <2>2. DOMAIN rows' = DOMAIN rows /\ \A i \in DOMAIN rows \ {id} : RowKept(i)
    BY <1>6 DEF MarkWaiting, UpdateRow, RowKept, StoreTypeOK
  <2> QED
    BY <2>1, <2>2
<1>7. CASE UNCHANGED storeVars
  BY <1>7 DEF storeVars, RowKept
<1> QED
  BY <1>1, <1>2, <1>3, <1>4, <1>5, <1>6, <1>7 DEF StoreNext, StoreWrite

\* However the statements follow each other, a result, a failure reason and a
\* time to wait for are there exactly in the statuses they belong to.
THEOREM OutcomesAreConsistent == StoreSpec => []OutcomeMatchesStatus
PROOF
<1>1. StoreInit => OutcomeMatchesStatus
  BY DEF StoreInit, OutcomeMatchesStatus
<1>2. ASSUME StoreTypeOK, OutcomeMatchesStatus, [StoreNext]_storeVars
      PROVE  OutcomeMatchesStatus'
  <2> SUFFICES ASSUME NEW i \in DOMAIN rows'
               PROVE  /\ rows'[i].result # NULL <=> rows'[i].status = "completed"
                      /\ rows'[i].failureReason # NULL <=> rows'[i].status = "failed"
                      /\ rows'[i].availableAt # NULL => rows'[i].status = "waiting"
    BY DEF OutcomeMatchesStatus
  <2>1. CASE Inserted(i)
    BY <2>1 DEF Inserted
  <2>2. CASE i \in DOMAIN rows /\ RowKept(i)
    BY <1>2, <2>2 DEF RowKept, OutcomeMatchesStatus
  <2>3. CASE Started(i)
    BY <2>3 DEF Started
  <2>4. CASE Recorded(i)
    BY <2>4 DEF Recorded
  <2> QED
    BY <1>2, <2>1, <2>2, <2>3, <2>4, StepsOnRows
<1> QED
  BY <1>1, <1>2, StoreIsTyped, PTL DEF StoreSpec

\* No row ever counts more attempts than its job was saved with, whatever its
\* limit is and whatever statements race for it.
THEOREM AttemptsStayWithinLimit == StoreSpec => []AttemptsWithinLimit
PROOF
<1>1. StoreInit => AttemptsWithinLimit
  BY DEF StoreInit, AttemptsWithinLimit
<1>2. ASSUME StoreTypeOK, AttemptsWithinLimit, [StoreNext]_storeVars
      PROVE  AttemptsWithinLimit'
  <2> SUFFICES ASSUME NEW i \in DOMAIN rows'
               PROVE  /\ rows'[i].spec.maxAttempts > 0
                      /\ rows'[i].attemptsMade <= rows'[i].spec.maxAttempts
    BY DEF AttemptsWithinLimit
  <2>1. CASE Inserted(i)
    BY <2>1, StoreAssumption DEF Inserted
  <2>2. CASE i \in DOMAIN rows /\ RowKept(i)
    BY <1>2, <2>2 DEF RowKept, AttemptsWithinLimit
  <2>3. CASE i \in DOMAIN rows /\ Started(i)
    <3>1. rows[i].spec.maxAttempts \in Nat /\ rows[i].attemptsMade \in Nat
      BY <1>2, <2>3, StoreAssumption DEF StoreTypeOK, Row
    <3> QED
      BY <1>2, <2>3, <3>1 DEF Started, AcceptsStart, AttemptsWithinLimit
  <2>4. CASE i \in DOMAIN rows /\ Recorded(i)
    BY <1>2, <2>4 DEF Recorded, AttemptsWithinLimit
  <2> QED
    BY <1>2, <2>1, <2>2, <2>3, <2>4, StepsOnRows
<1> QED
  BY <1>1, <1>2, StoreIsTyped, PTL DEF StoreSpec

\* The count of attempts is a count of starts: it never moves without a
\* waiting row becoming active, and no statement changes what was saved.
THEOREM AttemptsAreStarts == StoreSpec => AttemptsCountStarts
PROOF
<1> DEFINE Counts ==
      \A id \in DOMAIN rows :
        /\ id \in DOMAIN rows'
        /\ rows'[id].spec = rows[id].spec
        /\ \/ rows'[id].attemptsMade = rows[id].attemptsMade
           \/ /\ rows[id].status = "waiting"
              /\ rows'[id].status = "active"
              /\ rows'[id].attemptsMade = rows[id].attemptsMade + 1
<1>1. ASSUME StoreTypeOK, [StoreNext]_storeVars PROVE Counts
  <2> SUFFICES ASSUME NEW i \in DOMAIN rows
               PROVE  /\ i \in DOMAIN rows'
                      /\ rows'[i].spec = rows[i].spec
                      /\ \/ rows'[i].attemptsMade = rows[i].attemptsMade
                         \/ /\ rows[i].status = "waiting"
                            /\ rows'[i].status = "active"
                            /\ rows'[i].attemptsMade = rows[i].attemptsMade + 1
    OBVIOUS
  <2>1. i \in DOMAIN rows' /\ ~Inserted(i)
    BY <1>1, StepsOnRows DEF Inserted
  <2>2. CASE RowKept(i)
    BY <2>1, <2>2 DEF RowKept
  <2>3. CASE Started(i)
    BY <2>1, <2>3 DEF Started, AcceptsStart
  <2>4. CASE Recorded(i)
    BY <2>1, <2>4 DEF Recorded
  <2> QED
    BY <1>1, <2>1, <2>2, <2>3, <2>4, StepsOnRows
<1>2. StoreSpec => [][Counts]_storeVars
  BY <1>1, StoreIsTyped, PTL DEF StoreSpec
<1> QED
  BY <1>2 DEF AttemptsCountStarts

-----------------------------------------------------------------------------
(* waitUntilFinished. *)

\* A critical section of a writer or of a waiter is a step of the table or none
\* at all.
LEMMA WaitersStepIsStoreStep == [WaitersNext]_waitersVars => [StoreNext]_storeVars
PROOF
<1> SUFFICES ASSUME [WaitersNext]_waitersVars PROVE [StoreNext]_storeVars
  OBVIOUS
<1>1. CASE TakeId
  BY <1>1 DEF TakeId, StoreNext
<1>2. ASSUME NEW t \in Writers, Write(t) PROVE StoreNext
  BY <1>2 DEF Write, StoreNext
<1>3. ASSUME NEW t \in Writers, NotifyWaiters(t) PROVE UNCHANGED storeVars
  BY <1>3 DEF NotifyWaiters
<1>4. ASSUME NEW c \in Waiters,
             \/ \E id \in JobIds : CallWait(c, id)
             \/ CheckPredicate(c) \/ CheckThrows(c) \/ WaiterWakes(c)
      PROVE  UNCHANGED storeVars
  BY <1>4 DEF CallWait, CheckPredicate, CheckThrows, WaiterWakes, storeVars
<1>5. CASE UNCHANGED waitersVars
  BY <1>5 DEF waitersVars, storeVars
<1> QED
  BY <1>1, <1>2, <1>3, <1>4, <1>5 DEF WaitersNext

\* The table with its writers and waiters implements the table alone: what was
\* proved of the one holds of the other.
THEOREM WaitersUseTheStore == WaitersSpec => StoreSpec
PROOF
<1>1. WaitersInit => StoreInit
  BY DEF WaitersInit
<1> QED
  BY <1>1, WaitersStepIsStoreStep, PTL DEF WaitersSpec, StoreSpec

\* The inductive invariant of the waiters.
WaitersInv == WaitersTypeOK /\ NoMissedEnding /\ ReturnsOnlyAtTheEnd

\* A new table nobody waits on satisfies the invariant.
LEMMA WaitersInvInit == WaitersInit => WaitersInv
PROOF
<1> SUFFICES ASSUME WaitersInit PROVE WaitersInv
  OBVIOUS
<1>1. StoreTypeOK
  <2>1. nextValue \in 1 .. MaxJobs + 1
    BY StoreAssumption DEF WaitersInit, StoreInit
  <2>2. DOMAIN rows = {} /\ rows = [id \in {} |-> NULL]
    BY DEF WaitersInit, StoreInit
  <2> QED
    BY <2>1, <2>2 DEF StoreTypeOK
<1>2. WaitersTypeOK
  BY <1>1 DEF WaitersInit, WaitersTypeOK, WaiterPc
<1>3. NoMissedEnding /\ ReturnsOnlyAtTheEnd
  BY DEF WaitersInit, NoMissedEnding, ReturnsOnlyAtTheEnd
<1> QED
  BY <1>2, <1>3 DEF WaitersInv

\* A job that has ended stays ended: markCompleted and markFailed may exchange
\* one end for the other, and no other statement matches its row.
LEMMA EndsStay ==
  ASSUME StoreTypeOK, [StoreNext]_storeVars, NEW id, Finished(id)
  PROVE  Finished(id)'
PROOF
<1>1. id \in DOMAIN rows /\ IsTerminal(rows[id].status)
  BY DEF Finished
<1>2. id \in DOMAIN rows' /\ ~Inserted(id)
  BY <1>1, StepsOnRows DEF Inserted
<1>3. CASE RowKept(id)
  BY <1>1, <1>2, <1>3 DEF RowKept, Finished
<1>4. CASE Started(id)
  BY <1>1, <1>4 DEF Started, AcceptsStart, IsTerminal
<1>5. CASE Recorded(id)
  <2>1. PICK status \in Statuses :
          /\ rows'[id].status = status /\ status # "active"
          /\ status = "waiting" => rows[id].status = "active"
    BY <1>5 DEF Recorded
  <2> QED
    BY <1>1, <1>2, <2>1 DEF Finished, IsTerminal, Statuses
<1> QED
  BY <1>1, <1>2, <1>3, <1>4, <1>5, StepsOnRows

\* Every step keeps the invariant: a row that becomes terminal leaves its writer
\* still to notify.
LEMMA WaitersInvStep == WaitersInv /\ [WaitersNext]_waitersVars => WaitersInv'
PROOF
<1> SUFFICES ASSUME WaitersInv, [WaitersNext]_waitersVars PROVE WaitersInv'
  OBVIOUS
<1>a. /\ StoreTypeOK /\ StoreTypeOK' /\ NoMissedEnding /\ ReturnsOnlyAtTheEnd
      /\ writer \in [Writers -> {"ready", "notify"}]
      /\ waiter \in [Waiters -> [pc : WaiterPc, id : JobIds \cup {1}]]
  BY WaitersStepIsStoreStep, StoreTypeStep DEF WaitersInv, WaitersTypeOK
<1>b. \A id : Finished(id) => Finished(id)'
  BY <1>a, WaitersStepIsStoreStep, EndsStay
<1>c. UNCHANGED rows => \A id : Finished(id)' <=> Finished(id)
  BY DEF Finished
<1> USE DEF WaitersInv, WaitersTypeOK
<1>1. CASE TakeId
  <2>1. UNCHANGED <<rows, writer, waiter>>
    BY <1>1 DEF TakeId, GenerateJobId
  <2> QED
    BY <1>a, <1>c, <2>1 DEF NoMissedEnding, ReturnsOnlyAtTheEnd
<1>2. ASSUME NEW t \in Writers, Write(t) PROVE WaitersInv'
  <2>1. writer' = [writer EXCEPT ![t] = "notify"] /\ waiter' = waiter
    BY <1>2 DEF Write
  <2>2. writer'[t] = "notify"
    BY <1>a, <2>1
  <2> QED
    BY <1>a, <1>b, <2>1, <2>2 DEF NoMissedEnding, ReturnsOnlyAtTheEnd
<1>3. ASSUME NEW t \in Writers, NotifyWaiters(t) PROVE WaitersInv'
  <2>1. /\ writer' = [writer EXCEPT ![t] = "ready"]
        /\ waiter' = [c \in Waiters |-> Awakened(waiter[c])] /\ UNCHANGED rows
    BY <1>3 DEF NotifyWaiters, storeVars
  <2>2. ASSUME NEW c \in Waiters
        PROVE  /\ waiter'[c] \in [pc : WaiterPc, id : JobIds \cup {1}]
               /\ waiter'[c].pc # "asleep" /\ waiter'[c].id = waiter[c].id
               /\ waiter'[c].pc = "returned" => waiter[c].pc = "returned"
    BY <1>a, <2>1 DEF Awakened, WaiterPc
  <2>3. WaitersTypeOK'
    BY <1>a, <2>1, <2>2
  <2>4. NoMissedEnding'
    BY <2>2 DEF NoMissedEnding
  <2>5. ReturnsOnlyAtTheEnd'
    BY <1>a, <1>c, <2>1, <2>2 DEF ReturnsOnlyAtTheEnd
  <2> QED
    BY <2>3, <2>4, <2>5
<1>4. ASSUME NEW c \in Waiters, NEW id \in JobIds, CallWait(c, id)
      PROVE  WaitersInv'
  <2>1. UNCHANGED <<rows, writer>>
        /\ waiter' = [waiter EXCEPT ![c] = [pc |-> "check", id |-> id]]
    BY <1>4 DEF CallWait, storeVars
  <2>2. WaitersTypeOK'
    BY <1>a, <2>1 DEF WaiterPc
  <2>3. NoMissedEnding' /\ ReturnsOnlyAtTheEnd'
    BY <1>a, <1>c, <2>1 DEF NoMissedEnding, ReturnsOnlyAtTheEnd
  <2> QED
    BY <2>2, <2>3
\* The predicate and the decision to sleep are one critical section.
<1>5. ASSUME NEW c \in Waiters, CheckPredicate(c) PROVE WaitersInv'
  <2>1. /\ UNCHANGED <<rows, writer>>
        /\ waiter' = [waiter EXCEPT ![c].pc =
                        IF Finished(waiter[c].id) THEN "returned" ELSE "asleep"]
    BY <1>5 DEF CheckPredicate, storeVars
  <2>2. WaitersTypeOK'
    BY <1>a, <2>1 DEF WaiterPc
  <2>3. NoMissedEnding' /\ ReturnsOnlyAtTheEnd'
    BY <1>a, <1>c, <2>1 DEF NoMissedEnding, ReturnsOnlyAtTheEnd
  <2> QED
    BY <2>2, <2>3
<1>6. ASSUME NEW c \in Waiters, WaiterWakes(c) PROVE WaitersInv'
  <2>1. /\ UNCHANGED <<rows, writer>>
        /\ waiter' = [waiter EXCEPT ![c].pc = "check"]
    BY <1>6 DEF WaiterWakes, storeVars
  <2>2. WaitersTypeOK'
    BY <1>a, <2>1 DEF WaiterPc
  <2>3. NoMissedEnding' /\ ReturnsOnlyAtTheEnd'
    BY <1>a, <1>c, <2>1 DEF NoMissedEnding, ReturnsOnlyAtTheEnd
  <2> QED
    BY <2>2, <2>3
\* A waiter that leaves with the exception neither sleeps nor has returned.
<1>7. ASSUME NEW c \in Waiters, CheckThrows(c) PROVE WaitersInv'
  <2>1. /\ UNCHANGED <<rows, writer>>
        /\ waiter' = [waiter EXCEPT ![c].pc = "thrown"]
    BY <1>7 DEF CheckThrows, storeVars
  <2>2. WaitersTypeOK'
    BY <1>a, <2>1 DEF WaiterPc
  <2>3. NoMissedEnding' /\ ReturnsOnlyAtTheEnd'
    BY <1>a, <1>c, <2>1 DEF NoMissedEnding, ReturnsOnlyAtTheEnd
  <2> QED
    BY <2>2, <2>3
<1>8. CASE UNCHANGED waitersVars
  BY <1>a, <1>c, <1>8 DEF waitersVars, NoMissedEnding, ReturnsOnlyAtTheEnd
<1> QED
  BY <1>1, <1>2, <1>3, <1>4, <1>5, <1>6, <1>7, <1>8 DEF WaitersNext

\* The table, its writers and its waiters are well typed.
THEOREM WaitersAreTyped == WaitersSpec => []WaitersTypeOK
PROOF
<1>1. WaitersInv => WaitersTypeOK
  BY DEF WaitersInv
<1> QED
  BY <1>1, WaitersInvInit, WaitersInvStep, PTL DEF WaitersSpec

\* Nobody sleeps through the end of its job, although the writer notifies after
\* it has released the mutex.
THEOREM NoEndingIsMissed == WaitersSpec => []NoMissedEnding
PROOF
<1>1. WaitersInv => NoMissedEnding
  BY DEF WaitersInv
<1> QED
  BY <1>1, WaitersInvInit, WaitersInvStep, PTL DEF WaitersSpec

\* When waitUntilFinished has returned, the job has ended for good.
THEOREM WaitsReturnAtTheEnd == WaitersSpec => []ReturnsOnlyAtTheEnd
PROOF
<1>1. WaitersInv => ReturnsOnlyAtTheEnd
  BY DEF WaitersInv
<1> QED
  BY <1>1, WaitersInvInit, WaitersInvStep, PTL DEF WaitersSpec

-----------------------------------------------------------------------------
(* JobQueue: the inductive invariant. *)

Notifying == {p \in Pushers : pusher[p] = "notify"}

\* The inductive invariant.  The counting argument of PopsAreWoken needs the
\* sets it counts to be finite, and StopsOnlyWhenDrained that a queue which was
\* shut down is never filled again.
QueueInv ==
  /\ QueueThreadsTypeOK
  /\ IsFiniteSet(queue)
  /\ PopsAreWoken
  /\ StopsOnlyWhenDrained

\* An empty queue with no thread inside a call satisfies the invariant.
LEMMA QueueInvInit == QueueThreadsInit => QueueInv
PROOF
<1> SUFFICES ASSUME QueueThreadsInit PROVE QueueInv
  OBVIOUS
<1>1. QueueThreadsTypeOK
  <2>1. pushed \in 0 .. MaxPushes
    BY QueueThreadsAssumption DEF QueueThreadsInit
  <2> QED
    BY <2>1 DEF QueueThreadsInit, QueueInit, QueueThreadsTypeOK, QueueTypeOK
<1>2. IsFiniteSet(queue)
  BY FS_EmptySet DEF QueueThreadsInit, QueueInit
<1>3. \A c \in Poppers : popper[c] = "ready"
  BY DEF QueueThreadsInit
<1>4. PopsAreWoken /\ StopsOnlyWhenDrained
  BY <1>3 DEF PopsAreWoken, StopsOnlyWhenDrained, Asleep, Woken
<1> QED
  BY <1>1, <1>2, <1>4 DEF QueueInv

-----------------------------------------------------------------------------
(* JobQueue: type correctness. *)

\* No step leaves the types.
LEMMA QueueTypeStep ==
  QueueThreadsTypeOK /\ [QueueThreadsNext]_queueThreadsVars => QueueThreadsTypeOK'
PROOF
<1> SUFFICES ASSUME QueueThreadsTypeOK, [QueueThreadsNext]_queueThreadsVars
             PROVE  QueueThreadsTypeOK'
  OBVIOUS
<1> USE DEF QueueThreadsTypeOK, QueueTypeOK
<1>1. ASSUME NEW p \in Pushers, NEW job \in Jobs, PushLocked(p, job)
      PROVE  QueueThreadsTypeOK'
  <2>1. [sequence |-> nextSequence, job |-> job] \in QueuedJob
    BY DEF QueuedJob
  <2>2. pushed' \in 0 .. MaxPushes
    BY <1>1, QueueThreadsAssumption DEF PushLocked
  <2>3. CASE shutdown
    BY <1>1, <2>2, <2>3 DEF PushLocked, Push
  <2>4. CASE ~shutdown
    BY <1>1, <2>1, <2>2, <2>4 DEF PushLocked, Push
  <2> QED
    BY <2>3, <2>4
<1>2. ASSUME NEW p \in Pushers, NotifyOne(p) PROVE QueueThreadsTypeOK'
  BY <1>2 DEF NotifyOne, Asleep, queueVars
<1>3. ASSUME NEW c \in Poppers, CallPop(c) PROVE QueueThreadsTypeOK'
  BY <1>3 DEF CallPop, queueVars
<1>4. ASSUME NEW c \in Poppers, PopReturnsJob(c) PROVE QueueThreadsTypeOK'
  BY <1>4 DEF PopReturnsJob, PopJob, IsTop
<1>5. ASSUME NEW c \in Poppers, PopReturnsNothing(c) PROVE QueueThreadsTypeOK'
  BY <1>5 DEF PopReturnsNothing, PopNothing
<1>6. ASSUME NEW c \in Poppers, PopSleeps(c) PROVE QueueThreadsTypeOK'
  BY <1>6 DEF PopSleeps, queueVars
<1>7. ASSUME NEW c \in Poppers, PopperWakes(c) PROVE QueueThreadsTypeOK'
  BY <1>7 DEF PopperWakes, queueVars
<1>8. CASE ShutdownLocked
  BY <1>8 DEF ShutdownLocked, Shutdown
<1>9. CASE NotifyAll
  BY <1>9 DEF NotifyAll, queueVars
<1>10. CASE UNCHANGED queueThreadsVars
  BY <1>10 DEF queueThreadsVars
<1> QED
  BY <1>1, <1>2, <1>3, <1>4, <1>5, <1>6, <1>7, <1>8, <1>9, <1>10
  DEF QueueThreadsNext, PopStep, QueueDone

-----------------------------------------------------------------------------
(* JobQueue: the counting argument. *)

\* The sets that are counted are finite.
LEMMA QueueFinite ==
  ASSUME QueueInv
  PROVE  /\ IsFiniteSet(Notifying) /\ IsFiniteSet(Woken) /\ IsFiniteSet(queue)
         /\ Cardinality(Notifying) \in Nat /\ Cardinality(Woken) \in Nat
         /\ Cardinality(queue) \in Nat
PROOF
<1>1. Notifying \in SUBSET Pushers /\ Woken \in SUBSET Poppers
  BY DEF Notifying, Woken
<1>2. IsFiniteSet(Notifying) /\ IsFiniteSet(Woken)
  BY <1>1, FS_Subset, QueueThreadsAssumption
<1> QED
  BY <1>2, FS_CardinalityType DEF QueueInv

\* Every step keeps each accepted job matched by a notification or a thread
\* that was woken.
LEMMA PopsAreWokenStep ==
  QueueInv /\ [QueueThreadsNext]_queueThreadsVars => PopsAreWoken' /\ IsFiniteSet(queue')
PROOF
<1> SUFFICES ASSUME QueueInv, [QueueThreadsNext]_queueThreadsVars
             PROVE  PopsAreWoken' /\ IsFiniteSet(queue')
  OBVIOUS
<1> USE QueueFinite
<1> DEFINE Goal == PopsAreWoken' /\ IsFiniteSet(queue')
<1>a. PopsAreWoken' <=>
        (Asleep' # {} =>
           /\ Cardinality(queue') <= Cardinality(Notifying') + Cardinality(Woken')
           /\ shutdown' => closer' = "notify")
  BY DEF PopsAreWoken, Notifying
<1>b. Asleep # {} =>
           /\ Cardinality(queue) <= Cardinality(Notifying) + Cardinality(Woken)
           /\ shutdown => closer = "notify"
  BY DEF PopsAreWoken, Notifying, QueueInv
<1>1. ASSUME NEW p \in Pushers, NEW job \in Jobs, PushLocked(p, job) PROVE Goal
  <2>1. Asleep' = Asleep /\ Woken' = Woken
    BY <1>1 DEF PushLocked, Asleep, Woken
  <2>2. CASE shutdown
    <3>1. queue' = queue /\ shutdown' = shutdown /\ closer' = closer
          /\ pusher' = pusher
      BY <1>1, <2>2 DEF PushLocked, Push, QueueInv, QueueThreadsTypeOK
    <3>2. Notifying' = Notifying
      BY <3>1 DEF Notifying
    <3> QED
      BY <1>a, <1>b, <2>1, <3>1, <3>2
  <2>3. CASE ~shutdown
    <3>1. /\ queue' = queue \cup {[sequence |-> nextSequence, job |-> job]}
          /\ shutdown' = shutdown
      BY <1>1, <2>3 DEF PushLocked, Push
    <3>2. Notifying' = Notifying \cup {p} /\ p \notin Notifying
      BY <1>1, <2>3 DEF PushLocked, Notifying, QueueInv, QueueThreadsTypeOK
    <3>3. /\ IsFiniteSet(queue') /\ Cardinality(queue') \in Nat
          /\ Cardinality(queue') <= Cardinality(queue) + 1
      BY <3>1, CountMore
    <3>4. Cardinality(Notifying') = Cardinality(Notifying) + 1
      BY <3>2, CountMore
    <3> QED
      BY <1>a, <1>b, <2>1, <2>3, <3>1, <3>3, <3>4
  <2> QED
    BY <2>2, <2>3
<1>2. ASSUME NEW p \in Pushers, NotifyOne(p) PROVE Goal
  <2>1. queue' = queue /\ shutdown' = shutdown /\ closer' = closer
    BY <1>2 DEF NotifyOne, queueVars
  <2>2. Notifying' = Notifying \ {p} /\ p \in Notifying
    BY <1>2 DEF NotifyOne, Notifying, QueueInv, QueueThreadsTypeOK
  <2>3. Cardinality(Notifying') = Cardinality(Notifying) - 1
    BY <2>2, CountLess
  <2>4. CASE Asleep = {} /\ UNCHANGED popper
    BY <1>a, <2>1, <2>4 DEF Asleep
  <2>5. ASSUME NEW c \in Asleep, popper' = [popper EXCEPT ![c] = "woken"]
        PROVE  Goal
    <3>1. Woken' = Woken \cup {c} /\ c \notin Woken
      BY <2>5 DEF Woken, Asleep, QueueInv, QueueThreadsTypeOK
    <3>2. Cardinality(Woken') = Cardinality(Woken) + 1
      BY <3>1, CountMore
    <3> QED
      BY <1>a, <1>b, <2>1, <2>3, <2>5, <3>2
  <2>6. \/ Asleep = {} /\ UNCHANGED popper
        \/ \E c \in Asleep : popper' = [popper EXCEPT ![c] = "woken"]
    BY <1>2 DEF NotifyOne
  <2> QED
    BY <2>4, <2>5, <2>6
<1>3. ASSUME NEW c \in Poppers, CallPop(c) PROVE Goal
  <2>1. UNCHANGED <<queue, shutdown, closer, pusher>>
    BY <1>3 DEF CallPop, queueVars
  <2>2. Asleep' = Asleep /\ Woken' = Woken /\ Notifying' = Notifying
    BY <1>3, <2>1 DEF CallPop, Asleep, Woken, Notifying, QueueInv, QueueThreadsTypeOK
  <2> QED
    BY <1>a, <1>b, <2>1, <2>2
<1>4. ASSUME NEW c \in Poppers, PopReturnsJob(c) PROVE Goal
  <2>1. PICK entry \in queue : PopJob(entry)
    BY <1>4 DEF PopReturnsJob
  <2>2. queue' = queue \ {entry} /\ UNCHANGED <<shutdown, closer, pusher>>
    BY <1>4, <2>1 DEF PopJob, PopReturnsJob
  <2>3. /\ IsFiniteSet(queue') /\ Cardinality(queue') = Cardinality(queue) - 1
    BY <2>2, CountLess
  <2>4. Asleep' = Asleep /\ Woken' = Woken \ {c} /\ Notifying' = Notifying
    BY <1>4, <2>2
    DEF PopReturnsJob, Asleep, Woken, Notifying, QueueInv, QueueThreadsTypeOK
  <2>5. Cardinality(Woken') >= Cardinality(Woken) - 1 /\ Cardinality(Woken') \in Nat
    BY <2>4, CountLess
  <2> QED
    BY <1>a, <1>b, <2>2, <2>3, <2>4, <2>5
<1>5. ASSUME NEW c \in Poppers, PopReturnsNothing(c) PROVE Goal
  <2>1. queue = {} /\ UNCHANGED <<queue, shutdown, closer, pusher>>
    BY <1>5 DEF PopReturnsNothing, PopNothing
  <2>2. Asleep' = Asleep /\ Woken' = Woken \ {c} /\ Notifying' = Notifying
    BY <1>5, <2>1
    DEF PopReturnsNothing, Asleep, Woken, Notifying, QueueInv, QueueThreadsTypeOK
  <2>3. Cardinality(Woken') \in Nat /\ Cardinality(queue') = 0
    BY <2>1, <2>2, CountLess, FS_EmptySet
  <2> QED
    BY <1>a, <1>b, <2>1, <2>2, <2>3
<1>6. ASSUME NEW c \in Poppers, PopSleeps(c) PROVE Goal
  <2>1. queue = {} /\ ~shutdown /\ UNCHANGED <<queue, shutdown, closer, pusher>>
    BY <1>6 DEF PopSleeps, queueVars
  <2>2. Woken' = Woken \ {c} /\ Notifying' = Notifying
    BY <1>6, <2>1 DEF PopSleeps, Woken, Notifying, QueueInv, QueueThreadsTypeOK
  <2>3. Cardinality(Woken') \in Nat /\ Cardinality(queue') = 0
    BY <2>1, <2>2, CountLess, FS_EmptySet
  <2> QED
    BY <1>a, <2>1, <2>2, <2>3
<1>7. ASSUME NEW c \in Poppers, PopperWakes(c) PROVE Goal
  <2>1. UNCHANGED <<queue, shutdown, closer, pusher>>
    BY <1>7 DEF PopperWakes, queueVars
  <2>2. Asleep # {} /\ Woken' = Woken \cup {c} /\ Notifying' = Notifying
    BY <1>7, <2>1 DEF PopperWakes, Asleep, Woken, Notifying, QueueInv, QueueThreadsTypeOK
  <2>3. Cardinality(Woken') >= Cardinality(Woken) /\ Cardinality(Woken') \in Nat
    BY <2>2, CountMore
  <2> QED
    BY <1>a, <1>b, <2>1, <2>2, <2>3
<1>8. CASE ShutdownLocked
  <2>1. UNCHANGED <<queue, popper, pusher>> /\ closer' = "notify"
    BY <1>8 DEF ShutdownLocked, Shutdown
  <2>2. Asleep' = Asleep /\ Woken' = Woken /\ Notifying' = Notifying
    BY <2>1 DEF Asleep, Woken, Notifying
  <2> QED
    BY <1>a, <1>b, <2>1, <2>2
<1>9. CASE NotifyAll
  <2>1. queue' = queue /\ Asleep' = {}
    BY <1>9 DEF NotifyAll, Asleep, queueVars, QueueInv, QueueThreadsTypeOK
  <2> QED
    BY <1>a, <2>1
<1>10. CASE UNCHANGED queueThreadsVars
  <2>1. UNCHANGED <<queue, shutdown, closer, pusher, popper>>
    BY <1>10 DEF queueThreadsVars
  <2>2. Asleep' = Asleep /\ Woken' = Woken /\ Notifying' = Notifying
    BY <2>1 DEF Asleep, Woken, Notifying
  <2> QED
    BY <1>a, <1>b, <2>1, <2>2
<1> QED
  BY <1>1, <1>2, <1>3, <1>4, <1>5, <1>6, <1>7, <1>8, <1>9, <1>10
  DEF QueueThreadsNext, PopStep, QueueDone

\* A queue that was shut down and is empty stays so.
LEMMA QueueDrainedStep ==
  QueueInv /\ [QueueThreadsNext]_queueThreadsVars => StopsOnlyWhenDrained'
PROOF
<1> SUFFICES ASSUME QueueInv, [QueueThreadsNext]_queueThreadsVars PROVE StopsOnlyWhenDrained'
  OBVIOUS
<1> DEFINE IsDrained == shutdown /\ queue = {}
<1>1. IsDrained => IsDrained'
  BY DEF QueueThreadsNext, queueThreadsVars, PushLocked, Push, NotifyOne, CallPop, PopStep,
         PopReturnsJob, PopJob, PopReturnsNothing, PopNothing, PopSleeps,
         PopperWakes, ShutdownLocked, Shutdown, NotifyAll, QueueDone, queueVars
<1>2. ASSUME NEW c \in Poppers, popper'[c] = "done"
      PROVE  popper[c] = "done" \/ IsDrained'
  BY <1>2
  DEF QueueThreadsNext, queueThreadsVars, PushLocked, NotifyOne, CallPop, PopStep,
      PopReturnsJob, PopReturnsNothing, PopNothing, PopSleeps, PopperWakes,
      ShutdownLocked, NotifyAll, QueueDone, Asleep, QueueInv, QueueThreadsTypeOK
<1>3. ASSUME NEW c \in Poppers, popper'[c] = "done" PROVE IsDrained'
  BY <1>1, <1>2, <1>3 DEF QueueInv, StopsOnlyWhenDrained
<1> QED
  BY <1>3 DEF StopsOnlyWhenDrained

-----------------------------------------------------------------------------
\* Every step keeps the invariant.
LEMMA QueueInvStep == QueueInv /\ [QueueThreadsNext]_queueThreadsVars => QueueInv'
PROOF
<1> SUFFICES ASSUME QueueInv, [QueueThreadsNext]_queueThreadsVars PROVE QueueInv'
  OBVIOUS
<1>1. QueueThreadsTypeOK'
  BY QueueTypeStep DEF QueueInv
<1>2. PopsAreWoken' /\ IsFiniteSet(queue') /\ StopsOnlyWhenDrained'
  BY PopsAreWokenStep, QueueDrainedStep
<1> QED
  BY <1>1, <1>2 DEF QueueInv

\* The queue, its threads and what they have done are well typed.
THEOREM QueueIsTyped == QueueThreadsSpec => []QueueThreadsTypeOK
PROOF
<1>1. QueueInv => QueueThreadsTypeOK
  BY DEF QueueInv
<1> QED
  BY <1>1, QueueInvInit, QueueInvStep, PTL DEF QueueThreadsSpec

\* No thread sleeps in pop() over a job that nobody is about to hand to it, nor
\* after shutdown() has notified: notify_one outside the mutex is enough.
THEOREM NoWakeupIsLost == QueueThreadsSpec => []PopsAreWoken
PROOF
<1>1. QueueInv => PopsAreWoken
  BY DEF QueueInv
<1> QED
  BY <1>1, QueueInvInit, QueueInvStep, PTL DEF QueueThreadsSpec

\* A thread that was told to stop leaves no job behind, now or later.
THEOREM StopMeansDrained == QueueThreadsSpec => []StopsOnlyWhenDrained
PROOF
<1>1. QueueInv => StopsOnlyWhenDrained
  BY DEF QueueInv
<1> QED
  BY <1>1, QueueInvInit, QueueInvStep, PTL DEF QueueThreadsSpec

-----------------------------------------------------------------------------
(* ThreadPool: the inductive invariant. *)

\* Where the task with a given sequence is once it was accepted: queued, held
\* by a pool thread, or run.
IsHeld(task) ==
  \E w \in Workers : worker[w].pc \in {"notify", "run"} /\ worker[w].task = task

IsAccounted(i) ==
  \E task \in PrioritizedTask :
    /\ task.sequence = i
    /\ task \in tasks \/ IsHeld(task) \/ task \in ran

NoTaskIsForgotten == \A i \in Nat : i < nextTaskSequence => IsAccounted(i)

\* A task that is pushed is not in the queue yet, so that the queue grows.
SequencesAreOld == \A task \in tasks : task.sequence < nextTaskSequence

\* How far stop() has come.
StopOrder ==
  /\ stop <=> stopper # "ready"
  /\ stopper \in {"returned", "destroyed"} =>
       \A w \in Workers : worker[w].pc = "returned"

\* The inductive invariant.
PoolInv ==
  /\ ThreadsTypeOK
  /\ IsFiniteSet(tasks)
  /\ SequencesAreOld
  /\ StopOrder
  /\ NoLostWakeup
  /\ WorkersDrainBeforeExit
  /\ NoTaskIsForgotten

\* The place of the task a thread does not have holds a value of the type.
LEMMA NoTaskType == NoTask \in PrioritizedTask
PROOF
<1>1. (CHOOSE f \in Functions : TRUE) \in Functions
  BY ThreadsAssumption
<1> QED
  BY <1>1 DEF NoTask, PrioritizedTask

\* A pool whose threads have just started satisfies the invariant.
LEMMA PoolInvInit == ThreadsInit => PoolInv
PROOF
<1> SUFFICES ASSUME ThreadsInit PROVE PoolInv
  OBVIOUS
<1>1. IsFiniteSet(tasks) /\ Cardinality(tasks) = 0
  BY FS_EmptySet DEF ThreadsInit, PoolInit
<1>2. ThreadsTypeOK
  <2>1. PoolTypeOK /\ ran \subseteq PrioritizedTask
    BY DEF ThreadsInit, PoolInit, PoolTypeOK
  <2>2. Cardinality(tasks) <= MaxQueueSize
    BY <1>1, PoolAssumption
  <2> QED
    BY <2>1, <2>2, NoTaskType DEF ThreadsInit, ThreadsTypeOK
<1>3. /\ \A w \in Workers : worker[w].pc = "check"
      /\ \A p \in Producers : producer[p].pc = "ready"
  BY DEF ThreadsInit
<1>4. NoLostWakeup /\ WorkersDrainBeforeExit
  BY <1>3 DEF NoLostWakeup, WorkersWoken, ProducersWoken,
              WorkersDrainBeforeExit, WorkersAt, ProducersAt
<1>5. SequencesAreOld /\ StopOrder /\ NoTaskIsForgotten
  BY DEF ThreadsInit, PoolInit, SequencesAreOld, StopOrder, NoTaskIsForgotten
<1> QED
  BY <1>1, <1>2, <1>4, <1>5 DEF PoolInv

-----------------------------------------------------------------------------
(* ThreadPool: type correctness. *)

\* What a push does to the queue.
LEMMA EnqueueGrows ==
  ASSUME PoolInv, NEW priority \in Nat, NEW f \in Functions, Enqueue(priority, f)
  PROVE  /\ PoolTypeOK' /\ IsFiniteSet(tasks') /\ SequencesAreOld'
         /\ Cardinality(tasks') = Cardinality(tasks) + 1
         /\ Cardinality(tasks') <= MaxQueueSize
PROOF
<1> DEFINE new == [priority |-> priority, sequence |-> nextTaskSequence,
                   function |-> f]
<1>1. new \in PrioritizedTask /\ new.sequence = nextTaskSequence
      /\ nextTaskSequence \in Nat
  BY DEF PrioritizedTask, PoolInv, ThreadsTypeOK, PoolTypeOK
<1>2. /\ tasks' = tasks \cup {new} /\ nextTaskSequence' = nextTaskSequence + 1
      /\ stop' = stop
  BY DEF Enqueue
<1>3. tasks \subseteq PrioritizedTask /\ \A task \in tasks : task.sequence \in Nat
  BY DEF PoolInv, ThreadsTypeOK, PoolTypeOK, PrioritizedTask
<1>4. new \notin tasks
  BY <1>1, <1>3 DEF PoolInv, SequencesAreOld
<1>5. IsFiniteSet(tasks') /\ Cardinality(tasks') = Cardinality(tasks) + 1
  BY <1>2, <1>4, CountMore DEF PoolInv
<1>6. Cardinality(tasks) < MaxQueueSize /\ Cardinality(tasks) \in Nat
  BY FS_CardinalityType DEF Enqueue, HasRoom, PoolInv
<1>7. PoolTypeOK'
  BY <1>1, <1>2, <1>3 DEF PoolTypeOK, PoolInv, ThreadsTypeOK
<1>8. SequencesAreOld'
  BY <1>1, <1>2, <1>3 DEF SequencesAreOld, PoolInv
<1> HIDE DEF new
<1> QED
  BY <1>5, <1>6, <1>7, <1>8, PoolAssumption

\* What a take does to it.
LEMMA TakeShrinks ==
  ASSUME PoolInv, NEW task \in tasks, Take(task)
  PROVE  /\ PoolTypeOK' /\ IsFiniteSet(tasks') /\ SequencesAreOld'
         /\ task \in PrioritizedTask
         /\ Cardinality(tasks') = Cardinality(tasks) - 1
         /\ Cardinality(tasks') <= MaxQueueSize
PROOF
<1>1. tasks' = tasks \ {task} /\ UNCHANGED <<nextTaskSequence, stop>>
  BY DEF Take
<1>2. IsFiniteSet(tasks') /\ Cardinality(tasks') = Cardinality(tasks) - 1
  BY <1>1, CountLess DEF PoolInv
<1>3. Cardinality(tasks) <= MaxQueueSize /\ Cardinality(tasks) \in Nat
  BY FS_CardinalityType DEF PoolInv, ThreadsTypeOK
<1>4. Cardinality(tasks') <= MaxQueueSize
  BY <1>2, <1>3, PoolAssumption
<1>5. PoolTypeOK' /\ task \in PrioritizedTask
  BY <1>1 DEF PoolTypeOK, PoolInv, ThreadsTypeOK
<1>6. SequencesAreOld'
  BY <1>1 DEF SequencesAreOld, PoolInv
<1> QED
  BY <1>2, <1>4, <1>5, <1>6

\* No step leaves the types, and new tasks are new to the queue.
LEMMA PoolTypeStep ==
  PoolInv /\ [ThreadsNext]_vars
    => ThreadsTypeOK' /\ IsFiniteSet(tasks') /\ SequencesAreOld'
PROOF
<1> SUFFICES ASSUME PoolInv, [ThreadsNext]_vars
             PROVE  ThreadsTypeOK' /\ IsFiniteSet(tasks') /\ SequencesAreOld'
  OBVIOUS
<1> DEFINE Goal == ThreadsTypeOK' /\ IsFiniteSet(tasks') /\ SequencesAreOld'
<1> USE DEF ThreadsTypeOK
<1>a. ThreadsTypeOK /\ IsFiniteSet(tasks) /\ SequencesAreOld
  BY DEF PoolInv
<1>b. UNCHANGED poolVars =>
        /\ PoolTypeOK' /\ IsFiniteSet(tasks') /\ SequencesAreOld'
        /\ Cardinality(tasks') <= MaxQueueSize
  BY <1>a DEF poolVars, PoolTypeOK, SequencesAreOld
<1>1. ASSUME NEW p \in Producers, NEW priority \in Priorities,
             CallEnqueue(p, priority)
      PROVE  Goal
  <2>1. priority \in Nat
    BY ThreadsAssumption
  <2> QED
    BY <1>a, <1>b, <1>1, <2>1 DEF CallEnqueue
<1>2. ASSUME NEW p \in Producers, EnqueueLocked(p) PROVE Goal
  <2>1. PICK f \in Functions : Enqueue(producer[p].priority, f)
    BY <1>2 DEF EnqueueLocked
  <2>2. producer[p].priority \in Nat
    BY <1>a
  <2>3. /\ PoolTypeOK' /\ IsFiniteSet(tasks') /\ SequencesAreOld'
        /\ Cardinality(tasks') <= MaxQueueSize
    BY <2>1, <2>2, EnqueueGrows
  <2> QED
    BY <1>a, <1>2, <2>3 DEF EnqueueLocked
<1>3. ASSUME NEW p \in Producers, EnqueueThrows(p) PROVE Goal
  BY <1>a, <1>b, <1>3 DEF EnqueueThrows
<1>4. ASSUME NEW p \in Producers, EnqueueSleeps(p) PROVE Goal
  BY <1>a, <1>b, <1>4 DEF EnqueueSleeps
<1>5. ASSUME NEW p \in Producers, NotifyWorker(p) PROVE Goal
  BY <1>a, <1>b, <1>5 DEF NotifyWorker, WorkersAt
<1>6. ASSUME NEW w \in Workers, TakeLocked(w) PROVE Goal
  <2>1. PICK task \in tasks :
          Take(task) /\ worker' = [worker EXCEPT ![w] = [pc |-> "notify", task |-> task]]
    BY <1>6 DEF TakeLocked
  <2> QED
    BY <1>a, <1>6, <2>1, TakeShrinks DEF TakeLocked
<1>7. ASSUME NEW w \in Workers, WorkerReturns(w) PROVE Goal
  BY <1>a, <1>b, <1>7 DEF WorkerReturns
<1>8. ASSUME NEW w \in Workers, WorkerSleeps(w) PROVE Goal
  BY <1>a, <1>b, <1>8 DEF WorkerSleeps
<1>9. ASSUME NEW w \in Workers, NotifyProducer(w) PROVE Goal
  BY <1>a, <1>b, <1>9 DEF NotifyProducer, ProducersAt
<1>10. ASSUME NEW w \in Workers, RunTask(w) PROVE Goal
  BY <1>a, <1>b, <1>10 DEF RunTask
<1>11. CASE StopLocked
  BY <1>a, <1>11 DEF StopLocked, StopPool, PoolTypeOK, SequencesAreOld
<1>12. CASE StopNotifies
  BY <1>a, <1>b, <1>12 DEF StopNotifies
<1>13. CASE StopJoins
  BY <1>a, <1>b, <1>13 DEF StopJoins
<1>14. CASE StopAgain
  BY <1>a, <1>b, <1>14 DEF StopAgain
<1>15. CASE SpuriousWake
  BY <1>a, <1>b, <1>15 DEF SpuriousWake, WorkersAt, ProducersAt
<1>16. CASE UNCHANGED vars
  BY <1>a, <1>b, <1>16 DEF vars, poolVars
<1>17. ASSUME NEW p \in Producers, ProducerStep(p) PROVE Goal
  BY <1>2, <1>3, <1>4, <1>5, <1>17 DEF ProducerStep
<1>18. ASSUME NEW w \in Workers, WorkerStep(w) PROVE Goal
  BY <1>6, <1>7, <1>8, <1>9, <1>10, <1>18 DEF WorkerStep
<1>19. CASE StopStep
  BY <1>12, <1>13, <1>14, <1>19 DEF StopStep
<1> QED
  BY <1>1, <1>11, <1>15, <1>16, <1>17, <1>18, <1>19 DEF ThreadsNext, AllDone

-----------------------------------------------------------------------------
(* ThreadPool: the counting argument. *)

\* The sets that are counted are finite.
LEMMA PoolFinite ==
  ASSUME PoolInv
  PROVE  /\ IsFiniteSet(tasks) /\ Cardinality(tasks) \in Nat
         /\ \A pcs : /\ IsFiniteSet(WorkersAt(pcs))
                     /\ IsFiniteSet(ProducersAt(pcs))
                     /\ Cardinality(WorkersAt(pcs)) \in Nat
                     /\ Cardinality(ProducersAt(pcs)) \in Nat
PROOF
<1>1. IsFiniteSet(tasks) /\ Cardinality(tasks) \in Nat
  BY FS_CardinalityType DEF PoolInv
<1>2. ASSUME NEW pcs
      PROVE  /\ IsFiniteSet(WorkersAt(pcs)) /\ IsFiniteSet(ProducersAt(pcs))
             /\ Cardinality(WorkersAt(pcs)) \in Nat
             /\ Cardinality(ProducersAt(pcs)) \in Nat
  <2>1. WorkersAt(pcs) \in SUBSET Workers /\ ProducersAt(pcs) \in SUBSET Producers
    BY DEF WorkersAt, ProducersAt
  <2>2. IsFiniteSet(WorkersAt(pcs)) /\ IsFiniteSet(ProducersAt(pcs))
    BY <2>1, FS_Subset, ThreadsAssumption
  <2> QED
    BY <2>2, FS_CardinalityType
<1> QED
  BY <1>1, <1>2

\* Every step keeps each task matched while a pool thread sleeps, and each free
\* place while a producer does.
LEMMA NoLostWakeupStep == PoolInv /\ [ThreadsNext]_vars => NoLostWakeup'
PROOF
<1> SUFFICES ASSUME PoolInv, [ThreadsNext]_vars PROVE NoLostWakeup'
  OBVIOUS
<1> USE PoolFinite
<1>t. /\ worker \in [Workers -> [pc : {"check", "woken", "asleep", "notify",
                                      "run", "returned"}, task : PrioritizedTask]]
      /\ producer \in [Producers -> [pc : {"ready", "check", "woken", "asleep",
                                          "notify", "thrown"}, priority : Nat]]
      /\ Cardinality(tasks) <= MaxQueueSize /\ MaxQueueSize \in Nat
  BY PoolAssumption DEF PoolInv, ThreadsTypeOK
<1>u. /\ UNCHANGED worker =>
           /\ WorkersAt({"asleep"})' = WorkersAt({"asleep"})
           /\ WorkersAt({"woken"})' = WorkersAt({"woken"})
           /\ WorkersAt({"notify"})' = WorkersAt({"notify"})
      /\ UNCHANGED producer =>
           /\ ProducersAt({"asleep"})' = ProducersAt({"asleep"})
           /\ ProducersAt({"woken"})' = ProducersAt({"woken"})
           /\ ProducersAt({"notify"})' = ProducersAt({"notify"})
  BY DEF WorkersAt, ProducersAt
<1>a. /\ WorkersAt({"asleep"}) # {} =>
           /\ Cardinality(tasks) <= Cardinality(ProducersAt({"notify"}))
                                    + Cardinality(WorkersAt({"woken"}))
           /\ stop => stopper = "notify"
      /\ ProducersAt({"asleep"}) # {} =>
           IF stop THEN stopper = "notify"
           ELSE MaxQueueSize - Cardinality(tasks)
                  <= Cardinality(WorkersAt({"notify"}))
                     + Cardinality(ProducersAt({"woken"}))
  BY DEF PoolInv, NoLostWakeup, WorkersWoken, ProducersWoken, StopPending
<1>b. NoLostWakeup' <=>
      /\ WorkersAt({"asleep"})' # {} =>
           /\ Cardinality(tasks') <= Cardinality(ProducersAt({"notify"})')
                                    + Cardinality(WorkersAt({"woken"})')
           /\ stop' => stopper' = "notify"
      /\ ProducersAt({"asleep"})' # {} =>
           IF stop' THEN stopper' = "notify"
           ELSE MaxQueueSize - Cardinality(tasks')
                  <= Cardinality(WorkersAt({"notify"})')
                     + Cardinality(ProducersAt({"woken"})')
  BY DEF NoLostWakeup, WorkersWoken, ProducersWoken, StopPending
<1>1. ASSUME NEW p \in Producers, NEW priority \in Priorities,
             CallEnqueue(p, priority)
      PROVE  NoLostWakeup'
  <2>1. UNCHANGED <<tasks, stop, stopper, worker>> /\ producer[p].pc = "ready"
        /\ producer' = [producer EXCEPT ![p] = [pc |-> "check", priority |-> priority]]
    BY <1>1 DEF CallEnqueue, poolVars
  <2>2. /\ ProducersAt({"asleep"})' = ProducersAt({"asleep"})
        /\ ProducersAt({"woken"})' = ProducersAt({"woken"})
        /\ ProducersAt({"notify"})' = ProducersAt({"notify"})
    BY <1>t, <2>1 DEF ProducersAt
  <2> QED
    BY <1>a, <1>b, <1>u, <2>1, <2>2
<1>2. ASSUME NEW p \in Producers, EnqueueLocked(p) PROVE NoLostWakeup'
  <2>1. PICK f \in Functions : Enqueue(producer[p].priority, f)
    BY <1>2 DEF EnqueueLocked
  <2>2. /\ Cardinality(tasks') = Cardinality(tasks) + 1
        /\ ~stop /\ ~stop' /\ UNCHANGED <<worker, stopper>>
    BY <1>2, <1>t, <2>1, EnqueueGrows DEF Enqueue, EnqueueLocked
  <2>3. /\ producer[p].pc \in {"check", "woken"}
        /\ producer' = [producer EXCEPT ![p].pc = "notify"]
    BY <1>2 DEF EnqueueLocked
  <2>4. /\ ProducersAt({"asleep"})' = ProducersAt({"asleep"})
        /\ ProducersAt({"woken"})' = ProducersAt({"woken"}) \ {p}
        /\ ProducersAt({"notify"})' = ProducersAt({"notify"}) \cup {p}
        /\ p \notin ProducersAt({"notify"})
    BY <1>t, <2>3 DEF ProducersAt
  <2>5. Cardinality(ProducersAt({"notify"})') = Cardinality(ProducersAt({"notify"})) + 1
    BY <2>4, CountMore
  <2>6. /\ Cardinality(ProducersAt({"woken"})') >= Cardinality(ProducersAt({"woken"})) - 1
        /\ Cardinality(ProducersAt({"woken"})') \in Nat
    BY <2>4, CountLess
  <2>7. /\ WorkersAt({"asleep"})' = WorkersAt({"asleep"})
        /\ WorkersAt({"woken"})' = WorkersAt({"woken"})
        /\ WorkersAt({"notify"})' = WorkersAt({"notify"})
    BY <1>u, <2>2
  <2> QED
    BY <1>a, <1>b, <1>t, <2>2, <2>4, <2>5, <2>6, <2>7
<1>3. ASSUME NEW p \in Producers, EnqueueThrows(p) PROVE NoLostWakeup'
  <2>1. UNCHANGED <<tasks, stop, stopper, worker>> /\ stop
        /\ producer[p].pc \in {"check", "woken"}
        /\ producer' = [producer EXCEPT ![p].pc = "thrown"]
    BY <1>3 DEF EnqueueThrows, poolVars
  <2>2. /\ ProducersAt({"asleep"})' = ProducersAt({"asleep"})
        /\ ProducersAt({"notify"})' = ProducersAt({"notify"})
    BY <1>t, <2>1 DEF ProducersAt
  <2> QED
    BY <1>a, <1>b, <1>u, <2>1, <2>2
<1>4. ASSUME NEW p \in Producers, EnqueueSleeps(p) PROVE NoLostWakeup'
  <2>1. UNCHANGED <<tasks, stop, stopper, worker>> /\ ~stop /\ ~HasRoom
        /\ producer[p].pc \in {"check", "woken"}
        /\ producer' = [producer EXCEPT ![p].pc = "asleep"]
    BY <1>4 DEF EnqueueSleeps, poolVars
  <2>2. /\ ProducersAt({"notify"})' = ProducersAt({"notify"})
        /\ ProducersAt({"woken"})' = ProducersAt({"woken"}) \ {p}
    BY <1>t, <2>1 DEF ProducersAt
  <2>3. Cardinality(ProducersAt({"woken"})') \in Nat
    BY <2>2, CountLess
  <2>4. Cardinality(tasks) = MaxQueueSize
    <3>1. \A c, m \in Nat : c <= m /\ ~(c < m) => c = m
      OBVIOUS
    <3>2. Cardinality(tasks) \in Nat /\ ~(Cardinality(tasks) < MaxQueueSize)
      BY <2>1 DEF HasRoom
    <3> QED
      BY <1>t, <3>1, <3>2, Zenon
  <2>5. MaxQueueSize - Cardinality(tasks') = 0
    BY <1>t, <2>1, <2>4
  <2>6. /\ WorkersAt({"asleep"})' = WorkersAt({"asleep"})
        /\ WorkersAt({"woken"})' = WorkersAt({"woken"})
        /\ WorkersAt({"notify"})' = WorkersAt({"notify"})
    BY <1>u, <2>1
  <2> QED
    BY <1>a, <1>b, <2>1, <2>2, <2>3, <2>5, <2>6
<1>5. ASSUME NEW p \in Producers, NotifyWorker(p) PROVE NoLostWakeup'
  <2>1. UNCHANGED <<tasks, stop, stopper>> /\ producer[p].pc = "notify"
        /\ producer' = [producer EXCEPT ![p].pc = "ready"]
    BY <1>5 DEF NotifyWorker, poolVars
  <2>2. /\ ProducersAt({"asleep"})' = ProducersAt({"asleep"})
        /\ ProducersAt({"woken"})' = ProducersAt({"woken"})
        /\ ProducersAt({"notify"})' = ProducersAt({"notify"}) \ {p}
        /\ p \in ProducersAt({"notify"})
    BY <1>t, <2>1 DEF ProducersAt
  <2>3. Cardinality(ProducersAt({"notify"})') = Cardinality(ProducersAt({"notify"})) - 1
    BY <2>2, CountLess
  <2>4. CASE WorkersAt({"asleep"}) = {} /\ UNCHANGED worker
    BY <1>a, <1>b, <1>u, <2>1, <2>2, <2>4
  <2>5. ASSUME NEW w \in WorkersAt({"asleep"}),
               worker' = [worker EXCEPT ![w].pc = "woken"]
        PROVE  NoLostWakeup'
    <3>1. /\ WorkersAt({"woken"})' = WorkersAt({"woken"}) \cup {w}
          /\ w \notin WorkersAt({"woken"})
          /\ WorkersAt({"notify"})' = WorkersAt({"notify"})
      BY <1>t, <2>5 DEF WorkersAt
    <3>2. Cardinality(WorkersAt({"woken"})') = Cardinality(WorkersAt({"woken"})) + 1
      BY <3>1, CountMore
    <3> QED
      BY <1>a, <1>b, <2>1, <2>2, <2>3, <2>5, <3>1, <3>2
  <2>6. \/ WorkersAt({"asleep"}) = {} /\ UNCHANGED worker
        \/ \E w \in WorkersAt({"asleep"}) :
             worker' = [worker EXCEPT ![w].pc = "woken"]
    BY <1>5 DEF NotifyWorker
  <2> QED
    BY <2>4, <2>5, <2>6
<1>6. ASSUME NEW w \in Workers, TakeLocked(w) PROVE NoLostWakeup'
  <2>1. PICK task \in tasks :
          Take(task) /\ worker' = [worker EXCEPT ![w] = [pc |-> "notify", task |-> task]]
    BY <1>6 DEF TakeLocked
  <2>2. /\ Cardinality(tasks') = Cardinality(tasks) - 1
        /\ UNCHANGED <<stop, stopper, producer>>
        /\ worker[w].pc \in {"check", "woken"}
    BY <1>6, <2>1, TakeShrinks DEF Take, TakeLocked
  <2>3. /\ WorkersAt({"asleep"})' = WorkersAt({"asleep"})
        /\ WorkersAt({"woken"})' = WorkersAt({"woken"}) \ {w}
        /\ WorkersAt({"notify"})' = WorkersAt({"notify"}) \cup {w}
        /\ w \notin WorkersAt({"notify"})
    BY <1>t, <2>1, <2>2 DEF WorkersAt
  <2>4. Cardinality(WorkersAt({"notify"})') = Cardinality(WorkersAt({"notify"})) + 1
    BY <2>3, CountMore
  <2>5. /\ Cardinality(WorkersAt({"woken"})') >= Cardinality(WorkersAt({"woken"})) - 1
        /\ Cardinality(WorkersAt({"woken"})') \in Nat
    BY <2>3, CountLess
  <2>6. /\ ProducersAt({"asleep"})' = ProducersAt({"asleep"})
        /\ ProducersAt({"woken"})' = ProducersAt({"woken"})
        /\ ProducersAt({"notify"})' = ProducersAt({"notify"})
    BY <1>u, <2>2
  <2> QED
    BY <1>a, <1>b, <1>t, <2>2, <2>3, <2>4, <2>5, <2>6
<1>7. ASSUME NEW w \in Workers, WorkerReturns(w) \/ WorkerSleeps(w)
      PROVE  NoLostWakeup'
  <2>1. /\ UNCHANGED <<tasks, stop, stopper, producer>> /\ tasks = {}
        /\ worker[w].pc \in {"check", "woken"}
    BY <1>7 DEF WorkerReturns, WorkerSleeps, Drained, poolVars
  <2>2. Cardinality(tasks') = 0
    BY <2>1, FS_EmptySet
  <2>3. /\ WorkersAt({"woken"})' = WorkersAt({"woken"}) \ {w}
        /\ WorkersAt({"notify"})' = WorkersAt({"notify"})
        /\ WorkersAt({"asleep"})' # {} => WorkersAt({"asleep"}) # {} \/ ~stop
    BY <1>7, <1>t, <2>1 DEF WorkerReturns, WorkerSleeps, WorkersAt
  <2>4. Cardinality(WorkersAt({"woken"})') \in Nat
    BY <2>3, CountLess
  <2>5. /\ ProducersAt({"asleep"})' = ProducersAt({"asleep"})
        /\ ProducersAt({"woken"})' = ProducersAt({"woken"})
        /\ ProducersAt({"notify"})' = ProducersAt({"notify"})
    BY <1>u, <2>1
  <2> QED
    BY <1>a, <1>b, <2>1, <2>2, <2>3, <2>4, <2>5
<1>8. ASSUME NEW w \in Workers, NotifyProducer(w) PROVE NoLostWakeup'
  <2>1. UNCHANGED <<tasks, stop, stopper>> /\ worker[w].pc = "notify"
        /\ worker' = [worker EXCEPT ![w].pc = "run"]
    BY <1>8 DEF NotifyProducer, poolVars
  <2>2. /\ WorkersAt({"asleep"})' = WorkersAt({"asleep"})
        /\ WorkersAt({"woken"})' = WorkersAt({"woken"})
        /\ WorkersAt({"notify"})' = WorkersAt({"notify"}) \ {w}
        /\ w \in WorkersAt({"notify"})
    BY <1>t, <2>1 DEF WorkersAt
  <2>3. Cardinality(WorkersAt({"notify"})') = Cardinality(WorkersAt({"notify"})) - 1
    BY <2>2, CountLess
  <2>4. CASE ProducersAt({"asleep"}) = {} /\ UNCHANGED producer
    BY <1>a, <1>b, <1>u, <2>1, <2>2, <2>4
  <2>5. ASSUME NEW p \in ProducersAt({"asleep"}),
               producer' = [producer EXCEPT ![p].pc = "woken"]
        PROVE  NoLostWakeup'
    <3>1. /\ ProducersAt({"woken"})' = ProducersAt({"woken"}) \cup {p}
          /\ p \notin ProducersAt({"woken"})
          /\ ProducersAt({"notify"})' = ProducersAt({"notify"})
      BY <1>t, <2>5 DEF ProducersAt
    <3>2. Cardinality(ProducersAt({"woken"})') = Cardinality(ProducersAt({"woken"})) + 1
      BY <3>1, CountMore
    <3> QED
      BY <1>a, <1>b, <1>t, <2>1, <2>2, <2>3, <2>5, <3>1, <3>2
  <2>6. \/ ProducersAt({"asleep"}) = {} /\ UNCHANGED producer
        \/ \E p \in ProducersAt({"asleep"}) :
             producer' = [producer EXCEPT ![p].pc = "woken"]
    BY <1>8 DEF NotifyProducer
  <2> QED
    BY <2>4, <2>5, <2>6
<1>9. ASSUME NEW w \in Workers, RunTask(w) PROVE NoLostWakeup'
  <2>1. UNCHANGED <<tasks, stop, stopper, producer>> /\ worker[w].pc = "run"
        /\ worker' = [worker EXCEPT ![w].pc = "check"]
    BY <1>9 DEF RunTask, poolVars
  <2>2. /\ WorkersAt({"asleep"})' = WorkersAt({"asleep"})
        /\ WorkersAt({"woken"})' = WorkersAt({"woken"})
        /\ WorkersAt({"notify"})' = WorkersAt({"notify"})
    BY <1>t, <2>1 DEF WorkersAt
  <2> QED
    BY <1>a, <1>b, <1>u, <2>1, <2>2
<1>10. CASE StopLocked
  <2>1. UNCHANGED <<tasks, producer, worker>> /\ stopper' = "notify" /\ stop'
    BY <1>10 DEF StopLocked, StopPool
  <2> QED
    BY <1>a, <1>b, <1>u, <2>1
<1>11. CASE StopNotifies
  <2>1. WorkersAt({"asleep"})' = {} /\ ProducersAt({"asleep"})' = {}
    BY <1>11, <1>t DEF StopNotifies, WorkersAt, ProducersAt
  <2> QED
    BY <1>b, <2>1
<1>12. CASE StopJoins \/ StopAgain
  <2>1. UNCHANGED <<tasks, stop, worker, producer>> /\ stop /\ stopper # "notify"
    BY <1>12 DEF StopJoins, StopAgain, poolVars, PoolInv, StopOrder
  <2>2. WorkersAt({"asleep"})' = {} /\ ProducersAt({"asleep"})' = {}
    BY <1>a, <1>u, <2>1
  <2> QED
    BY <1>b, <2>2
<1>13. CASE SpuriousWake
  <2>1. UNCHANGED <<tasks, stop, stopper>>
    BY <1>13 DEF SpuriousWake, poolVars
  <2>2. ASSUME NEW w \in WorkersAt({"asleep"}), UNCHANGED producer,
               worker' = [worker EXCEPT ![w].pc = "woken"]
        PROVE  NoLostWakeup'
    <3>1. /\ WorkersAt({"woken"})' = WorkersAt({"woken"}) \cup {w}
          /\ WorkersAt({"notify"})' = WorkersAt({"notify"})
      BY <1>t, <2>2 DEF WorkersAt
    <3>2. /\ Cardinality(WorkersAt({"woken"})') >= Cardinality(WorkersAt({"woken"}))
          /\ Cardinality(WorkersAt({"woken"})') \in Nat
      BY <3>1, CountMore
    <3>3. /\ ProducersAt({"asleep"})' = ProducersAt({"asleep"})
          /\ ProducersAt({"woken"})' = ProducersAt({"woken"})
          /\ ProducersAt({"notify"})' = ProducersAt({"notify"})
      BY <1>u, <2>2
    <3> QED
      BY <1>a, <1>b, <2>1, <2>2, <3>1, <3>2, <3>3
  <2>3. ASSUME NEW p \in ProducersAt({"asleep"}), UNCHANGED worker,
               producer' = [producer EXCEPT ![p].pc = "woken"]
        PROVE  NoLostWakeup'
    <3>1. /\ ProducersAt({"woken"})' = ProducersAt({"woken"}) \cup {p}
          /\ ProducersAt({"notify"})' = ProducersAt({"notify"})
      BY <1>t, <2>3 DEF ProducersAt
    <3>2. /\ Cardinality(ProducersAt({"woken"})') >= Cardinality(ProducersAt({"woken"}))
          /\ Cardinality(ProducersAt({"woken"})') \in Nat
      BY <3>1, CountMore
    <3>3. /\ WorkersAt({"asleep"})' = WorkersAt({"asleep"})
          /\ WorkersAt({"woken"})' = WorkersAt({"woken"})
          /\ WorkersAt({"notify"})' = WorkersAt({"notify"})
      BY <1>u, <2>3
    <3> QED
      BY <1>a, <1>b, <1>t, <2>1, <2>3, <3>1, <3>2, <3>3
  <2> QED
    BY <1>13, <2>2, <2>3 DEF SpuriousWake
<1>14. CASE UNCHANGED vars
  <2>1. UNCHANGED <<tasks, stop, stopper, worker, producer>>
    BY <1>14 DEF vars
  <2> QED
    BY <1>a, <1>b, <1>u, <2>1
<1>15. ASSUME NEW p \in Producers, ProducerStep(p) PROVE NoLostWakeup'
  BY <1>2, <1>3, <1>4, <1>5, <1>15 DEF ProducerStep
<1>16. ASSUME NEW w \in Workers, WorkerStep(w) PROVE NoLostWakeup'
  BY <1>6, <1>7, <1>8, <1>9, <1>16 DEF WorkerStep
<1>17. CASE StopStep
  BY <1>11, <1>12, <1>17 DEF StopStep
<1> QED
  BY <1>1, <1>10, <1>13, <1>14, <1>15, <1>16, <1>17 DEF ThreadsNext, AllDone

-----------------------------------------------------------------------------
(* ThreadPool: stop() and the tasks. *)

\* A pool that was stopped and is empty stays so.
LEMMA DrainedStep ==
  PoolInv /\ [ThreadsNext]_vars => WorkersDrainBeforeExit' /\ StopOrder'
PROOF
<1> SUFFICES ASSUME PoolInv, [ThreadsNext]_vars
             PROVE  WorkersDrainBeforeExit' /\ StopOrder'
  OBVIOUS
<1>t. /\ worker \in [Workers -> [pc : {"check", "woken", "asleep", "notify",
                                      "run", "returned"}, task : PrioritizedTask]]
      /\ stop \in BOOLEAN
  BY DEF PoolInv, ThreadsTypeOK, PoolTypeOK
<1>a. Drained => Drained'
  BY DEF ThreadsNext, vars, poolVars, CallEnqueue, ProducerStep, EnqueueLocked,
         Enqueue, EnqueueThrows, EnqueueSleeps, NotifyWorker, WorkerStep,
         TakeLocked, Take, IsTopTask, WorkerReturns, WorkerSleeps,
         NotifyProducer, RunTask, SpuriousWake, StopLocked, StopPool, StopStep,
         StopNotifies, StopJoins, StopAgain, AllDone, Drained
<1>b. ASSUME NEW w \in Workers
      PROVE  /\ worker'[w].pc = "returned" => worker[w].pc = "returned" \/ Drained
             /\ worker[w].pc = "returned" => worker'[w].pc = "returned"
  BY <1>t
  DEF ThreadsNext, vars, CallEnqueue, ProducerStep, EnqueueLocked,
      EnqueueThrows, EnqueueSleeps, NotifyWorker, WorkerStep, TakeLocked,
      WorkerReturns, WorkerSleeps, NotifyProducer, RunTask, SpuriousWake,
      StopLocked, StopStep, StopNotifies, StopJoins, StopAgain, AllDone,
      WorkersAt
<1>c. /\ stop' <=> stopper' # "ready"
      /\ stopper' \in {"returned", "destroyed"} =>
           stopper \in {"returned", "destroyed"} \/ WorkersAt({"returned"}) = Workers
  BY <1>t
  DEF PoolInv, StopOrder, ThreadsNext, vars, poolVars, CallEnqueue, ProducerStep,
      EnqueueLocked, Enqueue, EnqueueThrows, EnqueueSleeps, NotifyWorker,
      WorkerStep, TakeLocked, Take, WorkerReturns, WorkerSleeps,
      NotifyProducer, RunTask, SpuriousWake, StopLocked, StopPool, StopStep,
      StopNotifies, StopJoins, StopAgain, AllDone, WorkersAt
<1>1. WorkersDrainBeforeExit'
  BY <1>a, <1>b DEF PoolInv, WorkersDrainBeforeExit, WorkersAt, Drained
<1>2. StopOrder'
  BY <1>b, <1>c DEF PoolInv, StopOrder, WorkersAt
<1> QED
  BY <1>1, <1>2

\* An accepted task goes from the queue to one pool thread, and from there to
\* the tasks that were run; nothing else moves it.
LEMMA ForgottenStep == PoolInv /\ [ThreadsNext]_vars => NoTaskIsForgotten'
PROOF
<1> SUFFICES ASSUME PoolInv, [ThreadsNext]_vars PROVE NoTaskIsForgotten'
  OBVIOUS
<1>t. /\ worker \in [Workers -> [pc : {"check", "woken", "asleep", "notify",
                                      "run", "returned"}, task : PrioritizedTask]]
      /\ tasks \subseteq PrioritizedTask /\ nextTaskSequence \in Nat
      /\ \A p \in Producers : producer[p].priority \in Nat
  BY DEF PoolInv, ThreadsTypeOK, PoolTypeOK
<1> DEFINE Kept(task) == task \in tasks \/ IsHeld(task) \/ task \in ran
           Grown == \/ nextTaskSequence' = nextTaskSequence
                    \/ /\ nextTaskSequence' = nextTaskSequence + 1
                       /\ \E task \in PrioritizedTask :
                            task \in tasks' /\ task.sequence = nextTaskSequence
\* The tasks: how each step keeps what was accepted.
<1>1. ASSUME NEW p \in Producers, EnqueueLocked(p)
      PROVE  Grown /\ \A task \in PrioritizedTask : Kept(task) => Kept(task)'
  <2>1. PICK f \in Functions : Enqueue(producer[p].priority, f)
    BY <1>1 DEF EnqueueLocked
  <2> DEFINE new == [priority |-> producer[p].priority,
                     sequence |-> nextTaskSequence, function |-> f]
  <2>2. new \in PrioritizedTask /\ new.sequence = nextTaskSequence
    BY <1>t DEF PrioritizedTask
  <2>3. /\ tasks' = tasks \cup {new}
        /\ nextTaskSequence' = nextTaskSequence + 1 /\ UNCHANGED <<worker, ran>>
    BY <1>1, <2>1 DEF EnqueueLocked, Enqueue
  <2> HIDE DEF new
  <2> QED
    BY <2>2, <2>3 DEF IsHeld
<1>2. ASSUME NEW w \in Workers, TakeLocked(w)
      PROVE  Grown /\ \A task \in PrioritizedTask : Kept(task) => Kept(task)'
  <2>1. PICK taken \in tasks :
          Take(taken) /\ worker' = [worker EXCEPT ![w] = [pc |-> "notify", task |-> taken]]
    BY <1>2 DEF TakeLocked
  <2>2. /\ tasks' = tasks \ {taken}
        /\ UNCHANGED <<nextTaskSequence, ran>> /\ worker[w].pc \in {"check", "woken"}
    BY <1>2, <2>1 DEF TakeLocked, Take
  <2>3. /\ worker'[w].pc = "notify" /\ worker'[w].task = taken
        /\ \A v \in Workers : v # w => worker'[v] = worker[v]
    BY <1>t, <2>1
  <2>4. ASSUME NEW task \in PrioritizedTask, Kept(task) PROVE Kept(task)'
    <3>1. IsHeld(taken)'
      BY <2>3 DEF IsHeld
    <3>2. IsHeld(task) => IsHeld(task)'
      BY <2>2, <2>3 DEF IsHeld
    <3> QED
      BY <2>2, <2>4, <3>1, <3>2
  <2> QED
    BY <2>2, <2>4
<1>3. ASSUME NEW w \in Workers, RunTask(w)
      PROVE  Grown /\ \A task \in PrioritizedTask : Kept(task) => Kept(task)'
  <2>1. /\ UNCHANGED <<tasks, nextTaskSequence>>
        /\ ran' = ran \cup {worker[w].task}
        /\ \A v \in Workers : v # w => worker'[v] = worker[v]
    BY <1>3, <1>t DEF RunTask, poolVars
  <2> QED
    BY <2>1 DEF IsHeld
<1>4. ASSUME UNCHANGED <<tasks, nextTaskSequence, ran>>,
             \A w \in Workers :
               worker[w].pc \in {"notify", "run"} =>
                 worker'[w].pc \in {"notify", "run"} /\ worker'[w].task = worker[w].task
      PROVE  Grown /\ \A task \in PrioritizedTask : Kept(task) => Kept(task)'
  BY <1>4 DEF IsHeld
\* The steps that move no task.
<1>5. ASSUME NEW p \in Producers, NEW priority \in Priorities,
             CallEnqueue(p, priority)
      PROVE  Grown /\ \A task \in PrioritizedTask : Kept(task) => Kept(task)'
  BY <1>4, <1>5 DEF CallEnqueue, poolVars
<1>6. ASSUME NEW p \in Producers, EnqueueThrows(p) \/ EnqueueSleeps(p)
      PROVE  Grown /\ \A task \in PrioritizedTask : Kept(task) => Kept(task)'
  BY <1>4, <1>6 DEF EnqueueThrows, EnqueueSleeps, poolVars
<1>7. ASSUME NEW p \in Producers, NotifyWorker(p)
      PROVE  Grown /\ \A task \in PrioritizedTask : Kept(task) => Kept(task)'
  BY <1>t, <1>4, <1>7 DEF NotifyWorker, WorkersAt, poolVars
<1>8. ASSUME NEW w \in Workers, WorkerReturns(w) \/ WorkerSleeps(w)
      PROVE  Grown /\ \A task \in PrioritizedTask : Kept(task) => Kept(task)'
  BY <1>t, <1>4, <1>8 DEF WorkerReturns, WorkerSleeps, poolVars
<1>9. ASSUME NEW w \in Workers, NotifyProducer(w)
      PROVE  Grown /\ \A task \in PrioritizedTask : Kept(task) => Kept(task)'
  BY <1>t, <1>4, <1>9 DEF NotifyProducer, poolVars
<1>10. ASSUME StopLocked \/ StopJoins \/ StopAgain
       PROVE  Grown /\ \A task \in PrioritizedTask : Kept(task) => Kept(task)'
  BY <1>4, <1>10 DEF StopLocked, StopPool, StopJoins, StopAgain, poolVars
<1>11. ASSUME StopNotifies
       PROVE  Grown /\ \A task \in PrioritizedTask : Kept(task) => Kept(task)'
  BY <1>t, <1>4, <1>11 DEF StopNotifies, poolVars
<1>12. ASSUME SpuriousWake
       PROVE  Grown /\ \A task \in PrioritizedTask : Kept(task) => Kept(task)'
  BY <1>t, <1>4, <1>12 DEF SpuriousWake, WorkersAt, poolVars
<1>13. ASSUME UNCHANGED vars
       PROVE  Grown /\ \A task \in PrioritizedTask : Kept(task) => Kept(task)'
  BY <1>4, <1>13 DEF vars
<1>14. Grown /\ \A task \in PrioritizedTask : Kept(task) => Kept(task)'
  <2>1. ASSUME NEW p \in Producers, ProducerStep(p)
        PROVE  Grown /\ \A task \in PrioritizedTask : Kept(task) => Kept(task)'
    BY <1>1, <1>6, <1>7, <2>1 DEF ProducerStep
  <2>2. ASSUME NEW w \in Workers, WorkerStep(w)
        PROVE  Grown /\ \A task \in PrioritizedTask : Kept(task) => Kept(task)'
    BY <1>2, <1>3, <1>8, <1>9, <2>2 DEF WorkerStep
  <2>3. ASSUME StopStep
        PROVE  Grown /\ \A task \in PrioritizedTask : Kept(task) => Kept(task)'
    BY <1>10, <1>11, <2>3 DEF StopStep
  <2> QED
    BY <1>5, <1>10, <1>12, <1>13, <2>1, <2>2, <2>3 DEF ThreadsNext, AllDone
\* What was accepted before is kept, and what is accepted now is queued.
<1>15. ASSUME NEW i \in Nat, i < nextTaskSequence' PROVE IsAccounted(i)'
  <2>1. CASE i < nextTaskSequence
    BY <1>14, <2>1 DEF PoolInv, NoTaskIsForgotten, IsAccounted
  <2>2. CASE ~(i < nextTaskSequence)
    <3>1. nextTaskSequence' = nextTaskSequence + 1 /\ i = nextTaskSequence
      BY <1>t, <1>14, <1>15, <2>2
    <3> QED
      BY <1>t, <1>14, <3>1 DEF IsAccounted
  <2> QED
    BY <2>1, <2>2
<1> QED
  BY <1>15 DEF NoTaskIsForgotten

-----------------------------------------------------------------------------
\* Every step keeps the invariant.
LEMMA PoolInvStep == PoolInv /\ [ThreadsNext]_vars => PoolInv'
PROOF
<1> SUFFICES ASSUME PoolInv, [ThreadsNext]_vars PROVE PoolInv'
  OBVIOUS
<1>1. ThreadsTypeOK' /\ IsFiniteSet(tasks') /\ SequencesAreOld'
  BY PoolTypeStep
<1>2. NoLostWakeup' /\ WorkersDrainBeforeExit' /\ StopOrder' /\ NoTaskIsForgotten'
  BY NoLostWakeupStep, DrainedStep, ForgottenStep
<1> QED
  BY <1>1, <1>2 DEF PoolInv

\* When every pool thread has returned nothing is queued and nothing is held:
\* every accepted task was run.
LEMMA ReturnedMeansRun == PoolInv => StopRunsEveryTask
PROOF
<1> SUFFICES ASSUME PoolInv, stopper = "returned",
                    NEW i \in 0 .. nextTaskSequence - 1
             PROVE  \E task \in ran : task.sequence = i
  BY DEF StopRunsEveryTask
<1>1. \A w \in Workers : worker[w].pc = "returned"
  BY DEF PoolInv, StopOrder
<1>2. tasks = {}
  BY <1>1, ThreadsAssumption DEF PoolInv, WorkersDrainBeforeExit, WorkersAt
<1>3. nextTaskSequence \in Nat
  BY DEF PoolInv, ThreadsTypeOK, PoolTypeOK
<1>4. IsAccounted(i)
  BY <1>3 DEF PoolInv, NoTaskIsForgotten
<1> QED
  BY <1>1, <1>2, <1>4 DEF IsAccounted, IsHeld

\* The pool, its threads and what they have run are well typed, and the task
\* queue never exceeds its limit.
THEOREM PoolIsTyped == ThreadsSpec => []ThreadsTypeOK
PROOF
<1>1. PoolInv => ThreadsTypeOK
  BY DEF PoolInv
<1> QED
  BY <1>1, PoolInvInit, PoolInvStep, PTL DEF ThreadsSpec

\* No pool thread sleeps over a task, no producer over a free place, and neither
\* over stop(): one notification for each push and for each take is enough.
THEOREM PoolLosesNoWakeup == ThreadsSpec => []NoLostWakeup
PROOF
<1>1. PoolInv => NoLostWakeup
  BY DEF PoolInv
<1> QED
  BY <1>1, PoolInvInit, PoolInvStep, PTL DEF ThreadsSpec

\* A pool thread that returned leaves no task behind, now or later.
THEOREM ReturnMeansDrained == ThreadsSpec => []WorkersDrainBeforeExit
PROOF
<1>1. PoolInv => WorkersDrainBeforeExit
  BY DEF PoolInv
<1> QED
  BY <1>1, PoolInvInit, PoolInvStep, PTL DEF ThreadsSpec

\* When stop() returns, every task that was accepted has been run to its end.
THEOREM StopRunsAll == ThreadsSpec => []StopRunsEveryTask
PROOF
<1> QED
  BY ReturnedMeansRun, PoolInvInit, PoolInvStep, PTL DEF ThreadsSpec
=============================================================================
