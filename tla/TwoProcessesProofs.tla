------------------------- MODULE TwoProcessesProofs -------------------------
(***************************************************************************)
(* Proofs about TwoProcesses, for any number of processes, jobs and        *)
(* launches: whatever processes do to the shared table is one of its       *)
(* statements, so an ended job stays ended; and although a process may     *)
(* take over jobs that another still runs, no two tasks ever run the same  *)
(* attempt.                                                                *)
(***************************************************************************)
EXTENDS TwoProcesses, TLAPS

-----------------------------------------------------------------------------
(* The statements of the table. *)

\* What a statement may do to the rows that are there: it keeps the row, its
\* columns and its end, and never counts attempts down.
RowsGrow ==
  \A id \in DOMAIN rows :
    /\ id \in DOMAIN rows' /\ rows'[id].spec = rows[id].spec
    /\ rows[id].attemptsMade <= rows'[id].attemptsMade
    /\ IsTerminal(rows[id].status) => IsTerminal(rows'[id].status)

Texts == {"no attempts at recovery", "not started", "handler"}

\* A statement that sets the row of one job keeps the table typed, unless it
\* counts attempts down or reopens an ended job.
LEMMA UpdateGrows ==
  ASSUME StoreTypeOK, NEW id \in DOMAIN rows,
         NEW status \in Statuses, NEW attempts \in Nat,
         NEW reason \in Texts \cup {NULL}, NEW result \in {"result"} \cup {NULL},
         UpdateRow(id, status, attempts, reason, result, NULL),
         attempts >= rows[id].attemptsMade,
         IsTerminal(rows[id].status) => IsTerminal(status)
  PROVE  StoreTypeOK' /\ RowsGrow /\ DOMAIN rows' = DOMAIN rows
PROOF
<1> DEFINE row == [spec |-> rows[id].spec, status |-> status,
                   attemptsMade |-> attempts, failureReason |-> reason,
                   result |-> result, availableAt |-> NULL]
<1>1. /\ rows \in [DOMAIN rows -> Row]
      /\ \A other \in DOMAIN rows :
           /\ rows[other] \in Row
           /\ rows[other].spec \in Specs /\ rows[other].attemptsMade \in Nat
  BY DEF StoreTypeOK, Row
<1>2. rows' = [rows EXCEPT ![id] = row] /\ UNCHANGED nextValue
  BY DEF UpdateRow
<1>3. /\ row \in Row
      /\ row.spec = rows[id].spec /\ row.attemptsMade = attempts /\ row.status = status
  <2>1. rows[id].spec \in Specs
    BY <1>1
  <2> QED
    BY <2>1 DEF Row, Texts
<1> HIDE DEF row
<1>4. DOMAIN rows' = DOMAIN rows /\ rows' \in [DOMAIN rows -> Row]
  BY <1>1, <1>2, <1>3
<1>5. StoreTypeOK'
  BY <1>2, <1>4 DEF StoreTypeOK
<1>6. RowsGrow
  <2> SUFFICES ASSUME NEW other \in DOMAIN rows
               PROVE  /\ other \in DOMAIN rows' /\ rows'[other].spec = rows[other].spec
                      /\ rows[other].attemptsMade <= rows'[other].attemptsMade
                      /\ IsTerminal(rows[other].status) => IsTerminal(rows'[other].status)
    BY DEF RowsGrow
  <2>1. CASE other = id
    BY <1>1, <1>2, <1>3, <1>4, <2>1
  <2>2. CASE other # id
    <3>1. rows'[other] = rows[other] /\ rows[other].attemptsMade \in Nat
      BY <1>1, <1>2, <2>2
    <3> QED
      BY <1>4, <3>1
  <2> QED
    BY <2>1, <2>2
<1> QED
  BY <1>4, <1>5, <1>6

\* Each statement does that: save adds a row, the others set one.
LEMMA StatementsGrow ==
  ASSUME StoreTypeOK
  PROVE  /\ \A id \in JobIds, spec \in Specs :
              Save([id |-> id, spec |-> spec], NULL) =>
                /\ StoreTypeOK' /\ RowsGrow
                /\ DOMAIN rows' = DOMAIN rows \cup {id} /\ id \notin DOMAIN rows
         /\ \A id \in JobIds :
              \/ StartAttempt(id)
              \/ MarkCompleted(id, "result")
              \/ \E reason \in Texts :
                   MarkFailed(id, reason)
              \/ MarkWaiting(id, NULL)
              => StoreTypeOK' /\ RowsGrow /\ DOMAIN rows' = DOMAIN rows
PROOF
<1>1. ASSUME NEW id \in JobIds, NEW spec \in Specs, Save([id |-> id, spec |-> spec], NULL)
      PROVE  /\ StoreTypeOK' /\ RowsGrow
             /\ DOMAIN rows' = DOMAIN rows \cup {id} /\ id \notin DOMAIN rows
  <2> DEFINE row == [spec |-> spec, status |-> "waiting",
                     attemptsMade |-> 0, failureReason |-> NULL,
                     result |-> NULL, availableAt |-> NULL]
  <2>1. /\ id \notin DOMAIN rows /\ UNCHANGED nextValue
        /\ rows' = [other \in DOMAIN rows \cup {id} |->
                      IF other = id THEN row ELSE rows[other]]
    BY <1>1 DEF Save, AcceptsSave
  <2>2. row \in Row
    BY DEF Row, Statuses
  <2>3. \A other \in DOMAIN rows : rows[other] \in Row /\ rows[other].attemptsMade \in Nat
    BY DEF StoreTypeOK, Row
  <2> HIDE DEF row
  <2>4. StoreTypeOK'
    BY <2>1, <2>2, <2>3 DEF StoreTypeOK
  <2>5. RowsGrow
    BY <2>1, <2>3 DEF RowsGrow
  <2> QED
    BY <2>1, <2>4, <2>5
<1>2. ASSUME NEW id \in JobIds,
             \/ StartAttempt(id)
             \/ MarkCompleted(id, "result")
             \/ \E reason \in Texts :
                  MarkFailed(id, reason)
             \/ MarkWaiting(id, NULL)
      PROVE  StoreTypeOK' /\ RowsGrow /\ DOMAIN rows' = DOMAIN rows
  <2>1. id \in DOMAIN rows
    BY <1>2 DEF StartAttempt, AcceptsStart, MarkCompleted, MarkFailed, AcceptsOutcome,
                MarkWaiting, AcceptsWaiting
  <2>2. rows[id].attemptsMade \in Nat
    BY <2>1 DEF StoreTypeOK, Row
  <2>3. CASE StartAttempt(id)
    <3>1. /\ rows[id].status = "waiting"
          /\ UpdateRow(id, "active", rows[id].attemptsMade + 1, NULL, NULL, NULL)
      BY <2>3 DEF StartAttempt, AcceptsStart
    <3> QED
      BY <2>1, <2>2, <3>1, UpdateGrows DEF Statuses, IsTerminal
  <2>4. CASE MarkCompleted(id, "result")
    <3>1. UpdateRow(id, "completed", rows[id].attemptsMade, NULL, "result", NULL)
      BY <2>4 DEF MarkCompleted
    <3> QED
      BY <2>1, <2>2, <3>1, UpdateGrows DEF Statuses, IsTerminal
  <2>5. CASE \E reason \in Texts :
               MarkFailed(id, reason)
    <3>1. PICK reason \in Texts :
            UpdateRow(id, "failed", rows[id].attemptsMade, reason, NULL, NULL)
      BY <2>5 DEF MarkFailed
    <3> QED
      BY <2>1, <2>2, <3>1, UpdateGrows DEF Statuses, IsTerminal
  <2>6. CASE MarkWaiting(id, NULL)
    <3>1. /\ rows[id].status = "active"
          /\ UpdateRow(id, "waiting", rows[id].attemptsMade, NULL, NULL, NULL)
      BY <2>6 DEF MarkWaiting, AcceptsWaiting
    <3> QED
      BY <2>1, <2>2, <3>1, UpdateGrows DEF Statuses, IsTerminal
  <2> QED
    BY <1>2, <2>3, <2>4, <2>5, <2>6
<1> QED
  BY <1>1, <1>2

-----------------------------------------------------------------------------
(* The inductive invariant. *)

\* The ids handed out so far.
Handed == 1 .. nextValue - 1

\* An id that was handed out is in one request until its row is there, and
\* everything else that a process holds has a row.
HoldsInv ==
  /\ DOMAIN rows \subseteq Handed
  /\ \A p \in Processes :
       /\ request[p] # NULL => request[p].id \in Handed /\ request[p].id \notin DOMAIN rows
       /\ \A q \in Processes \ {p} :
            request[p] # NULL /\ request[q] # NULL => request[p].id # request[q].id
       /\ \A snapshot \in toRestore[p] : snapshot.job.id \in DOMAIN rows
       /\ \A job \in ready[p] : job.id \in DOMAIN rows
       /\ \A task \in tasks[p] : task.job.id \in DOMAIN rows

\* A running task's attempt has been counted, and by no other task.
AttemptsInv ==
  /\ \A p \in Processes : \A task \in tasks[p] :
       task.pc = "running" => task.attemptsMade <= rows[task.job.id].attemptsMade
  /\ \A p, q \in Processes : \A t \in tasks[p], u \in tasks[q] :
       ( /\ t.pc = "running" /\ u.pc = "running" /\ t.job.id = u.job.id
         /\ t.attemptsMade = u.attemptsMade ) => p = q /\ t = u

ProcessesInv == ProcessesTypeOK /\ HoldsInv /\ AttemptsInv

\* The invariant holds before the first launch.
LEMMA ProcessesInvInit == ProcessesInit => ProcessesInv
PROOF
<1> SUFFICES ASSUME ProcessesInit PROVE ProcessesInv
  OBVIOUS
<1>0. MaxJobs \in Nat /\ MaxLaunches \in Nat
  BY ProcessesAssumption
<1>1. StoreTypeOK /\ DOMAIN rows = {}
  <2>1. rows = [id \in {} |-> NULL] /\ nextValue = 1
    BY DEF ProcessesInit, StoreInit
  <2>2. DOMAIN rows = {} /\ rows \in [DOMAIN rows -> Row]
    BY <2>1
  <2>3. nextValue \in 1 .. MaxJobs + 1
    BY <1>0, <2>1
  <2> QED
    BY <2>2, <2>3 DEF StoreTypeOK
<1>2. ProcessesTypeOK
  <2>1. launches \in 0 .. MaxLaunches
    BY <1>0 DEF ProcessesInit
  <2> QED
    BY <1>1, <2>1 DEF ProcessesInit, ProcessesTypeOK
<1>3. HoldsInv
  BY <1>1 DEF ProcessesInit, HoldsInv
<1>4. AttemptsInv
  BY DEF ProcessesInit, AttemptsInv
<1> QED
  BY <1>2, <1>3, <1>4 DEF ProcessesInv

-----------------------------------------------------------------------------
(* What a step may do for the invariant to be kept. *)

\* The types of what a process holds, in a form the steps need.
LEMMA HeldTypes ==
  ASSUME ProcessesInv, NEW p \in Processes
  PROVE  /\ \A snapshot \in toRestore[p] :
              /\ snapshot.job \in Job /\ snapshot.job.id \in JobIds
              /\ snapshot.job.id \in DOMAIN rows
         /\ \A job \in ready[p] :
              job \in Job /\ job.id \in JobIds /\ job.id \in DOMAIN rows
         /\ \A task \in tasks[p] :
              /\ task.job \in Job /\ task.job.id \in JobIds
              /\ task.job.id \in DOMAIN rows /\ task.attemptsMade \in Nat
         /\ request[p] # NULL =>
              /\ request[p] \in Job /\ request[p].id \in JobIds /\ request[p].spec \in Specs
              /\ request[p] = [id |-> request[p].id, spec |-> request[p].spec]
PROOF
<1>1. /\ toRestore[p] \subseteq Snapshot /\ ready[p] \subseteq Job /\ tasks[p] \subseteq Task
      /\ request[p] \in Job \cup {NULL}
  BY DEF ProcessesInv, ProcessesTypeOK
<1>2. \A job \in Job : /\ job.id \in JobIds /\ job.spec \in Specs
                       /\ job = [id |-> job.id, spec |-> job.spec]
  BY DEF Job
<1>3. /\ \A snapshot \in toRestore[p] : snapshot.job.id \in DOMAIN rows
      /\ \A job \in ready[p] : job.id \in DOMAIN rows
      /\ \A task \in tasks[p] : task.job.id \in DOMAIN rows
  BY DEF ProcessesInv, HoldsInv
<1>4. \A snapshot \in toRestore[p] : snapshot.job \in Job
  BY <1>1 DEF Snapshot
<1>5. \A task \in tasks[p] : task.job \in Job /\ task.attemptsMade \in Nat
  BY <1>1 DEF Task
<1> QED
  BY <1>1, <1>2, <1>3, <1>4, <1>5

\* Nothing is taken from a table that grows, and only what has a row is held.
LEMMA NothingNewRuns ==
  ASSUME ProcessesInv, ProcessesTypeOK', RowsGrow,
         nextValue' = nextValue, DOMAIN rows' = DOMAIN rows,
         \A p \in Processes :
           /\ request'[p] \in {request[p], NULL}
           /\ \A snapshot \in toRestore'[p] : snapshot.job.id \in DOMAIN rows
           /\ \A job \in ready'[p] : job.id \in DOMAIN rows
           /\ tasks'[p] \subseteq tasks[p]
  PROVE  HoldsInv' /\ AttemptsInv'
PROOF
<1>1. HoldsInv /\ AttemptsInv /\ ProcessesTypeOK
  BY DEF ProcessesInv
<1>2. Handed' = Handed
  BY DEF Handed
<1>3. HoldsInv'
  BY <1>1, <1>2 DEF HoldsInv
<1>4. ASSUME NEW p \in Processes, NEW task \in tasks'[p], task.pc = "running"
      PROVE  task.attemptsMade <= rows'[task.job.id].attemptsMade
  <2>1. task \in tasks[p] /\ task.attemptsMade \in Nat
    BY <1>4, HeldTypes
  <2>2. /\ task.job.id \in DOMAIN rows
        /\ task.attemptsMade <= rows[task.job.id].attemptsMade
    BY <1>1, <1>4, <2>1 DEF HoldsInv, AttemptsInv
  <2>3. /\ rows[task.job.id].attemptsMade \in Nat /\ rows'[task.job.id].attemptsMade \in Nat
        /\ rows[task.job.id].attemptsMade <= rows'[task.job.id].attemptsMade
    BY <1>1, <2>2 DEF RowsGrow, ProcessesTypeOK, StoreTypeOK, Row
  <2> QED
    BY <2>1, <2>2, <2>3
<1>5. AttemptsInv'
  BY <1>1, <1>4 DEF AttemptsInv
<1> QED
  BY <1>3, <1>5

\* A step that leaves the table alone lets it grow by nothing.
LEMMA NoStatement ==
  ASSUME StoreTypeOK, UNCHANGED <<rows, nextValue>>
  PROVE  StoreTypeOK' /\ RowsGrow /\ DOMAIN rows' = DOMAIN rows
PROOF
<1>1. \A id \in DOMAIN rows : rows[id].attemptsMade \in Nat
  BY DEF StoreTypeOK, Row
<1> QED
  BY <1>1 DEF StoreTypeOK, RowsGrow

\* The end of a process, by a crash or by an exception nobody catches, only
\* forgets what it held.
LEMMA DiesStep ==
  ASSUME ProcessesInv, NEW p \in Processes, Dies(p)
  PROVE  ProcessesInv'
PROOF
<1>1. StoreTypeOK' /\ RowsGrow /\ DOMAIN rows' = DOMAIN rows
  BY NoStatement DEF ProcessesInv, ProcessesTypeOK, Dies
<1>2. ProcessesTypeOK'
  BY <1>1 DEF ProcessesInv, ProcessesTypeOK, Dies
<1>3. \A q \in Processes :
        /\ request'[q] \in {request[q], NULL}
        /\ \A snapshot \in toRestore'[q] : snapshot.job.id \in DOMAIN rows
        /\ \A job \in ready'[q] : job.id \in DOMAIN rows
        /\ tasks'[q] \subseteq tasks[q]
  BY HeldTypes DEF ProcessesInv, ProcessesTypeOK, Dies
<1> QED
  BY <1>1, <1>2, <1>3, NothingNewRuns DEF ProcessesInv, Dies

\* A step of a process that changes the row of one job, or none, and runs
\* no new task.
LEMMA QuietStep ==
  ASSUME ProcessesInv, NEW p \in Processes, NEW job \in Job, job.id \in DOMAIN rows,
         \/ UNCHANGED <<rows, nextValue>>
         \/ StartAttempt(job.id)
         \/ MarkCompleted(job.id, "result")
         \/ \E reason \in Texts : MarkFailed(job.id, reason)
         \/ MarkWaiting(job.id, NULL),
         UNCHANGED <<port, pc, request, launches>>,
         NEW snapshots, snapshots \subseteq toRestore[p],
         toRestore' = [toRestore EXCEPT ![p] = snapshots],
         NEW jobs, jobs \subseteq ready[p] \cup {job},
         ready' = [ready EXCEPT ![p] = jobs],
         NEW running, running \subseteq tasks[p],
         tasks' = [tasks EXCEPT ![p] = running]
  PROVE  ProcessesInv'
PROOF
<1>1. StoreTypeOK' /\ RowsGrow /\ DOMAIN rows' = DOMAIN rows /\ nextValue' = nextValue
  <2>1. StoreTypeOK /\ job.id \in JobIds
    BY DEF ProcessesInv, ProcessesTypeOK, Job
  <2>2. CASE UNCHANGED <<rows, nextValue>>
    BY <2>1, <2>2, NoStatement
  <2>3. CASE ~UNCHANGED <<rows, nextValue>>
    <3>1. StoreTypeOK' /\ RowsGrow /\ DOMAIN rows' = DOMAIN rows
      BY <2>1, <2>3, StatementsGrow
    <3>2. nextValue' = nextValue
      BY <2>3 DEF StartAttempt, MarkCompleted, MarkFailed, MarkWaiting, UpdateRow
    <3> QED
      BY <3>1, <3>2
  <2> QED
    BY <2>2, <2>3
<1>2. /\ toRestore \in [Processes -> SUBSET Snapshot] /\ ready \in [Processes -> SUBSET Job]
      /\ tasks \in [Processes -> SUBSET Task]
  BY DEF ProcessesInv, ProcessesTypeOK
<1>3. /\ toRestore' \in [Processes -> SUBSET Snapshot] /\ ready' \in [Processes -> SUBSET Job]
      /\ tasks' \in [Processes -> SUBSET Task]
  BY <1>2
<1>4. ProcessesTypeOK'
  BY <1>1, <1>3 DEF ProcessesInv, ProcessesTypeOK
<1>5. \A q \in Processes :
        /\ request'[q] \in {request[q], NULL}
        /\ \A snapshot \in toRestore'[q] : snapshot.job.id \in DOMAIN rows
        /\ \A other \in ready'[q] : other.id \in DOMAIN rows
        /\ tasks'[q] \subseteq tasks[q]
  <2> SUFFICES ASSUME NEW q \in Processes
               PROVE  /\ request'[q] \in {request[q], NULL}
                      /\ \A snapshot \in toRestore'[q] : snapshot.job.id \in DOMAIN rows
                      /\ \A other \in ready'[q] : other.id \in DOMAIN rows
                      /\ tasks'[q] \subseteq tasks[q]
    OBVIOUS
  <2>1. /\ \A snapshot \in toRestore[q] : snapshot.job.id \in DOMAIN rows
        /\ \A other \in ready[q] : other.id \in DOMAIN rows
    BY HeldTypes
  <2>2. /\ toRestore'[q] \subseteq toRestore[q] /\ ready'[q] \subseteq ready[q] \cup {job}
        /\ tasks'[q] \subseteq tasks[q]
    BY <1>2
  <2> QED
    BY <2>1, <2>2
<1> QED
  BY <1>1, <1>4, <1>5, NothingNewRuns DEF ProcessesInv

-----------------------------------------------------------------------------
(* The steps. *)

\* Steps that use the table no more than to read it.
LEMMA ControlStep ==
  ASSUME ProcessesInv, NEW p \in Processes,
         Launch(p) \/ ReadUnfinished(p) \/ StartWorker(p) \/ Bind(p)
  PROVE  ProcessesInv'
PROOF
<1>0. CASE Bind(p) /\ Dies(p)
  BY <1>0, DiesStep
<1>1. CASE \/ Launch(p) \/ ReadUnfinished(p) \/ StartWorker(p)
           \/ Bind(p) /\ UNCHANGED <<rows, nextValue, memory, launches>>
  <2>1. /\ UNCHANGED <<rows, nextValue, request, ready, tasks>>
        /\ toRestore' = toRestore \/ toRestore' = [toRestore EXCEPT ![p] = Unfinished]
    BY <1>1 DEF Launch, ReadUnfinished, StartWorker, Bind, memory
  <2>2. StoreTypeOK' /\ RowsGrow /\ DOMAIN rows' = DOMAIN rows
    BY <2>1, NoStatement DEF ProcessesInv, ProcessesTypeOK
  <2>3. \A snapshot \in Unfinished :
          snapshot \in Snapshot /\ snapshot.job.id \in DOMAIN rows
    <3> SUFFICES ASSUME NEW id \in DOMAIN rows, ~IsTerminal(rows[id].status)
                 PROVE  [job |-> [id |-> id, spec |-> rows[id].spec],
                         status |-> rows[id].status,
                         attemptsMade |-> rows[id].attemptsMade,
                         availableAt |-> rows[id].availableAt] \in Snapshot
      BY DEF Unfinished, ReadBack
    <3>1. rows[id] \in Row /\ id \in JobIds
      BY DEF ProcessesInv, ProcessesTypeOK, StoreTypeOK
    <3>2. /\ rows[id].spec \in Specs /\ rows[id].status \in Statuses
          /\ rows[id].attemptsMade \in Nat /\ rows[id].availableAt \in Nat \cup {NULL}
      BY <3>1 DEF Row
    <3>3. [id |-> id, spec |-> rows[id].spec] \in Job
      BY <3>1, <3>2 DEF Job
    <3>4. rows[id].status \in {"waiting", "active"}
      BY <3>2 DEF Statuses, IsTerminal
    <3> QED
      BY <3>2, <3>3, <3>4 DEF Snapshot
  <2>4. /\ toRestore \in [Processes -> SUBSET Snapshot] /\ launches \in 0 .. MaxLaunches
        /\ pc \in [Processes -> {"down", "reading", "restoring", "binding", "serving"}]
    BY DEF ProcessesInv, ProcessesTypeOK
  <2>5. toRestore' \in [Processes -> SUBSET Snapshot]
    BY <2>1, <2>3, <2>4
  <2>6. /\ pc' \in [Processes -> {"down", "reading", "restoring", "binding", "serving"}]
        /\ port' \in Processes \cup {NULL}
    <3>1. \/ /\ port' = port
             /\ \/ pc' = [pc EXCEPT ![p] = "reading"]
                \/ pc' = [pc EXCEPT ![p] = "restoring"]
                \/ pc' = [pc EXCEPT ![p] = "binding"]
          \/ port' = p /\ pc' = [pc EXCEPT ![p] = "serving"]
          \/ Dies(p)
      BY <1>1 DEF Launch, ReadUnfinished, StartWorker, Bind
    <3>2. port \in Processes \cup {NULL}
      BY DEF ProcessesInv, ProcessesTypeOK
    <3>3. CASE Dies(p)
      <4>1. /\ pc' = [pc EXCEPT ![p] = "down"]
            /\ port' = port \/ port' = NULL
        BY <3>3 DEF Dies
      <4> QED
        BY <2>4, <3>2, <4>1
    <3> QED
      BY <2>4, <3>1, <3>2, <3>3
  <2>7. launches' \in 0 .. MaxLaunches
    <3>1. MaxLaunches \in Nat
      BY ProcessesAssumption
    <3> QED
      BY <1>1, <2>4, <3>1 DEF Launch, ReadUnfinished, StartWorker, Bind
  <2>8. ProcessesTypeOK'
    BY <2>1, <2>2, <2>5, <2>6, <2>7 DEF ProcessesInv, ProcessesTypeOK
  <2>9. \A q \in Processes :
          /\ request'[q] \in {request[q], NULL}
          /\ \A snapshot \in toRestore'[q] : snapshot.job.id \in DOMAIN rows
          /\ \A job \in ready'[q] : job.id \in DOMAIN rows
          /\ tasks'[q] \subseteq tasks[q]
    BY <2>1, <2>3, <2>4, HeldTypes
  <2> QED
    BY <2>1, <2>2, <2>8, <2>9, NothingNewRuns DEF ProcessesInv
<1> QED
  BY <1>0, <1>1 DEF Bind

\* The body of the loop of restoreUnfinished keeps the invariant, although the
\* row may have changed since it was read.
LEMMA RestoreStep ==
  ASSUME ProcessesInv, NEW p \in Processes, NEW snapshot \in toRestore[p],
         RestoreOne(p, snapshot)
  PROVE  ProcessesInv'
PROOF
<1> DEFINE job == snapshot.job
<1>1. job \in Job /\ job.id \in DOMAIN rows
  BY HeldTypes
<1>2. /\ toRestore' = [toRestore EXCEPT ![p] = toRestore[p] \ {snapshot}]
      /\ UNCHANGED <<port, pc, request, tasks, launches>>
      /\ \/ ready' = [ready EXCEPT ![p] = ready[p] \cup {job}]
         \/ UNCHANGED ready
      /\ \/ UNCHANGED <<rows, nextValue>>
         \/ \E reason \in Texts : MarkFailed(job.id, reason)
         \/ MarkWaiting(job.id, NULL)
  BY DEF RestoreOne, Texts
<1>3. /\ ready = [ready EXCEPT ![p] = ready[p]] /\ tasks = [tasks EXCEPT ![p] = tasks[p]]
  BY DEF ProcessesInv, ProcessesTypeOK
<1> DEFINE jobs == ready'[p]
<1>4. jobs \subseteq ready[p] \cup {job} /\ ready' = [ready EXCEPT ![p] = jobs]
  <2>1. ready \in [Processes -> SUBSET Job]
    BY DEF ProcessesInv, ProcessesTypeOK
  <2> QED
    BY <1>2, <2>1
<1> HIDE DEF job, jobs
<1>5. tasks' = [tasks EXCEPT ![p] = tasks[p]]
  BY <1>2, <1>3
<1>6. toRestore[p] \ {snapshot} \subseteq toRestore[p] /\ tasks[p] \subseteq tasks[p]
  OBVIOUS
<1> QED
  BY <1>1, <1>2, <1>4, <1>5, <1>6, QuietStep

\* So does the end of a task, by an outcome, a retry or an exception of
\* markWaiting, whoever owns the row now.
LEMMA TaskEndStep ==
  ASSUME ProcessesInv, NEW p \in Processes, NEW task \in tasks[p],
         EndTask(p, task) \/ Retry(p, task) \/ RetryThrows(p, task)
  PROVE  ProcessesInv'
PROOF
<1> DEFINE job == task.job
           jobs == ready'[p]
<1>1. job \in Job /\ job.id \in DOMAIN rows
  BY HeldTypes
<1>2. /\ tasks' = [tasks EXCEPT ![p] = tasks[p] \ {task}]
      /\ UNCHANGED <<port, pc, toRestore, request, launches>>
      /\ \/ ready' = [ready EXCEPT ![p] = ready[p] \cup {job}]
         \/ UNCHANGED ready
      /\ \/ UNCHANGED <<rows, nextValue>>
         \/ MarkCompleted(job.id, "result")
         \/ \E reason \in Texts : MarkFailed(job.id, reason)
         \/ MarkWaiting(job.id, NULL)
  BY DEF EndTask, Retry, RetryThrows, Texts
<1>3. /\ ready \in [Processes -> SUBSET Job]
      /\ toRestore = [toRestore EXCEPT ![p] = toRestore[p]]
  BY DEF ProcessesInv, ProcessesTypeOK
<1>4. jobs \subseteq ready[p] \cup {job} /\ ready' = [ready EXCEPT ![p] = jobs]
  BY <1>2, <1>3
<1> HIDE DEF job, jobs
<1>5. toRestore' = [toRestore EXCEPT ![p] = toRestore[p]]
  BY <1>2, <1>3
<1>6. tasks[p] \ {task} \subseteq tasks[p] /\ toRestore[p] \subseteq toRestore[p]
  OBVIOUS
<1> QED
  BY <1>1, <1>2, <1>4, <1>5, <1>6, QuietStep

\* generateJobId hands out an id that nobody has and that has no row.
LEMMA TakeIdStep ==
  ASSUME ProcessesInv, NEW p \in Processes, NEW spec \in Specs, TakeId(p, spec)
  PROVE  ProcessesInv'
PROOF
<1>0. MaxJobs \in Nat
  BY ProcessesAssumption
<1>1. /\ nextValue \in JobIds /\ nextValue' = nextValue + 1 /\ rows' = rows
      /\ request' = [request EXCEPT ![p] = [id |-> nextValue, spec |-> spec]]
      /\ UNCHANGED <<port, pc, toRestore, ready, tasks, launches>>
  BY DEF TakeId, GenerateJobId
<1>2. ProcessesTypeOK /\ HoldsInv /\ AttemptsInv
  BY DEF ProcessesInv
<1>3. StoreTypeOK'
  BY <1>0, <1>1, <1>2 DEF ProcessesTypeOK, StoreTypeOK, JobIds
<1>4. [id |-> nextValue, spec |-> spec] \in Job
  BY <1>1 DEF Job
<1>5. ProcessesTypeOK'
  <2>1. request' \in [Processes -> Job \cup {NULL}]
    BY <1>1, <1>2, <1>4 DEF ProcessesTypeOK
  <2> QED
    BY <1>1, <1>2, <1>3, <2>1 DEF ProcessesTypeOK
<1>6. Handed' = Handed \cup {nextValue} /\ nextValue \notin Handed
  BY <1>0, <1>1 DEF Handed, JobIds
<1>7. nextValue \notin DOMAIN rows
  BY <1>2, <1>6 DEF HoldsInv
<1>8. /\ request'[p].id = nextValue
      /\ \A q \in Processes \ {p} : request'[q] = request[q]
  BY <1>1, <1>2 DEF ProcessesTypeOK
<1>9. \A q \in Processes : request[q] # NULL => request[q].id \in Handed /\ request[q].id # nextValue
  BY <1>2, <1>6 DEF HoldsInv
<1>10. HoldsInv'
  <2>1. DOMAIN rows' \subseteq Handed'
    BY <1>1, <1>2, <1>6 DEF HoldsInv
  <2>2. ASSUME NEW q \in Processes
        PROVE  /\ request'[q] # NULL => request'[q].id \in Handed' /\ request'[q].id \notin DOMAIN rows'
               /\ \A r \in Processes \ {q} :
                    request'[q] # NULL /\ request'[r] # NULL => request'[q].id # request'[r].id
    <3>1. CASE q = p
      BY <1>1, <1>6, <1>7, <1>8, <1>9, <3>1
    <3>2. CASE q # p
      BY <1>1, <1>2, <1>6, <1>8, <1>9, <3>2 DEF HoldsInv
    <3> QED
      BY <3>1, <3>2
  <2> QED
    BY <1>1, <1>2, <2>1, <2>2 DEF HoldsInv
<1>11. AttemptsInv'
  BY <1>1, <1>2 DEF AttemptsInv
<1> QED
  BY <1>5, <1>10, <1>11 DEF ProcessesInv

\* save finds no row with the id, which leaves the request for the table.
LEMMA SaveStep ==
  ASSUME ProcessesInv, NEW p \in Processes, SaveJob(p)
  PROVE  ProcessesInv'
PROOF
<1> DEFINE job == request[p]
<1>1. /\ request[p] # NULL /\ Save(job, NULL)
      /\ ready' = [ready EXCEPT ![p] = ready[p] \cup {job}]
      /\ request' = [request EXCEPT ![p] = NULL]
      /\ UNCHANGED <<port, pc, toRestore, tasks, launches, nextValue>>
  BY DEF SaveJob, Save
<1>2. ProcessesTypeOK /\ HoldsInv /\ AttemptsInv
  BY DEF ProcessesInv
<1>3. /\ job \in Job /\ job.id \in JobIds /\ job.spec \in Specs
      /\ Save([id |-> job.id, spec |-> job.spec], NULL)
  BY <1>1, HeldTypes
<1>4. /\ StoreTypeOK' /\ RowsGrow
      /\ DOMAIN rows' = DOMAIN rows \cup {job.id} /\ job.id \notin DOMAIN rows
  BY <1>2, <1>3, StatementsGrow DEF ProcessesTypeOK
<1>5. ProcessesTypeOK'
  <2>1. request' \in [Processes -> Job \cup {NULL}] /\ ready' \in [Processes -> SUBSET Job]
    BY <1>1, <1>2, <1>3 DEF ProcessesTypeOK
  <2> QED
    BY <1>1, <1>2, <1>4, <2>1 DEF ProcessesTypeOK
<1>6. /\ request'[p] = NULL /\ \A q \in Processes \ {p} : request'[q] = request[q]
      /\ ready'[p] = ready[p] \cup {job} /\ \A q \in Processes \ {p} : ready'[q] = ready[q]
  BY <1>1, <1>2 DEF ProcessesTypeOK
<1>7. HoldsInv'
  <2>1. Handed' = Handed /\ job.id \in Handed
    BY <1>1, <1>2 DEF HoldsInv, Handed
  <2>2. \A q \in Processes \ {p} : request[q] # NULL => request[q].id # job.id
    BY <1>1, <1>2 DEF HoldsInv
  <2> HIDE DEF job
  <2> QED
    BY <1>1, <1>2, <1>4, <1>6, <2>1, <2>2 DEF HoldsInv
<1>8. AttemptsInv'
  <2>1. ASSUME NEW q \in Processes, NEW task \in tasks[q]
        PROVE  rows'[task.job.id] = rows[task.job.id]
    <3>1. task.job.id \in DOMAIN rows /\ task.job.id # job.id
      BY <1>4, HeldTypes
    <3> QED
      BY <1>1, <3>1 DEF Save
  <2> QED
    BY <1>1, <1>2, <2>1 DEF AttemptsInv
<1> QED
  BY <1>5, <1>7, <1>8 DEF ProcessesInv

\* startAttempt counts, so the attempt of the new task is larger than that of
\* every task that runs the job anywhere.
LEMMA StartStep ==
  ASSUME ProcessesInv, NEW p \in Processes, NEW job \in ready[p], Start(p, job)
  PROVE  ProcessesInv'
PROOF
<1>1. /\ job \in Job /\ job.id \in JobIds /\ job.id \in DOMAIN rows
  BY HeldTypes
<1>2. ProcessesTypeOK /\ HoldsInv /\ AttemptsInv
  BY DEF ProcessesInv
<1>3. /\ ready' = [ready EXCEPT ![p] = ready[p] \ {job}]
      /\ UNCHANGED <<port, pc, toRestore, request, launches>>
  BY DEF Start
<1>4. rows[job.id].attemptsMade \in Nat
  BY <1>1, <1>2 DEF ProcessesTypeOK, StoreTypeOK, Row
<1>5. PICK new \in Task :
        /\ tasks' = [tasks EXCEPT ![p] = tasks[p] \cup {new}]
        /\ new.job = job
        /\ StoreTypeOK' /\ RowsGrow /\ DOMAIN rows' = DOMAIN rows /\ nextValue' = nextValue
        /\ \/ /\ new.pc = "running"
              /\ new.attemptsMade = rows[job.id].attemptsMade + 1
              /\ new.attemptsMade = rows'[job.id].attemptsMade
           \/ new.pc = "not started"
  <2>1. CASE /\ StartAttempt(job.id)
             /\ tasks' = [tasks EXCEPT ![p] = @ \cup
                  {[job |-> job, pc |-> "running", attemptsMade |-> rows'[job.id].attemptsMade]}]
    <3> DEFINE new == [job |-> job, pc |-> "running", attemptsMade |-> rows'[job.id].attemptsMade]
    <3>1. nextValue' = nextValue /\ rows'[job.id].attemptsMade = rows[job.id].attemptsMade + 1
      BY <1>1, <2>1 DEF StartAttempt, UpdateRow
    <3>2. new \in Task
      BY <1>1, <1>4, <3>1 DEF Task
    <3>3. StoreTypeOK' /\ RowsGrow /\ DOMAIN rows' = DOMAIN rows
      BY <1>1, <1>2, <2>1, StatementsGrow DEF ProcessesTypeOK
    <3> QED
      BY <2>1, <3>1, <3>2, <3>3
  <2>2. CASE /\ tasks' = [tasks EXCEPT ![p] = @ \cup
                  {[job |-> job, pc |-> "not started", attemptsMade |-> 0]}]
             /\ UNCHANGED <<rows, nextValue>>
    <3> DEFINE new == [job |-> job, pc |-> "not started", attemptsMade |-> 0]
    <3>1. new \in Task
      BY <1>1 DEF Task
    <3>2. StoreTypeOK' /\ RowsGrow /\ DOMAIN rows' = DOMAIN rows
      BY <1>2, <2>2, NoStatement DEF ProcessesTypeOK
    <3> QED
      BY <2>2, <3>1, <3>2
  <2> QED
    BY <2>1, <2>2 DEF Start
<1>6. /\ tasks'[p] = tasks[p] \cup {new} /\ \A q \in Processes \ {p} : tasks'[q] = tasks[q]
      /\ ready'[p] \subseteq ready[p] /\ \A q \in Processes \ {p} : ready'[q] = ready[q]
  BY <1>2, <1>3, <1>5 DEF ProcessesTypeOK
<1>7. ProcessesTypeOK'
  <2>1. ready' \in [Processes -> SUBSET Job] /\ tasks' \in [Processes -> SUBSET Task]
    BY <1>2, <1>3, <1>5 DEF ProcessesTypeOK
  <2> QED
    BY <1>2, <1>3, <1>5, <2>1 DEF ProcessesTypeOK
<1>8. HoldsInv'
  <2>1. Handed' = Handed
    BY <1>5 DEF Handed
  <2> QED
    BY <1>1, <1>2, <1>3, <1>5, <1>6, <2>1 DEF HoldsInv
<1>9. ASSUME NEW q \in Processes, NEW t \in tasks[q], t.pc = "running"
      PROVE  /\ t.job.id \in DOMAIN rows /\ t.attemptsMade \in Nat
             /\ t.attemptsMade <= rows[t.job.id].attemptsMade
             /\ t.attemptsMade <= rows'[t.job.id].attemptsMade
  <2>1. /\ t.job.id \in DOMAIN rows /\ t.attemptsMade \in Nat
        /\ t.attemptsMade <= rows[t.job.id].attemptsMade
    BY <1>2, <1>9, HeldTypes DEF AttemptsInv
  <2>2. /\ rows[t.job.id].attemptsMade \in Nat /\ rows'[t.job.id].attemptsMade \in Nat
        /\ rows[t.job.id].attemptsMade <= rows'[t.job.id].attemptsMade
    BY <1>2, <1>5, <2>1 DEF RowsGrow, ProcessesTypeOK, StoreTypeOK, Row
  <2> QED
    BY <2>1, <2>2
<1>10. ASSUME NEW q \in Processes, NEW t \in tasks[q], t.pc = "running", t.job.id = new.job.id,
              new.pc = "running", t.attemptsMade = new.attemptsMade
       PROVE  FALSE
  BY <1>4, <1>5, <1>9, <1>10
<1>11. AttemptsInv'
  <2>1. ASSUME NEW q \in Processes, NEW t \in tasks'[q], t.pc = "running"
        PROVE  t.attemptsMade <= rows'[t.job.id].attemptsMade
    <3>1. CASE t \in tasks[q]
      BY <1>9, <2>1, <3>1
    <3>2. CASE t \notin tasks[q]
      <4>1. t = new
        BY <1>6, <2>1, <3>2
      <4>2. rows'[job.id].attemptsMade \in Nat
        BY <1>1, <1>5 DEF StoreTypeOK, Row
      <4>3. new.pc = "running"
        BY <2>1, <4>1
      <4>4. new.attemptsMade = rows'[job.id].attemptsMade
        BY <1>5, <4>3
      <4>5. t.attemptsMade = rows'[t.job.id].attemptsMade
        BY <1>5, <4>1, <4>4
      <4>6. t.attemptsMade \in Nat
        BY <1>5, <4>1, <4>2, <4>4
      <4> QED
        BY <4>5, <4>6
    <3> QED
      BY <3>1, <3>2
  <2>2. ASSUME NEW q \in Processes, NEW r \in Processes, NEW t \in tasks'[q], NEW u \in tasks'[r],
               t.pc = "running", u.pc = "running", t.job.id = u.job.id,
               t.attemptsMade = u.attemptsMade
        PROVE  q = r /\ t = u
    <3>1. CASE t \in tasks[q] /\ u \in tasks[r]
      BY <1>2, <2>2, <3>1 DEF AttemptsInv
    <3>2. CASE t \notin tasks[q] /\ u \in tasks[r]
      BY <1>6, <1>10, <2>2, <3>2
    <3>3. CASE t \in tasks[q] /\ u \notin tasks[r]
      BY <1>6, <1>10, <2>2, <3>3
    <3>4. CASE t \notin tasks[q] /\ u \notin tasks[r]
      BY <1>6, <2>2, <3>4
    <3> QED
      BY <3>1, <3>2, <3>3, <3>4
  <2> QED
    BY <2>1, <2>2 DEF AttemptsInv
<1> QED
  BY <1>7, <1>8, <1>11 DEF ProcessesInv

\* Every step keeps the invariant.
LEMMA ProcessesInvStep == ProcessesInv /\ [ProcessesNext]_vars => ProcessesInv'
PROOF
<1> SUFFICES ASSUME ProcessesInv, [ProcessesNext]_vars PROVE ProcessesInv'
  OBVIOUS
<1>1. ASSUME NEW p \in Processes,
             Launch(p) \/ ReadUnfinished(p) \/ StartWorker(p) \/ Bind(p)
      PROVE  ProcessesInv'
  BY <1>1, ControlStep
<1>2. ASSUME NEW p \in Processes, Crash(p)
      PROVE  ProcessesInv'
  BY <1>2, DiesStep DEF Crash
<1>3. ASSUME NEW p \in Processes, NEW snapshot \in toRestore[p], RestoreThrows(p, snapshot)
      PROVE  ProcessesInv'
  BY <1>3, DiesStep DEF RestoreThrows
<1>4. ASSUME NEW p \in Processes, NEW snapshot \in toRestore[p], RestoreOne(p, snapshot)
      PROVE  ProcessesInv'
  BY <1>4, RestoreStep
<1>5. ASSUME NEW p \in Processes, NEW job \in ready[p], Start(p, job)
      PROVE  ProcessesInv'
  BY <1>5, StartStep
<1>6. ASSUME NEW p \in Processes, NEW task \in tasks[p],
             EndTask(p, task) \/ Retry(p, task) \/ RetryThrows(p, task)
      PROVE  ProcessesInv'
  BY <1>6, TaskEndStep
<1>7. ASSUME NEW p \in Processes, SaveJob(p)
      PROVE  ProcessesInv'
  BY <1>7, SaveStep
<1>8. ASSUME NEW p \in Processes, NEW spec \in Specs, TakeId(p, spec)
      PROVE  ProcessesInv'
  BY <1>8, TakeIdStep
<1>9. ASSUME UNCHANGED vars
      PROVE  ProcessesInv'
  <2>1. UNCHANGED <<rows, nextValue, port, pc, toRestore, request, ready, tasks, launches>>
    BY <1>9 DEF vars, memory
  <2>2. ProcessesTypeOK'
    BY <2>1 DEF ProcessesInv, ProcessesTypeOK, StoreTypeOK
  <2>3. HoldsInv' /\ AttemptsInv'
    BY <2>1 DEF ProcessesInv, HoldsInv, Handed, AttemptsInv
  <2> QED
    BY <2>2, <2>3 DEF ProcessesInv
<1> QED
  BY <1>1, <1>2, <1>3, <1>4, <1>5, <1>6, <1>7, <1>8, <1>9 DEF ProcessesNext, Runs

\* In any behaviour of any number of processes the state is typed, an id is in
\* one request or in the table, whatever a process holds has a row, and a running
\* task's attempt has been counted, for it alone.
THEOREM ProcessesAreConsistent == ProcessesSpec => []ProcessesInv
PROOF
<1> QED
  BY ProcessesInvInit, ProcessesInvStep, PTL DEF ProcessesSpec

\* However processes take over each other's jobs, no two tasks ever run the same
\* attempt of a job: startAttempt is one statement that counts.
THEOREM AttemptsBelongToOneTask == ProcessesSpec => []AttemptsAreExclusive
PROOF
<1>1. ProcessesInv => AttemptsAreExclusive
  BY DEF ProcessesInv, AttemptsInv, AttemptsAreExclusive
<1> QED
  BY <1>1, ProcessesAreConsistent, PTL

-----------------------------------------------------------------------------
(* What the processes do to the table together. *)

\* Whatever a process does is one statement of the table or none.
LEMMA StepsAreStatements ==
  ASSUME ProcessesInv, [ProcessesNext]_vars
  PROVE  StoreNext \/ UNCHANGED storeVars
PROOF
<1>1. ASSUME NEW p \in Processes,
             \/ Launch(p) \/ Crash(p) \/ ReadUnfinished(p) \/ StartWorker(p) \/ Bind(p)
             \/ \E snapshot \in toRestore[p] : RestoreThrows(p, snapshot)
             \/ \E task \in tasks[p] : RetryThrows(p, task)
      PROVE  UNCHANGED storeVars
  BY <1>1 DEF Launch, Crash, Dies, ReadUnfinished, StartWorker, Bind, RestoreThrows,
              RetryThrows, storeVars
<1>2. ASSUME NEW p \in Processes, NEW snapshot \in toRestore[p], RestoreOne(p, snapshot)
      PROVE  StoreNext \/ UNCHANGED storeVars
  <2>1. snapshot.job.id \in JobIds
    BY HeldTypes
  <2>2. \/ MarkFailed(snapshot.job.id, "no attempts at recovery")
        \/ MarkWaiting(snapshot.job.id, NULL)
        \/ UNCHANGED <<rows, nextValue>>
    BY <1>2 DEF RestoreOne
  <2> QED
    BY <2>1, <2>2 DEF StoreNext, StoreWrite, storeVars
<1>3. ASSUME NEW p \in Processes, NEW job \in ready[p], Start(p, job)
      PROVE  StoreNext \/ UNCHANGED storeVars
  <2>1. job.id \in JobIds
    BY HeldTypes
  <2>2. StartAttempt(job.id) \/ UNCHANGED <<rows, nextValue>>
    BY <1>3 DEF Start
  <2> QED
    BY <2>1, <2>2 DEF StoreNext, StoreWrite, storeVars
<1>4. ASSUME NEW p \in Processes, NEW task \in tasks[p], EndTask(p, task) \/ Retry(p, task)
      PROVE  StoreNext
  <2>1. task.job.id \in JobIds
    BY HeldTypes
  <2>2. \/ MarkCompleted(task.job.id, "result")
        \/ MarkFailed(task.job.id, "handler")
        \/ MarkFailed(task.job.id, "not started")
        \/ MarkWaiting(task.job.id, NULL)
    BY <1>4 DEF EndTask, Retry
  <2> QED
    BY <2>1, <2>2 DEF StoreNext, StoreWrite
<1>5. ASSUME NEW p \in Processes, SaveJob(p)
      PROVE  StoreNext
  <2>1. /\ Save(request[p], NULL) /\ request[p] # NULL
    BY <1>5 DEF SaveJob
  <2>2. /\ request[p].id \in 1 .. nextValue - 1 /\ request[p].spec \in Specs
        /\ request[p] = [id |-> request[p].id, spec |-> request[p].spec]
    BY <2>1, HeldTypes DEF ProcessesInv, HoldsInv, Handed
  <2> QED
    BY <2>1, <2>2 DEF StoreNext, StoreWrite
<1>6. ASSUME NEW p \in Processes, NEW spec \in Specs, TakeId(p, spec)
      PROVE  StoreNext
  BY <1>6 DEF TakeId, StoreNext
<1>7. ASSUME UNCHANGED vars
      PROVE  UNCHANGED storeVars
  BY <1>7 DEF vars, storeVars
<1> QED
  BY <1>1, <1>2, <1>3, <1>4, <1>5, <1>6, <1>7 DEF ProcessesNext, Runs

\* The table of several processes behaves as JobStore says: what is proved of
\* StoreSpec holds of a file that processes share, unfinished restores, failed
\* binds and exceptions included.
THEOREM ProcessesUseTheStore == ProcessesSpec => StoreSpec
PROOF
<1>1. ProcessesInit => StoreInit
  BY DEF ProcessesInit
<1>2. ProcessesInv /\ [ProcessesNext]_vars => [StoreNext]_storeVars
  BY StepsAreStatements
<1> QED
  BY <1>1, <1>2, ProcessesAreConsistent, PTL DEF ProcessesSpec, StoreSpec

\* A statement of the table loses no row and takes no job back from its end.
LEMMA StoreNextGrows ==
  ASSUME StoreTypeOK, StoreNext \/ UNCHANGED storeVars
  PROVE  RowsGrow
PROOF
<1>1. CASE UNCHANGED storeVars \/ GenerateJobId
  <2>1. \A id \in DOMAIN rows : rows[id].attemptsMade \in Nat
    BY DEF StoreTypeOK, Row
  <2> QED
    BY <1>1, <2>1 DEF RowsGrow, storeVars, GenerateJobId
<1>2. CASE StoreWrite
  <2>1. 1 .. nextValue - 1 \subseteq JobIds
    <3>1. MaxJobs \in Nat /\ nextValue \in 1 .. MaxJobs + 1
      BY ProcessesAssumption DEF StoreTypeOK
    <3> QED
      BY <3>1 DEF JobIds
  <2>2. CASE \E id \in 1 .. nextValue - 1, spec \in Specs :
               Save([id |-> id, spec |-> spec], NULL)
    BY <2>1, <2>2, StatementsGrow
  <2>3. CASE \E id \in JobIds :
               \/ StartAttempt(id) \/ MarkCompleted(id, "result")
               \/ \E reason \in Texts : MarkFailed(id, reason)
               \/ MarkWaiting(id, NULL)
    BY <2>3, StatementsGrow
  <2> QED
    BY <1>2, <2>2, <2>3 DEF StoreWrite, Texts
<1> QED
  BY <1>1, <1>2 DEF StoreNext

\* No process brings back a job that has ended, though it may have read it before
\* the end, or may still run it: markWaiting and startAttempt look at the status.
THEOREM NobodyRevivesEndedJobs == ProcessesSpec => EndedJobsStayEnded
PROOF
<1>1. /\ ProcessesInv /\ [ProcessesNext]_vars
      => [\A id \in DOMAIN rows :
            IsTerminal(rows[id].status) => IsTerminal(rows'[id].status)]_vars
  <2> SUFFICES ASSUME ProcessesInv, [ProcessesNext]_vars
               PROVE  \A id \in DOMAIN rows :
                        IsTerminal(rows[id].status) => IsTerminal(rows'[id].status)
    OBVIOUS
  <2> QED
    BY StepsAreStatements, StoreNextGrows DEF RowsGrow, ProcessesInv, ProcessesTypeOK
<1> QED
  BY <1>1, ProcessesAreConsistent, PTL DEF ProcessesSpec, EndedJobsStayEnded
=============================================================================
