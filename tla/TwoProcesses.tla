---------------------------- MODULE TwoProcesses ----------------------------
(***************************************************************************)
(* Several processes of the program on one database file.  main restores   *)
(* the unfinished jobs and starts its worker before it binds the port, so  *)
(* a process launched while another serves takes that one's jobs over and  *)
(* runs some of them, until it fails to bind and ends.                     *)
(*                                                                         *)
(* The processes share the job table only; every statement is atomic.      *)
(* Jobs here have no delays; the queue, the dispatcher and the pool of a   *)
(* process are one set of jobs it will start.  An exception nobody catches *)
(* ends its process: one of restoreUnfinished, and one of bind.  One that  *)
(* leaves a task ends in the future of the task, which nobody reads.       *)
(***************************************************************************)
EXTENDS Naturals, FiniteSets

CONSTANTS
  Processes,
  Specs,         \* The immutable columns of the jobs that are posted.
  MaxJobs,       \* Bound: jobs that are posted.
  MaxLaunches,   \* Bound: launches of all processes together.
  NULL

ASSUME ProcessesAssumption ==
  /\ MaxJobs \in Nat /\ MaxLaunches \in Nat
  /\ Specs \subseteq [priority : Nat, delay : Nat, retryBackoff : Nat,
                      maxAttempts : Nat \ {0}]
  /\ NULL \notin Nat \cup Processes \cup [id : Nat, spec : Specs]
  /\ NULL \notin {"no attempts at recovery", "not started", "handler", "result"}

VARIABLES
  rows, nextValue,   \* JobStore: the database file.
  port,              \* The process that bound the port, or NULL.
  pc,         \* Each process: "down" | "reading" | "restoring" | "binding" | "serving"
  toRestore,  \* The rows unfinished() returned to it and it has not handled.
  request,    \* The job it is about to save, or NULL.
  ready,      \* The jobs it holds and will start.
  tasks,      \* Its tasks that run a handler, or whose startAttempt threw.
  launches

INSTANCE JobStore WITH Reasons <- {"no attempts at recovery", "not started", "handler"},
                       Results <- {"result"}, Delays <- {}

memory == <<toRestore, request, ready, tasks>>
vars == <<rows, nextValue, port, pc, memory, launches>>

-----------------------------------------------------------------------------
ProcessesInit ==
  /\ StoreInit
  /\ port = NULL
  /\ pc = [p \in Processes |-> "down"]
  /\ toRestore = [p \in Processes |-> {}]
  /\ request = [p \in Processes |-> NULL]
  /\ ready = [p \in Processes |-> {}]
  /\ tasks = [p \in Processes |-> {}]
  /\ launches = 0

Launch(p) ==
  /\ pc[p] = "down" /\ launches < MaxLaunches
  /\ launches' = launches + 1
  /\ pc' = [pc EXCEPT ![p] = "reading"]
  /\ UNCHANGED <<rows, nextValue, port, memory>>

\* The process ends without a stop; the system frees its port.
Dies(p) ==
  /\ pc' = [pc EXCEPT ![p] = "down"]
  /\ port' = IF port = p THEN NULL ELSE port
  /\ toRestore' = [toRestore EXCEPT ![p] = {}]
  /\ request' = [request EXCEPT ![p] = NULL]
  /\ ready' = [ready EXCEPT ![p] = {}]
  /\ tasks' = [tasks EXCEPT ![p] = {}]
  /\ UNCHANGED <<rows, nextValue, launches>>

Crash(p) == pc[p] # "down" /\ Dies(p)

ReadUnfinished(p) ==
  /\ pc[p] = "reading"
  /\ pc' = [pc EXCEPT ![p] = "restoring"]
  /\ toRestore' = [toRestore EXCEPT ![p] = Unfinished]
  /\ UNCHANGED <<rows, nextValue, port, request, ready, tasks, launches>>

\* The body of the loop of restoreUnfinished acts on what was read, which
\* another process may have changed since.
RestoreOne(p, snapshot) ==
  LET job == snapshot.job
      pushes == ready' = [ready EXCEPT ![p] = @ \cup {job}]
  IN  /\ pc[p] = "restoring" /\ snapshot \in toRestore[p]
      /\ toRestore' = [toRestore EXCEPT ![p] = @ \ {snapshot}]
      /\ \/ /\ snapshot.attemptsMade >= job.spec.maxAttempts
            /\ MarkFailed(job.id, "no attempts at recovery")
            /\ UNCHANGED ready
         \/ /\ snapshot.attemptsMade < job.spec.maxAttempts /\ snapshot.status = "active"
            /\ MarkWaiting(job.id, NULL)
            /\ pushes
         \/ /\ snapshot.attemptsMade < job.spec.maxAttempts /\ snapshot.status = "waiting"
            /\ pushes
            /\ UNCHANGED <<rows, nextValue>>
      /\ UNCHANGED <<port, pc, request, tasks, launches>>

\* markWaiting throws: the job is no longer active.
RestoreThrows(p, snapshot) ==
  /\ pc[p] = "restoring" /\ snapshot \in toRestore[p]
  /\ snapshot.attemptsMade < snapshot.job.spec.maxAttempts
  /\ snapshot.status = "active" /\ ~AcceptsWaiting(snapshot.job.id)
  /\ Dies(p)

\* worker.start()
StartWorker(p) ==
  /\ pc[p] = "restoring" /\ toRestore[p] = {}
  /\ pc' = [pc EXCEPT ![p] = "binding"]
  /\ UNCHANGED <<rows, nextValue, port, memory, launches>>

\* bind_to_port
Bind(p) ==
  /\ pc[p] = "binding"
  /\ \/ /\ port = NULL
        /\ port' = p /\ pc' = [pc EXCEPT ![p] = "serving"]
        /\ UNCHANGED <<rows, nextValue, memory, launches>>
     \/ port # NULL /\ Dies(p)

\* JobService::add: the id, then the row and the push.
TakeId(p, spec) ==
  /\ pc[p] = "serving" /\ request[p] = NULL
  /\ GenerateJobId
  /\ request' = [request EXCEPT ![p] = [id |-> nextValue, spec |-> spec]]
  /\ UNCHANGED <<port, pc, toRestore, ready, tasks, launches>>

SaveJob(p) ==
  /\ request[p] # NULL
  /\ Save(request[p], NULL)
  /\ ready' = [ready EXCEPT ![p] = @ \cup {request[p]}]
  /\ request' = [request EXCEPT ![p] = NULL]
  /\ UNCHANGED <<port, pc, toRestore, tasks, launches>>

\* A task calls startAttempt, which throws when the row is not waiting.
Start(p, job) ==
  /\ pc[p] \in {"binding", "serving"} /\ job \in ready[p]
  /\ ready' = [ready EXCEPT ![p] = @ \ {job}]
  /\ \/ /\ StartAttempt(job.id)
        /\ tasks' = [tasks EXCEPT ![p] = @ \cup
             {[job |-> job, pc |-> "running", attemptsMade |-> rows'[job.id].attemptsMade]}]
     \/ /\ ~AcceptsStart(job.id)
        /\ tasks' = [tasks EXCEPT ![p] = @ \cup
             {[job |-> job, pc |-> "not started", attemptsMade |-> 0]}]
        /\ UNCHANGED <<rows, nextValue>>
  /\ UNCHANGED <<port, pc, toRestore, request, launches>>

\* The task ends with markCompleted or markFailed, whoever owns the row now.
EndTask(p, task) ==
  /\ task \in tasks[p]
  /\ tasks' = [tasks EXCEPT ![p] = @ \ {task}]
  /\ \/ task.pc = "running" /\ MarkCompleted(task.job.id, "result")
     \/ task.pc = "running" /\ MarkFailed(task.job.id, "handler")
     \/ task.pc = "not started" /\ MarkFailed(task.job.id, "not started")
  /\ UNCHANGED <<port, pc, toRestore, request, ready, launches>>

MayRetry(task) == task.pc = "running" /\ task.attemptsMade < task.job.spec.maxAttempts

\* RetryableJobError with attempts left: markWaiting and push.
Retry(p, task) ==
  /\ task \in tasks[p] /\ MayRetry(task)
  /\ MarkWaiting(task.job.id, NULL)
  /\ tasks' = [tasks EXCEPT ![p] = @ \ {task}]
  /\ ready' = [ready EXCEPT ![p] = @ \cup {task.job}]
  /\ UNCHANGED <<port, pc, toRestore, request, launches>>

\* markWaiting throws in the handler of RetryableJobError: the task ends, and
\* its process neither fails the job nor hands it on.
RetryThrows(p, task) ==
  /\ task \in tasks[p] /\ MayRetry(task) /\ ~AcceptsWaiting(task.job.id)
  /\ tasks' = [tasks EXCEPT ![p] = @ \ {task}]
  /\ UNCHANGED <<rows, nextValue, port, pc, toRestore, request, ready, launches>>

Runs(p) ==
  \/ ReadUnfinished(p) \/ StartWorker(p) \/ Bind(p) \/ SaveJob(p)
  \/ \E snapshot \in toRestore[p] : RestoreOne(p, snapshot) \/ RestoreThrows(p, snapshot)
  \/ \E job \in ready[p] : Start(p, job)
  \/ \E task \in tasks[p] : EndTask(p, task) \/ Retry(p, task) \/ RetryThrows(p, task)

ProcessesNext ==
  \E p \in Processes :
    Launch(p) \/ Crash(p) \/ Runs(p) \/ \E spec \in Specs : TakeId(p, spec)

\* A process that is up runs.  Nobody has to launch one, to post or to crash.
ProcessesSpec ==
  ProcessesInit /\ [][ProcessesNext]_vars /\ \A p \in Processes : WF_vars(Runs(p))

-----------------------------------------------------------------------------
(* Properties. *)

Task == [job : Job, pc : {"running", "not started"}, attemptsMade : Nat]

\* A row as unfinished() returned it.
Snapshot == [job : Job, status : {"waiting", "active"}, attemptsMade : Nat,
             availableAt : Nat \cup {NULL}]

ProcessesTypeOK ==
  /\ StoreTypeOK
  /\ port \in Processes \cup {NULL}
  /\ pc \in [Processes -> {"down", "reading", "restoring", "binding", "serving"}]
  /\ toRestore \in [Processes -> SUBSET Snapshot]
  /\ request \in [Processes -> Job \cup {NULL}]
  /\ ready \in [Processes -> SUBSET Job]
  /\ tasks \in [Processes -> SUBSET Task]
  /\ launches \in 0 .. MaxLaunches

\* However processes interfere, every variable keeps its type and each attempt
\* of a job is one task's: what a handler is told about its attempt is true of no
\* other call of a handler.
AttemptsAreExclusive ==
  /\ ProcessesTypeOK
  /\ \A p, q \in Processes : \A t \in tasks[p], u \in tasks[q] :
       ( /\ t.pc = "running" /\ u.pc = "running" /\ t.job.id = u.job.id
         /\ t.attemptsMade = u.attemptsMade ) => p = q /\ t = u

\* A job that has ended is not brought back by a process that read it before,
\* although its way of ending may be overwritten by one that still runs it.
EndedJobsStayEnded ==
  [][\A id \in DOMAIN rows : IsTerminal(rows[id].status) => IsTerminal(rows'[id].status)]_vars

\* Whatever interference left in the table, and jobs that no process holds any
\* more, a process launched while no other is up runs to its end, unless it
\* is disturbed again.
Alone(p) ==
  /\ pc[p] = "reading"
  /\ \A q \in Processes \ {p} : pc[q] = "down"

LoneProcessFinishes ==
  \A p \in Processes :
    Alone(p) ~> \/ \A id \in DOMAIN rows : IsTerminal(rows[id].status)
                \/ pc[p] = "down"
                \/ \E q \in Processes \ {p} : pc[q] # "down"
=============================================================================
