------------------------------- MODULE HttpApi -------------------------------
(***************************************************************************)
(* POST /jobs and GET /jobs/:id (src/src/http_server.cpp): what a body is  *)
(* refused for, what the INSERT makes of it, what is read back, and which  *)
(* answer the client gets, with requests that overlap, statements that     *)
(* fail, connections that break, and the death and the shutdown of the     *)
(* process.                                                                *)
(*                                                                         *)
(* The integers of a body are read in 64 bits, signed or unsigned; the     *)
(* width is a parameter.  Statuses and attempts are JobStore's subject:    *)
(* here a row is the columns that are posted.                              *)
(***************************************************************************)
EXTENDS Integers, Sequences

CONSTANTS
  RequestThreads,   \* Threads of the HTTP library.
  Bodies,           \* What clients post.
  IntMax,           \* The largest std::int64_t; unsigned goes to 2 IntMax + 1.
  PriorityMax,      \* The largest std::uint32_t.
  MaximumAttempts, MaximumDelayMs,   \* The constants of the handler.
  Absent, Other,    \* A field that is not there, one of another JSON type.
  NUL,              \* The character \u0000.
  MaxRequests,      \* Bound: requests.
  MaxFaults,        \* Bound: statements that fail.
  MaxLaunches,      \* Bound: launches of the program.
  NULL

Fields == {"maxAttempts", "delayMs", "retryBackoffMs", "priority"}

\* A sequence of characters.
IsText(text) == Len(text) \in Nat /\ text = [i \in 1 .. Len(text) |-> text[i]]

ASSUME ApiAssumption ==
  /\ IntMax \in Nat /\ PriorityMax \in 0 .. IntMax
  /\ MaximumAttempts \in 1 .. IntMax /\ MaximumDelayMs \in 0 .. IntMax
  /\ MaxRequests \in Nat /\ MaxFaults \in Nat /\ MaxLaunches \in Nat \ {0}
  /\ \A body \in Bodies :
       /\ \A text \in {body.name, body.payload} \ {Absent, Other} : IsText(text)
       /\ \A f \in Fields : body[f] \in Int \cup {Absent, Other}
  /\ {Absent, Other} \cap Int = {} /\ Absent # Other /\ NULL \notin Nat

VARIABLES
  table,       \* The jobs table: a function from ids to the posted columns.
  nextValue,   \* job_id_sequence.next_value.
  main,        \* "listening" | "closing" | "stopped" | "down"
  request,     \* Each thread's progress through the handler of POST /jobs.
  answers,     \* The answers clients got (history).
  requests, faults, launches

apiVars == <<table, nextValue, main, request, answers, requests, faults, launches>>

Idle == [pc |-> "idle", number |-> 0, body |-> NULL, id |-> NULL, status |-> 0]

-----------------------------------------------------------------------------
(* The body. *)

\* The JSON library takes a larger literal for a floating-point number.
IsNumberInteger(value) == value \in -(IntMax + 1) .. 2 * IntMax + 1

\* static_cast<std::int64_t>
AsInt64(n) == IF n > IntMax THEN n - 2 * (IntMax + 1) ELSE n

Refused == -(IntMax + 2)   \* The exception std::invalid_argument.

\* A non-negative literal is compared with the maximum before the cast.
ReadIntegerField(value, defaultValue, minimum, maximum) ==
  IF value = Absent THEN defaultValue
  ELSE IF /\ value # Other
          /\ IsNumberInteger(value)
          /\ value < 0 \/ value <= maximum
          /\ AsInt64(value) \in minimum .. maximum
       THEN AsInt64(value) ELSE Refused

ReadFields(body) ==
  [maxAttempts    |-> ReadIntegerField(body.maxAttempts, 1, 1, MaximumAttempts),
   delayMs        |-> ReadIntegerField(body.delayMs, 0, 0, MaximumDelayMs),
   retryBackoffMs |-> ReadIntegerField(body.retryBackoffMs, 0, 0, MaximumDelayMs),
   priority       |-> ReadIntegerField(body.priority, 0, 0, PriorityMax)]

\* hasJsonContentType fails, parse() or one of the checks throws, or neither.  The
\* answer to a body that does not parse quotes it, and dump() throws when what it
\* quotes is no UTF-8: the exception leaves the catch clause.
Verdict(body) ==
  IF ~body.isJson THEN 415
  ELSE IF body.syntax = "nonUTF8" THEN 500
  ELSE IF \/ body.syntax # "object"
          \/ body.name \in {Absent, Other, <<>>}
          \/ body.payload = Other
          \/ \E f \in Fields : ReadFields(body)[f] = Refused
       THEN 400
  ELSE 201

\* The Job made of a body.  The priority is narrowed to a std::uint32_t.
JobOf(body) ==
  LET fields == ReadFields(body)
  IN  [name           |-> body.name,
       payload        |-> IF body.payload = Absent THEN <<>> ELSE body.payload,
       maxAttempts    |-> fields.maxAttempts,
       delayMs        |-> fields.delayMs,
       retryBackoffMs |-> fields.retryBackoffMs,
       priority       |-> fields.priority % (PriorityMax + 1)]

-----------------------------------------------------------------------------
(* The row. *)

\* sqlite3_bind_text with the length -1: the text ends before its first NUL.
BindText(text) ==
  LET length == CHOOSE n \in 0 .. Len(text) :
                  /\ \A k \in 1 .. n : text[k] # NUL
                  /\ n = Len(text) \/ text[n + 1] = NUL
  IN  SubSeq(text, 1, length)

\* The columns of the INSERT, and its CHECKs.
RowOf(job) ==
  [job EXCEPT !.name = BindText(@), !.payload = BindText(@)]

MeetsChecks(row) ==
  row.priority >= 0 /\ row.delayMs >= 0 /\ row.retryBackoffMs >= 0 /\ row.maxAttempts >= 1

\* GET /jobs/:id: jobFromCurrentRow, which narrows the priority anew, jobToJson.
FindById(id) ==
  IF id \in DOMAIN table
  THEN [table[id] EXCEPT !.priority = @ % (PriorityMax + 1)]
  ELSE NULL

\* NULL stands for a row that is not there.
ASSUME NullIsNoRow ==
  \A body \in Bodies, priority \in 0 .. PriorityMax :
    Verdict(body) = 201 => [RowOf(JobOf(body)) EXCEPT !.priority = priority] # NULL

-----------------------------------------------------------------------------
ApiInit ==
  /\ table = [id \in {} |-> NULL] /\ nextValue = 1
  /\ main = "listening"
  /\ request = [h \in RequestThreads |-> Idle]
  /\ answers = {}
  /\ requests = 0 /\ faults = 0 /\ launches = 1

\* The server takes a request and checks its body.
Receive(h, body) ==
  /\ main = "listening" /\ request[h].pc = "idle" /\ requests < MaxRequests
  /\ requests' = requests + 1
  /\ request' = [request EXCEPT ![h] =
       [pc |-> IF Verdict(body) = 201 THEN "id" ELSE "answer", number |-> requests + 1,
        body |-> body, id |-> NULL, status |-> Verdict(body)]]
  /\ UNCHANGED <<table, nextValue, main, answers, faults, launches>>

\* The exception handler's answer to whatever else is thrown.
InternalError(h) == [request EXCEPT ![h].pc = "answer", ![h].status = 500]

\* JobService::add: generateJobId,
TakeId(h) ==
  /\ request[h].pc = "id"
  /\ nextValue' = nextValue + 1
  /\ request' = [request EXCEPT ![h].pc = "save", ![h].id = nextValue]
  /\ UNCHANGED <<table, main, answers, requests, faults, launches>>

\* save: the INSERT, or a violated CHECK,
SaveJob(h) ==
  LET row == RowOf(JobOf(request[h].body))
  IN  /\ request[h].pc = "save"
      /\ IF MeetsChecks(row) /\ request[h].id \notin DOMAIN table
         THEN /\ table' = [id \in DOMAIN table \cup {request[h].id} |->
                             IF id = request[h].id THEN row ELSE table[id]]
              /\ request' = [request EXCEPT ![h].pc = "hand"]
         ELSE request' = InternalError(h) /\ UNCHANGED table
      /\ UNCHANGED <<nextValue, main, answers, requests, faults, launches>>

\* a statement that fails,
StatementFails(h) ==
  /\ request[h].pc \in {"id", "save"} /\ faults < MaxFaults
  /\ faults' = faults + 1
  /\ request' = InternalError(h)
  /\ UNCHANGED <<table, nextValue, main, answers, requests, launches>>

\* and push, or schedule, which throws when the scheduler has been stopped.
HandOver(h) ==
  /\ request[h].pc = "hand"
  /\ request' = IF JobOf(request[h].body).delayMs > 0 /\ main = "stopped"
                THEN InternalError(h) ELSE [request EXCEPT ![h].pc = "answer"]
  /\ UNCHANGED <<table, nextValue, main, answers, requests, faults, launches>>

Answer(h) ==
  /\ request[h].pc = "answer"
  /\ answers' = answers \cup {request[h]}
  /\ request' = [request EXCEPT ![h] = Idle]
  /\ UNCHANGED <<table, nextValue, main, requests, faults, launches>>

\* The connection breaks: the client does not learn what happened.
AnswerLost(h) ==
  /\ request[h].pc = "answer"
  /\ request' = [request EXCEPT ![h] = Idle]
  /\ UNCHANGED <<table, nextValue, main, answers, requests, faults, launches>>

\* main: httpServer.stop() takes no more requests
CloseServer ==
  /\ main = "listening"
  /\ main' = "closing"
  /\ UNCHANGED <<table, nextValue, request, answers, requests, faults, launches>>

\* Mutant: the scheduler is stopped while requests are served.
StopSchedulerAtOnce ==
  /\ main = "closing"
  /\ main' = "stopped"
  /\ UNCHANGED <<table, nextValue, request, answers, requests, faults, launches>>

\* and returns when those it took are answered; then the scheduler is stopped.
StopScheduler ==
  /\ main = "closing"
  /\ \A h \in RequestThreads : request[h].pc = "idle"
  /\ main' = "stopped"
  /\ UNCHANGED <<table, nextValue, request, answers, requests, faults, launches>>

\* The process ends, or dies.
Down ==
  /\ main # "down"
  /\ main' = "down"
  /\ request' = [h \in RequestThreads |-> Idle]
  /\ UNCHANGED <<table, nextValue, answers, requests, faults, launches>>

Launch ==
  /\ main = "down" /\ launches < MaxLaunches
  /\ main' = "listening" /\ launches' = launches + 1
  /\ UNCHANGED <<table, nextValue, request, answers, requests, faults>>

HandlerStep(h) ==
  \/ TakeId(h) \/ SaveJob(h) \/ StatementFails(h) \/ HandOver(h)
  \/ Answer(h) \/ AnswerLost(h)

ApiNext ==
  \/ \E h \in RequestThreads, body \in Bodies : Receive(h, body)
  \/ \E h \in RequestThreads : HandlerStep(h)
  \/ CloseServer \/ StopScheduler \/ Down \/ Launch

ApiSpec == ApiInit /\ [][ApiNext]_apiVars

-----------------------------------------------------------------------------
(* Properties. *)

ApiTypeOK ==
  /\ DOMAIN table \subseteq 1 .. nextValue - 1 /\ nextValue \in 1 .. MaxRequests + 1
  /\ main \in {"listening", "closing", "stopped", "down"}
  /\ request \in [RequestThreads ->
       [pc : {"idle", "id", "save", "hand", "answer"}, number : 0 .. MaxRequests,
        body : Bodies \cup {NULL}, id : (1 .. nextValue - 1) \cup {NULL},
        status : {0, 201, 400, 415, 500}]]
  /\ requests \in 0 .. MaxRequests /\ faults \in 0 .. MaxFaults
  /\ launches \in 1 .. MaxLaunches

\* What the body asks for, as a client understands it.
AsksFor(body, field, default) == IF body[field] = Absent THEN default ELSE body[field]

\* Whether a row has the values that JobEngine assumes of its jobs.
WithinLimits(row) ==
  /\ row.maxAttempts \in 1 .. MaximumAttempts
  /\ {row.delayMs, row.retryBackoffMs} \subseteq 0 .. MaximumDelayMs
  /\ row.priority \in 0 .. PriorityMax

\* Every variable has its type.  A client that is told 201 owns that id alone,
\* and GET finds under it, then and after any restart, every number it posted,
\* each within its limits, and every text it posted unless there is a NUL in
\* it.  A client that is told anything else has left no row behind, so that it
\* may post again.
AnswersAreTrue ==
  /\ ApiTypeOK
  /\ \A a \in answers :
       IF a.status = 201
       THEN /\ FindById(a.id) # NULL /\ WithinLimits(FindById(a.id))
            /\ \A b \in answers \ {a} : b.status = 201 => b.id # a.id
            /\ FindById(a.id).maxAttempts = AsksFor(a.body, "maxAttempts", 1)
            /\ FindById(a.id).delayMs = AsksFor(a.body, "delayMs", 0)
            /\ FindById(a.id).retryBackoffMs = AsksFor(a.body, "retryBackoffMs", 0)
            /\ FindById(a.id).priority = AsksFor(a.body, "priority", 0)
            /\ \A column \in {"name", "payload"} :
                 LET text == JobOf(a.body)[column]
                 IN  (\A i \in DOMAIN text : text[i] # NUL) => FindById(a.id)[column] = text
       ELSE a.id \notin DOMAIN table
=============================================================================
