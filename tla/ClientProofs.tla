---------------------------- MODULE ClientProofs ----------------------------
(***************************************************************************)
(* Proofs about what clients are told: that the answers of HttpApi are     *)
(* true for any bodies, limits, threads and launches, and that the page of *)
(* Dashboard shows and says what the table had, for any number of jobs and *)
(* of requests that fail.                                                  *)
(***************************************************************************)
EXTENDS HttpApi, Dashboard, Counting

-----------------------------------------------------------------------------
(* HttpApi: the body and the row. *)

\* A number that is not refused is the one that was posted, within its limits.
LEMMA ReadIsExact ==
  ASSUME NEW value \in Int \cup {Absent, Other},
         NEW maximum \in 0 .. IntMax, NEW minimum \in {0, 1}, NEW default \in minimum .. maximum,
         ReadIntegerField(value, default, minimum, maximum) # Refused
  PROVE  /\ ReadIntegerField(value, default, minimum, maximum)
              = IF value = Absent THEN default ELSE value
        /\ ReadIntegerField(value, default, minimum, maximum) \in minimum .. maximum
PROOF
<1>0. IntMax \in Nat
  BY ApiAssumption
<1>1. CASE value = Absent
  BY <1>1 DEF ReadIntegerField
<1>2. CASE value # Absent
  <2>1. /\ value \in Int /\ (value < 0 \/ value <= maximum)
        /\ AsInt64(value) \in minimum .. maximum
        /\ ReadIntegerField(value, default, minimum, maximum) = AsInt64(value)
    BY <1>2 DEF ReadIntegerField
  <2>2. value <= IntMax
    BY <1>0, <2>1
  <2>3. AsInt64(value) = value
    BY <1>0, <2>1, <2>2 DEF AsInt64
  <2> QED
    BY <1>2, <2>1, <2>3
<1> QED
  BY <1>1, <1>2

\* A text without a NUL is bound as it is.
LEMMA BindKeepsText ==
  ASSUME NEW text, IsText(text), \A i \in DOMAIN text : text[i] # NUL
  PROVE  BindText(text) = text
PROOF
<1> DEFINE Ends(n) == /\ \A k \in 1 .. n : text[k] # NUL
                      /\ n = Len(text) \/ text[n + 1] = NUL
           length == CHOOSE n \in 0 .. Len(text) : Ends(n)
<1>1. Len(text) \in Nat /\ DOMAIN text = 1 .. Len(text) /\ text = [i \in 1 .. Len(text) |-> text[i]]
  BY DEF IsText
<1>2. text \in Seq({text[i] : i \in 1 .. Len(text)})
  BY <1>1
<1>3. Ends(Len(text)) /\ Len(text) \in 0 .. Len(text)
  BY <1>1
<1>4. length \in 0 .. Len(text) /\ Ends(length)
  <2> HIDE DEF Ends
  <2> QED
    BY <1>3
<1>5. length = Len(text)
  <2> HIDE DEF length
  <2> SUFFICES ASSUME length # Len(text) PROVE FALSE
    OBVIOUS
  <2>1. length + 1 \in 1 .. Len(text) /\ text[length + 1] = NUL
    BY <1>1, <1>4
  <2> QED
    BY <1>1, <2>1
<1>6. BindText(text) = SubSeq(text, 1, length)
  BY DEF BindText
<1>7. SubSeq(text, 1, Len(text)) = text
  <2> HIDE DEF length, Ends
  <2> QED
    BY <1>1, <1>2
<1> QED
  BY <1>5, <1>6, <1>7

\* The row of a body that is accepted is what the body asks for.
AskedFor(body, row) ==
  /\ WithinLimits(row) /\ MeetsChecks(row)
  /\ row.maxAttempts = AsksFor(body, "maxAttempts", 1)
  /\ row.delayMs = AsksFor(body, "delayMs", 0)
  /\ row.retryBackoffMs = AsksFor(body, "retryBackoffMs", 0)
  /\ row.priority = AsksFor(body, "priority", 0)
  /\ \A column \in {"name", "payload"} :
       LET text == JobOf(body)[column]
       IN  (\A i \in DOMAIN text : text[i] # NUL) => row[column] = text

\* A body that is not refused passed every check.
LEMMA VerdictPasses ==
  ASSUME NEW body, Verdict(body) = 201
  PROVE  /\ body.isJson /\ body.name \notin {Absent, Other, <<>>} /\ body.payload # Other
         /\ \A f \in Fields : ReadFields(body)[f] # Refused
BY DEF Verdict

\* What the INSERT stores of a body that was not refused, and what is read
\* back, has the posted numbers, within their limits, and the posted texts as
\* far as they have no NUL.
LEMMA RowIsAskedFor ==
  ASSUME NEW body \in Bodies, Verdict(body) = 201
  PROVE  LET row == RowOf(JobOf(body))
         IN  /\ AskedFor(body, row)
             /\ AskedFor(body, [row EXCEPT !.priority = @ % (PriorityMax + 1)])
PROOF
<1>0a. PICK fields : fields = ReadFields(body)
  OBVIOUS
<1> DEFINE row == RowOf(JobOf(body))
           readBack == [row EXCEPT !.priority = @ % (PriorityMax + 1)]
<1>0. /\ IntMax \in Nat /\ PriorityMax \in 0 .. IntMax
      /\ MaximumAttempts \in 1 .. IntMax /\ MaximumDelayMs \in 0 .. IntMax
      /\ body.maxAttempts \in Int \cup {Absent, Other}
      /\ body.delayMs \in Int \cup {Absent, Other}
      /\ body.retryBackoffMs \in Int \cup {Absent, Other}
      /\ body.priority \in Int \cup {Absent, Other}
  BY ApiAssumption DEF Fields
<1>1. /\ body.isJson /\ body.name \notin {Absent, Other} /\ body.payload # Other
      /\ \A f \in Fields : fields[f] # Refused
  BY <1>0a, VerdictPasses
<1>2. /\ fields.maxAttempts # Refused /\ fields.delayMs # Refused
      /\ fields.retryBackoffMs # Refused /\ fields.priority # Refused
  BY <1>0a, <1>1 DEF Fields, ReadFields
<1>4. /\ fields.maxAttempts = AsksFor(body, "maxAttempts", 1)
      /\ fields.maxAttempts \in 1 .. MaximumAttempts
  <2>1. fields.maxAttempts = ReadIntegerField(body.maxAttempts, 1, 1, MaximumAttempts)
    BY <1>0a DEF ReadFields
  <2>2. /\ ReadIntegerField(body.maxAttempts, 1, 1, MaximumAttempts)
              = IF body.maxAttempts = Absent THEN 1 ELSE body.maxAttempts
        /\ ReadIntegerField(body.maxAttempts, 1, 1, MaximumAttempts) \in 1 .. MaximumAttempts
    <3>1. MaximumAttempts \in 0 .. IntMax /\ 1 \in 1 .. MaximumAttempts /\ 1 \in {0, 1}
      BY <1>0
    <3>2. ReadIntegerField(body.maxAttempts, 1, 1, MaximumAttempts) # Refused
      BY <1>2, <2>1
    <3> QED
      BY <1>0, <3>1, <3>2, ReadIsExact
  <2> QED
    BY <2>1, <2>2 DEF AsksFor
<1>5. /\ fields.delayMs = AsksFor(body, "delayMs", 0)
      /\ fields.delayMs \in 0 .. MaximumDelayMs
      /\ fields.retryBackoffMs = AsksFor(body, "retryBackoffMs", 0)
      /\ fields.retryBackoffMs \in 0 .. MaximumDelayMs
      /\ fields.priority = AsksFor(body, "priority", 0)
      /\ fields.priority \in 0 .. PriorityMax
  <2>1. fields.delayMs = ReadIntegerField(body.delayMs, 0, 0, MaximumDelayMs)
    BY <1>0a DEF ReadFields
  <2>2. /\ ReadIntegerField(body.delayMs, 0, 0, MaximumDelayMs)
              = IF body.delayMs = Absent THEN 0 ELSE body.delayMs
        /\ ReadIntegerField(body.delayMs, 0, 0, MaximumDelayMs) \in 0 .. MaximumDelayMs
    <3>1. MaximumDelayMs \in 0 .. IntMax /\ 0 \in 0 .. MaximumDelayMs /\ 0 \in {0, 1}
      BY <1>0
    <3>2. ReadIntegerField(body.delayMs, 0, 0, MaximumDelayMs) # Refused
      BY <1>2, <2>1
    <3> QED
      BY <1>0, <3>1, <3>2, ReadIsExact
  <2>3. fields.retryBackoffMs = ReadIntegerField(body.retryBackoffMs, 0, 0, MaximumDelayMs)
    BY <1>0a DEF ReadFields
  <2>4. /\ ReadIntegerField(body.retryBackoffMs, 0, 0, MaximumDelayMs)
              = IF body.retryBackoffMs = Absent THEN 0 ELSE body.retryBackoffMs
        /\ ReadIntegerField(body.retryBackoffMs, 0, 0, MaximumDelayMs) \in 0 .. MaximumDelayMs
    <3>1. MaximumDelayMs \in 0 .. IntMax /\ 0 \in 0 .. MaximumDelayMs /\ 0 \in {0, 1}
      BY <1>0
    <3>2. ReadIntegerField(body.retryBackoffMs, 0, 0, MaximumDelayMs) # Refused
      BY <1>2, <2>3
    <3> QED
      BY <1>0, <3>1, <3>2, ReadIsExact
  <2>5. fields.priority = ReadIntegerField(body.priority, 0, 0, PriorityMax)
    BY <1>0a DEF ReadFields
  <2>6. /\ ReadIntegerField(body.priority, 0, 0, PriorityMax)
              = IF body.priority = Absent THEN 0 ELSE body.priority
        /\ ReadIntegerField(body.priority, 0, 0, PriorityMax) \in 0 .. PriorityMax
    <3>1. PriorityMax \in 0 .. IntMax /\ 0 \in 0 .. PriorityMax /\ 0 \in {0, 1}
      BY <1>0
    <3>2. ReadIntegerField(body.priority, 0, 0, PriorityMax) # Refused
      BY <1>2, <2>5
    <3> QED
      BY <1>0, <3>1, <3>2, ReadIsExact
  <2> QED
    BY <2>1, <2>2, <2>3, <2>4, <2>5, <2>6 DEF AsksFor
<1>6. \A n \in 0 .. PriorityMax : n % (PriorityMax + 1) = n
  BY <1>0
<1>7. \A columns \in {row, readBack} :
        /\ columns.name = BindText(JobOf(body).name)
        /\ columns.payload = BindText(JobOf(body).payload)
        /\ columns.maxAttempts = fields.maxAttempts
        /\ columns.delayMs = fields.delayMs
        /\ columns.retryBackoffMs = fields.retryBackoffMs
        /\ columns.priority = fields.priority
  <2>1. fields.priority % (PriorityMax + 1) = fields.priority
    BY <1>5, <1>6
  <2>2. PICK name, payload :
          JobOf(body) = [name           |-> name,
                         payload        |-> payload,
                         maxAttempts    |-> fields.maxAttempts,
                         delayMs        |-> fields.delayMs,
                         retryBackoffMs |-> fields.retryBackoffMs,
                         priority       |-> fields.priority]
    BY <1>0a, <2>1 DEF JobOf
  <2>3. /\ row.name = BindText(JobOf(body).name)
        /\ row.payload = BindText(JobOf(body).payload)
        /\ row.maxAttempts = fields.maxAttempts
        /\ row.delayMs = fields.delayMs
        /\ row.retryBackoffMs = fields.retryBackoffMs
        /\ row.priority = fields.priority
    BY <2>2 DEF RowOf
  <2>4. /\ readBack.name = row.name
        /\ readBack.payload = row.payload
        /\ readBack.maxAttempts = row.maxAttempts
        /\ readBack.delayMs = row.delayMs
        /\ readBack.retryBackoffMs = row.retryBackoffMs
        /\ readBack.priority = row.priority
    BY <2>1, <2>2, <2>3 DEF RowOf
  <2> HIDE DEF row, readBack
  <2> QED
    BY <2>3, <2>4
<1>9. IsText(JobOf(body).name) /\ IsText(JobOf(body).payload)
  <2>1. body.name \in {body.name, body.payload} \ {Absent, Other} => IsText(body.name)
    BY ApiAssumption
  <2>2. body.payload \in {body.name, body.payload} \ {Absent, Other} => IsText(body.payload)
    BY ApiAssumption
  <2>3. IsText(<<>>)
    BY DEF IsText
  <2>4. /\ JobOf(body).name = body.name
        /\ JobOf(body).payload = IF body.payload = Absent THEN <<>> ELSE body.payload
    BY DEF JobOf
  <2> QED
    BY <1>1, <2>1, <2>2, <2>3, <2>4
<1>10. \A columns \in {row, readBack}, column \in {"name", "payload"} :
         LET text == JobOf(body)[column]
         IN  (\A i \in DOMAIN text : text[i] # NUL) => columns[column] = text
  <2>1. /\ (\A i \in DOMAIN JobOf(body).name : JobOf(body).name[i] # NUL)
           => BindText(JobOf(body).name) = JobOf(body).name
        /\ (\A i \in DOMAIN JobOf(body).payload : JobOf(body).payload[i] # NUL)
           => BindText(JobOf(body).payload) = JobOf(body).payload
    BY <1>9, BindKeepsText
  <2> HIDE DEF row, readBack
  <2> QED
    BY <1>7, <2>1
<1>11. ASSUME NEW columns \in {row, readBack}
       PROVE  AskedFor(body, columns)
  <2> HIDE DEF row, readBack
  <2>1. WithinLimits(columns)
    BY <1>4, <1>5, <1>7 DEF WithinLimits
  <2>2. MeetsChecks(columns)
    BY <1>0, <1>4, <1>5, <1>7 DEF MeetsChecks
  <2> QED
    BY <1>4, <1>5, <1>7, <1>10, <2>1, <2>2 DEF AskedFor
<1> HIDE DEF row, readBack
<1> QED
  BY <1>11 DEF row, readBack

-----------------------------------------------------------------------------
(* HttpApi: the inductive invariant. *)

\* An answer, or a request that is as good as answered, says what the table
\* says.
Truth(a) ==
  IF a.status = 201
  THEN /\ a.body \in Bodies /\ Verdict(a.body) = 201
       /\ a.id \in DOMAIN table /\ table[a.id] = RowOf(JobOf(a.body))
  ELSE a.id \notin DOMAIN table

\* How far a request is, what it holds, and what is there of it in the table.
InOrder(r) ==
  /\ r.pc \in {"id", "save", "hand"} =>
       r.body \in Bodies /\ Verdict(r.body) = 201 /\ r.status = 201
  /\ r.pc \in {"idle", "id"} => r.id = NULL
  /\ r.pc = "save" => r.id # NULL /\ r.id \notin DOMAIN table
  /\ r.pc \in {"hand", "answer"} => Truth(r)
  /\ r.pc # "idle" => main \in {"listening", "closing"}

RequestsInv == \A h \in RequestThreads : InOrder(request[h])

AnswersInv ==
  \A a \in answers : Truth(a) /\ a.id \in (1 .. nextValue - 1) \cup {NULL}

\* An id belongs to one request or to one answer.
OwnIds ==
  /\ \A h \in RequestThreads :
       request[h].id # NULL =>
         /\ \A g \in RequestThreads \ {h} : request[g].id # request[h].id
         /\ \A a \in answers : a.id # request[h].id
  /\ \A a, b \in answers : a.id # NULL /\ a.id = b.id => a = b

\* Who will take an id.
Taking == {h \in RequestThreads : request[h].pc = "id"}

\* There are enough ids.
IdsSuffice ==
  IsFiniteSet(Taking) /\ nextValue - 1 + Cardinality(Taking) <= requests

ApiInv == ApiTypeOK /\ RequestsInv /\ AnswersInv /\ OwnIds /\ IdsSuffice

\* What a verdict can be.
LEMMA VerdictType == ASSUME NEW body PROVE Verdict(body) \in {201, 400, 415, 500}
BY DEF Verdict

\* The invariant holds when the server begins to listen on a new file.
LEMMA ApiInvInit == ApiInit => ApiInv
PROOF
<1> SUFFICES ASSUME ApiInit PROVE ApiInv
  OBVIOUS
<1>0. MaxRequests \in Nat /\ MaxFaults \in Nat /\ MaxLaunches \in Nat \ {0}
  BY ApiAssumption
<1>1. DOMAIN table = {} /\ nextValue = 1
  BY DEF ApiInit
<1>2. \A h \in RequestThreads : request[h] = Idle
  BY DEF ApiInit
<1>3. ApiTypeOK
  BY <1>0, <1>1 DEF ApiInit, ApiTypeOK, Idle
<1>4. RequestsInv /\ AnswersInv /\ OwnIds
  BY <1>1, <1>2 DEF ApiInit, RequestsInv, InOrder, Idle, AnswersInv, OwnIds
<1>5. IdsSuffice
  <2>1. Taking = {}
    BY <1>2 DEF Taking, Idle
  <2>2. IsFiniteSet(Taking) /\ Cardinality(Taking) = 0
    BY <2>1, FS_EmptySet
  <2> QED
    BY <2>2 DEF ApiInit, IdsSuffice
<1> QED
  BY <1>3, <1>4, <1>5 DEF ApiInv

\* A step of one thread, which may add the row of its own job, take the next id,
\* or answer.
LEMMA ThreadMoves ==
  ASSUME ApiInv, NEW h \in RequestThreads, NEW r,
         request' = [request EXCEPT ![h] = r], InOrder(r)', main' = main,
         \A id \in DOMAIN table : id \in DOMAIN table' /\ table'[id] = table[id],
         \A id \in DOMAIN table' \ DOMAIN table : id = request[h].id /\ request[h].pc = "save",
         \/ nextValue' = nextValue /\ r.id \in {request[h].id, NULL}
         \/ nextValue' = nextValue + 1 /\ r.id = nextValue,
         \/ answers' = answers
         \/ /\ answers' = answers \cup {request[h]}
            /\ request[h].pc = "answer" /\ r.id = NULL
  PROVE  RequestsInv' /\ AnswersInv' /\ OwnIds'
PROOF
<1>0. /\ request \in [RequestThreads -> [pc : {"idle", "id", "save", "hand", "answer"},
           number : 0 .. MaxRequests, body : Bodies \cup {NULL},
           id : (1 .. nextValue - 1) \cup {NULL}, status : {0, 201, 400, 415, 500}]]
      /\ DOMAIN table \subseteq 1 .. nextValue - 1 /\ nextValue \in Nat
      /\ RequestsInv /\ AnswersInv /\ OwnIds
  BY ApiAssumption DEF ApiInv, ApiTypeOK
<1>1. /\ request'[h] = r
      /\ \A g \in RequestThreads \ {h} : request'[g] = request[g]
  BY <1>0
<1>2. /\ \A g \in RequestThreads : request[g].id \in (1 .. nextValue - 1) \cup {NULL}
      /\ \A a \in answers : a.id \in (1 .. nextValue - 1) \cup {NULL}
      /\ NULL \notin Nat
  BY <1>0, ApiAssumption DEF AnswersInv
\* What is true of anybody else's id stays true.
<1>3. ASSUME NEW a, Truth(a), a.id \in (1 .. nextValue - 1) \cup {NULL},
             request[h].pc = "save" => a.id # request[h].id
      PROVE  Truth(a)'
  <2>1. NULL \notin DOMAIN table'
    <3>1. request[h].pc = "save" => request[h].id # NULL
      BY <1>0 DEF RequestsInv, InOrder
    <3> QED
      BY <1>0, <1>2, <3>1
  <2> QED
    BY <1>3, <2>1 DEF Truth
<1>4. ASSUME NEW a \in answers
      PROVE  Truth(a)' /\ a.id \in (1 .. nextValue' - 1) \cup {NULL}
  <2>1. request[h].pc = "save" => a.id # request[h].id
    BY <1>0 DEF RequestsInv, InOrder, OwnIds
  <2>2. Truth(a)'
    BY <1>0, <1>2, <1>3, <2>1 DEF AnswersInv
  <2> QED
    BY <1>0, <1>2, <2>2
<1>5. RequestsInv'
  <2> SUFFICES ASSUME NEW g \in RequestThreads, g # h
               PROVE  InOrder(request[g])'
    BY <1>1 DEF RequestsInv
  <2>1. request'[g] = request[g] /\ InOrder(request[g])
    BY <1>0, <1>1 DEF RequestsInv
  <2>2. request[h].pc = "save" => request[g].id # request[h].id
    BY <1>0 DEF RequestsInv, InOrder, OwnIds
  <2>3. Truth(request[g]) => Truth(request[g])'
    BY <1>2, <1>3, <2>1, <2>2 DEF Truth
  <2>4. request[g].pc = "save" => request[g].id \notin DOMAIN table'
    BY <2>1, <2>2 DEF InOrder
  <2> QED
    BY <2>1, <2>3, <2>4 DEF InOrder
<1>6. AnswersInv'
  <2>1. ASSUME NEW a, a = request[h], a.pc = "answer"
        PROVE  Truth(a)' /\ a.id \in (1 .. nextValue' - 1) \cup {NULL}
    <3>1. Truth(a) /\ a.pc # "save"
      BY <1>0, <2>1 DEF RequestsInv, InOrder
    <3>2. Truth(a)'
      BY <1>2, <1>3, <2>1, <3>1
    <3> QED
      BY <1>0, <1>2, <2>1, <3>2
  <2> QED
    BY <1>4, <2>1 DEF AnswersInv
<1>7. OwnIds'
  <2>1. ASSUME NEW g \in RequestThreads, request'[g].id # NULL
        PROVE  /\ \A f \in RequestThreads \ {g} : request'[f].id # request'[g].id
               /\ \A a \in answers' : a.id # request'[g].id
    <3>1. r.id # NULL => answers' = answers
      OBVIOUS
    <3>2. CASE r.id = request[h].id \/ r.id = NULL
      <4>1. \A f \in RequestThreads : request'[f].id \in {request[f].id, NULL}
        BY <1>1, <3>2
      <4> QED
        BY <1>0, <1>1, <2>1, <3>1, <4>1 DEF OwnIds
    <3>3. CASE nextValue' = nextValue + 1 /\ r.id = nextValue
      <4>1. /\ nextValue # NULL /\ nextValue \notin 1 .. nextValue - 1
            /\ answers' = answers
        BY <1>0, <1>2, <3>1, <3>3
      <4> QED
        BY <1>0, <1>1, <1>2, <2>1, <3>3, <4>1 DEF OwnIds
    <3> QED
      BY <3>2, <3>3
  <2>2. \A a, b \in answers' : a.id # NULL /\ a.id = b.id => a = b
    BY <1>0 DEF OwnIds
  <2> QED
    BY <2>1, <2>2 DEF OwnIds
<1> QED
  BY <1>5, <1>6, <1>7

\* Ids are taken by those who were counted when they were received.
LEMMA IdsKept ==
  ASSUME ApiInv, NEW h \in RequestThreads, NEW r,
         request' = [request EXCEPT ![h] = r],
         \/ r.pc = "id" /\ nextValue' = nextValue /\ requests' = requests + 1
         \/ /\ r.pc # "id" /\ request[h].pc = "id"
            /\ nextValue' = nextValue + 1 /\ requests' = requests
         \/ r.pc # "id" /\ nextValue' = nextValue /\ requests' \in {requests, requests + 1}
  PROVE  IdsSuffice' /\ nextValue' - 1 <= requests'
PROOF
<1>0. /\ nextValue \in Nat /\ requests \in Nat
      /\ IsFiniteSet(Taking) /\ nextValue - 1 + Cardinality(Taking) <= requests
  BY ApiAssumption DEF ApiInv, ApiTypeOK, IdsSuffice
<1>1. Cardinality(Taking) \in Nat
  BY <1>0, FS_CardinalityType
<1>2. /\ request'[h] = r
      /\ \A g \in RequestThreads \ {h} : request'[g] = request[g]
  BY DEF ApiInv, ApiTypeOK
<1>3. Taking' = IF r.pc = "id" THEN Taking \cup {h} ELSE Taking \ {h}
  BY <1>2 DEF Taking
<1>4. CASE r.pc = "id"
  <2>1. /\ IsFiniteSet(Taking') /\ Cardinality(Taking') \in Nat
        /\ Cardinality(Taking') <= Cardinality(Taking) + 1
    BY <1>0, <1>3, <1>4, CountMore
  <2> QED
    BY <1>0, <1>1, <1>4, <2>1 DEF IdsSuffice
<1>5. CASE r.pc # "id"
  <2>1. /\ IsFiniteSet(Taking') /\ Cardinality(Taking') \in Nat
        /\ Cardinality(Taking') <= Cardinality(Taking)
        /\ h \in Taking => Cardinality(Taking') = Cardinality(Taking) - 1
    BY <1>0, <1>3, <1>5, CountLess
  <2>2. request[h].pc = "id" => h \in Taking
    BY DEF Taking
  <2> QED
    BY <1>0, <1>1, <1>5, <2>1, <2>2 DEF IdsSuffice
<1> QED
  BY <1>4, <1>5

\* What a step of one thread does: it turns its request into r, in one of the
\* ways the handler has.
ThreadDoes(h, r) ==
  /\ request' = [request EXCEPT ![h] = r]
  /\ InOrder(r)'
  /\ main' = main /\ launches' = launches
  /\ r = [pc |-> r.pc, number |-> r.number, body |-> r.body, id |-> r.id,
          status |-> r.status]
  /\ r.pc \in {"idle", "id", "save", "hand", "answer"} /\ r.number \in 0 .. MaxRequests
  /\ r.body \in Bodies \cup {NULL} /\ r.status \in {0, 201, 400, 415, 500}
  /\ \A id \in DOMAIN table : id \in DOMAIN table' /\ table'[id] = table[id]
  /\ \A id \in DOMAIN table' \ DOMAIN table : id = request[h].id /\ request[h].pc = "save"
  /\ \/ nextValue' = nextValue /\ r.id \in {request[h].id, NULL}
     \/ nextValue' = nextValue + 1 /\ r.id = nextValue
  /\ \/ r.pc = "id" /\ nextValue' = nextValue /\ requests' = requests + 1
     \/ /\ r.pc # "id" /\ request[h].pc = "id"
        /\ nextValue' = nextValue + 1 /\ requests' = requests
     \/ r.pc # "id" /\ nextValue' = nextValue /\ requests' \in {requests, requests + 1}
  /\ requests' <= MaxRequests /\ faults' \in 0 .. MaxFaults
  /\ \/ answers' = answers
     \/ /\ answers' = answers \cup {request[h]}
        /\ request[h].pc = "answer" /\ r.id = NULL

\* Such a step keeps the invariant.
LEMMA ThreadStep ==
  ASSUME ApiInv, NEW h \in RequestThreads, NEW r, ThreadDoes(h, r)
  PROVE  ApiInv'
PROOF
<1> USE DEF ThreadDoes
<1>1. RequestsInv' /\ AnswersInv' /\ OwnIds'
  BY ThreadMoves
<1>2. IdsSuffice' /\ nextValue' - 1 <= requests'
  BY IdsKept
<1>3. ApiTypeOK'
  <2> DEFINE Progress(next) ==
               [pc : {"idle", "id", "save", "hand", "answer"}, number : 0 .. MaxRequests,
                body : Bodies \cup {NULL}, id : (1 .. next - 1) \cup {NULL},
                status : {0, 201, 400, 415, 500}]
  <2>1. /\ MaxRequests \in Nat /\ nextValue \in Nat /\ nextValue >= 1 /\ requests \in Nat
        /\ request \in [RequestThreads -> Progress(nextValue)]
        /\ DOMAIN table \subseteq 1 .. nextValue - 1
    BY ApiAssumption DEF ApiInv, ApiTypeOK
  <2>2. nextValue' \in 1 .. MaxRequests + 1 /\ requests' \in 0 .. MaxRequests
    BY <1>2, <2>1
  <2>3. /\ 1 .. nextValue - 1 \subseteq 1 .. nextValue' - 1
        /\ r.id \in (1 .. nextValue' - 1) \cup {NULL}
    BY <2>1
  <2>4. r \in Progress(nextValue') /\ \A g \in RequestThreads : request[g] \in Progress(nextValue')
    BY <2>1, <2>3
  <2>5. request' \in [RequestThreads -> Progress(nextValue')]
    <3> HIDE DEF Progress
    <3> QED
      BY <2>1, <2>4
  <2>6. DOMAIN table' \subseteq 1 .. nextValue' - 1
    <3>1. request[h].pc = "save" => request[h].id \in 1 .. nextValue - 1
      <4>1. request[h].pc = "save" => request[h].id # NULL
        BY DEF ApiInv, RequestsInv, InOrder
      <4> QED
        BY <2>1, <4>1
    <3> QED
      BY <2>1, <2>3, <3>1
  <2> QED
    BY <2>2, <2>5, <2>6 DEF ApiInv, ApiTypeOK
<1> QED
  BY <1>1, <1>2, <1>3 DEF ApiInv

-----------------------------------------------------------------------------
(* HttpApi: the steps. *)

\* The parts of a request.
LEMMA RequestParts ==
  ASSUME ApiInv, NEW h \in RequestThreads
  PROVE  /\ request[h].number \in 0 .. MaxRequests
         /\ request[h].body \in Bodies \cup {NULL}
         /\ request[h].status \in {0, 201, 400, 415, 500}
         /\ request[h].id \in (1 .. nextValue - 1) \cup {NULL}
         /\ InOrder(request[h])
BY DEF ApiInv, ApiTypeOK, RequestsInv

\* A request is the record of its parts.
LEMMA RequestIsRecord ==
  ASSUME ApiInv, NEW h \in RequestThreads
  PROVE  request[h] = [pc |-> request[h].pc, number |-> request[h].number,
                       body |-> request[h].body, id |-> request[h].id,
                       status |-> request[h].status]
BY DEF ApiInv, ApiTypeOK

\* How the handler's assignments to two fields change it.
Edits(h, p, id, status) ==
  /\ [request EXCEPT ![h].pc = p]
       = [request EXCEPT ![h] =
            [pc |-> p, number |-> request[h].number, body |-> request[h].body,
             id |-> request[h].id, status |-> request[h].status]]
  /\ [request EXCEPT ![h].pc = p, ![h].id = id]
       = [request EXCEPT ![h] =
            [pc |-> p, number |-> request[h].number, body |-> request[h].body,
             id |-> id, status |-> request[h].status]]
  /\ [request EXCEPT ![h].pc = p, ![h].status = status]
       = [request EXCEPT ![h] =
            [pc |-> p, number |-> request[h].number, body |-> request[h].body,
             id |-> request[h].id, status |-> status]]

\* They change those fields and no other.
LEMMA RequestEdits ==
  ASSUME ApiInv, NEW h \in RequestThreads, NEW p, NEW newId, NEW newStatus
  PROVE  Edits(h, p, newId, newStatus)
PROOF
<1>1. request = [g \in RequestThreads |-> request[g]]
  BY DEF ApiInv, ApiTypeOK
<1>2. /\ [request EXCEPT ![h].pc = p] = [request EXCEPT ![h] = [request[h] EXCEPT !.pc = p]]
      /\ [request EXCEPT ![h].pc = p, ![h].id = newId]
           = [request EXCEPT ![h] = [request[h] EXCEPT !.pc = p, !.id = newId]]
      /\ [request EXCEPT ![h].pc = p, ![h].status = newStatus]
           = [request EXCEPT ![h] = [request[h] EXCEPT !.pc = p, !.status = newStatus]]
  BY <1>1
<1>3. /\ [request[h] EXCEPT !.pc = p]
            = [pc |-> p, number |-> request[h].number, body |-> request[h].body,
               id |-> request[h].id, status |-> request[h].status]
      /\ [request[h] EXCEPT !.pc = p, !.id = newId]
            = [pc |-> p, number |-> request[h].number, body |-> request[h].body,
               id |-> newId, status |-> request[h].status]
      /\ [request[h] EXCEPT !.pc = p, !.status = newStatus]
            = [pc |-> p, number |-> request[h].number, body |-> request[h].body,
               id |-> request[h].id, status |-> newStatus]
  <2>1. PICK r, pc, number, body, id, status :
          /\ r = request[h] /\ pc = r.pc /\ number = r.number /\ body = r.body
          /\ id = r.id /\ status = r.status
    OBVIOUS
  <2>2. r = [pc |-> pc, number |-> number, body |-> body, id |-> id, status |-> status]
    BY <2>1, RequestIsRecord
  <2>3. PICK s : s = [r EXCEPT !.pc = p]
    <3> WITNESS [r EXCEPT !.pc = p]
    <3> QED
      OBVIOUS
  <2>4. s = [pc |-> p, number |-> number, body |-> body, id |-> id, status |-> status]
    BY <2>2, <2>3
  <2>5. [r EXCEPT !.pc = p, !.id = newId] = [s EXCEPT !.id = newId]
    BY <2>2, <2>3
  <2>6. [r EXCEPT !.pc = p, !.status = newStatus] = [s EXCEPT !.status = newStatus]
    BY <2>2, <2>3
  <2>7. [s EXCEPT !.id = newId]
          = [pc |-> p, number |-> number, body |-> body, id |-> newId, status |-> status]
    BY <2>4
  <2>8. [s EXCEPT !.status = newStatus]
          = [pc |-> p, number |-> number, body |-> body, id |-> id, status |-> newStatus]
    BY <2>4
  <2>9. /\ [request[h] EXCEPT !.pc = p] = [r EXCEPT !.pc = p]
        /\ [request[h] EXCEPT !.pc = p, !.id = newId] = [r EXCEPT !.pc = p, !.id = newId]
        /\ [request[h] EXCEPT !.pc = p, !.status = newStatus] = [r EXCEPT !.pc = p, !.status = newStatus]
    BY <2>1
  <2>10. /\ [request[h] EXCEPT !.pc = p]
            = [pc |-> p, number |-> number, body |-> body, id |-> id, status |-> status]
         /\ [request[h] EXCEPT !.pc = p, !.id = newId]
            = [pc |-> p, number |-> number, body |-> body, id |-> newId, status |-> status]
         /\ [request[h] EXCEPT !.pc = p, !.status = newStatus]
            = [pc |-> p, number |-> number, body |-> body, id |-> id, status |-> newStatus]
    BY <2>3, <2>4, <2>5, <2>6, <2>7, <2>8, <2>9, Zenon
  <2> QED
    BY <2>1, <2>10
<1> QED
  BY <1>2, <1>3 DEF Edits

\* Receive keeps the invariant: a request that is refused has its answer.
LEMMA ReceiveStep ==
  ASSUME ApiInv, NEW h \in RequestThreads, NEW body \in Bodies, Receive(h, body)
  PROVE  ApiInv'
PROOF
<1>0a. PICK pc : pc = IF Verdict(body) = 201 THEN "id" ELSE "answer"
  OBVIOUS
<1>0. PICK r : r = [pc |-> pc, number |-> requests + 1, body |-> body, id |-> NULL,
                    status |-> Verdict(body)]
  <2> WITNESS [pc |-> pc, number |-> requests + 1, body |-> body, id |-> NULL,
               status |-> Verdict(body)]
  <2> QED
    OBVIOUS
<1>1. /\ main = "listening" /\ request[h].pc = "idle" /\ requests < MaxRequests
      /\ requests' = requests + 1 /\ request' = [request EXCEPT ![h] = r]
      /\ UNCHANGED <<table, nextValue, main, answers, faults, launches>>
  BY <1>0a, <1>0 DEF Receive
<1>2. /\ requests \in Nat /\ MaxRequests \in Nat /\ faults \in 0 .. MaxFaults
      /\ NULL \notin DOMAIN table
  BY ApiAssumption DEF ApiInv, ApiTypeOK
<1>3. /\ r.pc = (IF Verdict(body) = 201 THEN "id" ELSE "answer") /\ r.number = requests + 1
      /\ r.body = body /\ r.id = NULL /\ r.status = Verdict(body)
      /\ r = [pc |-> r.pc, number |-> r.number, body |-> r.body, id |-> r.id,
              status |-> r.status]
  BY <1>0a, <1>0
<1>4. Verdict(body) \in {201, 400, 415, 500}
  BY VerdictType
<1>5. InOrder(r)'
  BY <1>1, <1>2, <1>3, <1>4 DEF InOrder, Truth
<1>20. ThreadDoes(h, r)
  BY <1>1, <1>2, <1>3, <1>4, <1>5 DEF ThreadDoes
<1> QED
  BY <1>20, ThreadStep

\* generateJobId keeps the invariant: nobody has the id.
LEMMA TakeIdStep ==
  ASSUME ApiInv, NEW h \in RequestThreads, TakeId(h)
  PROVE  ApiInv'
PROOF
<1>r. /\ InOrder(request[h])
      /\ request[h].number \in 0 .. MaxRequests /\ request[h].body \in Bodies \cup {NULL}
      /\ request[h].status \in {0, 201, 400, 415, 500}
      /\ request[h].id \in (1 .. nextValue - 1) \cup {NULL}
  BY RequestParts
<1>0. PICK r : r = [pc |-> "save", number |-> request[h].number, body |-> request[h].body,
                     id |-> nextValue, status |-> request[h].status]
  <2> WITNESS [pc |-> "save", number |-> request[h].number, body |-> request[h].body,
                     id |-> nextValue, status |-> request[h].status]
  <2> QED
    OBVIOUS
<1>1. /\ request[h].pc = "id" /\ nextValue' = nextValue + 1
      /\ UNCHANGED <<table, main, answers, requests, faults, launches>>
  BY DEF TakeId
<1>2. request' = [request EXCEPT ![h] = r]
  <2>1. request' = [request EXCEPT ![h].pc = "save", ![h].id = nextValue]
    BY DEF TakeId
  <2>2. [request EXCEPT ![h].pc = "save", ![h].id = nextValue]
          = [request EXCEPT ![h] =
               [pc |-> "save", number |-> request[h].number, body |-> request[h].body,
                id |-> nextValue, status |-> request[h].status]]
    <3>1. Edits(h, "save", nextValue, 0)
      BY RequestEdits
    <3> QED
      BY <3>1 DEF Edits
  <2> QED
    BY <1>0, <2>1, <2>2, Zenon
<1>3. /\ nextValue \in Nat /\ requests <= MaxRequests /\ faults \in 0 .. MaxFaults
      /\ DOMAIN table \subseteq 1 .. nextValue - 1 /\ NULL \notin Nat
  BY ApiAssumption DEF ApiInv, ApiTypeOK
<1>4. /\ r.pc = "save" /\ r.number = request[h].number /\ r.body = request[h].body
      /\ r.id = nextValue /\ r.status = request[h].status
      /\ r = [pc |-> r.pc, number |-> r.number, body |-> r.body, id |-> r.id,
              status |-> r.status]
  BY <1>0
<1>5. InOrder(r)'
  BY <1>1, <1>3, <1>4, <1>r DEF InOrder
<1>20. ThreadDoes(h, r)
  BY <1>1, <1>2, <1>3, <1>4, <1>5, <1>r DEF ThreadDoes
<1> QED
  BY <1>20, ThreadStep

\* A request that ends with 500 before its row is there leaves none behind.
LEMMA InternalErrorStep ==
  ASSUME ApiInv, NEW h \in RequestThreads, request[h].pc \in {"id", "save"},
         request' = InternalError(h), faults' \in 0 .. MaxFaults,
         UNCHANGED <<table, nextValue, main, answers, requests, launches>>
  PROVE  ApiInv'
PROOF
<1>r. /\ InOrder(request[h])
      /\ request[h].number \in 0 .. MaxRequests /\ request[h].body \in Bodies \cup {NULL}
      /\ request[h].status \in {0, 201, 400, 415, 500}
      /\ request[h].id \in (1 .. nextValue - 1) \cup {NULL}
  BY RequestParts
<1>0. PICK r : r = [pc |-> "answer", number |-> request[h].number, body |-> request[h].body,
                     id |-> request[h].id, status |-> 500]
  <2> WITNESS [pc |-> "answer", number |-> request[h].number, body |-> request[h].body,
                     id |-> request[h].id, status |-> 500]
  <2> QED
    OBVIOUS
<1>1. request' = [request EXCEPT ![h] = r]
  <2>1. Edits(h, "answer", 0, 500)
    BY RequestEdits
  <2> QED
    BY <1>0, <2>1 DEF InternalError, Edits
<1>2. requests \in Nat /\ requests <= MaxRequests /\ NULL \notin DOMAIN table
  BY ApiAssumption DEF ApiInv, ApiTypeOK
<1>3. /\ r.pc = "answer" /\ r.number = request[h].number /\ r.body = request[h].body
      /\ r.id = request[h].id /\ r.status = 500
      /\ r = [pc |-> r.pc, number |-> r.number, body |-> r.body, id |-> r.id,
              status |-> r.status]
  BY <1>0
<1>4. InOrder(r)'
  BY <1>2, <1>3, <1>r DEF InOrder, Truth
<1>20. ThreadDoes(h, r)
  BY <1>1, <1>2, <1>3, <1>4, <1>r DEF ThreadDoes
<1> QED
  BY <1>20, ThreadStep

\* The INSERT keeps the invariant: the row is what the body asks for, and no
\* CHECK and no primary key refuses it.
LEMMA SaveStep ==
  ASSUME ApiInv, NEW h \in RequestThreads, SaveJob(h)
  PROVE  ApiInv'
PROOF
<1>r. /\ InOrder(request[h])
      /\ request[h].number \in 0 .. MaxRequests /\ request[h].body \in Bodies \cup {NULL}
      /\ request[h].status \in {0, 201, 400, 415, 500}
      /\ request[h].id \in (1 .. nextValue - 1) \cup {NULL}
  BY RequestParts
<1> DEFINE row == RowOf(JobOf(request[h].body))
<1>0. PICK r : r = [pc |-> "hand", number |-> request[h].number, body |-> request[h].body,
                     id |-> request[h].id, status |-> request[h].status]
  <2> WITNESS [pc |-> "hand", number |-> request[h].number, body |-> request[h].body,
                     id |-> request[h].id, status |-> request[h].status]
  <2> QED
    OBVIOUS
<1>1. /\ request[h].pc = "save"
      /\ UNCHANGED <<nextValue, main, answers, requests, faults, launches>>
  BY DEF SaveJob
<1>2. request[h].body \in Bodies /\ Verdict(request[h].body) = 201 /\ request[h].id \notin DOMAIN table
  BY <1>1, <1>r DEF InOrder
<1>3. MeetsChecks(row)
  BY <1>2, RowIsAskedFor DEF AskedFor
<1>4. /\ table' = [other \in DOMAIN table \cup {request[h].id} |->
                     IF other = request[h].id THEN row ELSE table[other]]
      /\ request' = [request EXCEPT ![h].pc = "hand"]
  BY <1>2, <1>3 DEF SaveJob
<1>5. request' = [request EXCEPT ![h] = r]
  <2>1. Edits(h, "hand", 0, 0)
    BY RequestEdits
  <2> QED
    BY <1>0, <1>4, <2>1 DEF Edits
<1>6. requests \in Nat /\ requests <= MaxRequests /\ faults \in 0 .. MaxFaults
  BY ApiAssumption DEF ApiInv, ApiTypeOK
<1>7. /\ r.pc = "hand" /\ r.number = request[h].number /\ r.body = request[h].body
      /\ r.id = request[h].id /\ r.status = request[h].status
      /\ r = [pc |-> r.pc, number |-> r.number, body |-> r.body, id |-> r.id,
              status |-> r.status]
  BY <1>0
<1>8. /\ table'[request[h].id] = row /\ request[h].id \in DOMAIN table'
      /\ \A other \in DOMAIN table : other \in DOMAIN table' /\ table'[other] = table[other]
      /\ \A other \in DOMAIN table' \ DOMAIN table : other = request[h].id
  <2> HIDE DEF row
  <2> QED
    BY <1>2, <1>4
<1>9. InOrder(r)'
  BY <1>1, <1>2, <1>7, <1>8, <1>r DEF InOrder, Truth
<1> HIDE DEF row
<1>11. /\ \A other \in DOMAIN table : other \in DOMAIN table' /\ table'[other] = table[other]
       /\ \A other \in DOMAIN table' \ DOMAIN table :
            other = request[h].id /\ request[h].pc = "save"
  BY <1>1, <1>8
<1>20. ThreadDoes(h, r)
  BY <1>1, <1>5, <1>6, <1>7, <1>9, <1>11, <1>r DEF ThreadDoes
<1> QED
  BY <1>20, ThreadStep

\* push or schedule keeps the invariant: the scheduler runs as long as there are
\* requests, so no job that was saved is answered with an error.
LEMMA HandOverStep ==
  ASSUME ApiInv, NEW h \in RequestThreads, HandOver(h)
  PROVE  ApiInv'
PROOF
<1>r. /\ InOrder(request[h])
      /\ request[h].number \in 0 .. MaxRequests /\ request[h].body \in Bodies \cup {NULL}
      /\ request[h].status \in {0, 201, 400, 415, 500}
      /\ request[h].id \in (1 .. nextValue - 1) \cup {NULL}
  BY RequestParts
<1>0. PICK r : r = [pc |-> "answer", number |-> request[h].number, body |-> request[h].body,
                     id |-> request[h].id, status |-> request[h].status]
  <2> WITNESS [pc |-> "answer", number |-> request[h].number, body |-> request[h].body,
                     id |-> request[h].id, status |-> request[h].status]
  <2> QED
    OBVIOUS
<1>1. /\ request[h].pc = "hand" /\ main # "stopped"
      /\ UNCHANGED <<table, nextValue, main, answers, requests, faults, launches>>
  BY <1>r DEF HandOver, InOrder
<1>2. request' = [request EXCEPT ![h].pc = "answer"]
  BY <1>1 DEF HandOver
<1>3. request' = [request EXCEPT ![h] = r]
  <2>1. Edits(h, "answer", 0, 0)
    BY RequestEdits
  <2> QED
    BY <1>0, <1>2, <2>1 DEF Edits
<1>4. requests \in Nat /\ requests <= MaxRequests /\ faults \in 0 .. MaxFaults
  BY ApiAssumption DEF ApiInv, ApiTypeOK
<1>5. /\ r.pc = "answer" /\ r.number = request[h].number /\ r.body = request[h].body
      /\ r.id = request[h].id /\ r.status = request[h].status
      /\ r = [pc |-> r.pc, number |-> r.number, body |-> r.body, id |-> r.id,
              status |-> r.status]
  BY <1>0
<1>6. InOrder(r)'
  BY <1>1, <1>5, <1>r DEF InOrder, Truth
<1>20. ThreadDoes(h, r)
  BY <1>1, <1>3, <1>4, <1>5, <1>6, <1>r DEF ThreadDoes
<1> QED
  BY <1>20, ThreadStep

\* An answer, whether it arrives or not, keeps the invariant.
LEMMA AnswerStep ==
  ASSUME ApiInv, NEW h \in RequestThreads, Answer(h) \/ AnswerLost(h)
  PROVE  ApiInv'
PROOF
<1>0. PICK r : r = Idle
  <2> WITNESS Idle
  <2> QED
    OBVIOUS
<1>1. /\ request[h].pc = "answer" /\ request' = [request EXCEPT ![h] = r]
      /\ answers' \in {answers, answers \cup {request[h]}}
      /\ UNCHANGED <<table, nextValue, main, requests, faults, launches>>
  BY <1>0 DEF Answer, AnswerLost
<1>2. /\ requests \in Nat /\ MaxRequests \in Nat /\ requests <= MaxRequests
      /\ faults \in 0 .. MaxFaults
  BY ApiAssumption DEF ApiInv, ApiTypeOK
<1>3. /\ r.pc = "idle" /\ r.number = 0 /\ r.body = NULL /\ r.id = NULL
      /\ r.status = 0
      /\ r = [pc |-> r.pc, number |-> r.number, body |-> r.body, id |-> r.id,
              status |-> r.status]
  BY <1>0 DEF Idle
<1>4. InOrder(r)'
  BY <1>3 DEF InOrder
<1>20. ThreadDoes(h, r)
  BY <1>1, <1>2, <1>3, <1>4 DEF ThreadDoes
<1> QED
  BY <1>20, ThreadStep

\* Every step keeps the invariant.
LEMMA ApiInvStep == ApiInv /\ [ApiNext]_apiVars => ApiInv'
PROOF
<1> SUFFICES ASSUME ApiInv, [ApiNext]_apiVars PROVE ApiInv'
  OBVIOUS
<1>1. ASSUME NEW h \in RequestThreads, NEW body \in Bodies, Receive(h, body) PROVE ApiInv'
  BY <1>1, ReceiveStep
<1>2. ASSUME NEW h \in RequestThreads, HandlerStep(h) PROVE ApiInv'
  <2>1. CASE TakeId(h)
    BY <2>1, TakeIdStep
  <2>2. CASE SaveJob(h)
    BY <2>2, SaveStep
  <2>3. CASE StatementFails(h)
    <3>1. faults' \in 0 .. MaxFaults
      BY <2>3, ApiAssumption DEF StatementFails, ApiInv, ApiTypeOK
    <3>2. /\ request[h].pc \in {"id", "save"} /\ request' = InternalError(h)
          /\ UNCHANGED <<table, nextValue, main, answers, requests, launches>>
      BY <2>3 DEF StatementFails
    <3> QED
      BY <3>1, <3>2, InternalErrorStep
  <2>4. CASE HandOver(h)
    BY <2>4, HandOverStep
  <2>5. CASE Answer(h) \/ AnswerLost(h)
    BY <2>5, AnswerStep
  <2> QED
    BY <1>2, <2>1, <2>2, <2>3, <2>4, <2>5 DEF HandlerStep
\* What main does leaves requests, answers and the table alone, or ends them.
<1>3. ASSUME UNCHANGED <<table, nextValue, answers, requests, faults, request>>,
             main' \in {"listening", "closing", "stopped", "down"},
             launches' \in 1 .. MaxLaunches,
             \/ main' = "closing"
             \/ \A h \in RequestThreads : request[h].pc = "idle"
             \/ main' = main
      PROVE  ApiInv'
  <2>1. ApiTypeOK'
    BY <1>3 DEF ApiInv, ApiTypeOK
  <2>2. RequestsInv'
    <3> SUFFICES ASSUME NEW h \in RequestThreads PROVE InOrder(request[h])'
      BY DEF RequestsInv
    <3>1. InOrder(request[h])
      BY DEF ApiInv, RequestsInv
    <3> QED
      BY <1>3, <3>1 DEF InOrder, Truth
  <2>3. AnswersInv' /\ OwnIds' /\ IdsSuffice'
    BY <1>3 DEF ApiInv, AnswersInv, OwnIds, IdsSuffice, Taking, Truth
  <2> QED
    BY <2>1, <2>2, <2>3 DEF ApiInv
<1>4. ASSUME CloseServer PROVE ApiInv'
  <2>1. /\ main' = "closing" /\ launches' \in 1 .. MaxLaunches
        /\ UNCHANGED <<table, nextValue, answers, requests, faults, request>>
    BY <1>4 DEF CloseServer, ApiInv, ApiTypeOK
  <2> QED
    BY <1>3, <2>1
<1>5. ASSUME StopScheduler PROVE ApiInv'
  <2>1. /\ main' = "stopped" /\ launches' \in 1 .. MaxLaunches
        /\ UNCHANGED <<table, nextValue, answers, requests, faults, request>>
        /\ \A h \in RequestThreads : request[h].pc = "idle"
    BY <1>5 DEF StopScheduler, ApiInv, ApiTypeOK
  <2> QED
    BY <1>3, <2>1
<1>6. ASSUME Down PROVE ApiInv'
  <2>1. /\ main' = "down" /\ request' = [h \in RequestThreads |-> Idle]
        /\ UNCHANGED <<table, nextValue, answers, requests, faults, launches>>
    BY <1>6 DEF Down
  <2>2. \A h \in RequestThreads : request'[h] = Idle
    BY <2>1
  <2>3. ApiTypeOK'
    BY <2>1, ApiAssumption DEF ApiInv, ApiTypeOK, Idle
  <2>4. RequestsInv'
    BY <2>2 DEF RequestsInv, InOrder, Idle
  <2>5. AnswersInv'
    BY <2>1 DEF ApiInv, AnswersInv, Truth
  <2>6. OwnIds'
    BY <2>1, <2>2 DEF ApiInv, OwnIds, Idle
  <2>7. IdsSuffice'
    <3>1. Taking' = {}
      BY <2>2 DEF Taking, Idle
    <3>2. IsFiniteSet(Taking') /\ Cardinality(Taking') = 0
      BY <3>1, FS_EmptySet
    <3>3. /\ nextValue \in Nat /\ requests \in Nat /\ Cardinality(Taking) \in Nat
          /\ nextValue - 1 + Cardinality(Taking) <= requests
      BY ApiAssumption, FS_CardinalityType DEF ApiInv, ApiTypeOK, IdsSuffice
    <3> QED
      BY <2>1, <3>2, <3>3 DEF IdsSuffice
  <2> QED
    BY <2>3, <2>4, <2>5, <2>6, <2>7 DEF ApiInv
<1>7. ASSUME Launch PROVE ApiInv'
  <2>1. /\ main = "down" /\ main' = "listening" /\ launches' \in 1 .. MaxLaunches
        /\ UNCHANGED <<table, nextValue, answers, requests, faults, request>>
    BY <1>7, ApiAssumption DEF Launch, ApiInv, ApiTypeOK
  <2>2. \A h \in RequestThreads : request[h].pc = "idle"
    BY <2>1 DEF ApiInv, RequestsInv, InOrder
  <2> QED
    BY <1>3, <2>1, <2>2
<1>8. ASSUME UNCHANGED apiVars PROVE ApiInv'
  <2>1. main' = main /\ UNCHANGED <<table, nextValue, answers, requests, faults, request, launches>>
    BY <1>8 DEF apiVars
  <2>2. main \in {"listening", "closing", "stopped", "down"} /\ launches \in 1 .. MaxLaunches
    BY DEF ApiInv, ApiTypeOK
  <2> QED
    BY <1>3, <2>1, <2>2
<1> QED
  BY <1>1, <1>2, <1>4, <1>5, <1>6, <1>7, <1>8 DEF ApiNext

\* The invariant is one of the server: requests are in order, answers say what
\* the table says, and nobody shares an id.
THEOREM ApiKeepsInv == ApiSpec => []ApiInv
<1>1. ApiInit => ApiInv
  BY ApiInvInit
<1>2. ApiInv /\ [ApiNext]_apiVars => ApiInv'
  BY ApiInvStep
<1> QED
  BY <1>1, <1>2, PTL DEF ApiSpec

\* AnswersAreTrue: whoever is told 201 finds, then and after every restart, what
\* was posted under an id nobody else was given; whoever is told anything else
\* left no row behind.
THEOREM AnswersStayTrue == ApiSpec => []AnswersAreTrue
<1>1. ApiInv => AnswersAreTrue
  <2> SUFFICES ASSUME ApiInv PROVE AnswersAreTrue
    OBVIOUS
  <2>1. ApiTypeOK /\ AnswersInv /\ OwnIds /\ NULL \notin DOMAIN table
    BY ApiAssumption DEF ApiInv, ApiTypeOK
  <2>2. ASSUME NEW a \in answers, a.status = 201
        PROVE  /\ FindById(a.id) # NULL /\ AskedFor(a.body, FindById(a.id))
               /\ \A b \in answers \ {a} : b.status = 201 => b.id # a.id
    <3>1. /\ a.body \in Bodies /\ Verdict(a.body) = 201
          /\ a.id \in DOMAIN table /\ table[a.id] = RowOf(JobOf(a.body))
      BY <2>1, <2>2 DEF AnswersInv, Truth
    <3>2. FindById(a.id)
            = [RowOf(JobOf(a.body)) EXCEPT !.priority = @ % (PriorityMax + 1)]
      BY <3>1 DEF FindById
    <3>3. AskedFor(a.body, [RowOf(JobOf(a.body)) EXCEPT !.priority = @ % (PriorityMax + 1)])
      BY <3>1, RowIsAskedFor
    <3>4. FindById(a.id) # NULL
      <4>1. PICK row : row = RowOf(JobOf(a.body))
        <5> WITNESS RowOf(JobOf(a.body))
        <5> QED
          OBVIOUS
      <4>2. PICK priority : priority = row.priority % (PriorityMax + 1)
        OBVIOUS
      <4>3. FindById(a.id) = [row EXCEPT !.priority = priority]
        BY <3>2, <4>1, <4>2
      <4>4. [row EXCEPT !.priority = priority].priority \in 0 .. PriorityMax
        BY <3>2, <3>3, <4>1, <4>2 DEF AskedFor, WithinLimits
      <4> QED
        BY <3>1, <4>1, <4>3, <4>4, NullIsNoRow
    <3>5. \A b \in answers \ {a} : b.id # a.id
      BY <2>1, <3>1 DEF OwnIds
    <3> QED
      BY <3>2, <3>3, <3>4, <3>5
  <2>3. ASSUME NEW a \in answers, a.status # 201 PROVE a.id \notin DOMAIN table
    BY <2>1, <2>3 DEF AnswersInv, Truth
  <2> QED
    BY <2>1, <2>2, <2>3 DEF AnswersAreTrue, AskedFor
<1> QED
  BY <1>1, ApiKeepsInv, PTL

-----------------------------------------------------------------------------
(* Dashboard: tables. *)

\* A table that the server can have.
IsTable(jobs) ==
  /\ DOMAIN jobs \subseteq 1 .. MaxJobs
  /\ \A id \in DOMAIN jobs : jobs[id] \in {"unfinished", "ended"}

Ended(jobs) == {id \in DOMAIN jobs : jobs[id] = "ended"}

\* Jobs are added and end, and neither is undone.
Grows(old, new) == DOMAIN old \subseteq DOMAIN new /\ Ended(old) \subseteq Ended(new)

\* So the age of a table is a number that tells which of two is the later one.
LEMMA AgeGrows ==
  ASSUME NEW old, NEW new, IsTable(old), IsTable(new), Grows(old, new)
  PROVE  Age(old) \in Nat /\ Age(new) \in Nat /\ Age(old) <= Age(new)
PROOF
<1>1. IsFiniteSet(1 .. MaxJobs)
  BY DashboardAssumption, FS_Interval
<1>2. IsFiniteSet(DOMAIN old) /\ IsFiniteSet(DOMAIN new)
  BY <1>1, FS_Subset DEF IsTable
<1>3. Ended(old) \subseteq DOMAIN old /\ Ended(new) \subseteq DOMAIN new
  BY DEF Ended
<1>4. IsFiniteSet(Ended(old)) /\ IsFiniteSet(Ended(new))
  BY <1>2, <1>3, FS_Subset
<1>5. /\ Cardinality(DOMAIN old) <= Cardinality(DOMAIN new)
      /\ Cardinality(Ended(old)) <= Cardinality(Ended(new))
  BY <1>2, <1>4, FS_Subset DEF Grows
<1>6. /\ Cardinality(DOMAIN old) \in Nat /\ Cardinality(DOMAIN new) \in Nat
      /\ Cardinality(Ended(old)) \in Nat /\ Cardinality(Ended(new)) \in Nat
  BY <1>2, <1>4, FS_CardinalityType
<1>7. /\ Age(old) = Cardinality(DOMAIN old) + Cardinality(Ended(old))
      /\ Age(new) = Cardinality(DOMAIN new) + Cardinality(Ended(new))
  BY DEF Age, Ended
<1> QED
  BY <1>5, <1>6, <1>7

\* The age is a number.
LEMMA AgeType == ASSUME NEW jobs, IsTable(jobs) PROVE Age(jobs) \in Nat
BY AgeGrows DEF Grows

\* Another job makes the table later.
LEMMA NewRowGrows ==
  ASSUME IsTable(rows), Cardinality(DOMAIN rows) < MaxJobs
  PROVE  /\ IsTable(NewRow) /\ Grows(rows, NewRow)
         /\ Cardinality(DOMAIN rows) + 1 \in DOMAIN NewRow
PROOF
<1>1. Cardinality(DOMAIN rows) + 1 \in 1 .. MaxJobs
  <2>1. IsFiniteSet(1 .. MaxJobs)
    BY DashboardAssumption, FS_Interval
  <2>2. IsFiniteSet(DOMAIN rows)
    BY <2>1, FS_Subset DEF IsTable
  <2>3. Cardinality(DOMAIN rows) \in Nat
    BY <2>2, FS_CardinalityType
  <2> QED
    BY <2>3, DashboardAssumption
<1>2. PICK new : new = Cardinality(DOMAIN rows) + 1
  OBVIOUS
<1>3. PICK jobs : jobs = NewRow
  OBVIOUS
<1>4. jobs = [id \in DOMAIN rows \cup {new} |->
                IF id \in DOMAIN rows THEN rows[id] ELSE "unfinished"]
  BY <1>2, <1>3 DEF NewRow
<1>5. IsTable(jobs) /\ Grows(rows, jobs) /\ new \in DOMAIN jobs
  BY <1>1, <1>2, <1>4 DEF IsTable, Grows, Ended
<1> QED
  BY <1>2, <1>3, <1>5

\* So does a job that ends.
LEMMA EndGrows ==
  ASSUME IsTable(rows), NEW id \in DOMAIN rows, rows' = [rows EXCEPT ![id] = "ended"]
  PROVE  IsTable(rows') /\ Grows(rows, rows')
PROOF
<1>1. /\ DOMAIN rows' = DOMAIN rows
      /\ \A other \in DOMAIN rows :
           rows'[other] = IF other = id THEN "ended" ELSE rows[other]
  OBVIOUS
<1> QED
  BY <1>1 DEF IsTable, Grows, Ended

-----------------------------------------------------------------------------
(* Dashboard: the inductive invariant. *)

\* Whether somebody waits for the loads of an owner.
Waits(o) == IF o = "refresh" THEN refresh = "loading" ELSE form = "loading"

\* There are the loads of each owner, of each kind, and slots for them.
LoadShape ==
  /\ load = [o \in Owners |-> load[o]]
  /\ \A o \in Owners : load[o] = [k \in Kinds |-> load[o][k]]
  /\ \A o \in Owners, k \in Kinds : load[o][k] = [s \in Slots |-> load[o][k][s]]

\* The loads of one owner do not overlap: the second slot is never used, and the
\* first one only while somebody waits for it.
OneLoadEach ==
  \A o \in Owners, k \in Kinds :
    /\ load[o][k][2] = Done
    /\ load[o][k][1].state \in {"done", "sent", "failed", "answered"}
    /\ ~Waits(o) => load[o][k][1] = Done

\* An answered load of an owner has a state of the table that is no later than
\* the present one, and no earlier than the list unless the other owner rendered
\* that while this load was under way.
AnswerIsLater(o) ==
  load[o]["jobs"][1].state = "answered" =>
    /\ IsTable(load[o]["jobs"][1].body)
    /\ Age(load[o]["jobs"][1].body) <= Age(rows)
    /\ shownBy = o \/ <<o, 1>> \notin overlapping
         => Age(list) <= Age(load[o]["jobs"][1].body)

\* What the answer to a POST and the message say of jobs.
PostIsTrue ==
  /\ post.state = "answered" => post.body = None \/ post.body \in DOMAIN rows
  /\ \/ message = None \/ message = [error |-> "Cannot create job"]
     \/ \E id \in DOMAIN rows : message = [created |-> id]
  /\ form = "loading" => \E id \in DOMAIN rows : message = [created |-> id]
  /\ form = "posting" => message = None

\* The variables that have a type of their own.
PageTypeOK ==
  /\ IsTable(rows) /\ IsTable(list)
  /\ refresh \in {"loading", "timer"} /\ form \in {"ready", "posting", "loading"}
  /\ shownBy \in Owners /\ breaks \in 0 .. MaxBreaks

PageInv ==
  /\ PageTypeOK /\ LoadShape /\ OneLoadEach /\ PostIsTrue
  /\ Age(list) <= Age(rows) /\ overlapping \subseteq UnderWay
  /\ \A o \in Owners : AnswerIsLater(o)

\* It holds when the page is opened.
LEMMA PageInvInit == DashboardInit => PageInv
PROOF
<1> SUFFICES ASSUME DashboardInit PROVE PageInv
  OBVIOUS
<1>1. PageTypeOK
  BY DashboardAssumption DEF DashboardInit, PageTypeOK, IsTable, NoRows, Owners
<1>2. \A o \in Owners, k \in Kinds, s \in Slots : load[o][k][s] = Done
  BY DEF DashboardInit, AllDone
<1>3. Done.state = "done"
  BY DEF Done
<1>4. LoadShape
  BY DEF DashboardInit, AllDone, LoadShape
<1>5. OneLoadEach
  BY <1>2, <1>3 DEF OneLoadEach, Slots
<1>6. PostIsTrue
  BY <1>3 DEF DashboardInit, PostIsTrue
<1>7. Age(list) <= Age(rows)
  <2>1. list = rows /\ Age(rows) \in Nat
    BY <1>1, AgeType DEF DashboardInit, PageTypeOK
  <2> QED
    BY <2>1
<1>8. \A o \in Owners : AnswerIsLater(o)
  BY <1>2, <1>3 DEF AnswerIsLater, Kinds, Slots
<1>9. overlapping \subseteq UnderWay
  BY DEF DashboardInit
<1> QED
  BY <1>1, <1>4, <1>5, <1>6, <1>7, <1>8, <1>9 DEF PageInv

-----------------------------------------------------------------------------
(* Dashboard: the server. *)

\* A step that only adds to the table, or ends a job, keeps what was said of it.
LEMMA TableGrows ==
  ASSUME PageInv, IsTable(rows'), Grows(rows, rows'),
         UNCHANGED <<load, refresh, form, message, list, shownBy, metrics, breaks,
                     overlapping>>,
         post'.state = "answered" => post'.body = None \/ post'.body \in DOMAIN rows'
  PROVE  PageInv'
PROOF
<1>1. Age(rows) \in Nat /\ Age(rows') \in Nat /\ Age(rows) <= Age(rows')
  BY AgeGrows DEF PageInv, PageTypeOK
<1>2. Age(list) \in Nat /\ Age(list) <= Age(rows)
  BY AgeType DEF PageInv, PageTypeOK
<1>3. PageTypeOK'
  BY DEF PageInv, PageTypeOK
<1>4. LoadShape' /\ OneLoadEach'
  BY DEF PageInv, LoadShape, OneLoadEach, Waits
<1>5. PostIsTrue'
  BY DEF PageInv, PostIsTrue, Grows
<1>6. ASSUME NEW o \in Owners PROVE AnswerIsLater(o)'
  <2> SUFFICES ASSUME load[o]["jobs"][1].state = "answered"
               PROVE  AnswerIsLater(o)'
    BY DEF AnswerIsLater
  <2>1. AnswerIsLater(o) /\ IsTable(load[o]["jobs"][1].body)
    BY DEF PageInv, AnswerIsLater
  <2>2. Age(load[o]["jobs"][1].body) \in Nat
    BY <2>1, AgeType
  <2>3. load' = load /\ list' = list /\ shownBy' = shownBy /\ overlapping' = overlapping
    OBVIOUS
  <2> HIDE DEF IsTable, Grows
  <2> QED
    BY <1>1, <2>1, <2>2, <2>3 DEF AnswerIsLater
<1>7. Age(list') <= Age(rows') /\ overlapping' \subseteq UnderWay'
  BY <1>1, <1>2 DEF PageInv, UnderWay
<1> QED
  BY <1>3, <1>4, <1>5, <1>6, <1>7 DEF PageInv

\* What the server does to the table keeps the invariant.
LEMMA ServerStep ==
  ASSUME PageInv, OthersPost \/ JobEnds \/ ServePost
  PROVE  PageInv'
PROOF
<1>1. IsTable(rows) /\ (post.state = "answered" => post.body = None \/ post.body \in DOMAIN rows)
  BY DEF PageInv, PageTypeOK, PostIsTrue
<1>2. CASE OthersPost
  <2>1. IsTable(rows') /\ Grows(rows, rows')
    BY <1>1, <1>2, NewRowGrows DEF OthersPost
  <2> QED
    BY <1>1, <1>2, <2>1, TableGrows DEF OthersPost, Grows
<1>3. CASE JobEnds
  <2>1. IsTable(rows') /\ Grows(rows, rows')
    BY <1>1, <1>3, EndGrows DEF JobEnds
  <2> QED
    BY <1>1, <1>3, <2>1, TableGrows DEF JobEnds, Grows
<1>4. CASE ServePost
  <2>1. CASE post' = Answered(None) /\ UNCHANGED rows
    <3>1. post'.body = None /\ Grows(rows, rows')
      BY <2>1 DEF Answered, Grows
    <3> QED
      BY <1>1, <1>4, <2>1, <3>1, TableGrows DEF ServePost
  <2>2. CASE /\ Cardinality(DOMAIN rows) < MaxJobs
             /\ rows' = NewRow
             /\ post' = Answered(Cardinality(DOMAIN rows) + 1)
    <3>1. IsTable(rows') /\ Grows(rows, rows') /\ Cardinality(DOMAIN rows) + 1 \in DOMAIN rows'
      BY <1>1, <2>2, NewRowGrows
    <3>2. post'.body = Cardinality(DOMAIN rows) + 1
      BY <2>2 DEF Answered
    <3> QED
      BY <1>4, <3>1, <3>2, TableGrows DEF ServePost
  <2> QED
    BY <1>4, <2>1, <2>2 DEF ServePost
<1> QED
  BY <1>2, <1>3, <1>4

-----------------------------------------------------------------------------
(* Dashboard: the loads. *)

\* A load that is under way is in the first slot, and somebody waits for it.
LEMMA OnlyFirstSlot ==
  ASSUME PageInv, NEW o \in Owners, NEW k \in Kinds, NEW s \in Slots,
         load[o][k][s].state # "done"
  PROVE  s = 1 /\ Waits(o)
BY DEF PageInv, OneLoadEach, Slots, Done

\* What a step of one load does: it becomes x, and the list becomes its owner's
\* or stays.  The other loads of the list overlap with the list it renders.
LoadDoes(o, k, x) ==
  /\ load' = [load EXCEPT ![o][k][1] = x]
  /\ x.state \in {"done", "sent", "failed", "answered"}
  /\ UNCHANGED <<rows, refresh, form, post, message>>
  /\ breaks' \in 0 .. MaxBreaks /\ IsTable(list') /\ Age(list') <= Age(rows)
  /\ k = "jobs" /\ x.state = "answered" => x.body = rows
  /\ \/ /\ list' = list /\ shownBy' = shownBy
        /\ overlapping' = IF x.state = "done" THEN overlapping \cap UnderWay' ELSE overlapping
     \/ /\ k = "jobs" /\ x.state = "done" /\ shownBy' = o
        /\ overlapping' = UnderWay'

\* Such a step keeps the invariant.
LEMMA LoadMoves ==
  ASSUME PageInv, NEW o \in Owners, NEW k \in Kinds, NEW x, Waits(o), LoadDoes(o, k, x)
  PROVE  PageInv'
PROOF
<1> USE DEF LoadDoes
<1>0. LoadShape /\ OneLoadEach /\ PageTypeOK
  BY DEF PageInv
<1>1. /\ LoadShape'
      /\ \A p \in Owners, j \in Kinds, s \in Slots :
           load'[p][j][s] = IF p = o /\ j = k /\ s = 1 THEN x ELSE load[p][j][s]
  <2>1. PICK y : y = [load[o][k] EXCEPT ![1] = x]
    OBVIOUS
  <2>2. PICK z : z = [load[o] EXCEPT ![k] = y]
    OBVIOUS
  <2>3. load' = [load EXCEPT ![o] = z]
    BY <1>0, <2>1, <2>2 DEF LoadShape
  <2>4. y = [s \in Slots |-> IF s = 1 THEN x ELSE load[o][k][s]]
    <3>1. PICK w : w = load[o][k]
      OBVIOUS
    <3>2. w = [s \in Slots |-> w[s]]
      BY <1>0, <3>1 DEF LoadShape
    <3>3. y = [w EXCEPT ![1] = x]
      BY <2>1, <3>1
    <3>4. y = [s \in Slots |-> IF s = 1 THEN x ELSE w[s]]
      BY <3>2, <3>3
    <3> QED
      BY <3>1, <3>4
  <2>5. z = [j \in Kinds |-> IF j = k THEN y ELSE load[o][j]]
    BY <1>0, <2>2 DEF LoadShape
  <2>6. load' = [p \in Owners |-> IF p = o THEN z ELSE load[p]]
    BY <1>0, <2>3 DEF LoadShape
  <2>7. load'[o] = z /\ \A p \in Owners \ {o} : load'[p] = load[p]
    BY <2>6
  <2>8. z[k] = y /\ \A j \in Kinds \ {k} : z[j] = load[o][j]
    BY <2>5
  <2>9. \A s \in Slots : y[s] = IF s = 1 THEN x ELSE load[o][k][s]
    BY <2>4
  <2>10. z = [j \in Kinds |-> z[j]] /\ y = [s \in Slots |-> y[s]]
    BY <2>4, <2>5
  <2>11. ASSUME NEW p \in Owners, NEW j \in Kinds
         PROVE  /\ load'[p] = [i \in Kinds |-> load'[p][i]]
                /\ load'[p][j] = [s \in Slots |-> load'[p][j][s]]
                /\ \A s \in Slots :
                     load'[p][j][s] = IF p = o /\ j = k /\ s = 1 THEN x ELSE load[p][j][s]
    <3>1. CASE p = o /\ j = k
      BY <2>7, <2>8, <2>9, <2>10, <3>1
    <3>2. CASE p = o /\ j # k
      <4>1. load'[p] = z /\ load'[p][j] = load[o][j]
        BY <2>7, <2>8, <3>2
      <4>2. load[o][j] = [s \in Slots |-> load[o][j][s]]
        BY <1>0 DEF LoadShape
      <4> QED
        BY <2>10, <3>2, <4>1, <4>2
    <3>3. CASE p # o
      <4>1. load'[p] = load[p]
        BY <2>7, <3>3
      <4>2. /\ load[p] = [i \in Kinds |-> load[p][i]]
            /\ load[p][j] = [s \in Slots |-> load[p][j][s]]
        BY <1>0 DEF LoadShape
      <4> QED
        BY <3>3, <4>1, <4>2
    <3> QED
      BY <3>1, <3>2, <3>3
  <2>12. "jobs" \in Kinds
    BY DEF Kinds
  <2>13. load' = [p \in Owners |-> load'[p]]
    BY <2>6
  <2> QED
    BY <2>11, <2>12, <2>13 DEF LoadShape
<1>2. \A p \in Owners : Waits(p)' <=> Waits(p)
  BY DEF Waits
<1>3. OneLoadEach'
  BY <1>0, <1>1, <1>2 DEF OneLoadEach, Slots
<1>4. PageTypeOK'
  BY <1>0 DEF PageTypeOK
<1>5. PostIsTrue'
  BY DEF PageInv, PostIsTrue
<1>6. Age(list') <= Age(rows')
  OBVIOUS
<1>8. Done.state = "done"
  BY DEF Done
<1>9. overlapping' \subseteq UnderWay'
  <2> SUFFICES ASSUME x.state # "done", NEW l \in overlapping PROVE l \in UnderWay'
    OBVIOUS
  <2>1. l \in Owners \X Slots /\ load[l[1]]["jobs"][l[2]] # Done
    BY DEF PageInv, UnderWay
  <2>2. load'[l[1]]["jobs"][l[2]] # Done
    BY <1>1, <1>8, <2>1 DEF Kinds
  <2> QED
    BY <2>1, <2>2 DEF UnderWay
<1>7. ASSUME NEW p \in Owners PROVE AnswerIsLater(p)'
  <2>1. CASE p = o /\ k = "jobs"
    <3>1. load'[p]["jobs"][1] = x
      BY <1>1, <2>1 DEF Kinds, Slots
    <3>2. x.state = "answered" =>
            IsTable(x.body) /\ Age(x.body) <= Age(rows) /\ Age(list') <= Age(x.body)
      BY <1>0, <2>1, AgeType DEF PageTypeOK
    <3> QED
      BY <3>1, <3>2 DEF AnswerIsLater
  <2>2. CASE ~(p = o /\ k = "jobs")
    <3>1. load'[p]["jobs"][1] = load[p]["jobs"][1]
      BY <1>1, <2>2 DEF Kinds, Slots
    <3>2. load[p]["jobs"][1].state = "answered" => <<p, 1>> \in UnderWay'
      BY <1>8, <3>1 DEF UnderWay, Slots
    <3>3. load[p]["jobs"][1].state = "answered" /\ (shownBy' = p \/ <<p, 1>> \notin overlapping')
            => list' = list /\ (shownBy = p \/ <<p, 1>> \notin overlapping)
      BY <2>2, <3>2
    <3>4. AnswerIsLater(p)
      BY DEF PageInv
    <3> QED
      BY <3>1, <3>3, <3>4 DEF AnswerIsLater
  <2> QED
    BY <2>1, <2>2
<1> QED
  BY <1>1, <1>3, <1>4, <1>5, <1>6, <1>7, <1>9 DEF PageInv

\* Whether a step that makes the list older renders a load of the other owner
\* that overlapped with the load of the list.
BackOnlyByOverlap ==
  Age(list') < Age(list) => shownBy' # shownBy /\ RendersOverlapping(shownBy')

\* A load that is served, fails or is rendered keeps the invariant, and the list
\* becomes older only if it was the other owner's and the two loads overlapped.
LEMMA LoadStepKeeps ==
  ASSUME PageInv, NEW o \in Owners, NEW k \in Kinds, NEW s \in Slots, LoadStep(o, k, s)
  PROVE  PageInv' /\ BackOnlyByOverlap
PROOF
<1> USE DEF BackOnlyByOverlap
<1>0. /\ IsTable(rows) /\ IsTable(list) /\ shownBy \in Owners /\ breaks \in 0 .. MaxBreaks
      /\ Age(list) <= Age(rows) /\ AnswerIsLater(o)
      /\ Age(list) \in Nat /\ Age(rows) \in Nat
  BY AgeType DEF PageInv, PageTypeOK
<1>1. load[o][k][s].state # "done"
  BY DEF LoadStep, ServeLoad, BreakLoad, Render, Sent
<1>2. s = 1 /\ Waits(o)
  BY <1>1, OnlyFirstSlot
<1>3. CASE ServeLoad(o, k, s)
  <2>1. PICK x : x = Answered(Body(k))
    OBVIOUS
  <2>2. x.state = "answered" /\ (k = "jobs" => x.body = rows)
    BY <2>1 DEF Answered, Body
  <2>3. /\ load' = [load EXCEPT ![o][k][1] = x]
        /\ UNCHANGED <<rows, refresh, form, post, message, list, shownBy, metrics, breaks,
                       overlapping>>
    BY <1>2, <1>3, <2>1 DEF ServeLoad
  <2>4. PageInv'
    <3>1. LoadDoes(o, k, x)
      BY <1>0, <1>2, <2>2, <2>3 DEF LoadDoes
    <3> QED
      BY <1>2, <3>1, LoadMoves
  <2> QED
    BY <1>0, <2>3, <2>4
<1>4. CASE BreakLoad(o, k, s)
  <2>1. PICK x : x = Failed
    OBVIOUS
  <2>2. x.state = "failed"
    BY <2>1 DEF Failed
  <2>3. /\ load' = [load EXCEPT ![o][k][1] = x] /\ breaks' \in 0 .. MaxBreaks
        /\ UNCHANGED <<rows, refresh, form, post, message, list, shownBy, metrics,
                       overlapping>>
    BY <1>0, <1>2, <1>4, <2>1, DashboardAssumption DEF BreakLoad
  <2>4. PageInv'
    <3>1. LoadDoes(o, k, x)
      BY <1>0, <1>2, <2>2, <2>3 DEF LoadDoes
    <3> QED
      BY <1>2, <3>1, LoadMoves
  <2> QED
    BY <1>0, <2>3, <2>4
<1>5. CASE Render(o, k, s)
  <2>1. PICK x : x = Done
    OBVIOUS
  <2>2. x.state = "done"
    BY <2>1 DEF Done
  <2>3. /\ load' = [load EXCEPT ![o][k][1] = x]
        /\ UNCHANGED <<rows, refresh, form, post, message, breaks>>
    BY <1>2, <1>5, <2>1 DEF Render
  <2>4. CASE load[o][k][1].state = "answered" /\ k = "jobs"
    <3>1. list' = load[o]["jobs"][1].body /\ shownBy' = o /\ overlapping' = UnderWay'
      BY <1>2, <1>5, <2>4 DEF Render
    <3>2. /\ IsTable(list') /\ Age(list') <= Age(rows)
          /\ shownBy = o \/ <<o, 1>> \notin overlapping => Age(list) <= Age(list')
      BY <1>0, <2>4, <3>1 DEF AnswerIsLater
    <3>3. Age(list') \in Nat
      BY <3>2, AgeType
    <3>4. PageInv'
      <4>1. LoadDoes(o, k, x)
        BY <1>0, <1>2, <2>2, <2>3, <2>4, <3>1, <3>2 DEF LoadDoes
      <4> QED
        BY <1>2, <4>1, LoadMoves
    <3>5. <<o, 1>> \in UnderWay /\ <<o, 1>> \notin UnderWay'
      <4>1. Done.state = "done" /\ 1 \in Slots /\ "jobs" \in Kinds
        BY DEF Done, Slots, Kinds
      <4>2. load'[o]["jobs"][1] = Done
        BY <2>1, <2>3, <2>4, <4>1 DEF PageInv, LoadShape
      <4> QED
        BY <2>4, <4>1, <4>2 DEF UnderWay
    <3>6. <<o, 1>> \in overlapping => RendersOverlapping(o)
      BY <3>5 DEF RendersOverlapping
    <3> QED
      BY <1>0, <3>1, <3>2, <3>3, <3>4, <3>6
  <2>5. CASE ~(load[o][k][1].state = "answered" /\ k = "jobs")
    <3>1. list' = list /\ shownBy' = shownBy /\ overlapping' = overlapping \cap UnderWay'
      BY <1>2, <1>5, <2>5 DEF Render
    <3>2. PageInv'
      <4>1. LoadDoes(o, k, x)
        BY <1>0, <1>2, <2>2, <2>3, <3>1 DEF LoadDoes
      <4> QED
        BY <1>2, <4>1, LoadMoves
    <3> QED
      BY <1>0, <3>1, <3>2
  <2> QED
    BY <2>4, <2>5
<1> QED
  BY <1>3, <1>4, <1>5 DEF LoadStep

\* What StartLoads makes of an owner's loads.
Sending == [k \in Kinds |-> [s \in Slots |-> IF s = 1 THEN Sent ELSE Done]]

\* Both loads of an owner are sent when none of them is under way.
LEMMA LoadsStart ==
  ASSUME PageInv, NEW o \in Owners, ~Waits(o), StartLoads(o)
  PROVE  /\ LoadShape'
         /\ \A p \in Owners : load'[p] = IF p = o THEN Sending ELSE load[p]
PROOF
<1>1. LoadShape /\ OneLoadEach
  BY DEF PageInv
<1>2. \A k \in Kinds, s \in Slots : load[o][k][s] = Done
  BY <1>1 DEF OneLoadEach, Slots
<1> DEFINE free(k) == CHOOSE s \in Slots :
                        load[o][k][s] = Done /\ \A t \in Slots : t < s => load[o][k][t] # Done
<1>3. \A k \in Kinds : free(k) = 1
  <2> TAKE k \in Kinds
  <2>1. \A s \in Slots :
          (load[o][k][s] = Done /\ \A t \in Slots : t < s => load[o][k][t] # Done) <=> s = 1
    BY <1>2 DEF Slots
  <2>2. 1 \in Slots
    BY DEF Slots
  <2> QED
    BY <2>1, <2>2
<1>4. load' = [load EXCEPT ![o] = [k \in Kinds |-> [load[o][k] EXCEPT ![free(k)] = Sent]]]
  BY DEF StartLoads
<1>5. \A k \in Kinds : [load[o][k] EXCEPT ![free(k)] = Sent]
                       = [s \in Slots |-> IF s = 1 THEN Sent ELSE Done]
  <2> TAKE k \in Kinds
  <2>1. load[o][k] = [s \in Slots |-> Done]
    BY <1>1, <1>2 DEF LoadShape
  <2> HIDE DEF free
  <2> QED
    BY <1>3, <2>1
<1> HIDE DEF free
<1>6. [k \in Kinds |-> [load[o][k] EXCEPT ![free(k)] = Sent]] = Sending
  BY <1>5 DEF Sending
<1>7. load' = [p \in Owners |-> IF p = o THEN Sending ELSE load[p]]
  BY <1>1, <1>4, <1>6 DEF LoadShape
<1>8. \A p \in Owners : load'[p] = IF p = o THEN Sending ELSE load[p]
  BY <1>7
<1>9. LoadShape'
  <2>1. load' = [p \in Owners |-> load'[p]]
    BY <1>7
  <2>2. ASSUME NEW p \in Owners, NEW k \in Kinds
        PROVE  /\ load'[p] = [j \in Kinds |-> load'[p][j]]
               /\ load'[p][k] = [s \in Slots |-> load'[p][k][s]]
    <3>1. CASE p = o
      <4>1. load'[p] = Sending
        BY <1>8, <3>1
      <4> QED
        BY <4>1 DEF Sending
    <3>2. CASE p # o
      <4>1. load'[p] = load[p]
        BY <1>8, <3>2
      <4> QED
        BY <1>1, <4>1 DEF LoadShape
    <3> QED
      BY <3>1, <3>2
  <2>3. "jobs" \in Kinds
    BY DEF Kinds
  <2> QED
    BY <2>1, <2>2, <2>3 DEF LoadShape
<1> QED
  BY <1>8, <1>9

-----------------------------------------------------------------------------
(* Dashboard: the page's callbacks. *)

\* What a callback does to the loads of an owner: it leaves them alone, and stops
\* waiting only when they are done, or sends them and waits for them.
OwnerWaits(o) ==
  \/ load'[o] = load[o] /\ (Waits(o)' \/ ~Waits(o) \/ load[o] = AllDone)
  \/ load'[o] = Sending /\ Waits(o)'

\* Such a callback keeps the invariant if it posts and says what is true.
LEMMA CallbackKeeps ==
  ASSUME PageInv, UNCHANGED <<rows, list, shownBy, overlapping>>, breaks' \in 0 .. MaxBreaks,
         refresh' \in {"loading", "timer"}, form' \in {"ready", "posting", "loading"},
         PostIsTrue', LoadShape', \A o \in Owners : OwnerWaits(o)
  PROVE  PageInv'
PROOF
<1>1. PageTypeOK' /\ Age(list') <= Age(rows')
  BY DEF PageInv, PageTypeOK
<1>2. /\ Done.state = "done" /\ Sent.state = "sent"
      /\ \A k \in Kinds : Sending[k][1] = Sent /\ Sending[k][2] = Done
      /\ \A k \in Kinds : AllDone[k][1] = Done
  BY DEF Done, Sent, Sending, AllDone, Slots
<1>3. OneLoadEach'
  <2> SUFFICES ASSUME NEW o \in Owners, NEW k \in Kinds
               PROVE  /\ load'[o][k][2] = Done
                      /\ load'[o][k][1].state \in {"done", "sent", "failed", "answered"}
                      /\ ~Waits(o)' => load'[o][k][1] = Done
    BY DEF OneLoadEach
  <2>1. /\ load[o][k][2] = Done
        /\ load[o][k][1].state \in {"done", "sent", "failed", "answered"}
        /\ ~Waits(o) => load[o][k][1] = Done
    BY DEF PageInv, OneLoadEach
  <2> QED
    BY <1>2, <2>1 DEF OwnerWaits
<1>4. ASSUME NEW o \in Owners PROVE AnswerIsLater(o)'
  <2>1. CASE load'[o] = load[o]
    <3>1. AnswerIsLater(o)
      BY DEF PageInv
    <3> QED
      BY <2>1, <3>1 DEF AnswerIsLater
  <2>2. CASE load'[o] = Sending
    <3>1. load'[o]["jobs"][1].state = "sent"
      BY <1>2, <2>2 DEF Kinds
    <3> QED
      BY <3>1 DEF AnswerIsLater
  <2> QED
    BY <2>1, <2>2 DEF OwnerWaits
<1>5. overlapping' \subseteq UnderWay'
  <2> SUFFICES ASSUME NEW l \in overlapping PROVE l \in UnderWay'
    OBVIOUS
  <2>1. l[1] \in Owners /\ l \in Owners \X Slots /\ load[l[1]]["jobs"][l[2]] # Done
    BY DEF PageInv, UnderWay
  <2>2. l[2] = 1
    BY <2>1 DEF PageInv, OneLoadEach, Slots, Kinds
  <2>3. load'[l[1]]["jobs"][1] # Done
    BY <1>2, <2>1, <2>2 DEF OwnerWaits, Kinds
  <2> QED
    BY <2>1, <2>2, <2>3 DEF UnderWay
<1> QED
  BY <1>1, <1>3, <1>4, <1>5 DEF PageInv

\* The timer keeps the invariant: it fires when nobody waits.
LEMMA RefreshKeeps == ASSUME PageInv, RefreshStep PROVE PageInv'
PROOF
<1>0. /\ LoadShape /\ PostIsTrue /\ breaks \in 0 .. MaxBreaks
      /\ refresh \in {"loading", "timer"} /\ form \in {"ready", "posting", "loading"}
  BY DEF PageInv, PageTypeOK
<1>1. CASE Rearm
  <2>1. LoadShape' /\ PostIsTrue'
    BY <1>0, <1>1 DEF Rearm, LoadShape, PostIsTrue
  <2>2. \A o \in Owners : OwnerWaits(o)
    BY <1>1 DEF Rearm, OwnerWaits, Owners, Waits
  <2> QED
    BY <1>0, <1>1, <2>1, <2>2, CallbackKeeps DEF Rearm
<1>2. CASE TimerFires
  <2>1. ~Waits("refresh") /\ "refresh" \in Owners /\ StartLoads("refresh")
    BY <1>2 DEF TimerFires, Waits, Owners
  <2>2. /\ LoadShape'
        /\ \A p \in Owners : load'[p] = IF p = "refresh" THEN Sending ELSE load[p]
    BY <2>1, LoadsStart
  <2>3. PostIsTrue'
    BY <1>0, <1>2 DEF TimerFires, PostIsTrue
  <2>4. \A o \in Owners : OwnerWaits(o)
    BY <1>2, <2>2 DEF TimerFires, OwnerWaits, Owners, Waits
  <2> QED
    BY <1>0, <1>2, <2>2, <2>3, <2>4, CallbackKeeps DEF TimerFires
<1> QED
  BY <1>1, <1>2 DEF RefreshStep

\* The form's handler keeps the invariant: it says "Created" of the id it was
\* answered.
LEMMA FormKeeps == ASSUME PageInv, Submit \/ FormStep \/ BreakPost PROVE PageInv'
PROOF
<1>0. /\ LoadShape /\ PostIsTrue /\ breaks \in 0 .. MaxBreaks
      /\ refresh \in {"loading", "timer"} /\ form \in {"ready", "posting", "loading"}
  BY DEF PageInv, PageTypeOK
<1>1. Done.state = "done" /\ Sent.state = "sent" /\ Failed.state = "failed"
  BY DEF Done, Sent, Failed
<1>2. CASE Submit
  <2>1. LoadShape'
    BY <1>0, <1>2 DEF Submit, LoadShape
  <2>2. PostIsTrue'
    BY <1>0, <1>1, <1>2 DEF Submit, PostIsTrue
  <2>3. \A o \in Owners : OwnerWaits(o)
    BY <1>2 DEF Submit, OwnerWaits, Owners, Waits
  <2> QED
    BY <1>0, <1>2, <2>1, <2>2, <2>3, CallbackKeeps DEF Submit
<1>3. CASE BreakPost
  <2>1. LoadShape'
    BY <1>0, <1>3 DEF BreakPost, LoadShape
  <2>2. PostIsTrue'
    BY <1>0, <1>1, <1>3 DEF BreakPost, PostIsTrue
  <2>3. \A o \in Owners : OwnerWaits(o)
    BY <1>3 DEF BreakPost, OwnerWaits, Owners, Waits
  <2>4. breaks' \in 0 .. MaxBreaks
    BY <1>0, <1>3, DashboardAssumption DEF BreakPost
  <2> QED
    BY <1>0, <1>3, <2>1, <2>2, <2>3, <2>4, CallbackKeeps DEF BreakPost
<1>4. CASE NotCreated
  <2>1. LoadShape'
    BY <1>0, <1>4 DEF NotCreated, LoadShape
  <2>2. PostIsTrue'
    BY <1>0, <1>1, <1>4 DEF NotCreated, PostIsTrue
  <2>3. \A o \in Owners : OwnerWaits(o)
    BY <1>4 DEF NotCreated, OwnerWaits, Owners, Waits
  <2> QED
    BY <1>0, <1>4, <2>1, <2>2, <2>3, CallbackKeeps DEF NotCreated
<1>5. CASE FormEnds
  <2>1. LoadShape'
    BY <1>0, <1>5 DEF FormEnds, LoadShape
  <2>2. PostIsTrue'
    BY <1>0, <1>1, <1>5 DEF FormEnds, PostIsTrue
  <2>3. \A o \in Owners : OwnerWaits(o)
    BY <1>5 DEF FormEnds, OwnerWaits, Owners, Waits
  <2> QED
    BY <1>0, <1>5, <2>1, <2>2, <2>3, CallbackKeeps DEF FormEnds
<1>6. CASE Created
  <2>1. ~Waits("form") /\ "form" \in Owners /\ StartLoads("form")
    BY <1>6 DEF Created, Waits, Owners
  <2>2. /\ LoadShape'
        /\ \A p \in Owners : load'[p] = IF p = "form" THEN Sending ELSE load[p]
    BY <2>1, LoadsStart
  <2>3. PostIsTrue'
    BY <1>0, <1>1, <1>6 DEF Created, PostIsTrue
  <2>4. \A o \in Owners : OwnerWaits(o)
    BY <1>6, <2>2 DEF Created, OwnerWaits, Owners, Waits
  <2> QED
    BY <1>0, <1>6, <2>2, <2>3, <2>4, CallbackKeeps DEF Created
<1> QED
  BY <1>2, <1>3, <1>4, <1>5, <1>6 DEF FormStep

\* Whether a step that changes the message "Created job X" is a submission.
SaysItUntilSubmit ==
  SaysCreated /\ message' # message => form = "ready" /\ form' = "posting"

\* The message is cleared by a submission, and stays so while the job is posted.
LEMMA MessageStays ==
  ASSUME PageInv, [DashboardNext]_pageVars
  PROVE  SaysItUntilSubmit
PROOF
<1> SUFFICES ASSUME message # None, message' # message
             PROVE  form = "ready" /\ form' = "posting"
  BY DEF SaysItUntilSubmit, SaysCreated
<1>1. form # "posting"
  BY DEF PageInv, PostIsTrue
<1>2. Submit
  <2>1. ~(Created \/ NotCreated)
    BY <1>1 DEF Created, NotCreated
  <2>2. \A o \in Owners, k \in Kinds, s \in Slots : ~LoadStep(o, k, s)
    BY DEF LoadStep, ServeLoad, BreakLoad, Render
  <2>3. ~(OthersPost \/ JobEnds \/ PostStep \/ RefreshStep \/ FormEnds)
    BY DEF OthersPost, JobEnds, PostStep, ServePost, BreakPost, RefreshStep, Rearm,
           TimerFires, FormEnds
  <2>4. pageVars' # pageVars
    BY DEF pageVars
  <2> QED
    BY <2>1, <2>2, <2>3, <2>4 DEF DashboardNext, FormStep
<1> QED
  BY <1>2 DEF Submit

\* Every step keeps the invariant, and makes the list older only by rendering
\* another owner's load that overlapped with the one shown.
LEMMA PageStep ==
  PageInv /\ [DashboardNext]_pageVars => PageInv' /\ BackOnlyByOverlap
PROOF
<1> SUFFICES ASSUME PageInv, [DashboardNext]_pageVars PROVE PageInv' /\ BackOnlyByOverlap
  OBVIOUS
<1>0. list' = list => BackOnlyByOverlap
  <2>1. Age(list) \in Nat
    BY AgeType DEF PageInv, PageTypeOK
  <2> QED
    BY <2>1 DEF BackOnlyByOverlap
<1>1. ASSUME NEW o \in Owners, NEW k \in Kinds, NEW s \in Slots, LoadStep(o, k, s)
      PROVE  PageInv' /\ BackOnlyByOverlap
  BY <1>1, LoadStepKeeps
<1>2. CASE OthersPost \/ JobEnds \/ ServePost
  <2>1. PageInv'
    BY <1>2, ServerStep
  <2>2. list' = list
    BY <1>2 DEF OthersPost, JobEnds, ServePost
  <2> QED
    BY <1>0, <2>1, <2>2
<1>3. CASE RefreshStep
  <2>1. PageInv'
    BY <1>3, RefreshKeeps
  <2>2. list' = list
    BY <1>3 DEF RefreshStep, Rearm, TimerFires
  <2> QED
    BY <1>0, <2>1, <2>2
<1>4. CASE Submit \/ FormStep \/ BreakPost
  <2>1. PageInv'
    BY <1>4, FormKeeps
  <2>2. list' = list
    BY <1>4 DEF Submit, FormStep, Created, NotCreated, FormEnds, BreakPost
  <2> QED
    BY <1>0, <2>1, <2>2
<1>5. CASE UNCHANGED pageVars
  <2>1. UNCHANGED <<rows, load, refresh, form, post, message, list, shownBy, breaks,
                    overlapping>>
    BY <1>5 DEF pageVars
  <2>2. /\ PageTypeOK' /\ LoadShape' /\ OneLoadEach' /\ PostIsTrue' /\ Age(list') <= Age(rows')
        /\ overlapping' \subseteq UnderWay'
    BY <2>1 DEF PageInv, PageTypeOK, LoadShape, OneLoadEach, PostIsTrue, Waits, UnderWay
  <2>3. \A o \in Owners : AnswerIsLater(o)'
    BY <2>1 DEF PageInv, AnswerIsLater
  <2> QED
    BY <1>0, <2>1, <2>2, <2>3 DEF PageInv
<1> QED
  BY <1>1, <1>2, <1>3, <1>4, <1>5 DEF DashboardNext, PostStep

\* The invariant is one of the page: what it shows and says is, or was, true of
\* the table, and loads of one owner do not overlap.
THEOREM PageKeepsInv == DashboardSpec => []PageInv
<1>1. DashboardInit => PageInv
  BY PageInvInit
<1>2. PageInv /\ [DashboardNext]_pageVars => PageInv'
  BY PageStep
<1> QED
  BY <1>1, <1>2, PTL DEF DashboardSpec

\* CreatedIsTrue: the page says "Created job X" only of a job in the table, and
\* says so until the next submission, whatever the loads come to.
THEOREM CreatedStaysTrue == DashboardSpec => CreatedIsTrue
<1>1. PageInv => DashboardTypeOK /\ (SaysCreated => message.created \in DOMAIN rows)
  <2> SUFFICES ASSUME PageInv
               PROVE  DashboardTypeOK /\ (SaysCreated => message.created \in DOMAIN rows)
    OBVIOUS
  <2>1. DashboardTypeOK
    <3>1. PageTypeOK /\ OneLoadEach /\ overlapping \subseteq UnderWay
      BY DEF PageInv
    <3>2. Done.state = "done"
      BY DEF Done
    <3>3. \A o \in Owners, k \in Kinds, s \in Slots :
            load[o][k][s].state \in {"done", "sent", "failed", "answered"}
      BY <3>1, <3>2 DEF OneLoadEach, Slots
    <3> QED
      BY <3>1, <3>3 DEF DashboardTypeOK, PageTypeOK, IsTable
  <2>2. ASSUME SaysCreated PROVE message.created \in DOMAIN rows
    <3>1. CASE message = [error |-> "Cannot create job"]
      BY <2>2, <3>1 DEF SaysCreated
    <3>2. CASE \E id \in DOMAIN rows : message = [created |-> id]
      BY <3>2
    <3> QED
      BY <2>2, <3>1, <3>2 DEF PageInv, PostIsTrue, SaysCreated
  <2> QED
    BY <2>1, <2>2
<1>2. PageInv /\ [DashboardNext]_pageVars => [SaysItUntilSubmit]_pageVars
  BY MessageStays
<1>3. DashboardSpec => [][SaysItUntilSubmit]_pageVars
  BY <1>2, PageKeepsInv, PTL DEF DashboardSpec
<1>4. DashboardSpec => [](DashboardTypeOK /\ (SaysCreated => message.created \in DOMAIN rows))
  BY <1>1, PageKeepsInv, PTL
<1> QED
  BY <1>3, <1>4 DEF CreatedIsTrue, SaysItUntilSubmit

\* GoesBackOnlyByOverlap: the list goes back only when a load of the refresh and
\* one of the form overlapped, and the later rendered one belongs to the other of
\* the two than the list.
THEOREM ListGoesBackOnlyByOverlap == DashboardSpec => GoesBackOnlyByOverlap
<1>1. PageInv /\ [DashboardNext]_pageVars => [BackOnlyByOverlap]_pageVars
  BY PageStep
<1>2. DashboardSpec => [][BackOnlyByOverlap]_pageVars
  BY <1>1, PageKeepsInv, PTL DEF DashboardSpec
<1> QED
  BY <1>2 DEF GoesBackOnlyByOverlap, BackOnlyByOverlap
=============================================================================
