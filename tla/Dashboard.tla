------------------------------ MODULE Dashboard ------------------------------
(***************************************************************************)
(* The dashboard in the browser (src/public/app.js) and the three routes   *)
(* it calls: GET /jobs, GET /metrics and POST /jobs.                       *)
(*                                                                         *)
(* refreshDashboard loads the list and the metrics every two seconds; the  *)
(* handler of the form posts a job and then loads both as well.  At every  *)
(* await the other one may run, so loads of the two overlap, and each may  *)
(* be answered, fail and be rendered at any time.  Of a job the page shows *)
(* whether it has ended; JobStore models its life.                         *)
(***************************************************************************)
EXTENDS Naturals, FiniteSets

CONSTANTS
  MaxJobs,     \* Bound: jobs created by this page or by anybody else.
  MaxBreaks,   \* Bound: requests that fail.
  None

ASSUME DashboardAssumption == MaxJobs \in Nat /\ MaxBreaks \in Nat

Owners == {"refresh", "form"}    \* Who calls loadJobs and loadMetrics.
Kinds  == {"jobs", "metrics"}
Slots  == {1, 2}                 \* Room for loads of one owner that overlap.

VARIABLES
  rows,      \* The server's table: from ids to "unfinished" or "ended".
  load,      \* For each owner and kind, the loads that are under way.
  refresh,   \* refreshDashboard: "loading" | "timer"
  form,      \* The handler of the form: "ready" | "posting" | "loading"
  post,      \* Its POST, as far as the page knows.
  message,   \* createJobStatus.
  list,      \* What #jobs shows: the rows of an answer.
  shownBy,   \* Who rendered it.
  metrics,   \* What the metrics show.
  breaks,
  overlapping  \* History, which only a property reads: the loads of the list
               \* that were under way when the list now shown was rendered.

pageVars == <<rows, load, refresh, form, post, message, list, shownBy, metrics, breaks,
              overlapping>>

Done     == [state |-> "done", body |-> None]
Sent     == [state |-> "sent", body |-> None]
Failed   == [state |-> "failed", body |-> None]
Answered(body) == [state |-> "answered", body |-> body]

\* JobStore::metrics: one SELECT, so that the counts belong together.
Metrics(jobs) ==
  [total      |-> Cardinality(DOMAIN jobs),
   unfinished |-> Cardinality({id \in DOMAIN jobs : jobs[id] = "unfinished"}),
   ended      |-> Cardinality({id \in DOMAIN jobs : jobs[id] = "ended"})]

\* JobStore::all, or JobStore::metrics.
Body(kind) == IF kind = "jobs" THEN rows ELSE Metrics(rows)

\* Nothing is under way: what Promise.all waits for.
AllDone == [k \in Kinds |-> [s \in Slots |-> Done]]

\* The loads of the list that are under way, by owner and slot.
UnderWay == {l \in Owners \X Slots : load[l[1]]["jobs"][l[2]] # Done}

\* Calls of loadJobs and loadMetrics.
StartLoads(o) ==
  LET free(k) == CHOOSE s \in Slots :
                   load[o][k][s] = Done /\ \A t \in Slots : t < s => load[o][k][t] # Done
  IN  /\ \A k \in Kinds : \E s \in Slots : load[o][k][s] = Done
      /\ load' = [load EXCEPT ![o] = [k \in Kinds |-> [@[k] EXCEPT ![free(k)] = Sent]]]

-----------------------------------------------------------------------------
NoRows == [id \in {} |-> None]

DashboardInit ==
  /\ rows = NoRows
  /\ load = [o \in Owners |-> AllDone]
  /\ refresh = "timer" /\ form = "ready"
  /\ post = Done /\ message = None
  /\ list = NoRows /\ shownBy = "refresh" /\ metrics = None
  /\ breaks = 0 /\ overlapping = {}

(* The server and the network. *)

\* JobService::add, as far as the page can tell.
NewRow == [id \in DOMAIN rows \cup {Cardinality(DOMAIN rows) + 1} |->
             IF id \in DOMAIN rows THEN rows[id] ELSE "unfinished"]

OthersPost ==
  /\ Cardinality(DOMAIN rows) < MaxJobs
  /\ rows' = NewRow
  /\ UNCHANGED <<load, refresh, form, post, message, list, shownBy, metrics, breaks, overlapping>>

JobEnds ==
  /\ \E id \in DOMAIN rows : rows[id] = "unfinished" /\ rows' = [rows EXCEPT ![id] = "ended"]
  /\ UNCHANGED <<load, refresh, form, post, message, list, shownBy, metrics, breaks, overlapping>>

ServeLoad(o, k, s) ==
  /\ load[o][k][s] = Sent
  /\ load' = [load EXCEPT ![o][k][s] = Answered(Body(k))]
  /\ UNCHANGED <<rows, refresh, form, post, message, list, shownBy, metrics, breaks, overlapping>>

\* Also an answer that is not response.ok, or no JSON.
BreakLoad(o, k, s) ==
  /\ load[o][k][s].state \in {"sent", "answered"} /\ breaks < MaxBreaks
  /\ load' = [load EXCEPT ![o][k][s] = Failed]
  /\ breaks' = breaks + 1
  /\ UNCHANGED <<rows, refresh, form, post, message, list, shownBy, metrics, overlapping>>

\* 201 with the id, or 400 and the like with an error.
ServePost ==
  /\ post = Sent
  /\ \/ /\ Cardinality(DOMAIN rows) < MaxJobs
        /\ rows' = NewRow
        /\ post' = Answered(Cardinality(DOMAIN rows) + 1)
     \/ post' = Answered(None) /\ UNCHANGED rows
  /\ UNCHANGED <<load, refresh, form, message, list, shownBy, metrics, breaks, overlapping>>

\* The request does not arrive, or the answer does not.
BreakPost ==
  /\ post.state \in {"sent", "answered"} /\ breaks < MaxBreaks
  /\ post' = Failed
  /\ breaks' = breaks + 1
  /\ UNCHANGED <<rows, load, refresh, form, message, list, shownBy, metrics, overlapping>>

(* The page. *)

\* loadJobs and loadMetrics go on after their fetch: they render the answer,
\* or leave the old one and catch the error.
Render(o, k, s) ==
  /\ load[o][k][s].state \in {"answered", "failed"}
  /\ load' = [load EXCEPT ![o][k][s] = Done]
  /\ IF load[o][k][s].state = "answered" /\ k = "jobs"
     THEN list' = load[o][k][s].body /\ shownBy' = o ELSE UNCHANGED <<list, shownBy>>
  /\ IF load[o][k][s].state = "answered" /\ k = "metrics"
     THEN metrics' = load[o][k][s].body ELSE UNCHANGED metrics
  /\ overlapping' = IF load[o][k][s].state = "answered" /\ k = "jobs"
                    THEN UnderWay' ELSE overlapping \cap UnderWay'
  /\ UNCHANGED <<rows, refresh, form, post, message, breaks>>

\* Mutant: setInterval, which does not wait for the loads.
RearmAtOnce ==
  /\ refresh = "loading"
  /\ refresh' = "timer"
  /\ UNCHANGED <<rows, load, form, post, message, list, shownBy, metrics, breaks, overlapping>>

\* Mutant: Promise.all is rejected when a load fails, and nobody catches it.
RearmAfterSuccess ==
  /\ refresh = "loading" /\ load["refresh"] = AllDone
  /\ breaks = 0
  /\ refresh' = "timer"
  /\ UNCHANGED <<rows, load, form, post, message, list, shownBy, metrics, breaks, overlapping>>

\* window.setTimeout after Promise.all.
Rearm ==
  /\ refresh = "loading" /\ load["refresh"] = AllDone
  /\ refresh' = "timer"
  /\ UNCHANGED <<rows, load, form, post, message, list, shownBy, metrics, breaks, overlapping>>

\* Also the first call of refreshDashboard, when the page is opened.
TimerFires ==
  /\ refresh = "timer"
  /\ refresh' = "loading"
  /\ StartLoads("refresh")
  /\ UNCHANGED <<rows, form, post, message, list, shownBy, metrics, breaks, overlapping>>

\* The button is enabled when the handler is not running.
Submit ==
  /\ form = "ready"
  /\ form' = "posting" /\ post' = Sent /\ message' = None
  /\ UNCHANGED <<rows, load, refresh, list, shownBy, metrics, breaks, overlapping>>

\* Mutant: response.ok is not looked at.
CreatedUnchecked ==
  /\ form = "posting" /\ post.state = "answered"
  /\ form' = "loading" /\ post' = Done /\ message' = [created |-> post.body]
  /\ StartLoads("form")
  /\ UNCHANGED <<rows, refresh, list, shownBy, metrics, breaks, overlapping>>

\* "Created job ...", then both loads.
Created ==
  /\ form = "posting" /\ post.state = "answered" /\ post.body # None
  /\ form' = "loading" /\ post' = Done /\ message' = [created |-> post.body]
  /\ StartLoads("form")
  /\ UNCHANGED <<rows, refresh, list, shownBy, metrics, breaks, overlapping>>

\* Mutant: the button is enabled only after a job was created.
NotCreatedForGood ==
  /\ form = "posting"
  /\ post.state = "failed" \/ (post.state = "answered" /\ post.body = None)
  /\ post' = Done /\ message' = [error |-> "Cannot create job"]
  /\ UNCHANGED <<rows, load, refresh, form, list, shownBy, metrics, breaks, overlapping>>

\* "Cannot create job: ...".
NotCreated ==
  /\ form = "posting"
  /\ post.state = "failed" \/ (post.state = "answered" /\ post.body = None)
  /\ form' = "ready" /\ post' = Done /\ message' = [error |-> "Cannot create job"]
  /\ UNCHANGED <<rows, load, refresh, list, shownBy, metrics, breaks, overlapping>>

\* Mutant: Promise.all is rejected when a load fails, and the catch clause says
\* that the job was not created.
FormEndsOnFailure ==
  /\ form = "loading"
  /\ \/ load["form"] = AllDone /\ UNCHANGED <<message, load>>
     \/ /\ \E k \in Kinds : load["form"][k][1] = Failed
        /\ message' = [error |-> "Cannot create job"]
        /\ load' = [load EXCEPT !["form"] = AllDone]
  /\ form' = "ready"
  /\ UNCHANGED <<rows, refresh, post, list, shownBy, metrics, breaks, overlapping>>

\* finally: the button is enabled.
FormEnds ==
  /\ form = "loading" /\ load["form"] = AllDone
  /\ form' = "ready"
  /\ UNCHANGED <<rows, load, refresh, post, message, list, shownBy, metrics, breaks, overlapping>>

LoadStep(o, k, s) == ServeLoad(o, k, s) \/ BreakLoad(o, k, s) \/ Render(o, k, s)

PostStep == ServePost \/ BreakPost

RefreshStep == Rearm \/ TimerFires

FormStep == Created \/ NotCreated \/ FormEnds

DashboardNext ==
  \/ OthersPost \/ JobEnds
  \/ \E o \in Owners, k \in Kinds, s \in Slots : LoadStep(o, k, s)
  \/ PostStep \/ RefreshStep \/ Submit \/ FormStep

\* A request ends in an answer or an error: no fetch has a timeout, so this is
\* up to the browser.  The page's callbacks run.  Nobody has to submit.
DashboardFairness ==
  /\ \A o \in Owners, k \in Kinds, s \in Slots : WF_pageVars(LoadStep(o, k, s))
  /\ WF_pageVars(PostStep) /\ WF_pageVars(RefreshStep) /\ WF_pageVars(FormStep)

DashboardSpec == DashboardInit /\ [][DashboardNext]_pageVars /\ DashboardFairness

-----------------------------------------------------------------------------
(* Properties. *)

\* Of two states of the table, how far each is.
Age(jobs) == Cardinality(DOMAIN jobs)
             + Cardinality({id \in DOMAIN jobs : jobs[id] = "ended"})

\* The page says "Created job X".
SaysCreated == message # None /\ "created" \in DOMAIN message

DashboardTypeOK ==
  /\ \A jobs \in {rows, list} :
       /\ DOMAIN jobs \subseteq 1 .. MaxJobs
       /\ \A id \in DOMAIN jobs : jobs[id] \in {"unfinished", "ended"}
  /\ \A o \in Owners, k \in Kinds, s \in Slots :
       load[o][k][s].state \in {"done", "sent", "failed", "answered"}
  /\ refresh \in {"loading", "timer"} /\ form \in {"ready", "posting", "loading"}
  /\ shownBy \in Owners /\ breaks \in 0 .. MaxBreaks /\ overlapping \subseteq UnderWay

\* Every variable has its type, and the page says "Created job X" only of a job
\* that is in the table.  Once it says so it goes on saying it until the next
\* submission: a load that fails afterwards, while the handler runs or when it
\* ends, does not turn it into "Cannot create job".
CreatedIsTrue ==
  /\ [](DashboardTypeOK /\ (SaysCreated => message.created \in DOMAIN rows))
  /\ [][SaysCreated /\ message' # message => form = "ready" /\ form' = "posting"]_pageVars

\* Whether a step renders a load of the list that was under way when the list it
\* replaces was rendered, so that it overlapped with the load of that list.
RendersOverlapping(o) ==
  \E l \in overlapping : l[1] = o /\ l \in UnderWay /\ l \notin UnderWay'

\* The list goes back to an older state of the table only when a load of the
\* form and one of the refresh overlapped: the answer that is rendered was asked
\* for before the newer one was rendered, and by the other of the two.  The
\* loads of either one alone are rendered in the order they were sent, as the
\* timer and the button see to; and an answer to a load that was sent after the
\* list was rendered is never older than the list.
GoesBackOnlyByOverlap ==
  [][Age(list') < Age(list) => shownBy' # shownBy /\ RendersOverlapping(shownBy')]_pageVars

\* The refresh goes on for ever, whatever its loads come to; so, in spite of old
\* answers that replace newer ones and of requests that fail, the list and the
\* metrics come to show the table, once it changes no more.
PageCatchesUp ==
  /\ []<>(refresh = "timer") /\ []<>(refresh = "loading")
  /\ <>[](list = rows /\ metrics = Metrics(rows))

\* The form can be used again after every submission.
FormComesBack == form # "ready" ~> form = "ready"
=============================================================================
