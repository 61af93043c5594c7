----------------------------- MODULE ReportLogs -----------------------------
(***************************************************************************)
(* The remote half of a cloud import: the token and the specification that *)
(* it asks for first, and TuyaReportLogGateway.list_events of              *)
(* infrastructure/tuya/report_logs.py, which pages through the report log  *)
(* of a meter under the import's deadline and cancel flag.  Every page is  *)
(* one request of Transport; a request that the cloud refuses for its rate *)
(* is repeated after a delay, and the starts of all requests are paced.    *)
(*                                                                         *)
(* One import, one meter.  The meter may report while the log is listed,   *)
(* and the cloud may answer anything.                                      *)
(***************************************************************************)
EXTENDS Transport, Sequences, FiniteSets

CONSTANTS Events,    \* an event's time, and a value that it is given
          Budget,    \* time units of the import's deadline
          Delays,    \* waits before a retry, one for each
          Interval,  \* MIN_REQUEST_INTERVAL_SECONDS
          MaxPages, MaxRows,
          TotalRaw   \* MAX_TOTAL_RAW

ASSUME EventsAssumption == IsFiniteSet(Events) /\ \A e \in Events : e.time \in Nat \ {0}
ASSUME BudgetAssumption == {Budget, Interval, TotalRaw} \subseteq Nat
ASSUME BoundsAssumption == MaxPages \in Nat \ {0} /\ MaxRows \in Nat
ASSUME DelaysAssumption == Delays \in Seq(Nat)

VARIABLES reports,    \* what the cloud has been told of the meter
          left,       \* cancellation.remaining_seconds()
          cancelled,
          list        \* the import's thread

vars == <<net, reports, left, cancelled, list>>

TimesOf(S) == {e.time : e \in S}

\* last_row_key stands for a position in the log: the time of an event, or
\* before every event.
Start == 0
Cursors == TimesOf(Events) \cup {Start}
NoTotal == -1

Steps == {"idle", "token", "specification", "page", "delay", "pace", "send",
          "failed", "done"}

Lists == [step : Steps,
          attempt : 1..(Len(Delays) + 1),
          wait : Nat,                     \* what is left of cancellation.wait()
          last : 0..Budget,               \* left when the last request started
          started : Nat,                  \* ghost: requests for a page so far
          page : 1..MaxPages,             \* page_number
          cursor : Cursors,
          cursors : SUBSET Cursors,       \* seen_cursors
          rows : SUBSET Events,           \* seen_rows
          total : {NoTotal} \cup Nat,     \* expected_total
          raw : 0..TotalRaw,              \* raw_remaining
          asked : SUBSET Events]          \* ghost: the reports at the beginning

NoList == [step |-> "idle", attempt |-> 1, wait |-> 0, last |-> 0, started |-> 0,
           page |-> 1, cursor |-> Start, cursors |-> {}, rows |-> {}, total |-> NoTotal,
           raw |-> TotalRaw, asked |-> {}]

Init == /\ net = IdleNet /\ reports \in SUBSET Events
        /\ left = Budget /\ cancelled = FALSE /\ list = NoList

At(step) == list.step = step
Running == list.step \notin {"idle", "failed", "done"}
world == <<reports, left, cancelled>>

\* cancellation.checkpoint() raises.
Stopped == cancelled \/ left = 0

-----------------------------------------------------------------------------
(* The world around the import *)

Report == /\ \E e \in Events : reports' = reports \cup {e}
          /\ UNCHANGED <<net, left, cancelled, list>>

Cancel == /\ Running /\ cancelled' = TRUE
          /\ UNCHANGED <<net, reports, left, list>>

Less(n) == IF n = 0 THEN 0 ELSE n - 1

Tick == /\ Running /\ left > 0 /\ left' = left - 1
        /\ net' = [net EXCEPT !.due = Less(@)]
        /\ list' = [list EXCEPT !.wait = Less(@)]
        /\ UNCHANGED <<reports, cancelled>>

-----------------------------------------------------------------------------
(* The pages of the cloud *)

\* A page that keeps to the cursor: every event up to the next cursor, with a
\* value it was reported with, and perhaps events of the page before it again
\* or one event with two values. The next cursor may lie anywhere.
Answers(cursor) ==
    {p \in [rows : SUBSET reports, more : BOOLEAN, next : Cursors,
            total : {NoTotal, Cardinality(TimesOf(reports))}] :
        LET due == {t \in TimesOf(reports) : cursor < t /\ (p.more => t <= p.next)}
        IN  due \subseteq TimesOf(p.rows)}

-----------------------------------------------------------------------------
(* The import *)

Become(l) == list' = l /\ UNCHANGED world

\* A raised error ends the import: nothing is kept and no reply waited for.
Failed == [NoList EXCEPT !.step = "failed"]
Raise == net' = IdleNet /\ Become(Failed)

Begin == /\ At("idle")
         /\ Become([list EXCEPT !.step = "token"]) /\ UNCHANGED net

\* _prepare_request and send_bounded: a checkpoint, then the request with what
\* time is left.
Request(limit) == IF Stopped THEN Raise
                  ELSE Open(limit, Smaller(RemoteMax, left)) /\ Become(list)

\* The token and the specification.
Preparing == At("token") \/ At("specification")

Ask == /\ Preparing /\ net.phase = "idle"
       /\ Request(PageLimit)

\* authenticate, get_device_specification and the checkpoint after it; the
\* listing begins with the answer to the second request.
Answer == /\ Preparing /\ net.phase = "quit"
          /\ \/ /\ Arrived(Final) /\ Final.status = "ok" /\ ~Stopped
                /\ net' = IdleNet
                /\ Become(IF At("token") THEN [list EXCEPT !.step = "specification"]
                          ELSE [list EXCEPT !.step = "page", !.asked = reports])
             \/ Raise

\* list_events: one page more. _fetch_with_rate_retry: the first attempt waits
\* for its turn only.
Fetch == /\ At("page")
         /\ IF Stopped THEN Raise
            ELSE /\ Become([list EXCEPT !.step = "delay", !.attempt = 1, !.wait = 0])
                 /\ UNCHANGED net

\* cancellation.wait returns when its time is over, or fails.
Waited == list.wait = 0 \/ Stopped

\* Mutant: every page has a pacer of its own.
GapInPage == IF list.attempt = 1 \/ Interval <= list.last - left THEN 0
             ELSE Interval - (list.last - left)

\* _RequestPacer.wait_before_request: what is missing to the interval.
Gap == IF list.started = 0 \/ Interval <= list.last - left THEN 0
       ELSE Interval - (list.last - left)

Delay == /\ At("delay") /\ Waited
         /\ IF Stopped THEN Raise
            ELSE /\ Become([list EXCEPT !.step = "pace", !.wait = Gap])
                 /\ UNCHANGED net

Pace == /\ At("pace") /\ Waited
        /\ IF Stopped THEN Raise
           ELSE /\ Become([list EXCEPT !.step = "send", !.last = left, !.started = @ + 1])
                /\ UNCHANGED net

\* Mutant: the allowance of a page does not shrink with the pages before it.
AllowanceOfPage == PageLimit

\* BodyLimits(min(1_048_576, raw_allowance), ...).
Allowance == Smaller(PageLimit, list.raw)

Send == /\ At("send") /\ net.phase = "idle"
        /\ Request(Allowance)

\* The cloud refuses the rate, with an HTTP error or in a body of its own.
RateLimited ==
    /\ At("send") /\ net.phase = "quit" /\ Arrived(Final)
    /\ IF list.attempt > Len(Delays) THEN Raise
       ELSE /\ net' = IdleNet
            /\ Become([list EXCEPT !.step = "delay", !.wait = Delays[list.attempt],
                                   !.attempt = @ + 1])

\* Two values for the same event, in the page or with the pages before it.
Contradicts(p) == \E e \in p.rows, f \in p.rows \cup list.rows : e.time = f.time /\ e # f

\* The checks of a page, before its rows are kept.
Refused(p) == \/ p.more /\ p.rows = {}
              \/ p.total # NoTotal /\ list.total \notin {NoTotal, p.total}
              \/ Cardinality(list.rows) + Cardinality(p.rows) > MaxRows
              \/ Contradicts(p)

\* Mutant: the rows of the pages so far are taken for the whole log.
KeptSoFar(l) == [l EXCEPT !.step = "done"]

\* raise self._limit().
OutOfPages(l) == Failed

\* The bytes of the body count, whatever the page holds.
Charged == [list EXCEPT !.raw = @ - Final.body]

Kept(p) == [Charged EXCEPT !.rows = @ \cup p.rows,
                           !.total = IF p.total = NoTotal THEN @ ELSE p.total]

TakePage ==
    /\ At("send") /\ net.phase = "quit" /\ Arrived(Final) /\ Final.status = "ok"
    /\ \E p \in Answers(list.cursor) :
          IF Refused(p) \/ (p.more /\ p.next \in list.cursors) THEN Raise
          ELSE /\ net' = IdleNet
               /\ Become(IF ~p.more THEN [Kept(p) EXCEPT !.step = "done"]
                         ELSE IF list.page = MaxPages THEN OutOfPages(Kept(p))
                         ELSE [Kept(p) EXCEPT !.step = "page", !.page = @ + 1,
                                              !.cursor = p.next,
                                              !.cursors = @ \cup {p.next}])

\* No reply that send_bounded accepts, one that is not a page of this meter and
\* code, or an error that is not about the rate.
LosePage == /\ At("send") /\ net.phase = "quit"
            /\ Raise

Reply == \/ Headers \/ Chunk \/ Finished

Network == /\ \/ Reply \/ Expire \/ CheckCancellation(cancelled)
           /\ Become(list)

Step == \/ Ask \/ Answer \/ Fetch \/ Delay \/ Pace
        \/ Send \/ RateLimited \/ TakePage \/ LosePage

Next == Report \/ Cancel \/ Tick \/ Begin \/ Network \/ Step

Timers == (Expire \/ CheckCancellation(cancelled)) /\ Become(list)

\* Time passes, the thread runs and Qt's timers fire; the cloud owes nothing.
Fairness == WF_vars(Tick) /\ WF_vars(Step) /\ WF_vars(Timers)

Spec == Init /\ [][Next]_vars
FairSpec == Spec /\ Fairness

-----------------------------------------------------------------------------
(* Properties *)

TypeOK == /\ net \in Nets /\ list \in Lists
          /\ reports \subseteq Events /\ left \in 0..Budget /\ cancelled \in BOOLEAN

\* The bytes of the pages together stay within the total (raw is never
\* negative), and no reply ever holds more than a byte over the limit of its
\* status, however long the bodies are and in whatever chunks they come.
BudgetsKept == /\ TypeOK
               /\ net.body <= (IF net.status = "ok" THEN net.limit ELSE ErrorLimit) + 1

\* Requests for pages start at least MIN_REQUEST_INTERVAL apart, the retries
\* and the page after a retry included: so many starts took so many intervals.
RateKept == list.started > 0 => (list.started - 1) * Interval <= Budget - list.last

\* list_events returns every event that had been reported when it began, once
\* and with a value it was reported with, or raises: pages that overlap, are
\* repeated, contradict each other or never end do not give a partial answer.
Listing == INSTANCE EventListing
           WITH asked <- list.asked,
                phase <- IF At("done") THEN "answered"
                         ELSE IF At("failed") THEN "failed"
                         ELSE IF At("idle") \/ Preparing THEN "idle"
                         ELSE "asked",
                answer <- IF At("done") THEN list.rows ELSE {}
ImplementsListing == Listing!ListingSpec

\* An import that has begun to ask ends, however silent, slow or endless the
\* cloud is: by the deadline at the latest.
ListingEnds == At("token") ~> ~Running
=============================================================================
