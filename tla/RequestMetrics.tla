----------------------------- MODULE RequestMetrics -----------------------------
(***************************************************************************)
(* What the hosted server keeps about its requests: the gauge and the      *)
(* histogram of metrics.ts, the usage events of middleware/usageTracker.ts, *)
(* which are inserted after the answer, the report services/metrics.ts     *)
(* makes of them in several queries, and the MCP sessions of routes/mcp.ts. *)
(*                                                                         *)
(* A response ends in "finish", or its connection breaks off first and     *)
(* only "close" comes; an event stream always ends that way.  Both events  *)
(* are Node's and external.                                                *)
(***************************************************************************)
EXTENDS Naturals, Sequences, FiniteSets, FiniteSetsExt

CONSTANTS
  Requests,
  Callers, Anonymous,   (* who a request is made by                           *)
  Endpoints,
  StatusCodes,   (* what the handlers answer                                *)
  TopEndpoints,  (* how many endpoints the report lists                     *)
  MaxReports     (* bound on the reports of a behaviour                     *)

ASSUME RequestMetricsAssumption ==
  /\ IsFiniteSet(Requests) /\ IsFiniteSet(Endpoints)
  /\ Anonymous \notin Callers /\ {"page", "sse"} \cap Endpoints = {}
  /\ StatusCodes \subseteq 200 .. 599 /\ 401 \in StatusCodes
  /\ {TopEndpoints, MaxReports} \subseteq Nat

VARIABLES
  request,     (* [Requests -> where it is and what it is]                  *)
  active,      (* keyspot_active_requests                                   *)
  durations,   (* [status bucket -> values in the histogram's array]        *)
  inserting,   (* usage events whose insert has not returned                *)
  usage,       (* the usage_events table                                    *)
  lost,        (* history: events whose insert failed                       *)
  transports,  (* sessions of the transports map                            *)
  usageReport, (* the report being made: for whom, and the rows each query  *)
               (* has counted so far                                        *)
  reports

telemetry ==
  <<request, active, durations, inserting, usage, lost, transports, usageReport, reports>>

Buckets == {"1xx", "2xx", "3xx", "4xx", "5xx"}

BucketStatus(code) ==
  CASE code >= 500 -> "5xx" [] code \in 400 .. 499 -> "4xx" [] code \in 300 .. 399 -> "3xx"
    [] code \in 200 .. 299 -> "2xx" [] OTHER -> "1xx"

Absent == [at |-> "absent", route |-> "page", checking |-> FALSE, user |-> Anonymous]

NoReport == [for |-> Anonymous, rows |-> [q \in {} |-> {}]]

MetricsInit ==
  /\ request = [r \in Requests |-> Absent]
  /\ active = 0
  /\ durations = [b \in Buckets |-> 0]
  /\ inserting = {} /\ usage = {} /\ lost = {}
  /\ transports = {}
  /\ usageReport = NoReport
  /\ reports = 0

-------------------------------------------------------------------------------
(* The limiter stands before the metrics: what it answers is not counted.  *)
RateLimited(r) ==
  /\ request[r] = Absent
  /\ request' = [request EXCEPT ![r].at = "limited"]
  /\ UNCHANGED <<active, durations, inserting, usage, lost, transports, usageReport, reports>>

(* metricsMiddleware counts the request; but for a page, requireAuth then  *)
(* awaits the token's verification and the user's row.                     *)
Arrive(r) ==
  /\ request[r] = Absent
  /\ \E route \in {"page", "sse"} \cup Endpoints :
       request' = [request EXCEPT ![r] =
         [at |-> "open", route |-> route, checking |-> route # "page", user |-> Anonymous]]
  /\ active' = active + 1
  /\ UNCHANGED <<durations, inserting, usage, lost, transports, usageReport, reports>>

(* The awaits are over, and the handler goes on whether or not the         *)
(* connection is still there: the one of an event stream stores a session, *)
(* and only then listens for "close".                                      *)
LetIn(r) ==
  /\ request[r].checking
  /\ \E user \in Callers :
       request' = [request EXCEPT ![r].checking = FALSE, ![r].user = user]
  /\ transports' = IF request[r].route = "sse" THEN transports \cup {r} ELSE transports
  /\ UNCHANGED <<active, durations, inserting, usage, lost, usageReport, reports>>

(* requireAuth or requireSubscription answers instead: a stream that is    *)
(* not to be is a page.                                                    *)
Refuse(r) ==
  /\ request[r].checking
  /\ request' = [request EXCEPT ![r].checking = FALSE,
                                ![r].route = IF @ = "sse" THEN "page" ELSE @]
  /\ UNCHANGED <<active, durations, inserting, usage, lost, transports, usageReport, reports>>

(* What "finish" adds to the usage events: nothing for a request outside   *)
(* /api or without a user.                                                 *)
UsageEvents(r, status) ==
  IF request[r].route \in Endpoints /\ request[r].user # Anonymous
    THEN {[of |-> r, by |-> request[r].user, endpoint |-> request[r].route, status |-> status]}
    ELSE {}

(* requireAuth stands before every endpoint; what a handler throws, or no  *)
(* handler takes, the last two handlers of the application answer.         *)
Answers(r) ==
  IF request[r].route \in Endpoints /\ request[r].user = Anonymous THEN {401} ELSE StatusCodes

(* "finish": the listeners of both middlewares run.                        *)
FinishRequest(r) ==
  /\ request[r].at = "open" /\ request[r].route # "sse" /\ ~ request[r].checking
  /\ \E status \in Answers(r) :
       /\ durations' = [durations EXCEPT ![BucketStatus(status)] = @ + 1]
       /\ inserting' = inserting \cup UsageEvents(r, status)
  /\ active' = active - 1
  /\ request' = [request EXCEPT ![r].at = "finished"]
  /\ UNCHANGED <<usage, lost, transports, usageReport, reports>>

(* Only "close", to which only an event stream that was let in listens:    *)
(* before, nobody hears that the connection is "gone".                     *)
BreakOff(r) ==
  /\ request[r].at = "open"
  /\ request' = [request EXCEPT ![r].at = IF request[r].checking THEN "gone" ELSE "broken"]
  /\ transports' = transports \ {r}
  /\ UNCHANGED <<active, durations, inserting, usage, lost, usageReport, reports>>

(* recordUsageEvent returns, or rejects and the event is only logged.      *)
Inserted(e) ==
  /\ inserting' = inserting \ {e}
  /\ usage' = usage \cup {e}
  /\ UNCHANGED <<request, active, durations, lost, transports, usageReport, reports>>

InsertFails(e) ==
  /\ inserting' = inserting \ {e}
  /\ lost' = lost \cup {e}
  /\ UNCHANGED <<request, active, durations, usage, transports, usageReport, reports>>

-------------------------------------------------------------------------------
(* A plausible bug: all queries at once.                                   *)
Stages_AtOnce == << {"total", "series", "errors", "latency", "endpoints", "statuses"} >>

(* The queries of getUsageMetrics: those of a stage run side by side, and  *)
(* are awaited before the next stage.                                      *)
Stages == << {"total", "series"}, {"errors", "latency"}, {"endpoints"}, {"statuses"} >>

Counted == DOMAIN usageReport.rows
Queries == UNION {Stages[i] : i \in DOMAIN Stages}

BeginReport(user) ==
  /\ usageReport.for = Anonymous \/ Counted = Queries
  /\ reports < MaxReports
  /\ usageReport' = [NoReport EXCEPT !.for = user]
  /\ reports' = reports + 1
  /\ UNCHANGED <<request, active, durations, inserting, usage, lost, transports>>

(* The endpoints with the most rows, whichever come first among equals.    *)
Busiest(rows) ==
  LET At(e) == Cardinality({row \in rows : row.endpoint = e})
  IN  {top \in kSubset(IF TopEndpoints < Cardinality(Endpoints)
                         THEN TopEndpoints ELSE Cardinality(Endpoints), Endpoints) :
         \A e \in top, f \in Endpoints \ top : At(e) >= At(f)}

(* The rows a query counts when it runs.                                   *)
RowsOf(q, user) ==
  LET mine == {row \in usage : row.by = user}
  IN  CASE q = "errors" -> {{row \in mine : row.status >= 400}}
        [] q = "endpoints" -> {{row \in mine : row.endpoint \in top} : top \in Busiest(mine)}
        [] OTHER -> {mine}

(* Requests go on between the queries.                                     *)
RunQuery(q) ==
  /\ usageReport.for # Anonymous /\ q \notin Counted
  /\ \E i \in DOMAIN Stages : q \in Stages[i] /\ \A j \in 1 .. i - 1 : Stages[j] \subseteq Counted
  /\ \E rows \in RowsOf(q, usageReport.for) :
       usageReport' = [usageReport EXCEPT !.rows =
         [p \in Counted \cup {q} |-> IF p = q THEN rows ELSE usageReport.rows[p]]]
  /\ UNCHANGED <<request, active, durations, inserting, usage, lost, transports, reports>>

(* A query rejects: the route answers 500.                                 *)
QueryFails ==
  /\ usageReport.for # Anonymous /\ Counted # Queries
  /\ usageReport' = NoReport
  /\ UNCHANGED <<request, active, durations, inserting, usage, lost, transports, reports>>

MetricsNext ==
  \/ \E r \in Requests :
       \/ RateLimited(r) \/ Arrive(r) \/ LetIn(r) \/ Refuse(r)
       \/ FinishRequest(r) \/ BreakOff(r)
  \/ \E e \in inserting : Inserted(e) \/ InsertFails(e)
  \/ \E user \in Callers : BeginReport(user)
  \/ \E q \in Queries : RunQuery(q)
  \/ QueryFails

-------------------------------------------------------------------------------
In(place) == {r \in Requests : request[r].at = place}

(* No request that was let through is lost or counted twice, whatever      *)
(* became of it: it is open, it was observed once in the histogram, or it  *)
(* broke off and the gauge never gives it back, as every ended event       *)
(* stream does.  It is one usage event, on its way, stored or failed, if   *)
(* and only if a user of the API had it finished (metrics.ts:156-158,      *)
(* usageTracker.ts:7-19).                                                  *)
RequestsAccounted ==
  /\ active = Cardinality(In("open") \cup In("broken") \cup In("gone"))
  /\ MapThenSumSet(LAMBDA b : durations[b], Buckets) = Cardinality(In("finished"))
  /\ \A r \in Requests :
       Cardinality({e \in inserting \cup usage \cup lost : e.of = r}) =
         IF r \in In("finished") /\ request[r].route \in Endpoints /\ request[r].user # Anonymous
           THEN 1 ELSE 0

(* The transports map holds the event streams that are open: a message for *)
(* one that has ended finds no session.  The exception is exactly the      *)
(* streams whose connection was gone before they were let in: their        *)
(* "close" has passed when mcp.ts listens for it, and their sessions stay  *)
(* for ever (mcp.ts:25-35, 42).                                            *)
SessionsOpen ==
  transports = {r \in In("open") \cup In("gone") :
                  request[r].route = "sse" /\ ~ request[r].checking}

(* The parts of a report are counted at different moments, while requests  *)
(* go on; still its sums only grow from one part to the next: the total,   *)
(* the series and the endpoints never exceed what the status codes add up  *)
(* to, nor the errors those of the error codes (metrics.ts:45-65).         *)
ReportMonotone ==
  Counted = Queries =>
    LET Sum(q) == Cardinality(usageReport.rows[q])
    IN  /\ \A q \in {"total", "series", "latency", "endpoints"} : Sum(q) <= Sum("statuses")
        /\ Sum("errors") <=
             Cardinality({row \in usageReport.rows["statuses"] : row.status >= 400})

(* What the server says about its requests is what has happened to them.   *)
BooksKept == RequestsAccounted /\ SessionsOpen /\ ReportMonotone

===============================================================================
