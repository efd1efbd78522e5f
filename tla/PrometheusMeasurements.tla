----------------------- MODULE PrometheusMeasurements -----------------------
(***************************************************************************)
(* The measurements that are gatherers behind prometheusMeasurement: the   *)
(* test calls "start" and later "gather", and gather asks Prometheus about *)
(* the time between the two, judges the answers and returns a summary, a   *)
(* metric violation or an error.                                           *)
(*                                                                         *)
(* What Prometheus scraped is a set of events (an API call, a restart, a   *)
(* DNS request, a propagated endpoint), each with a time, a key (its       *)
(* labels) and a level: 0 is within the default threshold, 1 above it.  A  *)
(* query at time t over d looks at the last whole seconds of d, because    *)
(* ToPrometheusTime truncates to seconds; Prometheus rejects a range of    *)
(* 0s.  A gather without a start is not modelled: its window begins at the *)
(* zero time.                                                              *)
(***************************************************************************)
EXTENDS Integers, Sequences, FiniteSets

LOCAL INSTANCE FiniteSetsExt
LOCAL INSTANCE SequencesExt

CONSTANTS Kinds,              \* the gatherers the test may configure
          Keys,               \* the label sets of the events
          Second,             \* ticks of the clock in a second
          queryInterval,      \* ticks between two snapshots of a bucket measurement
          latencyWindowSize,  \* ticks a recorded API latency looks back
          Minute,             \* ticks an API latency query covers at least
          MaxClock,           \* bound on the clock
          MaxEvents,          \* bound on the events
          MaxFaults           \* bound on the requests Prometheus does not answer

VARIABLES kind,       \* the gatherer behind the measurement
          simple,     \* the test asked for the simple latency query
          startTime,  \* prometheusMeasurement.startTime, 0 before a start
          events,     \* what Prometheus has scraped
          call,       \* the gather call: queries left, answers, outcome
          clock, faults

vars == <<kind, simple, startTime, events, call, clock, faults>>

Levels == {0, 1}
Buckets == {"cilium", "neg"}
None == "none"

Idle == [pc |-> "idle", end |-> 0, todo |-> <<>>, answers |-> <<>>, failed |-> FALSE,
         result |-> None, params |-> None]

(* The parameters the verdict reads: whether violations fail the test, the *)
(* slow calls or restarts tolerated (for the scheduling throughput, whether *)
(* there is a threshold), the key whose threshold is raised (a threshold   *)
(* of zero is refused), and for a generic query whether its bound is a     *)
(* lower one and samples are needed.                                       *)
Params ==
  [enableViolations: BOOLEAN, allowed: {0, 1}, custom: Keys \cup {None, "zero"},
   lowerBound: BOOLEAN, requireSamples: BOOLEAN]

(* Only the parameters the gatherer reads vary. *)
ReadBy(k) ==
  {p \in Params :
     /\ k \in {"api", "restarts", "throughput"} \/ p.allowed = 0
     /\ k \in {"api", "restarts"} \/ p.custom = None
     /\ k = "api" \/ p.custom # "zero"
     /\ k = "generic" \/ ~(p.lowerBound \/ p.requireSamples)}

Init ==
  /\ kind \in Kinds
  /\ simple \in (IF kind = "api" THEN BOOLEAN ELSE {FALSE})
  /\ startTime = 0 /\ events = {} /\ call = Idle /\ clock = 1 /\ faults = 0

-----------------------------------------------------------------------------
(* The system under test, scraped by Prometheus. *)
Scraped ==
  /\ call.pc = "idle" /\ clock < MaxClock
  /\ clock' = clock + 1
  /\ \E new \in SUBSET [time: {clock'}, key: Keys, level: Levels] :
       /\ Cardinality(events \cup new) <= MaxEvents
       /\ events' = events \cup new
  /\ UNCHANGED <<kind, simple, startTime, call, faults>>

(* Fault: the start time is taken from the next scrape. *)
FaultyStart ==
  /\ call.pc = "idle" /\ startTime < clock
  /\ startTime' = clock + 1
  /\ UNCHANGED <<kind, simple, events, call, clock, faults>>

(* The start action: the gatherer is configured and the time is noted. *)
start ==
  /\ call.pc = "idle" /\ startTime < clock
  /\ startTime' = clock
  /\ UNCHANGED <<kind, simple, events, call, clock, faults>>

ToPrometheusTime(d) == Second * (d \div Second)

(* The events of the whole seconds of d before t. *)
Window(t, d) == {e \in events : t - ToPrometheusTime(d) < e.time /\ e.time <= t}

(* sum_over_time of the cumulative buckets: every scrape of the window     *)
(* adds all the events up to it.                                           *)
Snapshot(t, d) ==
  {<<s, e>> \in ((t - ToPrometheusTime(d) + 1)..t) \X events : e.time <= s}

(* A bucket measurement asks for one snapshot after another, the last one  *)
(* shorter than the interval.                                              *)
snapshots(from, end) ==
  LET n == IF end = from THEN 1 ELSE 1 + ((end - from - 1) \div queryInterval)
      at(i) == IF i = n THEN end ELSE from + i * queryInterval
  IN  [i \in 1..n |-> [at |-> at(i), for |-> at(i) - (from + (i - 1) * queryInterval)]]

(* The API latency query.  The recorded latencies look back over a window *)
(* of their own, so the query leaves out the first window of the test and  *)
(* still covers a minute of a shorter one; the simple one asks for the     *)
(* whole test, three quantiles of all calls and of the watch-lists.        *)
latencyRange(d) ==
  IF simple THEN d
  ELSE latencyWindowSize + (IF d - latencyWindowSize < Minute THEN Minute ELSE d - latencyWindowSize)

latencyQueries == IF simple THEN 6 ELSE 1

Repeat(n, q) == [i \in 1..n |-> q]

(* The queries of a gather, in order, as the time and the range of each:   *)
(* after the latencies, API responsiveness asks for the counts, those of   *)
(* the watch-lists and three counts of fast calls; node-local DNS and the  *)
(* metrics server are asked for three quantiles each, the scheduler for    *)
(* four histograms (one extension point stands for all), the Windows       *)
(* measurement for seven instant vectors.                                  *)
gatherAPICalls(whole) ==
  Repeat(latencyQueries, [whole EXCEPT !.for = latencyRange(@)]) \o Repeat(5, whole)

windowsQueries(end) == Repeat(7, [at |-> end, for |-> Second])

queries(end) ==
  LET whole == [at |-> end, for |-> end - startTime]
  IN  CASE kind = "api" -> gatherAPICalls(whole)
        [] kind \in {"generic", "restarts", "netProg", "throughput"} -> <<whole>>
        [] kind \in {"dns", "metricsServer"} -> Repeat(3, whole)
        [] kind = "scheduler" -> Repeat(4, whole)
        [] kind = "windows" -> windowsQueries(end)
        [] kind = "cilium" -> snapshots(startTime, end)
        [] kind = "neg" -> FlattenSeq(Repeat(3, snapshots(startTime, end)))

(* The gather action: the client is made and the window is fixed. *)
gather ==
  /\ call.pc = "idle" /\ startTime > 0
  /\ call' = [Idle EXCEPT !.pc = "query", !.end = clock, !.todo = queries(clock)]
  /\ UNCHANGED <<kind, simple, startTime, events, clock, faults>>

-----------------------------------------------------------------------------
(* PrometheusQueryExecutor.Query polls until Prometheus answers or the     *)
(* timeout passes.  A refused range is refused at every attempt.           *)
Answered(q) ==
  /\ ToPrometheusTime(q.for) > 0
  /\ call' = [call EXCEPT !.todo = Tail(@), 
                           !.answers = Append(@, IF kind \in Buckets THEN Snapshot(q.at, q.for)
                                                 ELSE Window(q.at, q.for))]
  /\ UNCHANGED faults

(* What a gatherer does with a query that failed for good: the bucket      *)
(* measurements log it and go on, node-local DNS and the gatherers of the  *)
(* scheduler and the metrics server collect the errors and go on, the      *)
(* others return the error.                                                *)
queryFails(q) ==
  /\ \/ ToPrometheusTime(q.for) = 0 /\ UNCHANGED faults
     \/ faults < MaxFaults /\ faults' = faults + 1
  /\ call' = CASE kind \in Buckets ->
                    [call EXCEPT !.todo = Tail(@), !.answers = Append(@, {})]
               [] kind \in {"dns", "scheduler", "metricsServer"} ->
                    [call EXCEPT !.todo = Tail(@), !.answers = Append(@, {}), !.failed = TRUE]
               [] OTHER -> [call EXCEPT !.todo = <<>>, !.failed = TRUE]

Query ==
  /\ call.pc = "query" /\ call.todo # <<>>
  /\ LET q == Head(call.todo) IN Answered(q) \/ queryFails(q)
  /\ UNCHANGED <<kind, simple, startTime, events, clock>>

-----------------------------------------------------------------------------
(* The verdicts: what each gatherer makes of its answers. *)
Of(E, k) == {e \in E : e.key = k}
KeysOf(E) == {e.key : e \in E}

(* SetLatency keeps the 99th percentile of a call, SetCount its count and  *)
(* SetSlowCount the count less the fast ones.  Only the simple query has   *)
(* the latency of a watch-list, and no query counts its fast calls, so its *)
(* slow count stays 0.                                                     *)
Perc99(E) == IF E = {} THEN 0 ELSE Max({e.level : e \in E})

SetLatency(E) == {e \in E : simple \/ e.key # "watchlist"}

slowCount(k, counted, fast) ==
  IF k = "watchlist" THEN 0
  ELSE Cardinality(Of(counted, k)) - Cardinality({e \in Of(fast, k) : e.level = 0})

getCustomThresholds(p, k) == IF p.custom = k THEN 1 ELSE 0


Validate(p, k, latencies, slow) ==
  \/ p.allowed > 0 /\ slow <= p.allowed
  \/ Perc99(Of(latencies, k)) <= getCustomThresholds(p, k)

validateAPICalls(p, a) ==
  LET latencies == SetLatency(a[1])  counted == a[latencyQueries + 1]  fast == a[latencyQueries + 3]
  IN  \A k \in KeysOf(latencies \cup counted) :
        Validate(p, k, latencies, slowCount(k, counted, fast))

(* A generic query is a count per label set compared with the bound 1.     *)
(* With no dimensions every label set has the same data item.              *)
validateSample(p, v) == IF p.lowerBound THEN v >= 1 ELSE v <= 1

genericGather(p, E) ==
  /\ E = {} => ~p.requireSamples
  /\ \A k \in KeysOf(E) : validateSample(p, Cardinality(Of(E, k)))
  /\ Cardinality(KeysOf(E)) <= 1

(* An override raises the restarts allowed to the pods it matches. *)
allowedRestarts(p, k) == IF p.custom = k THEN 2 ELSE p.allowed
validateRestarts(p, E) == \A k \in KeysOf(E) : Cardinality(Of(E, k)) <= allowedRestarts(p, k)

(* Network programming latency and node-local DNS compare one latency      *)
(* metric with the threshold.                                              *)
VerifyThreshold(E) == Perc99(E) <= 0
validateResult(E) == Perc99(E) <= 0

(* The largest rate of bindings, here per tick, against the threshold. *)
getThroughputSummary(E) == Max({Cardinality({e \in E : e.time = x.time}) : x \in E})
validateThroughput(p, E) == p.allowed = 0 \/ getThroughputSummary(E) >= 2

(* 95 percent of the events of a snapshot must be in the bucket. *)
Within(S) == 100 * Cardinality({x \in S : x[2].level = 0}) >= 95 * Cardinality(S)

validateCEPPropagationDelay(a) == \A i \in DOMAIN a : a[i] # {} => Within(a[i])

(* A NEG metric keeps one value per bucket: the last snapshot that had an  *)
(* answer.  The three metrics are asked for one after the other.           *)
gatherMetrics(a) ==
  LET n == Len(a) \div 3
      part(j) == SelectSeq(SubSeq(a, (j - 1) * n + 1, j * n), LAMBDA E : E # {})
  IN  [j \in 1..3 |-> IF part(j) = <<>> THEN {} ELSE Last(part(j))]

validateNegSLOs(a) == \A j \in 1..3 : Within(gatherMetrics(a)[j])

(* The number of samples a latency metric is made of: a quantile has no    *)
(* sample (or a NaN, which Query drops) when nothing was measured.         *)
WrongSamples(a) ==
  kind \in {"netProg", "dns", "metricsServer", "throughput"} /\ \E i \in DOMAIN a : a[i] = {}

Satisfied(p, a) ==
  CASE kind = "api" -> validateAPICalls(p, a)
    [] kind = "generic" -> genericGather(p, a[1])
    [] kind = "restarts" -> validateRestarts(p, a[1])
    [] kind = "netProg" -> VerifyThreshold(a[1])
    [] kind = "dns" -> validateResult(a[3])
    [] kind = "throughput" -> validateThroughput(p, a[1])
    [] kind = "cilium" -> validateCEPPropagationDelay(a)
    [] kind = "neg" -> validateNegSLOs(a)
    [] kind \in {"scheduler", "windows", "metricsServer"} -> TRUE

(* The end of gather: an error is returned as it is, a violation only when *)
(* the test enabled violations.                                            *)
Verdict(p) ==
  IF call.failed \/ WrongSamples(call.answers) \/ p.custom = "zero" THEN "error"
  ELSE IF Satisfied(p, call.answers) \/ ~p.enableViolations THEN "ok"
  ELSE "violation"

(* The parameters are remembered for the verdicts they matter to. *)
Execute ==
  /\ call.pc = "query" /\ call.todo = <<>>
  /\ \E p \in ReadBy(kind) :
       call' = [call EXCEPT !.pc = "done", !.result = Verdict(p),
                            !.params = IF Verdict(p) = "error" THEN None ELSE p]
  /\ UNCHANGED <<kind, simple, startTime, events, clock, faults>>

Next == Scraped \/ start \/ gather \/ Query \/ Execute

Fairness == WF_vars(Query) /\ WF_vars(Execute)

Spec == Init /\ [][Next]_vars /\ Fairness

-----------------------------------------------------------------------------
(* Type correctness of prometheusMeasurement and of a gather in progress. *)
TypeOK ==
  /\ kind \in Kinds /\ simple \in BOOLEAN /\ clock \in 1..MaxClock /\ startTime \in 0..clock
  /\ events \subseteq [time: 1..MaxClock, key: Keys, level: Levels]
  /\ call.pc \in {"idle", "query", "done"}
  /\ call.result \in {None, "ok", "violation", "error"} /\ (call.pc = "done" <=> call.result # None)
  /\ faults \in 0..MaxFaults

(* What happened in the measured time, up to the truncated second. *)
measured == Window(call.end, call.end - startTime)
slowOf(k) == {e \in Of(measured, k) : e.level = 1}
shortTest == kind = "api" /\ ~simple /\ call.end - startTime < latencyWindowSize + Minute

(* A metric violation is about the test: unless the API latency window of  *)
(* a test shorter than six minutes reaches back before its start, an event *)
(* between start and gather exceeded its bound (or, for a generic query,   *)
(* the samples were missing, too few or too many), even with retried and   *)
(* failed queries (gatherAPICalls, validateAPICalls, validateRestarts,     *)
(* validateSample).                                                        *)
ViolationIsMeasured ==
  call.result = "violation" =>
    /\ call.params.enableViolations
    /\ kind \in {"api", "netProg", "dns"} /\ ~shortTest => \E k \in Keys : slowOf(k) # {}
    /\ kind = "restarts" => \E k \in Keys : Cardinality(Of(measured, k)) > call.params.allowed
    /\ kind = "generic" /\ ~call.params.lowerBound =>
          measured = {} \/ Cardinality(measured) > 1
    /\ kind = "throughput" => \A e, f \in measured : e # f => e.time # f.time
    /\ kind \in Buckets => \E e \in events : e.level = 1 /\ e.time <= call.end

(* A gather that passes with violations enabled earned it.  More slow API  *)
(* calls of one kind than allowed, a threshold not raised for them, and a  *)
(* latency that is recorded for them (all but a watch-list with            *)
(* allowedSlowCalls, whose slow calls no query counts) are reported; so    *)
(* are restarts over the allowance, a slow latency metric, a throughput    *)
(* that was never high enough, and an endpoint                             *)
(* propagation that was too slow at every scrape of a snapshot that was    *)
(* answered.                                                               *)
PassIsEarned ==
  call.result = "ok" /\ call.params.enableViolations =>
    /\ kind = "api" => \A k \in Keys \ {call.params.custom} :
          Cardinality(slowOf(k)) > call.params.allowed => k = "watchlist" /\ (~simple \/ call.params.allowed > 0)
    /\ kind = "restarts" => \A k \in Keys \ {call.params.custom} :
          Cardinality(Of(measured, k)) <= call.params.allowed
    /\ kind \in {"netProg", "dns"} => \A k \in Keys : slowOf(k) = {}
    /\ kind = "throughput" /\ call.params.allowed > 0 =>
          \E e, f \in measured : e # f /\ e.time = f.time
    /\ kind = "generic" => \A k \in Keys : ~call.params.lowerBound => Cardinality(Of(measured, k)) <= 1
    /\ kind = "cilium" => \A i \in DOMAIN call.answers :
          call.answers[i] # {} => \E x \in call.answers[i] : x[2].level = 0


Waiting == call.pc = "query"

(* A gather returns: every query ends with its answer or with the timeout  *)
(* of its polling (PrometheusQueryExecutor.Query).                         *)
GatherReturns == Waiting ~> ~Waiting

=============================================================================
