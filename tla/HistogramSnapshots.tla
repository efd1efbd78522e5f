------------------------- MODULE HistogramSnapshots -------------------------
(***************************************************************************)
(* SchedulingMetrics and KubeStateMetricsLatency: a server counts requests *)
(* in a histogram of cumulative buckets; start remembers it, gather        *)
(* subtracts it from a new one and computes quantiles of the rest.         *)
(* KubeStateMetricsLatency also queries the server from a goroutine, with  *)
(* a context that gather and Dispose cancel.                               *)
(*                                                                         *)
(* One histogram stands for those of the scheduler, which are treated      *)
(* alike, and a quantile is the bucket it lies in.  Requests to the server *)
(* fail or return its histogram at once.                                   *)
(***************************************************************************)
EXTENDS Integers, FiniteSets

LOCAL INSTANCE FiniteSetsExt

CONSTANTS Kinds,     \* "scheduler", "ksm"
          Buckets,   \* the number of buckets; the last is +Inf
          Width,     \* bits of the counts of a bucket
          MaxObs,    \* bound on the requests the server counts
          MaxCalls   \* bound on the calls of Execute and Dispose

VARIABLES kind,
          server,    \* the cumulative counts of the server
          m,         \* initialLatency, isRunning, and whether ctx is cancelled
          loop,      \* the goroutine of startQuerying: off, waiting or fetching
          call,      \* the call: waiting for the goroutine, its histogram
          result,    \* of a gather that just returned
          since,     \* history: the requests since the snapshot, by bucket
          exact,     \* history: there is a snapshot, of a server still running
          calls

vars == <<kind, server, m, loop, call, result, since, exact, calls>>

Quantiles == <<50, 90, 99>>
None == [b \in 1..Buckets |-> 0]
Sum(f) == FoldSet(LAMBDA b, n : f[b] + n, 0, DOMAIN f)
NoResult == [pc |-> "none", latency |-> <<0, 0, 0>>, since |-> None, exact |-> FALSE]
Idle == [pc |-> "idle", hist |-> None, since |-> None, exact |-> FALSE]

Init ==
  /\ kind \in Kinds
  /\ server = None /\ m = [initialLatency |-> None, isRunning |-> FALSE, cancelled |-> FALSE]
  /\ loop = "off" /\ call = Idle /\ result = NoResult
  /\ since = None /\ exact = FALSE /\ calls = 0

-----------------------------------------------------------------------------
Counted(b) ==
  /\ server[Buckets] < MaxObs
  /\ server' = [i \in 1..Buckets |-> IF i >= b THEN server[i] + 1 ELSE server[i]]
  /\ since' = IF exact THEN [since EXCEPT ![b] = @ + 1] ELSE since

(* The server handles a request of somebody else, or starts anew, which    *)
(* makes a difference only to a snapshot of it.                            *)
Served(b) ==
  /\ Counted(b) /\ result' = NoResult
  /\ UNCHANGED <<kind, m, loop, call, exact, calls>>

ServerRestarts ==
  /\ exact
  /\ server' = None /\ since' = None /\ exact' = FALSE /\ result' = NoResult
  /\ UNCHANGED <<kind, m, loop, call, calls>>

-----------------------------------------------------------------------------
HistogramSub(final, initial) == [b \in 1..Buckets |-> final[b] - initial[b]]

(* The quantile of a histogram, as the bucket it lies in: the binary       *)
(* search for the first bucket with enough samples, among all but the      *)
(* last.  0 is NaN.                                                        *)
bucketQuantile(count, q) ==
  LET rank == q * count[Buckets]
      search[i \in 1..Buckets, j \in 1..Buckets] ==
        IF i >= j THEN i
        ELSE LET h == (i + j) \div 2
             IN IF 100 * count[h] < rank THEN search[h + 1, j] ELSE search[i, h]
      b == search[1, Buckets]
  IN IF rank = 0 /\ count[1] = 0 THEN 0 ELSE Min({b, Buckets - 1})

(* Counts are converted to unsigned integers: a negative one wraps. *)
Quantile(hist, q) == bucketQuantile([b \in 1..Buckets |-> hist[b] % 2^Width], q)

(* A latency whose quantile is NaN stays 0. *)
SetQuantileFromHistogram(hist) == [i \in 1..3 |-> Quantile(hist, Quantiles[i])]

Summary(hist, counted, ex) ==
  [pc |-> "ok", latency |-> SetQuantileFromHistogram(HistogramSub(hist, m.initialLatency)),
   since |-> counted, exact |-> ex]
Error == [NoResult EXCEPT !.pc = "error"]

Called == call.pc = "idle" /\ calls < MaxCalls /\ calls' = calls + 1

(* Taking the snapshot: when the request fails, the histogram without      *)
(* buckets is stored all the same, and replaces an earlier snapshot.       *)
Snapshot(ok) ==
  /\ since' = None /\ exact' = ok /\ result' = NoResult

getSchedulingInitialLatency(ok) ==
  /\ kind = "scheduler" /\ Called
  /\ m' = [m EXCEPT !.initialLatency = IF ok THEN server ELSE None]
  /\ Snapshot(ok)
  /\ UNCHANGED <<kind, server, loop, call>>

(* Also without a start. *)
getSchedulingLatency(ok) ==
  /\ kind = "scheduler" /\ Called
  /\ result' = IF ok THEN Summary(server, since, exact) ELSE Error
  /\ UNCHANGED <<kind, server, m, loop, call, since, exact>>

-----------------------------------------------------------------------------
(* The start of KubeStateMetricsLatency.  isRunning is never reset, so it  *)
(* starts once; after a gather without a start the context is cancelled.   *)
start(ok) ==
  /\ kind = "ksm" /\ Called /\ ~m.isRunning
  /\ ok => ~m.cancelled
  /\ m' = [m EXCEPT !.isRunning = TRUE, !.initialLatency = IF ok THEN server ELSE None]
  /\ loop' = "waiting"
  /\ Snapshot(ok)
  /\ UNCHANGED <<kind, server, call>>

(* queryLoop: with a cancelled context the timer of the next query does    *)
(* not fire before the loop sees it, and a request that is on its way ends.*)
queryLoop ==
  /\ \/ loop = "waiting" /\ ~m.cancelled /\ loop' = "fetching" /\ UNCHANGED <<server, since>>
     \/ loop = "fetching" /\ loop' = "waiting" /\ UNCHANGED <<server, since>>
     \/ loop = "fetching" /\ loop' = "waiting" /\ \E b \in 1..Buckets : Counted(b)
  /\ result' = NoResult
  /\ UNCHANGED <<kind, m, call, exact, calls>>

queryLoopEnds ==
  /\ loop = "waiting" /\ m.cancelled
  /\ loop' = "off"
  /\ UNCHANGED <<kind, server, m, call, result, since, exact, calls>>

(* Fault: the loop is not told to stop before gather waits for it. *)
FaultyCreateKSMLatencySummary(ok) ==
  /\ kind = "ksm" /\ Called
  /\ ok /\ ~m.cancelled /\ m.isRunning
  /\ call' = [pc |-> "gather", hist |-> server, since |-> since, exact |-> exact]
  /\ result' = NoResult
  /\ UNCHANGED <<kind, server, m, loop, since, exact>>

(* gather retrieves the histogram, then stops the loop and waits for it.   *)
(* The context is cancelled however gather ends.                           *)
createKSMLatencySummary(ok) ==
  /\ kind = "ksm" /\ Called
  /\ ok => ~m.cancelled
  /\ m' = [m EXCEPT !.cancelled = TRUE]
  /\ IF ok /\ m.isRunning
     THEN /\ call' = [pc |-> "gather", hist |-> server, since |-> since, exact |-> exact]
          /\ result' = NoResult
     ELSE result' = Error /\ UNCHANGED call
  /\ UNCHANGED <<kind, server, loop, since, exact>>

GatherReturns ==
  /\ call.pc = "gather" /\ loop = "off"
  /\ result' = Summary(call.hist, call.since, call.exact)
  /\ call' = Idle
  /\ UNCHANGED <<kind, server, m, loop, since, exact, calls>>

Dispose ==
  /\ kind = "ksm" /\ Called
  /\ IF m.isRunning THEN m' = [m EXCEPT !.cancelled = TRUE] /\ call' = [Idle EXCEPT !.pc = "dispose"]
     ELSE UNCHANGED <<m, call>>
  /\ result' = NoResult
  /\ UNCHANGED <<kind, server, loop, since, exact>>

DisposeReturns ==
  /\ call.pc = "dispose" /\ loop = "off"
  /\ call' = Idle
  /\ UNCHANGED <<kind, server, m, loop, result, since, exact, calls>>

Next ==
  \/ \E b \in 1..Buckets : Served(b)
  \/ ServerRestarts
  \/ \E ok \in BOOLEAN : getSchedulingInitialLatency(ok) \/ getSchedulingLatency(ok)
  \/ \E ok \in BOOLEAN : start(ok) \/ createKSMLatencySummary(ok)
  \/ queryLoop \/ queryLoopEnds
  \/ GatherReturns \/ Dispose \/ DisposeReturns

Fairness ==
  /\ WF_vars(queryLoop) /\ WF_vars(queryLoopEnds)
  /\ WF_vars(GatherReturns \/ DisposeReturns)

Spec == Init /\ [][Next]_vars /\ Fairness

-----------------------------------------------------------------------------
(* Type correctness of the two measurements and their server. *)
TypeOK ==
  /\ server \in [1..Buckets -> 0..MaxObs] /\ since \in [1..Buckets -> 0..MaxObs]
  /\ m \in [initialLatency: [1..Buckets -> 0..MaxObs], isRunning: BOOLEAN, cancelled: BOOLEAN]
  /\ loop \in {"off", "waiting", "fetching"} /\ call.pc \in {"idle", "gather", "dispose"}
  /\ result.pc \in {"none", "ok", "error"} /\ \A i \in 1..3 : result.latency[i] \in 0..Buckets

(* The quantiles are those of the test: with a snapshot that was taken and *)
(* a server that was not restarted, each one lies in the first bucket that *)
(* holds its share of the requests between start and gather (but a bounded *)
(* one), and is absent when there were none (HistogramSub, Quantile).      *)
QuantilesOfTest ==
  result.pc = "ok" /\ result.exact =>
    \A i \in 1..3 :
      LET upTo(b) == 100 * Sum([c \in 1..b |-> result.since[c]])
          need == Quantiles[i] * Sum(result.since)
      IN result.latency[i] =
           IF need = 0 THEN 0
           ELSE Min({b \in 1..Buckets : upTo(b) >= need} \cup {Buckets - 1})

Waiting == call.pc # "idle"
Returned == call.pc = "idle" /\ calls > 0

(* gather and Dispose of KubeStateMetricsLatency return: the loop sees the *)
(* cancelled context, whatever it is doing.                                *)
StopReturns == Waiting ~> Returned

=============================================================================
