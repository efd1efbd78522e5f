------------------------- MODULE PeriodicCollectors -------------------------
(***************************************************************************)
(* The measurements that collect samples on timers of their own: Profile  *)
(* (profile.go), EtcdMetrics (etcd_metrics.go), ResourceUsageSummary       *)
(* (resource_usage.go with util/gatherers) and SchedulingThroughput        *)
(* (scheduling_throughput.go).  Each "start" spawns goroutines that wait   *)
(* for a timer or for a stop channel; "gather" closes the channel and      *)
(* summarises.  They differ in who waits for the goroutines, in whether    *)
(* the channel is made anew, and in what a second call finds.              *)
(*                                                                         *)
(* A sample is a small number.  A channel is a number too, 0 is nil; a     *)
(* closed channel is closed for ever and closing it again panics.          *)
(***************************************************************************)
EXTENDS Integers, Sequences, FiniteSets
LOCAL INSTANCE FiniteSetsExt
LOCAL INSTANCE SequencesExt

CONSTANTS Kinds,        \* the measurements a behaviour may be about
          Nodes,        \* the nodes, in the order they are listed
          Masters,      \* the control plane nodes, hosts of etcd
          LoadedNodes,  \* the nodes with a pod that is no daemon pod
          AllNodes,     \* whether the cluster is small enough for every node
          Values,       \* the values a sample can have
          Constraint,   \* the resource constraint of every container
          MaxSamples, MaxCalls,
          MaxWorkers    \* bounds the goroutines, finished ones included

VARIABLES kind,     \* the measurement
          m,        \* its fields: isRunning, stopCh, data, and the gatherer
          workers,  \* the goroutines, in the order they were spawned
          closed,   \* the closed channels
          call,     \* the call of Execute or Dispose in progress
          taken,    \* the samples the goroutines got, in order
          calls     \* how many calls were made
vars == <<kind, m, workers, closed, call, taken, calls>>

Percentiles == <<50, 90, 99, 100>>
\* gathering and idle calls hold no summary; ok is the verdict of verifySummary
NoSummary == [data |-> <<>>, ok |-> TRUE]
Worker == [pc : {"loop", "select", "probe", "done"}, ch : Nat,
           own : Nat, series : Seq(Values)]

(***************************************************************************)
(* The one definition of the module's invariant that is about types: the   *)
(* fields of the four measurements and their goroutines.                   *)
(***************************************************************************)
TypeOK == /\ kind \in Kinds
          /\ m \in [isRunning : BOOLEAN, stopCh : 0..MaxCalls,
                    data : Seq(Values), made : Nat]
          /\ workers \in Seq(Worker)
          /\ closed \subseteq 1..MaxCalls
          /\ call.pc \in {"idle", "waiting", "done", "panic", "disposing",
                         "disposed"}
          /\ taken \in Seq(Values)
          /\ calls \in 0..MaxCalls

Init == /\ kind \in Kinds
        /\ m = [isRunning |-> FALSE, data |-> <<>>,
                \* only createEtcdMetricsMeasurement makes the channel at once
                stopCh |-> IF kind = "etcd" THEN 1 ELSE 0,
                made |-> IF kind = "etcd" THEN 1 ELSE 0]
        /\ workers = <<>> /\ closed = {} /\ taken = <<>> /\ calls = 0
        /\ call = [pc |-> "idle", err |-> FALSE, summary |-> NoSummary,
                   unfinished |-> {}]

----------------------------------------------------------------------------
\* The nodes that get a worker: NewResourceUsageGatherer
gathererNodes ==
  IF AllNodes THEN Nodes
  ELSE SelectSeq(Nodes, LAMBDA n : n \in Masters \cup LoadedNodes)

Spawn(n, own) == workers \o [i \in 1..n |->
                   [pc |-> "loop", ch |-> 0, own |-> own, series |-> <<>>]]

Room(n) == Len(workers) + n <= MaxWorkers
Called == /\ call.pc \in {"idle", "done"}
          /\ calls < MaxCalls
          /\ calls' = calls + 1
Returned == call' = [call EXCEPT !.pc = "idle"]

\* profileMeasurement.start: nothing while it "is running", which it stays
startProfile ==
  /\ kind = "profile" /\ Called /\ Returned /\ Room(1)
  /\ IF m.isRunning THEN UNCHANGED <<m, workers, taken>>
     ELSE /\ m' = [m EXCEPT !.isRunning = TRUE, !.data = <<>>,
                            !.stopCh = m.made + 1, !.made = m.made + 1]
          /\ workers' = Spawn(1, 0) /\ taken' = <<>>
  /\ UNCHANGED <<kind, closed>>

\* etcdMetricsMeasurement: one more goroutine per host for every start, all on
\* the channel the measurement was created with
startCollecting ==
  /\ kind = "etcd" /\ Called /\ Returned /\ Room(Cardinality(Masters))
  /\ m' = [m EXCEPT !.isRunning = TRUE]
  /\ workers' = Spawn(Cardinality(Masters), 0)
  /\ UNCHANGED <<kind, closed, taken>>

\* schedulingThroughputMeasurement: the pod store may fail to sync, after the
\* channel was made; earlier throughputs are kept
startThroughput ==
  /\ kind = "throughput" /\ Called /\ Returned /\ Room(1)
  /\ IF m.isRunning THEN UNCHANGED <<m, workers>>
     ELSE \E synced \in BOOLEAN :
            /\ m' = [m EXCEPT !.isRunning = synced, !.stopCh = m.made + 1,
                              !.made = m.made + 1]
            /\ workers' = IF synced THEN Spawn(1, 0) ELSE workers
  /\ UNCHANGED <<kind, closed, taken>>

\* resourceUsageMetricMeasurement: a new gatherer replaces the old one, also by
\* nil when the lists of pods and nodes fail; the old one is not stopped
startGatherer ==
  /\ kind = "resourceUsage" /\ Called /\ Returned
  /\ Room(Len(gathererNodes))
  /\ \E listed \in BOOLEAN :
       IF listed
       THEN /\ m' = [m EXCEPT !.isRunning = TRUE, !.stopCh = m.made + 1,
                              !.made = m.made + 1]
            /\ workers' = Spawn(Len(gathererNodes), m.made + 1)
       ELSE /\ m' = [m EXCEPT !.isRunning = FALSE, !.stopCh = 0]
            /\ UNCHANGED workers
  /\ UNCHANGED <<kind, closed, taken>>

----------------------------------------------------------------------------
(* The goroutines.  The channel of the select is read from the struct each *)
(* time round the loop, but for the gatherer's workers, which hold theirs. *)

Select(i) ==
  /\ workers[i].pc = "loop"
  /\ workers' = [workers EXCEPT ![i].pc = "select",
                   ![i].ch = IF kind = "resourceUsage" THEN workers[i].own
                             ELSE m.stopCh]
  /\ UNCHANGED <<kind, m, closed, call, taken, calls>>

\* the timer fires; with a closed channel as well the select takes either
Tick(i) ==
  /\ workers[i].pc = "select" /\ Len(taken) < MaxSamples
  /\ workers' = [workers EXCEPT ![i].pc = "probe"]
  /\ UNCHANGED <<kind, m, closed, call, taken, calls>>

SeesStop(i) ==
  /\ workers[i].pc = "select" /\ workers[i].ch \in closed
  /\ workers' = [workers EXCEPT ![i].pc = "done"]
  /\ UNCHANGED <<kind, m, closed, call, taken, calls>>

\* collectEtcdDatabaseSize keeps the largest size, the others append
collected(v) ==
  IF kind = "etcd" THEN <<Max({v} \cup Range(m.data))>> ELSE Append(m.data, v)

\* gatherProfile, collectEtcdDatabaseSize, ps.List and singleProbe; all but
\* ps.List can fail, which is logged and skips the sample
Probe(i) ==
  /\ workers[i].pc = "probe"
  /\ \/ /\ kind # "throughput"
        /\ workers' = [workers EXCEPT ![i].pc = "loop"]
        /\ UNCHANGED <<m, taken>>
     \/ \E v \in Values :
          /\ taken' = Append(taken, v)
          /\ IF kind = "resourceUsage"
             THEN /\ workers' = [workers EXCEPT ![i].pc = "loop",
                        ![i].series = Append(@, v)]
                  /\ UNCHANGED m
             ELSE /\ workers' = [workers EXCEPT ![i].pc = "loop"]
                  /\ m' = [m EXCEPT !.data = collected(v)]
  /\ UNCHANGED <<kind, closed, call, calls>>

----------------------------------------------------------------------------
Sorted(s) == SortSeq(s, <)
CeilDiv(a, b) == (a + b - 1) \div b

\* The index int(math.Ceil(len * perc / 100)) - 1 of a sorted series, as
\* ComputePercentiles, the throughput summary and NewLatencyMetric have it
percentile(s, perc) == Sorted(s)[CeilDiv(Len(s) * perc, 100)]
ComputePercentiles(s) ==
  IF s = <<>> THEN <<>>
  ELSE [p \in 1..Len(Percentiles) |-> percentile(s, Percentiles[p])]

\* LeftMergeData as StopAndSummarize uses it: stats on the left, what was
\* merged before on the right.  Only percentiles of the left are in the result.
LeftMergeData(i, stats, data) ==
  IF stats = <<>> THEN <<>> ELSE Append(data, [worker |-> i, percs |-> stats])

finished(i) == workers[i].pc = "done"
gatherersWorkers == {i \in 1..Len(workers) : workers[i].own = m.stopCh}
\* the summary: the finished workers' series, merged in order
Merged ==
  LET step(data, i) ==
        IF finished(i)
        THEN LeftMergeData(i, ComputePercentiles(workers[i].series), data)
        ELSE data
  IN FoldLeft(step, <<>>, SetToSortSeq(gatherersWorkers, <))

\* an error for a container whose 99th percentile exceeds its constraint
verifySummary(data) == \A d \in Range(data) : d.percs[3] <= Constraint

----------------------------------------------------------------------------
closeStopCh(next) ==
  IF m.stopCh \in closed
  THEN call' = [call EXCEPT !.pc = "panic"] /\ UNCHANGED closed
  ELSE call' = next /\ closed' = closed \cup {m.stopCh}

\* the summary is read after stop, but the goroutine is not waited for
gatherThroughput ==
  /\ kind = "throughput" /\ Called
  /\ IF ~m.isRunning
     THEN Returned /\ UNCHANGED <<m, closed>>
     ELSE /\ closeStopCh([call EXCEPT !.pc = "done",
               !.summary = [data |-> IF m.data = <<>> THEN <<>>
                              ELSE <<[worker |-> 1,
                                      percs |-> ComputePercentiles(m.data)]>>,
                            ok |-> TRUE]])
          /\ m' = [m EXCEPT !.isRunning = FALSE]
  /\ UNCHANGED <<kind, workers, taken>>

gatherProfile ==
  /\ kind = "profile" /\ Called
  /\ IF m.isRunning THEN closeStopCh([call EXCEPT !.pc = "waiting"])
     ELSE Returned /\ UNCHANGED closed
  /\ UNCHANGED <<kind, m, workers, taken>>

\* stopAndSummarize of the first host; its deferred Dispose stops them all,
\* and an error is returned only after it
stopAndSummarize ==
  /\ kind = "etcd" /\ Called
  /\ \E err \in BOOLEAN :
       IF m.isRunning
       THEN closeStopCh([call EXCEPT !.pc = "waiting", !.err = err])
       ELSE call' = [call EXCEPT !.pc = "idle", !.err = FALSE]
            /\ UNCHANGED closed
  /\ m' = [m EXCEPT !.isRunning = FALSE]
  /\ UNCHANGED <<kind, workers, taken>>

gatherResourceUsage ==
  /\ kind = "resourceUsage" /\ Called
  /\ IF m.stopCh = 0 THEN Returned /\ UNCHANGED <<m, closed>>
     ELSE IF m.isRunning
     THEN /\ closeStopCh([call EXCEPT !.pc = "waiting"])
          /\ m' = [m EXCEPT !.isRunning = FALSE]
     ELSE /\ call' = [call EXCEPT !.pc = "waiting"]
          /\ UNCHANGED <<m, closed>>
  /\ UNCHANGED <<kind, workers, taken>>

\* wg.Wait of profile and etcd: every goroutine ever added
wgWait == call.pc = "waiting" /\ \A i \in 1..Len(workers) : finished(i)

GatherWaited ==
  /\ kind \in {"profile", "etcd"} /\ wgWait
  /\ \E failed \in (IF kind = "profile" THEN {FALSE}
                    ELSE IF call.err THEN {TRUE}
                    \* the other hosts, whose metrics may not be there
                    ELSE {FALSE} \cup {Cardinality(Masters) > 1}) :
       call' = [call EXCEPT !.err = FALSE,
                  !.pc = IF failed THEN "idle" ELSE "done",
                  !.summary = [data |-> m.data, ok |-> TRUE]]
  /\ UNCHANGED <<kind, m, workers, closed, taken, calls>>

\* the workers ended, or two minutes went by with some of them still probing
StopAndSummarize ==
  /\ kind = "resourceUsage" /\ call.pc = "waiting"
  /\ LET running == {i \in gatherersWorkers : ~finished(i)} IN
     /\ \A i \in running : workers[i].pc = "probe"
     /\ call' = [call EXCEPT !.pc = "done", !.unfinished = running,
                   !.summary = [data |-> Merged, ok |-> verifySummary(Merged)]]
  /\ UNCHANGED <<kind, m, workers, closed, taken, calls>>

\* Dispose: profile has none, etcd waits, the others close
Dispose ==
  /\ call.pc \in {"idle", "done"} /\ kind # "profile"
  /\ IF m.isRunning
     THEN closeStopCh([call EXCEPT !.pc = IF kind = "etcd" THEN "disposing"
                                          ELSE "disposed"])
     ELSE call' = [call EXCEPT !.pc = "disposed"] /\ UNCHANGED closed
  /\ m' = [m EXCEPT !.isRunning = FALSE]
  /\ UNCHANGED <<kind, workers, taken, calls>>

DisposeWaited ==
  /\ call.pc = "disposing" /\ \A i \in 1..Len(workers) : finished(i)
  /\ call' = [call EXCEPT !.pc = "disposed"]
  /\ UNCHANGED <<kind, m, workers, closed, taken, calls>>

Goroutine(i) == Select(i) \/ Tick(i) \/ SeesStop(i) \/ Probe(i)
Next == \/ startProfile \/ startCollecting \/ startThroughput \/ startGatherer
        \/ gatherThroughput \/ gatherProfile \/ stopAndSummarize
        \/ gatherResourceUsage \/ GatherWaited \/ StopAndSummarize \/ Dispose
        \/ DisposeWaited
        \/ \E i \in 1..Len(workers) : Goroutine(i)

\* A goroutine is scheduled, a probe ends (its ssh, its request time out), and
\* a select whose timer and channel are both ready takes each infinitely often.
Fairness ==
  /\ \A i \in 1..MaxWorkers :
       /\ WF_vars(i <= Len(workers) /\ (Select(i) \/ Probe(i)))
       /\ SF_vars(i <= Len(workers) /\ SeesStop(i))
  /\ WF_vars(GatherWaited \/ StopAndSummarize \/ DisposeWaited)
Spec == Init /\ [][Next]_vars /\ Fairness

----------------------------------------------------------------------------
\* What gather of Profile and EtcdMetrics returned is everything that the
\* goroutines got, and none of them is left to add to it: stop waits for them.
SummaryComplete ==
  (call.pc = "done" /\ kind \in {"profile", "etcd"}) =>
    /\ \A i \in 1..Len(workers) : workers[i].pc = "done"
    /\ IF kind = "profile" THEN call.summary.data = taken
       ELSE Range(call.summary.data) =
              (IF taken = <<>> THEN {} ELSE {Max(Range(taken))})

\* The percentiles of a summary are nearest ranks: at least perc percent of the
\* samples are no larger, and with any smaller value fewer would be.
PercentilesAreRanks ==
  (call.pc = "done" /\ kind = "resourceUsage") =>
    \A d \in Range(call.summary.data), p \in 1..Len(Percentiles) :
      LET s == workers[d.worker].series
          upTo(v) == Cardinality({i \in 1..Len(s) : s[i] <= v}) * 100
      IN /\ upTo(d.percs[p]) >= Percentiles[p] * Len(s)
         /\ \A v \in Values :
              v < d.percs[p] => upTo(v) < Percentiles[p] * Len(s)

Waiting == call.pc \in {"waiting", "disposing"}

\* A gather that closed the stop channel returns, and so does the
\* Dispose of EtcdMetrics: the goroutines they wait for see it.
GatherReturns == Waiting ~> ~Waiting
=============================================================================
