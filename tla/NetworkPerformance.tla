------------------------- MODULE NetworkPerformance -------------------------
(***************************************************************************)
(* The traffic test of the network performance measurement                 *)
(* (common/network): start pairs the worker pods so that the two pods of a *)
(* pair run on different nodes, and creates a NetworkTestRequest for each  *)
(* pair; the client pod of a pair writes its metrics into the status of    *)
(* its request; an informer's handler collects the answers, and gather     *)
(* waits for one per client, or for its timeout.  The cluster objects of   *)
(* the measurement and their removal are in TestResources.                 *)
(***************************************************************************)
EXTENDS Naturals, FiniteSets, Sequences
LOCAL INSTANCE FiniteSetsExt
LOCAL INSTANCE SequencesExt
CONSTANTS Nodes, MaxClients,
          Values        \* of a metric
VARIABLES clients,      \* numberOfClients
          servers,      \* numberOfServers
          placed,       \* pods with an IP on each node
          podMap,       \* workerPodMap: the pods left on each node
          nh,           \* nodeHeap: its nodes, each with its numberOfPods
          pairs,        \* podPairList: a pod is its node and its place there
          requests,     \* per pair: no request, no answer, or one on its way
          metricVal,    \* the collected answers; an empty one has no metrics
          pc, summary
vars == <<clients, servers, placed, podMap, nh, pairs, requests, metricVal, pc, summary>>

Percentiles == [p05 : Values \cup {0}, p50 : Values \cup {0}, p95 : Values \cup {0}]
NoSummary == [p05 |-> 0, p50 |-> 0, p95 |-> 0]
Pods == Nodes \X (1 .. 2 * MaxClients)
\* Type correctness of the measurement, its requests and its answers.
TypeOK == /\ clients \in 1 .. MaxClients /\ servers \in 1 .. MaxClients
          /\ placed \in [Nodes -> 0 .. 2 * MaxClients]
          /\ podMap \in [Nodes -> 0 .. 2 * MaxClients]
          /\ \A n \in DOMAIN nh : n \in Nodes /\ nh[n] \in 1 .. 2 * MaxClients
          /\ pairs \in Seq(Pods \X Pods)
          /\ requests \in Seq({"none", "open", "answered", "received"})
          /\ metricVal \in Seq(Values \cup {0})
          /\ pc \in {"new", "pair", "create", "started", "invalid", "poll", "stop", "done"}
          /\ summary \in Percentiles

\* oneToOne and manyToMany are run, any other ratio is refused
getPodRatioType == IF clients = 1 /\ servers = 1 THEN "oneToOne"
                   ELSE IF clients > servers /\ servers = 1 THEN "manyToOne"
                   ELSE IF clients = servers THEN "manyToMany" ELSE "invalid"

Init == /\ clients \in 1 .. MaxClients /\ servers \in 1 .. MaxClients
        /\ placed = [n \in Nodes |-> 0] /\ podMap = placed
        /\ nh = <<>> /\ pairs = <<>> /\ requests = <<>> /\ metricVal = <<>>
        /\ pc = "new" /\ summary = NoSummary

Total(f) == MapThenSumSet(LAMBDA n : f[n], Nodes)

\* validate, then start up to the pairing: storeWorkerPods lists the pods that the
\* scheduler placed, and leaves out the ones without an IP
start == /\ pc = "new"
         /\ \E f \in [Nodes -> 0 .. 2 * MaxClients] :
              /\ Total(f) <= clients + servers
              /\ podMap' = f /\ placed' = f
              /\ nh' = [n \in {m \in Nodes : f[m] > 0} |-> f[n]]
         /\ pc' = IF getPodRatioType \in {"oneToOne", "manyToMany"} THEN "pair" ELSE "invalid"
         /\ UNCHANGED <<clients, servers, pairs, requests, metricVal, summary>>

\* heap.Pop: a node with most pods
largest(h) == {n \in DOMAIN h : \A m \in DOMAIN h : h[m] <= h[n]}

\* heap.Push of the node with one pod less, unless it has none left
pushed(h, n, k) == [m \in DOMAIN h \cup (IF k > 1 THEN {n} ELSE {}) |->
                      IF m = n THEN k - 1 ELSE h[m]]
without(h, n) == [m \in DOMAIN h \ {n} |-> h[m]]

\* one iteration of formUniquePodPair
formUniquePodPair ==
  /\ pc = "pair"
  /\ Cardinality(DOMAIN nh) > 1
  /\ \E first \in largest(nh) : \E second \in largest(without(nh, first)) :
       /\ nh' = pushed(pushed(without(without(nh, first), second), first, nh[first]),
                       second, nh[second])
       /\ podMap' = [podMap EXCEPT ![first] = @ - 1, ![second] = @ - 1]
       /\ pairs' = Append(pairs, << <<first, podMap[first]>>, <<second, podMap[second]>> >>)
  /\ UNCHANGED <<clients, servers, placed, requests, metricVal, pc, summary>>

Paired == /\ pc = "pair" /\ Cardinality(DOMAIN nh) <= 1
          /\ pc' = "create"
          /\ UNCHANGED <<clients, servers, placed, podMap, nh, pairs, requests, metricVal, summary>>

\* createCustomResourcePerUniquePodPair: a failure is only logged
createCustomResource ==
  /\ pc = "create"
  /\ \/ /\ Len(requests) < Len(pairs)
        /\ \E r \in {"open", "none"} : requests' = Append(requests, r)
        /\ UNCHANGED pc
     \/ Len(requests) = Len(pairs) /\ pc' = "started" /\ UNCHANGED requests
  /\ UNCHANGED <<clients, servers, placed, podMap, nh, pairs, metricVal, summary>>

\* the client pod of a pair writes the status of its request
ClientAnswers(i) ==
  /\ i \in DOMAIN requests /\ requests[i] = "open"
  /\ requests' = [requests EXCEPT ![i] = "answered"]
  /\ UNCHANGED <<clients, servers, placed, podMap, nh, pairs, metricVal, pc, summary>>

\* an error comes without metrics and is counted as an answer all the same
handleUpdateNetworkTestEvents(i) ==
  /\ i \in DOMAIN requests /\ requests[i] = "answered" /\ pc # "done"
  /\ requests' = [requests EXCEPT ![i] = "received"]
  /\ \E v \in Values \cup {0} : metricVal' = Append(metricVal, v)
  /\ UNCHANGED <<clients, servers, placed, podMap, nh, pairs, pc, summary>>

gather == /\ pc = "started" /\ pc' = "poll"
          /\ UNCHANGED <<clients, servers, placed, podMap, nh, pairs, requests, metricVal, summary>>

checkResponseReceivedFromPods == Len(metricVal) = clients

\* getPercentile: values[ceil(length*p/100)-1] of the sorted values
getPercentile(values) ==
  LET s == SortSeq(values, <)
      at(p) == s[(Len(s) * p + 99) \div 100]
  IN  IF s = <<>> THEN NoSummary ELSE [p05 |-> at(5), p50 |-> at(50), p95 |-> at(95)]

\* createResultSummary: the last answer of one pair, or the percentiles
calculateMetricDataValue ==
  IF getPodRatioType = "oneToOne"
    THEN LET v == IF metricVal = <<>> THEN 0 ELSE metricVal[Len(metricVal)]
         IN  [p05 |-> v, p50 |-> v, p95 |-> v]
    ELSE getPercentile(SelectSeq(metricVal, LAMBDA v : v # 0))

\* gather after its wait, which ended with every answer or by its timeout
waitForMetricsFromPods(timedOut) ==
  /\ pc = "poll"
  /\ timedOut \/ checkResponseReceivedFromPods
  /\ pc' = "stop"
  /\ UNCHANGED <<clients, servers, placed, podMap, nh, pairs, requests, metricVal, summary>>
Summarize == /\ pc = "stop" /\ summary' = calculateMetricDataValue /\ pc' = "done"
             /\ UNCHANGED <<clients, servers, placed, podMap, nh, pairs, requests, metricVal>>

Worker(i) == ClientAnswers(i) \/ handleUpdateNetworkTestEvents(i)
Internal == \/ formUniquePodPair \/ Paired \/ createCustomResource \/ Summarize
            \/ \E timedOut \in BOOLEAN : waitForMetricsFromPods(timedOut)
Next == start \/ gather \/ Internal \/ \E i \in 1 .. MaxClients : Worker(i)
Fairness == WF_vars(Internal)
Spec == Init /\ [][Next]_vars /\ Fairness

-----------------------------------------------------------------------------
PodsOf(ps) == UNION {{ps[i][1], ps[i][2]} : i \in DOMAIN ps}
\* The greedy pairing of formUniquePodPair (the two fullest nodes each time) is
\* optimal for every placement of the pods: no pod is in two pairs, no pair is on
\* one node, and no pairing has more pairs, since these are as many as half of the
\* pods, or as the pods outside the fullest node.
PairsMaximal ==
  /\ Cardinality(PodsOf(pairs)) = 2 * Len(pairs)
  /\ \A i \in DOMAIN pairs : pairs[i][1][1] # pairs[i][2][1]
  /\ pc \notin {"new", "pair", "invalid"} =>
       Len(pairs) = Min({Total(placed) \div 2,
                         Total(placed) - Max({placed[n] : n \in Nodes})})

\* When the wait of gather can end before its timeout, there is an answer of every
\* pair, so the percentiles are of the whole test.
GatheredAll ==
  pc = "poll" /\ checkResponseReceivedFromPods =>
    \A i \in DOMAIN pairs : requests[i] = "received"

Waiting == pc \in {"pair", "create", "poll", "stop"}

\* start and gather return.
TestEnds == Waiting ~> ~Waiting
=============================================================================
