----------------------------- MODULE NodeKiller -----------------------------
(***************************************************************************)
(* The ChaosMonkey measurement (common/chaos_monkey_measurement.go) and    *)
(* the node killer behind it (pkg/chaos): a goroutine that at random       *)
(* intervals picks nodes and, with one goroutine per node, stops their     *)
(* services, waits for the simulated downtime or for the stop channel, and *)
(* reboots them.                                                           *)
(*                                                                         *)
(* A test calls start and stop in turns.  killedNodes is one map that all  *)
(* monkeys of the measurement share.                                       *)
(***************************************************************************)
EXTENDS Integers, FiniteSets

CONSTANTS Nodes,
          Excluded,          \* nodes in killedNodes from the beginning
          RateNum, RateDen,  \* FailureRate as a fraction
          MaxStarts,
          MaxMoves           \* bounds how often the Prometheus pod moves

VARIABLES killedNodes,
          stopCh,      \* the stop channel
          killer,      \* the goroutine of Run: pc and the nodes it lists
          job,         \* the goroutine of kill for each node
          down,        \* the nodes without docker and kubelet
          prometheus,  \* the node of the Prometheus pod
          stops,       \* the stopServices events of the recorder
          starts, moves
vars == <<killedNodes, stopCh, killer, job, down, prometheus, stops,
          starts, moves>>

Jobs == {"none", "stop", "sleep", "reboot", "repaired", "lost"}

\* The killer, its jobs and the node state are in their domains.
TypeOK == /\ stopCh \in {"open", "closed"}
          /\ killer \in [pc : {"off", "sleep", "list", "pick", "kill", "wait",
                               "ended"},
                         nodes : SUBSET Nodes]
          /\ job \in [Nodes -> Jobs]
          /\ down \subseteq Nodes
          /\ prometheus \in Nodes
          /\ stops \in [Nodes -> Nat]
          /\ starts \in Nat /\ moves \in Nat

Init == /\ killedNodes = Excluded /\ stopCh = "open"
        /\ killer = [pc |-> "off", nodes |-> {}]
        /\ job = [n \in Nodes |-> "none"]
        /\ down = {}
        /\ prometheus \in Nodes
        /\ stops = [n \in Nodes |-> 0]
        /\ starts = 0 /\ moves = 0

----------------------------------------------------------------------------
\* Execute "start" with Monkey.Init: a new channel, the goroutine of Run.
\* Without support by the provider it fails and starts nothing.
start == /\ killer.pc = "off" /\ starts < MaxStarts
         /\ starts' = starts + 1
         /\ stopCh' = "open"
         /\ killer' = [pc |-> "sleep", nodes |-> {}]
         /\ UNCHANGED <<killedNodes, job, down, prometheus, stops, moves>>

\* Execute "stop" closes the channel; StopReturns is its wait for Run
stop == /\ killer.pc # "off" /\ stopCh = "open"
        /\ stopCh' = "closed"
        /\ UNCHANGED <<killedNodes, killer, job, down, prometheus, stops,
                       starts, moves>>

StopReturns == /\ killer.pc = "ended" /\ stopCh = "closed"
               /\ killer' = [pc |-> "off", nodes |-> {}]
               /\ UNCHANGED <<killedNodes, stopCh, job, down, prometheus,
                              stops, starts, moves>>

----------------------------------------------------------------------------
(* The goroutine of Run                                                    *)

\* JitterUntil looks at the channel before each round, and waits for the
\* interval or the channel after it; the first wait is Run's own
Run == /\ killer.pc = "sleep"
       /\ killer' = [pc |-> IF stopCh = "closed" THEN "ended" ELSE "list", nodes |-> {}]
       /\ UNCHANGED <<killedNodes, stopCh, job, down, prometheus, stops,
                      starts, moves>>

\* GetSchedulableUntainedNodes, which fails or misses nodes whose kubelet is
\* known to be down
listNodes ==
  /\ killer.pc = "list"
  /\ \/ \E known \in SUBSET down :
          killer' = [pc |-> "pick", nodes |-> Nodes \ known]
     \/ killer' = [pc |-> "sleep", nodes |-> {}]
  /\ UNCHANGED <<killedNodes, stopCh, job, down, prometheus, stops,
                 starts, moves>>

CeilDiv(a, b) == (a + b - 1) \div b

\* Fault: the nodes that were killed before are candidates again
FaultyCandidates == killer.nodes \ {prometheus}
\* the nodes without a Prometheus pod that were not killed before
candidates == (killer.nodes \ {prometheus}) \ killedNodes
numNodes == LET n == Cardinality(candidates)
                wanted == CeilDiv(RateNum * n, RateDen)
            IN IF n > wanted THEN wanted ELSE n

\* pickNodes: shuffled, then the first numNodes; listing the pods can fail
pickNodes ==
  /\ killer.pc = "pick"
  /\ \/ \E picked \in SUBSET candidates :
          /\ Cardinality(picked) = numNodes
          /\ killer' = [pc |-> "kill", nodes |-> picked]
     \/ killer' = [pc |-> "sleep", nodes |-> {}]
  /\ UNCHANGED <<killedNodes, stopCh, job, down, prometheus, stops,
                 starts, moves>>

\* kill starts a goroutine per node and waits for them; each of them records
\* the stopServices event first.  The stop channel is not looked at.
kill == /\ killer.pc = "kill"
        /\ killer' = [pc |-> "wait", nodes |-> killer.nodes]
        /\ killedNodes' = killedNodes \cup killer.nodes
        /\ job' = [n \in Nodes |-> IF n \in killer.nodes THEN "stop" ELSE job[n]]
        /\ stops' = [n \in Nodes |-> IF n \in killer.nodes THEN stops[n] + 1
                                     ELSE stops[n]]
        /\ UNCHANGED <<stopCh, down, prometheus, starts, moves>>

Working(n) == job[n] \in {"stop", "sleep", "reboot"}
killWaited == killer.pc = "wait" /\ \A n \in killer.nodes : ~Working(n)
killReturns ==
  /\ killWaited
  /\ killer' = [pc |-> "sleep", nodes |-> {}]
  /\ UNCHANGED <<killedNodes, stopCh, job, down, prometheus, stops,
                 starts, moves>>

----------------------------------------------------------------------------
(* The goroutines of kill                                                  *)

\* the ssh command worked; or it failed, with or without having had its
\* effect, and the goroutine returns without rebooting the node
stopServices(n) ==
  /\ job[n] = "stop"
  /\ \/ /\ job' = [job EXCEPT ![n] = "sleep"]
        /\ down' = down \cup {n}
     \/ /\ job' = [job EXCEPT ![n] = "lost"]
        /\ down' \in {down \cup {n}, down \ {n}}
  /\ UNCHANGED <<killedNodes, stopCh, killer, prometheus, stops, starts, moves>>

\* sleepInterrupt: the downtime is over, or the channel was closed
sleepInterrupt(n) ==
  /\ job[n] = "sleep"
  /\ job' = [job EXCEPT ![n] = "reboot"]
  /\ UNCHANGED <<killedNodes, stopCh, killer, down, prometheus, stops,
                 starts, moves>>

rebootNode(n) ==
  /\ job[n] = "reboot"
  /\ \/ /\ job' = [job EXCEPT ![n] = "repaired"]
        /\ down' = down \ {n}
     \/ /\ job' = [job EXCEPT ![n] = "lost"]
        /\ down' \in {down \cup {n}, down \ {n}}
  /\ UNCHANGED <<killedNodes, stopCh, killer, prometheus, stops, starts, moves>>

\* the Prometheus pod is rescheduled
PrometheusMoves ==
  /\ moves < MaxMoves
  /\ moves' = moves + 1
  /\ prometheus' \in Nodes \ {prometheus}
  /\ UNCHANGED <<killedNodes, stopCh, killer, job, down, stops, starts>>

Job(n) == stopServices(n) \/ sleepInterrupt(n) \/ rebootNode(n)
Killer == Run \/ listNodes \/ pickNodes \/ kill \/ killReturns
Next == \/ start \/ stop \/ StopReturns \/ Killer \/ PrometheusMoves
        \/ \E n \in Nodes : Job(n)

\* Goroutines are scheduled, ssh commands and API calls return, sleeps end.
Fairness == /\ WF_vars(Killer) /\ WF_vars(StopReturns)
            /\ \A n \in Nodes : WF_vars(Job(n))
Spec == Init /\ [][Next]_vars /\ Fairness

----------------------------------------------------------------------------
\* No node is made to fail twice, however often the measurement is started:
\* KilledNodes "returns the set of nodes which shouldn't be restarted again".
KilledOnce == \A n \in Nodes : stops[n] + (IF n \in Excluded THEN 1 ELSE 0) <= 1

\* When stop has returned, a node whose services are down is one on which a
\* command failed: stop waits until the nodes under simulation are rebooted.
NodesRepaired ==
  killer.pc = "off" => \A n \in down : job[n] = "lost"

Waiting == stopCh = "closed" /\ killer.pc # "off"

\* A stop returns.
StopEnds == Waiting ~> ~Waiting

\* The abstract view: what was done to each node, and whether a monkey runs.
F == INSTANCE NodeFailures WITH
       active <- killer.pc # "off",
       state <- [n \in Nodes |-> IF job[n] = "none" THEN "untouched"
                                 ELSE IF Working(n) THEN "failing" ELSE job[n]]
\* The measurement implements NodeFailures: nodes fail only between a start
\* and the return of the next stop, each at most once, and none is left failing.
ImplementsNodeFailures == F!Spec
=============================================================================
