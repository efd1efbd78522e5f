------------------------ MODULE LoadBalancerNodeSync ------------------------
(***************************************************************************)
(* The LoadBalancerNodeSync measurement.  "measure" lists the services,    *)
(* starts an informer of the node-sync events, labels a node so that the   *)
(* load balancers must drop it, notes the time, and polls until every load *)
(* balancer has an event or the timeout passes; the label is removed when  *)
(* the call returns.  "gather" removes the label again and computes the    *)
(* latencies.  The informer is not waited for: it lists (to learn the      *)
(* resource version) and watches at its own pace, and an event before the  *)
(* list is never seen.  Event times have the resolution of a second.       *)
(***************************************************************************)
EXTENDS Integers, FiniteSets

CONSTANTS Services,     \* the keys of the services
          Nodes,        \* the nodes of the cluster
          Second,       \* ticks of the clock in a second
          MaxClock,     \* bound on the clock
          MaxMeasures,  \* bound on the measure calls
          MaxFaults     \* bound on the requests that fail

VARIABLES s,         \* excludedNodeName, lbSvcMap and svcNodeSyncLatencyTracker
          kinds,     \* which services are load balancers
          ready,     \* the nodes with a true Ready condition
          labelled,  \* the nodes with the exclude label
          synced,    \* the load balancers that have seen the last label
          informer,  \* "off", "starting", "watching"
          watch,     \* events on their way to the informer
          call,      \* the call; at is the time the node was labelled
          measures, clock, faults

vars == <<s, kinds, ready, labelled, synced, informer, watch, call, measures, clock, faults>>

NoNode == "none"
NoTimes == [start |-> 0, complete |-> 0]

Init ==
  /\ s = [excludedNodeName |-> NoNode, lbSvcMap |-> {}, times |-> [k \in Services |-> NoTimes]]
  /\ kinds \in SUBSET Services
  /\ ready \in SUBSET Nodes
  /\ labelled = {} /\ synced = kinds /\ informer = "off" /\ watch = {}
  /\ call = [pc |-> "idle", ok |-> TRUE, at |-> 0]
  /\ measures = 0 /\ clock = 2 /\ faults = 0

Fault == faults < MaxFaults /\ faults' = faults + 1

Return(result) == call' = [pc |-> "idle", ok |-> result, at |-> 0]

-----------------------------------------------------------------------------
(* The service controller updates a load balancer after the label of a     *)
(* node changed and records an event, stamped with whole seconds.          *)
Synced(k) ==
  /\ k \in kinds \ synced
  /\ synced' = synced \cup {k}
  /\ watch' = IF informer = "watching" THEN watch \cup {[key |-> k, time |-> Second * (clock \div Second)]}
              ELSE watch
  /\ UNCHANGED <<s, kinds, ready, labelled, informer, call, measures, clock, faults>>

Tick ==
  /\ call.pc \in {"note", "poll"} /\ clock < MaxClock
  /\ clock' = clock + 1
  /\ UNCHANGED <<s, kinds, ready, labelled, synced, informer, watch, call, measures, faults>>

(* getEventInformer: the list returns no items, only a resource version,   *)
(* so only later events are watched.                                       *)
InformerLists ==
  /\ informer = "starting"
  /\ informer' = "watching"
  /\ UNCHANGED <<s, kinds, ready, labelled, synced, watch, call, measures, clock, faults>>

(* The first event of a service of the last measure call counts. *)
processEvent(e) ==
  /\ informer = "watching"
  /\ watch' = watch \ {e}
  /\ s' = IF e.key \in s.lbSvcMap /\ s.times[e.key].complete = 0
          THEN [s EXCEPT !.times[e.key].complete = e.time] ELSE s
  /\ UNCHANGED <<kinds, ready, labelled, synced, informer, call, measures, clock, faults>>

-----------------------------------------------------------------------------
(* measureNodeSyncLatency up to the start of the informer. *)
measureNodeSyncLatency ==
  /\ call.pc = "idle" /\ measures < MaxMeasures
  /\ measures' = measures + 1
  /\ \/ /\ Fault /\ Return(FALSE) /\ UNCHANGED <<s, informer>>
     \/ /\ s' = [s EXCEPT !.lbSvcMap = kinds]
        /\ informer' = "starting"
        /\ call' = [pc |-> "pick", ok |-> TRUE, at |-> 0]
        /\ UNCHANGED faults
  /\ UNCHANGED <<kinds, ready, labelled, synced, watch, clock>>

isCandidateNode(n) == n \notin labelled /\ n \in ready

(* The first candidate is taken; without one the name of an earlier call   *)
(* stays.  The deferred close stops the informer when the call returns.    *)
Pick ==
  /\ call.pc = "pick"
  /\ \/ /\ Fault /\ Return(FALSE) /\ informer' = "off" /\ watch' = {} /\ UNCHANGED s
     \/ /\ LET candidates == {n \in Nodes : isCandidateNode(n)}
           IN  IF candidates # {} THEN \E n \in candidates : s' = [s EXCEPT !.excludedNodeName = n]
               ELSE UNCHANGED s
        /\ IF s'.excludedNodeName = NoNode
           THEN Return(FALSE) /\ informer' = "off" /\ watch' = {}
           ELSE call' = [call EXCEPT !.pc = "label"] /\ UNCHANGED <<informer, watch>>
        /\ UNCHANGED faults
  /\ UNCHANGED <<kinds, ready, labelled, synced, measures, clock>>

(* A change of a label makes every load balancer sync again. *)
labelNodeForLBs(exclude) ==
  /\ labelled' = IF exclude THEN labelled \cup {s.excludedNodeName} ELSE labelled \ {s.excludedNodeName}
  /\ synced' = IF labelled' = labelled THEN synced ELSE {}

(* Labelling the node and noting the time of every service; the deferred   *)
(* removal of the label also runs when labelling failed.                   *)
LabelNode ==
  /\ call.pc = "label"
  /\ \/ Fault /\ call' = [call EXCEPT !.pc = "unlabel", !.ok = FALSE] /\ UNCHANGED <<labelled, synced, s>>
     \/ /\ labelNodeForLBs(TRUE)
        /\ call' = [call EXCEPT !.pc = "note", !.at = clock]
        /\ UNCHANGED <<s, faults>>
  /\ UNCHANGED <<kinds, ready, informer, watch, measures, clock>>

NoteStart ==
  /\ call.pc = "note"
  /\ s' = [s EXCEPT !.times = [k \in Services |-> IF k \in s.lbSvcMap THEN [@[k] EXCEPT !.start = clock] ELSE @[k]]]
  /\ call' = [call EXCEPT !.pc = "poll"]
  /\ UNCHANGED <<kinds, ready, labelled, synced, informer, watch, measures, clock, faults>>

Count == Cardinality({k \in Services : s.times[k].complete # 0})

Poll ==
  /\ call.pc = "poll"
  /\ \/ Count = Cardinality(s.lbSvcMap) /\ call' = [call EXCEPT !.pc = "unlabel"]
     \/ Count # Cardinality(s.lbSvcMap) /\ clock = MaxClock /\ call' = [call EXCEPT !.pc = "unlabel", !.ok = FALSE]
  /\ UNCHANGED <<s, kinds, ready, labelled, synced, informer, watch, measures, clock, faults>>

(* The deferred removal assigns err, but the result was already set: a     *)
(* failure is logged and not returned.                                     *)
Unlabel ==
  /\ call.pc = "unlabel"
  /\ \/ Fault /\ UNCHANGED <<labelled, synced>>
     \/ labelNodeForLBs(FALSE) /\ UNCHANGED faults
  /\ Return(call.ok) /\ informer' = "off" /\ watch' = {}
  /\ UNCHANGED <<s, kinds, ready, measures, clock>>

(* gather removes the label first; an error ends it.  With no node name    *)
(* the request itself fails.                                               *)
gather ==
  /\ call.pc = "idle"
  /\ \/ s.excludedNodeName # NoNode /\ labelNodeForLBs(FALSE) /\ call' = [call EXCEPT !.pc = "gathered", !.ok = TRUE] /\ UNCHANGED faults
     \/ s.excludedNodeName = NoNode /\ Return(FALSE) /\ UNCHANGED <<labelled, synced, faults>>
     \/ Fault /\ Return(FALSE) /\ UNCHANGED <<labelled, synced>>
  /\ UNCHANGED <<s, kinds, ready, informer, watch, measures, clock>>

Measure == measureNodeSyncLatency \/ Pick \/ LabelNode \/ NoteStart \/ Poll \/ Unlabel
Events == InformerLists \/ \E e \in watch : processEvent(e)
Internal == Pick \/ LabelNode \/ NoteStart \/ Poll \/ Unlabel \/ Tick

Next == Measure \/ gather \/ Events \/ Tick \/ \E k \in Services : Synced(k)

Fairness == WF_vars(Internal)

Spec == Init /\ [][Next]_vars /\ Fairness

-----------------------------------------------------------------------------
(* Type correctness of the measurement, the informer and the cluster. *)
TypeOK ==
  /\ s.excludedNodeName \in Nodes \cup {NoNode} /\ s.lbSvcMap \subseteq Services
  /\ s.times \in [Services -> [start: 0..MaxClock, complete: 0..MaxClock]]
  /\ kinds \subseteq Services /\ ready \subseteq Nodes /\ labelled \subseteq Nodes
  /\ synced \subseteq kinds /\ informer \in {"off", "starting", "watching"}
  /\ watch \subseteq [key: Services, time: 0..MaxClock]
  /\ call.pc \in {"idle", "pick", "label", "note", "poll", "unlabel", "gathered"} /\ call.ok \in BOOLEAN
  /\ call.at \in 0..clock
  /\ measures \in 0..MaxMeasures /\ clock \in 2..MaxClock /\ faults \in 0..MaxFaults

(* The test gives the node back: when no call is running, at most as many  *)
(* nodes are kept out of the load balancers as requests failed, and none   *)
(* after a gather that succeeded directly after one measure call (the      *)
(* deferred labelNodeForLBs of measureNodeSyncLatency and the one of       *)
(* gather).                                                                *)
NodeGivenBack ==
  call.pc \in {"idle", "gathered"} =>
    /\ Cardinality(labelled) <= faults
    /\ call.pc = "gathered" /\ measures <= 1 => labelled = {}

(* The first measure call attributes to its label only what came after it: *)
(* no recorded completion is more than the truncated second older than the *)
(* label (processEvent, getEventInformer).  The recorded start may be      *)
(* later, because the time is noted after the request.                     *)
MeasuredAfterLabel ==
  measures = 1 /\ call.pc \in {"note", "poll", "unlabel"} =>
    \A k \in Services : s.times[k].complete # 0 => s.times[k].complete > call.at - Second

Waiting == call.pc \notin {"idle", "gathered"}

(* A measure call returns. *)
MeasureReturns == Waiting ~> ~Waiting

=============================================================================
