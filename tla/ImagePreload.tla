----------------------------- MODULE ImagePreload -----------------------------
(***************************************************************************)
(* Image preloading (imagepreload.go) with the NodeCounter that tells it   *)
(* how many nodes its daemon set runs on (replicaswatcher.go).  Two        *)
(* informers watch the nodes, each at its own pace: one keeps the set of   *)
(* nodes whose status lists the images (doneNodes), the other counts the   *)
(* nodes the daemon set's pods may run on.  PreloadImages polls until the  *)
(* two numbers are equal.                                                  *)
(***************************************************************************)
EXTENDS Naturals, FiniteSets, Sequences

LOCAL INSTANCE SequencesExt

CONSTANTS
    Nodes,        \* nodes the cluster may have
    MaxEvents     \* bound: how often the nodes change

VARIABLES
    nodes,        \* the nodes that exist: [target |-> ..., images |-> ...]
    watch,        \* each informer's pending node events
    c,            \* the controller's doneNodes and the NodeCounter's replicas
    call,         \* PreloadImages
    events,
    steady        \* no node joined, left or changed taints since the call began

vars == <<nodes, watch, c, call, events, steady>>

Informers == {"done", "count"}
None == [target |-> FALSE, images |-> FALSE]

Init ==
    /\ \E S \in SUBSET Nodes : nodes \in [S -> [target : BOOLEAN, images : BOOLEAN]]
    /\ watch = [i \in Informers |-> <<>>]
    /\ c = [doneNodes |-> {}, replicas |-> 0]
    /\ call = [pc |-> "idle", namespace |-> FALSE, missed |-> {}, late |-> {}]
    /\ events = 0 /\ steady = TRUE

\* An informer that runs delivers the event (old, new); new = None is a deletion.
Deliver(n, old, new) ==
    watch' = [i \in Informers |->
        IF \/ i = "done" /\ call.pc \in {"namespace", "counter", "poll"}
           \/ i = "count" /\ call.pc = "poll"
        THEN Append(watch[i], [node |-> n, old |-> old, new |-> new]) ELSE watch[i]]

\* The first list of an informer: StartAndSync returns once the list is in the
\* informer's store, while the handlers still have to see its nodes.  Events of
\* different nodes commute, so one order stands for all.
FirstList ==
    [k \in 1..Cardinality(DOMAIN nodes) |->
        LET n == SetToSeq(DOMAIN nodes)[k] IN [node |-> n, old |-> None, new |-> nodes[n]]]

\* A kubelet reports the pulled images; it does so only for the daemon set's
\* pod, so a node that is no target gets no new images.
KubeletReports(n) ==
    /\ call.pc = "poll"
    /\ n \in DOMAIN nodes /\ nodes[n].target /\ ~nodes[n].images
    /\ nodes' = [nodes EXCEPT ![n].images = TRUE]
    /\ Deliver(n, nodes[n], nodes'[n])
    /\ UNCHANGED <<c, call, events, steady>>

\* A node joins, leaves, or gains or loses a taint the daemon set does not
\* tolerate.
NodeChanges(n) ==
    /\ events < MaxEvents /\ call.pc \notin {"idle", "done"}
    /\ events' = events + 1
    /\ steady' = FALSE
    /\ \/ n \notin DOMAIN nodes
          /\ nodes' = [m \in DOMAIN nodes \cup {n} |->
                         IF m = n THEN [target |-> TRUE, images |-> FALSE] ELSE nodes[m]]
          /\ Deliver(n, None, nodes'[n])
       \/ n \in DOMAIN nodes
          /\ nodes' = [m \in DOMAIN nodes \ {n} |-> nodes[m]]
          /\ Deliver(n, nodes[n], None)
       \/ n \in DOMAIN nodes
          /\ nodes' = [nodes EXCEPT ![n].target = ~@]
          /\ Deliver(n, nodes[n], nodes'[n])
    /\ UNCHANGED <<c, call>>

----------------------------------------------------------------------------
\* checkNode, markDone: a node is done while its status lists every image.
checkNode(e) ==
    c' = [c EXCEPT !.doneNodes = IF e.new.images THEN @ \cup {e.node} ELSE @ \ {e.node}]

\* Fault: a deleted node keeps counting.
FaultyHandleObject(e) ==
    c' = [c EXCEPT !.replicas =
            IF e.new.target = e.old.target \/ e.new = None THEN @
            ELSE IF e.new.target THEN @ + 1 ELSE @ - 1]

\* NodeCounter.handleObject with shouldRun.
handleObject(e) ==
    c' = [c EXCEPT !.replicas =
            IF e.new.target = e.old.target THEN @
            ELSE IF e.new.target THEN @ + 1 ELSE @ - 1]

Handle(i) ==
    /\ watch[i] # <<>>
    /\ watch' = [watch EXCEPT ![i] = Tail(@)]
    /\ IF i = "done" THEN checkNode(Head(watch[i])) ELSE handleObject(Head(watch[i]))
    /\ UNCHANGED <<nodes, call, events, steady>>

\* PreloadImages starts the node informer and waits for its first list.
PreloadImages ==
    /\ call.pc = "idle"
    /\ call' = [call EXCEPT !.pc = "namespace"]
    /\ watch' = [watch EXCEPT !["done"] = FirstList]
    /\ UNCHANGED <<nodes, c, events, steady>>

\* The namespace and the daemon set are created, or an error returned with
\* what was created left behind.
ApplyTemplatedManifests ==
    /\ call.pc = "namespace"
    /\ \/ call' = [call EXCEPT !.pc = "counter", !.namespace = TRUE]
       \/ \E ns \in BOOLEAN :
            call' = [call EXCEPT !.pc = "failed", !.namespace = ns]
    /\ UNCHANGED <<nodes, watch, c, events, steady>>

\* NodeCounter.Start.
CounterStart ==
    /\ call.pc = "counter"
    /\ call' = [call EXCEPT !.pc = "poll"]
    /\ watch' = [watch EXCEPT !["count"] = FirstList]
    /\ UNCHANGED <<nodes, c, events, steady>>

\* The condition of the poll.
pollCondition == Cardinality(c.doneNodes) = c.replicas

\* The poll ends; the namespace is deleted only when the nodes were counted
\* before the timeout.
PollEnds ==
    /\ call.pc = "poll" /\ pollCondition
    /\ call' = [call EXCEPT !.pc = "done", !.namespace = FALSE,
                            !.late = {i \in Informers : watch[i] # <<>>},
                            !.missed = {n \in DOMAIN nodes : nodes[n].target /\ ~nodes[n].images}]
    /\ watch' = [i \in Informers |-> <<>>]
    /\ UNCHANGED <<nodes, c, events, steady>>

PollTimesOut ==
    /\ call.pc = "poll"
    /\ call' = [call EXCEPT !.pc = "failed"]
    /\ watch' = [i \in Informers |-> <<>>]
    /\ UNCHANGED <<nodes, c, events, steady>>

Next ==
    \/ \E n \in Nodes : KubeletReports(n) \/ NodeChanges(n)
    \/ \E i \in Informers : Handle(i)
    \/ PreloadImages \/ ApplyTemplatedManifests \/ CounterStart
    \/ PollEnds \/ PollTimesOut

Spec == Init /\ [][Next]_vars

----------------------------------------------------------------------------
\* Type correctness of the controller, the NodeCounter and the call.
TypeOK ==
    /\ DOMAIN nodes \subseteq Nodes
    /\ c.doneNodes \subseteq Nodes /\ c.replicas \in 0..Cardinality(Nodes)
    /\ \A i \in Informers : \A k \in 1..Len(watch[i]) : watch[i][k].node \in Nodes
    /\ call.missed \subseteq Nodes /\ call.late \subseteq Informers

\* When the nodes do not change during the call, the counter has seen them all
\* and none outside the daemon set's targets has the images, PreloadImages
\* returns without an error only after every target has pulled them, however
\* late the node informer is.
PreloadWhenSteady ==
    /\ call.pc = "done" /\ steady /\ "count" \notin call.late
    /\ \A n \in DOMAIN nodes : nodes[n].images => nodes[n].target
    => call.missed = {}

\* The two informers count right: once both have delivered everything, the
\* NodeCounter's number is that of the nodes the daemon set runs on, and
\* doneNodes are the nodes with the images.
CountsSettle ==
    call.pc = "poll" /\ (\A i \in Informers : watch[i] = <<>>) =>
        /\ c.replicas = Cardinality({n \in DOMAIN nodes : nodes[n].target})
        /\ c.doneNodes = {n \in DOMAIN nodes : nodes[n].images}

=============================================================================
