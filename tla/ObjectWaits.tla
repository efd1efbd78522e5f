---------------------------- MODULE ObjectWaits ----------------------------
(***************************************************************************)
(* The measurements that wait for objects: WaitForRunningPods,             *)
(* WaitForBoundPVCs, WaitForAvailablePVs, WaitForNodes and                 *)
(* WaitForGenericK8sObjects, and WaitForPods as the checkers of            *)
(* WaitForControlledPodsRunning call it, with a desired count that moves   *)
(* and a predicate for updated pods.  Each keeps a store of the objects    *)
(* that a reflector fills, and judges its content at every interval until  *)
(* the verdict is good or the deadline has passed.                         *)
(*                                                                         *)
(* A reflector's first list may come from the API server's cache, and it   *)
(* then follows the watch or lists again, so its store goes through states *)
(* the cluster went through, in order, late, and not all of them.          *)
(***************************************************************************)
EXTENDS Integers, Sequences, FiniteSets
LOCAL INSTANCE FiniteSetsExt

CONSTANTS Waits,      \* the measurements a behaviour may be about
          Objects,    \* names of objects
          Desired,    \* the counts that may be asked for
          Margin,     \* CountErrorMargin of controlled pods
          MinNodes, MaxNodes, MinObjects, MaxFailed,
          MaxChanges  \* bounds the changes of the cluster

VARIABLES wait,     \* the measurement
          past,     \* the states of the cluster, the last one is the present
          at,       \* which of them the store holds, 0 before the first list
          desired,  \* what DesiredPodCount() returns
          asked,    \* every value it had
          call      \* the call of Execute
vars == <<wait, past, at, desired, asked, call>>

----------------------------------------------------------------------------
(* The objects, reduced to what the code reads of them                     *)

Pod(deleting, phase, ready, updated) ==
  [deleting |-> deleting, phase |-> phase, ready |-> ready, updated |-> updated]
PodStates == { Pod(FALSE, "Pending", FALSE, TRUE),
               Pod(FALSE, "Running", FALSE, TRUE),
               Pod(FALSE, "Running", TRUE,  TRUE),
               Pod(FALSE, "Running", TRUE,  FALSE),
               Pod(TRUE,  "Running", TRUE,  TRUE),
               Pod(FALSE, "Failed",  FALSE, TRUE) }
ClaimStates == {"Pending", "Bound", "Lost"}
Volume(phase, ours) == [phase |-> phase, ours |-> ours]
VolumeStates == {Volume(ph, TRUE) : ph \in {"Pending", "Available", "Bound", "Released"}}
                  \cup {Volume("Available", FALSE)}
Node(ready, unschedulable, tainted) ==
  [ready |-> ready, unschedulable |-> unschedulable, tainted |-> tainted]
NodeStates == {Node(TRUE, FALSE, FALSE), Node(FALSE, FALSE, FALSE),
               Node(TRUE, TRUE, FALSE), Node(TRUE, FALSE, TRUE)}
Object(inRange, conditions) == [inRange |-> inRange, conditions |-> conditions]
ConditionStates == {Object(TRUE, <<>>), Object(TRUE, <<"Other", "Good">>),
                    Object(TRUE, <<"Bad", "Other">>), Object(FALSE, <<"Good">>)}
StatesOf ==
  CASE wait \in {"pods", "controlledPods"} -> PodStates
    [] wait = "pvcs" -> ClaimStates
    [] wait = "pvs" -> VolumeStates
    [] wait = "nodes" -> NodeStates
    [] wait = "generic" -> ConditionStates

Count(objs, P(_)) == Cardinality({o \in DOMAIN objs : P(objs[o])})

----------------------------------------------------------------------------
(* The verdicts on a list of objects                                       *)

\* podStatus, which names the pods of an error
podStatus(p) ==
  CASE p.deleting -> "Terminating"
    [] ~p.deleting /\ p.phase = "Running" ->
         IF p.ready THEN "RunningAndReady" ELSE "RunningButNotReady"
    [] ~p.deleting /\ p.phase = "Pending" -> "Pending"
    [] ~p.deleting /\ p.phase \in {"Succeeded", "Failed"} -> "Inactive"

\* ComputePodsStartupStatus, which the verdict uses; isPodUpdated is nil but
\* for controlled pods
ComputePodsStartupStatus(pods) ==
  LET running(p) == ~p.deleting /\ p.phase = "Running" /\ p.ready IN
  [Running |-> Count(pods, running),
   RunningUpdated |-> Count(pods, LAMBDA p : running(p) /\
                        (wait = "controlledPods" => p.updated)),
   Inactive |-> Count(pods, LAMBDA p :
                  ~p.deleting /\ p.phase \in {"Succeeded", "Failed"})]

WaitForPods(pods, d) ==
  LET s == ComputePodsStartupStatus(pods)
      n == Cardinality(DOMAIN pods)
      margin == IF wait = "controlledPods" THEN Margin ELSE 0
  IN \/ /\ n = s.Running + s.Inactive
        /\ s.Running = s.RunningUpdated /\ s.RunningUpdated = d
     \/ /\ margin > 0
        /\ s.RunningUpdated >= d - margin
        /\ n - s.Inactive <= d
        /\ s.Inactive <= margin

ComputePVCsStartupStatus(pvcs) ==
  [p \in ClaimStates |-> Count(pvcs, LAMBDA c : c = p)]
WaitForPVCs(pvcs, d) ==
  LET s == ComputePVCsStartupStatus(pvcs) IN
  /\ Cardinality(DOMAIN pvcs) = s["Bound"] + s["Pending"]
  /\ s["Bound"] = d

\* PVStore.List filters by provisioner
ListPVs(pvs) == [o \in {p \in DOMAIN pvs : pvs[p].ours} |-> pvs[o]]
ComputePVsStartupStatus(pvs) ==
  [p \in {"Pending", "Available", "Bound", "Released"} |->
     Count(pvs, LAMBDA v : v.phase = p)]
WaitForPVs(pvs, d) ==
  LET s == ComputePVsStartupStatus(ListPVs(pvs)) IN
  /\ Cardinality(DOMAIN ListPVs(pvs)) =
       s["Bound"] + s["Available"] + s["Pending"]
  /\ s["Bound"] + s["Available"] = d

IsNodeSchedulableAndUntainted(n) == n.ready /\ ~n.unschedulable /\ ~n.tainted
getNumReadyNodes(nodes) == Count(nodes, IsNodeSchedulableAndUntainted)
WaitForNodes(nodes) ==
  MinNodes <= getNumReadyNodes(nodes) /\ getNumReadyNodes(nodes) <= MaxNodes

\* the namespaces asked for, and of the conditions the first that is listed
ListObjectSimplifications(objs) ==
  [o \in {x \in DOMAIN objs : objs[x].inRange} |-> objs[o].conditions]
countObjectsMatchingConditions(objs) ==
  LET first(cs) == {i \in 1..Len(cs) : cs[i] \in {"Good", "Bad"}}
      matches(cs, c) == first(cs) # {} /\ cs[Min(first(cs))] = c
  IN [successful |-> Count(objs, LAMBDA cs : matches(cs, "Good")),
      failed |-> Count(objs, LAMBDA cs : matches(cs, "Bad"))]
\* "more" while too few have either condition
WaitForGenericK8sObjects(objs) ==
  LET c == countObjectsMatchingConditions(ListObjectSimplifications(objs)) IN
  IF c.successful + c.failed < MinObjects THEN "more"
  ELSE IF c.failed > MaxFailed THEN "error" ELSE "ok"

verdict(objs, d) ==
  CASE wait = "generic" -> WaitForGenericK8sObjects(objs)
    [] wait = "nodes" -> IF WaitForNodes(objs) THEN "ok" ELSE "more"
    [] wait = "pvs" -> IF WaitForPVs(objs, d) THEN "ok" ELSE "more"
    [] wait = "pvcs" -> IF WaitForPVCs(objs, d) THEN "ok" ELSE "more"
    [] OTHER -> IF WaitForPods(objs, d) THEN "ok" ELSE "more"

----------------------------------------------------------------------------
Empty == [o \in {} |-> TRUE]
\* Type correctness of the wait, its store and the call.
TypeOK == /\ wait \in Waits
          /\ at \in 0..Len(past)
          /\ desired \in Desired /\ desired \in asked /\ asked \subseteq Desired
          /\ call.pc \in {"idle", "select", "listing", "done"}
          /\ call.res \in {"none", "ok", "error", "timeout"}
          /\ call.store \in {"none", "open", "stopped"}
          /\ call.unexpected \subseteq Objects
          /\ \A i \in 1..Len(past) : DOMAIN past[i] \subseteq Objects
                 /\ \A o \in DOMAIN past[i] : past[i][o] \in StatesOf

Init == /\ wait \in Waits
        /\ past \in {<<Empty>>} \cup
             {<<[o \in Objects |-> s]>> : s \in StatesOf}
        /\ at = 0 /\ desired \in Desired /\ asked = {desired}
        /\ call = [pc |-> "idle", expired |-> FALSE, timer |-> FALSE,
                   d |-> desired, old |-> 0, res |-> "none",
                   store |-> "none", unexpected |-> {}]

present == past[Len(past)]
\* an object is created, changes or goes
ClusterChanges ==
  /\ Len(past) <= MaxChanges
  /\ \E o \in Objects :
       \/ \E s \in StatesOf :
            past' = Append(past, [x \in DOMAIN present \cup {o} |->
                                    IF x = o THEN s ELSE present[x]])
       \/ /\ o \in DOMAIN present
          /\ past' = Append(past, [x \in DOMAIN present \ {o} |-> present[x]])
  /\ past'[Len(past) + 1] # present
  /\ UNCHANGED <<wait, at, desired, asked, call>>

\* GetReplicasOnce and the replicas watcher are behind DesiredPodCount()
DesiredChanges ==
  /\ wait = "controlledPods" /\ call.pc # "done"
  /\ \E d \in Desired \ asked : desired' = d /\ asked' = asked \cup {d}
  /\ UNCHANGED <<wait, past, at, call>>

\* the reflector applies a watch event, or lists again
Reflects == /\ call.store = "open"
            /\ \E i \in at + 1..Len(past) : at' = i
            /\ UNCHANGED <<wait, past, desired, asked, call>>

\* the store's first list, maybe a stale one
FirstList == \E i \in 1..Len(past) :
  /\ at' = i
  /\ call' = [call EXCEPT !.pc = "select", !.store = "open", !.old = i]
\* newObjectStore waits for the first list, or the call fails
newObjectStore == \/ /\ call' = [call EXCEPT !.pc = "done", !.res = "error"]
                     /\ UNCHANGED at
                  \/ FirstList
\* NewDynamicObjectStore does not fail: it goes on when the list is in
NewDynamicObjectStore == FirstList

\* Execute: the parameters are read before, so that an error starts nothing
Execute(w, NewStore) == /\ wait = w /\ call.pc = "idle"
                        /\ \/ /\ call' = [call EXCEPT !.pc = "done", !.res = "error"]
                              /\ UNCHANGED at
                           \/ NewStore
                        /\ UNCHANGED <<wait, past, desired, asked>>
waitForRunningPods == Execute("pods", newObjectStore)
waitForBoundPVCs == Execute("pvcs", newObjectStore)
waitForAvailablePVs == Execute("pvs", newObjectStore)
waitForNodes == Execute("nodes", newObjectStore)
waitForGenericK8sObjects == Execute("generic", NewDynamicObjectStore)
\* the call of a checker of WaitForControlledPods
waitForControlledPods == Execute("controlledPods", newObjectStore)

TimerFires == /\ call.pc = "select" /\ ~call.timer /\ ~call.expired
              /\ call' = [call EXCEPT !.timer = TRUE]
              /\ UNCHANGED <<wait, past, at, desired, asked>>

\* the deadline of the context or of stopCh
Deadline == /\ call.pc \in {"select", "listing"} /\ ~call.expired
            /\ call' = [call EXCEPT !.expired = TRUE]
            /\ UNCHANGED <<wait, past, at, desired, asked>>

\* the desired count is read first ...
Interval == /\ call.pc = "select" /\ call.timer
            /\ call' = [call EXCEPT !.pc = "listing", !.timer = FALSE,
                                    !.d = desired]
            /\ UNCHANGED <<wait, past, at, desired, asked>>

\* WaitForRunningPods never stops its store; the stores of controlled pods
\* are not the call's own; the others stop theirs when they return
stopStore == IF wait \in {"pods", "controlledPods"} THEN call.store
             ELSE "stopped"

\* ... and the list second
Judge ==
  /\ call.pc = "listing"
  /\ LET v == verdict(past[at], call.d) IN
     call' = IF v = "more" THEN [call EXCEPT !.pc = "select", !.old = at]
             ELSE [call EXCEPT !.pc = "done", !.res = v, !.old = at,
                               !.store = stopStore]
  /\ UNCHANGED <<wait, past, at, desired, asked>>

NotRunningAndReady(pods) ==
  {o \in DOMAIN pods : podStatus(pods[o]) # "RunningAndReady"}
\* with the timer as well the select takes either; the pods of the error are
\* those of the last list
TimedOut ==
  /\ call.pc = "select" /\ call.expired
  /\ call' = [call EXCEPT !.pc = "done", !.res = "timeout", !.store = stopStore,
       !.unexpected = IF wait \in {"pods", "controlledPods"}
                      THEN NotRunningAndReady(past[call.old]) ELSE {}]
  /\ UNCHANGED <<wait, past, at, desired, asked>>

Next == \/ ClusterChanges \/ DesiredChanges \/ Reflects
        \/ waitForRunningPods \/ waitForBoundPVCs \/ waitForAvailablePVs
        \/ waitForNodes \/ waitForGenericK8sObjects \/ waitForControlledPods
        \/ TimerFires \/ Deadline \/ Interval \/ Judge \/ TimedOut

\* Timers fire and goroutines run; nothing makes the cluster move.
Fairness == /\ WF_vars(Deadline)
            /\ WF_vars(Interval \/ Judge \/ TimedOut)
Spec == Init /\ [][Next]_vars /\ Fairness

----------------------------------------------------------------------------
\* What a good verdict says of the objects, one by one.
Reached(objs, d) ==
  LET ready(o) == podStatus(objs[o]) = "RunningAndReady"
      inactive(o) == podStatus(objs[o]) = "Inactive"
      is(P(_)) == {o \in DOMAIN objs : P(o)}
      good(o) == ready(o) /\ (wait = "controlledPods" => objs[o].updated)
      provisioned(o) == objs[o].ours /\ objs[o].phase \in {"Bound", "Available"}
      has(o, c) == objs[o].inRange /\ \E i \in 1..Len(objs[o].conditions) :
                                        objs[o].conditions[i] = c
  IN CASE wait = "pods" ->
          /\ \A o \in DOMAIN objs : good(o) \/ inactive(o)
          /\ Cardinality(is(good)) = d
     [] wait = "controlledPods" ->
          \* the pods that are not good or inactive, the missing and the
          \* inactive ones are within the margin
          /\ Cardinality(is(good)) \in d - Margin..d
          /\ Cardinality(DOMAIN objs \ is(inactive)) <= d
          /\ Cardinality(is(good)) = d => DOMAIN objs = is(good) \cup is(inactive)
     [] wait = "pvcs" ->
          /\ \A o \in DOMAIN objs : objs[o] # "Lost"
          /\ Cardinality({o \in DOMAIN objs : objs[o] = "Bound"}) = d
     [] wait = "pvs" ->
          /\ \A o \in DOMAIN objs : objs[o].ours => objs[o].phase # "Released"
          /\ Cardinality(is(provisioned)) = d
     [] wait = "nodes" ->
          Cardinality({o \in DOMAIN objs : objs[o] = Node(TRUE, FALSE, FALSE)})
            \in MinNodes..MaxNodes
     [] wait = "generic" ->
          /\ Cardinality({o \in DOMAIN objs : has(o, "Good") \/ has(o, "Bad")})
               >= MinObjects
          /\ Cardinality({o \in DOMAIN objs : has(o, "Bad")}) <= MaxFailed

\* A wait that ends without error was right about the cluster at some moment
\* and for a count that was asked for at some moment, although the store is
\* late, the desired count moves between its read and the list, and two
\* functions classify a pod (podStatus and ComputePodsStartupStatus).
WaitSound ==
  call.res = "ok" =>
    \E i \in 1..at, d \in asked : Reached(past[i], d)

Waiting == call.pc \in {"select", "listing"}
Returned == call.pc = "done"

\* Every wait ends, at its deadline if not before.
WaitEnds == Waiting ~> Returned
=============================================================================
