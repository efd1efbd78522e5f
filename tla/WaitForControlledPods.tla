------------------------ MODULE WaitForControlledPods ------------------------
(***************************************************************************)
(* The WaitForControlledPodsRunning measurement of clusterloader2          *)
(* (clusterloader2/pkg/measurement/common/wait_for_controlled_pods.go)     *)
(* together with what it is built from: the informer that feeds it         *)
(* (measurement/util/informer), the single-worker queue that orders its    *)
(* handlers (measurement/util/workerqueue), and the map of checkers, one   *)
(* goroutine per controlling object (measurement/util/checker).            *)
(*                                                                         *)
(* The API server, the pods and client-go's informer are external; they    *)
(* are modelled by what the measurement can see of them:                   *)
(*   - every write gets the next resource version;                         *)
(*   - a watch delivers the writes in order;                               *)
(*   - a (re)list replaces the informer's store by the current objects and *)
(*     hands over the differences in an order unrelated to the versions    *)
(*     (an object deleted and created again is ONE update old -> new).     *)
(* A uid is the resource version at which the object was created.          *)
(* Pods are abstracted to the spec the pods of a uid implement; None means *)
(* that the uid has no pods.                                               *)
(***************************************************************************)
EXTENDS Naturals, Sequences, FiniteSets, Functions

CONSTANTS
    Keys,            \* namespace/name of the controlling objects of the kind
    Selected,        \* the keys inside the namespace of the selector
    Specs,           \* specs (and pod templates) an object may have
    None,            \* no object, no checker, no pods
    MaxVersion,      \* bound: writes the API server accepts
    MaxStarts,       \* bound: executions of the "start" action
    OperationTimeout,\* TRUE iff operationTimeout is not 0
    CheckerErrors    \* TRUE iff making the checker of an object may fail

VARIABLES
    \* API server and cluster
    objs,            \* key -> the stored object or None
    version,         \* last resource version handed out
    pods,            \* uid -> spec its pods implement, or None
    \* client-go informer created by start
    informer,        \* "off", "listing" or "watching"
    store,           \* key -> object in the informer's local store
    watch,           \* writes not yet delivered to the informer
    \* work queue with its one worker
    queue,           \* handler calls not yet executed
    queueOpen,       \* FALSE once queue.ShutDown was called
    \* the measurement
    isRunning, objectKeys, opResourceVersion, checkerMap,
    stopped,         \* goroutines of stopped and replaced checkers that still run
    call,            \* the Execute call in progress
    \* bookkeeping for bounds and properties
    starts,          \* executions of "start" so far
    quiet            \* no object created, deleted or re-specified since the LIST

apiVars         == <<objs, version, pods>>
informerVars    == <<informer, store, watch>>
measurementVars == <<isRunning, objectKeys, opResourceVersion, checkerMap, stopped>>
vars == <<apiVars, informerVars, queue, queueOpen, measurementVars, call, starts, quiet>>

Versions == 1..MaxVersion

Objects == [uid : Versions, spec : Specs, rv : Versions]

MaybeObject == Objects \cup {None}

\* A call of handleObject(old, new): add, update or delete of the object key.
Events == [key : Keys, old : MaybeObject, new : MaybeObject]

Statuses == {"unknown", "running", "deleted", "failed", "timeout", "deleteTimeout"}

Checkers == [uid : Versions, spec : Specs, isDeleted : BOOLEAN,
             status : Statuses, cancelled : BOOLEAN, finished : BOOLEAN]

ASSUME ConstantsAssumption ==
    /\ Selected \subseteq Keys
    /\ IsFiniteSet(Keys)
    /\ MaxVersion \in Nat
    /\ MaxStarts \in Nat
    /\ OperationTimeout \in BOOLEAN
    /\ CheckerErrors \in BOOLEAN
    /\ None \notin Specs
    /\ None \notin Objects
    /\ None \notin Checkers

Results == {"none", "notStarted", "listError", "syncTimeout", "unknownStatus",
            "objectsTimedOut", "incorrectNumber", "failedObjects", "ok"}

Calls == [pc : {"idle", "gate", "handling", "evaluate", "stopping", "draining"},
          keys : SUBSET Keys, maxVersion : 0..MaxVersion, result : Results]

TypeOK ==
    /\ objs \in [Keys -> MaybeObject]
    /\ version \in 0..MaxVersion
    /\ pods \in [Versions -> Specs \cup {None}]
    /\ informer \in {"off", "listing", "watching"}
    /\ store \in [Keys -> MaybeObject]
    /\ watch \in Seq(Events)
    /\ queue \in Seq(Events)
    /\ queueOpen \in BOOLEAN
    /\ isRunning \in BOOLEAN
    /\ objectKeys \in SUBSET Keys
    /\ opResourceVersion \in 0..MaxVersion
    /\ checkerMap \in [Keys -> Checkers \cup {None}]
    /\ stopped \in Nat
    /\ call \in Calls
    /\ starts \in 0..MaxStarts
    /\ quiet \in BOOLEAN

Existing(f) == {k \in Keys : f[k] # None}

Init ==
    /\ objs = [k \in Keys |-> None]
    /\ version = 0
    /\ pods = [u \in Versions |-> None]
    /\ informer = "off"
    /\ store = [k \in Keys |-> None]
    /\ watch = <<>>
    /\ queue = <<>>
    /\ queueOpen = TRUE
    /\ isRunning = FALSE
    /\ objectKeys = {}
    /\ opResourceVersion = 0
    /\ checkerMap = [k \in Keys |-> None]
    /\ stopped = 0
    /\ call = [pc |-> "idle", keys |-> {}, maxVersion |-> 0, result |-> "none"]
    /\ starts = 0
    /\ quiet = TRUE

-----------------------------------------------------------------------------
(***************************************************************************)
(* The API server and the cluster's controllers (external).                *)
(***************************************************************************)

\* A write: the object of k becomes new; a watch that is open gets the event.
Write(k, old, new) ==
    /\ version' = version + 1
    /\ objs' = [objs EXCEPT ![k] = new]
    /\ watch' = IF informer = "watching" /\ k \in Selected
                THEN Append(watch, [key |-> k, old |-> old, new |-> new])
                ELSE watch
    /\ UNCHANGED <<pods, informer, store, queue, queueOpen, measurementVars, call, starts>>

CreateObject(k, spec) ==
    /\ version < MaxVersion
    /\ objs[k] = None
    /\ Write(k, None, [uid |-> version + 1, spec |-> spec, rv |-> version + 1])
    /\ quiet' = FALSE

UpdateSpec(k, spec) ==
    /\ version < MaxVersion
    /\ objs[k] # None
    /\ spec # objs[k].spec
    /\ Write(k, objs[k], [uid |-> objs[k].uid, spec |-> spec, rv |-> version + 1])
    /\ quiet' = FALSE

UpdateStatus(k) ==
    /\ version < MaxVersion
    /\ objs[k] # None
    /\ Write(k, objs[k], [objs[k] EXCEPT !.rv = version + 1])
    /\ UNCHANGED quiet

\* The object of a watch's delete event carries the version of the deletion.
DeleteObject(k) ==
    /\ version < MaxVersion
    /\ objs[k] # None
    /\ Write(k, [objs[k] EXCEPT !.rv = version + 1], None)
    /\ quiet' = FALSE

\* The controllers bring the pods of uid u to the spec of its object, and the
\* garbage collector removes the pods of a uid that is gone.
PodsConverge(u) ==
    /\ \/ \E k \in Existing(objs) :
            /\ objs[k].uid = u
            /\ pods[u] # objs[k].spec
            /\ pods' = [pods EXCEPT ![u] = objs[k].spec]
       \/ /\ pods[u] # None
          /\ \A k \in Existing(objs) : objs[k].uid # u
          /\ pods' = [pods EXCEPT ![u] = None]
    /\ UNCHANGED <<objs, version, informerVars, queue, queueOpen, measurementVars,
                   call, starts, quiet>>

ApiNext ==
    \/ \E k \in Keys :
        \/ \E spec \in Specs : CreateObject(k, spec) \/ UpdateSpec(k, spec)
        \/ UpdateStatus(k)
        \/ DeleteObject(k)
    \/ \E u \in Versions : PodsConverge(u)

-----------------------------------------------------------------------------
(***************************************************************************)
(* The informer (external) and its event handler, which adds a call of     *)
(* handleObject to the queue.                                              *)
(***************************************************************************)

\* queue.Add: a queue that was shut down drops what is added.
Enqueue(events) == queue' = IF queueOpen THEN queue \o events ELSE queue

\* Store after a list, and the handler calls that lead to it.
Listed == [k \in Keys |-> IF k \in Selected THEN objs[k] ELSE None]

Differences ==
    {[key |-> k, old |-> store[k], new |-> Listed[k]] :
        k \in {x \in Keys : store[x] # Listed[x]}}

Replace ==
    /\ store' = Listed
    /\ watch' = <<>>
    /\ \E events \in [1..Cardinality(Differences) -> Differences] :
          Range(events) = Differences /\ Enqueue(events)
    /\ UNCHANGED <<apiVars, queueOpen, measurementVars, call, starts, quiet>>

InformerList ==
    /\ informer = "listing"
    /\ informer' = "watching"
    /\ Replace

\* The watch broke and its version is gone at the server: list again.
InformerRelist ==
    /\ informer = "watching"
    /\ UNCHANGED informer
    /\ Replace

InformerWatch ==
    /\ informer = "watching"
    /\ watch # <<>>
    /\ store' = [store EXCEPT ![Head(watch).key] = Head(watch).new]
    /\ watch' = Tail(watch)
    /\ Enqueue(<<Head(watch)>>)
    /\ UNCHANGED <<apiVars, informer, queueOpen, measurementVars, call, starts, quiet>>

-----------------------------------------------------------------------------
(***************************************************************************)
(* The worker: handleObject, executed under w.lock.                        *)
(***************************************************************************)

\* Fault: every update counts as an update of the status.
FaultyIsEqual(old, new) == old # None /\ new # None

IsEqualRuntimeObjectsSpec(old, new) ==
    old # None /\ new # None /\ old.spec = new.spec

\* checker.Map: stopping the checker of k leaves its goroutine to end.
StillRuns(k) == checkerMap[k] # None /\ ~checkerMap[k].finished

NewChecker(e) ==
    LET obj == IF e.new = None THEN e.old ELSE e.new
    IN  [uid |-> obj.uid, spec |-> obj.spec, isDeleted |-> e.new = None,
         status |-> "unknown", cancelled |-> FALSE, finished |-> FALSE]

\* deleteObjectLocked(old) and handleObjectLocked(old, new).  The second
\* fails when waitForRuntimeObject cannot make a checker of the object.
ReplaceChecker(e) ==
    /\ stopped' = IF StillRuns(e.key) THEN stopped + 1 ELSE stopped
    /\ checkerMap' = [checkerMap EXCEPT ![e.key] = NewChecker(e)]

ReplaceCheckerError(e) ==
    /\ stopped' = IF e.old # None /\ StillRuns(e.key) THEN stopped + 1 ELSE stopped
    /\ checkerMap' = [checkerMap EXCEPT ![e.key] = IF e.old # None THEN None ELSE @]

MaxOf(a, b) == IF a >= b THEN a ELSE b

VersionOf(o) == IF o = None THEN 0 ELSE o.rv

\* Fault: the key of a deleted object stays in objectKeys.
FaultyUpdateCache(e) ==
    /\ objectKeys' = objectKeys \cup {e.key}
    /\ opResourceVersion' =
        MaxOf(opResourceVersion, MaxOf(VersionOf(e.old), VersionOf(e.new)))

updateCacheLocked(e) ==
    /\ objectKeys' = IF e.new # None THEN objectKeys \cup {e.key}
                                     ELSE objectKeys \ {e.key}
    /\ opResourceVersion' =
        MaxOf(opResourceVersion, MaxOf(VersionOf(e.old), VersionOf(e.new)))

\* Fault: checkers are made even after the measurement was stopped.
FaultyHandleObject(e) ==
    /\ updateCacheLocked(e)
    /\ IF IsEqualRuntimeObjectsSpec(e.old, e.new)
       THEN UNCHANGED <<checkerMap, stopped>>
       ELSE ReplaceChecker(e)

handleObject(e) ==
    /\ updateCacheLocked(e)
    /\ \/ /\ IsEqualRuntimeObjectsSpec(e.old, e.new) \/ ~isRunning
          /\ UNCHANGED <<checkerMap, stopped>>
       \/ /\ ~IsEqualRuntimeObjectsSpec(e.old, e.new)
          /\ isRunning
          /\ ReplaceChecker(e) \/ (CheckerErrors /\ ReplaceCheckerError(e))

worker ==
    /\ queue # <<>>
    /\ handleObject(Head(queue))
    /\ queue' = Tail(queue)
    /\ UNCHANGED <<apiVars, informerVars, queueOpen, isRunning, call, starts, quiet>>

-----------------------------------------------------------------------------
(***************************************************************************)
(* The goroutine of a checker: replicas.Start, WaitForPods, status.        *)
(***************************************************************************)

Finish(k, status) ==
    /\ StillRuns(k)
    /\ checkerMap' = [checkerMap EXCEPT ![k].status = status, ![k].finished = TRUE]
    /\ UNCHANGED <<apiVars, informerVars, queue, queueOpen, isRunning, objectKeys,
                   opResourceVersion, stopped, call, starts, quiet>>

\* WaitForPods returned nil: the pods of the object are as its spec says.
PodsAsDesired(c) == pods[c.uid] = (IF c.isDeleted THEN None ELSE c.spec)

CheckerSucceeds(k) ==
    /\ StillRuns(k)
    /\ PodsAsDesired(checkerMap[k])
    /\ Finish(k, IF checkerMap[k].isDeleted THEN "deleted" ELSE "running")

CheckerTimesOut(k) ==
    /\ OperationTimeout
    /\ StillRuns(k)
    /\ Finish(k, IF checkerMap[k].isDeleted THEN "deleteTimeout" ELSE "timeout")

\* WaitForPods returned another error: the context was cancelled by Stop, or
\* the pods could not be listed.
CheckerFails(k) == Finish(k, "failed")

\* replicas.Start failed: the goroutine returns before it sets a status.
\* (A checker of a deletion uses ConstReplicas, whose Start cannot fail.)
CheckerStartError(k) ==
    /\ StillRuns(k)
    /\ ~checkerMap[k].isDeleted
    /\ Finish(k, "unknown")

\* Fault: the end of a stopped checker is counted twice.
FaultyStoppedCheckerEnds ==
    /\ stopped > 0
    /\ stopped' = stopped - 2
    /\ UNCHANGED <<apiVars, informerVars, queue, queueOpen, isRunning, objectKeys,
                   opResourceVersion, checkerMap, call, starts, quiet>>

\* A goroutine whose checker was stopped and replaced ends.
StoppedCheckerEnds ==
    /\ stopped > 0
    /\ stopped' = stopped - 1
    /\ UNCHANGED <<apiVars, informerVars, queue, queueOpen, isRunning, objectKeys,
                   opResourceVersion, checkerMap, call, starts, quiet>>

CheckerNext ==
    \/ \E k \in Keys : \/ CheckerSucceeds(k)
                       \/ CheckerTimesOut(k)
                       \/ CheckerFails(k)
                       \/ CheckerStartError(k)
    \/ StoppedCheckerEnds

-----------------------------------------------------------------------------
(***************************************************************************)
(* Execute: "start", "gather" and "stop" (which Dispose is, too).  Calls   *)
(* of one measurement instance follow each other.                          *)
(***************************************************************************)

\* A second "start" of a running measurement does nothing.  Otherwise the
\* measurement counts as running even when the pods indexer fails.
start ==
    /\ call.pc = "idle"
    /\ ~isRunning
    /\ starts < MaxStarts
    /\ starts' = starts + 1
    /\ isRunning' = TRUE
    /\ store' = [k \in Keys |-> None]
    /\ watch' = <<>>
    /\ informer' \in {"off", "listing"}
    /\ UNCHANGED <<apiVars, queue, queueOpen, objectKeys, opResourceVersion,
                   checkerMap, stopped, call, quiet>>

\* The LIST of gather has the label and field selector, but no namespace.
getObjectKeysAndMaxVersion(keys, max) ==
    /\ keys = Existing(objs)
    /\ \A k \in keys : objs[k].rv <= max
    /\ IF keys = {} THEN max = 0 ELSE \E k \in keys : objs[k].rv = max

gatherList ==
    /\ call.pc = "idle"
    /\ \/ /\ ~isRunning
          /\ call' = [call EXCEPT !.result = "notStarted"]
       \/ /\ isRunning
          /\ call' = [call EXCEPT !.result = "listError"]
       \/ /\ isRunning
          /\ \E keys \in SUBSET Keys, max \in 0..MaxVersion :
                /\ getObjectKeysAndMaxVersion(keys, max)
                /\ call' = [pc |-> "gate", keys |-> keys, maxVersion |-> max,
                            result |-> "none"]
    /\ quiet' = TRUE
    /\ UNCHANGED <<apiVars, informerVars, queue, queueOpen, measurementVars, starts>>

Return(result) ==
    call' = [pc |-> "idle", keys |-> {}, maxVersion |-> 0, result |-> result]

\* Fault: the resource version is not waited for.
FaultyCheckersRegistered == call.keys = objectKeys

\* The condition polled under w.lock until syncTimeout.
checkersRegistered ==
    /\ opResourceVersion >= call.maxVersion
    /\ call.keys = objectKeys

\* Fault: the poll has no timeout.
FaultyGatherGate ==
    /\ call.pc = "gate"
    /\ checkersRegistered
    /\ call' = [call EXCEPT !.pc = "handling"]
    /\ UNCHANGED <<apiVars, informerVars, queue, queueOpen, measurementVars, starts, quiet>>

gatherGate ==
    /\ call.pc = "gate"
    /\ \/ checkersRegistered /\ call' = [call EXCEPT !.pc = "handling"]
       \/ Return("syncTimeout")
    /\ UNCHANGED <<apiVars, informerVars, queue, queueOpen, measurementVars, starts, quiet>>

\* handlingGroup.Wait: no goroutine of a checker runs.
gatherWait ==
    /\ call.pc = "handling"
    /\ stopped = 0
    /\ \A k \in Keys : ~StillRuns(k)
    /\ call' = [call EXCEPT !.pc = "evaluate"]
    /\ UNCHANGED <<apiVars, informerVars, queue, queueOpen, measurementVars, starts, quiet>>

WithStatus(statuses) ==
    {k \in Keys : checkerMap[k] # None /\ checkerMap[k].status \in statuses}

verdict ==
    IF WithStatus({"unknown"}) # {} THEN "unknownStatus"
    ELSE IF WithStatus({"timeout", "deleteTimeout"}) # {} THEN "objectsTimedOut"
    ELSE IF Cardinality(call.keys) # Cardinality(WithStatus({"running"}))
         THEN "incorrectNumber"
    ELSE IF WithStatus({"failed"}) # {} THEN "failedObjects"
    ELSE "ok"

\* For an object whose deletion timed out, the pods that match the selector
\* are deleted by force (nobody checks whether that succeeds).  The order of
\* the map is random, so an unknown status may or may not be met first.
gatherEvaluate ==
    /\ call.pc = "evaluate"
    /\ Return(verdict)
    /\ \/ UNCHANGED pods
       \/ /\ WithStatus({"deleteTimeout"}) # {}
          /\ \E gone \in SUBSET Versions :
                pods' = [u \in Versions |-> IF u \in gone THEN None ELSE pods[u]]
    /\ UNCHANGED <<objs, version, informerVars, queue, queueOpen, measurementVars,
                   starts, quiet>>

\* Dispose: isRunning is cleared, then the informer and the queue are stopped;
\* the worker drains what the queue still holds.
DisposeBegin ==
    /\ call.pc = "idle"
    /\ isRunning
    /\ isRunning' = FALSE
    /\ call' = [call EXCEPT !.pc = "stopping"]
    /\ UNCHANGED <<apiVars, informerVars, queue, queueOpen, objectKeys,
                   opResourceVersion, checkerMap, stopped, starts, quiet>>

DisposeQueue ==
    /\ call.pc = "stopping"
    /\ informer' = "off"
    /\ watch' = <<>>
    /\ queueOpen' = FALSE
    /\ call' = [call EXCEPT !.pc = "draining"]
    /\ UNCHANGED <<apiVars, store, queue, measurementVars, starts, quiet>>

\* checkerMap.Dispose stops the checkers; the map keeps its entries, because
\* the assignment to cm in Map.Dispose only changes the local variable.
DisposeEnd ==
    /\ call.pc = "draining"
    /\ queue = <<>>
    /\ checkerMap' = [k \in Keys |-> IF checkerMap[k] = None THEN None
                                     ELSE [checkerMap[k] EXCEPT !.cancelled = TRUE]]
    /\ call' = [call EXCEPT !.pc = "idle"]
    /\ UNCHANGED <<apiVars, informerVars, queue, queueOpen, isRunning, objectKeys,
                   opResourceVersion, stopped, starts, quiet>>

gather == gatherList \/ gatherGate \/ gatherWait \/ gatherEvaluate

Dispose == DisposeBegin \/ DisposeQueue \/ DisposeEnd

Execute == start \/ gather \/ Dispose

Next == ApiNext \/ InformerList \/ InformerWatch \/ worker \/ CheckerNext \/ Execute

Spec == Init /\ [][Next]_vars

\* The same with an informer whose watch may break.
RelistSpec == Init /\ [][Next \/ InformerRelist]_vars

\* Every part that runs in a goroutine of its own keeps running, polls end at
\* their timeout, and a checker ends at the latest at operationTimeout.
Fairness ==
    /\ WF_vars(InformerList) /\ WF_vars(InformerWatch)
    /\ WF_vars(worker)
    /\ \A k \in Keys : WF_vars(CheckerTimesOut(k))
    /\ WF_vars(StoppedCheckerEnds)
    /\ WF_vars(gatherGate) /\ WF_vars(gatherWait) /\ WF_vars(gatherEvaluate)
    /\ WF_vars(DisposeQueue) /\ WF_vars(DisposeEnd)

FairSpec == Spec /\ Fairness

FairRelistSpec == RelistSpec /\ Fairness

-----------------------------------------------------------------------------
(***************************************************************************)
(* Properties.                                                             *)
(***************************************************************************)

EventVersion(e) == MaxOf(VersionOf(e.old), VersionOf(e.new))

\* Handler calls on their way from the API server to handleObject.
Pipeline == queue \o watch

\* gather (wait_for_controlled_pods.go:297-317): once the polled condition has
\* held, no event of an object of the LIST that is as old as the LIST is still
\* on its way to handleObject.  Neither half of the condition is enough.
ListedKeysProcessed ==
    call.pc \in {"handling", "evaluate"} =>
        \A i \in 1..Len(Pipeline) :
            Pipeline[i].key \in call.keys => EventVersion(Pipeline[i]) > call.maxVersion

\* gather returns no error only when the running objects are exactly those of
\* its LIST, and the pods that each checker saw running are the ones of the
\* object as it is now: same uid, same spec.  (The code's NOTE excludes objects
\* created, deleted or changed after the LIST: quiet.)
GatherSound ==
    call.pc = "evaluate" /\ quiet /\ verdict = "ok" =>
        /\ WithStatus({"running"}) = call.keys
        /\ \A k \in call.keys : /\ checkerMap[k].uid = objs[k].uid
                                /\ checkerMap[k].spec = objs[k].spec

LiveCheckers == stopped + Cardinality({k \in Keys : StillRuns(k)})


\* Every "gather" and every "stop" returns when operationTimeout is set: neither
\* the poll, nor handlingGroup.Wait, nor the draining of the queue hangs.
ExecuteReturns == call.pc # "idle" ~> call.pc = "idle"

\* "start" starts the observation of the controlling objects: from its list on,
\* and again after every change, the keys that updateCacheLocked keeps catch up
\* with those that exist, unless the measurement is stopped.
StartObserves ==
    informer # "off" ~> ~isRunning \/ objectKeys = Existing(Listed)

\* The checkers catch up, too: whatever happens (a broken watch, a checker that
\* could not be made), a measurement that is left running is not left with a
\* checker that waits for the pods of an outdated spec, or for pods of an
\* object that is gone.
CheckersCatchUp ==
    <>[](informer = "watching" /\ isRunning =>
            \A k \in {x \in Selected : checkerMap[x] # None} :
                IF checkerMap[k].isDeleted
                THEN objs[k] = None \/ CheckerErrors
                ELSE objs[k] # None /\ checkerMap[k].spec = objs[k].spec)

==============================================================================
