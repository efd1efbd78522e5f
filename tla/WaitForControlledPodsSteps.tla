--------------------- MODULE WaitForControlledPodsSteps ----------------------
(***************************************************************************)
(* The steps of the worker, of the checkers and of the calls of the        *)
(* measurement keep the invariant.                                         *)
(***************************************************************************)
EXTENDS WaitForControlledPodsWrites

USE ConstantsAssumption DEF ConstantsAssumption

\* handleObject preserves the invariant, when a checker can always be made.
LEMMA WorkerInv ==
    ASSUME IInv, worker, CheckerErrors = FALSE
    PROVE  IInv'
<1> DEFINE e == Head(queue)
           n == Len(Pipeline)
<1>1. /\ TypeOK /\ queue # <<>> /\ queue \in Seq(Events) /\ watch \in Seq(Events)
      /\ e \in Events /\ Tail(queue) \in Seq(Events)
  BY DEF IInv, TypeOK, worker
<1>2. /\ UNCHANGED <<objs, version, pods, informer, store, watch, queueOpen, isRunning,
                     call, starts, quiet>>
      /\ queue' = Tail(queue)
      /\ handleObject(e)
  BY DEF worker, apiVars, informerVars
<1> HIDE DEF e
<1>3. /\ n \in Nat /\ n > 0
      /\ Pipeline[1] = e
      /\ Len(Pipeline') = n - 1
      /\ \A i \in 1..(n - 1) : Pipeline'[i] = Pipeline[i + 1]
  <2>1. Pipeline' = Tail(Pipeline) /\ Pipeline # <<>> /\ Head(Pipeline) = e
    BY <1>1, <1>2, TakeFirst, SMTT(30) DEF Pipeline, e
  <2>2. Pipeline \in Seq(Events)
    BY <1>1, PipelineType
  <2> QED BY <2>1, <2>2, TailElements
<1>4. \A i \in 1..n : /\ Pipeline[i] \in Events
                      /\ Pipeline[i].key \in Keys
                      /\ EventVersion(Pipeline[i]) \in 0..MaxVersion
  BY <1>1, PipelineType
<1> HIDE DEF n
<1>5. /\ e.key \in Keys /\ EventVersion(e) \in 0..MaxVersion
      /\ e.old \in MaybeObject /\ e.new \in MaybeObject
  BY <1>1, EventVersionType DEF Events
<1>6. /\ opResourceVersion \in Nat /\ opResourceVersion' \in 0..MaxVersion
      /\ opResourceVersion' = opResourceVersion \/ opResourceVersion' = EventVersion(e)
      /\ opResourceVersion' >= opResourceVersion
      /\ opResourceVersion' >= EventVersion(e)
  <2>1. opResourceVersion' = MaxOf(opResourceVersion, EventVersion(e))
    BY <1>2 DEF handleObject, updateCacheLocked, EventVersion
  <2>2. opResourceVersion \in 0..MaxVersion
    BY <1>1 DEF TypeOK
  <2> QED BY <2>1, <2>2, <1>5 DEF MaxOf
<1>7. /\ e.new # None => objectKeys' = objectKeys \cup {e.key}
      /\ e.new = None => objectKeys' = objectKeys \ {e.key}
  BY <1>2 DEF handleObject, updateCacheLocked
<1>8. \/ UNCHANGED <<checkerMap, stopped>>
      \/ isRunning /\ ~IsEqualRuntimeObjectsSpec(e.old, e.new) /\ ReplaceChecker(e)
  BY <1>2 DEF handleObject
<1>9. ASSUME isRunning
      PROVE  /\ EventInv /\ OrderInv /\ LastChangeInv /\ CheckerInv /\ GatherInv
             /\ queueOpen
             /\ e.key \in Selected /\ (e.old # None \/ e.new # None)
             /\ EventVersion(e) <= version
             /\ e.old # None /\ e.new # None => e.old.uid = e.new.uid
  <2>1. EventInv /\ OrderInv /\ LastChangeInv /\ CheckerInv /\ GatherInv /\ queueOpen
    BY <1>9 DEF IInv, PhaseInv
  <2>2. 1 \in 1..n
    BY <1>3
  <2> QED BY <2>1, <2>2, <1>3 DEF EventInv, n
<1>10. ASSUME isRunning
       PROVE  NewChecker(e) \in Checkers
  <2>1. (IF e.new = None THEN e.old ELSE e.new) \in Objects
    BY <1>5, <1>9, <1>10 DEF MaybeObject
  <2>2. (e.new = None) \in BOOLEAN
    OBVIOUS
  <2> QED BY <2>1, <2>2 DEF NewChecker, Checkers, Objects, Statuses
<1>11. TypeOK'
  <2>1. checkerMap' \in [Keys -> Checkers \cup {None}]
    <3>1. CASE UNCHANGED checkerMap
      BY <3>1, <1>1 DEF TypeOK
    <3>2. CASE isRunning /\ ReplaceChecker(e)
      BY <3>2, <1>1, <1>5, <1>10 DEF TypeOK, ReplaceChecker
    <3> QED BY <3>1, <3>2, <1>8
  <2>2. stopped' \in Nat
    BY <1>1, <1>8 DEF TypeOK, ReplaceChecker
  <2>3. queue' \in Seq(Events)
    BY <1>1, <1>2
  <2>4. objectKeys' \in SUBSET Keys
    BY <1>1, <1>5, <1>7 DEF TypeOK
  <2> QED BY <2>1, <2>2, <2>3, <2>4, <1>1, <1>2, <1>6 DEF TypeOK
<1>12. PhaseInv'
  <2>1. starts # 0
    BY <1>1 DEF IInv, PhaseInv, Untouched
  <2>2. isRunning => informer = "watching"
    BY <1>1 DEF IInv, PhaseInv, Untouched
  <2> QED BY <2>1, <2>2, <1>2 DEF IInv, PhaseInv, Gathering
<1>13. VersionInv'
  BY <1>2, <1>6, <1>9 DEF IInv, VersionInv
<1>14. StatusInv'
  <2>1. CASE UNCHANGED checkerMap
    BY <2>1 DEF IInv, StatusInv
  <2>2. CASE ReplaceChecker(e)
    <3>1. NewChecker(e).status = "unknown"
      BY DEF NewChecker
    <3> QED BY <3>1, <2>2, <1>1, <1>5, SMTT(20) DEF IInv, StatusInv, ReplaceChecker, TypeOK
  <2> QED BY <2>1, <2>2, <1>8
<1> SUFFICES ASSUME isRunning
             PROVE  (EventInv /\ OrderInv /\ LastChangeInv /\ CheckerInv /\ GatherInv)'
  BY <1>2, <1>11, <1>12, <1>13, <1>14 DEF IInv
<1>15. EventInv'
  BY <1>2, <1>3, <1>9 DEF EventInv, n
<1>16. ASSUME NEW i \in 1..(n - 1), Exempt(Pipeline, objectKeys, i + 1)
       PROVE  Exempt(Pipeline', objectKeys', i)
  <2>1. \A j \in 1..i : Pipeline[j].key # Pipeline[i + 1].key
    BY <1>16 DEF Exempt
  <2>2. Pipeline[i + 1].key # e.key
    BY <2>1, <1>3, <1>16
  <2>3. \A j \in 1..(i - 1) : Pipeline'[j].key # Pipeline'[i].key
    BY <2>1, <1>3, <1>16
  <2> QED BY <2>2, <2>3, <1>3, <1>7, <1>16 DEF Exempt
<1>17. OrderInv'
  <2> SUFFICES ASSUME NEW i \in 1..(n - 1), ~Exempt(Pipeline', objectKeys', i)
               PROVE  /\ EventVersion(Pipeline'[i]) > opResourceVersion'
                      /\ \A j \in 1..(i - 1) :
                            EventVersion(Pipeline'[j]) < EventVersion(Pipeline'[i])
    BY <1>3 DEF OrderInv
  <2>1. i + 1 \in 1..n
    BY <1>3
  <2>2. /\ EventVersion(Pipeline[i + 1]) > opResourceVersion
        /\ \A j \in 1..i : EventVersion(Pipeline[j]) < EventVersion(Pipeline[i + 1])
    BY <2>1, <1>9, <1>16 DEF OrderInv, n
  <2>3. EventVersion(Pipeline[i + 1]) > EventVersion(e)
    BY <2>1, <2>2, <1>3, <1>4, <1>5, SMTT(30)
  <2>4. Pipeline'[i] = Pipeline[i + 1]
    BY <1>3
  <2>5. EventVersion(Pipeline'[i]) > opResourceVersion'
    BY <2>1, <2>2, <2>3, <2>4, <1>4, <1>5, <1>6
  <2>6. ASSUME NEW j \in 1..(i - 1)
        PROVE  EventVersion(Pipeline'[j]) < EventVersion(Pipeline'[i])
    <3>1. j + 1 \in 1..i /\ Pipeline'[j] = Pipeline[j + 1]
      BY <1>3, SMTT(30)
    <3> QED BY <3>1, <2>2, <2>4
  <2> QED BY <2>5, <2>6
<1>18. \A i \in 1..n : \A x \in Keys :
           OnlyStatusFrom(Pipeline', i, x) => OnlyStatusFrom(Pipeline, i + 1, x)
  <2> SUFFICES ASSUME NEW i \in 1..n, NEW x \in Keys, OnlyStatusFrom(Pipeline', i, x),
                      NEW j \in 1..n, j >= i + 1, Pipeline[j].key = x
               PROVE  StatusOnly(Pipeline[j])
    BY DEF OnlyStatusFrom, n
  <2>1. j - 1 \in 1..(n - 1) /\ j - 1 >= i /\ Pipeline'[j - 1] = Pipeline[j]
    BY <1>3
  <2> QED BY <2>1, <1>3 DEF OnlyStatusFrom
<1>19. LastChangeInv'
  <2> SUFFICES ASSUME NEW i \in 1..(n - 1), objs[Pipeline'[i].key] # None,
                      OnlyStatusFrom(Pipeline', i + 1, Pipeline'[i].key)
               PROVE  /\ Pipeline'[i].new # None
                      /\ Pipeline'[i].new.uid = objs[Pipeline'[i].key].uid
                      /\ Pipeline'[i].new.spec = objs[Pipeline'[i].key].spec
    BY <1>2, <1>3 DEF LastChangeInv
  <2>1. i + 1 \in 1..n /\ Pipeline'[i] = Pipeline[i + 1] /\ Pipeline[i + 1].key \in Keys
    BY <1>3, <1>4
  <2>2. OnlyStatusFrom(Pipeline, (i + 1) + 1, Pipeline[i + 1].key)
    BY <2>1, <1>18
  <2> QED BY <2>1, <2>2, <1>9 DEF LastChangeInv, n
<1>20. CheckerInv'
  <2>1. objectKeys' \subseteq Selected
    BY <1>7, <1>9 DEF CheckerInv
  <2> SUFFICES ASSUME NEW x \in Selected, informer = "watching", objs[x] # None,
                      OnlyStatusFrom(Pipeline', 1, x)
               PROVE  CheckerCurrent(x)'
    BY <2>1, <1>2 DEF CheckerInv
  <2>2. 1 \in 1..n /\ OnlyStatusFrom(Pipeline, 1 + 1, x)
    BY <1>3, <1>18
  <2>3. CASE x # e.key
    <3>1. OnlyStatusFrom(Pipeline, 1, x)
      <4> SUFFICES ASSUME NEW j \in 1..n, Pipeline[j].key = x
                   PROVE  StatusOnly(Pipeline[j])
        BY DEF OnlyStatusFrom, n
      <4>1. j >= 1 + 1
        BY <2>3, <1>3
      <4> QED BY <4>1, <2>2 DEF OnlyStatusFrom, n
    <3>2. CheckerCurrent(x)
      BY <3>1, <1>9 DEF CheckerInv
    <3>3. checkerMap'[x] = checkerMap[x]
      BY <2>3, <1>1, <1>5, <1>8 DEF ReplaceChecker, TypeOK
    <3> QED BY <3>2, <3>3, <2>3, <1>2, <1>7 DEF CheckerCurrent
  <2>4. CASE x = e.key
    <3>1. e.new # None /\ e.new.uid = objs[x].uid /\ e.new.spec = objs[x].spec
      BY <2>2, <2>4, <1>3, <1>9 DEF LastChangeInv, n
    <3>2. x \in objectKeys'
      BY <3>1, <2>4, <1>7
    <3>3. CASE StatusOnly(e)
      <4>1. OnlyStatusFrom(Pipeline, 1, x)
        <5> SUFFICES ASSUME NEW j \in 1..n, Pipeline[j].key = x
                     PROVE  StatusOnly(Pipeline[j])
          BY DEF OnlyStatusFrom, n
        <5>1. CASE j = 1
          BY <5>1, <3>3, <1>3
        <5>2. CASE j >= 1 + 1
          BY <5>2, <2>2 DEF OnlyStatusFrom, n
        <5> QED BY <5>1, <5>2
      <4>2. CheckerCurrent(x)
        BY <4>1, <1>9 DEF CheckerInv
      <4>3. checkerMap' = checkerMap
        BY <3>3, <1>8 DEF StatusOnly, IsEqualRuntimeObjectsSpec
      <4> QED BY <4>2, <4>3, <3>2, <1>2, Zenon DEF CheckerCurrent
    <3>4. CASE ~StatusOnly(e)
      <4>1. ~IsEqualRuntimeObjectsSpec(e.old, e.new)
        BY <3>4, <1>9 DEF StatusOnly, IsEqualRuntimeObjectsSpec
      <4>2. ReplaceChecker(e)
        BY <4>1, <1>2 DEF handleObject
      <4>3. checkerMap'[x] = NewChecker(e)
        BY <4>2, <2>4, <1>1, <1>5 DEF ReplaceChecker, TypeOK
      <4>4. NewChecker(e) # None
        BY <1>10
      <4>5. /\ NewChecker(e).isDeleted = FALSE
            /\ NewChecker(e).uid = e.new.uid
            /\ NewChecker(e).spec = e.new.spec
        BY <3>1 DEF NewChecker
      <4> QED BY <4>3, <4>4, <4>5, <3>1, <3>2, <1>2 DEF CheckerCurrent
    <3> QED BY <3>3, <3>4, SMTT(30)
  <2> QED BY <2>3, <2>4
<1>21. GatherInv'
  <2>1. \A i \in 1..(n - 1) : i + 1 \in 1..n
    BY <1>3
  <2>2. (Gathering /\ quiet => \A k \in call.keys : objs[k] # None)'
    BY <1>2, <1>9, Zenon DEF GatherInv, Gathering
  <2>3. ASSUME call.pc = "gate", quiet, NEW i \in 1..(n - 1),
               Pipeline'[i].key \in call.keys
        PROVE  \/ Exempt(Pipeline', objectKeys', i)
               \/ EventVersion(Pipeline'[i]) <= call.maxVersion
               \/ StatusOnly(Pipeline'[i])
    BY <2>1, <2>3, <1>3, <1>9, <1>16, Zenon DEF GatherInv, n
  <2>4. ASSUME PastGate
        PROVE  /\ call.keys \subseteq Selected
               /\ informer # "watching" => call.keys = {}
               /\ \A i \in 1..(n - 1) : Pipeline'[i].key \in call.keys =>
                     /\ EventVersion(Pipeline'[i]) > call.maxVersion
                     /\ quiet => StatusOnly(Pipeline'[i])
    BY <2>1, <2>4, <1>3, <1>9, SMTT(30) DEF GatherInv, n
  <2> QED BY <2>2, <2>3, <2>4, <1>2, <1>3 DEF GatherInv, PastGate
<1> QED BY <1>15, <1>17, <1>19, <1>20, <1>21

\* The end of a checker's goroutine preserves the invariant.
LEMMA FinishInv ==
    ASSUME IInv, NEW k \in Keys, NEW status \in Statuses, Finish(k, status),
           status = "deleted" => checkerMap[k].isDeleted
    PROVE  IInv'
<1>1. TypeOK /\ checkerMap[k] \in Checkers /\ checkerMap \in [Keys -> Checkers \cup {None}]
  BY DEF IInv, TypeOK, Finish, StillRuns
<1>2. UNCHANGED <<objs, version, pods, informer, store, watch, queue, queueOpen, isRunning,
                  objectKeys, opResourceVersion, stopped, call, starts, quiet>>
  BY DEF Finish, apiVars, informerVars
<1>3. /\ checkerMap' \in [Keys -> Checkers \cup {None}]
      /\ \A x \in Keys : x # k => checkerMap'[x] = checkerMap[x]
      /\ checkerMap'[k] \in Checkers
      /\ checkerMap'[k].uid = checkerMap[k].uid
      /\ checkerMap'[k].spec = checkerMap[k].spec
      /\ checkerMap'[k].isDeleted = checkerMap[k].isDeleted
      /\ checkerMap'[k].status = status
  <2> DEFINE c == [[checkerMap[k] EXCEPT !.status = status] EXCEPT !.finished = TRUE]
  <2>1. checkerMap' = [checkerMap EXCEPT ![k] = c]
    BY <1>1, Zenon DEF Finish
  <2>2. /\ c \in Checkers /\ c.uid = checkerMap[k].uid /\ c.spec = checkerMap[k].spec
        /\ c.isDeleted = checkerMap[k].isDeleted /\ c.status = status
    BY <1>1, ZenonT(40) DEF Checkers
  <2> HIDE DEF c
  <2> QED BY <2>1, <2>2, <1>1
<1>4. TypeOK'
  BY <1>1, <1>2, <1>3, SMTT(30) DEF TypeOK
<1>5. PhaseInv' /\ VersionInv'
  BY <1>2 DEF IInv, PhaseInv, VersionInv, Untouched, Gathering
<1>6. StatusInv'
  BY <1>3 DEF IInv, StatusInv
<1>7. ASSUME isRunning
      PROVE  (EventInv /\ OrderInv /\ LastChangeInv /\ CheckerInv /\ GatherInv)'
  <2>1. Pipeline' = Pipeline
    BY <1>2 DEF Pipeline
  <2>2. \A x \in Keys : checkerMap[x] # None =>
            /\ checkerMap'[x] # None
            /\ checkerMap'[x].uid = checkerMap[x].uid
            /\ checkerMap'[x].spec = checkerMap[x].spec
            /\ checkerMap'[x].isDeleted = checkerMap[x].isDeleted
    BY <1>3
  <2> QED BY <2>1, <2>2, <1>2, <1>7, FrameInv, Zenon
<1> QED BY <1>2, <1>4, <1>5, <1>6, <1>7 DEF IInv

\* The checkers preserve the invariant.
LEMMA CheckerNextInv ==
    ASSUME IInv, CheckerNext
    PROVE  IInv'
<1>1. ASSUME NEW k \in Keys, CheckerSucceeds(k)
      PROVE  IInv'
  <2>1. CASE checkerMap[k].isDeleted
    BY <2>1, <1>1, FinishInv DEF CheckerSucceeds, Statuses
  <2>2. CASE ~checkerMap[k].isDeleted
    BY <2>2, <1>1, FinishInv DEF CheckerSucceeds, Statuses
  <2> QED BY <2>1, <2>2
<1>2. ASSUME NEW k \in Keys, CheckerTimesOut(k)
      PROVE  IInv'
  <2>1. CASE checkerMap[k].isDeleted
    BY <2>1, <1>2, FinishInv DEF CheckerTimesOut, Statuses
  <2>2. CASE ~checkerMap[k].isDeleted
    BY <2>2, <1>2, FinishInv DEF CheckerTimesOut, Statuses
  <2> QED BY <2>1, <2>2
<1>3. ASSUME NEW k \in Keys, CheckerFails(k)
      PROVE  IInv'
  BY <1>3, FinishInv DEF CheckerFails, Statuses
<1>4. ASSUME NEW k \in Keys, CheckerStartError(k)
      PROVE  IInv'
  BY <1>4, FinishInv DEF CheckerStartError, Statuses
<1>5. ASSUME StoppedCheckerEnds
      PROVE  IInv'
  <2>1. UNCHANGED <<objs, version, pods, informer, store, watch, queue, queueOpen,
                    isRunning, objectKeys, opResourceVersion, checkerMap, call, starts, quiet>>
    BY <1>5 DEF StoppedCheckerEnds, apiVars, informerVars
  <2>2. TypeOK'
    BY <2>1, <1>5 DEF IInv, TypeOK, StoppedCheckerEnds
  <2> QED BY <2>1, <2>2, UnchangedInv
<1> QED BY <1>1, <1>2, <1>3, <1>4, <1>5 DEF CheckerNext

\* "start" preserves the invariant: there is only one.
LEMMA StartInv ==
    ASSUME IInv, start, MaxStarts <= 1
    PROVE  IInv'
<1>1. starts = 0 /\ starts' = 1
  BY DEF start, IInv, TypeOK
<1>2. /\ Untouched /\ queueOpen /\ informer = "off" /\ ~isRunning
      /\ call.pc = "idle" /\ isRunning'
      /\ UNCHANGED <<objs, version, pods, queue, queueOpen, objectKeys,
                     opResourceVersion, checkerMap, stopped, call, quiet>>
      /\ store' = [k \in Keys |-> None] /\ watch' = <<>>
      /\ informer' \in {"off", "listing"}
  BY <1>1 DEF start, IInv, PhaseInv, apiVars
<1>3. TypeOK'
  <2>1. store' \in [Keys -> MaybeObject] /\ watch' \in Seq(Events)
    BY <1>2 DEF MaybeObject
  <2>2. starts' \in 0..MaxStarts
    BY <1>1 DEF start
  <2>3. isRunning' \in BOOLEAN
    BY Zenon DEF start
  <2> QED BY <2>1, <2>2, <2>3, <1>2 DEF IInv, TypeOK
<1>4. PhaseInv' /\ VersionInv' /\ StatusInv'
  BY <1>1, <1>2 DEF IInv, TypeOK, PhaseInv, VersionInv, StatusInv, Untouched, Gathering
<1>5. 1..Len(Pipeline') = {}
  <2>1. Len(Pipeline') = 0
    BY <1>2 DEF Pipeline, Untouched
  <2> QED BY <2>1
<1>6. (EventInv /\ OrderInv /\ LastChangeInv)'
  BY <1>5, Zenon DEF EventInv, OrderInv, LastChangeInv
<1>7. CheckerInv'
  BY <1>2 DEF CheckerInv, Untouched
<1>8. GatherInv'
  <2>1. call'.pc = "idle"
    BY <1>2
  <2> QED BY <2>1, Zenon DEF GatherInv, Gathering, PastGate
<1> QED BY <1>3, <1>4, <1>6, <1>7, <1>8 DEF IInv

\* The steps of "gather" preserve the invariant.
LEMMA GatherStepInv ==
    ASSUME IInv, gather
    PROVE  IInv'
<1>1. TypeOK /\ call \in Calls /\ version \in Nat /\ opResourceVersion \in Nat
  BY DEF IInv, TypeOK
<1>2. /\ UNCHANGED <<objs, version, informer, store, watch, queue, queueOpen, isRunning,
                     objectKeys, opResourceVersion, checkerMap, stopped, starts>>
      /\ gatherEvaluate \/ UNCHANGED pods
      /\ gatherList \/ UNCHANGED quiet
  BY DEF gather, gatherList, gatherGate, gatherWait, gatherEvaluate, apiVars, informerVars,
         measurementVars
<1>3. Pipeline' = Pipeline
  BY <1>2 DEF Pipeline
<1>4. pods' \in [Versions -> Specs \cup {None}]
  <2>1. pods \in [Versions -> Specs \cup {None}]
    BY <1>1 DEF TypeOK
  <2> QED BY <2>1, <1>2 DEF gatherEvaluate
<1>5. quiet' \in BOOLEAN
  <2>1. quiet \in BOOLEAN
    BY <1>1 DEF TypeOK
  <2> QED BY <2>1, <1>2, Zenon DEF gatherList
\* It is enough to look at the call, and at GatherInv.
<1>6. ASSUME call' \in Calls, call'.maxVersion <= version,
             call'.pc \in {"gate", "handling", "evaluate"} => isRunning,
             call'.pc \notin {"stopping", "draining"},
             isRunning => GatherInv'
      PROVE  IInv'
  <2>1. TypeOK'
    BY <1>1, <1>2, <1>4, <1>5, <1>6 DEF TypeOK
  <2>2. PhaseInv' /\ VersionInv' /\ StatusInv'
    BY <1>2, <1>6, Zenon DEF IInv, PhaseInv, VersionInv, StatusInv, Untouched, Gathering
  <2>3. isRunning => (EventInv /\ OrderInv /\ LastChangeInv /\ CheckerInv)'
    BY <1>2, <1>3, FrameInv
  <2> QED BY <2>1, <2>2, <2>3, <1>2, <1>6 DEF IInv
<1>7. ASSUME NEW result \in Results, Return(result)
      PROVE  IInv'
  <2>1. call' \in Calls /\ call'.maxVersion = 0 /\ call'.pc = "idle"
    BY <1>7 DEF Return, Calls
  <2>2. GatherInv'
    BY <2>1 DEF GatherInv, Gathering, PastGate
  <2> QED BY <2>1, <2>2, <1>1, <1>6
<1>8. CASE gatherList
  <2>1. ASSUME NEW result \in Results, call.pc = "idle",
               call' = [call EXCEPT !.result = result]
        PROVE  IInv'
    <3>1. call' \in Calls /\ call'.maxVersion = call.maxVersion /\ call'.pc = "idle"
      BY <2>1, <1>1, SMTT(20) DEF Calls
    <3>2. GatherInv'
      BY <3>1 DEF GatherInv, Gathering, PastGate
    <3> QED BY <3>1, <3>2, <1>6 DEF IInv, VersionInv
  <2>2. ASSUME isRunning, NEW keys \in SUBSET Keys, NEW max \in 0..MaxVersion,
               getObjectKeysAndMaxVersion(keys, max),
               call' = [pc |-> "gate", keys |-> keys, maxVersion |-> max, result |-> "none"]
        PROVE  IInv'
    <3>1. /\ call' \in Calls /\ call'.pc = "gate" /\ call'.keys = keys
          /\ call'.maxVersion = max
      BY <2>2 DEF Calls, Results
    <3>2. keys \subseteq Keys /\ \A k \in keys : objs[k] # None /\ objs[k].rv <= max
      BY <2>2 DEF getObjectKeysAndMaxVersion, Existing
    <3>3. max <= version
      BY <3>2, <2>2, <1>1 DEF getObjectKeysAndMaxVersion, IInv, VersionInv
    <3>4. \A i \in 1..Len(Pipeline) :
              Pipeline[i].key \in keys => EventVersion(Pipeline[i]) <= max
      <4> SUFFICES ASSUME NEW i \in 1..Len(Pipeline), Pipeline[i].key \in keys
                   PROVE  EventVersion(Pipeline[i]) <= max
        OBVIOUS
      <4> DEFINE v == EventVersion(Pipeline[i])
                 k == Pipeline[i].key
      <4>1. v \in Nat
        BY <1>1, PipelineType
      <4>2. objs[k].rv \in Nat
        BY <3>2, <1>1 DEF TypeOK, MaybeObject, Objects, Versions
      <4>3. v <= objs[k].rv /\ objs[k].rv <= max
        BY <3>2, <2>2, Zenon DEF IInv, EventInv
      <4> QED BY <4>1, <4>2, <4>3
    <3>5. GatherInv'
      BY <3>1, <3>2, <3>4, <1>2, <1>3, Zenon DEF GatherInv, Gathering, PastGate
    <3> QED BY <3>1, <3>3, <3>5, <2>2, <1>6
  <2> QED BY <2>1, <2>2, <1>8 DEF gatherList, Results
<1>9. CASE gatherGate
  <2>1. CASE Return("syncTimeout")
    BY <2>1, <1>7 DEF Results
  <2>2. CASE checkersRegistered /\ call' = [call EXCEPT !.pc = "handling"]
    <3>1. /\ call' \in Calls /\ call'.pc = "handling" /\ call'.keys = call.keys
          /\ call'.maxVersion = call.maxVersion /\ call.maxVersion \in Nat
          /\ call.pc = "gate" /\ isRunning /\ quiet' = quiet
      BY <2>2, <1>1, <1>9 DEF Calls, gatherGate, IInv, PhaseInv, Gathering
    <3>2. call.keys = objectKeys /\ opResourceVersion >= call.maxVersion
      BY <2>2 DEF checkersRegistered
    <3>3. EventInv /\ OrderInv /\ CheckerInv /\ GatherInv
      BY <3>1 DEF IInv
    <3>4. \A i \in 1..Len(Pipeline) : Pipeline[i].key \in call.keys =>
              ~Exempt(Pipeline, objectKeys, i)
      BY <3>2, Zenon DEF Exempt
    <3>5. \A i \in 1..Len(Pipeline) : Pipeline[i].key \in call.keys =>
              EventVersion(Pipeline[i]) > call.maxVersion
      <4> SUFFICES ASSUME NEW i \in 1..Len(Pipeline), Pipeline[i].key \in call.keys
                   PROVE  EventVersion(Pipeline[i]) > call.maxVersion
        OBVIOUS
      <4>1. EventVersion(Pipeline[i]) \in Nat
        BY <1>1, PipelineType
      <4>2. EventVersion(Pipeline[i]) > opResourceVersion
        BY <3>3, <3>4 DEF OrderInv
      <4> QED BY <4>1, <4>2, <3>1, <3>2, <1>1
    <3>6. \A i \in 1..Len(Pipeline) : Pipeline[i].key \in call.keys =>
              (quiet => StatusOnly(Pipeline[i]))
      <4> SUFFICES ASSUME NEW i \in 1..Len(Pipeline), Pipeline[i].key \in call.keys, quiet
                   PROVE  StatusOnly(Pipeline[i])
        OBVIOUS
      <4>1. EventVersion(Pipeline[i]) \in Nat
        BY <1>1, PipelineType
      <4>2. ~(EventVersion(Pipeline[i]) <= call.maxVersion)
        BY <4>1, <3>1, <3>5
      <4> QED BY <4>2, <3>1, <3>3, <3>4, Zenon DEF GatherInv
    <3>7. call.keys \subseteq Selected /\ (informer # "watching" => call.keys = {})
      BY <3>1, <3>2, <3>3, Zenon DEF IInv, PhaseInv, Untouched, CheckerInv
    <3>8. GatherInv'
      BY <3>1, <3>3, <3>5, <3>6, <3>7, <1>2, <1>3, Zenon DEF GatherInv, Gathering, PastGate
    <3> QED BY <3>1, <3>8, <1>6 DEF IInv, VersionInv
  <2> QED BY <2>1, <2>2, <1>9 DEF gatherGate
<1>10. CASE gatherWait
  <2>1. /\ call' \in Calls /\ call'.pc = "evaluate" /\ call'.keys = call.keys
        /\ call'.maxVersion = call.maxVersion
        /\ call.pc = "handling" /\ isRunning /\ quiet' = quiet
    BY <1>1, <1>10 DEF Calls, gatherWait, IInv, PhaseInv, Gathering
  <2>2. GatherInv'
    BY <2>1, <1>2, <1>3, Zenon DEF IInv, GatherInv, Gathering, PastGate
  <2> QED BY <2>1, <2>2, <1>6, Zenon DEF IInv, VersionInv
<1>11. CASE gatherEvaluate
  BY <1>7, <1>11 DEF gatherEvaluate, verdict, Results
<1> QED BY <1>8, <1>9, <1>10, <1>11 DEF gather

\* The steps of "stop" and of Dispose preserve the invariant.
LEMMA DisposeInv ==
    ASSUME IInv, Dispose
    PROVE  IInv'
<1>1. TypeOK /\ call \in Calls
  BY DEF IInv, TypeOK
<1>2. isRunning' = FALSE /\ starts # 0
  <2>1. CASE DisposeBegin
    BY <2>1 DEF DisposeBegin, IInv, PhaseInv
  <2>2. CASE DisposeQueue
    BY <2>2 DEF DisposeQueue, IInv, PhaseInv, TypeOK, measurementVars
  <2>3. CASE DisposeEnd
    BY <2>3 DEF DisposeEnd, IInv, PhaseInv, TypeOK
  <2> QED BY <2>1, <2>2, <2>3, Zenon DEF Dispose
<1>3. UNCHANGED <<objs, version, pods, store, queue, objectKeys, opResourceVersion,
                  stopped, starts, quiet>>
  BY DEF Dispose, DisposeBegin, DisposeQueue, DisposeEnd, apiVars, informerVars,
         measurementVars
<1>4. /\ call' \in Calls /\ call'.maxVersion = call.maxVersion
      /\ call'.pc \in {"idle", "stopping", "draining"}
  BY <1>1 DEF Dispose, DisposeBegin, DisposeQueue, DisposeEnd, Calls
<1>5. checkerMap' \in [Keys -> Checkers \cup {None}] /\ StatusInv'
  <2>1. CASE UNCHANGED checkerMap
    BY <2>1 DEF IInv, TypeOK, StatusInv
  <2>2. CASE DisposeEnd
    <3>1. ASSUME NEW k \in Keys, checkerMap[k] # None
          PROVE  /\ checkerMap'[k] \in Checkers
                 /\ checkerMap'[k].status = checkerMap[k].status
                 /\ checkerMap'[k].isDeleted = checkerMap[k].isDeleted
      <4>1. checkerMap[k] \in Checkers
        BY <1>1, <3>1 DEF TypeOK
      <4>2. checkerMap'[k] = [checkerMap[k] EXCEPT !.cancelled = TRUE]
        BY <2>2, <3>1 DEF DisposeEnd
      <4> QED BY <4>1, <4>2, Zenon DEF Checkers
    <3>2. \A k \in Keys : checkerMap[k] = None => checkerMap'[k] = None
      BY <2>2 DEF DisposeEnd
    <3>3. checkerMap' = [k \in Keys |-> checkerMap'[k]]
      BY <2>2 DEF DisposeEnd
    <3> QED BY <3>1, <3>2, <3>3 DEF IInv, StatusInv
  <2> QED BY <2>1, <2>2 DEF Dispose, DisposeBegin, DisposeQueue, measurementVars
<1>6. informer' \in {"off", "listing", "watching"} /\ watch' \in Seq(Events)
  <2>1. \/ informer' = informer /\ watch' = watch
        \/ informer' = "off" /\ watch' = <<>>
    BY DEF Dispose, DisposeBegin, DisposeQueue, DisposeEnd, informerVars
  <2>2. informer \in {"off", "listing", "watching"} /\ watch \in Seq(Events)
    BY <1>1 DEF TypeOK
  <2>3. <<>> \in Seq(Events)
    OBVIOUS
  <2> QED BY <2>1, <2>2, <2>3, Zenon
<1>7. queueOpen' \in BOOLEAN /\ isRunning' \in BOOLEAN
  <2>1. queueOpen \in BOOLEAN
    BY <1>1 DEF TypeOK
  <2>2. queueOpen' = queueOpen \/ queueOpen' = FALSE
    BY DEF Dispose, DisposeBegin, DisposeQueue, DisposeEnd
  <2> QED BY <2>1, <2>2, <1>2, Zenon
<1>8. TypeOK'
  BY <1>1, <1>3, <1>4, <1>5, <1>6, <1>7 DEF TypeOK
<1>9. PhaseInv' /\ VersionInv'
  BY <1>2, <1>3, <1>4, Zenon DEF IInv, PhaseInv, VersionInv, Gathering
<1> QED BY <1>2, <1>5, <1>8, <1>9 DEF IInv

==============================================================================
