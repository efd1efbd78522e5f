--------------------- MODULE WaitForControlledPodsProofs ---------------------
(***************************************************************************)
(* The initial list, which makes one event for each object, and the        *)
(* theorems about WaitForControlledPods.                                   *)
(***************************************************************************)
EXTENDS WaitForControlledPodsSteps, FiniteSetTheorems

USE ConstantsAssumption DEF ConstantsAssumption

\* The handler calls of a list: one per difference, each once.
LEMMA ListEvents ==
    ASSUME TypeOK, NEW events \in [1..Cardinality(Differences) -> Differences],
           Range(events) = Differences
    PROVE  /\ events \in Seq(Events)
           /\ \A i \in 1..Len(events) : events[i] \in Differences /\ events[i] \in Events
           /\ \A d \in Differences : \E i \in 1..Len(events) : events[i] = d
           /\ \A i, j \in 1..Len(events) : i # j => events[i].key # events[j].key
<1> DEFINE D == {k \in Keys : store[k] # Listed[k]}
           f == [k \in D |-> [key |-> k, old |-> store[k], new |-> Listed[k]]]
           n == Cardinality(Differences)
<1>1. IsFiniteSet(D)
  BY FS_Subset
<1>2. f \in Surjection(D, Differences)
  BY DEF Surjection, Differences
<1>3. IsFiniteSet(Differences)
  BY <1>1, <1>2, FS_Surjection
<1>4. n \in Nat
  BY <1>3, FS_CardinalityType
<1>5. IsFiniteSet(1..n) /\ Cardinality(1..n) = n
  BY <1>4, FS_Interval
<1>6. Differences \subseteq Events
  <2>1. \A k \in Keys : store[k] \in MaybeObject /\ Listed[k] \in MaybeObject
    BY DEF Listed, TypeOK, MaybeObject
  <2>2. \A k \in Keys : [key |-> k, old |-> store[k], new |-> Listed[k]] \in Events
    BY <2>1 DEF Events
  <2> QED BY <2>2 DEF Differences
<1>7. \A d \in Differences : \E i \in 1..n : events[i] = d
  BY DEF Range
<1>8. events \in Surjection(1..n, Differences)
  BY <1>7 DEF Surjection
<1>9. events \in Injection(1..n, Differences)
  BY <1>5, <1>8, FS_SurjSameCardinalityImpliesInj
<1>10. \A i, j \in 1..n : i # j => events[i] # events[j]
  BY <1>9 DEF Injection, IsInjective
<1>11. \A c, d \in Differences : c.key = d.key => c = d
  BY DEF Differences
<1>12. events \in Seq(Events) /\ Len(events) = n
  BY <1>4, <1>6
<1> QED BY <1>6, <1>7, <1>10, <1>11, <1>12

\* The initial list preserves the invariant.
LEMMA InformerListInv ==
    ASSUME IInv, InformerList
    PROVE  IInv'
<1>1. TypeOK
  BY DEF IInv
<1>2. UNCHANGED <<objs, version, pods, queueOpen, isRunning, objectKeys,
                  opResourceVersion, checkerMap, stopped, call, starts, quiet>>
  BY DEF InformerList, Replace, apiVars, measurementVars
<1>3. PICK events \in [1..Cardinality(Differences) -> Differences] :
          Range(events) = Differences /\ Enqueue(events)
  BY DEF InformerList, Replace
<1>4. /\ events \in Seq(Events)
      /\ \A i \in 1..Len(events) : events[i] \in Differences /\ events[i] \in Events
      /\ \A d \in Differences : \E i \in 1..Len(events) : events[i] = d
      /\ \A i, j \in 1..Len(events) : i # j => events[i].key # events[j].key
  BY <1>1, <1>3, ListEvents, Zenon
<1>5. /\ store' = Listed /\ watch' = <<>> /\ informer' = "watching"
      /\ informer = "listing"
  BY DEF InformerList, Replace
<1>6. TypeOK'
  <2>1. queue' \in Seq(Events)
    BY <1>1, <1>3, <1>4, SMTT(30) DEF Enqueue, TypeOK
  <2>2. store' \in [Keys -> MaybeObject]
    BY <1>1, <1>5, SMTT(20) DEF Listed, TypeOK, MaybeObject
  <2> QED BY <2>1, <2>2, <1>1, <1>2, <1>5, SMTT(30) DEF TypeOK
<1>7. PhaseInv' /\ VersionInv' /\ StatusInv'
  BY <1>2, <1>5 DEF IInv, PhaseInv, VersionInv, StatusInv, Gathering
<1>8. ASSUME isRunning
      PROVE  (EventInv /\ OrderInv /\ LastChangeInv /\ CheckerInv /\ GatherInv)'
  <2>1. Untouched /\ queueOpen
    BY <1>5, <1>8 DEF IInv, PhaseInv
  <2>2. Pipeline' = events
    <3>1. queue' = <<>> \o events
      BY <2>1, <1>3, SMTT(20) DEF Enqueue, Untouched
    <3> QED BY <3>1, <1>4, <1>5, SMTT(30) DEF Pipeline
  <2>3. \A i \in 1..Len(events) :
            /\ events[i].key \in Selected
            /\ events[i].old = None
            /\ events[i].new = objs[events[i].key]
            /\ objs[events[i].key] # None
    <3>1. \A k \in Keys : store[k] = None
      BY <2>1 DEF Untouched
    <3>2. \A k \in Keys : Listed[k] # None => k \in Selected /\ Listed[k] = objs[k]
      BY DEF Listed
    <3> SUFFICES ASSUME NEW i \in 1..Len(events)
                 PROVE  /\ events[i].key \in Selected
                        /\ events[i].old = None
                        /\ events[i].new = objs[events[i].key]
                        /\ objs[events[i].key] # None
      OBVIOUS
    <3>3. PICK k \in Keys : /\ store[k] # Listed[k]
                            /\ events[i] = [key |-> k, old |-> store[k], new |-> Listed[k]]
      BY <1>4, SMTT(30) DEF Differences
    <3> QED BY <3>1, <3>2, <3>3
  <2>4. \A k \in Selected : objs[k] # None =>
            \E i \in 1..Len(events) : events[i].key = k
    <3> SUFFICES ASSUME NEW k \in Selected, objs[k] # None
                 PROVE  \E i \in 1..Len(events) : events[i].key = k
      OBVIOUS
    <3>1. [key |-> k, old |-> store[k], new |-> Listed[k]] \in Differences
      BY <2>1 DEF Differences, Listed, Untouched
    <3> QED BY <3>1, <1>4
  <2>5. \A i \in 1..Len(events) : ~StatusOnly(events[i])
    BY <2>3 DEF StatusOnly
  <2>6. \A i \in 1..Len(events) : EventVersion(events[i]) = objs[events[i].key].rv
    <3>1. \A k \in Keys : objs[k] # None => objs[k].rv \in Nat
      BY <1>1 DEF TypeOK, MaybeObject, Objects, Versions
    <3> QED BY <3>1, <2>3 DEF EventVersion, MaxOf, VersionOf
  <2>7. EventInv'
    <3>1. \A i \in 1..Len(events) : EventVersion(events[i]) \in Nat
      <4>1. \A i \in 1..Len(events) : events[i] \in Events
        BY <1>4
      <4>2. 0..MaxVersion \subseteq Nat
        OBVIOUS
      <4> QED BY <4>1, <4>2, EventVersionType, SMTT(30)
    <3>2. \A i \in 1..Len(events) : EventVersion(events[i]) <= version
      BY <2>3, <2>6, SMTT(30) DEF IInv, VersionInv
    <3> QED BY <3>1, <3>2, <2>2, <2>3, <2>6, <1>2, SMTT(30) DEF EventInv
  <2>8. \A i \in 1..Len(events) : Exempt(Pipeline', objectKeys', i)
    BY <2>1, <2>2, <2>3, <1>2, <1>4 DEF Exempt, Untouched
  <2>9. OrderInv'
    BY <2>2, <2>8, SMTT(30) DEF OrderInv
  <2>10. LastChangeInv'
    BY <2>2, <2>3, <1>2 DEF LastChangeInv
  <2>11. CheckerInv'
    BY <2>2, <2>4, <2>5, <1>2, <1>8, SMTT(30) DEF IInv, CheckerInv, OnlyStatusFrom
  <2>12. GatherInv'
    BY <2>2, <2>8, <1>2, <1>5, <1>8 DEF IInv, GatherInv, Gathering, PastGate
  <2> QED BY <2>7, <2>9, <2>10, <2>11, <2>12, SMTT(30)
<1> QED BY <1>2, <1>6, <1>7, <1>8 DEF IInv

-----------------------------------------------------------------------------

\* The invariant is inductive: for a measurement that is started once, with an
\* informer that lists once and with checkers that can always be made.
THEOREM Invariance ==
    ASSUME MaxStarts <= 1, CheckerErrors = FALSE
    PROVE  Spec => []IInv
<1>1. Init => IInv
  BY InitInv
<1>2. IInv /\ [Next]_vars => IInv'
  <2>1. CASE IInv /\ UNCHANGED vars
    <3>1. TypeOK'
      BY <2>1 DEF IInv, TypeOK, vars, apiVars, informerVars, measurementVars
    <3> QED BY <2>1, <3>1, UnchangedInv DEF vars, apiVars, informerVars, measurementVars
  <2>2. CASE IInv /\ Next
    <3>1. ASSUME Execute
          PROVE  IInv'
      BY <2>2, <3>1, StartInv, GatherStepInv, DisposeInv DEF Execute
    <3> QED BY <2>2, <3>1, ApiInv, InformerListInv, InformerWatchInv, WorkerInv,
               CheckerNextInv, Zenon DEF Next
  <2> QED BY <2>1, <2>2
<1> QED BY <1>1, <1>2, PTL DEF Spec

\* Type correctness of the measurement's state, its queue and its call.
THEOREM TypeCorrect ==
    ASSUME MaxStarts <= 1, CheckerErrors = FALSE
    PROVE  Spec => []TypeOK
<1>1. IInv => TypeOK
  BY DEF IInv
<1> QED BY <1>1, Invariance, PTL

\* Once gather's polled condition has held, handleObject has processed every
\* event of a listed object that is as old as the LIST.
THEOREM ListIsProcessed ==
    ASSUME MaxStarts <= 1, CheckerErrors = FALSE
    PROVE  Spec => []ListedKeysProcessed
<1>1. IInv => ListedKeysProcessed
  BY Zenon DEF IInv, PhaseInv, Gathering, GatherInv, PastGate, ListedKeysProcessed
<1> QED BY <1>1, Invariance, PTL

\* In a state of the invariant a gather without error is right: the running
\* objects are those of the LIST, each seen with its current uid and spec.
LEMMA SoundVerdict ==
    ASSUME IInv
    PROVE  GatherSound
<1> SUFFICES ASSUME call.pc = "evaluate", quiet, verdict = "ok"
             PROVE  /\ WithStatus({"running"}) = call.keys
                    /\ \A k \in call.keys : /\ checkerMap[k].uid = objs[k].uid
                                            /\ checkerMap[k].spec = objs[k].spec
  BY DEF GatherSound
<1>1. isRunning /\ TypeOK /\ StatusInv
  BY DEF IInv, PhaseInv, Gathering
<1>2. CheckerInv /\ GatherInv
  BY <1>1 DEF IInv
<1>3. /\ call.keys \subseteq Selected
      /\ informer # "watching" => call.keys = {}
      /\ \A k \in call.keys : objs[k] # None
      /\ \A i \in 1..Len(Pipeline) : Pipeline[i].key \in call.keys => StatusOnly(Pipeline[i])
  BY <1>2 DEF GatherInv, Gathering, PastGate
<1>4. \A k \in call.keys : OnlyStatusFrom(Pipeline, 1, k)
  BY <1>3 DEF OnlyStatusFrom
<1>5. \A k \in call.keys : CheckerCurrent(k)
  BY <1>2, <1>3, <1>4 DEF CheckerInv
<1>6. /\ WithStatus({"unknown"}) = {} /\ WithStatus({"timeout", "deleteTimeout"}) = {}
      /\ WithStatus({"failed"}) = {}
      /\ Cardinality(call.keys) = Cardinality(WithStatus({"running"}))
  BY DEF verdict
<1>7. call.keys \subseteq WithStatus({"running"})
  <2> SUFFICES ASSUME NEW k \in call.keys
               PROVE  k \in WithStatus({"running"})
    OBVIOUS
  <2>1. k \in Keys /\ checkerMap[k] # None /\ ~checkerMap[k].isDeleted
    BY <1>3, <1>5 DEF CheckerCurrent
  <2>2. checkerMap[k].status \in Statuses /\ checkerMap[k].status # "deleted"
    BY <2>1, <1>1 DEF TypeOK, Checkers, StatusInv
  <2>3. checkerMap[k].status \notin {"unknown", "timeout", "deleteTimeout", "failed"}
    BY <2>1, <1>6 DEF WithStatus
  <2> QED BY <2>1, <2>2, <2>3 DEF WithStatus, Statuses
<1>8. IsFiniteSet(WithStatus({"running"}))
  <2>1. WithStatus({"running"}) \in SUBSET Keys
    BY DEF WithStatus
  <2> QED BY <2>1, FS_Subset
<1>9. WithStatus({"running"}) = call.keys
  BY <1>6, <1>7, <1>8, FS_Subset
<1> QED BY <1>5, <1>9 DEF CheckerCurrent

\* gather returns no error only when the running objects are exactly those of
\* its LIST and each checker saw the pods of the object as it is now.
THEOREM GatherIsSound ==
    ASSUME MaxStarts <= 1, CheckerErrors = FALSE
    PROVE  Spec => []GatherSound
<1>1. IInv => GatherSound
  BY SoundVerdict
<1> QED BY <1>1, Invariance, PTL

==============================================================================
