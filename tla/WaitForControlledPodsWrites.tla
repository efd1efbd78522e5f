--------------------- MODULE WaitForControlledPodsWrites ---------------------
(***************************************************************************)
(* Why "gather" may be trusted, for any number of objects, specs and       *)
(* writes: of a measurement that is started once, whose informer never has *)
(* to list again and whose checkers can all be made, a gather without      *)
(* error has seen the pods of every object as that object is now.          *)
(*                                                                         *)
(* The argument.  Events reach handleObject in the order of the pipeline   *)
(* (queue, then watch).  The events of the initial list come in any order; *)
(* those of the watch come in the order of their versions.  An event of    *)
(* the list is the first one of its key and creates it, so it is pending   *)
(* only while its key is not in objectKeys (Exempt); every other pending   *)
(* event is newer than opResourceVersion.  When gather's condition holds,  *)
(* no key of the LIST is Exempt, so all its pending events are newer than  *)
(* the LIST; if nothing else happened since, they only change the status.  *)
(* And once only status changes are pending for a key, its checker is the  *)
(* one of the current object.                                              *)
(***************************************************************************)
EXTENDS WaitForControlledPods, PipelineLemmas

Gathering == call.pc \in {"gate", "handling", "evaluate"}

PastGate == call.pc \in {"handling", "evaluate"}

StatusOnly(e) ==
    e.old # None /\ e.new # None /\ e.old.uid = e.new.uid /\ e.old.spec = e.new.spec

\* A pending event that the initial list delivered (or one like it).
Exempt(p, known, i) ==
    /\ p[i].old = None
    /\ p[i].key \notin known
    /\ \A j \in 1..(i - 1) : p[j].key # p[i].key

\* Only status changes are pending for k from position i of p on.
OnlyStatusFrom(p, i, k) ==
    \A j \in 1..Len(p) : j >= i /\ p[j].key = k => StatusOnly(p[j])

\* The checker of k is the one of the object as it is now.
CheckerCurrent(k) ==
    /\ k \in objectKeys
    /\ checkerMap[k] # None
    /\ ~checkerMap[k].isDeleted
    /\ checkerMap[k].uid = objs[k].uid
    /\ checkerMap[k].spec = objs[k].spec

\* Before the first start; between start and the initial list.
Untouched ==
    /\ queue = <<>> /\ watch = <<>>
    /\ objectKeys = {}
    /\ opResourceVersion = 0
    /\ store = [k \in Keys |-> None]

PhaseInv ==
    /\ starts = 0 => ~isRunning /\ Untouched /\ queueOpen /\ informer = "off"
    /\ isRunning => queueOpen
    /\ isRunning /\ informer # "watching" => Untouched
    /\ ~isRunning => ~Gathering
    /\ call.pc \in {"stopping", "draining"} => ~isRunning /\ starts # 0

VersionInv ==
    /\ \A k \in Keys : objs[k] # None => objs[k].rv <= version
    /\ isRunning => opResourceVersion <= version
    /\ call.maxVersion <= version

EventInv ==
    \A i \in 1..Len(Pipeline) :
        LET e == Pipeline[i] IN
        /\ e.key \in Selected
        /\ e.old # None \/ e.new # None
        /\ EventVersion(e) <= version
        /\ e.old # None /\ e.new # None => e.old.uid = e.new.uid
        /\ objs[e.key] # None => EventVersion(e) <= objs[e.key].rv

OrderInv ==
    \A i \in 1..Len(Pipeline) :
        \/ Exempt(Pipeline, objectKeys, i)
        \/ /\ EventVersion(Pipeline[i]) > opResourceVersion
           /\ \A j \in 1..(i - 1) : EventVersion(Pipeline[j]) < EventVersion(Pipeline[i])

\* What the last change that is more than a status change leads to.
LastChangeInv ==
    \A i \in 1..Len(Pipeline) :
        LET e == Pipeline[i] IN
        objs[e.key] # None /\ OnlyStatusFrom(Pipeline, i + 1, e.key) =>
            /\ e.new # None
            /\ e.new.uid = objs[e.key].uid
            /\ e.new.spec = objs[e.key].spec

CheckerInv ==
    /\ objectKeys \subseteq Selected
    /\ informer = "watching" =>
          \A k \in Selected : objs[k] # None /\ OnlyStatusFrom(Pipeline, 1, k) => CheckerCurrent(k)

StatusInv ==
    \A k \in Keys : checkerMap[k] # None /\ checkerMap[k].status = "deleted"
                        => checkerMap[k].isDeleted

GatherInv ==
    /\ Gathering /\ quiet => \A k \in call.keys : objs[k] # None
    /\ call.pc = "gate" /\ quiet =>
          \A i \in 1..Len(Pipeline) : Pipeline[i].key \in call.keys =>
              \/ Exempt(Pipeline, objectKeys, i)
              \/ EventVersion(Pipeline[i]) <= call.maxVersion
              \/ StatusOnly(Pipeline[i])
    /\ PastGate =>
          /\ call.keys \subseteq Selected
          /\ informer # "watching" => call.keys = {}
          /\ \A i \in 1..Len(Pipeline) : Pipeline[i].key \in call.keys =>
                /\ EventVersion(Pipeline[i]) > call.maxVersion
                /\ quiet => StatusOnly(Pipeline[i])

IInv ==
    /\ TypeOK
    /\ PhaseInv
    /\ VersionInv
    /\ StatusInv
    /\ isRunning => EventInv /\ OrderInv /\ LastChangeInv /\ CheckerInv /\ GatherInv

-----------------------------------------------------------------------------

USE ConstantsAssumption DEF ConstantsAssumption

\* Versions of events are versions.
LEMMA EventVersionType ==
    ASSUME NEW e \in Events
    PROVE  EventVersion(e) \in 0..MaxVersion
BY DEF EventVersion, MaxOf, VersionOf, Events, MaybeObject, Objects, Versions

\* The pipeline is a sequence of events.
LEMMA PipelineType ==
    ASSUME TypeOK
    PROVE  /\ Pipeline \in Seq(Events)
           /\ Len(Pipeline) \in Nat
           /\ \A i \in 1..Len(Pipeline) :
                 /\ Pipeline[i] \in Events
                 /\ Pipeline[i].key \in Keys
                 /\ EventVersion(Pipeline[i]) \in 0..MaxVersion
<1>1. Pipeline \in Seq(Events)
  BY DEF TypeOK, Pipeline
<1>2. \A i \in 1..Len(Pipeline) : Pipeline[i] \in Events
  BY <1>1
<1>3. \A e \in Events : e.key \in Keys
  BY DEF Events
<1> QED BY <1>1, <1>2, <1>3, EventVersionType

\* The initial states.
LEMMA InitInv ==
    ASSUME Init
    PROVE  IInv
<1>1. TypeOK
  <2>1. queueOpen \in BOOLEAN /\ isRunning \in BOOLEAN /\ quiet \in BOOLEAN
    BY Zenon DEF Init
  <2>2. call \in Calls
    BY DEF Init, Calls, Results
  <2> QED BY <2>1, <2>2 DEF Init, TypeOK, MaybeObject
<1>2. PhaseInv /\ VersionInv /\ StatusInv /\ ~isRunning
  BY DEF Init, PhaseInv, VersionInv, StatusInv, Untouched, Gathering
<1> QED BY <1>1, <1>2 DEF IInv

\* What the four writes have in common: the object of k becomes new, and the
\* event e that a watch would deliver says so.
GoodWrite(k, e) ==
    /\ e \in Events
    /\ e.key = k
    /\ e.old # None \/ e.new # None
    /\ e.new # None => e.new.rv = version + 1
    /\ EventVersion(e) = version + 1
    /\ e.old # None /\ e.new # None => e.old.uid = e.new.uid
    /\ StatusOnly(e) => /\ objs[k] # None
                        /\ e.new.uid = objs[k].uid
                        /\ e.new.spec = objs[k].spec
    /\ quiet' => quiet /\ StatusOnly(e)

\* A write preserves the invariant.
LEMMA WriteInv ==
    ASSUME IInv, NEW k \in Keys, NEW e, GoodWrite(k, e),
           version < MaxVersion, Write(k, e.old, e.new), quiet' \in BOOLEAN,
           e = [key |-> k, old |-> e.old, new |-> e.new]
    PROVE  IInv'
<1> USE DEF IInv
<1>e. e \in Events /\ e.new \in MaybeObject
  BY DEF GoodWrite, Events
<1>1. TypeOK'
  <2>1. version' \in 0..MaxVersion
    BY SMTT(30) DEF Write, TypeOK
  <2>2. objs' \in [Keys -> MaybeObject]
    BY <1>e DEF Write, TypeOK
  <2>3. watch' \in Seq(Events)
    BY <1>e DEF Write, TypeOK
  <2> QED BY <2>1, <2>2, <2>3 DEF Write, TypeOK, measurementVars
<1>2. PhaseInv'
  BY DEF PhaseInv, Untouched, Gathering, Write, measurementVars
<1>3. VersionInv'
  <2>1. call.maxVersion \in Nat /\ opResourceVersion \in Nat /\ version \in Nat
    BY DEF TypeOK, Calls
  <2>2. \A x \in Keys : objs[x] # None => objs[x].rv \in Nat
    BY DEF TypeOK, MaybeObject, Objects, Versions
  <2> QED BY <2>1, <2>2, SMTT(30) DEF VersionInv, Write, measurementVars, GoodWrite, TypeOK
<1>4. StatusInv'
  BY DEF StatusInv, Write, measurementVars
<1> SUFFICES ASSUME isRunning'
             PROVE  (EventInv /\ OrderInv /\ LastChangeInv /\ CheckerInv /\ GatherInv)'
  BY <1>1, <1>2, <1>3, <1>4
<1>5. isRunning /\ EventInv /\ OrderInv /\ LastChangeInv /\ CheckerInv /\ GatherInv
  BY DEF Write, measurementVars
<1> DEFINE n == Len(Pipeline)
<1>6. /\ n \in Nat
      /\ \A i \in 1..n : /\ Pipeline[i] \in Events
                         /\ Pipeline[i].key \in Keys
                         /\ EventVersion(Pipeline[i]) \in 0..MaxVersion
  BY PipelineType
<1>7. /\ version \in Nat /\ version' = version + 1
      /\ objs' = [objs EXCEPT ![k] = e.new] /\ objs \in [Keys -> MaybeObject]
      /\ objectKeys' = objectKeys /\ checkerMap' = checkerMap
      /\ opResourceVersion' = opResourceVersion /\ opResourceVersion \in Nat
      /\ call' = call /\ informer' = informer
      /\ call.maxVersion \in Nat
      /\ opResourceVersion <= version /\ call.maxVersion <= version
  BY <1>5 DEF Write, measurementVars, TypeOK, VersionInv, Calls
<1>8. CASE informer = "watching" /\ k \in Selected
  <2>1. Pipeline' = Append(Pipeline, e)
    <3>1. watch' = Append(watch, e) /\ queue' = queue
      BY <1>8 DEF Write
    <3>2. watch \in Seq(Events) /\ queue \in Seq(Events)
      BY DEF TypeOK
    <3> QED BY <3>1, <3>2, <1>e, WriteLast DEF Pipeline
  <2>2. /\ Len(Pipeline') = n + 1
        /\ \A i \in 1..n : Pipeline'[i] = Pipeline[i]
        /\ Pipeline'[n + 1] = e
    BY <2>1, <1>e, PipelineType, AppendElements
  <2> HIDE DEF n
  <2>3. \A i \in 1..n : EventVersion(Pipeline[i]) <= version
    BY <1>5, <1>6 DEF EventInv, n
  <2>4. EventInv'
    <3> SUFFICES ASSUME NEW i \in 1..(n + 1)
                 PROVE  LET d == Pipeline'[i] IN
                        /\ d.key \in Selected
                        /\ d.old # None \/ d.new # None
                        /\ EventVersion(d) <= version'
                        /\ d.old # None /\ d.new # None => d.old.uid = d.new.uid
                        /\ objs'[d.key] # None => EventVersion(d) <= objs'[d.key].rv
      BY <2>2 DEF EventInv
    <3>1. CASE i = n + 1
      BY <3>1, <2>2, <1>7, <1>8, SMTT(30) DEF GoodWrite
    <3>2. CASE i \in 1..n
      <4>1. CASE Pipeline[i].key = k
        BY <4>1, <3>2, <2>2, <2>3, <1>5, <1>6, <1>7, SMTT(30) DEF GoodWrite, EventInv, n
      <4>2. CASE Pipeline[i].key # k
        BY <4>2, <3>2, <2>2, <2>3, <1>5, <1>6, <1>7, SMTT(30) DEF GoodWrite, EventInv, n
      <4> QED BY <4>1, <4>2, SMTT(30)
    <3> QED BY <3>1, <3>2, <1>6
  <2>x. \A i \in 1..n : \A j \in 1..(i - 1) : Pipeline'[j] = Pipeline[j]
    BY <2>2, <1>6
  <2>s. ASSUME NEW i \in 1..n
        PROVE  Exempt(Pipeline, objectKeys, i) => Exempt(Pipeline', objectKeys', i)
    BY <2>2, <2>x, <1>7, Zenon DEF Exempt
  <2>5. OrderInv'
    <3> SUFFICES ASSUME NEW i \in 1..(n + 1)
                 PROVE  \/ Exempt(Pipeline', objectKeys', i)
                        \/ /\ EventVersion(Pipeline'[i]) > opResourceVersion'
                           /\ \A j \in 1..(i - 1) :
                                 EventVersion(Pipeline'[j]) < EventVersion(Pipeline'[i])
      BY <2>2 DEF OrderInv
    <3>1. CASE i = n + 1
      BY <3>1, <2>2, <2>3, <1>6, <1>7, SMTT(30) DEF GoodWrite
    <3>2. CASE i \in 1..n
      <4>1. \/ Exempt(Pipeline, objectKeys, i)
            \/ /\ EventVersion(Pipeline[i]) > opResourceVersion
               /\ \A j \in 1..(i - 1) :
                     EventVersion(Pipeline[j]) < EventVersion(Pipeline[i])
        BY <3>2, <1>5 DEF OrderInv, n
      <4> QED BY <4>1, <3>2, <2>2, <2>x, <2>s, <1>7
    <3> QED BY <3>1, <3>2, <1>6
  <2>6. \A i \in Nat : \A x \in Keys : OnlyStatusFrom(Pipeline', i, x) =>
            /\ OnlyStatusFrom(Pipeline, i, x)
            /\ x = k /\ i <= n + 1 => StatusOnly(e)
    BY <2>2, <1>6, SMTT(30) DEF OnlyStatusFrom, GoodWrite, n
  <2>7. LastChangeInv'
    <3> SUFFICES ASSUME NEW i \in 1..(n + 1), objs'[Pipeline'[i].key] # None,
                        OnlyStatusFrom(Pipeline', i + 1, Pipeline'[i].key)
                 PROVE  /\ Pipeline'[i].new # None
                        /\ Pipeline'[i].new.uid = objs'[Pipeline'[i].key].uid
                        /\ Pipeline'[i].new.spec = objs'[Pipeline'[i].key].spec
      BY <2>2 DEF LastChangeInv
    <3>1. CASE i = n + 1
      BY <3>1, <2>2, <1>7 DEF GoodWrite
    <3>2. CASE i \in 1..n
      <4>0. /\ i + 1 \in Nat /\ i + 1 <= n + 1
            /\ Pipeline[i].key \in Keys
            /\ OnlyStatusFrom(Pipeline', i + 1, Pipeline[i].key)
        BY <3>2, <2>2, <1>6
      <4>1. OnlyStatusFrom(Pipeline, i + 1, Pipeline[i].key)
        BY <4>0, <2>6, SMTT(30)
      <4>2. CASE Pipeline[i].key = k
        <5>1. StatusOnly(e)
          BY <4>0, <4>2, <2>6
        <5> QED BY <5>1, <4>1, <4>2, <3>2, <2>2, <1>5, <1>7, SMTT(30)
               DEF GoodWrite, LastChangeInv, n
      <4>3. CASE Pipeline[i].key # k
        BY <4>1, <4>3, <3>2, <2>2, <1>5, <1>6, <1>7, SMTT(30) DEF LastChangeInv, n
      <4> QED BY <4>2, <4>3
    <3> QED BY <3>1, <3>2, <1>6
  <2>8. CheckerInv'
    <3> SUFFICES ASSUME NEW x \in Selected, objs'[x] # None, OnlyStatusFrom(Pipeline', 1, x)
                 PROVE  CheckerCurrent(x)'
      BY <1>5, <1>7 DEF CheckerInv
    <3>1. OnlyStatusFrom(Pipeline, 1, x) /\ (x = k => StatusOnly(e))
      BY <2>6, <1>6
    <3>2. CASE x = k
      BY <3>1, <3>2, <1>5, <1>7, <1>8 DEF CheckerInv, CheckerCurrent, GoodWrite
    <3>3. CASE x # k
      BY <3>1, <3>3, <1>5, <1>7, <1>8 DEF CheckerInv, CheckerCurrent
    <3> QED BY <3>2, <3>3
  <2>9. GatherInv'
    <3>1. (Gathering /\ quiet => \A x \in call.keys : objs[x] # None)'
      BY <1>5, <1>7 DEF GatherInv, Gathering, GoodWrite, StatusOnly, TypeOK, Calls
    <3>2. ASSUME call'.pc = "gate", quiet', NEW i \in 1..(n + 1),
                 Pipeline'[i].key \in call'.keys
          PROVE  \/ Exempt(Pipeline', objectKeys', i)
                 \/ EventVersion(Pipeline'[i]) <= call'.maxVersion
                 \/ StatusOnly(Pipeline'[i])
      <4>1. CASE i = n + 1
        BY <4>1, <3>2, <2>2 DEF GoodWrite
      <4>2. CASE i \in 1..n
        <5>1. \/ Exempt(Pipeline, objectKeys, i)
              \/ EventVersion(Pipeline[i]) <= call.maxVersion
              \/ StatusOnly(Pipeline[i])
          BY <4>2, <3>2, <2>2, <1>5, <1>7 DEF GatherInv, GoodWrite, n
        <5> QED BY <5>1, <4>2, <2>2, <2>s, <1>7
      <4> QED BY <4>1, <4>2, <1>6
    <3>3. ASSUME PastGate'
          PROVE  /\ call'.keys \subseteq Selected
                 /\ informer' # "watching" => call'.keys = {}
                 /\ \A i \in 1..(n + 1) : Pipeline'[i].key \in call'.keys =>
                       /\ EventVersion(Pipeline'[i]) > call'.maxVersion
                       /\ quiet' => StatusOnly(Pipeline'[i])
      <4>1. PastGate
        BY <3>3, <1>7 DEF PastGate
      <4>2. /\ call.keys \subseteq Selected
            /\ informer # "watching" => call.keys = {}
            /\ \A i \in 1..n : Pipeline[i].key \in call.keys =>
                  /\ EventVersion(Pipeline[i]) > call.maxVersion
                  /\ quiet => StatusOnly(Pipeline[i])
        BY <4>1, <1>5 DEF GatherInv, n
      <4>3. EventVersion(e) > call.maxVersion /\ (quiet' => quiet /\ StatusOnly(e))
        BY <1>7 DEF GoodWrite
      <4>4. \A i \in 1..(n + 1) : i \in 1..n \/ i = n + 1
        BY <1>6
      <4> QED BY <4>2, <4>3, <4>4, <2>2, <1>7
    <3> QED BY <3>1, <3>2, <3>3, <2>2, SMTT(30) DEF GatherInv
  <2> QED BY <2>4, <2>5, <2>7, <2>8, <2>9
<1>9. CASE informer # "watching"
  <2>1. Pipeline' = <<>> /\ Pipeline = <<>>
    BY <1>5, <1>9 DEF PhaseInv, Untouched, Write, Pipeline
  <2>2. Len(Pipeline') = 0
    BY <2>1
  <2>3. (EventInv /\ OrderInv /\ LastChangeInv)'
    BY <2>2 DEF EventInv, OrderInv, LastChangeInv
  <2>4. CheckerInv'
    BY <1>5, <1>7, <1>9, SMTT(30) DEF CheckerInv
  <2>5. GatherInv'
    BY <2>2, <1>5, <1>7, <1>9
       DEF GatherInv, Gathering, PastGate, GoodWrite, StatusOnly, TypeOK, Calls
  <2> QED BY <2>3, <2>4, <2>5
<1>10. CASE k \notin Selected
  <2>1. Pipeline' = Pipeline
    BY <1>10 DEF Write, Pipeline
  <2>2. \A i \in 1..n : Pipeline[i].key # k /\ objs'[Pipeline[i].key] = objs[Pipeline[i].key]
    BY <1>5, <1>6, <1>7, <1>10 DEF EventInv
  <2>3. \A x \in Selected : objs'[x] = objs[x]
    BY <1>7, <1>10
  <2>4. \A i, x : OnlyStatusFrom(Pipeline', i, x) <=> OnlyStatusFrom(Pipeline, i, x)
    BY <2>1 DEF OnlyStatusFrom
  <2>5. \A i : Exempt(Pipeline', objectKeys', i) <=> Exempt(Pipeline, objectKeys, i)
    BY <2>1, <1>7, SMTT(30) DEF Exempt
  <2>6. (EventInv /\ OrderInv)'
    BY <2>1, <2>2, <2>5, <1>5, <1>6, <1>7 DEF EventInv, OrderInv
  <2>7. LastChangeInv'
    BY <2>1, <2>2, <2>4, <1>5 DEF LastChangeInv
  <2>8. CheckerInv'
    BY <2>3, <2>4, <1>5, <1>7, SMTT(30) DEF CheckerInv, CheckerCurrent
  <2>9. GatherInv'
    BY <2>1, <2>5, <1>5, <1>7, SMTT(30)
       DEF GatherInv, Gathering, PastGate, GoodWrite, StatusOnly, TypeOK, Calls
  <2> QED BY <2>6, <2>7, <2>8, <2>9
<1> QED BY <1>8, <1>9, <1>10

\* What holds of the pipeline and of the checkers depends neither on the
\* status of a checker nor on where an event is on its way.
LEMMA FrameInv ==
    ASSUME IInv, isRunning, Pipeline' = Pipeline,
           UNCHANGED <<objs, version, informer, objectKeys, opResourceVersion>>,
           \A k \in Keys : checkerMap[k] # None =>
               /\ checkerMap'[k] # None
               /\ checkerMap'[k].uid = checkerMap[k].uid
               /\ checkerMap'[k].spec = checkerMap[k].spec
               /\ checkerMap'[k].isDeleted = checkerMap[k].isDeleted
    PROVE  /\ (EventInv /\ OrderInv /\ LastChangeInv /\ CheckerInv)'
           /\ UNCHANGED <<call, quiet>> => GatherInv'
<1>1. (EventInv /\ OrderInv /\ LastChangeInv)'
  BY DEF IInv, EventInv, OrderInv, LastChangeInv
<1>2. CheckerInv'
  BY DEF IInv, CheckerInv, CheckerCurrent
<1>3. UNCHANGED <<call, quiet>> => GatherInv'
  BY DEF IInv, GatherInv, Gathering, PastGate
<1> QED BY <1>1, <1>2, <1>3

\* A step that changes none of these variables preserves the invariant.
LEMMA UnchangedInv ==
    ASSUME IInv, TypeOK',
           UNCHANGED <<objs, version, informer, store, watch, queue, queueOpen, isRunning,
                       objectKeys, opResourceVersion, checkerMap, call, starts, quiet>>
    PROVE  IInv'
<1>1. PhaseInv' /\ VersionInv' /\ StatusInv'
  BY DEF IInv, PhaseInv, VersionInv, StatusInv, Untouched, Gathering
<1>2. Pipeline' = Pipeline
  BY DEF Pipeline
<1>3. isRunning => (EventInv /\ OrderInv /\ LastChangeInv /\ CheckerInv /\ GatherInv)'
  BY <1>2, FrameInv
<1> QED BY <1>1, <1>3 DEF IInv

\* The API server preserves the invariant.
LEMMA ApiInv ==
    ASSUME IInv, ApiNext
    PROVE  IInv'
<1>0. /\ TypeOK
      /\ objs \in [Keys -> MaybeObject]
      /\ \A k \in Keys : objs[k] # None => objs[k] \in Objects
      /\ version \in Nat
      /\ quiet \in BOOLEAN
  BY DEF IInv, TypeOK, MaybeObject
<1>1. ASSUME NEW k \in Keys, NEW spec \in Specs, CreateObject(k, spec)
      PROVE  IInv'
  <2> DEFINE new == [uid |-> version + 1, spec |-> spec, rv |-> version + 1]
             e == [key |-> k, old |-> None, new |-> new]
  <2>1. new \in Objects
    BY <1>0, <1>1 DEF CreateObject, Objects, Versions
  <2>2. e \in Events /\ new # None
    BY <2>1 DEF Events, MaybeObject
  <2>3. EventVersion(e) = version + 1
    BY <2>2, <1>0 DEF EventVersion, MaxOf, VersionOf
  <2>4. GoodWrite(k, e)
    BY <2>2, <2>3, <1>1 DEF GoodWrite, StatusOnly, CreateObject
  <2>5. Write(k, e.old, e.new) /\ version < MaxVersion /\ quiet' \in BOOLEAN
    BY <1>1, Zenon DEF CreateObject
  <2> HIDE DEF new
  <2>6. e = [key |-> k, old |-> e.old, new |-> e.new]
    OBVIOUS
  <2> HIDE DEF e
  <2> QED BY <2>4, <2>5, <2>6, WriteInv
<1>2. ASSUME NEW k \in Keys, NEW spec \in Specs, UpdateSpec(k, spec)
      PROVE  IInv'
  <2> DEFINE new == [uid |-> objs[k].uid, spec |-> spec, rv |-> version + 1]
             e == [key |-> k, old |-> objs[k], new |-> new]
  <2>1. /\ new \in Objects /\ new.rv = version + 1 /\ new.spec = spec
        /\ new.uid = objs[k].uid
    <3>1. objs[k] \in Objects /\ version + 1 \in Versions
      BY <1>0, <1>2 DEF UpdateSpec, Versions
    <3> QED BY <3>1 DEF Objects
  <2> HIDE DEF new
  <2>2. e \in Events /\ new # None /\ objs[k] # None
    BY <2>1, <1>0, <1>2 DEF Events, MaybeObject, UpdateSpec
  <2>3. EventVersion(e) = version + 1
    <3>1. objs[k].rv \in Nat /\ objs[k].rv <= version
      BY <2>2, <1>0 DEF IInv, VersionInv, Objects, Versions
    <3> QED BY <3>1, <2>1, <2>2, <1>0 DEF EventVersion, MaxOf, VersionOf
  <2>4. GoodWrite(k, e)
    BY <2>1, <2>2, <2>3, <1>2 DEF GoodWrite, StatusOnly, UpdateSpec
  <2>5. Write(k, e.old, e.new) /\ version < MaxVersion /\ quiet' \in BOOLEAN
    BY <1>2, Zenon DEF UpdateSpec, new
  <2>6. e = [key |-> k, old |-> e.old, new |-> e.new]
    OBVIOUS
  <2> HIDE DEF e
  <2> QED BY <2>4, <2>5, <2>6, WriteInv
<1>3. ASSUME NEW k \in Keys, UpdateStatus(k)
      PROVE  IInv'
  <2> DEFINE new == [objs[k] EXCEPT !.rv = version + 1]
             e == [key |-> k, old |-> objs[k], new |-> new]
  <2>1. /\ new \in Objects /\ new.rv = version + 1 /\ new.spec = objs[k].spec
        /\ new.uid = objs[k].uid
    BY <1>0, <1>3 DEF UpdateStatus, Objects, Versions
  <2> HIDE DEF new
  <2>2. e \in Events /\ new # None /\ objs[k] # None
    BY <2>1, <1>0, <1>3 DEF Events, MaybeObject, UpdateStatus
  <2>3. EventVersion(e) = version + 1
    <3>1. objs[k].rv \in Nat /\ objs[k].rv <= version
      BY <2>2, <1>0 DEF IInv, VersionInv, Objects, Versions
    <3> QED BY <3>1, <2>1, <2>2, <1>0 DEF EventVersion, MaxOf, VersionOf
  <2>4. GoodWrite(k, e)
    BY <2>1, <2>2, <2>3, <1>3 DEF GoodWrite, StatusOnly, UpdateStatus
  <2>5. Write(k, e.old, e.new) /\ version < MaxVersion /\ quiet' \in BOOLEAN
    BY <1>0, <1>3 DEF UpdateStatus, new
  <2>6. e = [key |-> k, old |-> e.old, new |-> e.new]
    OBVIOUS
  <2> HIDE DEF e
  <2> QED BY <2>4, <2>5, <2>6, WriteInv
<1>4. ASSUME NEW k \in Keys, DeleteObject(k)
      PROVE  IInv'
  <2> DEFINE old == [objs[k] EXCEPT !.rv = version + 1]
             e == [key |-> k, old |-> old, new |-> None]
  <2>1. old \in Objects /\ old.rv = version + 1
    BY <1>0, <1>4 DEF DeleteObject, Objects, Versions
  <2> HIDE DEF old
  <2>2. e \in Events /\ old # None
    BY <2>1, <1>0, <1>4 DEF Events, MaybeObject
  <2>3. EventVersion(e) = version + 1
    BY <2>1, <2>2, <1>0 DEF EventVersion, MaxOf, VersionOf
  <2>4. GoodWrite(k, e)
    BY <2>1, <2>2, <2>3, <1>4 DEF GoodWrite, StatusOnly, DeleteObject
  <2>5. Write(k, e.old, e.new) /\ version < MaxVersion /\ quiet' \in BOOLEAN
    BY <1>4, Zenon DEF DeleteObject, old
  <2>6. e = [key |-> k, old |-> e.old, new |-> e.new]
    OBVIOUS
  <2> HIDE DEF e
  <2> QED BY <2>4, <2>5, <2>6, WriteInv
<1>5. ASSUME NEW u \in Versions, PodsConverge(u)
      PROVE  IInv'
  <2>1. pods' \in [Versions -> Specs \cup {None}]
    BY <1>0, <1>5 DEF PodsConverge, TypeOK, Existing, Objects
  <2>2. UNCHANGED <<objs, version, informer, store, watch, queue, queueOpen, isRunning,
                    objectKeys, opResourceVersion, checkerMap, stopped, call, starts, quiet>>
    BY <1>5 DEF PodsConverge, informerVars, measurementVars
  <2>3. TypeOK'
    BY <2>1, <2>2, <1>0 DEF TypeOK
  <2> QED BY <2>2, <2>3, UnchangedInv
<1> QED BY <1>1, <1>2, <1>3, <1>4, <1>5 DEF ApiNext

\* Delivering an event moves it from the watch to the queue.
LEMMA InformerWatchInv ==
    ASSUME IInv, InformerWatch
    PROVE  IInv'
<1>1. /\ TypeOK /\ watch # <<>> /\ watch \in Seq(Events) /\ queue \in Seq(Events)
      /\ Head(watch) \in Events /\ Tail(watch) \in Seq(Events)
  BY DEF IInv, TypeOK, InformerWatch
<1>2. UNCHANGED <<objs, version, pods, informer, queueOpen, isRunning, objectKeys,
                  opResourceVersion, checkerMap, stopped, call, starts, quiet>>
  BY DEF InformerWatch, apiVars, measurementVars
<1>3. TypeOK'
  <2>1. store' \in [Keys -> MaybeObject]
    BY <1>1 DEF InformerWatch, TypeOK, Events
  <2>2. watch' \in Seq(Events) /\ queue' \in Seq(Events)
    BY <1>1 DEF InformerWatch, Enqueue
  <2> QED BY <2>1, <2>2, <1>1, <1>2 DEF TypeOK
<1>4. PhaseInv' /\ VersionInv' /\ StatusInv'
  BY <1>1, <1>2 DEF IInv, PhaseInv, VersionInv, StatusInv, InformerWatch, Untouched, Gathering
<1>5. ASSUME isRunning
      PROVE  (EventInv /\ OrderInv /\ LastChangeInv /\ CheckerInv /\ GatherInv)'
  <2>1. queue' = queue \o <<Head(watch)>> /\ watch' = Tail(watch)
    BY <1>5 DEF InformerWatch, Enqueue, IInv, PhaseInv
  <2>2. Pipeline' = Pipeline
    BY <2>1, <1>1, MoveHead DEF Pipeline
  <2> QED BY <2>2, <1>2, <1>5, FrameInv
<1> QED BY <1>2, <1>3, <1>4, <1>5 DEF IInv

==============================================================================
