--------------------- MODULE ControlledPodsIndexerProofs ---------------------
(***************************************************************************)
(* Relists, which make one event for each object that changed, the types,  *)
(* and the theorems about the pods indexer.                                *)
(***************************************************************************)
EXTENDS ControlledPodsIndexerPodProofs, FiniteSetTheorems

\* The order of a finite set has its elements and no others.
LEMMA OrdersElements ==
    ASSUME NEW S, NEW T, S \subseteq T, IsFiniteSet(S), NEW s \in Orders(S)
    PROVE  /\ s \in Seq(T)
           /\ \A i \in 1..Len(s) : s[i] \in S
           /\ \A x \in S : \E i \in 1..Len(s) : s[i] = x
<1>1. Cardinality(S) \in Nat
    BY FS_CardinalityType
<1>2. s \in [1..Cardinality(S) -> S] /\ \A x \in S : \E i \in DOMAIN s : s[i] = x
    BY DEF Orders
<1>3. s \in Seq(S) /\ Len(s) = Cardinality(S)
    BY <1>1, <1>2
<1> QED
    BY <1>2, <1>3

\* The event a relist makes of a pod that changed.
PodChange(p) == [pod |-> p, old |-> podStore[p], new |-> pods[p],
                 tombstone |-> pods[p] = None]

\* A relist of the pods appends one event for each pod that changed.
LEMMA PodRelisted ==
    ASSUME TypeOK, PodInformerRelist
    PROVE  \E events \in Seq(PodEvents) :
             /\ podEvents' = podEvents \o events
             /\ \A i \in 1..Len(events) : \E p \in Pods :
                   podStore[p] # pods[p] /\ events[i] = PodChange(p)
             /\ \A p \in Pods : podStore[p] # pods[p] =>
                   \E i \in 1..Len(events) : events[i] = PodChange(p)
<1> DEFINE D == {x \in Pods : podStore[x] # pods[x]}
           S == {PodChange(p) : p \in D}
           f == [p \in D |-> PodChange(p)]
<1>1. PICK events \in Orders(S) : podEvents' = podEvents \o events
    BY Zenon DEF PodInformerRelist, PodChange
<1>2. S \subseteq PodEvents
  <2>1. ASSUME NEW p \in D PROVE PodChange(p) \in PodEvents
    <3> DEFINE b == pods[p] = None
    <3>1. b \in BOOLEAN
        OBVIOUS
    <3>2. podStore[p] \in UIDs \cup {None} /\ pods[p] \in UIDs \cup {None}
        BY DEF TypeOK
    <3>3. PodChange(p) = [pod |-> p, old |-> podStore[p], new |-> pods[p], tombstone |-> b]
        BY DEF PodChange
    <3> HIDE DEF b
    <3> QED
        BY <3>1, <3>2, <3>3 DEF PodEvents
  <2> QED
      BY <2>1
<1>3. IsFiniteSet(S)
  <2>1. IsFiniteSet(D)
      BY FS_Subset, IndexerAssumption
  <2>2. f \in Surjection(D, S)
      BY DEF Surjection
  <2> QED
      BY <2>1, <2>2, FS_Surjection
<1> HIDE DEF S
<1>4. /\ events \in Seq(PodEvents)
      /\ \A i \in 1..Len(events) : events[i] \in S
      /\ \A x \in S : \E i \in 1..Len(events) : events[i] = x
    BY <1>2, <1>3, OrdersElements
<1> QED
    BY <1>1, <1>4, Zenon DEF S

\* The ReplicaSets a list returns.
Listed == {r \in ReplicaSets : rs[r] = "exists"}

\* A relist of the ReplicaSets appends one event for each that came or went.
LEMMA RSRelisted ==
    ASSUME TypeOK, RSInformerRelist
    PROVE  \E events \in Seq(RSEvents) :
             /\ rsEvents' = rsEvents \o events
             /\ \A r \in ReplicaSets :
                   /\ Has(events, r, "add") <=> r \in Listed \ rsStore
                   /\ Has(events, r, "tombstone") <=> r \in rsStore \ Listed
                   /\ ~Has(events, r, "delete")
<1> DEFINE A == {[rs |-> r, type |-> "add"] : r \in Listed \ rsStore}
           T == {[rs |-> r, type |-> "tombstone"] : r \in rsStore \ Listed}
           D == (Listed \ rsStore) \cup (rsStore \ Listed)
           f == [r \in D |-> [rs |-> r, type |-> IF r \in Listed THEN "add" ELSE "tombstone"]]
           S == A \cup T
<1>1. PICK events \in Orders(S) : rsEvents' = rsEvents \o events
    BY Zenon DEF RSInformerRelist, Listed
<1>2. S \subseteq RSEvents
    BY DEF TypeOK, RSEvents, Listed
<1>3. IsFiniteSet(S)
  <2>1. IsFiniteSet(D)
      BY FS_Subset, IndexerAssumption DEF TypeOK, Listed
  <2>2. f \in Surjection(D, S)
    <3>1. f \in [D -> S]
        OBVIOUS
    <3>2. \A y \in S : \E x \in D : f[x] = y
        OBVIOUS
    <3> QED
        BY <3>1, <3>2 DEF Surjection
  <2> QED
      BY <2>1, <2>2, FS_Surjection
<1>4. /\ events \in Seq(RSEvents)
      /\ \A i \in 1..Len(events) : events[i] \in S
      /\ \A x \in S : \E i \in 1..Len(events) : events[i] = x
  <2> HIDE DEF S
  <2> QED
      BY <1>2, <1>3, OrdersElements
<1>5. ASSUME NEW r \in ReplicaSets
      PROVE  /\ Has(events, r, "add") <=> r \in Listed \ rsStore
             /\ Has(events, r, "tombstone") <=> r \in rsStore \ Listed
             /\ ~Has(events, r, "delete")
  <2>1. \A i \in 1..Len(events) :
           \/ events[i].rs \in Listed \ rsStore /\ events[i].type = "add"
           \/ events[i].rs \in rsStore \ Listed /\ events[i].type = "tombstone"
      BY <1>4
  <2>2. ASSUME r \in Listed \ rsStore PROVE Has(events, r, "add")
    <3>1. [rs |-> r, type |-> "add"] \in S
        BY <2>2
    <3>2. PICK i \in 1..Len(events) : events[i] = [rs |-> r, type |-> "add"]
        BY <1>4, <3>1, Zenon
    <3> QED
        BY <3>2 DEF Has
  <2>3. ASSUME r \in rsStore \ Listed PROVE Has(events, r, "tombstone")
    <3>1. [rs |-> r, type |-> "tombstone"] \in S
        BY <2>3
    <3>2. PICK i \in 1..Len(events) : events[i] = [rs |-> r, type |-> "tombstone"]
        BY <1>4, <3>1, Zenon
    <3> QED
        BY <3>2 DEF Has
  <2> QED
      BY <2>1, <2>2, <2>3 DEF Has
<1> QED
    BY <1>1, <1>4, <1>5

-----------------------------------------------------------------------------
(***************************************************************************)
(* The types.                                                              *)
(***************************************************************************)

\* Every step keeps the types.
LEMMA TypeNext ==
    ASSUME TypeOK, Next
    PROVE  TypeOK'
<1> USE IndexerAssumption DEF TypeOK, UIDs
<1>1. ASSUME NEW r \in ReplicaSets, NEW st \in {"exists", "deleted"},
             NEW t \in {"add", "delete"}, WriteRS(r, st, t)
      PROVE  TypeOK'
  <2>1. rsWatch' \in Seq(RSEvents)
      BY <1>1 DEF WriteRS, RSEvents
  <2> QED
      BY <1>1, <2>1, SMTT(30) DEF WriteRS, podInformer, cpi
<1>2. ASSUME NEW p \in Pods, NEW u \in UIDs \cup {None}, WritePod(p, u)
      PROVE  TypeOK'
  <2>1. podWatch' \in Seq(PodEvents)
      BY <1>2 DEF WritePod, PodEvents
  <2> QED
      BY <1>2, <2>1 DEF WritePod, rsInformer, cpi
<1>3. CASE PodInformerWatch
  <2>1. Head(podWatch) \in PodEvents /\ Tail(podWatch) \in Seq(PodEvents)
      BY <1>3 DEF PodInformerWatch
  <2> QED
      BY <1>3, <2>1, SMTT(30) DEF PodInformerWatch, PodEvents, apiVars, rsInformer, cpi
<1>4. CASE RSInformerWatch
  <2>1. Head(rsWatch) \in RSEvents /\ Tail(rsWatch) \in Seq(RSEvents)
      BY <1>4 DEF RSInformerWatch
  <2>2. Append(rsEvents, Head(rsWatch)) \in Seq(RSEvents)
      BY <2>1
  <2>3. Head(rsWatch).rs \in ReplicaSets
      BY <2>1 DEF RSEvents
  <2> QED
      BY <1>4, <2>1, <2>2, <2>3, SMTT(30) DEF RSInformerWatch, apiVars, podInformer, cpi
<1>5. CASE PodInformerRelist
  <2>1. PICK events \in Seq(PodEvents) : podEvents' = podEvents \o events
    <3> HIDE DEF TypeOK
    <3> QED
        BY <1>5, PodRelisted, SMTT(30)
  <2> QED
      BY <1>5, <2>1 DEF PodInformerRelist, apiVars, rsInformer, cpi
<1>6. CASE RSInformerRelist
  <2>1. PICK events \in Seq(RSEvents) : rsEvents' = rsEvents \o events
    <3> HIDE DEF TypeOK
    <3> QED
        BY <1>6, RSRelisted, SMTT(30)
  <2> QED
      BY <1>6, <2>1 DEF RSInformerRelist, apiVars, podInformer, cpi
<1>7. CASE PodHandler
  <2>1. Head(podEvents) \in PodEvents /\ Tail(podEvents) \in Seq(PodEvents)
      BY <1>7 DEF PodHandler
  <2> QED
      BY <1>7, <2>1, SMTT(30) DEF PodHandler, PodEvents, OwnerOf, ClearRSDataBegin, Free,
                        apiVars, rsInformer
<1>8. CASE RSHandler
  <2>1. Head(rsEvents) \in RSEvents /\ Tail(rsEvents) \in Seq(RSEvents)
      BY <1>8 DEF RSHandler
  <2> QED
      BY <1>8, <2>1, SMTT(30) DEF RSHandler, RSEvents, UIDOf, ClearRSDataBegin, Free,
                        apiVars, podInformer
<1>9. CASE ClearRSDataEnd
    BY <1>9 DEF ClearRSDataEnd, Free, apiVars, podInformer, rsInformer
<1> QED
    BY <1>1, <1>2, <1>3, <1>4, <1>5, <1>6, <1>7, <1>8, <1>9, SMTT(30)
       DEF Next, ClusterNext, InformerNext, HandlerNext, CreateReplicaSet,
           DeleteReplicaSet, CreatePod, ReleasePod, DeletePod

\* The ReplicaSet informer lists again: what the watch had is dropped, and
\* what the store then misses becomes an event.
LEMMA RSListedAgain ==
    ASSUME TypeOK, RSInv, RSInformerRelist
    PROVE  RSInv'
<1>1. /\ rsStore' = Listed /\ rsWatch' = <<>>
      /\ lost' = lost \cup (rsStore \ Listed)
      /\ UNCHANGED <<rs, rsIndexer, rsPendingDeletion, lock>>
    BY DEF RSInformerRelist, Listed, apiVars, cpi
<1>2. PICK events \in Seq(RSEvents) :
         /\ rsEvents' = rsEvents \o events
         /\ \A r \in ReplicaSets :
               /\ Has(events, r, "add") <=> r \in Listed \ rsStore
               /\ Has(events, r, "tombstone") <=> r \in rsStore \ Listed
               /\ ~Has(events, r, "delete")
    BY RSRelisted
<1>3. rsEvents \in Seq(RSEvents) /\ rs \in [ReplicaSets -> {"none", "exists", "deleted"}]
    BY DEF TypeOK
<1>4. ASSUME NEW r \in ReplicaSets
      PROVE  Place(r)' /\ Gone(r)' /\ Announced(r)'
  <2>1. Place(r) /\ Gone(r) /\ Announced(r)
      BY DEF RSInv
  <2>2. ~Has(rsWatch', r, "add") /\ ~Has(rsWatch', r, "delete")
      BY <1>1 DEF Has
  <2>3. /\ Has(rsEvents', r, "add") <=> Has(rsEvents, r, "add") \/ r \in Listed \ rsStore
        /\ Has(rsEvents', r, "delete") <=> Has(rsEvents, r, "delete")
      BY <1>2, <1>3, HasConcat
  <2>4. r \in Listed <=> rs[r] = "exists"
      BY DEF Listed
  <2>5. Place(r)'
      BY <1>1, <1>3, <2>1, <2>2, <2>3, <2>4, SMTT(30) DEF Place
  <2>6. Gone(r)'
      BY <1>1, <1>3, <2>1, <2>2, <2>3, <2>4, SMTT(30) DEF Gone
  <2>7. Announced(r)'
      BY <1>1, <1>3, <2>1, <2>2, <2>3, <2>4 DEF Announced, Place
  <2> QED
      BY <2>5, <2>6, <2>7
<1>5. EventOrder'
  <2>1. /\ Len(rsEvents) \in Nat /\ Len(events) \in Nat
        /\ Len(rsEvents') = Len(rsEvents) + Len(events)
        /\ \A i \in 1..Len(rsEvents) : rsEvents'[i] = rsEvents[i]
        /\ \A i \in 1..Len(events) : rsEvents'[Len(rsEvents) + i] = events[i]
      BY <1>2, <1>3
  <2>2. ASSUME NEW k \in 1..Len(rsEvents'), k \notin 1..Len(rsEvents)
        PROVE  /\ rsEvents'[k].rs \in ReplicaSets
               /\ \/ rsEvents'[k].type = "add" /\ rsEvents'[k].rs \in Listed \ rsStore
                  \/ rsEvents'[k].type = "tombstone" /\ rsEvents'[k].rs \in rsStore \ Listed
    <3>1. k - Len(rsEvents) \in 1..Len(events) /\ Len(rsEvents) + (k - Len(rsEvents)) = k
        BY <2>1, <2>2
    <3>2. PICK m \in 1..Len(events) : rsEvents'[k] = events[m]
        BY <2>1, <3>1, SMTT(30)
    <3>3. events[m] \in RSEvents
        BY <1>2
    <3>4. events[m].rs \in ReplicaSets /\ events[m].type \in {"add", "delete", "tombstone"}
        BY <3>3 DEF RSEvents
    <3>5. Has(events, events[m].rs, events[m].type)
        BY DEF Has
    <3> QED
        BY <1>2, <3>2, <3>4, <3>5, SMTT(30)
  <2>3. ASSUME NEW i \in 1..Len(rsEvents'), NEW j \in 1..Len(rsEvents'), i < j,
               rsEvents'[i].type = "delete", rsEvents'[j].rs = rsEvents'[i].rs
        PROVE  FALSE
    <3>1. i \in 1..Len(rsEvents)
        BY <2>2, <2>3
    <3>2. CASE j \in 1..Len(rsEvents)
        BY <2>1, <2>3, <3>1, <3>2 DEF RSInv, EventOrder
    <3>3. CASE j \notin 1..Len(rsEvents)
      <4>1. Has(rsEvents, rsEvents'[j].rs, "delete")
          BY <2>1, <2>3, <3>1 DEF Has
      <4>2. rsEvents'[j].rs \in ReplicaSets /\ rsEvents'[j].rs \in Listed \cup rsStore
          BY <2>2, <3>3
      <4>3. rs[rsEvents'[j].rs] = "deleted" /\ rsEvents'[j].rs \notin rsStore
          BY <4>1, <4>2 DEF RSInv, Gone
      <4> QED
          BY <4>2, <4>3 DEF Listed
    <3> QED
        BY <3>2, <3>3
  <2> QED
      BY <2>3 DEF EventOrder
<1>6. WatchOrder'
    BY <1>1 DEF WatchOrder
<1> QED
    BY <1>1, <1>4, <1>5, <1>6 DEF RSInv, Free

\* A relist leaves nothing in the watch, and it notifies of all it changes.
LEMMA PodListedAgain ==
    ASSUME TypeOK, PodInv, PodInformerRelist
    PROVE  /\ PodInv'
           /\ \A r \in ReplicaSets : Watched(r) => Watched(r)'
<1>1. /\ podStore' = pods /\ podWatch' = <<>> /\ UNCHANGED pods
      /\ lost' = lost \cup {podStore[p] : p \in {x \in Pods : podStore[x] # None /\ pods[x] = None}}
    BY DEF PodInformerRelist, apiVars
<1>2. PICK events \in Seq(PodEvents) :
         /\ podEvents' = podEvents \o events
         /\ \A i \in 1..Len(events) : \E p \in Pods :
               podStore[p] # pods[p] /\ events[i] = PodChange(p)
         /\ \A p \in Pods : podStore[p] # pods[p] =>
               \E i \in 1..Len(events) : events[i] = PodChange(p)
    BY PodRelisted, SMTT(30)
<1>3. podEvents \in Seq(PodEvents)
    BY DEF TypeOK
<1>4. /\ Len(podEvents') = Len(podEvents) + Len(events)
      /\ Len(podEvents) \in Nat /\ Len(events) \in Nat
      /\ \A i \in 1..Len(podEvents) : podEvents'[i] = podEvents[i]
      /\ \A i \in 1..Len(events) : podEvents'[Len(podEvents) + i] = events[i]
    BY <1>2, <1>3
<1>5. \A p \in Pods : /\ PodChange(p).old = podStore[p] /\ PodChange(p).new = pods[p]
                      /\ PodChange(p).tombstone = (pods[p] = None)
    BY DEF PodChange
<1>6. Chain'
  <2>1. \A i : i \notin 1..Len(podWatch')
      BY <1>1
  <2>2. \A p \in Pods : podStore'[p] = pods'[p]
      BY <1>1
  <2> QED
      BY <2>1, <2>2, Zenon DEF Chain
<1>7. ASSUME NEW i \in 1..Len(podEvents'), podEvents'[i].tombstone
      PROVE  podEvents'[i].old \in lost'
  <2>1. CASE i \in 1..Len(podEvents)
      BY <1>1, <1>4, <1>7, <2>1 DEF PodInv, Tombstones
  <2>2. CASE i \notin 1..Len(podEvents)
    <3>1. i - Len(podEvents) \in 1..Len(events) /\ Len(podEvents) + (i - Len(podEvents)) = i
        BY <1>4, <2>2
    <3>2. PICK p \in Pods : podStore[p] # pods[p] /\ events[i - Len(podEvents)] = PodChange(p)
        BY <1>2, <3>1, Zenon
    <3>3. podEvents'[i] = PodChange(p)
        BY <1>4, <3>1, <3>2, Zenon
    <3>4. pods[p] = None
        BY <1>5, <1>7, <3>3, Zenon
    <3> QED
        BY <1>1, <1>5, <3>2, <3>3, <3>4
  <2> QED
      BY <2>1, <2>2
<1>8. Tombstones'
    BY <1>1, <1>7 DEF Tombstones
<1>9. ASSUME NEW r \in ReplicaSets, Watched(r)
      PROVE  Watched(r)'
  <2>1. CASE \E i \in 1..Len(podEvents) : podEvents[i].old = r /\ podEvents[i].new # r
    <3>1. PICK i \in 1..Len(podEvents) : podEvents[i].old = r /\ podEvents[i].new # r
        BY <2>1
    <3>2. i \in 1..Len(podEvents') /\ podEvents'[i] = podEvents[i]
        BY <1>4
    <3> QED
        BY <3>1, <3>2 DEF Watched
  <2>2. CASE PodsOf(r) # {}
    <3>1. PICK q \in Pods : podStore[q] = r
        BY <2>2 DEF PodsOf
    <3>2. CASE pods[q] = r
        BY <1>1, <3>2 DEF Watched, PodsOf
    <3>3. CASE pods[q] # r
      <4>1. PICK i \in 1..Len(events) : events[i] = PodChange(q)
          BY <1>2, <3>1, <3>3
      <4>2. Len(podEvents) + i \in 1..Len(podEvents')
          BY <1>4
      <4>3. /\ podEvents'[Len(podEvents) + i].old = r
            /\ podEvents'[Len(podEvents) + i].new # r
          BY <1>4, <1>5, <3>1, <3>3, <4>1, SMTT(30)
      <4> QED
          BY <4>2, <4>3 DEF Watched
    <3> QED
        BY <3>2, <3>3
  <2> QED
      BY <1>9, <2>1, <2>2 DEF Watched
<1> QED
    BY <1>6, <1>8, <1>9 DEF PodInv

-----------------------------------------------------------------------------
(***************************************************************************)
(* The theorems.                                                           *)
(***************************************************************************)

\* The invariant holds when the indexer starts.
LEMMA InitIInv == Init => IInv
<1> SUFFICES ASSUME Init PROVE IInv
    OBVIOUS
<1>1. TypeOK
    BY DEF Init, TypeOK, UIDs, Free
<1>2. /\ rsWatch = <<>> /\ rsEvents = <<>> /\ podWatch = <<>> /\ podEvents = <<>>
      /\ rsStore = {} /\ rsIndexer = {} /\ rsPendingDeletion = {} /\ lock = Free
      /\ rs = [r \in ReplicaSets |-> "none"] /\ podStore = pods
    BY DEF Init
<1>3. \A r, t : ~Has(rsWatch, r, t) /\ ~Has(rsEvents, r, t)
    BY <1>2, HasNone
<1>4. WatchOrder /\ EventOrder
    BY <1>2, SMTT(30) DEF WatchOrder, EventOrder
<1>5. RSInv
    BY <1>2, <1>3, <1>4, SMTT(30) DEF RSInv, Place, Gone, Announced
<1>6. PodInv
  <2>1. \A i : i \notin 1..Len(podWatch) /\ i \notin 1..Len(podEvents)
      BY <1>2
  <2>2. \A p \in Pods : podStore[p] = pods[p]
      BY <1>2
  <2> QED
      BY <2>1, <2>2, Zenon DEF PodInv, Chain, Tombstones
<1> QED
    BY <1>1, <1>2, <1>5, <1>6 DEF IInv, Scheduled

\* Every step keeps the invariant.
LEMMA NextIInv == IInv /\ [Next]_vars => IInv'
<1> SUFFICES ASSUME IInv, [Next]_vars PROVE IInv'
    OBVIOUS
<1>1. TypeOK /\ RSInv /\ PodInv /\ Scheduled
    BY DEF IInv
<1>2. ASSUME UNCHANGED <<podStore, podEvents>>
      PROVE  \A r \in ReplicaSets : Watched(r) => Watched(r)'
    BY <1>2 DEF Watched, PodsOf
<1>3. ASSUME NEW x \in ReplicaSets, CreateReplicaSet(x) \/ DeleteReplicaSet(x)
      PROVE  RSInv' /\ PodInv' /\ Scheduled'
  <2>1. UNCHANGED <<pods, podWatch, podStore, podEvents, rsPendingDeletion, lock, lost>>
      BY <1>3 DEF CreateReplicaSet, DeleteReplicaSet, WriteRS, podInformer, cpi
  <2>2. RSInv'
      BY <1>1, <1>3, RSWritten
  <2>3. PodInv'
      BY <1>1, <2>1, PodFrame
  <2>4. Scheduled'
      BY <1>1, <1>2, <2>1, ScheduledFrame
  <2> QED
      BY <2>2, <2>3, <2>4
<1>4. ASSUME NEW x \in Pods, NEW u \in UIDs \cup {None}, WritePod(x, u)
      PROVE  RSInv' /\ PodInv' /\ Scheduled'
  <2>1. UNCHANGED <<rs, rsWatch, rsStore, rsEvents, rsIndexer, rsPendingDeletion, lock,
                    podStore, podEvents, lost>>
      BY <1>4 DEF WritePod, rsInformer, cpi
  <2>2. RSInv'
      BY <1>1, <2>1, RSFrame
  <2>3. PodInv'
      BY <1>1, <1>4, PodWritten
  <2>4. Scheduled'
      BY <1>1, <1>2, <2>1, ScheduledFrame
  <2> QED
      BY <2>2, <2>3, <2>4
<1>5. ASSUME PodInformerWatch PROVE RSInv' /\ PodInv' /\ Scheduled'
  <2>1. UNCHANGED <<rs, rsWatch, rsStore, rsEvents, rsIndexer, rsPendingDeletion, lock, lost>>
      BY <1>5 DEF PodInformerWatch, apiVars, rsInformer, cpi
  <2>2. RSInv'
      BY <1>1, <2>1, RSFrame
  <2>3. PodInv' /\ \A r \in ReplicaSets : Watched(r) => Watched(r)'
      BY <1>1, <1>5, PodWatched
  <2>4. Scheduled'
      BY <1>1, <2>1, <2>3, ScheduledFrame
  <2> QED
      BY <2>2, <2>3, <2>4
<1>6. ASSUME RSInformerWatch PROVE RSInv' /\ PodInv' /\ Scheduled'
  <2>1. UNCHANGED <<pods, podWatch, podStore, podEvents, rsPendingDeletion, lock, lost>>
      BY <1>6 DEF RSInformerWatch, apiVars, podInformer, cpi
  <2>2. RSInv'
      BY <1>1, <1>6, RSWatched
  <2>3. PodInv'
      BY <1>1, <2>1, PodFrame
  <2>4. Scheduled'
      BY <1>1, <1>2, <2>1, ScheduledFrame, SMTT(30)
  <2> QED
      BY <2>2, <2>3, <2>4
<1>7. ASSUME PodInformerRelist PROVE RSInv' /\ PodInv' /\ Scheduled'
  <2>1. /\ UNCHANGED <<rs, rsWatch, rsStore, rsEvents, rsIndexer, rsPendingDeletion, lock>>
        /\ lost \subseteq lost'
      BY <1>7 DEF PodInformerRelist, apiVars, rsInformer, cpi
  <2>2. RSInv'
      BY <1>1, <2>1, RSFrame, SMTT(30)
  <2>3. PodInv' /\ \A r \in ReplicaSets : Watched(r) => Watched(r)'
      BY <1>1, <1>7, PodListedAgain
  <2>4. Scheduled'
      BY <1>1, <2>1, <2>3, ScheduledFrame, SMTT(30)
  <2> QED
      BY <2>2, <2>3, <2>4
<1>8. ASSUME RSInformerRelist PROVE RSInv' /\ PodInv' /\ Scheduled'
  <2>1. /\ UNCHANGED <<pods, podWatch, podStore, podEvents, rsPendingDeletion, lock>>
        /\ lost \subseteq lost'
      BY <1>8 DEF RSInformerRelist, apiVars, podInformer, cpi
  <2>2. RSInv'
      BY <1>1, <1>8, RSListedAgain
  <2>3. PodInv'
      BY <1>1, <2>1, PodFrame
  <2>4. Scheduled'
      BY <1>1, <1>2, <2>1, ScheduledFrame
  <2> QED
      BY <2>2, <2>3, <2>4
<1>9. ASSUME PodHandler PROVE RSInv' /\ PodInv' /\ Scheduled'
    BY <1>9, PodHandled
<1>10. ASSUME RSHandler PROVE RSInv' /\ PodInv' /\ Scheduled'
  <2>1. UNCHANGED <<pods, podWatch, podStore, podEvents, lost>>
      BY <1>10 DEF RSHandler, apiVars, podInformer
  <2>2. RSInv'
      BY <1>1, <1>10, RSHandled
  <2>3. PodInv'
      BY <1>1, <2>1, PodFrame
  <2>4. Scheduled'
      BY <1>10, RSScheduled
  <2> QED
      BY <2>2, <2>3, <2>4
<1>11. ASSUME ClearRSDataEnd PROVE RSInv' /\ PodInv' /\ Scheduled'
  <2>1. UNCHANGED <<pods, podWatch, podStore, podEvents, lost>>
      BY <1>11, SMTT(30) DEF ClearRSDataEnd, apiVars, podInformer
  <2>2. RSInv'
      BY <1>1, <1>11, RSCleared
  <2>3. PodInv'
      BY <1>1, <2>1, PodFrame
  <2>4. Scheduled'
      BY <1>11, ClearedScheduled
  <2> QED
      BY <2>2, <2>3, <2>4
<1>12. CASE UNCHANGED vars
  <2>1. UNCHANGED <<rs, pods, used, podWatch, podStore, podEvents, rsWatch, rsStore, rsEvents,
                    rsIndexer, rsPendingDeletion, lock, lost>>
      BY <1>12 DEF vars, apiVars, podInformer, rsInformer, cpi
  <2>2. TypeOK'
      BY <1>1, <2>1 DEF TypeOK
  <2>3. RSInv'
      BY <1>1, <2>1, RSFrame
  <2>4. PodInv'
      BY <1>1, <2>1, PodFrame
  <2>5. Scheduled'
      BY <1>1, <1>2, <2>1, ScheduledFrame
  <2> QED
      BY <2>2, <2>3, <2>4, <2>5 DEF IInv
<1>13. CASE Next
  <2>1. RSInv' /\ PodInv' /\ Scheduled'
    <3>1. \A p \in Pods, r \in ReplicaSets : CreatePod(p, r) => RSInv' /\ PodInv' /\ Scheduled'
        BY <1>4 DEF CreatePod, UIDs
    <3>2. \A p \in Pods : ReleasePod(p) \/ DeletePod(p) => RSInv' /\ PodInv' /\ Scheduled'
        BY <1>4 DEF ReleasePod, DeletePod, UIDs
    <3> QED
        BY <1>3, <1>5, <1>6, <1>7, <1>8, <1>9, <1>10, <1>11, <1>13, <3>1, <3>2, SMTT(30)
           DEF Next, ClusterNext, InformerNext, HandlerNext
  <2> QED
      BY <1>1, <1>13, <2>1, TypeNext, SMTT(30) DEF IInv
<1> QED
    BY <1>12, <1>13

\* The inductive invariant: every ReplicaSet is in one place of its pipeline,
\* the events of a pod lead from the store to the cluster, and a ReplicaSet
\* that waits in rsPendingDeletion has somebody who will look at it.
THEOREM Invariance == Spec => []IInv
    BY InitIInv, NextIInv, PTL DEF Spec

\* The stores, queues and sets of the indexer and its informers keep their
\* types.
THEOREM TypeCorrect == Spec => []TypeOK
<1>1. IInv => TypeOK
    BY DEF IInv
<1> QED
    BY <1>1, Invariance, PTL

\* No interleaving of DeleteFunc of ReplicaSets, UpdateFunc and DeleteFunc of
\* pods and the informers loses the wakeup that removes a ReplicaSet.
THEOREM NoWakeupLost == Spec => []ClearScheduled
<1>1. IInv => ClearScheduled
  <2> SUFFICES ASSUME IInv, NEW r \in rsPendingDeletion \ (lost \cup {NoOwner})
               PROVE  r \in rsIndexer /\ (lock.rs = r \/ Watched(r))
      BY DEF ClearScheduled, Watched
  <2>1. r \in ReplicaSets
      BY SMTT(30) DEF IInv, TypeOK, UIDs
  <2>2. r \in rsIndexer
      BY <2>1 DEF IInv, RSInv, Gone
  <2> QED
      BY <2>1, <2>2, SMTT(30) DEF IInv, Scheduled
<1> QED
    BY <1>1, Invariance, PTL

\* Once everything is delivered and handled, rsIndexer and rsPendingDeletion
\* hold no deleted ReplicaSet without pods, but for those of which a relist
\* found a deletion.
THEOREM NothingLeft == Spec => []NoReplicaSetLeft
<1>1. IInv => NoReplicaSetLeft
  <2> SUFFICES ASSUME IInv, CaughtUp, NEW r \in Forgettable \ lost,
                      r \in rsIndexer \cup rsPendingDeletion
               PROVE  FALSE
      BY DEF NoReplicaSetLeft
  <2>1. r \in ReplicaSets /\ rs[r] = "deleted" /\ \A p \in Pods : pods[p] # r
      BY DEF Forgettable
  <2>2. /\ podWatch = <<>> /\ podEvents = <<>> /\ rsWatch = <<>> /\ rsEvents = <<>>
        /\ lock.rs # r
      BY <2>1, IndexerAssumption DEF CaughtUp, Free
  <2>3. \A p \in Pods : podStore[p] = pods[p]
      BY <2>2 DEF IInv, PodInv, Chain
  <2>4. ~Watched(r)
      BY <2>1, <2>2, <2>3, SMTT(30) DEF Watched, PodsOf
  <2>5. r \in rsPendingDeletion
    <3>1. \A t : ~Has(rsEvents, r, t) /\ ~Has(rsWatch, r, t)
        BY <2>2, HasNone
    <3> QED
        BY <2>1, <3>1 DEF IInv, RSInv, Announced
  <2> QED
      BY <2>1, <2>2, <2>4, <2>5 DEF IInv, Scheduled
<1> QED
    BY <1>1, Invariance, PTL

\* Once everything is delivered and handled, PodsControlledBy finds the pods of
\* a Deployment whose ReplicaSets exist, and no pod of another Deployment.
THEOREM PodsFound == Spec => []LivePodsFound
<1>1. IInv => LivePodsFound
  <2> SUFFICES ASSUME IInv, CaughtUp, NEW d \in Deployments
               PROVE  /\ {p \in Pods : \E r \in ReplicaSets :
                             Owner[r] = d /\ pods[p] = r /\ rs[r] = "exists"}
                           \subseteq PodsControlledBy(d)
                      /\ \A p \in PodsControlledBy(d) : Owner[pods[p]] = d
      BY DEF LivePodsFound
  <2>1. podWatch = <<>> /\ rsWatch = <<>> /\ rsEvents = <<>>
      BY DEF CaughtUp
  <2>2. \A p \in Pods : podStore[p] = pods[p]
      BY <2>1, SMTT(30) DEF IInv, PodInv, Chain
  <2>3. ASSUME NEW r \in ReplicaSets, rs[r] = "exists" PROVE r \in rsIndexer
    <3>1. \A t : ~Has(rsEvents, r, t) /\ ~Has(rsWatch, r, t)
        BY <2>1, HasNone
    <3> QED
        BY <2>3, <3>1 DEF IInv, RSInv, Place
  <2> QED
      BY <2>2, <2>3, SMTT(30) DEF PodsControlledBy
<1> QED
    BY <1>1, Invariance, PTL

==============================================================================
