------------------- MODULE ControlledPodsIndexerPodProofs --------------------
(***************************************************************************)
(* The pods between the cluster and the handlers, and the wakeups: each    *)
(* step that is not a relist keeps PodInv and Scheduled.                   *)
(***************************************************************************)
EXTENDS ControlledPodsIndexerRSProofs

(***************************************************************************)
(* The pods.                                                               *)
(***************************************************************************)

\* A write of pod x goes on where the chain of x ended.
LEMMA PodWritten ==
    ASSUME TypeOK, PodInv, NEW x \in Pods, NEW u \in UIDs \cup {None}, WritePod(x, u)
    PROVE  PodInv'
<1> DEFINE e == [pod |-> x, old |-> pods[x], new |-> u, tombstone |-> FALSE]
           n == Len(podWatch)
<1>1. /\ pods' = [pods EXCEPT ![x] = u]
      /\ podWatch' = Append(podWatch, e)
      /\ UNCHANGED <<podStore, podEvents, lost>>
    BY DEF WritePod
<1>2. /\ podWatch \in Seq(PodEvents) /\ e \in PodEvents
      /\ pods \in [Pods -> UIDs \cup {None}]
    BY DEF TypeOK, PodEvents
<1>3. /\ n \in Nat /\ Len(podWatch') = n + 1
      /\ \A i \in 1..n : podWatch'[i] = podWatch[i]
      /\ podWatch'[n + 1] = e
    BY <1>1, <1>2, AppendElements
<1>4. e.pod = x /\ e.old = pods[x] /\ e.new = u /\ ~e.tombstone
    OBVIOUS
<1>5. \A i \in 1..n : podWatch[i].pod \in Pods
  <2>1. \A i \in 1..n : podWatch[i] \in PodEvents
      BY <1>2
  <2> QED
      BY <2>1 DEF PodEvents
<1> HIDE DEF e, n
<1>6. Chain
    BY DEF PodInv
<1>7. \A i \in 1..(n + 1) : i = n + 1 \/ i \in 1..n
    BY <1>3
<1>8. ASSUME NEW i \in 1..(n + 1),
             \A j \in 1..(n + 1) : j < i => podWatch'[j].pod # podWatch'[i].pod
      PROVE  podWatch'[i].old = podStore'[podWatch'[i].pod]
  <2>1. CASE i \in 1..n
    <3>1. \A j \in 1..n : j < i => podWatch[j].pod # podWatch[i].pod
        BY <1>3, <1>8, <2>1
    <3> QED
        BY <1>1, <1>3, <1>6, <2>1, <3>1 DEF Chain, n
  <2>2. CASE i = n + 1
    <3>1. \A j \in 1..n : podWatch[j].pod # x
        BY <1>3, <1>4, <1>8, <2>2
    <3> QED
        BY <1>1, <1>3, <1>4, <1>6, <2>2, <3>1 DEF Chain, n
  <2> QED
      BY <1>7, <2>1, <2>2
<1>9. ASSUME NEW i \in 1..(n + 1), NEW j \in 1..(n + 1), i < j,
             podWatch'[i].pod = podWatch'[j].pod,
             \A k \in 1..(n + 1) : i < k /\ k < j => podWatch'[k].pod # podWatch'[i].pod
      PROVE  podWatch'[j].old = podWatch'[i].new
  <2>1. i \in 1..n
      BY <1>3, <1>9
  <2>2. CASE j \in 1..n
    <3>1. \A k \in 1..n : i < k /\ k < j => podWatch[k].pod # podWatch[i].pod
        BY <1>3, <1>9, <2>1
    <3> QED
        BY <1>3, <1>6, <1>9, <2>1, <2>2, <3>1 DEF Chain, n
  <2>3. CASE j = n + 1
    <3>1. podWatch[i].pod = x
        BY <1>3, <1>4, <1>9, <2>1, <2>3
    <3>2. \A k \in 1..n : i < k => podWatch[k].pod # podWatch[i].pod
        BY <1>3, <1>9, <2>1, <2>3
    <3>3. podWatch[i].new = pods[x]
        BY <1>6, <2>1, <3>1, <3>2 DEF Chain, n
    <3> QED
        BY <1>3, <1>4, <2>1, <2>3, <3>3
  <2> QED
      BY <1>7, <2>2, <2>3
<1>10. ASSUME NEW i \in 1..(n + 1),
              \A j \in 1..(n + 1) : i < j => podWatch'[j].pod # podWatch'[i].pod
       PROVE  podWatch'[i].new = pods'[podWatch'[i].pod]
  <2>1. CASE i \in 1..n
    <3>1. \A j \in 1..n : i < j => podWatch[j].pod # podWatch[i].pod
        BY <1>3, <1>10, <2>1
    <3>2. podWatch[i].pod # x
        BY <1>3, <1>4, <1>10, <2>1
    <3>3. podWatch[i].new = pods[podWatch[i].pod]
        BY <1>6, <2>1, <3>1 DEF Chain, n
    <3> QED
        BY <1>1, <1>2, <1>3, <1>5, <2>1, <3>2, <3>3
  <2>2. CASE i = n + 1
      BY <1>1, <1>2, <1>3, <1>4, <2>2
  <2> QED
      BY <1>7, <2>1, <2>2
<1>11. ASSUME NEW q \in Pods, \A i \in 1..(n + 1) : podWatch'[i].pod # q
       PROVE  podStore'[q] = pods'[q]
  <2>1. q # x
      BY <1>3, <1>4, <1>11
  <2>2. \A i \in 1..n : podWatch[i].pod # q
      BY <1>3, <1>11
  <2> QED
      BY <1>1, <1>2, <1>6, <2>1, <2>2 DEF Chain, n
<1>12. Chain'
    BY <1>3, <1>8, <1>9, <1>10, <1>11 DEF Chain
<1>13. Tombstones'
    BY <1>1, <1>3, <1>4, <1>7 DEF PodInv, Tombstones, n
<1> QED
    BY <1>12, <1>13 DEF PodInv

\* The pod informer gives up a ReplicaSet's pod only with an event about it.
LEMMA PodWatched ==
    ASSUME TypeOK, PodInv, PodInformerWatch
    PROVE  /\ PodInv'
           /\ \A r \in ReplicaSets : Watched(r) => Watched(r)'
<1> DEFINE e == Head(podWatch)
           n == Len(podWatch')
<1>1. /\ podWatch # <<>> /\ podWatch' = Tail(podWatch)
      /\ podStore' = [podStore EXCEPT ![e.pod] = e.new]
      /\ podEvents' = Append(podEvents, e)
      /\ UNCHANGED <<pods, lost>>
    BY DEF PodInformerWatch, apiVars
<1>2. /\ podWatch \in Seq(PodEvents) /\ podEvents \in Seq(PodEvents)
      /\ podStore \in [Pods -> UIDs \cup {None}]
    BY DEF TypeOK
<1>3. /\ n \in Nat /\ Len(podWatch) = n + 1
      /\ e = podWatch[1] /\ e \in PodEvents
      /\ \A i \in 1..n : podWatch'[i] = podWatch[i + 1]
    BY <1>1, <1>2, TailElements
<1>4. e.pod \in Pods
    BY <1>3 DEF PodEvents
<1>5. /\ Len(podEvents) \in Nat /\ Len(podEvents') = Len(podEvents) + 1
      /\ \A i \in 1..Len(podEvents) : podEvents'[i] = podEvents[i]
      /\ podEvents'[Len(podEvents) + 1] = e
    BY <1>1, <1>2, <1>3, AppendElements
<1>6. \A i \in 1..(n + 1) : podWatch[i].pod \in Pods
  <2>1. \A i \in 1..(n + 1) : podWatch[i] \in PodEvents
      BY <1>2, <1>3
  <2> QED
      BY <2>1 DEF PodEvents
<1> HIDE DEF e, n
<1>7. Chain
    BY DEF PodInv
<1>8. \A i \in 1..n : i + 1 \in 1..(n + 1)
    BY <1>3
<1>9. \A k \in 1..(n + 1) : k = 1 \/ (k - 1 \in 1..n /\ podWatch'[k - 1] = podWatch[k])
  <2>1. ASSUME NEW k \in 1..(n + 1), k # 1
        PROVE  k - 1 \in 1..n /\ podWatch'[k - 1] = podWatch[k]
    <3>1. k - 1 \in 1..n /\ (k - 1) + 1 = k
        BY <1>3, <2>1
    <3> QED
        BY <1>3, <3>1
  <2> QED
      BY <2>1
<1>10. e.old = podStore[e.pod]
  <2>1. 1 \in 1..(n + 1) /\ \A j \in 1..(n + 1) : ~(j < 1)
      BY <1>3
  <2> QED
      BY <1>3, <1>7, <2>1 DEF Chain
<1>11. ASSUME NEW i \in 1..n,
              \A j \in 1..n : j < i => podWatch'[j].pod # podWatch'[i].pod
       PROVE  podWatch'[i].old = podStore'[podWatch'[i].pod]
  <2>1. \A k \in 1..(n + 1) : k < i + 1 /\ k # 1 => podWatch[k].pod # podWatch[i + 1].pod
    <3>1. ASSUME NEW k \in 1..(n + 1), k < i + 1, k # 1
          PROVE  podWatch[k].pod # podWatch[i + 1].pod
      <4>1. k - 1 \in 1..n /\ k - 1 < i /\ podWatch'[k - 1] = podWatch[k]
          BY <1>3, <1>9, <3>1
      <4> QED
          BY <1>3, <1>11, <4>1
    <3> QED
        BY <3>1
  <2>2. CASE podWatch[i + 1].pod = e.pod
    <3>1. \A k \in 1..(n + 1) : 1 < k /\ k < i + 1 => podWatch[k].pod # podWatch[1].pod
        BY <1>3, <2>1, <2>2
    <3>2. podWatch[i + 1].old = podWatch[1].new
      <4>1. 1 \in 1..(n + 1) /\ 1 < i + 1
          BY <1>3
      <4> QED
          BY <1>3, <1>7, <1>8, <2>2, <3>1, <4>1 DEF Chain
    <3> QED
        BY <1>1, <1>2, <1>3, <1>4, <2>2, <3>2
  <2>3. CASE podWatch[i + 1].pod # e.pod
    <3>1. \A k \in 1..(n + 1) : k < i + 1 => podWatch[k].pod # podWatch[i + 1].pod
        BY <1>3, <2>1, <2>3
    <3>2. podWatch[i + 1].old = podStore[podWatch[i + 1].pod]
        BY <1>3, <1>7, <1>8, <3>1 DEF Chain
    <3> QED
        BY <1>1, <1>2, <1>3, <1>6, <1>8, <2>3, <3>2
  <2> QED
      BY <2>2, <2>3
<1>12. ASSUME NEW i \in 1..n, NEW j \in 1..n, i < j,
              podWatch'[i].pod = podWatch'[j].pod,
              \A k \in 1..n : i < k /\ k < j => podWatch'[k].pod # podWatch'[i].pod
       PROVE  podWatch'[j].old = podWatch'[i].new
  <2>1. \A k \in 1..(n + 1) : i + 1 < k /\ k < j + 1 => podWatch[k].pod # podWatch[i + 1].pod
    <3>1. ASSUME NEW k \in 1..(n + 1), i + 1 < k, k < j + 1
          PROVE  podWatch[k].pod # podWatch[i + 1].pod
      <4>1. k # 1 /\ i < k - 1 /\ k - 1 < j
          BY <1>3, <3>1
      <4>2. k - 1 \in 1..n /\ podWatch'[k - 1] = podWatch[k]
          BY <1>9, <4>1
      <4> QED
          BY <1>3, <1>12, <4>1, <4>2
    <3> QED
        BY <3>1
  <2>2. i + 1 \in 1..(n + 1) /\ j + 1 \in 1..(n + 1) /\ i + 1 < j + 1
      BY <1>3, <1>12
  <2>3. podWatch[i + 1].pod = podWatch[j + 1].pod
      BY <1>3, <1>12
  <2>4. podWatch[j + 1].old = podWatch[i + 1].new
      BY <1>3, <1>7, <2>1, <2>2, <2>3 DEF Chain
  <2> QED
      BY <1>3, <2>4
<1>13. ASSUME NEW i \in 1..n,
              \A j \in 1..n : i < j => podWatch'[j].pod # podWatch'[i].pod
       PROVE  podWatch'[i].new = pods'[podWatch'[i].pod]
  <2>1. \A k \in 1..(n + 1) : i + 1 < k => podWatch[k].pod # podWatch[i + 1].pod
    <3>1. ASSUME NEW k \in 1..(n + 1), i + 1 < k
          PROVE  podWatch[k].pod # podWatch[i + 1].pod
      <4>1. k - 1 \in 1..n /\ i < k - 1 /\ podWatch'[k - 1] = podWatch[k]
          BY <1>3, <1>9, <3>1
      <4> QED
          BY <1>3, <1>13, <4>1
    <3> QED
        BY <3>1
  <2>2. podWatch[i + 1].new = pods[podWatch[i + 1].pod]
      BY <1>3, <1>7, <1>8, <2>1, SMTT(30) DEF Chain
  <2> QED
      BY <1>1, <1>3, <2>2
<1>14. ASSUME NEW q \in Pods, \A i \in 1..n : podWatch'[i].pod # q
       PROVE  podStore'[q] = pods'[q]
  <2>1. \A k \in 1..(n + 1) : k # 1 => podWatch[k].pod # q
      BY <1>9, <1>14
  <2>2. CASE q = e.pod
    <3>1. \A k \in 1..(n + 1) : 1 < k => podWatch[k].pod # podWatch[1].pod
        BY <1>3, <2>1, <2>2
    <3>2. 1 \in 1..(n + 1)
        BY <1>3
    <3>3. podWatch[1].new = pods[q]
        BY <1>3, <1>7, <2>2, <3>1, <3>2 DEF Chain
    <3> QED
        BY <1>1, <1>2, <1>3, <2>2, <3>3
  <2>3. CASE q # e.pod
    <3>1. \A k \in 1..(n + 1) : podWatch[k].pod # q
        BY <1>3, <2>1, <2>3, SMTT(30)
    <3> QED
        BY <1>1, <1>2, <1>3, <1>7, <2>3, <3>1 DEF Chain
  <2> QED
      BY <2>2, <2>3
<1>15. Chain'
    BY <1>11, <1>12, <1>13, <1>14, SMTT(30) DEF Chain, n
<1>16. Tombstones'
  <2>1. ~e.tombstone
    <3>1. 1 \in 1..Len(podWatch)
        BY <1>3
    <3> QED
        BY <1>3, <3>1 DEF PodInv, Tombstones
  <2>2. \A i \in 1..n : ~podWatch'[i].tombstone
      BY <1>3, <1>8 DEF PodInv, Tombstones
  <2>3. \A i \in 1..Len(podEvents') : i = Len(podEvents) + 1 \/ i \in 1..Len(podEvents)
      BY <1>5
  <2> QED
      BY <1>1, <1>5, <2>1, <2>2, <2>3 DEF PodInv, Tombstones, n
<1>17. ASSUME NEW r \in ReplicaSets, Watched(r)
       PROVE  Watched(r)'
  <2>1. CASE \E i \in 1..Len(podEvents) : podEvents[i].old = r /\ podEvents[i].new # r
    <3>1. PICK i \in 1..Len(podEvents) : podEvents[i].old = r /\ podEvents[i].new # r
        BY <2>1
    <3>2. i \in 1..Len(podEvents') /\ podEvents'[i] = podEvents[i]
        BY <1>5
    <3> QED
        BY <3>1, <3>2 DEF Watched
  <2>2. CASE PodsOf(r) # {}
    <3>1. PICK q \in Pods : podStore[q] = r
        BY <2>2 DEF PodsOf
    <3>2. CASE q = e.pod /\ e.new # r
      <4>1. Len(podEvents) + 1 \in 1..Len(podEvents')
          BY <1>5
      <4> QED
          BY <1>5, <1>10, <3>1, <3>2, <4>1 DEF Watched
    <3>3. CASE ~(q = e.pod /\ e.new # r)
      <4>1. podStore'[q] = r
          BY <1>1, <1>2, <3>1, <3>3
      <4> QED
          BY <4>1 DEF Watched, PodsOf
    <3> QED
        BY <3>2, <3>3
  <2> QED
      BY <1>17, <2>1, <2>2 DEF Watched
<1> QED
    BY <1>15, <1>16, <1>17 DEF PodInv

\* A step that leaves the pods and their informer alone.
LEMMA PodFrame ==
    ASSUME PodInv, UNCHANGED <<pods, podWatch, podStore, podEvents>>, lost \subseteq lost'
    PROVE  PodInv'
    BY DEF PodInv, Chain, Tombstones

-----------------------------------------------------------------------------
(***************************************************************************)
(* The wakeups.                                                            *)
(***************************************************************************)

\* The handler of pods removes the ReplicaSet of an event that was its last
\* hope, and ignores only events that are nobody's hope.
LEMMA PodHandled ==
    ASSUME IInv, PodHandler
    PROVE  RSInv' /\ PodInv' /\ Scheduled'
<1> DEFINE e == Head(podEvents)
           n == Len(podEvents')
<1>1. /\ podEvents # <<>> /\ podEvents' = Tail(podEvents)
      /\ \/ /\ e.old = None \/ (e.new # None /\ e.old = e.new)
            /\ UNCHANGED lock
         \/ /\ e.old # None /\ e.old # e.new /\ lock = Free
            /\ ClearRSDataBegin("pods", OwnerOf(e))
      /\ UNCHANGED <<rs, pods, podWatch, podStore, rsWatch, rsStore, rsEvents, rsIndexer,
                     rsPendingDeletion, lost>>
    BY Zenon DEF PodHandler, apiVars, rsInformer
<1>2. TypeOK /\ RSInv /\ PodInv /\ Scheduled
    BY DEF IInv
<1>3. podEvents \in Seq(PodEvents)
    BY <1>2 DEF TypeOK
<1>4. /\ n \in Nat /\ Len(podEvents) = n + 1 /\ e = podEvents[1]
      /\ \A i \in 1..n : podEvents'[i] = podEvents[i + 1]
    BY <1>1, <1>3, TailElements
<1>5. lock' = lock \/ lock' = Free \/ lock'.rs \in rsPendingDeletion
    BY <1>1 DEF ClearRSDataBegin
<1>6. RSInv'
    BY <1>1, <1>2, <1>5, RSFrame
<1> HIDE DEF e, n
<1>7. PodInv'
  <2>1. \A i \in 1..n : i + 1 \in 1..Len(podEvents)
      BY <1>4
  <2>2. \A i \in 1..n : podEvents'[i].tombstone => podEvents'[i].old \in lost
      BY <1>2, <1>4, <2>1 DEF PodInv, Tombstones
  <2>3. Tombstones'
      BY <1>1, <1>2, <2>2 DEF PodInv, Tombstones, n
  <2> QED
      BY <1>1, <1>2, <2>3, SMTT(30) DEF PodInv, Chain
<1>8. ASSUME NEW r \in ReplicaSets, r \in rsPendingDeletion \ lost
      PROVE  lock'.rs = r \/ Watched(r)'
  <2>1. r # None /\ r # NoOwner
      BY IndexerAssumption
  <2>2. PodsOf(r) # {} => Watched(r)'
      BY <1>1 DEF Watched, PodsOf
  <2>3. ASSUME NEW i \in 1..Len(podEvents), podEvents[i].old = r, podEvents[i].new # r, i # 1
        PROVE  Watched(r)'
    <3>1. i - 1 \in 1..n /\ (i - 1) + 1 = i
        BY <1>4, <2>3
    <3>2. podEvents'[i - 1] = podEvents[i]
        BY <1>4, <3>1
    <3> QED
        BY <2>3, <3>1, <3>2 DEF Watched, n
  <2>4. lock.rs = r \/ Watched(r)
      BY <1>2, <1>8 DEF Scheduled
  <2>5. CASE /\ e.old = None \/ (e.new # None /\ e.old = e.new)
             /\ UNCHANGED lock
    <3>1. CASE lock.rs = r
        BY <2>5, <3>1
    <3>2. CASE \E i \in 1..Len(podEvents) : podEvents[i].old = r /\ podEvents[i].new # r
      <4>1. PICK i \in 1..Len(podEvents) : podEvents[i].old = r /\ podEvents[i].new # r
          BY <3>2
      <4>2. i # 1
          BY <1>4, <2>1, <2>5, <4>1
      <4> QED
          BY <2>3, <4>1, <4>2
    <3> QED
        BY <2>2, <2>4, <3>1, <3>2 DEF Watched
  <2>6. CASE /\ e.old # None /\ e.old # e.new /\ lock = Free
             /\ ClearRSDataBegin("pods", OwnerOf(e))
    <3>1. Watched(r)
        BY <2>1, <2>4, <2>6 DEF Free
    <3>2. CASE PodsOf(r) = {}
      <4>1. PICK i \in 1..Len(podEvents) : podEvents[i].old = r /\ podEvents[i].new # r
          BY <3>1, <3>2 DEF Watched
      <4>2. CASE i = 1
        <5>1. ~e.tombstone /\ e.old = r
            BY <1>2, <1>4, <1>8, <4>1, <4>2 DEF PodInv, Tombstones
        <5>2. lock' = [by |-> "pods", rs |-> r]
            BY <1>1, <1>8, <2>6, <3>2, <5>1 DEF ClearRSDataBegin, OwnerOf
        <5> QED
            BY <5>2
      <4> QED
          BY <2>3, <4>1, <4>2
    <3> QED
        BY <2>2, <3>2
  <2> QED
      BY <1>1, <2>5, <2>6 DEF e
<1>9. Scheduled'
    BY <1>1, <1>8 DEF Scheduled
<1> QED
    BY <1>6, <1>7, <1>9

\* The handler of ReplicaSets looks at the pods after it has marked.
LEMMA RSScheduled ==
    ASSUME IInv, RSHandler
    PROVE  Scheduled'
<1> DEFINE e == Head(rsEvents)
<1>1. /\ \/ UNCHANGED <<rsPendingDeletion, lock>>
         \/ /\ lock = Free
            /\ rsPendingDeletion' = rsPendingDeletion \cup {UIDOf(e)}
            /\ ClearRSDataBegin("rs", UIDOf(e))
      /\ UNCHANGED <<podStore, podEvents, lost>>
    BY DEF RSHandler, podInformer
<1>2. Scheduled
    BY DEF IInv
<1> HIDE DEF e
<1>3. ASSUME NEW r \in ReplicaSets, r \in rsPendingDeletion' \ lost
      PROVE  lock'.rs = r \/ Watched(r)'
  <2>1. Watched(r) => Watched(r)'
      BY <1>1 DEF Watched, PodsOf
  <2>2. CASE UNCHANGED <<rsPendingDeletion, lock>>
      BY <1>2, <1>3, <2>1, <2>2 DEF Scheduled
  <2>3. CASE /\ lock = Free
             /\ rsPendingDeletion' = rsPendingDeletion \cup {UIDOf(e)}
             /\ ClearRSDataBegin("rs", UIDOf(e))
    <3>1. lock.rs # r
        BY <2>3, IndexerAssumption DEF Free
    <3>2. CASE r \in rsPendingDeletion
        BY <1>2, <1>3, <2>1, <3>1, <3>2 DEF Scheduled
    <3>3. CASE r = UIDOf(e) /\ PodsOf(r) = {}
      <4>1. lock' = [by |-> "rs", rs |-> r]
          BY <1>3, <2>3, <3>3 DEF ClearRSDataBegin
      <4> QED
          BY <4>1
    <3>4. CASE PodsOf(r) # {}
        BY <2>1, <3>4 DEF Watched
    <3> QED
        BY <1>3, <2>3, <3>2, <3>3, <3>4
  <2> QED
      BY <1>1, <2>2, <2>3
<1> QED
    BY <1>1, <1>3 DEF Scheduled

\* What is removed waits no more.
LEMMA ClearedScheduled ==
    ASSUME IInv, ClearRSDataEnd
    PROVE  Scheduled'
<1>1. /\ rsPendingDeletion' = rsPendingDeletion \ {lock.rs}
      /\ UNCHANGED <<podStore, podEvents, lost>>
    BY DEF ClearRSDataEnd, podInformer
<1>2. \A r : Watched(r) => Watched(r)'
    BY <1>1 DEF Watched, PodsOf
<1> QED
    BY <1>1, <1>2 DEF IInv, Scheduled

\* Other steps start and end no removal.
LEMMA ScheduledFrame ==
    ASSUME Scheduled, UNCHANGED <<rsPendingDeletion, lock>>, lost \subseteq lost',
           \A r \in ReplicaSets : Watched(r) => Watched(r)'
    PROVE  Scheduled'
    BY DEF Scheduled

==============================================================================
