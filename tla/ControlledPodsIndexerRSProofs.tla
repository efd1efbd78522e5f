-------------------- MODULE ControlledPodsIndexerRSProofs --------------------
(***************************************************************************)
(* Why the two handlers of the pods indexer lose no wakeup, for any number *)
(* of ReplicaSets and pods, and with watches that break at any time.       *)
(*                                                                         *)
(* The argument.  A ReplicaSet is in one place of a pipeline: its creation *)
(* is in the watch, or in the informer's store and then in an event or in  *)
(* rsIndexer; its deletion is behind its creation, and nothing is behind   *)
(* its deletion.  So what is put into rsPendingDeletion is in rsIndexer    *)
(* and is not put there a second time (RSInv).  The events of a pod form a *)
(* chain from the store to the cluster, so that the store gives a          *)
(* ReplicaSet's pod up only together with an event that says so (PodInv).  *)
(***************************************************************************)
EXTENDS ControlledPodsIndexer, PipelineLemmas

\* An event of type t of ReplicaSet r is in q.
Has(q, r, t) == \E i \in 1..Len(q) : q[i].rs = r /\ q[i].type = t

\* Nothing but the deletion of a ReplicaSet follows its creation in the watch.
WatchOrder ==
    /\ \A i, j \in 1..Len(rsWatch) :
          i < j /\ rsWatch[i].rs = rsWatch[j].rs =>
             rsWatch[i].type = "add" /\ rsWatch[j].type = "delete"
    /\ \A i \in 1..Len(rsWatch) : rsWatch[i].type # "tombstone"

\* Nothing follows the deletion of a ReplicaSet in the events.
EventOrder ==
    \A i, j \in 1..Len(rsEvents) :
       i < j /\ rsEvents[i].type = "delete" => rsEvents[j].rs # rsEvents[i].rs

\* Where ReplicaSet r is.
Place(r) ==
    /\ rs[r] = "none" =>
          /\ r \notin rsStore \cup rsIndexer
          /\ ~Has(rsWatch, r, "add") /\ ~Has(rsEvents, r, "add")
    /\ Has(rsWatch, r, "delete") =>
          rs[r] = "deleted" /\ (r \in rsStore \/ Has(rsWatch, r, "add"))
    /\ rs[r] = "exists" => r \in rsStore \/ Has(rsWatch, r, "add")
    /\ Has(rsWatch, r, "add") =>
          /\ r \notin rsStore \cup rsIndexer
          /\ ~Has(rsEvents, r, "add")
          /\ rs[r] = "deleted" => Has(rsWatch, r, "delete")
    /\ r \in rsStore => r \in rsIndexer \/ Has(rsEvents, r, "add")

\* A ReplicaSet whose deletion the informer has seen.
Gone(r) ==
    /\ r \in rsPendingDeletion \/ Has(rsEvents, r, "delete") =>
          /\ rs[r] = "deleted" /\ r \notin rsStore
          /\ ~Has(rsWatch, r, "add") /\ ~Has(rsWatch, r, "delete")
          /\ r \in rsIndexer \/ Has(rsEvents, r, "add")
    /\ r \in rsPendingDeletion =>
          ~Has(rsEvents, r, "add") /\ ~Has(rsEvents, r, "delete")

\* Unless a relist found it, the deletion of a known ReplicaSet is on its way.
Announced(r) ==
    /\ rs[r] = "deleted"
    /\ r \in rsStore \cup rsIndexer \/ Has(rsEvents, r, "add")
    => \/ r \in lost \cup rsPendingDeletion
       \/ Has(rsEvents, r, "delete") \/ Has(rsWatch, r, "delete")

RSInv ==
    /\ WatchOrder /\ EventOrder
    /\ \A r \in ReplicaSets : Place(r) /\ Gone(r) /\ Announced(r)
    /\ lock # Free => lock.rs \in rsPendingDeletion

\* The watch leads from the store to the cluster, for each pod in steps that
\* begin where the one before ended.
Chain ==
    /\ \A i \in 1..Len(podWatch) :
          (\A j \in 1..Len(podWatch) : j < i => podWatch[j].pod # podWatch[i].pod)
             => podWatch[i].old = podStore[podWatch[i].pod]
    /\ \A i, j \in 1..Len(podWatch) :
          /\ i < j /\ podWatch[i].pod = podWatch[j].pod
          /\ \A k \in 1..Len(podWatch) : i < k /\ k < j => podWatch[k].pod # podWatch[i].pod
          => podWatch[j].old = podWatch[i].new
    /\ \A i \in 1..Len(podWatch) :
          (\A j \in 1..Len(podWatch) : i < j => podWatch[j].pod # podWatch[i].pod)
             => podWatch[i].new = pods[podWatch[i].pod]
    /\ \A p \in Pods :
          (\A i \in 1..Len(podWatch) : podWatch[i].pod # p) => podStore[p] = pods[p]

\* Only relists make tombstones.
Tombstones ==
    /\ \A i \in 1..Len(podWatch) : ~podWatch[i].tombstone
    /\ \A i \in 1..Len(podEvents) : podEvents[i].tombstone => podEvents[i].old \in lost

PodInv == Chain /\ Tombstones

\* The store has a pod of r, or an event tells that it has one no more.
Watched(r) ==
    \/ PodsOf(r) # {}
    \/ \E i \in 1..Len(podEvents) : podEvents[i].old = r /\ podEvents[i].new # r

\* A ReplicaSet that waits for its deletion is not forgotten.
Scheduled == \A r \in ReplicaSets :
    r \in rsPendingDeletion \ lost => lock.rs = r \/ Watched(r)

IInv == TypeOK /\ RSInv /\ PodInv /\ Scheduled

-----------------------------------------------------------------------------
(***************************************************************************)
(* Queues.                                                                 *)
(***************************************************************************)

\* Nothing is in an empty queue.
LEMMA HasNone ==
    ASSUME NEW q, q = <<>>, NEW r, NEW t
    PROVE  ~Has(q, r, t)
<1>1. 1..Len(q) = {}
    OBVIOUS
<1> QED
    BY <1>1 DEF Has

\* An event at the end of a queue is one more event.
LEMMA HasAppend ==
    ASSUME NEW q \in Seq(RSEvents), NEW e \in RSEvents, NEW r, NEW t
    PROVE  Has(Append(q, e), r, t) <=> Has(q, r, t) \/ (e.rs = r /\ e.type = t)
<1> DEFINE s == Append(q, e)
<1>1. /\ Len(s) = Len(q) + 1 /\ Len(q) \in Nat
      /\ \A i \in 1..Len(q) : s[i] = q[i]
      /\ s[Len(q) + 1] = e
    BY AppendElements
<1> HIDE DEF s
<1>2. Has(s, r, t) <=> Has(q, r, t) \/ (e.rs = r /\ e.type = t)
    BY <1>1 DEF Has
<1> QED
    BY <1>2 DEF s

\* The events of a queue are its head and those of its tail.
LEMMA HasTail ==
    ASSUME NEW q \in Seq(RSEvents), q # <<>>, NEW r, NEW t
    PROVE  Has(q, r, t) <=> Has(Tail(q), r, t) \/ (Head(q).rs = r /\ Head(q).type = t)
<1> DEFINE s == Tail(q)
<1>1. /\ Len(q) > 0 /\ Len(s) = Len(q) - 1 /\ Len(q) \in Nat
      /\ \A i \in 1..Len(s) : s[i] = q[i + 1]
      /\ Head(q) = q[1]
    BY TailElements
<1> HIDE DEF s
<1>2. ASSUME NEW i \in 1..Len(q), i # 1
      PROVE  i - 1 \in 1..Len(s) /\ s[i - 1] = q[i]
    BY <1>1, <1>2
<1>3. Has(q, r, t) <=> Has(s, r, t) \/ (Head(q).rs = r /\ Head(q).type = t)
    BY <1>1, <1>2, SMTT(30) DEF Has
<1> QED
    BY <1>3 DEF s

\* The events of two queues in a row.
LEMMA HasConcat ==
    ASSUME NEW q \in Seq(RSEvents), NEW s \in Seq(RSEvents), NEW r, NEW t
    PROVE  Has(q \o s, r, t) <=> Has(q, r, t) \/ Has(s, r, t)
<1> DEFINE c == q \o s
<1>1. /\ Len(c) = Len(q) + Len(s) /\ Len(q) \in Nat /\ Len(s) \in Nat
      /\ \A i \in 1..Len(q) : c[i] = q[i]
      /\ \A i \in 1..Len(s) : c[Len(q) + i] = s[i]
    OBVIOUS
<1> HIDE DEF c
<1>2. ASSUME NEW i \in 1..Len(c), i \notin 1..Len(q)
      PROVE  i - Len(q) \in 1..Len(s) /\ s[i - Len(q)] = c[i]
  <2>1. i - Len(q) \in 1..Len(s) /\ Len(q) + (i - Len(q)) = i
      BY <1>1, <1>2
  <2> QED
      BY <1>1, <2>1
<1>3. ASSUME NEW i \in 1..Len(s)
      PROVE  Len(q) + i \in 1..Len(c)
    BY <1>1, <1>3
<1>4. ASSUME Has(c, r, t) PROVE Has(q, r, t) \/ Has(s, r, t)
  <2>1. PICK i \in 1..Len(c) : c[i].rs = r /\ c[i].type = t
      BY <1>4 DEF Has
  <2>2. CASE i \in 1..Len(q)
      BY <1>1, <2>1, <2>2 DEF Has
  <2>3. CASE i \notin 1..Len(q)
      BY <1>2, <2>1, <2>3 DEF Has
  <2> QED
      BY <2>2, <2>3
<1>5. ASSUME Has(q, r, t) PROVE Has(c, r, t)
  <2>1. PICK i \in 1..Len(q) : q[i].rs = r /\ q[i].type = t
      BY <1>5 DEF Has
  <2>2. i \in 1..Len(c) /\ c[i] = q[i]
      BY <1>1
  <2> QED
      BY <2>1, <2>2 DEF Has
<1>6. ASSUME Has(s, r, t) PROVE Has(c, r, t)
  <2>1. PICK i \in 1..Len(s) : s[i].rs = r /\ s[i].type = t
      BY <1>6 DEF Has
  <2>2. Len(q) + i \in 1..Len(c) /\ c[Len(q) + i] = s[i]
      BY <1>1, <1>3
  <2> QED
      BY <2>1, <2>2 DEF Has
<1> QED
    BY <1>4, <1>5, <1>6 DEF c

-----------------------------------------------------------------------------
(***************************************************************************)
(* The ReplicaSets.                                                        *)
(***************************************************************************)

\* A write of ReplicaSet x keeps the order of the watch and the places.
LEMMA RSWritten ==
    ASSUME TypeOK, RSInv, NEW x \in ReplicaSets,
           CreateReplicaSet(x) \/ DeleteReplicaSet(x)
    PROVE  RSInv'
<1> DEFINE t == IF rs[x] = "none" THEN "add" ELSE "delete"
           st == IF rs[x] = "none" THEN "exists" ELSE "deleted"
           e == [rs |-> x, type |-> t]
<1>1. /\ rs[x] \in {"none", "exists"}
      /\ rs' = [rs EXCEPT ![x] = st]
      /\ rsWatch' = Append(rsWatch, e)
      /\ UNCHANGED <<rsStore, rsEvents, rsIndexer, rsPendingDeletion, lock, lost>>
    BY DEF CreateReplicaSet, DeleteReplicaSet, WriteRS, cpi
<1>2. rsWatch \in Seq(RSEvents) /\ e \in RSEvents /\ rs \in [ReplicaSets -> {"none", "exists", "deleted"}]
    BY DEF TypeOK, RSEvents
<1>3. ASSUME NEW r \in ReplicaSets
      PROVE  /\ Has(rsWatch', r, "add") <=> Has(rsWatch, r, "add") \/ (x = r /\ t = "add")
             /\ Has(rsWatch', r, "delete") <=> Has(rsWatch, r, "delete") \/ (x = r /\ t = "delete")
  <2>1. \A u : Has(Append(rsWatch, e), r, u) <=> Has(rsWatch, r, u) \/ (e.rs = r /\ e.type = u)
    <3> HIDE DEF e
    <3> QED
        BY <1>2, HasAppend
  <2> QED
      BY <1>1, <2>1
<1>4. ASSUME NEW r \in ReplicaSets
      PROVE  Place(r)' /\ Gone(r)' /\ Announced(r)'
  <2>1. Place(r) /\ Gone(r) /\ Announced(r)
      BY DEF RSInv
  <2>2. CASE r = x
      BY <1>1, <1>2, <1>3, <2>1, <2>2 DEF Place, Gone, Announced
  <2>3. CASE r # x
      BY <1>1, <1>2, <1>3, <2>1, <2>3 DEF Place, Gone, Announced
  <2> QED
      BY <2>2, <2>3
<1>5. WatchOrder'
  <2>1. \A i \in 1..Len(rsWatch) : rsWatch[i].rs = x => t = "delete" /\ rsWatch[i].type = "add"
    <3>1. Place(x)
        BY DEF RSInv
    <3>2. ASSUME NEW i \in 1..Len(rsWatch), rsWatch[i].rs = x
          PROVE  t = "delete" /\ rsWatch[i].type = "add"
      <4>1. rsWatch[i].type \in {"add", "delete"}
        <5>1. rsWatch[i] \in RSEvents
            BY <1>2
        <5> QED
            BY <5>1 DEF RSInv, WatchOrder, RSEvents
      <4>2. Has(rsWatch, x, rsWatch[i].type)
          BY <3>2 DEF Has
      <4> QED
          BY <1>1, <3>1, <4>1, <4>2 DEF Place
    <3> QED
        BY <3>2
  <2>2. /\ Len(rsWatch') = Len(rsWatch) + 1 /\ Len(rsWatch) \in Nat
        /\ \A i \in 1..Len(rsWatch) : rsWatch'[i] = rsWatch[i]
        /\ rsWatch'[Len(rsWatch) + 1] = e
      BY <1>1, <1>2
  <2>3. WatchOrder
      BY DEF RSInv
  <2>4. ASSUME NEW i \in 1..Len(rsWatch'), NEW j \in 1..Len(rsWatch'), i < j,
               rsWatch'[i].rs = rsWatch'[j].rs
        PROVE  rsWatch'[i].type = "add" /\ rsWatch'[j].type = "delete"
    <3>1. i \in 1..Len(rsWatch)
        BY <2>2, <2>4
    <3>2. CASE j \in 1..Len(rsWatch)
        BY <2>2, <2>3, <2>4, <3>1, <3>2 DEF WatchOrder
    <3>3. CASE j = Len(rsWatch) + 1
        BY <2>1, <2>2, <2>4, <3>1, <3>3
    <3> QED
        BY <2>2, <3>2, <3>3
  <2>5. \A i \in 1..Len(rsWatch') : rsWatch'[i].type # "tombstone"
      BY <2>2, <2>3 DEF WatchOrder
  <2> QED
      BY <2>4, <2>5 DEF WatchOrder
<1>6. EventOrder' /\ (lock # Free => lock.rs \in rsPendingDeletion)'
    BY <1>1 DEF RSInv, EventOrder, Free
<1> QED
    BY <1>4, <1>5, <1>6 DEF RSInv

\* The ReplicaSet informer moves an event from the watch to its handlers.
LEMMA RSWatched ==
    ASSUME TypeOK, RSInv, RSInformerWatch
    PROVE  RSInv'
<1> DEFINE e == Head(rsWatch)
<1>1. /\ rsWatch # <<>>
      /\ rsStore' = IF e.type = "delete" THEN rsStore \ {e.rs} ELSE rsStore \cup {e.rs}
      /\ rsEvents' = Append(rsEvents, e)
      /\ rsWatch' = Tail(rsWatch)
      /\ UNCHANGED <<rs, rsIndexer, rsPendingDeletion, lock, lost>>
    BY DEF RSInformerWatch, apiVars, cpi
<1>2. /\ rsWatch \in Seq(RSEvents) /\ rsEvents \in Seq(RSEvents)
      /\ rs \in [ReplicaSets -> {"none", "exists", "deleted"}]
      /\ rsStore \in SUBSET ReplicaSets
    BY DEF TypeOK
<1>3. /\ Len(rsWatch) \in Nat /\ Len(rsWatch) > 0 /\ e = rsWatch[1] /\ e \in RSEvents
      /\ Len(rsWatch') = Len(rsWatch) - 1
      /\ \A i \in 1..Len(rsWatch') : rsWatch'[i] = rsWatch[i + 1]
    BY <1>1, <1>2, TailElements
<1>4. /\ Len(rsEvents) \in Nat /\ Len(rsEvents') = Len(rsEvents) + 1
      /\ \A i \in 1..Len(rsEvents) : rsEvents'[i] = rsEvents[i]
      /\ rsEvents'[Len(rsEvents) + 1] = e
    BY <1>1, <1>2, <1>3, AppendElements
<1>5. WatchOrder /\ EventOrder
    BY DEF RSInv
<1>6. e.rs \in ReplicaSets /\ e.type \in {"add", "delete"}
    BY <1>3, <1>5 DEF WatchOrder, RSEvents
<1> HIDE DEF e
<1>7. ASSUME NEW r \in ReplicaSets, NEW u
      PROVE  /\ Has(rsWatch, r, u) <=> Has(rsWatch', r, u) \/ (e.rs = r /\ e.type = u)
             /\ Has(rsEvents', r, u) <=> Has(rsEvents, r, u) \/ (e.rs = r /\ e.type = u)
  <2>1. Has(rsWatch, r, u) <=> Has(Tail(rsWatch), r, u) \/ (e.rs = r /\ e.type = u)
      BY <1>1, <1>2, HasTail DEF e
  <2>2. Has(Append(rsEvents, e), r, u) <=> Has(rsEvents, r, u) \/ (e.rs = r /\ e.type = u)
      BY <1>2, <1>3, HasAppend
  <2> QED
      BY <1>1, <2>1, <2>2
<1>8. \A i \in 1..Len(rsWatch') :
         rsWatch'[i].rs = e.rs => e.type = "add" /\ rsWatch'[i].type = "delete"
  <2>1. ASSUME NEW i \in 1..Len(rsWatch'), rsWatch'[i].rs = e.rs
        PROVE  e.type = "add" /\ rsWatch'[i].type = "delete"
    <3>1. i + 1 \in 1..Len(rsWatch) /\ 1 \in 1..Len(rsWatch) /\ 1 < i + 1
        BY <1>3
    <3> QED
        BY <1>3, <1>5, <2>1, <3>1 DEF WatchOrder
  <2> QED
      BY <2>1
<1>9. ~Has(rsWatch', e.rs, "add") /\ (e.type = "delete" => ~Has(rsWatch', e.rs, "delete"))
    BY <1>8 DEF Has
<1>10. ASSUME NEW r \in ReplicaSets
       PROVE  Place(r)' /\ Gone(r)' /\ Announced(r)'
  <2>1. Place(r) /\ Gone(r) /\ Announced(r)
      BY DEF RSInv
  <2>2. /\ Has(rsWatch, r, "add") <=> Has(rsWatch', r, "add") \/ (e.rs = r /\ e.type = "add")
        /\ Has(rsWatch, r, "delete") <=> Has(rsWatch', r, "delete") \/ (e.rs = r /\ e.type = "delete")
        /\ Has(rsEvents', r, "add") <=> Has(rsEvents, r, "add") \/ (e.rs = r /\ e.type = "add")
        /\ Has(rsEvents', r, "delete") <=> Has(rsEvents, r, "delete") \/ (e.rs = r /\ e.type = "delete")
      BY <1>7
  <2>3. Place(r)'
      BY <1>1, <1>2, <1>6, <1>9, <2>1, <2>2 DEF Place, Gone
  <2>4. Gone(r)'
      BY <1>1, <1>2, <1>6, <1>9, <2>1, <2>2 DEF Place, Gone
  <2>5. Announced(r)'
      BY <1>1, <1>2, <1>6, <1>9, <2>1, <2>2 DEF Place, Gone, Announced
  <2> QED
      BY <2>3, <2>4, <2>5
<1>11. WatchOrder'
  <2>1. ASSUME NEW i \in 1..Len(rsWatch'), NEW j \in 1..Len(rsWatch'), i < j,
               rsWatch'[i].rs = rsWatch'[j].rs
        PROVE  rsWatch'[i].type = "add" /\ rsWatch'[j].type = "delete"
    <3>1. i + 1 \in 1..Len(rsWatch) /\ j + 1 \in 1..Len(rsWatch) /\ i + 1 < j + 1
        BY <1>3, <2>1
    <3> QED
        BY <1>3, <1>5, <2>1, <3>1, ZenonT(40) DEF WatchOrder
  <2>2. ASSUME NEW i \in 1..Len(rsWatch')
        PROVE  rsWatch'[i].type # "tombstone"
    <3>1. i + 1 \in 1..Len(rsWatch)
        BY <1>3
    <3> QED
        BY <1>3, <1>5, <3>1 DEF WatchOrder
  <2> QED
      BY <2>1, <2>2 DEF WatchOrder
<1>12. EventOrder'
  <2>1. ASSUME NEW i \in 1..Len(rsEvents'), NEW j \in 1..Len(rsEvents'), i < j,
               rsEvents'[i].type = "delete", rsEvents'[j].rs = rsEvents'[i].rs
        PROVE  FALSE
    <3>1. i \in 1..Len(rsEvents)
        BY <1>4, <2>1
    <3>2. CASE j \in 1..Len(rsEvents)
        BY <1>4, <1>5, <2>1, <3>1, <3>2 DEF EventOrder
    <3>3. CASE j = Len(rsEvents) + 1
      <4>1. Has(rsEvents, e.rs, "delete")
          BY <1>4, <2>1, <3>1, <3>3 DEF Has
      <4>2. ~Has(rsWatch, e.rs, "add") /\ ~Has(rsWatch, e.rs, "delete")
          BY <1>6, <4>1 DEF RSInv, Gone
      <4> QED
          BY <1>6, <1>7, <4>2
    <3> QED
        BY <1>4, <3>2, <3>3
  <2> QED
      BY <2>1 DEF EventOrder
<1> QED
    BY <1>1, <1>10, <1>11, <1>12 DEF RSInv, Free

\* A handler of ReplicaSets runs.
LEMMA RSHandled ==
    ASSUME TypeOK, RSInv, RSHandler
    PROVE  RSInv'
<1> DEFINE e == Head(rsEvents)
<1>1. /\ rsEvents # <<>> /\ rsEvents' = Tail(rsEvents)
      /\ \/ /\ e.type = "add"
            /\ rsIndexer' = rsIndexer \cup {e.rs}
            /\ UNCHANGED <<rsPendingDeletion, lock>>
         \/ /\ e.type \in {"delete", "tombstone"}
            /\ lock = Free
            /\ rsPendingDeletion' = rsPendingDeletion \cup {UIDOf(e)}
            /\ ClearRSDataBegin("rs", UIDOf(e))
            /\ UNCHANGED rsIndexer
      /\ UNCHANGED <<rs, rsWatch, rsStore, lost>>
    BY DEF RSHandler, apiVars
<1>2. /\ rsEvents \in Seq(RSEvents)
      /\ rs \in [ReplicaSets -> {"none", "exists", "deleted"}]
    BY DEF TypeOK
<1>3. /\ Len(rsEvents) \in Nat /\ Len(rsEvents) > 0 /\ e = rsEvents[1] /\ e \in RSEvents
      /\ Len(rsEvents') = Len(rsEvents) - 1
      /\ \A i \in 1..Len(rsEvents') : rsEvents'[i] = rsEvents[i + 1]
    BY <1>1, <1>2, TailElements
<1>4. e.rs \in ReplicaSets /\ e.type \in {"add", "delete", "tombstone"}
    BY <1>3 DEF RSEvents
<1>5. \A r \in ReplicaSets : \A u : Has(rsEvents, r, u) <=> Has(rsEvents', r, u) \/ (e.rs = r /\ e.type = u)
    BY <1>1, <1>2, HasTail
<1> HIDE DEF e
<1>6. e.type = "delete" => \A u : ~Has(rsEvents', e.rs, u)
  <2>1. ASSUME e.type = "delete", NEW i \in 1..Len(rsEvents')
        PROVE  rsEvents'[i].rs # e.rs
    <3>1. i + 1 \in 1..Len(rsEvents) /\ 1 \in 1..Len(rsEvents) /\ 1 < i + 1
        BY <1>3
    <3> QED
        BY <1>3, <2>1, <3>1 DEF RSInv, EventOrder
  <2> QED
      BY <2>1 DEF Has
<1>7. ASSUME NEW r \in ReplicaSets
      PROVE  Place(r)' /\ Gone(r)' /\ Announced(r)'
  <2>1. Place(r) /\ Gone(r) /\ Announced(r)
      BY DEF RSInv
  <2>2. /\ Has(rsEvents, r, "add") <=> Has(rsEvents', r, "add") \/ (e.rs = r /\ e.type = "add")
        /\ Has(rsEvents, r, "delete") <=> Has(rsEvents', r, "delete") \/ (e.rs = r /\ e.type = "delete")
      BY <1>5
  <2>3. e.type = "delete" /\ e.rs = r => ~Has(rsEvents', r, "add") /\ ~Has(rsEvents', r, "delete")
      BY <1>6, SMTT(30)
  <2>4. CASE e.type = "add"
      BY <1>1, <1>2, <2>1, <2>2, <2>4, SMTT(30) DEF Place, Gone, Announced
  <2>5. CASE e.type = "delete"
    <3>1. rsPendingDeletion' = rsPendingDeletion \cup {e.rs} /\ rsIndexer' = rsIndexer
        BY <1>1, <2>5, SMTT(30) DEF UIDOf
    <3> QED
        BY <1>1, <1>2, <2>1, <2>2, <2>3, <2>5, <3>1 DEF Place, Gone, Announced
  <2>6. CASE e.type = "tombstone"
    <3>1. rsPendingDeletion' = rsPendingDeletion \cup {NoOwner} /\ rsIndexer' = rsIndexer
        BY <1>1, <2>6 DEF UIDOf
    <3>2. r # NoOwner
        BY IndexerAssumption
    <3> QED
        BY <1>1, <1>2, <2>1, <2>2, <2>6, <3>1, <3>2 DEF Place, Gone, Announced
  <2> QED
      BY <1>4, <2>4, <2>5, <2>6
<1>8. EventOrder'
  <2>1. ASSUME NEW i \in 1..Len(rsEvents'), NEW j \in 1..Len(rsEvents'), i < j,
               rsEvents'[i].type = "delete"
        PROVE  rsEvents'[j].rs # rsEvents'[i].rs
    <3>1. i + 1 \in 1..Len(rsEvents) /\ j + 1 \in 1..Len(rsEvents) /\ i + 1 < j + 1
        BY <1>3, <2>1
    <3> QED
        BY <1>3, <2>1, <3>1, Zenon DEF RSInv, EventOrder
  <2> QED
      BY <2>1 DEF EventOrder
<1>9. (lock # Free => lock.rs \in rsPendingDeletion)'
    BY <1>1 DEF RSInv, ClearRSDataBegin, Free
<1>10. WatchOrder'
    BY <1>1 DEF RSInv, WatchOrder
<1> QED
    BY <1>7, <1>8, <1>9, <1>10 DEF RSInv

\* The end of a clear removes a ReplicaSet of which nothing is on its way.
LEMMA RSCleared ==
    ASSUME TypeOK, RSInv, ClearRSDataEnd
    PROVE  RSInv'
<1>1. /\ lock # Free /\ lock' = Free
      /\ rsPendingDeletion' = rsPendingDeletion \ {lock.rs}
      /\ rsIndexer' = rsIndexer \ {lock.rs}
      /\ UNCHANGED <<rs, rsWatch, rsStore, rsEvents, lost>>
    BY DEF ClearRSDataEnd, apiVars, rsInformer
<1>2. lock.rs \in rsPendingDeletion
    BY <1>1, SMTT(30) DEF RSInv
<1>3. ASSUME NEW r \in ReplicaSets
      PROVE  Place(r)' /\ Gone(r)' /\ Announced(r)'
  <2>1. Place(r) /\ Gone(r) /\ Announced(r)
      BY DEF RSInv
  <2> QED
      BY <1>1, <1>2, <2>1, SMTT(30) DEF Place, Gone, Announced
<1>4. WatchOrder' /\ EventOrder' /\ (lock # Free => lock.rs \in rsPendingDeletion)'
    BY <1>1 DEF RSInv, WatchOrder, EventOrder, Free
<1> QED
    BY <1>3, <1>4 DEF RSInv

\* Steps that leave the ReplicaSets alone, but may take the lock or lose pods.
LEMMA RSFrame ==
    ASSUME RSInv, UNCHANGED <<rs, rsWatch, rsStore, rsEvents, rsIndexer, rsPendingDeletion>>,
           lost \subseteq lost',
           lock' = lock \/ lock' = Free \/ lock'.rs \in rsPendingDeletion
    PROVE  RSInv'
<1>1. ASSUME NEW r \in ReplicaSets
      PROVE  Place(r)' /\ Gone(r)' /\ Announced(r)'
  <2>1. Place(r) /\ Gone(r) /\ Announced(r)
      BY DEF RSInv
  <2> QED
      BY <2>1 DEF Place, Gone, Announced
<1> QED
    BY <1>1, SMTT(30) DEF RSInv, WatchOrder, EventOrder, Free

==============================================================================
