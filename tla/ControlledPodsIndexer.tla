------------------------ MODULE ControlledPodsIndexer ------------------------
(***************************************************************************)
(* ControlledPodsIndexer of                                                *)
(* clusterloader2/pkg/measurement/util/controlled_pods_indexer.go: finds   *)
(* the pods of a Deployment through the ReplicaSets in the middle.  It     *)
(* reads the store of the pod informer, and keeps ReplicaSets in a store   *)
(* of its own (rsIndexer), because a deleted ReplicaSet is still needed    *)
(* while pods refer to it.                                                 *)
(*                                                                         *)
(* Three things run at the same time: the pod informer updates its store   *)
(* and then notifies, the pod handlers and the ReplicaSet handlers each    *)
(* run in a goroutine of their own.  The handlers exclude each other with  *)
(* cpi.lock, but the informer's store changes without it.                  *)
(*                                                                         *)
(* The cluster and client-go are external.  A name that is used again has  *)
(* a new uid; ReplicaSets and Pods stand for uids.                         *)
(***************************************************************************)
EXTENDS Naturals, Sequences, FiniteSets

CONSTANTS
    Deployments, ReplicaSets, Pods,
    Owner,      \* ReplicaSet -> Deployment that controls it
    NoOwner,    \* no controller; also the uid "" of a tombstone
    None,
    Relists     \* TRUE iff the watches of the informers may break

ASSUME IndexerAssumption ==
    /\ Owner \in [ReplicaSets -> Deployments]
    /\ NoOwner \notin ReplicaSets
    /\ None \notin ReplicaSets \cup {NoOwner}
    /\ Relists \in BOOLEAN
    /\ IsFiniteSet(Pods) /\ IsFiniteSet(ReplicaSets)

VARIABLES
    rs,             \* ReplicaSet -> "none", "exists" or "deleted"
    pods,           \* Pod -> the controller it refers to; None if there is no such pod
    used,           \* pods that exist or have existed
    \* the pod informer
    podWatch,       \* changes it has not received
    podStore,       \* its store: podsIndexer
    podEvents,      \* notifications its handlers have not received
    \* the ReplicaSet informer
    rsWatch, rsStore, rsEvents,
    \* the indexer
    rsIndexer, rsPendingDeletion,
    lock,           \* cpi.lock: who clears which ReplicaSet
    \* bookkeeping for properties
    lost            \* ReplicaSets of which, or of a pod of which, a relist found the deletion

apiVars     == <<rs, pods, used>>
podInformer == <<podWatch, podStore, podEvents>>
rsInformer  == <<rsWatch, rsStore, rsEvents>>
cpi         == <<rsIndexer, rsPendingDeletion, lock>>
vars        == <<apiVars, podInformer, rsInformer, cpi, lost>>

UIDs == ReplicaSets \cup {NoOwner}

PodEvents == [pod : Pods, old : UIDs \cup {None}, new : UIDs \cup {None},
              tombstone : BOOLEAN]

RSEvents == [rs : ReplicaSets, type : {"add", "delete", "tombstone"}]

Free == [by |-> "nobody", rs |-> NoOwner]

TypeOK ==
    /\ rs \in [ReplicaSets -> {"none", "exists", "deleted"}]
    /\ pods \in [Pods -> UIDs \cup {None}]
    /\ used \in SUBSET Pods
    /\ podWatch \in Seq(PodEvents) /\ podEvents \in Seq(PodEvents)
    /\ podStore \in [Pods -> UIDs \cup {None}]
    /\ rsWatch \in Seq(RSEvents) /\ rsEvents \in Seq(RSEvents)
    /\ rsStore \in SUBSET ReplicaSets
    /\ rsIndexer \in SUBSET ReplicaSets
    /\ rsPendingDeletion \in SUBSET UIDs
    /\ lock \in [by : {"nobody", "pods", "rs"}, rs : UIDs]
    /\ lost \in SUBSET UIDs

Init ==
    /\ rs = [r \in ReplicaSets |-> "none"]
    /\ pods = [p \in Pods |-> None]
    /\ used = {}
    /\ podWatch = <<>> /\ podEvents = <<>>
    /\ podStore = [p \in Pods |-> None]
    /\ rsWatch = <<>> /\ rsEvents = <<>>
    /\ rsStore = {}
    /\ rsIndexer = {}
    /\ rsPendingDeletion = {}
    /\ lock = Free
    /\ lost = {}

-----------------------------------------------------------------------------
(***************************************************************************)
(* The cluster (external).                                                 *)
(***************************************************************************)

WriteRS(r, status, type) ==
    /\ rs' = [rs EXCEPT ![r] = status]
    /\ rsWatch' = Append(rsWatch, [rs |-> r, type |-> type])
    /\ UNCHANGED <<pods, used, podInformer, rsStore, rsEvents, cpi, lost>>

WritePod(p, owner) ==
    /\ pods' = [pods EXCEPT ![p] = owner]
    /\ used' = used \cup {p}
    /\ podWatch' = Append(podWatch, [pod |-> p, old |-> pods[p], new |-> owner,
                                     tombstone |-> FALSE])
    /\ UNCHANGED <<rs, podStore, podEvents, rsInformer, cpi, lost>>

CreateReplicaSet(r) == rs[r] = "none" /\ WriteRS(r, "exists", "add")

DeleteReplicaSet(r) == rs[r] = "exists" /\ WriteRS(r, "deleted", "delete")

\* Pods are created while their ReplicaSet exists, and deleted before or after
\* it; a pod may be released by its ReplicaSet.
CreatePod(p, r) == p \notin used /\ rs[r] = "exists" /\ WritePod(p, r)

ReleasePod(p) == pods[p] \in ReplicaSets /\ WritePod(p, NoOwner)

DeletePod(p) == pods[p] # None /\ WritePod(p, None)

ClusterNext ==
    \/ \E r \in ReplicaSets : \/ CreateReplicaSet(r)
                              \/ DeleteReplicaSet(r)
                              \/ \E p \in Pods : CreatePod(p, r)
    \/ \E p \in Pods : ReleasePod(p) \/ DeletePod(p)

-----------------------------------------------------------------------------
(***************************************************************************)
(* The informers (external): the store changes first, handlers are         *)
(* notified later.  What a relist finds deleted is notified as a tombstone.*)
(***************************************************************************)

PodInformerWatch ==
    /\ podWatch # <<>>
    /\ LET e == Head(podWatch) IN
          /\ podStore' = [podStore EXCEPT ![e.pod] = e.new]
          /\ podEvents' = Append(podEvents, e)
    /\ podWatch' = Tail(podWatch)
    /\ UNCHANGED <<apiVars, rsInformer, cpi, lost>>

RSInformerWatch ==
    /\ rsWatch # <<>>
    /\ LET e == Head(rsWatch) IN
          /\ rsStore' = IF e.type = "delete" THEN rsStore \ {e.rs} ELSE rsStore \cup {e.rs}
          /\ rsEvents' = Append(rsEvents, e)
    /\ rsWatch' = Tail(rsWatch)
    /\ UNCHANGED <<apiVars, podInformer, cpi, lost>>

\* All sequences that list each element of a set once.
Orders(S) == {s \in [1..Cardinality(S) -> S] : \A x \in S : \E i \in DOMAIN s : s[i] = x}

PodInformerRelist ==
    /\ Relists
    /\ \E events \in Orders({[pod |-> p, old |-> podStore[p], new |-> pods[p],
                              tombstone |-> pods[p] = None] :
                                 p \in {x \in Pods : podStore[x] # pods[x]}}) :
          podEvents' = podEvents \o events
    /\ podStore' = pods
    /\ podWatch' = <<>>
    /\ lost' = lost \cup {podStore[p] : p \in {x \in Pods : podStore[x] # None /\ pods[x] = None}}
    /\ UNCHANGED <<apiVars, rsInformer, cpi>>

RSInformerRelist ==
    LET listed == {r \in ReplicaSets : rs[r] = "exists"} IN
    /\ Relists
    /\ \E events \in Orders({[rs |-> r, type |-> "add"] : r \in listed \ rsStore}
                            \cup {[rs |-> r, type |-> "tombstone"] : r \in rsStore \ listed}) :
          rsEvents' = rsEvents \o events
    /\ rsStore' = listed
    /\ rsWatch' = <<>>
    /\ lost' = lost \cup (rsStore \ listed)
    /\ UNCHANGED <<apiVars, podInformer, cpi>>

-----------------------------------------------------------------------------
(***************************************************************************)
(* The handlers.                                                           *)
(***************************************************************************)

\* Faults: the owner after an update is looked at; the object is used as a uid.
FaultyOwnerOf(e) == IF e.tombstone THEN NoOwner ELSE e.new

FaultyUIDOf(e) == e

\* getControllerInfo and getObjUID know nothing of tombstones: "".
OwnerOf(e) == IF e.tombstone THEN NoOwner ELSE e.old

UIDOf(e) == IF e.type = "tombstone" THEN NoOwner ELSE e.rs

PodsOf(u) == {p \in Pods : podStore[p] = u}

\* Fault: rsPendingDeletion is not asked.
FaultyClearBegin(who, u) ==
    lock' = IF PodsOf(u) = {} THEN [by |-> who, rs |-> u] ELSE Free

\* Fault: the ReplicaSet stays in rsPendingDeletion.
FaultyClearEnd ==
    /\ lock # Free
    /\ rsIndexer' = rsIndexer \ {lock.rs}
    /\ lock' = Free
    /\ UNCHANGED <<apiVars, podInformer, rsInformer, rsPendingDeletion, lost>>

\* clearRSDataIfPossibleLocked(u): the pods are looked up first ...
ClearRSDataBegin(who, u) ==
    lock' = IF u \in rsPendingDeletion' /\ PodsOf(u) = {}
            THEN [by |-> who, rs |-> u] ELSE Free

\* ... and the ReplicaSet is removed then.
ClearRSDataEnd ==
    /\ lock # Free
    /\ rsPendingDeletion' = rsPendingDeletion \ {lock.rs}
    /\ rsIndexer' = rsIndexer \ {lock.rs}
    /\ lock' = Free
    /\ UNCHANGED <<apiVars, podInformer, rsInformer, lost>>

PodHandler ==
    /\ podEvents # <<>>
    /\ podEvents' = Tail(podEvents)
    /\ LET e == Head(podEvents) IN
       \/ \* AddFunc is not set; an update that keeps the owner is ignored
          /\ e.old = None \/ (e.new # None /\ e.old = e.new)
          /\ lock.by # "pods"
          /\ UNCHANGED <<rsPendingDeletion, lock>>
       \/ \* UpdateFunc or DeleteFunc
          /\ e.old # None /\ e.old # e.new
          /\ lock = Free
          /\ rsPendingDeletion' = rsPendingDeletion
          /\ ClearRSDataBegin("pods", OwnerOf(e))
    /\ UNCHANGED <<apiVars, podWatch, podStore, rsInformer, rsIndexer, lost>>

RSHandler ==
    /\ rsEvents # <<>>
    /\ rsEvents' = Tail(rsEvents)
    /\ LET e == Head(rsEvents) IN
       \/ \* AddFunc.  (UpdateFunc does the same for a uid that was added before;
          \* updates are left out.)
          /\ e.type = "add"
          /\ lock.by # "rs"
          /\ rsIndexer' = rsIndexer \cup {e.rs}
          /\ UNCHANGED <<rsPendingDeletion, lock>>
       \/ \* DeleteFunc
          /\ e.type \in {"delete", "tombstone"}
          /\ lock = Free
          /\ rsPendingDeletion' = rsPendingDeletion \cup {UIDOf(e)}
          /\ ClearRSDataBegin("rs", UIDOf(e))
          /\ UNCHANGED rsIndexer
    /\ UNCHANGED <<apiVars, podInformer, rsWatch, rsStore, lost>>

InformerNext == PodInformerWatch \/ RSInformerWatch \/ PodInformerRelist \/ RSInformerRelist

HandlerNext == PodHandler \/ RSHandler \/ ClearRSDataEnd

Next == ClusterNext \/ InformerNext \/ HandlerNext

Spec == Init /\ [][Next]_vars

\* The informers and the handlers run in goroutines of their own.
Fairness ==
    /\ WF_vars(PodInformerWatch) /\ WF_vars(RSInformerWatch)
    /\ WF_vars(PodHandler) /\ WF_vars(RSHandler) /\ WF_vars(ClearRSDataEnd)

-----------------------------------------------------------------------------
(***************************************************************************)
(* Properties.                                                             *)
(***************************************************************************)

\* PodsControlledBy for a Deployment.
PodsControlledBy(d) == {p \in Pods : \E r \in rsIndexer : Owner[r] = d /\ podStore[p] = r}

\* The informers have delivered everything and the handlers have run.
CaughtUp ==
    /\ podWatch = <<>> /\ podEvents = <<>>
    /\ rsWatch = <<>> /\ rsEvents = <<>>
    /\ lock = Free

\* Deleted ReplicaSets no pod refers to, as far as the cluster is concerned.
Forgettable == {r \in ReplicaSets : rs[r] = "deleted" /\ \A p \in Pods : pods[p] # r}

\* rsPendingDeletion's comment: a ReplicaSet should be deleted "as soon as the
\* last pod referencing it is deleted", in whatever order the deletions of the
\* ReplicaSet and of its pods reach the two informers, unless one of them was
\* only found by a relist.
NoReplicaSetLeft ==
    CaughtUp => (Forgettable \ lost) \cap (rsIndexer \cup rsPendingDeletion) = {}

\* Pods whose ReplicaSet exists are found, and nothing else is but pods of
\* ReplicaSets that are gone, whether or not watches break.
LivePodsFound ==
    CaughtUp =>
        \A d \in Deployments :
            /\ {p \in Pods : \E r \in ReplicaSets :
                    Owner[r] = d /\ pods[p] = r /\ rs[r] = "exists"} \subseteq PodsControlledBy(d)
            /\ \A p \in PodsControlledBy(d) : Owner[pods[p]] = d

\* No wakeup is lost between the two handlers (DeleteFunc of ReplicaSets marks,
\* looks at the pods and gives up; UpdateFunc and DeleteFunc of pods look at the
\* mark): a ReplicaSet that waits for its deletion is still in rsIndexer, and
\* when the store has no pod of it, it is being removed or a handler that will
\* do so has yet to run.
ClearScheduled ==
    \A r \in rsPendingDeletion \ (lost \cup {NoOwner}) :
        /\ r \in rsIndexer
        /\ \/ PodsOf(r) # {}
           \/ lock.rs = r
           \/ \E i \in 1..Len(podEvents) : podEvents[i].old = r /\ podEvents[i].new # r

\* With handlers that keep running a deleted ReplicaSet without pods does not
\* stay in rsIndexer.
DeletedReplicaSetsForgotten ==
    \A r \in ReplicaSets : r \in Forgettable ~> r \notin rsIndexer \ lost

\* rsPendingDeletion "are replicasets that have been deleted, but there are
\* still pods referencing them [...] They should be deleted as soon as the last
\* pod referencing it is deleted." (controlled_pods_indexer.go:49-51), with no
\* exception for broken watches.
EveryReplicaSetForgotten == CaughtUp => Forgettable \cap rsIndexer = {}

==============================================================================
