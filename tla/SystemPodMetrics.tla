-------------------------- MODULE SystemPodMetrics --------------------------
(***************************************************************************)
(* SystemPodMetrics: start lists the pods of kube-system, gather lists     *)
(* them again and compares the restarts of each container in between with  *)
(* what is allowed.  The lists are served from a cache, which may be       *)
(* behind the cluster.  A pod has one container, named like the pod.       *)
(***************************************************************************)
EXTENDS Integers

CONSTANTS Pods,        \* names of pods
          Overrides,   \* the threshold overrides a test may configure
          Default,     \* defaultRestartCountThresholdKey
          MaxEvents,   \* bound on what happens to the pods
          MaxCalls     \* bound on the calls of Execute

VARIABLES pods,          \* the pods: uid, restartCount, and the history of
                         \* all restarts under the name
          cached,        \* what the cache has of them
          initSnapshot,  \* what start listed, and whether it did
          gathered,      \* a gather that just returned: its verdict and RestartCounts,
                         \* the overrides it had and what it listed
          events, calls

vars == <<pods, cached, initSnapshot, gathered, events, calls>>

NoPods == [p \in Pods |-> [uid |-> 0, restartCount |-> 0, total |-> 0]]
Present(ps) == {p \in Pods : ps[p].uid > 0}
Nothing(verdict) ==
  [verdict |-> verdict, restarts |-> <<>>, overrides |-> <<>>, listed |-> NoPods]

Init ==
  /\ pods = NoPods /\ cached = NoPods
  /\ initSnapshot = [set |-> FALSE, listed |-> NoPods]
  /\ gathered = Nothing("none")
  /\ events = 0 /\ calls = 0

-----------------------------------------------------------------------------
Becomes(p, pod) ==
  /\ events < MaxEvents /\ events' = events + 1
  /\ pods' = [pods EXCEPT ![p] = pod]
  /\ gathered' = Nothing("none")
  /\ UNCHANGED <<cached, initSnapshot, calls>>

(* A pod is created, in the place of one of its name if there is one; its  *)
(* container restarts; it is deleted.                                      *)
PodCreated(p) == Becomes(p, [uid |-> events + 1, restartCount |-> 0, total |-> pods[p].total])
ContainerRestarts(p) ==
  /\ p \in Present(pods)
  /\ Becomes(p, [pods[p] EXCEPT !.restartCount = @ + 1, !.total = @ + 1])
PodDeleted(p) ==
  /\ p \in Present(pods)
  /\ Becomes(p, [pods[p] EXCEPT !.uid = 0, !.restartCount = 0])

CacheCatchesUp ==
  /\ cached # pods
  /\ cached' = pods /\ gathered' = Nothing("none")
  /\ UNCHANGED <<pods, initSnapshot, events, calls>>

-----------------------------------------------------------------------------
(* Execute lists the pods before it looks at the action. *)
Execute == calls < MaxCalls /\ calls' = calls + 1 /\ UNCHANGED <<pods, cached, events>>

ListFails ==
  /\ Execute
  /\ gathered' = Nothing("error")
  /\ UNCHANGED initSnapshot

start ==
  /\ Execute
  /\ initSnapshot' = [set |-> TRUE, listed |-> cached]
  /\ gathered' = Nothing("none")

(* The restarts before start are subtracted, pod by pod of the same name. *)
subtractInitialRestartCounts(now, initial) ==
  [p \in Present(now) |->
     now[p].restartCount - (IF p \in Present(initial) THEN initial[p].restartCount ELSE 0)]

getMaxAllowedRestarts(p, overrides) ==
  IF p \in DOMAIN overrides THEN overrides[p]
  ELSE IF Default \in DOMAIN overrides THEN overrides[Default] ELSE 0

validateRestartCounts(restarts, overrides) ==
  \A p \in DOMAIN restarts : restarts[p] <= getMaxAllowedRestarts(p, overrides)

(* gather with enableRestartCountCheck. *)
gather(overrides) ==
  /\ Execute
  /\ gathered' =
       IF ~initSnapshot.set THEN Nothing("error")
       ELSE LET restarts == subtractInitialRestartCounts(cached, initSnapshot.listed)
            IN [verdict |-> IF validateRestartCounts(restarts, overrides) THEN "ok" ELSE "violation",
                restarts |-> restarts, overrides |-> overrides, listed |-> cached]
  /\ UNCHANGED initSnapshot

Next ==
  \/ \E p \in Pods : PodCreated(p) \/ ContainerRestarts(p) \/ PodDeleted(p)
  \/ CacheCatchesUp \/ ListFails \/ start
  \/ \E o \in Overrides : gather(o)

Spec == Init /\ [][Next]_vars

-----------------------------------------------------------------------------
(* Type correctness of the pods, the snapshot and the verdict. *)
TypeOK ==
  LET Lists == [Pods -> [uid: 0..MaxEvents, restartCount: 0..MaxEvents, total: 0..MaxEvents]]
  IN /\ pods \in Lists /\ cached \in Lists
     /\ initSnapshot.set \in BOOLEAN /\ initSnapshot.listed \in Lists
     /\ gathered.verdict \in {"none", "ok", "violation", "error"} /\ gathered.listed \in Lists

(* system_pod_metrics.go: a violation means that some container restarted  *)
(* more often than it may between the two lists, whatever became of its    *)
(* pod and however old the lists are.  Conversely gather does not pass if  *)
(* one did whose pod is the same in both lists, or is only in the second.  *)
(* A pod that replaced one of its name is excepted: it counts from 0       *)
(* again, and the restarts of the first are subtracted.                    *)
RestartsOfTest ==
  LET before == initSnapshot.listed
      after == gathered.listed
      allowed(p) == getMaxAllowedRestarts(p, gathered.overrides)
      tooOften(p) == after[p].total - before[p].total > allowed(p)
  IN /\ gathered.verdict = "violation" => \E p \in Present(after) : tooOften(p)
     /\ gathered.verdict = "ok" =>
          \A p \in Present(after) :
            /\ before[p].uid = after[p].uid => ~tooOften(p)
            /\ p \notin Present(before) => after[p].restartCount <= allowed(p)

=============================================================================
