---------------------------- MODULE MC_Watchers ----------------------------
(***************************************************************************)
(* The components that watch or sample the cluster, one after the other: a *)
(* behaviour is about the component in focus, and the others do not move.  *)
(* They share no state, so this sum has the behaviours of each component   *)
(* by itself.  No action of a component that fairness is about is enabled  *)
(* before the component is called, so the fairness of the components out   *)
(* of focus asks for nothing.                                              *)
(***************************************************************************)
EXTENDS Integers, Sequences, FiniteSets, TLC

VARIABLE focus    \* the component this behaviour is about

\* The indexer of a Deployment's pods, with watches that break.
VARIABLES piRs, piPods, piUsed, piPodWatch, piPodStore, piPodEvents,
          piRsWatch, piRsStore, piRsEvents, piRsIndexer, piRsPendingDeletion,
          piLock, piLost
piVars == <<piRs, piPods, piUsed, piPodWatch, piPodStore, piPodEvents,
              piRsWatch, piRsStore, piRsEvents, piRsIndexer,
              piRsPendingDeletion, piLock, piLost>>
PI == INSTANCE ControlledPodsIndexer WITH
        Deployments <- {"d1"}, ReplicaSets <- {"r1"}, Pods <- {"p1", "p2"},
        Owner <- [r \in {"r1"} |-> "d1"], NoOwner <- "noOwner",
        Relists <- TRUE, None <- "none", rs <- piRs, pods <- piPods,
        used <- piUsed, podWatch <- piPodWatch, podStore <- piPodStore,
        podEvents <- piPodEvents, rsWatch <- piRsWatch, rsStore <- piRsStore,
        rsEvents <- piRsEvents, rsIndexer <- piRsIndexer,
        rsPendingDeletion <- piRsPendingDeletion, lock <- piLock,
        lost <- piLost

\* PodPeriodicCommand, one command in one of two pods.
VARIABLES pcP, pcStore, pcWorker, pcCmds, pcCall, pcStarts
pcVars == <<pcP, pcStore, pcWorker, pcCmds, pcCall, pcStarts>>
PC == INSTANCE PodPeriodicCommand WITH
        Pods <- {"p1", "p2"}, PodsWithContainer <- {"p1", "p2"},
        Commands <- {"c1"}, Limit <- 1, FailOn <- {"timeout"}, MaxTicks <- 2,
        MaxStarts <- 1, p <- pcP, store <- pcStore, worker <- pcWorker,
        cmds <- pcCmds, call <- pcCall, starts <- pcStarts

\* ServiceCreationLatency, two services and two workers.
VARIABLES scS, scObjs, scAnswers, scQueue, scWorker, scSeen, scCall, scEvents
scVars == <<scS, scObjs, scAnswers, scQueue, scWorker, scSeen, scCall,
              scEvents>>
SC == INSTANCE ServiceCreationLatency WITH
        Keys <- {"s1", "s2"},
        Type <- [k \in {"s1", "s2"} |-> IF k = "s1" THEN "ClusterIP" ELSE "LoadBalancer"],
        Workers <- {"w1", "w2"}, pingChecks <- 2, MaxEvents <- 3, s <- scS,
        objs <- scObjs, answers <- scAnswers, queue <- scQueue,
        worker <- scWorker, seen <- scSeen, call <- scCall,
        events <- scEvents

\* WaitForFinishedJobs.
VARIABLES wjW, wjJobs, wjQueue, wjStopped, wjCall, wjEvents, wjEverFinished
wjVars == <<wjW, wjJobs, wjQueue, wjStopped, wjCall, wjEvents,
              wjEverFinished>>
WJ == INSTANCE WaitForJobs WITH
        Jobs <- {"j1", "j2"}, MaxEvents <- 3, w <- wjW, jobs <- wjJobs,
        queue <- wjQueue, stopped <- wjStopped, call <- wjCall,
        events <- wjEvents, everFinished <- wjEverFinished

\* The latencies of jobs, pods and resource claims.
VARIABLES lcKind, lcByOrder, lcP, lcObjs, lcWatch, lcQueue, lcCall, lcClock,
          lcLives
lcVars == <<lcKind, lcByOrder, lcP, lcObjs, lcWatch, lcQueue, lcCall,
              lcClock, lcLives>>
LC == INSTANCE LatencyCollectors WITH
        Kinds <- {"job", "pod", "claim"}, Keys <- {"o1", "o2"},
        Stateless <- {"o1"}, Thresholds <- <<1, 2, 2>>, Second <- 2,
        MaxClock <- 5, kind <- lcKind, byOrder <- lcByOrder, p <- lcP,
        objs <- lcObjs, watch <- lcWatch, queue <- lcQueue, call <- lcCall,
        clock <- lcClock, lives <- lcLives

\* ClusterOOMsTracker, one of two processes ignored.
VARIABLES omM, omEvents, omWatch, omOn, omCall, omClock, omGaps, omStarts,
          omDue
omVars == <<omM, omEvents, omWatch, omOn, omCall, omClock, omGaps,
              omStarts, omDue>>
OM == INSTANCE OOMsTracker WITH
        Processes <- {"a", "b"}, processIgnored <- {"b"}, Second <- 2,
        MaxClock <- 4, MaxGaps <- 1, MaxStarts <- 2, m <- omM,
        events <- omEvents, watch <- omWatch, on <- omOn, call <- omCall,
        clock <- omClock, gaps <- omGaps, starts <- omStarts, due <- omDue

\* The waits for pods, claims, volumes, nodes and other objects.
VARIABLES owWait, owPast, owAt, owDesired, owAsked, owCall
owVars == <<owWait, owPast, owAt, owDesired, owAsked, owCall>>
OW == INSTANCE ObjectWaits WITH
        Waits <- {"pods", "controlledPods", "pvcs", "pvs", "nodes", "generic"},
        Objects <- {"x", "y"}, Desired <- {1, 2}, Margin <- 1, MinNodes <- 1,
        MaxNodes <- 1, MinObjects <- 2, MaxFailed <- 1, MaxChanges <- 1,
        wait <- owWait, past <- owPast, at <- owAt, desired <- owDesired,
        asked <- owAsked, call <- owCall

\* Image preloading with its NodeCounter.
VARIABLES ipNodes, ipWatch, ipC, ipCall, ipEvents, ipSteady
ipVars == <<ipNodes, ipWatch, ipC, ipCall, ipEvents, ipSteady>>
IP == INSTANCE ImagePreload WITH
        Nodes <- {"n", "m"}, MaxEvents <- 1, nodes <- ipNodes,
        watch <- ipWatch, c <- ipC, call <- ipCall, events <- ipEvents,
        steady <- ipSteady

\* The latencies of the scheduler and of kube-state-metrics.
VARIABLES hsKind, hsServer, hsM, hsLoop, hsCall, hsResult, hsSince, hsExact,
          hsCalls
hsVars == <<hsKind, hsServer, hsM, hsLoop, hsCall, hsResult, hsSince,
              hsExact, hsCalls>>
HS == INSTANCE HistogramSnapshots WITH
        Kinds <- {"scheduler", "ksm"}, Buckets <- 3, Width <- 4, MaxObs <- 3,
        MaxCalls <- 3, kind <- hsKind, server <- hsServer, m <- hsM,
        loop <- hsLoop, call <- hsCall, result <- hsResult, since <- hsSince,
        exact <- hsExact, calls <- hsCalls

\* The restarts of system pods.
VARIABLES spPods, spCached, spInitSnapshot, spGathered, spEvents, spCalls
spVars == <<spPods, spCached, spInitSnapshot, spGathered, spEvents, spCalls>>
SP == INSTANCE SystemPodMetrics WITH
        Pods <- {"p", "q"},
        Overrides <- {<<>>, [x \in {"default", "q"} |-> IF x = "q" THEN 0 ELSE 1]},
        Default <- "default", MaxEvents <- 4, MaxCalls <- 3, pods <- spPods,
        cached <- spCached, initSnapshot <- spInitSnapshot,
        gathered <- spGathered, events <- spEvents, calls <- spCalls

-----------------------------------------------------------------------------
vars == <<focus, piVars, pcVars, scVars, wjVars, lcVars, omVars, owVars,
          ipVars, hsVars, spVars>>

\* Components out of focus are in one of their initial states.
Init ==
  /\ focus \in {"podsIndexer", "podCommand", "services", "jobs", "latencies",
               "ooms", "waits", "preload", "histograms", "systemPods"}
  /\ focus # "jobs" => wjJobs = [j \in {"j1", "j2"} |-> "absent"]
  /\ focus # "latencies" => lcKind = "job"
  /\ focus # "waits" => owWait = "pods" /\ owPast = <<OW!Empty>> /\ owDesired = 1
  /\ focus # "preload" => ipNodes = <<>>
  /\ focus # "histograms" => hsKind = "ksm"
  /\ PI!Init
  /\ PC!Init
  /\ SC!Init
  /\ WJ!Init
  /\ LC!Init
  /\ OM!Init
  /\ OW!Init
  /\ IP!Init
  /\ HS!Init
  /\ SP!Init

\* A behaviour is one of the component in focus; the others stay as they are.
PINext ==
  /\ focus = "podsIndexer" /\ PI!Next
  /\ UNCHANGED <<focus, pcVars, scVars, wjVars, lcVars, omVars, owVars,
                ipVars, hsVars, spVars>>
PCNext ==
  /\ focus = "podCommand" /\ PC!Next
  /\ UNCHANGED <<focus, piVars, scVars, wjVars, lcVars, omVars, owVars,
                ipVars, hsVars, spVars>>
SCNext ==
  /\ focus = "services" /\ SC!Next
  /\ UNCHANGED <<focus, piVars, pcVars, wjVars, lcVars, omVars, owVars,
                ipVars, hsVars, spVars>>
WJNext ==
  /\ focus = "jobs" /\ WJ!Next
  /\ UNCHANGED <<focus, piVars, pcVars, scVars, lcVars, omVars, owVars,
                ipVars, hsVars, spVars>>
LCNext ==
  /\ focus = "latencies" /\ LC!Next
  /\ UNCHANGED <<focus, piVars, pcVars, scVars, wjVars, omVars, owVars,
                ipVars, hsVars, spVars>>
OMNext ==
  /\ focus = "ooms" /\ OM!Next
  /\ UNCHANGED <<focus, piVars, pcVars, scVars, wjVars, lcVars, owVars,
                ipVars, hsVars, spVars>>
OWNext ==
  /\ focus = "waits" /\ OW!Next
  /\ UNCHANGED <<focus, piVars, pcVars, scVars, wjVars, lcVars, omVars,
                ipVars, hsVars, spVars>>
IPNext ==
  /\ focus = "preload" /\ IP!Next
  /\ UNCHANGED <<focus, piVars, pcVars, scVars, wjVars, lcVars, omVars,
                owVars, hsVars, spVars>>
HSNext ==
  /\ focus = "histograms" /\ HS!Next
  /\ UNCHANGED <<focus, piVars, pcVars, scVars, wjVars, lcVars, omVars,
                owVars, ipVars, spVars>>
SPNext ==
  /\ focus = "systemPods" /\ SP!Next
  /\ UNCHANGED <<focus, piVars, pcVars, scVars, wjVars, lcVars, omVars,
                owVars, ipVars, hsVars>>

Next ==
  \/ PINext
  \/ PCNext
  \/ SCNext
  \/ WJNext
  \/ LCNext
  \/ OMNext
  \/ OWNext
  \/ IPNext
  \/ HSNext
  \/ SPNext

Fairness ==
  PI!Fairness /\ PC!Fairness /\ SC!Fairness /\ OW!Fairness /\ HS!Fairness

Spec == Init /\ [][Next]_vars /\ Fairness

-----------------------------------------------------------------------------
\* The type invariants of the components.
TypesOK ==
  /\ PC!TypeOK /\ SC!TypeOK /\ WJ!TypeOK /\ LC!TypeOK /\ OM!TypeOK
  /\ OW!TypeOK /\ IP!TypeOK /\ HS!TypeOK /\ SP!TypeOK

\* A call that waits, and one that returned.
Waiting == PC!Waiting \/ SC!Waiting \/ OW!Waiting \/ HS!Waiting
Returned == PC!Returned \/ SC!Returned \/ OW!Returned \/ HS!Returned

\* The calls that wait for goroutines of their own return: stop and gather of
\* PodPeriodicCommand (pod_command.go), which wait for the worker in whatever
\* it is doing; Dispose of ServiceCreationLatency, which drains its queue, if
\* the services it pings answer in the end; gather and Dispose of
\* KubeStateMetricsLatency, which wait for its queries; and the waits for objects, at
\* their deadline if not before.
CallsReturn == <>[]SC!PingsAnswered => (Waiting ~> Returned)

\* With handlers that keep running a deleted ReplicaSet without pods leaves
\* rsIndexer of controlled_pods_indexer.go, unless a relist found one of the
\* deletions.
DeletedReplicaSetsForgotten == PI!DeletedReplicaSetsForgotten

\* When gather of PodPeriodicCommand returns, the worker is gone, every command
\* that was run has a result, and the results and the statistics agree.
GatherComplete == PC!GatherComplete



\* ooms_tracker.go: between the informer and the list of earlier events no OOM
\* event is missed, and none is reported twice.  system_pod_metrics.go: the
\* containers that fail the test are those that restarted too often during it.
FailuresExact == OM!NoOOMMissed /\ OM!FailuresOnce /\ SP!RestartsOfTest


=============================================================================
