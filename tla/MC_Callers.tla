----------------------------- MODULE MC_Callers -----------------------------
(***************************************************************************)
(* The components the test drives with calls, one after the other: a       *)
(* behaviour is about the component in focus, and the others do not move.  *)
(* They share no state, so this sum has the behaviours of each component   *)
(* by itself.  No action of a component that fairness is about is enabled  *)
(* before the component is called, so the fairness of the components out   *)
(* of focus asks for nothing.                                              *)
(***************************************************************************)
EXTENDS Integers, Sequences, FiniteSets, TLC

\* The flags and provider features main runs with.
Configs ==
  [scenarios : {"configs"}, runFromCluster : {FALSE}, kubeconfig : {TRUE},
   enableServer : BOOLEAN, promSupported : {TRUE}, snapshotDisk : BOOLEAN,
   snapshotSupported : {TRUE}, project : {TRUE}, snapshotToDir : BOOLEAN,
   tearDown : BOOLEAN, exec : BOOLEAN, masterIPs : {TRUE}, dryRun : {FALSE}]
AConfig == CHOOSE c \in Configs : TRUE

\* The options tftest and kubetest2-runner are called with.
RunnerOptions ==
  [program : {"tftest"}, up : {TRUE}, down : BOOLEAN, cmd : {TRUE}, boskos : {TRUE}, timeout : {TRUE}]
  \cup [program : {"tftest"}, up : {FALSE}, down : {FALSE}, cmd : {FALSE}, boskos : {FALSE}, timeout : {FALSE}]
  \cup [program : {"kubetest2-runner"}, up : {TRUE}, down : {TRUE}, cmd : {TRUE}, boskos : {FALSE}, timeout : {TRUE}]
ARunner == CHOOSE r \in RunnerOptions : TRUE

\* One phase uses the tuning set, or both when they share its limiter.
Users ==
  [l \in {"qps", "randomized", "stepped", "timeLimited",
          "randomizedTimeLimited", "poisson", "globalQPS", "parallelismLimited"} |->
     IF l = "globalQPS" THEN {"p1", "p2"} ELSE {"p1"}]

VARIABLE focus    \* the component this behaviour is about

\* main with the Prometheus controller, two test scenarios.
VARIABLES clCfg, clRes, clPc, clPc0, clHandler, clFailed, clRan, clFaulty
clVars == <<clCfg, clRes, clPc, clPc0, clHandler, clFailed, clRan, clFaulty>>
CL == INSTANCE ClusterLoader WITH
        Configs <- Configs,
        Leftovers <- {{}, {"monitoring", "secret"}, {"monitoring", "secret", "serviceAccount", "disk"}},
        Tests <- 2, cfg <- clCfg, res <- clRes, pc <- clPc, pc0 <- clPc0,
        handler <- clHandler, failed <- clFailed, ran <- clRan,
        faulty <- clFaulty

\* The node killer: at most two of three nodes at a time.
VARIABLES nkKilledNodes, nkStopCh, nkKiller, nkJob, nkDown, nkPrometheus,
          nkStops, nkStarts, nkMoves
nkVars == <<nkKilledNodes, nkStopCh, nkKiller, nkJob, nkDown, nkPrometheus,
              nkStops, nkStarts, nkMoves>>
NK == INSTANCE NodeKiller WITH
        Nodes <- {"n1", "n2", "n3"}, Excluded <- {}, RateNum <- 2,
        RateDen <- 3, MaxStarts <- 2, MaxMoves <- 1,
        killedNodes <- nkKilledNodes, stopCh <- nkStopCh, killer <- nkKiller,
        job <- nkJob, down <- nkDown, prometheus <- nkPrometheus,
        stops <- nkStops, starts <- nkStarts, moves <- nkMoves

\* The client that retries, three attempts a call.
VARIABLES rcPhase, rcFields, rcCall, rcResult, rcSeen, rcOthers
rcVars == <<rcPhase, rcFields, rcCall, rcResult, rcSeen, rcOthers>>
RC == INSTANCE RetryClient WITH
        Operations <- {"CreateObject", "CreateNamespace", "GetObject",
                       "DeleteObject", "deleteNamespace", "PatchObject"},
        Fields <- {"f", "g"}, Steps <- 3, MaxOthers <- 2, phase <- rcPhase,
        fields <- rcFields, call <- rcCall, result <- rcResult,
        seen <- rcSeen, others <- rcOthers

\* The tuning sets; two phases share the one of globalQPSLoad.
VARIABLES tsLoad, tsBurst, tsExisting, tsPhase, tsRun, tsLaunches, tsClock
tsVars == <<tsLoad, tsBurst, tsExisting, tsPhase, tsRun, tsLaunches,
              tsClock>>
TS == INSTANCE TuningSets WITH
        Loads <- {"qps", "randomized", "stepped", "timeLimited", "randomizedTimeLimited",
                  "poisson", "globalQPS", "parallelismLimited"},
        Phases <- {"p1", "p2"}, Users <- Users, Actions <- 3, Delay <- 1,
        BurstSize <- 2, Bursts <- {0, 1}, TimeLimit <- 3,
        ParallelismLimit <- 2, load <- tsLoad, burst <- tsBurst,
        existing <- tsExisting, phase <- tsPhase, run <- tsRun,
        launches <- tsLaunches, clock <- tsClock

\* What measurements and dependencies set up in the cluster.
VARIABLES trKind, trM, trNs, trObjs, trCall, trFaults, trSetups
trVars == <<trKind, trM, trNs, trObjs, trCall, trFaults, trSetups>>
TR == INSTANCE TestResources WITH
        Kinds <- {"networkPolicy", "dns", "probes", "networkPerformance", "dra"},
        MaxFaults <- 2, MaxSetups <- 2, kind <- trKind, m <- trM, ns <- trNs,
        objs <- trObjs, call <- trCall, faults <- trFaults,
        setups <- trSetups

\* The measurements that query Prometheus.
VARIABLES pmKind, pmSimple, pmStartTime, pmEvents, pmCall, pmClock, pmFaults
pmVars == <<pmKind, pmSimple, pmStartTime, pmEvents, pmCall, pmClock,
              pmFaults>>
PM == INSTANCE PrometheusMeasurements WITH
        Kinds <- {"api", "generic", "restarts", "netProg", "dns", "scheduler",
                  "windows", "cilium", "neg", "metricsServer", "throughput"},
        Keys <- {"get", "watchlist"}, Second <- 2, queryInterval <- 2,
        latencyWindowSize <- 2, Minute <- 2, MaxClock <- 4, MaxEvents <- 2,
        MaxFaults <- 1, kind <- pmKind, simple <- pmSimple,
        startTime <- pmStartTime, events <- pmEvents, call <- pmCall,
        clock <- pmClock, faults <- pmFaults

\* The measurements that sample from goroutines; one master, one node.
VARIABLES prKind, prM, prWorkers, prClosed, prCall, prTaken, prCalls
prVars == <<prKind, prM, prWorkers, prClosed, prCall, prTaken, prCalls>>
PR == INSTANCE PeriodicCollectors WITH
        Kinds <- {"profile", "etcd", "throughput", "resourceUsage"},
        Nodes <- <<"m", "n">>, Masters <- {"m"}, LoadedNodes <- {"n"},
        AllNodes <- FALSE, Values <- {1, 2}, Constraint <- 1,
        MaxSamples <- 2, MaxCalls <- 4, MaxWorkers <- 2, kind <- prKind,
        m <- prM, workers <- prWorkers, closed <- prClosed, call <- prCall,
        taken <- prTaken, calls <- prCalls

\* The availability of the API server, with one master host.
VARIABLES aaA, aaWorker, aaCall, aaCalls, aaProbes, aaQuiet
aaVars == <<aaA, aaWorker, aaCall, aaCalls, aaProbes, aaQuiet>>
AA == INSTANCE APIAvailability WITH
        hostIPs <- {"h1"}, MaxProbes <- 3, MaxCalls <- 6, a <- aaA,
        worker <- aaWorker, call <- aaCall, calls <- aaCalls,
        probes <- aaProbes, quiet <- aaQuiet

\* The network performance test, at most two pairs of three nodes.
VARIABLES npClients, npServers, npPlaced, npPodMap, npNh, npPairs,
          npRequests, npMetricVal, npPc, npSummary
npVars == <<npClients, npServers, npPlaced, npPodMap, npNh, npPairs,
              npRequests, npMetricVal, npPc, npSummary>>
NP == INSTANCE NetworkPerformance WITH
        Nodes <- {"n", "m", "o"}, MaxClients <- 2, Values <- {1, 2},
        clients <- npClients, servers <- npServers, placed <- npPlaced,
        podMap <- npPodMap, nh <- npNh, pairs <- npPairs,
        requests <- npRequests, metricVal <- npMetricVal, pc <- npPc,
        summary <- npSummary

\* The node sync latency of one load balancer.
VARIABLES lbS, lbKinds, lbReady, lbLabelled, lbSynced, lbInformer, lbWatch,
          lbCall, lbMeasures, lbClock, lbFaults
lbVars == <<lbS, lbKinds, lbReady, lbLabelled, lbSynced, lbInformer,
              lbWatch, lbCall, lbMeasures, lbClock, lbFaults>>
LB == INSTANCE LoadBalancerNodeSync WITH
        Services <- {"a"}, Nodes <- {"n", "m"}, Second <- 2, MaxClock <- 4,
        MaxMeasures <- 2, MaxFaults <- 1, s <- lbS, kinds <- lbKinds,
        ready <- lbReady, labelled <- lbLabelled, synced <- lbSynced,
        informer <- lbInformer, watch <- lbWatch, call <- lbCall,
        measures <- lbMeasures, clock <- lbClock, faults <- lbFaults

\* tftest and kubetest2-runner, two attempts to apply and one ^C.
VARIABLES rnO, rnPos, rnProc, rnAttempt, rnErr, rnTimer, rnControl,
          rnPending, rnCloud, rnExited, rnSignals, rnCleaned
rnVars == <<rnO, rnPos, rnProc, rnAttempt, rnErr, rnTimer, rnControl,
              rnPending, rnCloud, rnExited, rnSignals, rnCleaned>>
RN == INSTANCE TestRunners WITH
        Options <- RunnerOptions, applyRetries <- 2, MaxSignals <- 1,
        o <- rnO, pos <- rnPos, proc <- rnProc, attempt <- rnAttempt,
        err <- rnErr, timer <- rnTimer, control <- rnControl,
        pending <- rnPending, cloud <- rnCloud, exited <- rnExited,
        signals <- rnSignals, cleaned <- rnCleaned

-----------------------------------------------------------------------------
vars == <<focus, clVars, nkVars, rcVars, tsVars, trVars, pmVars, prVars,
          aaVars, npVars, lbVars, rnVars>>

\* Components out of focus are in one of their initial states.
Init ==
  /\ focus \in {"clusterloader", "nodeKiller", "client", "tuningSets",
               "resources", "prometheus", "collectors", "availability",
               "network", "nodeSync", "runners"}
  /\ focus # "clusterloader" => clCfg = AConfig /\ clRes = {}
  /\ focus # "nodeKiller" => nkPrometheus = "n1"
  /\ focus # "client" => rcPhase = "absent"
  /\ focus # "tuningSets" => tsLoad = "qps" /\ tsBurst = 0
  /\ focus # "resources" => trKind = "dns"
  /\ focus # "prometheus" => pmKind = "generic" /\ pmSimple = FALSE
  /\ focus # "collectors" => prKind = "profile"
  /\ focus # "network" => npClients = 1 /\ npServers = 1
  /\ focus # "nodeSync" => lbKinds = {} /\ lbReady = {}
  /\ focus # "runners" => rnO = ARunner
  /\ CL!Init
  /\ NK!Init
  /\ RC!Init
  /\ TS!Init
  /\ TR!Init
  /\ PM!Init
  /\ PR!Init
  /\ AA!Init
  /\ NP!Init
  /\ LB!Init
  /\ RN!Init

\* A behaviour is one of the component in focus; the others stay as they are.
CLNext ==
  /\ focus = "clusterloader" /\ CL!Next
  /\ UNCHANGED <<focus, nkVars, rcVars, tsVars, trVars, pmVars, prVars,
                aaVars, npVars, lbVars, rnVars>>
NKNext ==
  /\ focus = "nodeKiller" /\ NK!Next
  /\ UNCHANGED <<focus, clVars, rcVars, tsVars, trVars, pmVars, prVars,
                aaVars, npVars, lbVars, rnVars>>
RCNext ==
  /\ focus = "client" /\ RC!Next
  /\ UNCHANGED <<focus, clVars, nkVars, tsVars, trVars, pmVars, prVars,
                aaVars, npVars, lbVars, rnVars>>
TSNext ==
  /\ focus = "tuningSets" /\ TS!Next
  /\ UNCHANGED <<focus, clVars, nkVars, rcVars, trVars, pmVars, prVars,
                aaVars, npVars, lbVars, rnVars>>
TRNext ==
  /\ focus = "resources" /\ TR!Next
  /\ UNCHANGED <<focus, clVars, nkVars, rcVars, tsVars, pmVars, prVars,
                aaVars, npVars, lbVars, rnVars>>
PMNext ==
  /\ focus = "prometheus" /\ PM!Next
  /\ UNCHANGED <<focus, clVars, nkVars, rcVars, tsVars, trVars, prVars,
                aaVars, npVars, lbVars, rnVars>>
PRNext ==
  /\ focus = "collectors" /\ PR!Next
  /\ UNCHANGED <<focus, clVars, nkVars, rcVars, tsVars, trVars, pmVars,
                aaVars, npVars, lbVars, rnVars>>
AANext ==
  /\ focus = "availability" /\ AA!Next
  /\ UNCHANGED <<focus, clVars, nkVars, rcVars, tsVars, trVars, pmVars,
                prVars, npVars, lbVars, rnVars>>
NPNext ==
  /\ focus = "network" /\ NP!Next
  /\ UNCHANGED <<focus, clVars, nkVars, rcVars, tsVars, trVars, pmVars,
                prVars, aaVars, lbVars, rnVars>>
LBNext ==
  /\ focus = "nodeSync" /\ LB!Next
  /\ UNCHANGED <<focus, clVars, nkVars, rcVars, tsVars, trVars, pmVars,
                prVars, aaVars, npVars, rnVars>>
RNNext ==
  /\ focus = "runners" /\ RN!Next
  /\ UNCHANGED <<focus, clVars, nkVars, rcVars, tsVars, trVars, pmVars,
                prVars, aaVars, npVars, lbVars>>

Next ==
  \/ CLNext
  \/ NKNext
  \/ RCNext
  \/ TSNext
  \/ TRNext
  \/ PMNext
  \/ PRNext
  \/ AANext
  \/ NPNext
  \/ LBNext
  \/ RNNext

Fairness ==
  /\ CL!Fairness /\ NK!Fairness /\ RC!Fairness /\ TS!Fairness
  /\ PM!Fairness /\ PR!Fairness /\ AA!Fairness /\ NP!Fairness /\ LB!Fairness
  /\ RN!Fairness

Spec == Init /\ [][Next]_vars /\ Fairness

-----------------------------------------------------------------------------
\* The type invariants of the components.
TypesOK ==
  /\ CL!TypeOK /\ NK!TypeOK /\ RC!TypeOK /\ TS!TypeOK /\ TR!TypeOK
  /\ PM!TypeOK /\ PR!TypeOK /\ AA!TypeOK /\ NP!TypeOK /\ LB!TypeOK
  /\ RN!TypeOK

\* A call that waits.
Waiting ==
  \/ CL!Waiting \/ NK!Waiting \/ RC!Waiting \/ TS!Waiting \/ PM!Waiting
  \/ PR!Waiting \/ AA!Waiting \/ NP!Waiting \/ LB!Waiting
  \/ RN!Waiting

\* The calls return: a gather that queries Prometheus, the gathers and stops
\* that wait for goroutines (the collectors, the probes, the node killer, the
\* network test), an Execute of a tuning set, a request that is retried, and
\* a measure of the node sync latency; and main ends once it is interrupted,
\* as do tftest and kubetest2-runner once their time is over.
CallsReturn == Waiting ~> ~Waiting


\* api_availability_measurement.go: no probe is sent from the return of pause
\* to the next unpause, and the longest unavailability is that of the probes.
ProbesRight == []AA!LongestRun /\ AA!NoProbeWhilePaused


\* prometheus.go and clusterloader.go: the disk with the Prometheus data is not
\* deleted before its snapshot ended, by main or by the signal handler.
DiskOutlivesSnapshot == CL!DiskOutlivesSnapshot


\* simple_test_executor's chaos monkey (nodes.go) implements NodeFailures: nodes
\* fail only between a start and the return of the next stop, each at most
\* once, and none is left failing.
ImplementsNodeFailures == NK!ImplementsNodeFailures


\* A request that reports success had its effect at some moment of the call,
\* though an earlier attempt may have done it and a later one met its result.
EffectHappened == RC!EffectHappened

=============================================================================
