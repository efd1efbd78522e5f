---------------------------- MODULE ClusterLoader ----------------------------
(***************************************************************************)
(* The clusterloader binary (cmd/clusterloader.go) with what it sets up    *)
(* and tears down around the tests: the Prometheus stack and the disk its  *)
(* data lives on (prometheus.go, experimental.go) and the exec service     *)
(* (exec_service.go).  Two threads run: main, and the signal handler that  *)
(* EnableTearDownPrometheusStackOnInterrupt starts, which takes the same   *)
(* disk snapshot as the tear-down.  What image preloading does is          *)
(* ImagePreload's; here it is one step that may fail.  What a test does is *)
(* TestExecutor's; here it is one step that passes or fails.               *)
(***************************************************************************)
EXTENDS Naturals, FiniteSets

CONSTANTS
    Configs,      \* configurations (flags and provider features) to run with
    Leftovers,    \* sets of resources an earlier execution may have left
    Tests         \* number of test scenarios

VARIABLES
    cfg,          \* clusterLoaderConfig
    res,          \* resources that exist in the cluster and the cloud project
    pc,           \* where main is
    pc0,          \* the Controller's fields the two threads share
    handler,      \* where the signal handler is
    failed,       \* NumberOfFailedSpecs
    ran,          \* scenarios run so far
    faulty        \* some API call, wait or gcloud command has failed

vars == <<cfg, res, pc, pc0, handler, failed, ran, faulty>>

\* What the stack of prometheus.go consists of, besides its disk.
Namespaced == {"monitoring", "secret"}
Resources == Namespaced \cup {"serviceAccount", "clusterRole", "storageClass",
                              "disk", "snapshot", "exec"}

\* isEnabled of experimental.go.
snapshotEnabled == cfg.snapshotDisk /\ cfg.snapshotSupported

\* validateFlags, validateClusterFlags and ValidatePrometheusFlags.
validateFlags(c) ==
    /\ c.scenarios \in {"configs", "suite"}
    /\ c.runFromCluster # c.kubeconfig
    /\ c.enableServer => c.promSupported
    /\ c.snapshotDisk => c.project

Init ==
    /\ cfg \in Configs
    /\ res \in Leftovers
    /\ pc = "start"
    /\ pc0 = [disk |-> FALSE, lock |-> "free", snapshotted |-> FALSE]
    /\ handler = "none"
    /\ failed = 0 /\ ran = 0 /\ faulty = FALSE

----------------------------------------------------------------------------
\* main stops: Exitf, an unrecovered panic or the end of main.
Exitf == pc' = "exited"

\* A step of main that may fail and then ends the process.
OrExit(A) ==
    \/ A
    \/ /\ Exitf /\ faulty' = TRUE
       /\ UNCHANGED <<res, pc0, handler, failed, ran>>

Frame == UNCHANGED <<cfg, pc0, handler, failed, ran, faulty>>

\* main up to the point where it changes the cluster: flags, provider, clients,
\* completeConfig, createReportDir, verifyCluster.  A dry run changes nothing
\* and always exits.
start ==
    /\ pc = "start"
    /\ UNCHANGED <<cfg, res, pc0, handler, failed, ran>>
    /\ \/ /\ validateFlags(cfg) /\ ~cfg.dryRun
          /\ pc' = IF cfg.enableServer THEN "createNamespace" ELSE "exec"
          /\ UNCHANGED faulty
       \/ Exitf /\ faulty' = validateFlags(cfg)

\* SetUpPrometheusStack: the namespace, tolerating one that exists.
CreateNamespace ==
    /\ pc = "createNamespace"
    /\ UNCHANGED cfg
    /\ OrExit(/\ res' = res \cup {"monitoring"} /\ pc' = "createToken" /\ Frame)

\* createToken: the service account lives in the tested cluster, the secret
\* with its token in the root cluster.  The secret is updated when it exists,
\* unless the account had to be created: then it is created, and a secret that
\* exists is an error.
createToken ==
    /\ pc = "createToken"
    /\ UNCHANGED cfg
    /\ IF "serviceAccount" \notin res /\ "secret" \in res
       THEN /\ res' = res \cup {"serviceAccount"} /\ Exitf
            /\ UNCHANGED <<pc0, handler, failed, ran, faulty>>
       ELSE \/ /\ res' = res \cup {"serviceAccount", "secret"}
               /\ pc' = "manifests" /\ Frame
            \/ /\ res' \in {res, res \cup {"serviceAccount"}}
               /\ Exitf /\ faulty' = TRUE
               /\ UNCHANGED <<pc0, handler, failed, ran>>

\* The rest of SetUpPrometheusStack: the storage class is deleted (its reclaim
\* policy cannot be changed) and applied again with the core manifests and the
\* optional ones; the metrics role when the masters' addresses are known; then
\* it waits for the stack to be healthy, by which time the disk is bound.
applyManifests ==
    /\ pc = "manifests"
    /\ UNCHANGED cfg
    /\ \/ /\ res' \in {res, res \ {"storageClass"}}
          /\ Exitf /\ faulty' = TRUE
          /\ UNCHANGED <<pc0, handler, failed, ran>>
       \/ /\ res' = res \cup {"storageClass"}
                        \cup (IF cfg.masterIPs THEN {"clusterRole"} ELSE {})
          /\ pc' = "healthy" /\ Frame

\* waitForPrometheusToBeHealthy.
waitForPrometheusToBeHealthy ==
    /\ pc = "healthy"
    /\ UNCHANGED cfg
    /\ OrExit(/\ res' = res \cup {"disk"} /\ pc' = "cacheDisk" /\ Frame)

\* tryRetrievePrometheusDiskMetadata: found only while the volume is bound,
\* which is while the namespace exists; the poll may time out.
cachePrometheusDiskMetadata(next) ==
    /\ UNCHANGED <<cfg, res, handler, failed, ran>>
    /\ pc' = next
    /\ IF snapshotEnabled /\ {"disk", "monitoring"} \subseteq res
       THEN \/ pc0' = [pc0 EXCEPT !.disk = TRUE] /\ UNCHANGED faulty
            \/ faulty' = TRUE /\ UNCHANGED pc0
       ELSE UNCHANGED <<pc0, faulty>>

cacheAfterSetUp == pc = "cacheDisk" /\ cachePrometheusDiskMetadata("handler")

\* EnableTearDownPrometheusStackOnInterrupt.
EnableTearDownOnInterrupt ==
    /\ pc = "handler"
    /\ pc' = "exec"
    /\ handler' = IF cfg.tearDown THEN "waiting" ELSE "none"
    /\ UNCHANGED <<cfg, res, pc0, failed, ran, faulty>>

\* SetUpExecService: the namespace, the deployment and the wait for its pods.
\* A failed wait leaves the namespace and the pod store.
SetUpExecService ==
    /\ pc = "exec"
    /\ UNCHANGED cfg
    /\ res' = IF cfg.exec THEN res \cup {"exec"} ELSE res
    /\ \/ pc' = "preload" /\ Frame
       \/ /\ cfg.exec /\ Exitf /\ faulty' = TRUE
          /\ UNCHANGED <<pc0, handler, failed, ran>>

\* imagepreload.Setup (ImagePreload), the metadata dump and BeginTestSuite.
preload ==
    /\ pc = "preload"
    /\ UNCHANGED <<cfg, res>>
    /\ OrExit(pc' = "contexts" /\ Frame /\ UNCHANGED res)

\* The loop that creates the contexts and compiles the test configurations.
CompileTestConfigs ==
    /\ pc = "contexts"
    /\ UNCHANGED <<cfg, res>>
    /\ OrExit(pc' = "tests" /\ Frame /\ UNCHANGED res)

\* runSingleTest and the reporter's ReportTestFinish: the tests run one after
\* the other, whatever the earlier ones returned.
runSingleTest ==
    /\ pc = "tests" /\ ran < Tests
    /\ ran' = ran + 1
    /\ failed' \in {failed, failed + 1}
    /\ UNCHANGED <<cfg, res, pc, pc0, handler, faulty>>

\* EndTestSuite and MakePrometheusSnapshotIfEnabled, which is called without a
\* Controller when the server is not enabled: with the snapshot to the report
\* directory requested it then dereferences a nil pointer.
EndTestSuite ==
    /\ pc = "tests" /\ ran = Tests
    /\ pc' = IF cfg.snapshotToDir /\ ~cfg.enableServer THEN "exited"
             ELSE IF cfg.enableServer /\ cfg.tearDown THEN "tearDown" ELSE "execDown"
    /\ UNCHANGED <<cfg, res, pc0, handler, failed, ran, faulty>>

\* TearDownPrometheusStack: the metadata once more, then the namespace and the
\* wait for it to be gone; an error skips the wait, never the deferred steps.
\* With RetainPD (snapshotEnabled) the disk outlives the namespace.
cacheBeforeTearDown == pc = "tearDown" /\ cachePrometheusDiskMetadata("deleteNamespace")

TearDownPrometheusStack ==
    /\ pc = "deleteNamespace"
    /\ pc' = "lock"
    /\ UNCHANGED <<cfg, pc0, handler, failed, ran>>
    /\ \/ /\ res' = res \ (Namespaced \cup IF snapshotEnabled THEN {} ELSE {"disk"})
          /\ UNCHANGED faulty
       \/ faulty' = TRUE /\ UNCHANGED res

\* Fault: snapshotted is looked at before the lock is taken.
FaultySnapshotSynchronized(thread) ==
    \/ pc0.snapshotted /\ UNCHANGED pc0
    \/ /\ pc0.lock = "free"
       /\ pc0' = [pc0 EXCEPT !.lock = thread, !.snapshotted = TRUE]

\* snapshotPrometheusDiskIfEnabledSynchronized: taking the lock.  The first
\* thread marks the snapshot as taken before it starts taking it.
snapshotSynchronized(thread) ==
    /\ pc0.lock = "free"
    /\ pc0' = IF pc0.snapshotted THEN pc0
              ELSE [pc0 EXCEPT !.lock = thread, !.snapshotted = TRUE]

\* snapshotPrometheusDiskIfEnabled and the release of the lock.  Without the
\* disk's name there is nothing to snapshot; the gcloud command may keep
\* failing until the poll gives up.
snapshotPrometheusDisk(thread) ==
    /\ pc0.lock = thread
    /\ pc0' = [pc0 EXCEPT !.lock = "free"]
    /\ IF snapshotEnabled /\ pc0.disk /\ "disk" \in res
       THEN \/ res' = res \cup {"snapshot"} /\ UNCHANGED faulty
            \/ faulty' = TRUE /\ UNCHANGED res
       ELSE UNCHANGED <<res, faulty>>

\* main's snapshot, in the function TearDownPrometheusStack defers.
mainLocks ==
    /\ pc = "lock"
    /\ snapshotSynchronized("main")
    /\ pc' = IF pc0'.lock = "main" THEN "snapshot" ELSE "deleteDisk"
    /\ UNCHANGED <<cfg, res, handler, failed, ran, faulty>>

mainSnapshots ==
    /\ pc = "snapshot"
    /\ snapshotPrometheusDisk("main")
    /\ pc' = "deleteDisk"
    /\ UNCHANGED <<cfg, handler, failed, ran>>

\* deletePrometheusDiskIfEnabled.  A disk still used by the stack cannot be
\* deleted.
deletePrometheusDisk ==
    /\ pc = "deleteDisk"
    /\ pc' = "execDown"
    /\ UNCHANGED <<cfg, pc0, handler, failed, ran>>
    /\ IF snapshotEnabled /\ pc0.disk
       THEN \/ "monitoring" \notin res /\ res' = res \ {"disk"} /\ UNCHANGED faulty
            \/ faulty' = TRUE /\ UNCHANGED res
       ELSE UNCHANGED <<res, faulty>>

\* TearDownExecService and the exit status of main.
TearDownExecService ==
    /\ pc = "execDown"
    /\ pc' = IF failed > 0 THEN "failure" ELSE "success"
    /\ UNCHANGED <<cfg, pc0, handler, failed, ran>>
    /\ IF cfg.exec
       THEN \/ res' = res \ {"exec"} /\ UNCHANGED faulty
            \/ faulty' = TRUE /\ UNCHANGED res
       ELSE UNCHANGED <<res, faulty>>

----------------------------------------------------------------------------
Running == pc \notin {"exited", "failure", "success"}

\* The interrupt.  With no handler installed it ends the process; the handler
\* takes the snapshot, then ends the process whatever main is doing.
Interrupt ==
    /\ Running
    /\ \/ handler = "none" /\ Exitf /\ UNCHANGED handler
       \/ handler = "waiting" /\ handler' = "lock" /\ UNCHANGED pc
    /\ UNCHANGED <<cfg, res, pc0, failed, ran, faulty>>

handlerLocks ==
    /\ Running /\ handler = "lock"
    /\ snapshotSynchronized("handler")
    /\ handler' = IF pc0'.lock = "handler" THEN "snapshot" ELSE "exit"
    /\ UNCHANGED <<cfg, res, pc, failed, ran, faulty>>

handlerSnapshots ==
    /\ Running /\ handler = "snapshot"
    /\ snapshotPrometheusDisk("handler")
    /\ handler' = "exit"
    /\ UNCHANGED <<cfg, pc, failed, ran>>

handlerExits ==
    /\ Running /\ handler = "exit"
    /\ Exitf
    /\ UNCHANGED <<cfg, res, pc0, handler, failed, ran, faulty>>

Main ==
    \/ start \/ CreateNamespace \/ createToken \/ applyManifests
    \/ waitForPrometheusToBeHealthy \/ cacheAfterSetUp \/ EnableTearDownOnInterrupt
    \/ SetUpExecService \/ preload \/ CompileTestConfigs \/ runSingleTest
    \/ EndTestSuite \/ cacheBeforeTearDown \/ TearDownPrometheusStack
    \/ mainLocks \/ mainSnapshots \/ deletePrometheusDisk \/ TearDownExecService

Handler == handlerLocks \/ handlerSnapshots \/ handlerExits

Next == Main \/ Handler \/ Interrupt

\* Both threads are scheduled as long as the process runs; nobody has to start it.
Fairness == WF_vars(pc # "start" /\ Main) /\ WF_vars(Handler)

Spec == Init /\ [][Next]_vars /\ Fairness

----------------------------------------------------------------------------
\* Type correctness of the configuration, the resources and the two threads.
TypeOK ==
    /\ cfg \in Configs
    /\ res \subseteq Resources
    /\ pc0 \in [disk : BOOLEAN, lock : {"free", "main", "handler"}, snapshotted : BOOLEAN]
    /\ handler \in {"none", "waiting", "lock", "snapshot", "exit"}
    /\ failed \in 0..ran /\ ran \in 0..Tests
    /\ faulty \in BOOLEAN

\* While a thread takes the snapshot of the Prometheus disk
\* (snapshotPrometheusDiskIfEnabledSynchronized), the other never deletes it,
\* and the disk is deleted only after a snapshot was attempted: main's
\* tear-down waits for the handler's snapshot and the handler for main's.
DiskOutlivesSnapshot ==
    snapshotEnabled /\ pc0.disk /\ "disk" \notin res =>
        pc0.snapshotted /\ pc0.lock = "free"

\* A run of main that reaches its end without a failed call has torn down all
\* the namespaces it set up, and the Prometheus disk with them, whether or not
\* tests failed, and its exit status says whether one did.
NothingLeftBehind ==
    pc \in {"failure", "success"} /\ ~faulty =>
        /\ cfg.exec => "exec" \notin res
        /\ cfg.enableServer /\ cfg.tearDown => res \cap (Namespaced \cup {"disk"}) = {}
        /\ ran = Tests /\ (pc = "failure" <=> failed > 0)

Waiting == Running /\ handler \in {"lock", "snapshot", "exit"}

\* Once interrupted, the process ends: the handler never waits for main forever.
InterruptEnds == Waiting ~> ~Waiting

=============================================================================
