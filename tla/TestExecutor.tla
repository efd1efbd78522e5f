----------------------------- MODULE TestExecutor -----------------------------
(***************************************************************************)
(* The life of one test: simpleExecutor.ExecuteTest of                     *)
(* clusterloader2/pkg/test/simple_test_executor.go with the parts it       *)
(* starts and has to stop again: the chaos monkey (pkg/chaos), the         *)
(* automanaged namespaces (pkg/framework), the dependencies                *)
(* (pkg/dependency) and the measurement instances (pkg/measurement).       *)
(*                                                                         *)
(* What a step does to the cluster is the subject of TestPhases; here a    *)
(* phase only returns errors or not.  A dependency and a measurement are   *)
(* reduced to being up or not.                                             *)
(***************************************************************************)
EXTENDS Naturals, Sequences, FiniteSets

CONSTANTS
    Names,         \* names of the automanaged namespaces of the test
    Stale,         \* namespaces an earlier test left behind
    Dependencies,  \* sequence of the dependencies of the test
    Steps,         \* sequence: the set of measurements each step calls
    Measurements,
    Failures       \* FALSE iff calls of the cluster never fail

ASSUME ExecutorAssumption ==
    /\ IsFiniteSet(Names) /\ IsFiniteSet(Stale) /\ Names \cap Stale = {}
    /\ Dependencies \in Seq(STRING)
    /\ Steps \in Seq(SUBSET Measurements)
    /\ Failures \in BOOLEAN

VARIABLES
    pc,            \* where ExecuteTest is
    conf,          \* the namespace and chaos parts of the configuration
    existing,      \* namespaces that exist in the cluster
    automanaged,   \* names registered in Framework.automanagedNamespaces
    chaos,         \* the goroutine of the node killer
    stopClosed,    \* stopCh has been closed
    dep,           \* position in Dependencies -> state of the dependency
    setupDependencies, \* positions set up, in order, for teardown
    next,          \* position of the next dependency or step
    instance,      \* measurement -> state of its instance
    calls,         \* measurement -> its Execute call in the current step
    read,          \* measurement -> mm.summaries as its call has read it
    summaries,     \* measurements whose summary was collected
    produced,      \* measurements that returned a summary
    errors         \* what the error list of the test, or the log, has

vars == <<pc, conf, existing, automanaged, chaos, stopClosed, dep, setupDependencies,
          next, instance, calls, read, summaries, produced, errors>>

namespaceVars   == <<existing, automanaged>>
chaosVars       == <<chaos, stopClosed>>
dependencyVars  == <<dep, setupDependencies>>
measurementVars == <<instance, calls, read, summaries, produced>>

Confs == [chaos : BOOLEAN, existingAllowed : BOOLEAN, deleteStale : BOOLEAN,
          deleteAutomanaged : BOOLEAN, preExisting : SUBSET Names]

ErrorKinds == {"chaos", "namespaces", "createNamespace", "dependencies", "setupTimeout",
               "step", "critical", "write", "cleanup", "teardown"}

TypeOK ==
    /\ pc \in {"chaos", "listNamespaces", "createNamespaces", "setup", "steps", "step",
               "waitChaos", "summaries", "dispose", "deleteNamespaces", "teardown",
               "returned"}
    /\ conf \in Confs
    /\ existing \in SUBSET (Names \cup Stale)
    /\ automanaged \in SUBSET Names
    /\ chaos \in {"off", "running", "ended"}
    /\ stopClosed \in BOOLEAN
    /\ dep \in [DOMAIN Dependencies -> {"none", "late", "up", "down"}]
    /\ setupDependencies \in Seq(DOMAIN Dependencies)
    /\ next \in Nat
    /\ instance \in [Measurements -> {"none", "running", "disposed"}]
    /\ calls \in [Measurements -> {"none", "called", "read", "returned"}]
    /\ read \in [Measurements -> SUBSET Measurements]
    /\ summaries \in SUBSET Measurements
    /\ produced \in SUBSET Measurements
    /\ errors \in SUBSET ErrorKinds

Init ==
    /\ pc = "chaos"
    /\ conf \in Confs
    /\ existing = conf.preExisting \cup Stale
    /\ automanaged = {}
    /\ chaos = "off"
    /\ stopClosed = FALSE
    /\ dep = [d \in DOMAIN Dependencies |-> "none"]
    /\ setupDependencies = <<>>
    /\ next = 1
    /\ instance = [m \in Measurements |-> "none"]
    /\ calls = [m \in Measurements |-> "none"]
    /\ read = [m \in Measurements |-> {}]
    /\ summaries = {}
    /\ produced = {}
    /\ errors = {}

Error(kinds) == errors' = errors \cup kinds

-----------------------------------------------------------------------------
(***************************************************************************)
(* Up to the first step.  An early return runs the deferred cleanup, which *)
(* begins at "dispose".                                                    *)
(***************************************************************************)

\* Monkey.Init: without NodeFailure nothing is started; a provider that does
\* not support it is an error.
InitChaosMonkey ==
    /\ pc = "chaos"
    /\ \/ /\ ~conf.chaos
          /\ pc' = "listNamespaces"
          /\ UNCHANGED <<chaosVars, errors>>
       \/ /\ conf.chaos
          /\ chaos' = "running"
          /\ pc' = "listNamespaces"
          /\ UNCHANGED <<stopClosed, errors>>
       \/ /\ conf.chaos
          /\ Failures
          /\ stopClosed' = TRUE
          /\ pc' = "dispose"
          /\ Error({"chaos"})
          /\ UNCHANGED chaos
    /\ UNCHANGED <<conf, namespaceVars, dependencyVars, next, measurementVars>>

\* prepareTestNamespaces up to the creation: stale namespaces are deleted (a
\* failure is only logged).  Its errors return without closing stopCh.
ListNamespaces ==
    /\ pc = "listNamespaces"
    /\ \/ /\ Failures \/ (existing \cap Names # {} /\ ~conf.existingAllowed)
          /\ pc' = "dispose"
          /\ Error({"namespaces"})
          /\ UNCHANGED existing
       \/ /\ existing \cap Names = {} \/ conf.existingAllowed
          /\ \E gone \in SUBSET Stale :
                /\ conf.deleteStale \/ gone = {}
                /\ conf.deleteStale /\ ~Failures => gone = Stale
                /\ existing' = existing \ gone
          /\ pc' = "createNamespaces"
          /\ UNCHANGED errors
    /\ UNCHANGED <<conf, automanaged, chaosVars, dependencyVars, next, measurementVars>>

\* Fault: every namespace that is found is registered for deletion.
FaultyCreateNamespaces ==
    /\ pc = "createNamespaces"
    /\ existing' = existing \cup Names
    /\ automanaged' = existing'
    /\ pc' = "setup"
    /\ UNCHANGED <<conf, chaosVars, dependencyVars, next, measurementVars, errors>>

\* CreateAutomanagedNamespaces.  A call that fails for good may have created
\* the namespace all the same; it is not registered.
CreateNamespaces ==
    /\ pc = "createNamespaces"
    /\ \/ /\ existing' = existing \cup Names
          /\ automanaged' = Names
          /\ pc' = "setup"
          /\ UNCHANGED errors
       \/ /\ Failures
          /\ \/ \* the existing namespaces could not be listed
                UNCHANGED namespaceVars
             \/ \E registered \in SUBSET Names : \E n \in Names \ (registered \cup existing) :
                   /\ automanaged' = registered
                   /\ existing' \in {existing \cup registered,
                                     existing \cup registered \cup {n}}
          /\ pc' = "dispose"
          /\ Error({"createNamespace"})
    /\ UNCHANGED <<conf, chaosVars, dependencyVars, next, measurementVars>>

\* Fault: a dependency that was set up is not remembered.
FaultySetupDependency ==
    /\ pc = "setup"
    /\ next <= Len(Dependencies)
    /\ dep' = [dep EXCEPT ![next] = "up"]
    /\ next' = next + 1
    /\ UNCHANGED <<pc, conf, namespaceVars, chaosVars, setupDependencies, measurementVars,
                   errors>>

\* SetupDependencies goes on after an error.  A setup that exceeds its timeout
\* is given up, not ended: its goroutine may still bring the dependency up.
SetupDependency ==
    /\ pc = "setup"
    /\ next <= Len(Dependencies)
    /\ \/ /\ dep' = [dep EXCEPT ![next] = "up"]
          /\ setupDependencies' = Append(setupDependencies, next)
          /\ UNCHANGED errors
       \/ /\ Failures
          /\ Error({"dependencies"})
          /\ UNCHANGED dependencyVars
       \/ /\ Failures
          /\ dep' = [dep EXCEPT ![next] = "late"]
          /\ Error({"dependencies", "setupTimeout"})
          /\ UNCHANGED setupDependencies
    /\ next' = next + 1
    /\ UNCHANGED <<pc, conf, namespaceVars, chaosVars, measurementVars>>

LateSetupEnds(d) ==
    /\ dep[d] = "late"
    /\ dep' \in {[dep EXCEPT ![d] = "up"], [dep EXCEPT ![d] = "none"]}
    /\ UNCHANGED <<pc, conf, namespaceVars, chaosVars, setupDependencies, next,
                   measurementVars, errors>>

\* Fault: the early return does not close stopCh.
FaultyDependenciesDone ==
    /\ pc = "setup"
    /\ next > Len(Dependencies)
    /\ pc' = IF "dependencies" \in errors THEN "dispose" ELSE "steps"
    /\ next' = 1
    /\ UNCHANGED <<conf, namespaceVars, chaosVars, dependencyVars, measurementVars, errors>>

DependenciesDone ==
    /\ pc = "setup"
    /\ next > Len(Dependencies)
    /\ IF "dependencies" \in errors
       THEN pc' = "dispose" /\ stopClosed' = TRUE
       ELSE pc' = "steps" /\ UNCHANGED stopClosed
    /\ next' = 1
    /\ UNCHANGED <<conf, namespaceVars, chaos, dependencyVars, measurementVars, errors>>

-----------------------------------------------------------------------------
(***************************************************************************)
(* Steps: the measurements of a step are called in parallel.               *)
(***************************************************************************)

BeginStep ==
    /\ pc = "steps"
    /\ next <= Len(Steps)
    /\ pc' = "step"
    /\ calls' = [m \in Measurements |-> IF m \in Steps[next] THEN "called" ELSE "none"]
    /\ UNCHANGED <<conf, namespaceVars, chaosVars, dependencyVars, next, instance,
                   read, summaries, produced, errors>>

\* measurementManager.Execute: without an instance it returns an error;
\* otherwise, up to the return of the measurement's Execute, which comes with a
\* summary or not and with an error or not.  mm.summaries is then read, without
\* the lock.  (A server version that cannot be read is an error, too.)
ExecuteMeasurement(m) ==
    /\ calls[m] = "called"
    /\ \/ /\ instance[m] = "none"
          /\ Failures
          /\ calls' = [calls EXCEPT ![m] = "returned"]
          /\ Error({"step"})
          /\ UNCHANGED <<instance, read, produced>>
       \/ /\ instance' = [instance EXCEPT ![m] = "running"]
          /\ \/ /\ calls' = [calls EXCEPT ![m] = "read"]
                /\ read' = [read EXCEPT ![m] = summaries]
                /\ produced' = produced \cup {m}
             \/ /\ calls' = [calls EXCEPT ![m] = "returned"]
                /\ UNCHANGED <<read, produced>>
          /\ \E kinds \in SUBSET {"step", "critical"} :
                /\ kinds # {} => Failures
                /\ Error(kinds)
    /\ UNCHANGED <<pc, conf, namespaceVars, chaosVars, dependencyVars, next, summaries>>

\* mm.summaries = append(what was read, the new summary)
AppendSummary(m) ==
    /\ calls[m] = "read"
    /\ summaries' = read[m] \cup {m}
    /\ read' = [read EXCEPT ![m] = {}]
    /\ calls' = [calls EXCEPT ![m] = "returned"]
    /\ UNCHANGED <<pc, conf, namespaceVars, chaosVars, dependencyVars, next, instance,
                   produced, errors>>

\* The step ends with its last call; only a critical error ends the test.
EndStep ==
    /\ pc = "step"
    /\ \A m \in Measurements : calls[m] \in {"none", "returned"}
    /\ pc' = "steps"
    /\ next' = IF "critical" \in errors THEN Len(Steps) + 1 ELSE next + 1
    /\ UNCHANGED <<conf, namespaceVars, chaosVars, dependencyVars, measurementVars, errors>>

\* Fault: stopCh is not closed after the steps.
FaultyStepsDone ==
    /\ pc = "steps"
    /\ next > Len(Steps)
    /\ pc' = "waitChaos"
    /\ UNCHANGED <<conf, namespaceVars, chaosVars, dependencyVars, next, measurementVars,
                   errors>>

StepsDone ==
    /\ pc = "steps"
    /\ next > Len(Steps)
    /\ stopClosed' = TRUE
    /\ pc' = "waitChaos"
    /\ UNCHANGED <<conf, namespaceVars, chaos, dependencyVars, next, measurementVars, errors>>

\* NodeKiller.Run ends after stopCh was closed.
ChaosMonkeyEnds ==
    /\ chaos = "running"
    /\ stopClosed
    /\ chaos' = "ended"
    /\ UNCHANGED <<pc, conf, namespaceVars, stopClosed, dependencyVars, next,
                   measurementVars, errors>>

\* Fault: the wait group is not waited for.
FaultyWaitForChaosMonkey ==
    /\ pc = "waitChaos"
    /\ pc' = "summaries"
    /\ UNCHANGED <<conf, namespaceVars, chaosVars, dependencyVars, next, measurementVars,
                   errors>>

WaitForChaosMonkey ==
    /\ pc = "waitChaos"
    /\ chaos # "running"
    /\ pc' = "summaries"
    /\ UNCHANGED <<conf, namespaceVars, chaosVars, dependencyVars, next, measurementVars,
                   errors>>

WriteSummaries ==
    /\ pc = "summaries"
    /\ \E failed \in SUBSET summaries :
          /\ failed # {} => Failures
          /\ Error(IF failed = {} THEN {} ELSE {"write"})
    /\ pc' = "dispose"
    /\ UNCHANGED <<conf, namespaceVars, chaosVars, dependencyVars, next, measurementVars>>

-----------------------------------------------------------------------------
(***************************************************************************)
(* cleanupTestResourcesAndDependencies                                     *)
(***************************************************************************)

DisposeMeasurements ==
    /\ pc = "dispose"
    /\ instance' = [m \in Measurements |->
                       IF instance[m] = "running" THEN "disposed" ELSE instance[m]]
    /\ pc' = "deleteNamespaces"
    /\ next' = Len(setupDependencies)
    /\ UNCHANGED <<conf, namespaceVars, chaosVars, dependencyVars, calls, read, summaries,
                   produced, errors>>

\* DeleteAutomanagedNamespaces; an error returns before the dependencies are
\* torn down.  A namespace that is gone only after the timeout stays registered.
DeleteNamespaces ==
    /\ pc = "deleteNamespaces"
    /\ \E gone \in SUBSET automanaged : \E slow \in SUBSET (automanaged \ gone) :
          /\ ~conf.deleteAutomanaged => gone \cup slow = {}
          /\ conf.deleteAutomanaged /\ ~Failures => gone = automanaged
          /\ existing' = existing \ (gone \cup slow)
          /\ automanaged' = automanaged \ gone
          /\ IF conf.deleteAutomanaged /\ gone # automanaged
             THEN pc' = "returned" /\ Error({"cleanup"})
             ELSE pc' = "teardown" /\ UNCHANGED errors
    /\ UNCHANGED <<conf, chaosVars, dependencyVars, next, measurementVars>>

\* Fault: dependencies are torn down in the order of their setup.
FaultyTeardownDependency ==
    /\ pc = "teardown"
    /\ next > 0
    /\ dep' = [dep EXCEPT ![setupDependencies[Len(setupDependencies) + 1 - next]] = "down"]
    /\ next' = next - 1
    /\ UNCHANGED <<pc, conf, namespaceVars, chaosVars, setupDependencies, measurementVars,
                   errors>>

\* TeardownDependencies goes backwards, and on after an error.
TeardownDependency ==
    /\ pc = "teardown"
    /\ next > 0
    /\ \/ /\ dep' = [dep EXCEPT ![setupDependencies[next]] = "down"]
          /\ UNCHANGED errors
       \/ /\ Failures
          /\ Error({"teardown"})
          /\ UNCHANGED dep
    /\ next' = next - 1
    /\ UNCHANGED <<pc, conf, namespaceVars, chaosVars, setupDependencies, measurementVars>>

Return ==
    /\ pc = "teardown"
    /\ next = 0
    /\ pc' = "returned"
    /\ UNCHANGED <<conf, namespaceVars, chaosVars, dependencyVars, next, measurementVars,
                   errors>>

ExecuteTest ==
    \/ InitChaosMonkey \/ ListNamespaces \/ CreateNamespaces
    \/ SetupDependency \/ DependenciesDone
    \/ BeginStep \/ EndStep \/ StepsDone
    \/ WaitForChaosMonkey \/ WriteSummaries
    \/ DisposeMeasurements \/ DeleteNamespaces \/ TeardownDependency \/ Return

CallMeasurement(m) == ExecuteMeasurement(m) \/ AppendSummary(m)

Next ==
    \/ ExecuteTest
    \/ \E m \in Measurements : CallMeasurement(m)
    \/ \E d \in DOMAIN Dependencies : LateSetupEnds(d)
    \/ ChaosMonkeyEnds

Spec == Init /\ [][Next]_vars

\* The goroutines of the test keep running, and a measurement's Execute returns.
FairSpec ==
    /\ Spec
    /\ WF_vars(ExecuteTest)
    /\ \A m \in Measurements : WF_vars(CallMeasurement(m))
    /\ WF_vars(ChaosMonkeyEnds)

-----------------------------------------------------------------------------
(***************************************************************************)
(* Properties.                                                             *)
(***************************************************************************)

CleaningUp == pc \in {"dispose", "deleteNamespaces", "teardown", "returned"}

\* Once the steps are done, summaries are written and resources cleaned up only
\* after the chaos monkey has ended: no node is stopped under the cleanup.  (A
\* test that fails before its steps does not wait for the monkey.)
NoChaosAfterSteps ==
    (CleaningUp \/ pc = "summaries") /\ chaos = "running" =>
        errors \cap {"namespaces", "createNamespace", "dependencies"} # {}

\* A test whose cleanup met no error leaves nothing behind: its namespaces are
\* gone (if it is to delete them), every instance of a measurement is disposed,
\* and every dependency whose setup succeeded is down again.
CleanupComplete ==
    pc = "returned" =>
        /\ \A m \in Measurements : instance[m] # "running"
        /\ "cleanup" \notin errors /\ conf.deleteAutomanaged =>
              /\ automanaged = {}
              /\ "createNamespace" \notin errors =>
                    existing \cap Names \subseteq conf.preExisting
        /\ errors \cap {"cleanup", "teardown", "setupTimeout"} = {}
           => \A d \in DOMAIN Dependencies : dep[d] # "up"

\* "tears down all previously setup dependencies in reverse order"
\* (dependency/manager.go:54): a dependency goes down only when those set up
\* after it are down, except one whose teardown failed.
TeardownReversed ==
    [][\A i, j \in DOMAIN setupDependencies :
          i < j /\ dep[setupDependencies[i]] = "up" /\ dep'[setupDependencies[i]] = "down"
          => dep[setupDependencies[j]] = "down" \/ "teardown" \in errors]_vars

\* ExecuteTest returns, whatever fails: neither the steps nor the wait for the
\* chaos monkey's goroutine hangs.
TestReturns == <>(pc = "returned")

\* A test that got past its namespaces ends the chaos monkey on every path out
\* of ExecuteTest, the early return after a failed setup included.
ChaosEnds == [](pc = "setup" => <>(chaos # "running"))

\* "GetSummaries returns collected summaries." (measurement/manager.go:86)
SummariesKept == pc = "summaries" => summaries = produced

\* "TeardownDependencies tears down all previously setup dependencies in
\* reverse order" (dependency/manager.go:54), of a cleanup without errors.
NoDependencyLeft ==
    pc = "returned" /\ errors \cap {"cleanup", "teardown"} = {} =>
        \A d \in DOMAIN Dependencies : dep[d] # "up"

==============================================================================
