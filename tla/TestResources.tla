---------------------------- MODULE TestResources ----------------------------
(***************************************************************************)
(* The measurements and dependencies that install workloads of their own   *)
(* and remove them again: network policy enforcement latency, DNS          *)
(* performance, probes, network performance, and the DRA driver that the   *)
(* dependency manager installs.  They share the shape modelled here: a     *)
(* set-up that creates a namespace and then objects in order and stops at  *)
(* the first error, and a clean-up that deletes objects in order and       *)
(* either stops at an error or logs it and goes on.  Each component's two  *)
(* lists are data; API calls fail, with or without having taken effect.    *)
(***************************************************************************)
EXTENDS Naturals, Sequences

CONSTANTS
    Kinds,        \* the components to run
    MaxFaults,    \* bound: API calls and waits that fail
    MaxSetups     \* bound: how often the set-up is called

VARIABLES
    kind,
    m,            \* the measurement's fields
    ns,           \* the phase of its namespace
    objs,         \* the objects that exist
    call,         \* the call that runs and its position
    faults, setups

vars == <<kind, m, ns, objs, call, faults, setups>>

\* Objects that live outside the namespace.
ClusterScoped == {"clusterRole", "clusterRoleBinding", "crd", "deviceClass"}

\* createPermissionResources of the network policy measurement.
createPermissionResources == <<"serviceAccount", "clusterRole", "clusterRoleBinding">>
createPolicyAllowAPIServer == <<"policyAPIServer">>
createPolicyToTargetPods == <<"policyTargetPods">>

\* setup: the baseline test has no policies.
networkPolicySetup ==
    <<"namespace">>
      \o (IF m.baseline THEN <<>> ELSE createPolicyAllowAPIServer \o createPolicyToTargetPods)
      \o createPermissionResources

createDNSClientPermissions == <<"serviceAccount", "clusterRole", "clusterRoleBinding">>
createDNSClientDeployment == <<"deployment">>
\* Execute of the DNS measurement.
dnsSetup == <<"namespace">> \o createDNSClientPermissions \o createDNSClientDeployment

\* start of the probes: the namespace, the probe's manifests (some of which
\* bring a ClusterRole) and the wait for its targets.
probesStart == <<"namespace", "clusterRole", "deployment", "wait">>

prepareCluster == <<"namespace", "clusterRoleBinding", "crd">>
createAndWaitForWorkerPods == <<"deployment", "wait">>
\* start of the network performance measurement.
networkPerformanceStart == prepareCluster \o createAndWaitForWorkerPods

\* Setup of the DRA driver; "wait" is waitForDRADriverToBeHealthy.
draSetup == <<"namespace", "clusterRole", "clusterRoleBinding", "deviceClass", "daemonSet", "wait">>

Setup(k) ==
    CASE k = "networkPolicy" -> networkPolicySetup
      [] k = "dns" -> dnsSetup
      [] k = "probes" -> probesStart
      [] k = "networkPerformance" -> networkPerformanceStart
      [] k = "dra" -> draSetup

\* A clean-up: the objects deleted in order, whether an object that does not
\* exist is an error, and whether an error ends the clean-up.  "gone" waits for
\* the namespace to disappear.
Sequence(os, notFoundIsError, errorEnds) ==
    [objs |-> os, strict |-> notFoundIsError, stops |-> errorEnds]

deleteClusterRoleAndBinding == <<"clusterRole", "clusterRoleBinding">>
\* cleanUp of the network policy measurement: plain Delete calls.
networkPolicyCleanUp ==
    Sequence(deleteClusterRoleAndBinding \o <<"namespace">>, TRUE, TRUE)

deleteDNSClientPermissions == <<"serviceAccount", "clusterRole", "clusterRoleBinding">>
\* cleanUp of the DNS measurement.
dnsCleanUp == Sequence(deleteDNSClientPermissions \o <<"namespace">>, TRUE, TRUE)

\* Dispose of the probes.
probesDispose == Sequence(<<"namespace", "gone">>, FALSE, FALSE)


\* cleanupCluster of the network performance measurement.
cleanupCluster ==
    Sequence(<<"crd", "clusterRoleBinding", "namespace", "gone">>, FALSE, FALSE)

\* Teardown of the DRA driver.
draTeardown == Sequence(<<"namespace", "gone">>, FALSE, TRUE)

CleanUp(k) ==
    CASE k = "networkPolicy" -> networkPolicyCleanUp
      [] k = "dns" -> dnsCleanUp
      [] k = "probes" -> probesDispose
      [] k = "networkPerformance" -> cleanupCluster
      [] k = "dra" -> draTeardown

Init ==
    /\ kind \in Kinds
    /\ m = [framework |-> FALSE, startTime |-> FALSE, setUp |-> FALSE, faultless |-> TRUE,
             baseline |-> FALSE, load |-> "none"]
    /\ ns = "absent" /\ objs = {}
    /\ call = [pc |-> "idle", i |-> 0]
    /\ faults = 0 /\ setups = 0

----------------------------------------------------------------------------
\* The guards of a set-up: the network policy measurement runs once, probes do
\* not start again after a successful start.
setup ==
    /\ call.pc = "idle" /\ setups < MaxSetups
    /\ setups' = setups + 1
    /\ IF \/ kind = "networkPolicy" /\ m.framework
          \/ kind = "probes" /\ m.startTime
       THEN UNCHANGED <<m, call>>
       ELSE /\ \E baseline \in (IF kind = "networkPolicy" THEN BOOLEAN ELSE {FALSE}) :
                 m' = [m EXCEPT !.framework = TRUE, !.setUp = FALSE, !.faultless = TRUE,
                                !.baseline = baseline]
            /\ call' = [pc |-> "setup", i |-> 1]
    /\ UNCHANGED <<kind, ns, objs, faults>>

\* The API server's answer to the creation of o.  A namespace that exists, even
\* one that is being deleted, counts as created (CreateNamespace allows
\* AlreadyExists); objects cannot be created in a namespace being deleted.
Creates(o) == o \in ClusterScoped \cup {"namespace", "wait"} \/ ns = "active"

Create(o) ==
    /\ ns' = IF o = "namespace" /\ ns = "absent" THEN "active" ELSE ns
    /\ objs' = IF o \in {"namespace", "wait"} THEN objs ELSE objs \cup {o}

\* One step of the set-up; an error returns to the caller, and what was created
\* stays.
SetupStep ==
    /\ call.pc = "setup"
    /\ LET o == Setup(kind)[call.i]
           last == call.i = Len(Setup(kind)) IN
       \/ /\ Creates(o) /\ Create(o)
          /\ call' = IF ~last THEN [call EXCEPT !.i = @ + 1]
                     ELSE IF kind = "dns" THEN [pc |-> "execute", i |-> 1]
                     ELSE [pc |-> "idle", i |-> 0]
          /\ m' = IF last THEN [m EXCEPT !.setUp = TRUE, !.startTime = TRUE] ELSE m
          /\ UNCHANGED faults
       \/ /\ ~Creates(o)
          /\ call' = [pc |-> "idle", i |-> 0]
          /\ UNCHANGED <<m, ns, objs, faults>>
       \/ /\ faults < MaxFaults /\ faults' = faults + 1
          /\ call' = [pc |-> "idle", i |-> 0]
          /\ \/ UNCHANGED <<ns, objs>>
             \/ Creates(o) /\ Create(o)
          /\ UNCHANGED m
    /\ UNCHANGED <<kind, setups>>

\* createTestClientDeployments: one for each target namespace, up to an error.
createTestClientDeployments(next) ==
    /\ kind = "networkPolicy" /\ call.pc = "idle" /\ m.framework
    /\ \/ /\ ns = "active" /\ objs' = objs \cup {"deployment"}
          /\ call' = [pc |-> next, i |-> 0]
       \/ /\ objs' \in {objs} \cup (IF ns = "active" THEN {objs \cup {"deployment"}} ELSE {})
          /\ UNCHANGED call

\* run with testType pod-creation.
runPodCreationTest ==
    /\ createTestClientDeployments("idle")
    /\ UNCHANGED <<kind, m, ns, faults, setups>>

\* run with testType policy-creation up to the wait for the clients, which may
\* time out; then a goroutine creates the load policies.  A baseline has nothing
\* to do.
runPolicyCreationTest ==
    /\ ~m.baseline
    /\ createTestClientDeployments("policies")
    /\ m' = [m EXCEPT !.load = IF call'.pc = "policies" THEN "creating" ELSE @]
    /\ UNCHANGED <<kind, ns, faults, setups>>

\* The load policies go into the namespaces of the test, which delete them; an
\* error of one is logged.
createLoadPolicies ==
    /\ m.load = "creating"
    /\ m' = [m EXCEPT !.load = "done"]
    /\ UNCHANGED <<kind, ns, objs, call, faults, setups>>

\* In the client namespace meanwhile; an error is logged.
createAllowPolicies ==
    /\ call.pc = "policies" /\ call.i = 0
    /\ objs' \in {objs, IF ns = "active" THEN objs \cup {"allowPolicies"} ELSE objs}
    /\ call' = [call EXCEPT !.i = 1]
    /\ UNCHANGED <<kind, m, ns, faults, setups>>

\* wg.Wait
runReturns ==
    /\ call.pc = "policies" /\ call.i = 1 /\ m.load = "done"
    /\ call' = [pc |-> "idle", i |-> 0]
    /\ UNCHANGED <<kind, m, ns, objs, faults, setups>>

\* DeleteCollection of the clients' deployments.
complete ==
    /\ kind = "networkPolicy" /\ call.pc = "idle" /\ m.framework
    /\ objs' = objs \ {"deployment"}
    /\ UNCHANGED <<kind, m, ns, call, faults, setups>>

\* Dispose, which does nothing before a set-up began; gather of the network
\* performance measurement cleans up too.  The dependency manager tears down
\* only what was set up without an error.
Dispose ==
    /\ call.pc = "idle"
    /\ call' = IF m.framework /\ (kind = "dra" => m.setUp)
               THEN [pc |-> "dispose", i |-> 1] ELSE [pc |-> "disposed", i |-> 0]
    /\ UNCHANGED <<kind, m, ns, objs, faults, setups>>

gather ==
    /\ kind = "networkPerformance" /\ call.pc = "idle" /\ m.setUp
    /\ call' = [pc |-> "gather", i |-> 1]
    /\ UNCHANGED <<kind, m, ns, objs, faults, setups>>

\* Deleting o: not found, a namespace already being deleted, or done.
DeleteFails(o) ==
    IF o = "namespace" THEN ns = "terminating" \/ (ns = "absent" /\ CleanUp(kind).strict)
    ELSE o \notin objs /\ CleanUp(kind).strict

Delete(o) ==
    /\ ns' = IF o = "namespace" /\ ns = "active" THEN "terminating" ELSE ns
    /\ objs' = objs \ {o}

\* What follows a step of the clean-up.
CleanUpGoesOn(failed) ==
    call' = IF call.i < Len(CleanUp(kind).objs) /\ ~(failed /\ CleanUp(kind).stops)
            THEN [call EXCEPT !.i = @ + 1]
            ELSE [pc |-> IF call.pc = "dispose" THEN "disposed" ELSE "idle", i |-> 0]

CleanUpStep ==
    /\ call.pc \in {"execute", "gather", "dispose"}
    /\ LET o == CleanUp(kind).objs[call.i] IN
       \/ /\ o = "gone" /\ ns = "absent"
          /\ CleanUpGoesOn(FALSE) /\ UNCHANGED <<m, ns, objs, faults>>
       \/ /\ o # "gone"
          /\ CleanUpGoesOn(DeleteFails(o))
          /\ IF DeleteFails(o) THEN UNCHANGED <<ns, objs>> ELSE Delete(o)
          /\ UNCHANGED <<m, faults>>
       \/ /\ o = "gone" /\ ns # "absent"        \* WaitForDeleteNamespace times out
          /\ m' = [m EXCEPT !.faultless = FALSE]
          /\ CleanUpGoesOn(TRUE) /\ UNCHANGED <<ns, objs, faults>>
       \/ /\ faults < MaxFaults /\ faults' = faults + 1
          /\ m' = [m EXCEPT !.faultless = FALSE]
          /\ CleanUpGoesOn(TRUE) /\ UNCHANGED <<ns, objs>>
    /\ UNCHANGED <<kind, setups>>

\* The namespace controller removes a terminating namespace and what is in it.
NamespaceGone ==
    /\ ns = "terminating"
    /\ ns' = "absent"
    /\ objs' = objs \cap ClusterScoped
    /\ UNCHANGED <<kind, m, call, faults, setups>>

Next ==
    \/ setup \/ SetupStep \/ complete \/ gather
    \/ runPodCreationTest \/ runPolicyCreationTest \/ createLoadPolicies
    \/ createAllowPolicies \/ runReturns
    \/ Dispose \/ CleanUpStep \/ NamespaceGone

Spec == Init /\ [][Next]_vars

----------------------------------------------------------------------------
\* Type correctness of the component, its namespace and the call.
TypeOK ==
    /\ kind \in Kinds
    /\ m \in [framework : BOOLEAN, startTime : BOOLEAN, setUp : BOOLEAN, faultless : BOOLEAN,
             baseline : BOOLEAN, load : {"none", "creating", "done"}]
    /\ ns \in {"absent", "active", "terminating"}
    /\ call.pc \in {"idle", "setup", "policies", "execute", "gather", "dispose", "disposed"}
    /\ faults \in 0..MaxFaults /\ setups \in 0..MaxSetups

\* What a component's clean-up never deletes: the probes' and the DRA driver's
\* objects outside their namespaces.
Kept(k) == IF k \in {"probes", "dra"} THEN ClusterScoped ELSE {}


=============================================================================
