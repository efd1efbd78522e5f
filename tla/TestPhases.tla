------------------------------ MODULE TestPhases ------------------------------
(***************************************************************************)
(* Steps made of phases: simpleExecutor.ExecuteStep, ExecutePhase and      *)
(* ExecuteObject of clusterloader2/pkg/test/simple_test_executor.go, with  *)
(* the replica counts kept between phases in pkg/state/namespaces_state.go.*)
(*                                                                         *)
(* A phase asks for a number of replicas of a bundle of objects in each    *)
(* namespace of a list.  It compares that number with the remembered one,  *)
(* turns the difference into actions (one per namespace and replica, which *)
(* handle the objects of the bundle one after the other), lets the tuning  *)
(* set run the actions, and remembers the new number.  The tuning sets     *)
(* (with the parameters that api/validation.go admits) differ in when an   *)
(* action starts, never in which actions run; so any action of a phase may *)
(* start at any time.  A phase whose tuning set is not declared returns an *)
(* error before it does anything, as it does on its first template error.  *)
(*                                                                         *)
(* Phases of one step work on different replica sets, "different workloads *)
(* at the same time" (docs/design.md); steps follow each other.            *)
(***************************************************************************)
EXTENDS Naturals, Sequences, FiniteSets

CONSTANTS
    Slots,        \* positions of the phases of a step
    Namespaces, Objects,
    Templates,    \* contents of the object templates
    Bundles,      \* the object bundles used by the configuration
    NsLists,      \* the namespace lists used by the configuration
    Unknown,      \* objects with ListUnknownObjectOptions
    None,
    MaxReplicas,  \* bound: ReplicasPerNamespace
    MaxSteps,     \* bound: steps of the test
    MaxFailures,  \* bound: operations of the API server that fail
    ListErrors,   \* TRUE iff listing unknown objects may fail
    TemplateErrors \* TRUE iff reading a template may fail

Indices == 0..(MaxReplicas - 1)

ASSUME PhasesAssumption ==
    /\ Bundles \subseteq Seq(Objects)
    /\ NsLists \subseteq Seq(Namespaces)
    /\ \A b \in Bundles \cup NsLists : \A i, j \in DOMAIN b : b[i] = b[j] => i = j
    /\ Unknown \subseteq Objects
    /\ None \notin Templates
    /\ MaxReplicas \in Nat /\ MaxSteps \in Nat /\ MaxFailures \in Nat
    /\ ListErrors \in BOOLEAN /\ TemplateErrors \in BOOLEAN

VARIABLES
    cluster,      \* <<namespace, object, index>> -> template it has, or None
    state,        \* <<namespace, object>> -> InstancesState, or None
    phase,        \* slot -> the phase executed there
    steps,        \* steps begun so far
    failures,     \* operations that failed so far
    clean         \* no phase of an earlier step returned an error

vars == <<cluster, state, phase, steps, failures, clean>>

ReplicaSets == Namespaces \X Objects

Configs == [nsList : NsLists, bundle : Bundles, replicas : 0..MaxReplicas,
            template : Templates]

\* The part of a phase that is left to do for one namespace and replica index:
\* the object at position "at" of the bundle is next.
Actions == [ns : Namespaces, op : {"create", "patch", "delete"}, index : Indices,
            at : Nat]

\* prepared: namespaces whose deferred state update is registered.
PhaseStates == [pc : {"idle", "prepare", "execute", "done"}, conf : Configs \cup {None},
                prepared : 0..Cardinality(Namespaces), actions : SUBSET Actions,
                errors : BOOLEAN]

TypeOK ==
    /\ cluster \in [Namespaces \X Objects \X Indices -> Templates \cup {None}]
    /\ state \in [ReplicaSets -> [desired : 0..MaxReplicas, current : 0..MaxReplicas]
                                    \cup {None}]
    /\ phase \in [Slots -> PhaseStates]
    /\ steps \in 0..MaxSteps
    /\ failures \in 0..MaxFailures
    /\ clean \in BOOLEAN

Idle == [pc |-> "idle", conf |-> None, prepared |-> 0, actions |-> {}, errors |-> FALSE]

\* Objects the test did not create (volumes of stateful sets, say) may exist.
Init ==
    /\ \E count \in [Namespaces \X Unknown -> 0..MaxReplicas], t \in Templates :
          cluster = [x \in Namespaces \X Objects \X Indices |->
                        IF x[2] \in Unknown /\ x[3] < count[<<x[1], x[2]>>]
                        THEN t ELSE None]
    /\ state = [r \in ReplicaSets |-> None]
    /\ phase = [p \in Slots |-> Idle]
    /\ steps = 0
    /\ failures = 0
    /\ clean = TRUE

Elements(s) == {s[i] : i \in DOMAIN s}

ReplicaSetsOf(conf) == Elements(conf.nsList) \X Elements(conf.bundle)

Existing(r) == {i \in Indices : cluster[<<r[1], r[2], i>>] # None}

-----------------------------------------------------------------------------
\* ExecuteStep starts its phases, and ends when all of them have ended.
BeginStep ==
    /\ \A p \in Slots : phase[p].pc = "idle"
    /\ steps < MaxSteps
    /\ \E confs \in [Slots -> Configs \cup {None}] :
          LET used == {p \in Slots : confs[p] # None} IN
          /\ used # {}
          /\ \A p, q \in used :
                p # q => ReplicaSetsOf(confs[p]) \cap ReplicaSetsOf(confs[q]) = {}
          /\ phase' = [p \in Slots |->
                          IF p \in used
                          THEN [Idle EXCEPT !.pc = "prepare", !.conf = confs[p]]
                          ELSE [Idle EXCEPT !.pc = "done"]]
    /\ steps' = steps + 1
    /\ UNCHANGED <<cluster, state, failures, clean>>

EndStep ==
    /\ \A p \in Slots : phase[p].pc = "done"
    /\ phase' = [p \in Slots |-> Idle]
    /\ clean' = (clean /\ \A p \in Slots : ~phase[p].errors)
    /\ UNCHANGED <<cluster, state, steps, failures>>

-----------------------------------------------------------------------------

\* getReplicaCountOfNewObject: a failed list counts as "no replicas".
getReplicaCountOfNewObject(r, failed) ==
    IF r[2] \in Unknown \ failed THEN Cardinality(Existing(r)) ELSE 0

\* The state after the first "done" objects of the bundle were looked up and
\* their DesiredReplicaCount was set; "failed" are the lists that failed.
WithDesired(ns, conf, done, failed) ==
    [r \in ReplicaSets |->
        IF r \notin {<<ns, conf.bundle[j]>> : j \in 1..done} THEN state[r]
        ELSE [desired |-> conf.replicas,
              current |-> IF state[r] # None THEN state[r].current
                          ELSE getReplicaCountOfNewObject(r, failed)]]

verifyBundleCorrectness(ns, bundle, st) ==
    \A i, j \in DOMAIN bundle : st[<<ns, bundle[i]>>].current = st[<<ns, bundle[j]>>].current

\* Faults: one replica too many is created; deletion begins with the first
\* object; nothing is patched.
FaultyCreates(ns, bundle, replicas, current) ==
    {[ns |-> ns, op |-> "create", index |-> i, at |-> 1] : i \in current..replicas}



ActionsOf(ns, bundle, replicas, current) ==
    {[ns |-> ns, op |-> "delete", index |-> i, at |-> Len(bundle)] : i \in replicas..(current - 1)}
    \cup
    {[ns |-> ns, op |-> "patch", index |-> i, at |-> 1] :
        i \in {x \in Indices : current = replicas /\ x < replicas}}
    \cup
    {[ns |-> ns, op |-> "create", index |-> i, at |-> 1] : i \in current..(replicas - 1)}


\* The deferred updates of a returning phase: CurrentReplicaCount becomes
\* DesiredReplicaCount in every namespace that was prepared, whether or not the
\* actions were executed and whether or not they succeeded.
WithCurrentDesired(st, conf, prepared) ==
    [r \in ReplicaSets |->
        IF r \in {conf.nsList[i] : i \in 1..prepared} \X Elements(conf.bundle)
        THEN [st[r] EXCEPT !.current = st[r].desired]
        ELSE st[r]]

\* ExecutePhase, one iteration of the loop over the namespaces.
PrepareNamespace(p) ==
    LET ph   == phase[p]
        conf == ph.conf
        ns   == conf.nsList[ph.prepared + 1]
    IN
    /\ ph.pc = "prepare"
    /\ ph.prepared < Len(conf.nsList)
    /\ \E done \in 0..Len(conf.bundle),
          failed \in SUBSET (IF ListErrors THEN Unknown ELSE {}) :
        LET st == WithDesired(ns, conf, done, failed) IN
           \/ \* getIdentifier failed for the next object: return
              /\ TemplateErrors
              /\ done < Len(conf.bundle)
              /\ state' = WithCurrentDesired(st, conf, ph.prepared)
              /\ phase' = [phase EXCEPT ![p].pc = "done", ![p].errors = TRUE]
           \/ \* incorrect bundle: return
              /\ done = Len(conf.bundle)
              /\ ~verifyBundleCorrectness(ns, conf.bundle, st)
              /\ state' = WithCurrentDesired(st, conf, ph.prepared)
              /\ phase' = [phase EXCEPT ![p].pc = "done", ![p].errors = TRUE]
           \/ \* empty bundle: return
              /\ done = Len(conf.bundle)
              /\ done = 0
              /\ state' = state
              /\ phase' = [phase EXCEPT ![p].pc = "done"]
           \/ /\ done = Len(conf.bundle)
              /\ done > 0
              /\ verifyBundleCorrectness(ns, conf.bundle, st)
              /\ state' = st
              /\ phase' = [phase EXCEPT
                    ![p].prepared = @ + 1,
                    ![p].actions = @ \cup ActionsOf(ns, conf.bundle, conf.replicas,
                                                    st[<<ns, conf.bundle[1]>>].current)]
    /\ UNCHANGED <<cluster, steps, failures, clean>>

\* tuningSet.Execute begins.
BeginActions(p) ==
    /\ phase[p].pc = "prepare"
    /\ phase[p].prepared = Len(phase[p].conf.nsList)
    /\ phase' = [phase EXCEPT ![p].pc = "execute"]
    /\ UNCHANGED <<cluster, state, steps, failures, clean>>

-----------------------------------------------------------------------------
\* What an operation does to the cluster when the server executes it.  Creating
\* an object that exists and deleting one that does not are no errors.
Effect(x, op, t) ==
    CASE op = "create" -> [cluster EXCEPT ![x] = IF @ = None THEN t ELSE @]
      [] op = "patch"  -> [cluster EXCEPT ![x] = IF @ = None THEN None ELSE t]
      [] op = "delete" -> [cluster EXCEPT ![x] = None]

Step(at, op) == IF op = "delete" THEN at - 1 ELSE at + 1

\* The rest of an action after the object at "at": an error ends a create or a
\* patch, while a delete goes on to the other objects of the bundle.
Rest(a, len, failed) ==
    LET next == Step(a.at, a.op)
    IN  IF next \notin 1..len \/ (failed /\ a.op # "delete") THEN {}
        ELSE {[a EXCEPT !.at = next]}

\* ExecuteObject for the next object of action a.  A failed call may have had
\* its effect all the same.
ExecuteObject(p, a) ==
    LET conf == phase[p].conf
        obj  == conf.bundle[a.at]
        x    == <<a.ns, obj, a.index>>
        len  == Len(conf.bundle)
        left(failed) == (phase[p].actions \ {a}) \cup Rest(a, len, failed)
        skip == a.op = "delete" /\ a.index >= state[<<a.ns, obj>>].current
    IN
    /\ phase[p].pc = "execute"
    /\ \/ /\ skip
          /\ phase' = [phase EXCEPT ![p].actions = left(FALSE)]
          /\ UNCHANGED <<cluster, failures>>
       \/ /\ ~skip
          /\ a.op = "patch" => cluster[x] # None
          /\ cluster' = Effect(x, a.op, conf.template)
          /\ phase' = [phase EXCEPT ![p].actions = left(FALSE)]
          /\ UNCHANGED failures
       \/ /\ ~skip
          /\ a.op = "patch"
          /\ cluster[x] = None
          /\ phase' = [phase EXCEPT ![p].actions = left(TRUE), ![p].errors = TRUE]
          /\ UNCHANGED <<cluster, failures>>
       \/ /\ ~skip
          /\ failures < MaxFailures
          /\ failures' = failures + 1
          /\ cluster' \in {cluster, Effect(x, a.op, conf.template)}
          /\ phase' = [phase EXCEPT ![p].actions = left(TRUE), ![p].errors = TRUE]
    /\ UNCHANGED <<state, steps, clean>>

\* All actions have ended: the deferred updates run and the phase returns.
EndPhase(p) ==
    /\ phase[p].pc = "execute"
    /\ phase[p].actions = {}
    /\ state' = WithCurrentDesired(state, phase[p].conf, phase[p].prepared)
    /\ phase' = [phase EXCEPT ![p].pc = "done"]
    /\ UNCHANGED <<cluster, steps, failures, clean>>

ExecutePhase(p) ==
    \/ PrepareNamespace(p)
    \/ BeginActions(p)
    \/ \E a \in phase[p].actions : ExecuteObject(p, a)
    \/ EndPhase(p)

Next == BeginStep \/ EndStep \/ \E p \in Slots : ExecutePhase(p)

Spec == Init /\ [][Next]_vars

-----------------------------------------------------------------------------
(***************************************************************************)
(* Properties.                                                             *)
(***************************************************************************)


\* A phase that ends without error, after phases without errors, has reached
\* the declared state: "create or delete a number of objects to reach expected
\* cluster state" (docs/design.md:162-163).
PhaseReachesReplicas ==
    \A p \in Slots :
        clean /\ phase[p].pc = "done" /\ phase[p].conf # None /\ ~phase[p].errors =>
            \A r \in ReplicaSetsOf(phase[p].conf) :
                Existing(r) = {i \in Indices : i < phase[p].conf.replicas}



==============================================================================
