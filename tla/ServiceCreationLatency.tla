----------------------- MODULE ServiceCreationLatency -----------------------
(***************************************************************************)
(* The measurement ServiceCreationLatency                                   *)
(* (measurement/common/service_creation_latency.go): the informers of       *)
(* services and ingresses put their events into a worker queue, several     *)
(* workers handle them side by side, and a worker that finds an object with *)
(* an address pings it until it has answered pingChecks times in a row.     *)
(*                                                                          *)
(* Informer and queue are both first-in first-out, so an event goes from    *)
(* the cluster straight into the queue here.  Times are left out: what is   *)
(* kept of ObjectTransitionTimes is which phases an object has.             *)
(***************************************************************************)
EXTENDS Naturals, FiniteSets, Sequences

CONSTANTS
  Keys,       \* keys of services and ingresses
  Type,       \* their types, Type \in [Keys -> Types]
  Workers,    \* the workers of the queue
  pingChecks, \* successful pings in a row that make an object reachable
  MaxEvents   \* bound on the changes of objects

VARIABLES
  s,        \* the struct: isRunning, creationTimes (phases), pingCheckers (keys)
  objs,     \* the objects in the cluster
  answers,  \* the keys whose addresses answer a ping
  queue,    \* the worker queue's tasks
  worker,   \* for each worker its task, where it is and the successes in a row
  seen,     \* history: keys of which a worker has handled an update
  call,     \* "idle", "disposing" or "disposed"
  events    \* changes of objects so far

vars == <<s, objs, answers, queue, worker, seen, call, events>>

Types == {"ClusterIP", "NodePort", "LoadBalancer", "ExternalName", "ingress"}
Phases == {"creating", "ipAssigning", "reachability", "deleting", "deleted"}
Idle == [pc |-> "get", task |-> <<>>, success |-> 0]

Init ==
  /\ s = [isRunning |-> FALSE, creationTimes |-> [k \in Keys |-> {}],
          pingCheckers |-> {}]
  /\ objs = [k \in Keys |-> "absent"]
  /\ answers = {}
  /\ queue = <<>>
  /\ worker = [w \in Workers |-> Idle]
  /\ seen = {}
  /\ call = "idle"
  /\ events = 0

(***************************************************************************)
(* The cluster and the informers                                            *)
(***************************************************************************)

\* The handler of an informer that runs adds a task to the queue.
Notify(k, obj) ==
  queue' = IF s.isRunning THEN Append(queue, [key |-> k, obj |-> obj]) ELSE queue

\* An object is created, or an address is assigned to it.
ObjectWritten(k, obj) ==
  /\ events < MaxEvents
  /\ \/ objs[k] = "absent" /\ obj = "noIP"
     \/ objs[k] # "absent" /\ obj = "ip"
  /\ objs' = [objs EXCEPT ![k] = obj]
  /\ Notify(k, obj)
  /\ events' = events + 1
  /\ UNCHANGED <<s, answers, worker, seen, call>>

\* An object is deleted.  The event may or may not carry a DeletionTimestamp,
\* or be a tombstone when the watch was interrupted.
ObjectDeleted(k, obj) ==
  /\ events < MaxEvents
  /\ objs[k] # "absent"
  /\ objs' = [objs EXCEPT ![k] = "absent"]
  /\ answers' = answers \ {k}
  /\ Notify(k, obj)
  /\ events' = events + 1
  /\ UNCHANGED <<s, worker, seen, call>>

\* An object begins to answer, or stops answering, pings of the exec service.
Answers(k) ==
  /\ objs[k] # "absent"
  /\ answers' = IF k \in answers THEN answers \ {k} ELSE answers \cup {k}
  /\ UNCHANGED <<s, objs, queue, worker, seen, call, events>>

(***************************************************************************)
(* Calls of the test                                                        *)
(***************************************************************************)

\* The initial lists hand over the objects that exist, in no set order.
start ==
  /\ call = "idle" /\ ~s.isRunning
  /\ s' = [s EXCEPT !.isRunning = TRUE]
  /\ \E order \in [1..Cardinality({k \in Keys : objs[k] # "absent"}) -> Keys] :
       /\ {order[i] : i \in DOMAIN order} = {k \in Keys : objs[k] # "absent"}
       /\ queue' = [i \in DOMAIN order |-> [key |-> order[i], obj |-> objs[order[i]]]]
  /\ UNCHANGED <<objs, answers, worker, seen, call, events>>

Count(phase, type) ==
  Cardinality({k \in Keys : Type[k] = type /\ phase \in s.creationTimes[k]})

Counted == Types \ {"ExternalName"}

\* The conditions that waitForReady and waitForDeletion poll.
waitForReady ==
  \A type \in Counted : Count("creating", type) = Count("reachability", type)

waitForDeletion ==
  \A type \in Counted : Count("creating", type) = Count("deleted", type)

\* Dispose stops the informers and shuts the queue down; it then waits for
\* the workers, which still take what is in the queue.
Dispose ==
  /\ call = "idle"
  /\ call' = "disposing"
  /\ s' = [s EXCEPT !.isRunning = FALSE]
  /\ UNCHANGED <<objs, answers, queue, worker, seen, events>>

\* The workers are gone and the registered checkers are stopped.
DisposeReturns ==
  /\ call = "disposing"
  /\ \A w \in Workers : worker[w].pc = "off"
  /\ call' = "disposed"
  /\ UNCHANGED <<s, objs, answers, queue, worker, seen, events>>

(***************************************************************************)
(* The workers                                                              *)
(***************************************************************************)

Get(w) ==
  /\ worker[w].pc = "get"
  /\ queue # <<>>
  /\ worker' = [worker EXCEPT ![w] = [Idle EXCEPT !.pc = "handle", !.task = Head(queue)]]
  /\ queue' = Tail(queue)
  /\ UNCHANGED <<s, objs, answers, seen, call, events>>

WorkerExits(w) ==
  /\ worker[w].pc = "get"
  /\ queue = <<>> /\ call = "disposing"
  /\ worker' = [worker EXCEPT ![w].pc = "off"]
  /\ UNCHANGED <<s, objs, answers, queue, seen, call, events>>

\* handleObject and handleIngressObject return without doing anything.
handleSkips(w) ==
  /\ worker[w].pc = "handle"
  /\ \/ ~s.isRunning
     \/ worker[w].task.obj \in {"tombstone", "unstamped"}
     \/ Type[worker[w].task.key] = "ExternalName" /\ worker[w].task.obj \in {"noIP", "ip"}
  /\ worker' = [worker EXCEPT ![w] = Idle]
  /\ UNCHANGED <<s, objs, answers, queue, seen, call, events>>

\* deleteObject of an object with a DeletionTimestamp: both phases are set and
\* the object's checker, if one is registered, is stopped.
deleteObject(w) ==
  LET k == worker[w].task.key IN
  /\ worker[w].pc = "handle" /\ s.isRunning
  /\ worker[w].task.obj = "stamped"
  /\ s' = [s EXCEPT !.creationTimes[k] = @ \cup {"deleting", "deleted"},
                    !.pingCheckers = @ \ {k}]
  /\ worker' = [worker EXCEPT ![w] = Idle]
  /\ UNCHANGED <<objs, answers, queue, seen, call, events>>

\* A load balancer or an ingress is pinged once, when it has an address;
\* other services are pinged after every update.
ToPing(k, obj) ==
  \/ Type[k] \in {"ClusterIP", "NodePort"}
  \/ obj = "ip" /\ "ipAssigning" \notin s.creationTimes[k]

\* updateObject and updateIngressObject up to the call of run.
updateObject(w) ==
  LET k == worker[w].task.key
      obj == worker[w].task.obj
      byAddress == Type[k] \in {"LoadBalancer", "ingress"}
  IN
  /\ worker[w].pc = "handle" /\ s.isRunning
  /\ obj \in {"noIP", "ip"} /\ Type[k] # "ExternalName"
  /\ s' = [s EXCEPT !.creationTimes[k] = @ \cup {"creating"} \cup
             (IF byAddress /\ obj = "ip" THEN {"ipAssigning"} ELSE {})]
  /\ worker' = [worker EXCEPT ![w] =
                  IF ToPing(k, obj) THEN [@ EXCEPT !.pc = "ping"] ELSE Idle]
  /\ seen' = seen \cup {k}
  /\ UNCHANGED <<objs, answers, queue, call, events>>

\* A round of pingChecker.run: a failure starts the count of successes anew.
ping(w) ==
  LET k == worker[w].task.key
      ok == k \in answers
  IN
  /\ worker[w].pc = "ping"
  /\ IF ok /\ worker[w].success + 1 = pingChecks
     THEN /\ s' = [s EXCEPT !.creationTimes[k] = @ \cup {"reachability"}]
          /\ worker' = [worker EXCEPT ![w].pc = "register"]
     ELSE /\ worker' = [worker EXCEPT ![w].success = IF ok THEN @ + 1 ELSE 0]
          /\ UNCHANGED s
  /\ UNCHANGED <<objs, answers, queue, seen, call, events>>

\* After run has returned, the checker is put into the map.
register(w) ==
  /\ worker[w].pc = "register"
  /\ s' = [s EXCEPT !.pingCheckers = @ \cup {worker[w].task.key}]
  /\ worker' = [worker EXCEPT ![w] = Idle]
  /\ UNCHANGED <<objs, answers, queue, seen, call, events>>

Next ==
  \/ \E k \in Keys, obj \in {"noIP", "ip"} : ObjectWritten(k, obj)
  \/ \E k \in Keys, obj \in {"stamped", "unstamped", "tombstone"} : ObjectDeleted(k, obj)
  \/ \E k \in Keys : Answers(k)
  \/ start
  \/ Dispose
  \/ DisposeReturns
  \/ \E w \in Workers :
       \/ Get(w) \/ WorkerExits(w)
       \/ handleSkips(w) \/ deleteObject(w) \/ updateObject(w)
       \/ ping(w) \/ register(w)

\* The goroutines of the workers run.
Fairness ==
  /\ \A w \in Workers :
       WF_vars(Get(w) \/ WorkerExits(w) \/ handleSkips(w) \/ deleteObject(w)
                 \/ updateObject(w) \/ ping(w) \/ register(w))
  /\ WF_vars(DisposeReturns)

Spec == Init /\ [][Next]_vars /\ Fairness

-----------------------------------------------------------------------------
\* Type correctness of the struct, the objects and the workers.
TypeOK ==
  /\ s.isRunning \in BOOLEAN
  /\ s.creationTimes \in [Keys -> SUBSET Phases]
  /\ s.pingCheckers \subseteq Keys
  /\ objs \in [Keys -> {"absent", "noIP", "ip"}]
  /\ answers \subseteq Keys
  /\ \A w \in Workers :
       /\ worker[w].pc \in {"get", "handle", "ping", "register", "off"}
       /\ worker[w].success \in 0..(pingChecks - 1)
  /\ call \in {"idle", "disposing", "disposed"}

\* waitForReady compares two counts for each type.  Though several workers
\* record phases at the same time, the counts are equal only when every object
\* of which an update was handled has been found reachable.
ReadyIsSound ==
  waitForReady => \A k \in seen : "reachability" \in s.creationTimes[k]

\* waitForDeletion compares two counts as well.
DeletionIsSound ==
  waitForDeletion => \A k \in seen : "deleted" \in s.creationTimes[k]

PingsAnswered == \A w \in Workers : worker[w].pc = "ping" => worker[w].task.key \in answers
Waiting == call = "disposing"
Returned == call = "disposed"

\* Dispose returns if from some time on every object that a worker pings
\* answers.  (run is called in the worker and registered afterwards, so nothing
\* stops the pings of an object that never answers.)
DisposeEnds == <>[]PingsAnswered => (Waiting ~> Returned)

=============================================================================
