---------------------------- MODULE WaitForJobs ----------------------------
(***************************************************************************)
(* The measurement WaitForFinishedJobs (measurement/common/wait_for_jobs.go) *)
(* : a worker records from the events of an informer which jobs have        *)
(* finished, and gather compares that with a list of all jobs.              *)
(*                                                                          *)
(* As in ServiceCreationLatency the informer and the queue are one queue.   *)
(***************************************************************************)
EXTENDS Naturals, FiniteSets, Sequences

CONSTANTS
  Jobs,      \* keys of jobs that match the selector
  MaxEvents  \* bound on the changes of jobs

VARIABLES
  w,        \* the struct: isRunning, finishedJobs (function from keys)
  jobs,     \* the jobs in the cluster and their conditions
  queue,    \* the events that the worker has not handled
  stopped,  \* whether the queue's worker is gone
  call,     \* the call in progress: its kind and the listed keys
  events,   \* changes of jobs so far
  everFinished  \* history: keys of jobs that had a finished condition while they
                \* were observed

vars == <<w, jobs, queue, stopped, call, events, everFinished>>

Conditions == {"Complete", "Failed"}
JobStates == {"absent", "Active"} \cup Conditions
NoCall == [kind |-> "none", keys |-> {}]
Existing == {k \in Jobs : jobs[k] # "absent"}

Init ==
  /\ w = [isRunning |-> FALSE, finishedJobs |-> <<>>]
  /\ jobs \in [Jobs -> {"absent", "Active", "Complete"}]
  /\ queue = <<>>
  /\ stopped = FALSE
  /\ call = NoCall
  /\ events = 0
  /\ everFinished = {}

finishedJobCondition(job) == job \in Conditions

\* A job is created, finishes or is deleted; the handler of a running informer
\* queues the event (a deletion, a tombstone too, has no new object).
JobChanges(k, job) ==
  /\ events < MaxEvents
  /\ <<jobs[k], job>> \in ({"absent"} \X {"Active"})
        \cup ({"Active"} \X (Conditions \cup {"absent"})) \cup (Conditions \X {"absent"})
  /\ jobs' = [jobs EXCEPT ![k] = job]
  /\ queue' = IF w.isRunning THEN Append(queue, [key |-> k, new |-> job]) ELSE queue
  /\ everFinished' = IF w.isRunning /\ finishedJobCondition(job)
                     THEN everFinished \cup {k} ELSE everFinished
  /\ events' = events + 1
  /\ UNCHANGED <<w, stopped, call>>

\* The jobs that exist arrive as the first events.
start ==
  /\ call = NoCall /\ ~w.isRunning /\ ~stopped
  /\ w' = [w EXCEPT !.isRunning = TRUE]
  /\ \E order \in [1..Cardinality(Existing) -> Existing] :
       /\ {order[i] : i \in DOMAIN order} = Existing
       /\ queue' = [i \in DOMAIN order |-> [key |-> order[i], new |-> jobs[order[i]]]]
  /\ everFinished' = {k \in Jobs : finishedJobCondition(jobs[k])}
  /\ UNCHANGED <<jobs, stopped, call, events>>

\* Fault: a job is recorded whether or not it has a finished condition.
FaultyHandleObject ==
  LET e == Head(queue) IN
  /\ queue # <<>> /\ ~stopped
  /\ queue' = Tail(queue)
  /\ w' = [w EXCEPT !.finishedJobs =
             [k \in (DOMAIN @ \ {e.key}) \cup
                     (IF e.new # "absent" THEN {e.key} ELSE {})
                |-> IF k = e.key THEN e.new ELSE @[k]]]
  /\ UNCHANGED <<jobs, stopped, call, events, everFinished>>

\* handleObject, run by the queue's only worker.
handleObject ==
  LET e == Head(queue) IN
  /\ queue # <<>> /\ ~stopped
  /\ queue' = Tail(queue)
  /\ w' = [w EXCEPT !.finishedJobs =
             [k \in (DOMAIN @ \ {e.key}) \cup
                     (IF finishedJobCondition(e.new) THEN {e.key} ELSE {})
                |-> IF k = e.key THEN e.new ELSE @[k]]]
  /\ UNCHANGED <<jobs, stopped, call, events, everFinished>>

\* gather lists the jobs, then waits until the finished ones are exactly those.
jobKeys ==
  /\ call = NoCall /\ w.isRunning
  /\ call' = [kind |-> "gather", keys |-> Existing]
  /\ UNCHANGED <<w, jobs, queue, stopped, events, everFinished>>

\* After the poll succeeded or timed out, the listed jobs that are not known
\* to have finished decide what gather returns.
gather(timeout) ==
  /\ call.kind = "gather"
  /\ timeout \/ call.keys = DOMAIN w.finishedJobs
  /\ call' = [kind |-> IF call.keys \subseteq DOMAIN w.finishedJobs THEN "nil" ELSE "error",
              keys |-> call.keys]
  /\ UNCHANGED <<w, jobs, queue, stopped, events, everFinished>>

GatherReturns ==
  /\ call.kind \in {"nil", "error"}
  /\ call' = NoCall
  /\ UNCHANGED <<w, jobs, queue, stopped, events, everFinished>>

\* Dispose shuts the queue down and waits until the worker has drained it.
Dispose ==
  /\ call = NoCall /\ w.isRunning
  /\ w' = [w EXCEPT !.isRunning = FALSE]
  /\ call' = [NoCall EXCEPT !.kind = "dispose"]
  /\ UNCHANGED <<jobs, queue, stopped, events, everFinished>>

DisposeReturns ==
  /\ call.kind = "dispose" /\ queue = <<>>
  /\ stopped' = TRUE
  /\ call' = NoCall
  /\ UNCHANGED <<w, jobs, queue, events, everFinished>>

Next ==
  \/ \E k \in Jobs, job \in JobStates : JobChanges(k, job)
  \/ start
  \/ handleObject
  \/ jobKeys
  \/ \E timeout \in BOOLEAN : gather(timeout)
  \/ GatherReturns
  \/ Dispose
  \/ DisposeReturns

Spec == Init /\ [][Next]_vars

-----------------------------------------------------------------------------
\* Type correctness: finishedJobs holds jobs with the conditions they finished by.
TypeOK ==
  /\ w.isRunning \in BOOLEAN
  /\ DOMAIN w.finishedJobs \subseteq Jobs
  /\ \A k \in DOMAIN w.finishedJobs : w.finishedJobs[k] \in Conditions
  /\ jobs \in [Jobs -> JobStates]
  /\ stopped \in BOOLEAN
  /\ call \in [kind : {"none", "gather", "nil", "error", "dispose"}, keys : SUBSET Jobs]
  /\ everFinished \subseteq Jobs

\* gather returns no error only when each of the jobs it listed has been seen
\* finished; jobs created later, and jobs deleted while it waits, do not make
\* up for one that is still active.
GatherMeansFinished ==
  call.kind = "nil" => call.keys \subseteq everFinished

\* What the worker recorded catches up with the cluster: once the queue is
\* empty, finishedJobs holds exactly the finished jobs with their conditions,
\* also when a job was deleted and created again.
FinishedJobsExact ==
  (w.isRunning /\ queue = <<>>) =>
     w.finishedJobs = [k \in {j \in Jobs : jobs[j] \in Conditions} |-> jobs[k]]

=============================================================================
