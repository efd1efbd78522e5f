------------------------- MODULE PodPeriodicCommand -------------------------
(***************************************************************************)
(* The measurement PodPeriodicCommand (measurement/common/pod_command.go):  *)
(* on every tick a worker runs the configured commands in some applicable   *)
(* pods; gather and Dispose stop the worker and wait for it.                *)
(*                                                                          *)
(* The commands of a tick run in goroutines of their own.  A command ends   *)
(* with one of four outcomes; output, names and times are left out, and the *)
(* order in which the results of one tick arrive is not kept.               *)
(***************************************************************************)
EXTENDS Naturals, FiniteSets, Sequences, Functions, FiniteSetsExt

CONSTANTS
  Pods,               \* the pods the label selector matches
  PodsWithContainer,  \* those that have params.Container
  Commands,           \* params.Commands
  Limit,              \* params.Limit
  FailOn,             \* the outcomes for which a FailOnXYZ parameter is set
  MaxTicks,           \* bound on the ticks of one start
  MaxStarts           \* bound on the starts that get past the checks

VARIABLES
  p,       \* the struct: isRunning, skipGather, stopCh, doneCh, results, stats
  store,   \* the informer's store: the state of each pod
  worker,  \* the goroutine commandWorker: where it is and its target pods
  cmds,    \* the commands of the current tick
  call,    \* what the test's goroutine is doing in this measurement
  starts   \* starts so far

vars == <<p, store, worker, cmds, call, starts>>

Outcomes == {"ok", "nonZeroRC", "execError", "timeout"}
PodStates == {"absent", "NotReady", "Ready"}
NoStats == [ticks |-> 0, ticksNoPods |-> 0, execs |-> 0,
            nonZeroRC |-> 0, execError |-> 0, timeout |-> 0]
Channel == {"nil", "open", "closed"}

Init ==
  /\ p = [isRunning |-> FALSE, skipGather |-> FALSE, stopCh |-> "nil",
          doneCh |-> "nil", results |-> <<>>, stats |-> NoStats]
  /\ store = [pod \in Pods |-> "absent"]
  /\ worker = [pc |-> "off", target |-> {}]
  /\ cmds = <<>>
  /\ call = "idle"
  /\ starts = 0

(***************************************************************************)
(* The test's goroutine                                                     *)
(***************************************************************************)

\* Execute("start") with parameters that cannot be parsed.
StartBadParams ==
  /\ call = "idle" /\ ~p.skipGather
  /\ p' = [p EXCEPT !.skipGather = TRUE]
  /\ UNCHANGED <<store, worker, cmds, call, starts>>

\* The fields are set before the informer is started, and the worker is only
\* started when the informer synced in time.
start(synced) ==
  /\ call = "idle" /\ ~p.isRunning
  /\ starts < MaxStarts
  /\ starts' = starts + 1
  /\ p' = [isRunning |-> TRUE, skipGather |-> FALSE, stopCh |-> "open",
           doneCh |-> "open", results |-> <<>>, stats |-> NoStats]
  /\ worker' = [worker EXCEPT !.pc = IF synced THEN "tick" ELSE "off"]
  /\ UNCHANGED <<store, cmds, call>>

\* stop closes stopCh and then waits for doneCh (StopReturns); without a
\* running worker it returns at once.
stop(caller) ==
  /\ call = "idle"
  /\ call' = caller
  /\ p' = [p EXCEPT !.isRunning = FALSE,
                    !.stopCh = IF p.isRunning THEN "closed" ELSE @]
  /\ UNCHANGED <<store, worker, cmds, starts>>

\* gather after a start (without one, stats is nil and gather panics).
gather == starts > 0 /\ ~p.skipGather /\ stop("gather")

Dispose == stop("dispose")

\* Fault: stop does not wait for the worker.
FaultyStopReturns ==
  /\ call \in {"gather", "dispose"}
  /\ call' = IF call = "gather" THEN "gathered" ELSE "disposed"
  /\ UNCHANGED <<p, store, worker, cmds, starts>>

\* stop has nothing to wait for, or doneCh is closed.
StopReturns ==
  /\ call \in {"gather", "dispose"}
  /\ p.stopCh = "closed" => p.doneCh = "closed"
  /\ call' = IF call = "gather" THEN "gathered" ELSE "disposed"
  /\ UNCHANGED <<p, store, worker, cmds, starts>>

\* gather has returned its summaries; the test goes on.
GatherDone ==
  /\ call = "gathered"
  /\ call' = "idle"
  /\ UNCHANGED <<p, store, worker, cmds, starts>>

\* Whether gather returns an error: some result has an outcome for which the
\* matching FailOnXYZ parameter is set.
resultErr ==
  \E i \in DOMAIN p.results : \E run \in DOMAIN p.results[i] :
      p.results[i][run] \in FailOn

(***************************************************************************)
(* commandWorker and the goroutines of its commands                         *)
(***************************************************************************)

isApplicablePod(pod) == store[pod] = "Ready" /\ pod \in PodsWithContainer

\* The choices of getMaxNPods: the store lists the pods in any order, and the
\* limit is looked at after a pod was added.
getMaxNPods(n) ==
  LET applicable == {pod \in Pods : isApplicablePod(pod)}
      size == Min({Max({n, 1}), Cardinality(applicable)})
  IN  {s \in SUBSET applicable : Cardinality(s) = size}

\* doTick up to the start of the goroutines.
doTick ==
  /\ worker.pc = "tick"
  /\ \E target \in getMaxNPods(Limit) :
       /\ p' = [p EXCEPT !.stats.ticks = @ + 1,
                         !.stats.ticksNoPods = IF target = {} THEN @ + 1 ELSE @]
       /\ worker' = [pc |-> IF target = {} THEN "select" ELSE "wait",
                     target |-> target]
       /\ cmds' = [run \in target \X Commands |-> "spawned"]
  /\ UNCHANGED <<store, call, starts>>

\* A goroutine of runAllCommandsInPod calls runCommandInPod.
runCommandInPod(run) ==
  /\ cmds[run] = "spawned"
  /\ cmds' = [cmds EXCEPT ![run] = "running"]
  /\ p' = [p EXCEPT !.stats.execs = @ + 1]
  /\ UNCHANGED <<store, worker, call, starts>>

\* It ends: the stream returns (an exit code of zero or not, or an error), or
\* the timeout passes first, and the stream is left to itself.
CommandEnds(run, outcome) ==
  /\ cmds[run] = "running"
  /\ cmds' = [cmds EXCEPT ![run] = outcome]
  /\ p' = IF outcome = "ok" THEN p ELSE [p EXCEPT !.stats[outcome] = @ + 1]
  /\ UNCHANGED <<store, worker, call, starts>>

\* The end of doTick: the wait groups are done and the results are appended.
TickEnds ==
  /\ worker.pc = "wait"
  /\ \A run \in DOMAIN cmds : cmds[run] \in Outcomes
  /\ p' = [p EXCEPT !.results = Append(@, cmds)]
  /\ worker' = [pc |-> "select", target |-> {}]
  /\ cmds' = <<>>
  /\ UNCHANGED <<store, call, starts>>

\* The select of commandWorker: one of the ready channels, in no set order.
Ticker ==
  /\ worker.pc = "select"
  /\ p.stats.ticks < MaxTicks
  /\ worker' = [worker EXCEPT !.pc = "tick"]
  /\ UNCHANGED <<p, store, cmds, call, starts>>

WorkerStops ==
  /\ worker.pc = "select"
  /\ p.stopCh = "closed"
  /\ worker' = [worker EXCEPT !.pc = "off"]
  /\ p' = [p EXCEPT !.doneCh = "closed"]
  /\ UNCHANGED <<store, cmds, call, starts>>

\* The informer follows the cluster until stopCh is closed.
InformerUpdates(pod, state) ==
  /\ p.stopCh = "open"
  /\ store[pod] # state
  /\ store' = [store EXCEPT ![pod] = state]
  /\ UNCHANGED <<p, worker, cmds, call, starts>>

CommandSteps ==
  \E run \in DOMAIN cmds :
    runCommandInPod(run) \/ \E o \in Outcomes : CommandEnds(run, o)

Next ==
  \/ StartBadParams
  \/ \E synced \in BOOLEAN : start(synced)
  \/ gather
  \/ Dispose
  \/ StopReturns
  \/ GatherDone
  \/ doTick
  \/ CommandSteps
  \/ TickEnds
  \/ Ticker
  \/ WorkerStops
  \/ \E pod \in Pods, state \in PodStates : InformerUpdates(pod, state)

\* Every command ends by its timeout, so the goroutines make progress.  The
\* select of the worker picks at random among the ready channels, so a closed
\* stopCh is picked in the end however often the ticker fires (SF).
Fairness ==
  /\ WF_vars(doTick \/ CommandSteps \/ TickEnds)
  /\ WF_vars(StopReturns)
  /\ SF_vars(WorkerStops)

Spec == Init /\ [][Next]_vars /\ Fairness

-----------------------------------------------------------------------------
\* Type correctness of the struct, the informer's store and the goroutines.
TypeOK ==
  /\ p.isRunning \in BOOLEAN /\ p.skipGather \in BOOLEAN
  /\ p.stopCh \in Channel /\ p.doneCh \in Channel
  /\ \A i \in DOMAIN p.results : Range(p.results[i]) \subseteq Outcomes
  /\ p.stats \in [DOMAIN NoStats -> Nat]
  /\ store \in [Pods -> PodStates]
  /\ worker.pc \in {"off", "tick", "wait", "select"}
  /\ worker.target \subseteq Pods
  /\ DOMAIN cmds = worker.target \X Commands
  /\ call \in {"idle", "gather", "dispose", "gathered", "disposed"}
  /\ starts \in 0..MaxStarts

\* The number of recorded commands that ended with one of the outcomes.
Recorded(outcomes) ==
  Cardinality({<<i, run>> \in (DOMAIN p.results) \X (Pods \X Commands) :
     run \in DOMAIN p.results[i] /\ p.results[i][run] \in outcomes})

\* When gather returns, the worker is gone, and the summary of the results and
\* the summary of the statistics tell the same story: every command that was
\* executed has one result, and each kind of failure was counted as often as
\* it is in the results, whatever was in flight when gather was called.
GatherComplete ==
  call = "gathered" =>
    /\ worker.pc = "off" /\ cmds = <<>>
    /\ p.stats.execs = Recorded(Outcomes)
    /\ \A o \in Outcomes \ {"ok"} : p.stats[o] = Recorded({o})
    /\ p.stats.ticks = p.stats.ticksNoPods + Len(p.results)
    /\ resultErr <=> \E o \in FailOn \ {"ok"} : p.stats[o] > 0

Waiting == call \in {"gather", "dispose"} /\ worker.pc # "off"
Returned == call \in {"gathered", "disposed"}

\* After a start whose informer synced, gather and Dispose return: the worker
\* sees the closed stopCh, also when it is in the middle of a tick.  After a
\* start whose informer did not sync nobody closes doneCh, and stop hangs.
StopWaitsForWorker == Waiting ~> Returned

=============================================================================
