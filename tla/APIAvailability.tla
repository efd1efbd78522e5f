-------------------------- MODULE APIAvailability --------------------------
(***************************************************************************)
(* The measurement APIAvailability: a goroutine probes the cluster and, when *)
(* enabled, each master host every pollFrequency; pause and unpause hand it  *)
(* a token over unbuffered channels while holding the measurement's lock,    *)
(* and gather closes stopCh and waits for it.                                *)
(***************************************************************************)
EXTENDS Naturals, Sequences, FiniteSets

CONSTANTS
  hostIPs,    \* master hosts whose availability is probed; none when disabled
  MaxProbes,  \* bound on the rounds of probes of a session
  MaxCalls    \* bound on the calls of Execute

VARIABLES
  a,        \* the struct: isRunning, isPaused, stopCh closed, the metrics
  worker,   \* where the goroutine is
  call,     \* the call that holds the lock
  calls,    \* calls so far
  probes,   \* history: the cluster's answers of this session
  quiet     \* history: pause has returned and unpause has not been heard since

vars == <<a, worker, call, calls, probes, quiet>>

NoMetrics == [numSuccesses |-> 0, numFailures |-> 0, max |-> 0, consecutive |-> 0]

update(m, availability) ==
  IF availability
  THEN [m EXCEPT !.numSuccesses = @ + 1, !.consecutive = 0]
  ELSE [m EXCEPT !.numFailures = @ + 1, !.consecutive = @ + 1,
                 !.max = IF m.consecutive + 1 > @ THEN m.consecutive + 1 ELSE @]

Init ==
  /\ a = [isRunning |-> FALSE, isPaused |-> FALSE, stopped |-> FALSE,
          ready |-> FALSE, cluster |-> NoMetrics, hosts |-> [ip \in hostIPs |-> NoMetrics]]
  /\ worker = "none"
  /\ call = "none"
  /\ calls = 0
  /\ probes = <<>>
  /\ quiet = FALSE

\* Execute takes the lock.
Called == call = "none" /\ calls < MaxCalls /\ calls' = calls + 1

start ==
  /\ Called /\ ~a.isRunning
  /\ a' = [a EXCEPT !.isRunning = TRUE, !.stopped = FALSE, !.ready = TRUE,
                    !.cluster = NoMetrics, !.hosts = [ip \in hostIPs |-> NoMetrics]]
  /\ worker' = "top"
  /\ probes' = <<>>
  /\ quiet' = FALSE
  /\ UNCHANGED call

\* initFields fails: the measurement counts as running, without a goroutine; a
\* bad pollFrequency or threshold leaves the metrics as they were.
initFieldsFails(ready) ==
  /\ Called /\ ~a.isRunning
  /\ a' = [a EXCEPT !.isRunning = TRUE, !.stopped = FALSE, !.ready = @ \/ ready,
                    !.cluster = IF ready THEN NoMetrics ELSE @]
  /\ worker' = "none"
  /\ probes' = IF ready THEN <<>> ELSE probes
  /\ UNCHANGED <<call, quiet>>

pause ==
  /\ Called
  /\ call' = IF a.isRunning /\ ~a.isPaused THEN "pause" ELSE call
  /\ UNCHANGED <<a, worker, probes, quiet>>

unpause ==
  /\ Called
  /\ call' = IF a.isRunning /\ a.isPaused THEN "unpause" ELSE call
  /\ UNCHANGED <<a, worker, probes, quiet>>

gather ==
  /\ Called /\ a.isRunning
  /\ a' = [a EXCEPT !.stopped = TRUE]
  /\ call' = "gather"
  /\ UNCHANGED <<worker, probes, quiet>>

\* wg.Wait returned. Without metrics createClusterSummary dereferences nil.
gatherReturns ==
  /\ call = "gather" /\ worker \in {"none", "exited"}
  /\ a' = [a EXCEPT !.isRunning = FALSE]
  /\ call' = IF a.ready THEN "none" ELSE "panic"
  /\ UNCHANGED <<worker, calls, probes, quiet>>

-----------------------------------------------------------------------------
\* Fault: the goroutine does not look at isPaused after a probe or a pause.
FaultyEnter ==
  /\ worker = "top"
  /\ worker' = "select"
  /\ UNCHANGED <<a, call, calls, probes, quiet>>

\* The goroutine.
Enter ==
  /\ worker = "top"
  /\ worker' = IF a.isPaused THEN "paused" ELSE "select"
  /\ UNCHANGED <<a, call, calls, probes, quiet>>

ReceivePause ==
  /\ worker = "select" /\ call = "pause"
  /\ worker' = "gotPause"
  /\ call' = "none"
  /\ quiet' = TRUE
  /\ UNCHANGED <<a, calls, probes>>

ReceiveUnpause ==
  /\ worker = "paused" /\ call = "unpause"
  /\ worker' = "gotUnpause"
  /\ call' = "none"
  /\ quiet' = FALSE
  /\ UNCHANGED <<a, calls, probes>>

SetPaused ==
  /\ worker \in {"gotPause", "gotUnpause"}
  /\ a' = [a EXCEPT !.isPaused = worker = "gotPause"]
  /\ worker' = IF worker = "gotPause" THEN "top" ELSE "select"
  /\ UNCHANGED <<call, calls, probes, quiet>>

Stop ==
  /\ worker \in {"paused", "select"} /\ a.stopped
  /\ worker' = "exited"
  /\ UNCHANGED <<a, call, calls, probes, quiet>>

\* The timer fired: the cluster is probed, then all hosts concurrently; a host
\* that cannot be reached through the exec service counts as unavailable.
Probe(cluster, hosts) ==
  /\ worker = "select" /\ Len(probes) < MaxProbes
  /\ a' = [a EXCEPT !.cluster = update(@, cluster),
                    !.hosts = [ip \in hostIPs |-> update(@[ip], hosts[ip])]]
  /\ worker' = "top"
  /\ probes' = Append(probes, cluster)
  /\ UNCHANGED <<call, calls, quiet>>

Next ==
  \/ start
  \/ \E ready \in BOOLEAN : initFieldsFails(ready)
  \/ pause
  \/ unpause
  \/ gather
  \/ gatherReturns
  \/ Enter
  \/ ReceivePause
  \/ ReceiveUnpause
  \/ SetPaused
  \/ Stop
  \/ \E cluster \in BOOLEAN, hosts \in [hostIPs -> BOOLEAN] : Probe(cluster, hosts)

\* The goroutine runs; select picks at random among the ready cases, so a closed
\* stopCh is not passed over for ever.
Fairness ==
  /\ WF_vars(Enter \/ SetPaused)
  /\ SF_vars(Stop)
  /\ WF_vars(gatherReturns)

Spec == Init /\ [][Next]_vars /\ Fairness

-----------------------------------------------------------------------------
\* Type correctness of the measurement and its goroutine.
TypeOK ==
  /\ a.isRunning \in BOOLEAN /\ a.isPaused \in BOOLEAN
  /\ worker \in {"none", "top", "paused", "select", "gotPause", "gotUnpause", "exited"}
  /\ call \in {"none", "pause", "unpause", "gather", "panic"}
  /\ probes \in Seq(BOOLEAN)

\* Once pause has returned, no probe is counted until the goroutine has heard of
\* unpause, whatever the other calls in between: the time between the two
\* calls is the outage a test provokes on purpose.
NoProbeWhilePaused ==
  [][Len(probes') > Len(probes) => ~quiet]_vars

\* The longest unavailable period is the longest run of failed probes, not the
\* last one or the total, and no probe is lost between the goroutine and gather.
LongestRun ==
  LET Failed(i, j) == \A n \in i..j : ~probes[n]
      runs == {j - i + 1 : <<i, j>> \in {r \in (1..Len(probes)) \X (1..Len(probes)) :
                                           r[1] <= r[2] /\ Failed(r[1], r[2])}}
  IN a.ready =>
     /\ a.cluster.numSuccesses + a.cluster.numFailures = Len(probes)
     /\ a.cluster.max \in runs \cup {0}
     /\ \A n \in runs : n <= a.cluster.max

Waiting == call = "gather"

\* gather always returns (or ends the process): it never waits for a goroutine
\* that is paused or that was never started.
GatherEnds == Waiting ~> ~Waiting

=============================================================================
