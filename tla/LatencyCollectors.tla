------------------------- MODULE LatencyCollectors -------------------------
(***************************************************************************)
(* The measurements JobLifecycleLatency, PodStartupLatency and              *)
(* ResourceClaimAllocationLatency: three collectors with one protocol. An   *)
(* informer stamps each event with the time it was received, a goroutine    *)
(* records phases of objects in an ObjectTransitionTimes, and gather stops  *)
(* the informer and turns the recorded times into latencies, while the      *)
(* goroutine may still be handling events.                                  *)
(*                                                                          *)
(* The clock counts ticks; a timestamp of an object is cut to a second of   *)
(* Second ticks, the times taken by time.Now are not.                       *)
(***************************************************************************)
EXTENDS Integers, FiniteSets, Sequences, SequencesExt

CONSTANTS
  Kinds,     \* the collectors: a subset of {"job", "pod", "claim"}
  Keys,      \* keys of the observed objects
  Stateless, \* the keys of stateless pods
  Thresholds, \* perc50Threshold, perc90Threshold and perc99Threshold, in ticks
  Second,    \* ticks of the clock in a second
  MaxClock   \* bound on the clock

VARIABLES
  kind,      \* the collector
  byOrder,   \* mapEventsByOrder of the pod collector
  p,         \* the struct: isRunning, entries
  objs,      \* the objects in the cluster with their times
  watch,     \* versions of objects the informer has not received
  queue,     \* received versions that the goroutine has not processed
  call,      \* the state of gather: what is left to do, its result and verdict
  clock,
  lives      \* history: for each life of an object when it was created and ready

vars == <<kind, byOrder, p, objs, watch, queue, call, clock, lives>>

None == 0   \* no time: the clock starts at Second
Phases == {"podCreate", "create", "start", "schedule", "run", "watch", "done"}

jobLifecycleTransitions == {<<"create", "start">>, <<"start", "done">>}
podStartupTransitions == {<<"create", "schedule">>, <<"schedule", "run">>,
   <<"run", "watch">>, <<"schedule", "watch">>, <<"create", "watch">>}
claimTransitions == {<<"create", "done">>, <<"podCreate", "create">>}
Transitions == CASE kind = "job" -> jobLifecycleTransitions
                 [] kind = "pod" -> podStartupTransitions
                 [] kind = "claim" -> claimTransitions

\* The transition that the thresholds are about, the jobs' last one otherwise.
Startup == CASE kind = "job" -> <<"start", "done">>
             [] kind = "pod" -> <<"create", "watch">>
             [] kind = "claim" -> <<"create", "done">>

Absent == [stage |-> "absent", create |-> None, mid |-> None, done |-> None]
NoTimes == [ph \in Phases |-> None]
NoResult == [t \in {} |-> 0]

Init ==
  /\ kind \in Kinds
  /\ byOrder \in (IF kind = "pod" THEN BOOLEAN ELSE {FALSE})
  /\ p = [isRunning |-> FALSE, entries |-> [k \in Keys |-> NoTimes]]
  /\ objs = [k \in Keys |-> Absent]
  /\ watch = <<>> /\ queue = <<>>
  /\ call = [state |-> "idle", created |-> {}, result |-> NoResult, violation |-> FALSE]
  /\ clock = Second
  /\ lives = {}

Stamp(t) == (t \div Second) * Second

-----------------------------------------------------------------------------
(* The cluster: an object is created, a job starts or a pod is scheduled,   *)
(* then the job completes, the pod runs or the claim is allocated, and it is *)
(* deleted. A job that fails stays where it is: it has no completion time.  *)

ObjectChanges(k, o) ==
  /\ clock < MaxClock /\ call.state # "done"
  /\ clock' = clock + 1
  /\ objs' = [objs EXCEPT ![k] = o]
  /\ watch' = IF p.isRunning /\ o # Absent THEN Append(watch, [key |-> k, obj |-> o]) ELSE watch
  /\ UNCHANGED <<kind, byOrder, p, queue, call>>

Created(k) ==
  /\ objs[k] = Absent
  /\ ObjectChanges(k, [Absent EXCEPT !.stage = "created", !.create = clock])
  /\ UNCHANGED lives

Advances(k) ==
  /\ objs[k].stage = "created" /\ kind # "claim"
  /\ ObjectChanges(k, [objs[k] EXCEPT !.stage = "mid", !.mid = clock])
  /\ lives' = lives \cup {[key |-> k, create |-> objs[k].create, mid |-> clock, done |-> None]}

Finishes(k) ==
  /\ objs[k].stage = IF kind = "claim" THEN "created" ELSE "mid"
  /\ ObjectChanges(k, [objs[k] EXCEPT !.stage = "done", !.done = clock])
  /\ LET life == [key |-> k, create |-> objs[k].create, mid |-> objs[k].mid, done |-> None]
     IN lives' = (lives \ {life}) \cup {[life EXCEPT !.done = clock]}

Deleted(k) ==
  /\ objs[k] # Absent
  /\ ObjectChanges(k, Absent)
  /\ UNCHANGED lives

\* addEvent: the handler of the informer stamps the event.
addEvent ==
  /\ watch # <<>> /\ p.isRunning
  /\ watch' = Tail(watch)
  /\ queue' = Append(queue, [key |-> Head(watch).key, obj |-> Head(watch).obj, recvTime |-> clock])
  /\ UNCHANGED <<kind, byOrder, p, objs, call, clock, lives>>

-----------------------------------------------------------------------------
\* Set of ObjectTransitionTimes; SetOnce is the callers' Get before it.
Set(times, phase, t) == [times EXCEPT ![phase] = t]
SetOnce(times, phase, t) == IF times[phase] = None /\ t # None THEN Set(times, phase, t) ELSE times
Count(phase) == Cardinality({k \in Keys : p.entries[k][phase] # None})

jobEvent(times, e) ==
  SetOnce(SetOnce(SetOnce(times, "create", Stamp(e.obj.create)),
                  "start", Stamp(e.obj.mid)),
          "done", Stamp(e.obj.done))

\* A pod is recorded once, when it is first seen Running; a Running pod without a
\* running container has no start time.
podEvent(times, e, hasContainer) ==
  IF e.obj.stage # "done" \/ times["create"] # None THEN times
  ELSE Set(Set(Set(times, "watch", e.recvTime),
               "create", Stamp(e.obj.create)),
           "run", IF hasContainer THEN Stamp(e.obj.done) ELSE None)


\* A claim that is first seen allocated is ignored. Its pod's creation time comes
\* from the cache or from a GET, which may fail (podTime None).
claimEvent(times, e, podTime) ==
  LET allocated == e.obj.stage = "done"
      t == SetOnce(times, "create", Stamp(e.obj.create))
  IN IF allocated /\ times["create"] = None THEN times
     ELSE SetOnce(IF allocated THEN SetOnce(t, "done", e.recvTime) ELSE t, "podCreate", podTime)

Processed(times(_, _)) ==
  /\ queue # <<>>
  /\ queue' = Tail(queue)
  /\ p' = [p EXCEPT !.entries[Head(queue).key] = times(@, Head(queue))]
  /\ UNCHANGED <<kind, byOrder, objs, watch, call, clock, lives>>
processJobEvent == kind = "job" /\ Processed(jobEvent)
processPodEvent ==
  /\ kind = "pod"
  /\ \E hasContainer \in BOOLEAN :
       Processed(LAMBDA times, e : podEvent(times, e, hasContainer))
\* getCachedPodCreateTime, or fetchPodCreateTime
processClaimEvent ==
  /\ kind = "claim"
  /\ \E found \in BOOLEAN :
       Processed(LAMBDA times, e :
                   claimEvent(times, e, IF found THEN Stamp(e.obj.create) ELSE None))
processEvent == processJobEvent \/ processPodEvent \/ processClaimEvent

-----------------------------------------------------------------------------
\* The objects that exist are the informer's first events.
Started ==
  /\ ~p.isRunning /\ call.state = "idle"
  /\ p' = [p EXCEPT !.isRunning = TRUE]
  /\ LET present == {k \in Keys : objs[k] # Absent} IN
       watch' = [i \in 1..Cardinality(present) |->
                   LET k == SetToSeq(present)[i] IN [key |-> k, obj |-> objs[k]]]
  /\ UNCHANGED <<kind, byOrder, objs, queue, call, clock, lives>>
startJobs == kind = "job" /\ Started
startPods == kind = "pod" /\ Started
\* the informer of the pods only fills the cache that claimEvent reads
startClaims == kind = "claim" /\ Started

\* stop: events already queued are still processed.
stopped == [p EXCEPT !.isRunning = FALSE]

Gathered(state, created) ==
  /\ p.isRunning /\ call.state = "idle"
  /\ p' = stopped
  /\ call' = [call EXCEPT !.state = state, !.created = created]
  /\ watch' = <<>>
  /\ UNCHANGED <<kind, byOrder, objs, queue, clock, lives>>

\* The job collector polls until the counts are equal or the time is up.
gatherJobs(timeout) ==
  /\ kind = "job" /\ (timeout \/ Count("create") = Count("done"))
  /\ Gathered("calculate", IF timeout THEN {}
                           ELSE {k \in Keys : p.entries[k]["create"] # None})
gatherPods == kind = "pod" /\ Gathered("schedule", {})
gatherClaims == kind = "claim" /\ Gathered("calculate", {})

\* Keys by creation time; equal times come in any order.
GetOrderedKeys(keys) ==
  {s \in SetToSeqs(keys) : \A i, j \in DOMAIN s :
      i < j => p.entries[s[i]]["create"] <= p.entries[s[j]]["create"]}

\* The scheduling events that still exist, of pods that have been recorded: one
\* for each life that was scheduled. EventTime is not cut to a second.
gatherScheduleTimes(events) ==
  LET tracked == {k \in Keys : p.entries[k]["create"] # None}
      filtered == {ev \in events : ev.key \in tracked}
      byTime == SetToSortSeq(filtered, LAMBDA a, b : a.mid < b.mid)
  IN
  /\ call.state = "schedule"
  /\ \E order \in GetOrderedKeys(tracked) :
     LET times(k) == IF byOrder
           THEN {byTime[i].mid : i \in {j \in DOMAIN byTime \cap DOMAIN order : order[j] = k}}
           ELSE {ev.mid : ev \in {x \in filtered : x.key = k}}
     IN \E t \in [Keys -> {None} \cup {ev.mid : ev \in filtered}] :
          /\ \A k \in Keys : IF times(k) = {} THEN t[k] = None ELSE t[k] \in times(k)
          /\ p' = [p EXCEPT !.entries = [k \in Keys |->
                IF t[k] = None THEN @[k] ELSE Set(@[k], "schedule", t[k])]]
  /\ call' = [call EXCEPT !.state = "calculate"]
  /\ UNCHANGED <<kind, byOrder, objs, watch, queue, clock, lives>>

\* The list of the events may fail, and gather with it.
scheduleTimesFail ==
  /\ call.state = "schedule"
  /\ call' = [call EXCEPT !.state = "done"]
  /\ UNCHANGED <<kind, byOrder, p, objs, watch, queue, clock, lives>>

\* The latencies of the keys that have both phases; a negative one is zero.
CalculateTransitionsLatency(entries) ==
  [t \in Transitions |->
     [k \in {j \in Keys : entries[j][t[1]] # None /\ entries[j][t[2]] # None} |->
        LET latencyTime == entries[k][t[2]] - entries[k][t[1]]
        IN IF latencyTime < 0 THEN 0 ELSE latencyTime]]

\* The percentiles of the sorted latencies, zero when there is none.
Percentiles == <<50, 90, 99>>
NewLatencyMetric(latency, keys) ==
  LET lag == SetToSortSeq(keys, LAMBDA a, b : latency[a] < latency[b])
      index(perc) == (Len(lag) * perc + 99) \div 100
  IN [i \in 1..3 |-> IF lag = <<>> THEN 0 ELSE latency[lag[index(Percentiles[i])]]]

VerifyThresholdByPercentile(metric) == \A i \in 1..3 : metric[i] <= Thresholds[i]

\* The pods are checked together, and the stateless and the stateful ones by
\* themselves; no threshold is about jobs.
checks == CASE kind = "job" -> {}
            [] kind = "pod" -> {Keys, Stateless, Keys \ Stateless}
            [] kind = "claim" -> {Keys}

calculate ==
  LET result == CalculateTransitionsLatency(p.entries)
      metric(filter) ==
        NewLatencyMetric(result[Startup], filter \cap DOMAIN result[Startup])
  IN
  /\ call.state = "calculate"
  /\ call' = [call EXCEPT !.state = "done", !.result = result,
        !.violation = \E filter \in checks : ~VerifyThresholdByPercentile(metric(filter))]
  /\ UNCHANGED <<kind, byOrder, p, objs, watch, queue, clock, lives>>

Dispose ==
  /\ p.isRunning /\ call.state = "idle"
  /\ p' = stopped
  /\ call' = [call EXCEPT !.state = "done"]
  /\ watch' = <<>>
  /\ UNCHANGED <<kind, byOrder, objs, queue, clock, lives>>

Next ==
  \/ \E k \in Keys : Created(k) \/ Advances(k) \/ Finishes(k) \/ Deleted(k)
  \/ addEvent
  \/ processEvent
  \/ startJobs \/ startPods \/ startClaims
  \/ (\E timeout \in BOOLEAN : gatherJobs(timeout)) \/ gatherPods \/ gatherClaims
  \/ \E events \in SUBSET lives : gatherScheduleTimes(events)
  \/ scheduleTimesFail
  \/ calculate
  \/ Dispose

Spec == Init /\ [][Next]_vars

-----------------------------------------------------------------------------
\* Type correctness of the collectors and of a gather.
TypeOK ==
  /\ kind \in Kinds /\ byOrder \in BOOLEAN
  /\ p.isRunning \in BOOLEAN
  /\ p.entries \in [Keys -> [Phases -> Nat]]
  /\ call.state \in {"idle", "schedule", "calculate", "done"} /\ call.violation \in BOOLEAN
  /\ clock \in Second..MaxClock

\* A start-up latency that gather reports is never shorter than the time in which
\* some life of the object really got ready, up to the part of a second that a
\* timestamp loses; neither a late event nor an object created again under
\* the same key makes it look faster.
NotUnderstated ==
  call.state = "done" /\ Startup \in DOMAIN call.result =>
    \A k \in DOMAIN call.result[Startup] : \E l \in lives :
       /\ l.key = k /\ l.done # None
       /\ call.result[Startup][k] + (IF kind = "job" THEN Second - 1 ELSE 0)
            >= l.done - (IF kind = "job" THEN l.mid ELSE l.create)

\* When the job collector stops polling because the two counts are equal, every
\* job it knew has a latency from start to completion.
JobsComplete ==
  kind = "job" /\ call.state = "done" /\ call.result # NoResult =>
    call.created \subseteq DOMAIN call.result[Startup]

\* gather reports a violation exactly when a group of objects it checks has, for
\* a percentile, too few objects within that percentile's threshold
\* (NewLatencyMetric indexes the sorted latencies, VerifyThresholdByPercentile).
VerdictByCount ==
  call.state = "done" /\ call.result # NoResult =>
    (call.violation <=>
       \E filter \in checks, i \in 1..3 :
         LET lag == call.result[Startup]
             keys == filter \cap DOMAIN lag
         IN 100 * Cardinality({k \in keys : lag[k] <= Thresholds[i]})
              < Percentiles[i] * Cardinality(keys))

=============================================================================
