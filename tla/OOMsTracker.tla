---------------------------- MODULE OOMsTracker ----------------------------
(***************************************************************************)
(* The measurement ClusterOOMsTracker: start subscribes an informer whose    *)
(* list is empty (it only fetches a resource version to watch from), then    *)
(* lists the events that already exist; both feed handleOOMEvent, which      *)
(* records each resource version once. gather sorts the records into past,   *)
(* ignored and failures.                                                     *)
(***************************************************************************)
EXTENDS Naturals, Sequences, FiniteSets

CONSTANTS
  Processes,       \* names of processes that are killed
  processIgnored,  \* those that clusterOOMsIgnoredProcesses names
  Second,          \* ticks of the clock in a second
  MaxClock,        \* bound on the clock
  MaxGaps,         \* bound on watches that end with a new list
  MaxStarts        \* bound on calls of start

VARIABLES
  m,       \* the struct: isRunning, startTime, resourceVersionRecorded, ooms
  events,  \* OOM events in the cluster, in their latest version
  watch,   \* versions the informer has to handle
  on,      \* whether the informer watches
  call,    \* the step of start, or the result of gather
  clock,
  gaps, starts,
  due      \* history: versions that this session has to record

vars == <<m, events, watch, on, call, clock, gaps, starts, due>>

Idle == [kind |-> "none", list |-> {}, failures |-> <<>>]

Init ==
  /\ m = [isRunning |-> FALSE, startTime |-> 0, recorded |-> {}, ooms |-> <<>>]
  /\ events = {}
  /\ watch = <<>>
  /\ on = FALSE
  /\ call = Idle
  /\ clock = Second /\ gaps = 0 /\ starts = 0
  /\ due = {}

\* An event is created or, when the same process is killed again, updated: its
\* version is new and its first timestamp stays. Old-style events have whole
\* seconds, new-style ones an exact EventTime. The clock is the version too.
Killed(proc, exact) ==
  LET old == {e \in events : e.proc = proc}
      time == IF exact THEN clock ELSE (clock \div Second) * Second
      e == [rv |-> clock, proc |-> proc,
            time |-> IF old = {} THEN time ELSE (CHOOSE x \in old : TRUE).time]
  IN /\ clock < MaxClock
     /\ clock' = clock + 1
     /\ events' = (events \ old) \cup {e}
     /\ watch' = IF on THEN Append(watch, e) ELSE watch
     /\ due' = (due \ old) \cup (IF on THEN {e} ELSE {})
     /\ UNCHANGED <<m, on, call, gaps, starts>>

\* The watch fails with an expired version. The informer lists again, which
\* yields no items, and watches from the new version.
WatchExpires ==
  /\ on /\ gaps < MaxGaps
  /\ on' = FALSE
  /\ gaps' = gaps + 1
  /\ UNCHANGED <<m, events, watch, call, clock, starts, due>>

Relist ==
  /\ ~on /\ m.isRunning /\ call.kind # "sync"
  /\ on' = TRUE
  /\ UNCHANGED <<m, events, watch, call, clock, gaps, starts, due>>

-----------------------------------------------------------------------------
\* Fault: recorded versions are not looked at.
FaultyHandle(s, e) == [s EXCEPT !.recorded = @ \cup {e.rv}, !.ooms = Append(@, e)]

\* A version that is recorded already is skipped.
handle(s, e) ==
  IF e.rv \in s.recorded THEN s
  ELSE [s EXCEPT !.recorded = @ \cup {e.rv}, !.ooms = Append(@, e)]

\* The informer's handler. Events that it had received before it was stopped
\* still arrive.
handleOOMEvent ==
  /\ watch # <<>>
  /\ watch' = Tail(watch)
  /\ m' = handle(m, Head(watch))
  /\ UNCHANGED <<events, on, call, clock, gaps, starts, due>>

initFields ==
  /\ call = Idle /\ ~m.isRunning /\ starts < MaxStarts
  /\ m' = [m EXCEPT !.isRunning = TRUE, !.startTime = clock, !.recorded = {}]
  /\ call' = [Idle EXCEPT !.kind = "sync"]
  /\ starts' = starts + 1
  /\ due' = {}
  /\ UNCHANGED <<events, watch, on, clock, gaps>>

\* StartAndSync: the empty list is the informer's whole initial state.
StartAndSync ==
  /\ call.kind = "sync"
  /\ on' = TRUE
  /\ call' = [Idle EXCEPT !.kind = "prior"]
  /\ UNCHANGED <<m, events, watch, clock, gaps, starts, due>>

\* The informer does not sync in time: start returns an error.
StartFails ==
  /\ call.kind = "sync"
  /\ call' = Idle
  /\ UNCHANGED <<m, events, watch, on, clock, gaps, starts, due>>

\* The list is a snapshot; its items are handled one by one, in between with the
\* informer's events.
ListEvents ==
  /\ call.kind = "prior"
  /\ call' = [Idle EXCEPT !.kind = "list", !.list = events]
  /\ due' = due \cup events
  /\ UNCHANGED <<m, events, watch, on, clock, gaps, starts>>

handlePriorOOMs ==
  /\ call.kind = "list"
  /\ IF call.list = {}
     THEN call' = Idle /\ UNCHANGED m
     ELSE \E e \in call.list : /\ m' = handle(m, e)
                              /\ call' = [call EXCEPT !.list = @ \ {e}]
  /\ UNCHANGED <<events, watch, on, clock, gaps, starts, due>>

past(e) == m.startTime > e.time
failure(e) == ~past(e) /\ e.proc \notin processIgnored

gather ==
  /\ call = Idle /\ m.isRunning
  /\ m' = [m EXCEPT !.isRunning = FALSE]
  /\ on' = FALSE
  /\ call' = [Idle EXCEPT !.kind = "gathered", !.failures = SelectSeq(m.ooms, failure)]
  /\ UNCHANGED <<events, watch, clock, gaps, starts, due>>

GatherReturns ==
  /\ call.kind = "gathered"
  /\ call' = Idle
  /\ UNCHANGED <<m, events, watch, on, clock, gaps, starts, due>>

Dispose ==
  /\ call = Idle /\ m.isRunning
  /\ m' = [m EXCEPT !.isRunning = FALSE]
  /\ on' = FALSE
  /\ UNCHANGED <<events, watch, call, clock, gaps, starts, due>>

Next ==
  \/ \E proc \in Processes, exact \in BOOLEAN : Killed(proc, exact)
  \/ WatchExpires
  \/ Relist
  \/ handleOOMEvent
  \/ initFields
  \/ StartAndSync
  \/ StartFails
  \/ ListEvents
  \/ handlePriorOOMs
  \/ gather
  \/ GatherReturns
  \/ Dispose

Spec == Init /\ [][Next]_vars

-----------------------------------------------------------------------------
\* Type correctness of the tracker and of start and gather.
TypeOK ==
  /\ m.isRunning \in BOOLEAN /\ m.startTime \in 0..MaxClock
  /\ m.recorded \subseteq Second..MaxClock
  /\ on \in BOOLEAN
  /\ call.kind \in {"none", "sync", "prior", "list", "gathered"}

\* Every version of an OOM event that existed when start listed the events, or
\* that was written while the informer watched, is recorded once the handler
\* has caught up: subscribing before listing leaves no gap between the two.
\* (A version written between two watches is in nobody's debt: it is lost.)
NoOOMMissed ==
  m.isRunning /\ call = Idle /\ watch = <<>> => \A e \in due : e.rv \in m.recorded

\* A failure is reported once, although the informer and the list both deliver
\* it, and although a second session starts with an empty set of recorded
\* versions and the records of the first.
FailuresOnce ==
  \A i, j \in DOMAIN call.failures :
     call.failures[i].rv = call.failures[j].rv => i = j

=============================================================================
