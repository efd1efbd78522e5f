----------------------------- MODULE TuningSets -----------------------------
(***************************************************************************)
(* The tuning sets of pkg/tuningset, which pace the actions of a phase.    *)
(* The phases of a step run at the same time (TestExecutor) and may name   *)
(* the same tuning set: each then paces its own actions, except with       *)
(* globalQPSLoad, whose limiter the factory keeps and shares by name.      *)
(* An action runs in a goroutine of its own and takes as long as it takes; *)
(* a sleep lasts at least its duration.                                    *)
(***************************************************************************)
EXTENDS Naturals, FiniteSets, Sequences
CONSTANTS Loads,            \* the load a tuning set may configure
          Phases,           \* phases that execute at the same time
          Users,            \* the phases that use the tuning set, by its load
          Actions,          \* the number of actions of a phase
          Delay,            \* 1/QPS, StepDelay and 1/GlobalQPS, in ticks
          BurstSize,        \* of steppedLoad
          Bursts,           \* Burst of globalQPSLoad: 0 makes the limiter fail
          TimeLimit, ParallelismLimit
VARIABLES load, burst,      \* the tuning set named by the phases
          existing,         \* globalQPSLoadFactory.existing: nothing or a limiter
          phase,            \* what each phase's Execute does
          run,              \* the state of each action
          launches,         \* when the actions of each phase were started
          clock
vars == <<load, burst, existing, phase, run, launches, clock>>

Idle == [pc |-> "idle", i |-> 1, until |-> 0, limiter |-> 0]
\* Type correctness of the tuning set, its limiter and the phases.
TypeOK == /\ load \in Loads /\ burst \in Bursts
          /\ existing \in Seq([tokens : Nat, filled : Nat])
          /\ phase \in [Phases -> [pc : {"idle", "created", "launch", "wait", "returned"},
                                   i : 1 .. Actions + 1, until : Nat, limiter : Nat]]
          /\ run \in [Phases -> [1 .. Actions ->
                       {"new", "sleeping", "running", "done", "skipped"}]]
          /\ launches \in [Phases -> Seq(0 .. clock)]
          /\ clock \in Nat

Init == /\ load \in Loads /\ burst \in Bursts
        /\ existing = <<>>
        /\ phase = [p \in Phases |-> Idle]
        /\ run = [p \in Phases |-> [a \in 1 .. Actions |-> "new"]]
        /\ launches = [p \in Phases |-> <<>>]
        /\ clock = 0


\* globalQPSLoadFactory.GetOrCreate, under its lock
GetOrCreate(p) ==
  /\ existing' = IF existing = <<>>
                   THEN <<[tokens |-> burst, filled |-> clock]>> ELSE existing
  /\ phase' = [phase EXCEPT ![p] = [Idle EXCEPT !.pc = "created", !.limiter = 1]]

CreateTuningSet(p) ==
  /\ p \in Users[load] /\ phase[p].pc = "idle"
  /\ \/ load = "globalQPS" /\ GetOrCreate(p)
     \/ /\ load # "globalQPS"
        /\ phase' = [phase EXCEPT ![p].pc = "created"]
        /\ UNCHANGED existing
  /\ UNCHANGED <<load, burst, run, launches, clock>>

\* Execute is entered; poissonLoad's first launch is now
Execute(p) ==
  /\ phase[p].pc = "created"
  /\ phase' = [phase EXCEPT ![p].pc = "launch", ![p].until = clock]
  /\ UNCHANGED <<load, burst, existing, run, launches, clock>>

\* wg.Start(actions[i]) with a goroutine that first is in the given state
Start(p, a, state) ==
  /\ run' = [run EXCEPT ![p][a] = state]
  /\ launches' = [launches EXCEPT ![p] = Append(@, clock)]

\* the iteration is over and the loop sleeps for d
Iterated(p, d) ==
  phase' = [phase EXCEPT ![p].i = @ + 1, ![p].until = clock + d]

Ready(p, l) == /\ phase[p].pc = "launch" /\ load = l
               /\ phase[p].i <= Actions /\ phase[p].until <= clock

qpsLoad(p) == /\ Ready(p, "qps")
              /\ Start(p, phase[p].i, "running") /\ Iterated(p, Delay)
              /\ UNCHANGED existing

\* sleepDuration: up to twice the average
randomizedLoad(p) == /\ Ready(p, "randomized")
                     /\ Start(p, phase[p].i, "running")
                     /\ \E d \in 0 .. 2 * Delay : Iterated(p, d)
                     /\ UNCHANGED existing

\* i counts from 1, so i here is the source's i+1
steppedLoad(p) == /\ Ready(p, "stepped")
                  /\ Start(p, phase[p].i, "running")
                  /\ Iterated(p, IF phase[p].i % BurstSize = 0 THEN Delay ELSE 0)
                  /\ UNCHANGED existing

timeLimitedLoad(p) == /\ Ready(p, "timeLimited")
                      /\ Start(p, phase[p].i, "running")
                      /\ Iterated(p, TimeLimit \div Actions)
                      /\ UNCHANGED existing

\* every goroutine starts at once and sleeps before its action
randomizedTimeLimitedLoad(p) == /\ Ready(p, "randomizedTimeLimited")
                                /\ Start(p, phase[p].i, "sleeping")
                                /\ Iterated(p, 0)
                                /\ UNCHANGED existing

\* the next launch is counted from the planned launch, not from the real one
poissonLoad(p) ==
  /\ Ready(p, "poisson")
  /\ Start(p, phase[p].i, "running")
  /\ \E d \in 0 .. 2 * Delay :
       phase' = [phase EXCEPT ![p].i = @ + 1, ![p].until = @ + d]
  /\ UNCHANGED existing

\* rate.Limiter: one token per Delay ticks, at most burst of them
refilled(l) ==
  LET new == (clock - l.filled) \div Delay
  IN  IF l.tokens + new >= burst
        THEN [tokens |-> burst, filled |-> clock]
        ELSE [tokens |-> l.tokens + new, filled |-> l.filled + new * Delay]

\* limiter.Wait fails when a single token exceeds the burst
globalQPSLoad(p) ==
  /\ Ready(p, "globalQPS")
  /\ LET l == refilled(existing[phase[p].limiter])
         a == phase[p].i
     IN  IF burst = 0
           THEN /\ run' = [run EXCEPT ![p][a] = "skipped"]
                /\ UNCHANGED <<existing, launches>>
           ELSE /\ l.tokens > 0
                /\ existing' = [existing EXCEPT ![phase[p].limiter] =
                                 [l EXCEPT !.tokens = @ - 1]]
                /\ Start(p, a, "running")
  /\ Iterated(p, 0)

\* ParallelizeUntil: ParallelismLimit workers take the actions in order
parallelismLimitedLoad(p) ==
  /\ Ready(p, "parallelismLimited")
  /\ Cardinality({a \in 1 .. Actions : run[p][a] = "running"}) < ParallelismLimit
  /\ Start(p, phase[p].i, "running") /\ Iterated(p, 0)
  /\ UNCHANGED existing

\* wg.Wait
waited(p) == \A a \in 1 .. Actions : run[p][a] \in {"done", "skipped"}

\* the loop is over and its last sleep slept; poissonLoad sleeps before a launch
Returns(p) == /\ phase[p].pc = "launch" /\ phase[p].i > Actions
              /\ load = "poisson" \/ phase[p].until <= clock
              /\ waited(p)
              /\ phase' = [phase EXCEPT ![p] = [Idle EXCEPT !.pc = "returned"]]
              /\ UNCHANGED <<load, burst, existing, run, launches, clock>>

Launch(p) == /\ \/ qpsLoad(p) \/ randomizedLoad(p) \/ steppedLoad(p)
                \/ timeLimitedLoad(p) \/ randomizedTimeLimitedLoad(p)
                \/ poissonLoad(p) \/ globalQPSLoad(p) \/ parallelismLimitedLoad(p)
             /\ UNCHANGED <<load, burst, clock>>

\* the random sleep of randomizedTimeLimitedLoad ends
Wakes(p, a) == /\ run[p][a] = "sleeping"
               /\ run' = [run EXCEPT ![p][a] = "running"]
               /\ UNCHANGED <<load, burst, existing, phase, launches, clock>>

ActionEnds(p, a) == /\ run[p][a] = "running"
                    /\ run' = [run EXCEPT ![p][a] = "done"]
                    /\ UNCHANGED <<load, burst, existing, phase, launches, clock>>

\* time passes while a phase sleeps or waits for a token
Tick == /\ \E p \in Phases :
             /\ phase[p].pc = "launch"
             /\ \/ phase[p].until > clock /\ ~(load = "poisson" /\ phase[p].i > Actions)
                \/ /\ load = "globalQPS" /\ burst > 0 /\ phase[p].i <= Actions
                   /\ refilled(existing[phase[p].limiter]).tokens = 0
        /\ clock' = clock + 1
        /\ UNCHANGED <<load, burst, existing, phase, run, launches>>

Internal(p) == \/ Execute(p) \/ Launch(p) \/ Returns(p)
               \/ \E a \in 1 .. Actions : Wakes(p, a) \/ ActionEnds(p, a)
Next == Tick \/ \E p \in Phases : CreateTuningSet(p) \/ Internal(p)
Fairness == /\ \A p \in Phases : WF_vars(Internal(p))
            /\ WF_vars(Tick)
Spec == Init /\ [][Next]_vars /\ Fairness

-----------------------------------------------------------------------------
\* how many actions of phase p were started in the d ticks from t on
started(p, t, d) ==
  Cardinality({i \in DOMAIN launches[p] : launches[p][i] \in t .. t + d})
\* Sum over the phases, without a fold
startedByAll(t, d) ==
  Cardinality({q \in Phases \X (1 .. Actions) :
                 /\ q[2] \in DOMAIN launches[q[1]]
                 /\ launches[q[1]][q[2]] \in t .. t + d})


\* Execute has returned only when each action was started once and is over; the
\* only actions never run are the ones globalQPSLoad skips with a zero burst.
AllActionsRun ==
  \A p \in Phases : phase[p].pc = "returned" =>
    /\ \A a \in 1 .. Actions :
         run[p][a] = (IF load = "globalQPS" /\ burst = 0 THEN "skipped" ELSE "done")
    /\ Len(launches[p]) = IF load = "globalQPS" /\ burst = 0 THEN 0 ELSE Actions

Waiting == \E p \in Phases : phase[p].pc \in {"created", "launch"}

\* Every Execute returns once its actions do, the limiter shared or not.
ExecuteEnds == Waiting ~> ~Waiting
=============================================================================
