----------------------------- MODULE TestRunners -----------------------------
(***************************************************************************)
(* tftest and kubetest2-runner: the programs that create a cluster, run a  *)
(* test command against it and destroy it.  They run commands through      *)
(* process.Control, which interrupts a command when the time for testing   *)
(* is over, kills it 15 minutes later, and kills it on ^C.  On ^C tftest   *)
(* also cleans up, in a goroutine of its own and besides the clean-up that *)
(* run defers.                                                             *)
(*                                                                         *)
(* tftest imports process.Control from k8s.io/test-infra; kubetest2-runner *)
(* has a copy, which is what is modelled here for both.                    *)
(***************************************************************************)
EXTENDS Naturals

CONSTANTS Options,       \* the options the programs are called with
          applyRetries,  \* attempts to apply
          MaxSignals     \* bound on the ^C that arrive

VARIABLES o,             \* the options
          pos,           \* where main and the goroutine for ^C are
          proc,          \* the command that each of them runs
          attempt,       \* of Apply
          err,           \* what run returns
          timer,         \* Interrupt and Terminate: off, set or fired
          control,       \* interrupted and terminated
          pending,       \* the signal channels that hold a ^C
          cloud,         \* what exists: cluster, firewall, a Boskos project
          exited, signals,
          cleaned        \* history: no command of a clean-up failed

vars == <<o, pos, proc, attempt, err, timer, control, pending, cloud, exited, signals, cleaned>>

Threads == {"main", "handler"}
Terraform == {"init", "apply", "refresh", "destroy"}
Commands == Terraform \cup {"describe", "deleteFirewalls", "preTest", "test", "postTest", "kubetest2"}
Registered == pos["handler"] # "none"

Init ==
  /\ o \in Options
  /\ pos = [t \in Threads |-> IF t = "main" THEN "start" ELSE "none"]
  /\ proc = [t \in Threads |-> "idle"] /\ attempt = 0 /\ err = "none"
  /\ timer = [interrupt |-> "off", terminate |-> "off"]
  /\ control = [interrupted |-> FALSE, terminated |-> FALSE]
  /\ pending = {} /\ cloud = {} /\ exited = "no" /\ signals = 0 /\ cleaned = TRUE

Running == exited = "no"
Goto(p) == pos' = [pos EXCEPT !["main"] = p]

(* run: the timers are stopped and drained before anything else. *)
run ==
  /\ Running /\ pos["main"] = "start"
  /\ timer' = [timer EXCEPT !.interrupt = IF o.timeout THEN "set" ELSE "off"]
  /\ Goto(IF o.program = "tftest" THEN "prepare" ELSE "kubetest2")
  /\ UNCHANGED <<o, proc, attempt, err, control, pending, cloud, exited, signals, cleaned>>

(* run returns e: the clean-up, if run deferred it, then the post-test     *)
(* command and the exit of main.                                           *)
Return(e) ==
  /\ err' = e
  /\ Goto(IF Registered /\ o.down THEN "deleteFirewalls" ELSE "postTest")

-----------------------------------------------------------------------------
(* The steps of run that do not use Control (env.Setup uses it only to     *)
(* find a version, which is left out).                                     *)
Direct(p) ==
  /\ Running /\ pos["main"] = p
  /\ UNCHANGED <<o, proc, attempt, timer, control, pending, signals, cleaned>>

PrepareProject(ok) ==
  /\ Direct("prepare") /\ UNCHANGED exited
  /\ IF ok THEN /\ Goto("env") /\ UNCHANGED err
                /\ cloud' = IF o.boskos THEN {"project"} ELSE {}
     ELSE o.boskos /\ Return("error") /\ UNCHANGED cloud

SetupEnv(ok) ==
  /\ Direct("env") /\ UNCHANGED <<cloud, exited>>
  /\ IF ok THEN Goto("init") /\ UNCHANGED err ELSE Return("error")

SetupKubectl(ok) ==
  /\ Direct("kubectl") /\ UNCHANGED <<cloud, exited>>
  /\ IF ok THEN Goto("preTest") /\ UNCHANGED err ELSE Return("error")

(* setupFirewalls after its describe failed; without instance groups it    *)
(* panics, and the clean-up runs all the same.                             *)
setupFirewalls(result) ==
  /\ Direct("createFirewall") /\ UNCHANGED exited
  /\ IF result = "ok" THEN Goto("test") /\ cloud' = cloud \cup {"firewall"} /\ UNCHANGED err
     ELSE Return(result) /\ UNCHANGED cloud

(* main gives the project back only after an error. *)
main(ok) ==
  /\ Direct("exit") /\ UNCHANGED <<pos, err>>
  /\ exited' = err
  /\ cloud' = IF ok /\ err = "error" THEN cloud \ {"project"} ELSE cloud

-----------------------------------------------------------------------------
(* Apply: a failed attempt is followed by a refresh and another one, as    *)
(* long as attempts are left.                                              *)
applyRetry ==
  IF attempt + 1 < applyRetries
  THEN Goto("refresh") /\ attempt' = attempt + 1 /\ UNCHANGED err
  ELSE Return("error") /\ UNCHANGED attempt

(* What main does after a command.  An apply that took too long is an      *)
(* error, though it succeeded.                                             *)
MainAfter(p, ok) ==
  LET to(q) == Goto(q) /\ UNCHANGED <<attempt, err>>
      failed == Return("error") /\ UNCHANGED attempt
  IN CASE p = "init" ->
            IF ~ok THEN failed
            ELSE /\ pos' = [t \in Threads |-> IF t = "handler" THEN "wait"
                                              ELSE IF o.up THEN "apply" ELSE "kubectl"]
                 /\ UNCHANGED <<attempt, err>>
       [] p = "apply" -> IF ok THEN to("kubectl") \/ failed ELSE applyRetry
       [] p = "refresh" -> IF ok THEN to("apply") ELSE applyRetry
       [] p = "preTest" -> IF ~ok THEN failed
                           ELSE IF o.cmd THEN to("describe") ELSE Return("none") /\ UNCHANGED attempt
       [] p = "describe" -> to(IF ok THEN "test" ELSE "createFirewall")
       [] p = "test" -> IF ok THEN Return("none") /\ UNCHANGED attempt ELSE failed
       [] p = "deleteFirewalls" -> to("destroy")
       [] p = "destroy" -> to("postTest")
       [] p = "postTest" -> to("exit")
       [] p = "kubetest2" -> Goto("exit") /\ err' = (IF ok THEN "none" ELSE "error") /\ UNCHANGED attempt

(* The goroutine for ^C ends the program after its clean-up. *)
HandlerAfter(p) ==
  /\ pos' = [pos EXCEPT !["handler"] = IF p = "destroy" THEN "exited" ELSE "destroy"]
  /\ exited' = IF p = "destroy" THEN "interrupt" ELSE "no"
  /\ UNCHANGED <<attempt, err>>

(* A command of t returns; things is what exists then. *)
Returned(t, ok, things) ==
  /\ proc' = [proc EXCEPT ![t] = "idle"] /\ pending' = pending \ {t}
  /\ cloud' = things
  /\ cleaned' = (cleaned /\ (pos[t] \in {"deleteFirewalls", "destroy"} => ok))
  /\ IF t = "main" THEN MainAfter(pos[t], ok) /\ UNCHANGED exited ELSE HandlerAfter(pos[t])
  /\ UNCHANGED <<o, timer, control, signals>>

-----------------------------------------------------------------------------
(* FinishRunning.  A command cannot be started, or is not: after the time  *)
(* to terminate none is.                                                   *)
Skipped(t) ==
  /\ Running /\ proc[t] = "idle" /\ pos[t] \in Commands
  /\ Returned(t, FALSE, cloud)

(* What may exist after a command, which may have done part of its work.   *)
(* describe succeeds for a firewall that exists, which deleteFirewalls     *)
(* deletes then.                                                           *)
Outcomes(p, ok) ==
  CASE p = "apply" -> IF ok THEN {cloud \cup {"cluster"}} ELSE {cloud, cloud \cup {"cluster"}}
    [] p = "destroy" -> IF ok THEN {cloud \ {"cluster"}} ELSE {cloud, cloud \ {"cluster"}}
    [] p = "deleteFirewalls" -> IF ok THEN {cloud \ {"firewall"}} ELSE {cloud}
    [] p = "describe" -> IF ok /\ "firewall" \notin cloud THEN {} ELSE {cloud}
    [] OTHER -> {cloud}

(* A terraform command ends at once while another one holds the state;     *)
(* an apply may create the cluster long before it ends.                    *)
Start(t) ==
  /\ Running /\ proc[t] = "idle" /\ pos[t] \in Commands /\ ~control.terminated
  /\ LET locked == pos[t] \in Terraform /\ \E u \in Threads \ {t} : proc[u] # "idle" /\ pos[u] \in Terraform
     IN /\ proc' = [proc EXCEPT ![t] = IF locked THEN "locked" ELSE "running"]
        /\ cloud' \in IF pos[t] = "apply" /\ ~locked THEN Outcomes("apply", FALSE) ELSE {cloud}
  /\ UNCHANGED <<o, pos, attempt, err, timer, control, pending, exited, signals, cleaned>>

CommandEnds(t, ok) ==
  /\ Running /\ proc[t] = "running"
  /\ \E things \in Outcomes(pos[t], ok) : Returned(t, ok, things)

KilledEnds(t) ==
  /\ Running /\ proc[t] \in {"killed", "locked"}
  /\ \E things \in IF proc[t] = "locked" THEN {cloud} ELSE Outcomes(pos[t], FALSE) :
       Returned(t, FALSE, things)

Kill(t) == proc' = [proc EXCEPT ![t] = IF @ = "running" THEN "killed" ELSE @]

SignalReceived(t) ==
  /\ Running /\ proc[t] # "idle" /\ t \in pending
  /\ Kill(t) /\ pending' = pending \ {t}
  /\ UNCHANGED <<o, pos, attempt, err, timer, control, cloud, exited, signals, cleaned>>

(* Terminate is set to fire again at once. *)
TerminateReceived(t) ==
  /\ Running /\ proc[t] = "running" /\ timer.terminate = "fired"
  /\ control' = [control EXCEPT !.terminated = TRUE]
  /\ Kill(t)
  /\ UNCHANGED <<o, pos, attempt, err, timer, pending, cloud, exited, signals, cleaned>>


(* One of the commands that run is interrupted, or killed if that fails. *)
InterruptReceived(t) ==
  /\ Running /\ proc[t] = "running" /\ timer.interrupt = "fired"
  /\ control' = [control EXCEPT !.interrupted = TRUE]
  /\ timer' = [interrupt |-> "off", terminate |-> "set"]
  /\ Kill(t) \/ UNCHANGED proc
  /\ UNCHANGED <<o, pos, attempt, err, pending, cloud, exited, signals, cleaned>>

TimerFires(which) ==
  /\ Running /\ timer[which] = "set"
  /\ timer' = [timer EXCEPT ![which] = "fired"]
  /\ UNCHANGED <<o, pos, proc, attempt, err, control, pending, cloud, exited, signals, cleaned>>

-----------------------------------------------------------------------------
(* ^C: it ends the program before FinishRunning was called once, and goes  *)
(* to every channel that is listened to afterwards.                        *)
Signal ==
  /\ Running /\ signals < MaxSignals /\ signals' = signals + 1
  /\ IF pos["main"] \in {"start", "prepare", "env"} \/ (pos["main"] \in {"init", "kubetest2"} /\ proc["main"] = "idle")
     THEN exited' = "killed" /\ UNCHANGED <<pos, pending>>
     ELSE /\ pending' = pending \cup {t \in Threads : proc[t] # "idle"}
          /\ pos' = [pos EXCEPT !["handler"] = IF @ = "wait" THEN "deleteFirewalls" ELSE @]
          /\ UNCHANGED exited
  /\ UNCHANGED <<o, proc, attempt, err, timer, control, cloud, cleaned>>

Thread(t) ==
  \/ Skipped(t) \/ Start(t) \/ KilledEnds(t) \/ SignalReceived(t)
  \/ TerminateReceived(t) \/ InterruptReceived(t)

DirectStep ==
  \/ run
  \/ \E ok \in BOOLEAN : PrepareProject(ok) \/ SetupEnv(ok) \/ SetupKubectl(ok) \/ main(ok)
  \/ \E r \in {"ok", "error", "panic"} : setupFirewalls(r)

Next ==
  \/ DirectStep \/ Signal
  \/ \E t \in Threads : Thread(t) \/ \E ok \in BOOLEAN : CommandEnds(t, ok)
  \/ \E w \in {"interrupt", "terminate"} : TimerFires(w)

Fairness ==
  /\ WF_vars(DirectStep /\ pos["main"] # "start")
  /\ \A t \in Threads : WF_vars(Thread(t))
  /\ \A w \in {"interrupt", "terminate"} : WF_vars(TimerFires(w))

Spec == Init /\ [][Next]_vars /\ Fairness

-----------------------------------------------------------------------------
(* Type correctness of the two programs. *)
TypeOK ==
  /\ o \in Options /\ attempt \in 0..applyRetries /\ err \in {"none", "error", "panic"}
  /\ pos["main"] \in Commands \cup {"start", "prepare", "env", "kubectl", "createFirewall", "exit"}
  /\ pos["handler"] \in {"none", "wait", "deleteFirewalls", "destroy", "exited"}
  /\ proc \in [Threads -> {"idle", "running", "locked", "killed"}]
  /\ timer \in [{"interrupt", "terminate"} -> {"off", "set", "fired"}]
  /\ control \in [interrupted: BOOLEAN, terminated: BOOLEAN]
  /\ cloud \subseteq {"cluster", "firewall", "project"} /\ pending \subseteq Threads
  /\ exited \in {"no", "none", "error", "panic", "interrupt", "killed"}

(* What tftest leaves: if no command of a clean-up failed, was killed or   *)
(* was skipped, no cluster is left after an exit that cleans up, however   *)
(* the apply was retried and whatever ^C came when, and no firewall        *)
(* either, unless ^C ended the program: main goes on setting up while the  *)
(* goroutine cleans up.                                                    *)
NothingLeft ==
  exited \in {"none", "error", "panic", "interrupt"} /\ Registered /\ cleaned =>
    /\ o.down \/ exited = "interrupt" => "cluster" \notin cloud
    /\ o.down /\ exited # "interrupt" => "firewall" \notin cloud

Waiting == Running /\ o.timeout /\ pos["main"] # "start"

(* With a time limit the programs end, whatever their commands do: when    *)
(* the time is over for good no command starts, and the ones that run are  *)
(* killed, by main and by the goroutine for ^C (FinishRunning).            *)
RunEnds == Waiting ~> ~Waiting

=============================================================================
