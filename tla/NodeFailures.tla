---------------------------- MODULE NodeFailures ----------------------------
(***************************************************************************)
(* What the chaos monkey promises a test: between a start and the end of   *)
(* the next stop it lets nodes fail, each of them at most once in the test *)
(* (KilledNodes, pkg/chaos/monkey.go), and when the stop has returned no   *)
(* node is in the middle of a simulated failure: it was repaired, or given *)
(* up because a command on it failed.  NodeKiller implements this.         *)
(***************************************************************************)
CONSTANT Nodes
VARIABLES active,  \* between a start and the return of the next stop
          state    \* what was done to each node
vars == <<active, state>>

Init == active = FALSE /\ state = [n \in Nodes |-> "untouched"]

Begin == ~active /\ active' = TRUE /\ UNCHANGED state

\* the nodes of one round fail together
Fail(S) == /\ active /\ \A n \in S : state[n] = "untouched"
           /\ state' = [n \in Nodes |-> IF n \in S THEN "failing" ELSE state[n]]
           /\ UNCHANGED active

Finish(n) == /\ active /\ state[n] = "failing"
             /\ \E s \in {"repaired", "lost"} :
                  state' = [state EXCEPT ![n] = s]
             /\ UNCHANGED active

End == /\ active /\ \A n \in Nodes : state[n] # "failing"
       /\ active' = FALSE /\ UNCHANGED state

Next == \/ Begin \/ End
        \/ \E S \in SUBSET Nodes : Fail(S)
        \/ \E n \in Nodes : Finish(n)
Spec == Init /\ [][Next]_vars
=============================================================================
