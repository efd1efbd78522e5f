-------------------------- MODULE NodeKillerProofs --------------------------
(***************************************************************************)
(* Proofs about NodeKiller, for any set of nodes, any excluded nodes and   *)
(* any failure rate: no node fails twice, stop leaves no node down unless  *)
(* a command on it failed, and the measurement implements NodeFailures.    *)
(***************************************************************************)
EXTENDS NodeKiller, TLAPS

\* What ties killedNodes, the goroutines and the events together.  A node with
\* a job was put into killedNodes before; the nodes of the next round are not
\* in it; the jobs at work are those the killer waits for; and a node's
\* services are down only from its stop to its reboot, or after an error.
IInv == /\ TypeOK
        /\ \A n \in Nodes : job[n] # "none" => n \in killedNodes
        /\ \A n \in Nodes : n \in Excluded => n \in killedNodes
        /\ killer.pc = "kill" => \A n \in killer.nodes : n \notin killedNodes
        /\ \A n \in Nodes : Working(n) =>
             killer.pc = "wait" /\ n \in killer.nodes
        /\ \A n \in Nodes : stops[n] = (IF job[n] = "none" THEN 0 ELSE 1)
        /\ \A n \in Nodes : n \in Excluded => job[n] = "none"
        /\ \A n \in down : job[n] \in {"sleep", "reboot", "lost"}

\* IInv holds when the measurement is created.
LEMMA InitIInv == Init => IInv
  BY SMTT(30) DEF Init, IInv, TypeOK, Working, Jobs

\* Every step of the measurement keeps IInv.
LEMMA NextIInv == IInv /\ [Next]_vars => IInv'
<1> SUFFICES ASSUME IInv, [Next]_vars PROVE IInv'
    OBVIOUS
<1> USE DEF IInv, TypeOK, Working, Jobs
<1>1. CASE start
    BY <1>1 DEF start
<1>2. CASE stop
    BY <1>2 DEF stop
<1>3. CASE StopReturns
    BY <1>3 DEF StopReturns
<1>4. CASE Run
    BY <1>4 DEF Run
<1>5. CASE listNodes
    BY <1>5 DEF listNodes
<1>6. CASE pickNodes
  <2>1. CASE killer' = [pc |-> "sleep", nodes |-> {}]
      BY <1>6, <2>1 DEF pickNodes
  <2>2. CASE \E picked \in SUBSET candidates :
               killer' = [pc |-> "kill", nodes |-> picked]
    <3>1. PICK picked \in SUBSET candidates :
            killer' = [pc |-> "kill", nodes |-> picked]
        BY <2>2
    <3>2. picked \subseteq Nodes /\ \A n \in picked : n \notin killedNodes
        BY DEF candidates
    <3>3. killer'.pc = "kill" /\ killer'.nodes = picked
        BY <3>1
    <3>4. QED
        BY <1>6, <3>1, <3>2, <3>3 DEF pickNodes
  <2>3. QED
      BY <1>6, <2>1, <2>2 DEF pickNodes
<1>7. CASE kill
    BY <1>7 DEF kill
<1>8. CASE killReturns
    BY <1>8 DEF killReturns, killWaited
<1>9. CASE PrometheusMoves
    BY <1>9 DEF PrometheusMoves
<1>10. ASSUME NEW n \in Nodes, stopServices(n) PROVE IInv'
    BY <1>10 DEF stopServices
<1>11. ASSUME NEW n \in Nodes, sleepInterrupt(n) PROVE IInv'
    BY <1>11 DEF sleepInterrupt
<1>12. ASSUME NEW n \in Nodes, rebootNode(n) PROVE IInv'
    BY <1>12 DEF rebootNode
<1>13. CASE UNCHANGED vars
    BY <1>13 DEF vars
<1>14. QED
    BY <1>1, <1>2, <1>3, <1>4, <1>5, <1>6, <1>7, <1>8, <1>9, <1>10, <1>11,
       <1>12, <1>13 DEF Next, Killer, Job

\* IInv holds throughout, whatever the schedule of the goroutines.
THEOREM Invariance == Spec => []IInv
  BY InitIInv, NextIInv, PTL DEF Spec

\* No node is made to fail twice, and no excluded node at all.
THEOREM NoNodeKilledTwice == Spec => []KilledOnce
<1>1. IInv => KilledOnce
    BY DEF IInv, KilledOnce, TypeOK
<1>2. QED
    BY <1>1, Invariance, PTL

\* A stop that returned left no node down but those a command failed on.
THEOREM StopRepairs == Spec => []NodesRepaired
<1>1. IInv => NodesRepaired
    BY DEF IInv, NodesRepaired, TypeOK, Working
<1>2. QED
    BY <1>1, Invariance, PTL

\* The measurement starts in the initial state of NodeFailures.
LEMMA InitRefines == Init => F!Init
  BY DEF Init, F!Init

\* A working node whose job ends, well or badly, finishes in NodeFailures.
LEMMA EndsRefines ==
  ASSUME IInv, NEW n \in Nodes, Working(n), NEW s \in {"repaired", "lost"},
         job' = [job EXCEPT ![n] = s], killer' = killer
  PROVE  F!Finish(n)
<1> DEFINE shown(m) == IF job[m] = "none" THEN "untouched"
                       ELSE IF Working(m) THEN "failing" ELSE job[m]
           abs == [m \in Nodes |-> shown(m)]
<1>1. killer.pc # "off"
    BY DEF IInv, TypeOK, Working
<1>2. shown(n) = "failing"
    BY DEF Working
<1>3. \A m \in Nodes : (shown(m))' = [abs EXCEPT ![n] = s][m]
    BY DEF IInv, TypeOK, Working
<1>4. abs' = [abs EXCEPT ![n] = s]
    BY <1>3, Zenon
<1>5. abs[n] = "failing"
    BY <1>2
<1>6. QED
    BY <1>1, <1>4, <1>5, Zenon DEF F!Finish

\* Each step is a step of NodeFailures or changes nothing it shows.
LEMMA NextRefines == IInv /\ [Next]_vars => [F!Next]_F!vars
<1> SUFFICES ASSUME IInv, [Next]_vars PROVE [F!Next]_F!vars
    OBVIOUS
<1> USE DEF IInv, TypeOK, Jobs
<1>1. CASE start
    BY <1>1 DEF start, F!Next, F!Begin, Working
<1>2. CASE stop
    BY <1>2 DEF stop, F!vars, Working
<1>3. CASE StopReturns
    BY <1>3 DEF StopReturns, F!Next, F!End, Working
<1>4. CASE Run
    BY <1>4 DEF Run, F!vars, Working
<1>5. CASE listNodes
    BY <1>5 DEF listNodes, F!vars, Working
<1>6. CASE pickNodes
    BY <1>6 DEF pickNodes, F!vars, Working
<1>7. CASE kill
    BY <1>7 DEF kill, F!Next, F!Fail, Working
<1>8. CASE killReturns
    BY <1>8 DEF killReturns, killWaited, F!vars, Working
<1>9. CASE PrometheusMoves
    BY <1>9 DEF PrometheusMoves, F!vars, Working
<1>10. ASSUME NEW n \in Nodes, stopServices(n) PROVE [F!Next]_F!vars
  <2>1. CASE job' = [job EXCEPT ![n] = "sleep"]
    BY <1>10, <2>1 DEF stopServices, F!vars, Working
  <2>2. CASE job' = [job EXCEPT ![n] = "lost"]
    BY <1>10, <2>2, EndsRefines, Zenon DEF stopServices, F!Next, Working
  <2>3. QED
    BY <1>10, <2>1, <2>2 DEF stopServices
<1>11. ASSUME NEW n \in Nodes, sleepInterrupt(n) PROVE [F!Next]_F!vars
    BY <1>11 DEF sleepInterrupt, F!vars, Working
<1>12. ASSUME NEW n \in Nodes, rebootNode(n) PROVE [F!Next]_F!vars
    BY <1>12, EndsRefines DEF rebootNode, F!Next, Working
<1>13. CASE UNCHANGED vars
    BY <1>13 DEF vars, F!vars, Working
<1>14. QED
    BY <1>1, <1>2, <1>3, <1>4, <1>5, <1>6, <1>7, <1>8, <1>9, <1>10, <1>11,
       <1>12, <1>13 DEF Next, Killer, Job

\* The measurement implements NodeFailures.
THEOREM Refinement == Spec => ImplementsNodeFailures
  BY InitRefines, NextRefines, Invariance, PTL
     DEF Spec, F!Spec, ImplementsNodeFailures
=============================================================================
