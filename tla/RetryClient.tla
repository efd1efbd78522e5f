---------------------------- MODULE RetryClient -----------------------------
(***************************************************************************)
(* The calls every phase and measurement makes on the API server           *)
(* (pkg/framework/client/objects.go): an operation retried with            *)
(* exponential backoff until it succeeds, fails for good or runs out of    *)
(* steps.  One caller works on one object, while others create, change and *)
(* delete it.  The server handles a request at one moment; its answer may  *)
(* be lost, and an error may come before or after the request took effect. *)
(***************************************************************************)
EXTENDS Naturals
CONSTANTS Operations,   \* the calls the caller may make
          Fields,       \* fields the caller's object description sets
          Steps,        \* retryBackoffSteps
          MaxOthers     \* bound on what others do
VARIABLES phase,        \* of the object: absent, active, or terminating
          fields,       \* which Fields have the value the caller wants
          call,         \* the operation, its attempt and, for a patch, what was read
          result,       \* of the last call
          seen,         \* what the object was during the call
          others
vars == <<phase, fields, call, result, seen, others>>

Idle == [op |-> "none", pc |-> "idle", step |-> 0, current |-> {}]
\* Type correctness of the object and the call.
TypeOK == /\ phase \in {"absent", "active", "terminating"}
          /\ fields \subseteq Fields
          /\ call \in [op : Operations \cup {"none"}, pc : {"idle", "request", "patch", "poll"},
                       step : 0 .. Steps, current : SUBSET Fields]
          /\ result \in {"none", "ok", "error", "timeout"}
          /\ seen \in [phases : SUBSET {"absent", "active", "terminating"},
                       fields : SUBSET Fields]
          /\ others \in 0 .. MaxOthers

Init == /\ phase \in {"absent", "active"} /\ fields = {}
        /\ call = Idle /\ result = "none"
        /\ seen = [phases |-> {}, fields |-> {}]
        /\ others = 0

\* seen after a step of anyone: history of the call, for the properties
Observe == seen' = [phases |-> seen.phases \cup {phase'},
                    fields |-> seen.fields \cup fields']

Call(op) == /\ call.pc = "idle" /\ op \in Operations
            /\ call' = [Idle EXCEPT !.op = op, !.pc = "request"]
            /\ result' = "none"
            /\ seen' = [phases |-> {phase}, fields |-> fields]
            /\ UNCHANGED <<phase, fields, others>>

-----------------------------------------------------------------------------
\* How the server handles the request: the answer, and the object after it.
\* Deletion is immediate or, with finalizers and for namespaces, in two steps.
Create(answer) == IF phase = "absent"
                    THEN answer = "ok" /\ phase' = "active" /\ fields' = Fields
                    ELSE answer = "alreadyExists" /\ UNCHANGED <<phase, fields>>
Delete(answer) == \/ /\ phase = "absent" /\ answer = "notFound"
                     /\ UNCHANGED <<phase, fields>>
                  \/ /\ phase # "absent" /\ answer = "ok"
                     /\ phase' \in {"absent", "terminating"}
                     /\ fields' = IF phase' = "absent" THEN {} ELSE fields
Get(answer) == /\ answer = (IF phase = "absent" THEN "notFound" ELSE "ok")
               /\ UNCHANGED <<phase, fields>>
Patch(answer) == IF phase = "absent"
                   THEN answer = "notFound" /\ UNCHANGED <<phase, fields>>
                   ELSE /\ answer = "ok" /\ UNCHANGED phase
                        /\ fields' = fields \cup (Fields \ call.current)

\* the server handles the request the call is at
Handled(answer) ==
  CASE call.pc = "patch" -> Patch(answer)
    [] call.pc = "request" /\ call.op \in {"CreateObject", "CreateNamespace"} -> Create(answer)
    [] call.pc = "request" /\ call.op \in {"DeleteObject", "deleteNamespace"} -> Delete(answer)
    [] OTHER -> Get(answer)

\* a request of the call, and the answer the caller gets: the server's, or an
\* error when the request did not arrive or its answer was lost
Request(answer) ==
  \/ Handled(answer)
  \/ /\ answer \in {"retryable", "net", "fatal"}
     /\ \/ UNCHANGED <<phase, fields>>
        \/ \E lost \in {"ok", "alreadyExists", "notFound"} : Handled(lost)

Answers == {"ok", "alreadyExists", "notFound", "retryable", "net", "fatal"}
\* the options of the operations: Allow(IsAlreadyExists), Allow(IsNotFound)
shouldAllowError(answer) ==
  \/ call.op \in {"CreateObject", "CreateNamespace"} /\ answer = "alreadyExists"
  \/ call.op \in {"DeleteObject", "deleteNamespace"} /\ answer = "notFound"

\* Fault: every error that looks transient counts as success
FaultyRetryFunction(answer) ==
  IF answer = "ok" \/ shouldAllowError(answer) \/ answer = "net" THEN "done"
  ELSE IF answer = "retryable" THEN "retry" ELSE "error"

\* RetryFunction with IsRetryableAPIError and IsRetryableNetError
RetryFunction(answer) == IF answer = "ok" \/ shouldAllowError(answer) THEN "done"
                         ELSE IF answer \in {"retryable", "net"} THEN "retry"
                         ELSE "error"

Return(r) == call' = Idle /\ result' = r

\* RetryWithExponentialBackOff: one attempt of the operation
\* (a patch: its Get; the Patch is the next step).  deleteNamespace goes on to
\* wait with the same client.
Attempt ==
  /\ call.pc \in {"request", "patch"}
  /\ \E answer \in Answers :
       /\ Request(answer)
       /\ LET verdict == RetryFunction(answer) IN
          CASE verdict = "done" /\ call.op = "PatchObject" /\ call.pc = "request" ->
                 /\ call' = [call EXCEPT !.pc = "patch", !.current = fields]
                 /\ UNCHANGED result
            [] verdict = "done" /\ call.op = "deleteNamespace" ->
                 call' = [call EXCEPT !.pc = "poll"] /\ UNCHANGED result
            [] verdict = "done" /\ (call.op = "PatchObject" => call.pc = "patch")
                 /\ call.op # "deleteNamespace" -> Return("ok")
            [] verdict = "retry" /\ call.step + 1 < Steps ->
                 /\ call' = [call EXCEPT !.pc = "request", !.step = @ + 1]
                 /\ UNCHANGED result
            [] verdict = "retry" /\ call.step + 1 >= Steps -> Return("timeout")
            [] verdict = "error" -> Return("error")
  /\ Observe /\ UNCHANGED others

\* WaitForDeleteNamespace: only NotFound ends the wait
waitedFor(answer) == answer = "notFound"

\* one poll; a network error that is not a retryable API error ends the wait
WaitForDeleteNamespace ==
  /\ call.pc = "poll"
  /\ \E answer \in Answers :
       /\ Request(answer)
       /\ \/ waitedFor(answer) /\ Return("ok")
          \/ answer \in {"net", "fatal"} /\ Return("error")
          \/ /\ ~waitedFor(answer) /\ answer \notin {"net", "fatal"}
             /\ UNCHANGED <<call, result>>
  /\ Observe /\ UNCHANGED others

\* its timeout
PollTimesOut == /\ call.pc = "poll" /\ Return("timeout")
                /\ UNCHANGED <<phase, fields, seen, others>>

\* another client, a controller, or the last finalizer
Other == /\ others < MaxOthers /\ others' = others + 1
         /\ \/ /\ phase = "absent" /\ phase' = "active" /\ fields' \in SUBSET Fields
            \/ /\ phase = "active" /\ phase' \in {"absent", "terminating"}
               /\ fields' = IF phase' = "absent" THEN {} ELSE fields
            \/ /\ phase # "absent" /\ UNCHANGED phase
               /\ fields' \in SUBSET Fields \ {fields}
         /\ Observe /\ UNCHANGED <<call, result>>

\* a deletion in two steps ends
Finalized == /\ phase = "terminating" /\ phase' = "absent" /\ fields' = {}
             /\ Observe /\ UNCHANGED <<call, result, others>>

Next == \/ \E op \in Operations : Call(op)
        \/ Attempt \/ WaitForDeleteNamespace \/ PollTimesOut \/ Other \/ Finalized
Fairness == WF_vars(Attempt) /\ WF_vars(PollTimesOut)
Spec == Init /\ [][Next]_vars /\ Fairness

-----------------------------------------------------------------------------
\* A call may report success only for what was so at some moment of the call,
\* however its requests were repeated, lost or overtaken by others: an object
\* that was created existed, one that was deleted was gone or terminating, a
\* deleted namespace was gone, and each field of a patch had its value (Get and
\* Patch are two requests without a resource version, so the fields need not have
\* had their values together).
EffectHappened ==
  [][ call.pc # "idle" /\ result' = "ok" =>
        CASE call.op \in {"CreateObject", "CreateNamespace", "GetObject"} ->
               seen'.phases \cap {"active", "terminating"} # {}
          [] call.op = "DeleteObject" -> seen'.phases \cap {"absent", "terminating"} # {}
          [] call.op = "deleteNamespace" -> "absent" \in seen'.phases
          [] call.op = "PatchObject" -> seen'.fields = Fields ]_vars

Waiting == call.pc # "idle"

\* Every call ends: the attempts by their number, the wait by its timeout.
CallEnds == Waiting ~> ~Waiting
=============================================================================
