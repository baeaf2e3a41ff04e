-------------------------------- MODULE A2A ---------------------------------
(***************************************************************************)
(* The A2A admin agent.  A task carries one admin action, which Execute    *)
(* turns into a REST call to the apiserver; the events it writes become    *)
(* the state of the task that the agent at the other end sees.  The SDK,   *)
(* which runs Execute and Cancel and saves the events in the order of the  *)
(* task's queue, is external.                                              *)
(***************************************************************************)
EXTENDS Naturals, Sequences, FiniteSetsExt

CONSTANTS
  Tasks,
  Messages,     \* sequences of parts [kind, action, spec]
  None,
  MaxSends,     \* bound on the messages of a task
  MaxFaults     \* bound on lost requests and lost answers

VARIABLES
  request,   \* what Execute parsed: [action, spec], None outside of it
  result,    \* what dispatch returned: "ok", "error" or None
  queue,     \* events of a task not saved yet
  state,     \* state of the task in the store, None before it is stored
  exists,    \* external: whether the flow exists
  applied,   \* history: the action the apiserver carried out for the last message of a task
  said,      \* history: the request the last terminal event answers
  sends, faults

vars == <<request, result, queue, state, exists, applied, said, sends, faults>>

Fault == faults < MaxFaults /\ faults' = faults + 1

Reads == {"list_flows", "get_flow", "get_run", "list_runs"}
Writes == {"create_flow", "update_flow", "delete_flow", "start_run", "cancel_run"}

----------------------------------------------------------------------------
(* Parsing.  A data part may name an action and carry a spec; a text part  *)
(* is an action.  Later parts overwrite earlier ones.                      *)

NamesAction(part) == IF part.kind = "text" THEN part.action # "" ELSE part.action # None

ParseAdminRequest(m) ==
  LET naming == {i \in DOMAIN m : NamesAction(m[i])}
  IN [action |-> IF naming = {} THEN "" ELSE m[Max(naming)].action,
      spec |-> \E i \in DOMAIN m : m[i].kind = "data" /\ m[i].spec]

----------------------------------------------------------------------------
Init ==
  /\ request = [t \in Tasks |-> None] /\ result = [t \in Tasks |-> None]
  /\ queue = [t \in Tasks |-> << >>] /\ state = [t \in Tasks |-> None]
  /\ exists \in BOOLEAN /\ applied = [t \in Tasks |-> None] /\ said = [t \in Tasks |-> None]
  /\ sends = [t \in Tasks |-> 0] /\ faults = 0

Events(t, es) == queue' = [queue EXCEPT ![t] = @ \o es]

\* Execute, up to dispatch.
Execute(t, m) ==
  /\ request[t] = None /\ sends[t] < MaxSends /\ sends' = [sends EXCEPT ![t] = @ + 1]
  /\ request' = [request EXCEPT ![t] = ParseAdminRequest(m)]
  /\ result' = [result EXCEPT ![t] = None] /\ applied' = [applied EXCEPT ![t] = None]
  /\ Events(t, IF state[t] = None THEN <<"submitted", "working">> ELSE <<"working">>)
  /\ UNCHANGED <<state, exists, said, faults>>

Returned(t, r) == result' = [result EXCEPT ![t] = r]
NeedsSpec(t) == request[t].action \in {"create_flow", "update_flow"}
Dispatching(t, actions) ==
  /\ request[t] # None /\ result[t] = None /\ request[t].action \in actions
  /\ NeedsSpec(t) => request[t].spec
  /\ UNCHANGED <<request, queue, state, said, sends>>

\* What the apiserver does.  A change or a trigger needs the flow; a flow or
\* run that is not there is deleted or cancelled without an error.
Known(t) == request[t].action \notin {"update_flow", "start_run"} \/ exists
Serve(t) ==
  /\ applied' = IF Known(t) THEN [applied EXCEPT ![t] = request[t].action] ELSE applied
  /\ exists' = (request[t].action = "create_flow" \/ (exists /\ request[t].action # "delete_flow"))

\* An unknown action, or a spec that is missing.
Refuse(t) ==
  /\ request[t] # None /\ result[t] = None
  /\ request[t].action \notin Reads \union Writes \/ (NeedsSpec(t) /\ ~request[t].spec)
  /\ Returned(t, "error") /\ UNCHANGED <<request, queue, state, said, sends, exists, applied, faults>>

\* A flow or run that is not found is an answer, not an error.
GetOrList(t) == Dispatching(t, Reads) /\ Serve(t) /\ Returned(t, "ok") /\ UNCHANGED faults

CreateFlow(t) == Dispatching(t, {"create_flow"}) /\ Serve(t) /\ Returned(t, "ok") /\ UNCHANGED faults

\* A status of 300 or more is an error.
ClientAnswerUnread(ok) == "ok"
ClientAnswer(ok) == IF ok THEN "ok" ELSE "error"

Change(t) ==
  Dispatching(t, Writes \ {"create_flow"}) /\ Serve(t) /\ Returned(t, ClientAnswer(Known(t))) /\ UNCHANGED faults

\* The request does not arrive, or its answer does not.
CallFails(t) ==
  /\ Dispatching(t, Reads \union Writes) /\ Fault
  /\ Serve(t) \/ UNCHANGED <<applied, exists>>
  /\ Returned(t, "error")

\* The rest of Execute: a final event after an artifact or an error.
Finish(t) ==
  /\ request[t] # None /\ result[t] # None
  /\ Events(t, IF result[t] = "ok" THEN <<"completed">> ELSE <<"failed">>)
  /\ said' = [said EXCEPT ![t] = request[t].action]
  /\ request' = [request EXCEPT ![t] = None]
  /\ UNCHANGED <<result, state, exists, applied, sends, faults>>

\* Cancel asks nobody: the call goes on.
Cancel(t) ==
  /\ request[t] # None /\ "canceled" \notin Range(queue[t]) /\ state[t] # "canceled"
  /\ Events(t, <<"canceled">>)
  /\ UNCHANGED <<request, result, state, exists, applied, said, sends, faults>>

\* Save keeps what it is given, whatever version the caller knew.
Save(t) ==
  /\ queue[t] # << >>
  /\ state' = [state EXCEPT ![t] = Head(queue[t])] /\ queue' = [queue EXCEPT ![t] = Tail(@)]
  /\ UNCHANGED <<request, result, exists, applied, said, sends, faults>>

Next ==
  \E t \in Tasks :
    \/ \E m \in Messages : Execute(t, m)
    \/ Refuse(t) \/ GetOrList(t) \/ CreateFlow(t) \/ Change(t) \/ CallFails(t)
    \/ Finish(t) \/ Cancel(t) \/ Save(t)

Spec == Init /\ [][Next]_vars

----------------------------------------------------------------------------
\* A task that is seen as completed stands for an action the apiserver has
\* carried out: no lost call, refusal, cancellation or second message of the
\* same task makes a task look done whose action was not.
CompletedIsApplied ==
  \A t \in Tasks : state[t] = "completed" /\ queue[t] = << >> /\ request[t] = None
                     => applied[t] = said[t]
=============================================================================
