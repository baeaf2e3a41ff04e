----------------------------- MODULE Executors -----------------------------
(***************************************************************************)
(* The execution of one node: a TaskManager with its model providers, its  *)
(* MCP servers and its executors, called through Schedule of the           *)
(* standalone resource manager (`local') or by the slot workers of a pod.  *)
(*                                                                         *)
(* A text is what %v prints; Number gives the number it parses to.  A      *)
(* model is named by a sequence of tokens, so that one provider's name can *)
(* be the beginning of another's.                                          *)
(***************************************************************************)
EXTENDS Integers, FiniteSets, Sequences, Functions

CONSTANTS
  Calls,        \* the executions
  Plans,        \* the plans they may be given
  Agents,       \* agent name -> [model, schema], or None
  LlmRows,      \* the rows of the providers' table, in the order listed
  McpRows,      \* the rows of the MCP servers' table
  Number,       \* text -> number, or None
  Actions,      \* what a supervisor's model may decide
  PoolSize,     \* slots of the standalone resource manager
  MaxRetries,   \* 3 in the code
  MaxFaults,    \* bound on calls of other services that fail
  None

Placeholder == "${..}"

VARIABLES
  local,        \* this TaskManager belongs to a standalone resource manager
  providers,    \* LlmProviderManager.providers: name -> row
  defs,         \* McpManager.defs: the servers registered
  clients,      \* McpManager.clients: the servers connected to
  sem,          \* slots taken
  pc, plan,     \* of each call
  asked,        \* what models, tools and sandboxes have answered it
  ret,          \* what its executor returned
  row,          \* the status of its task row
  reply,        \* what its caller was told
  approvals,    \* the approval created for it
  faults

vars == <<local, providers, defs, clients, sem, pc, plan, asked, ret, row, reply, approvals, faults>>
tables == <<local, providers, defs>>

----------------------------------------------------------------------------
(* Model providers and conditions.                                         *)

\* Both names of a row lead to it; of two rows with one name the later wins.
LlmProviderManager ==
  LET active == SelectSeq(LlmRows, LAMBDA r : r.status = "ACTIVE" /\ r.id # << >>)
      names(r) == {r.id, r.provider} \ {<< >>}
      rows(n) == SelectSeq(active, LAMBDA r : n \in names(r))
  IN [n \in UNION {names(r) : r \in Range(active)} |-> rows(n)[Len(rows(n))]]

\* The name found first among those the model's name begins with: the map's
\* order is not defined.
resolveProvider(model) ==
  LET ids == {id \in DOMAIN providers : Len(id) < Len(model) /\ SubSeq(model, 1, Len(id)) = id}
  IN IF ids = {} THEN {<<"default">>} ELSE ids

Resolve(scope, node, field) ==
  CASE node \notin DOMAIN scope -> Placeholder
    [] field = None -> "map"
    [] field \in DOMAIN scope[node] -> scope[node][field]
    [] OTHER -> Placeholder

Compare(op, x, y) ==
  CASE op = ">" -> x > y [] op = "<" -> x < y [] op = ">=" -> x >= y
    [] op = "<=" -> x <= y [] op = "==" -> x = y [] op = "!=" -> x # y
    [] OTHER -> FALSE

SameText(op, x, y) == (op = "==" /\ x = y) \/ (op = "!=" /\ x # y)

\* The forms of an expression: a literal, a comparison inside the braces or
\* outside them, a lookup.
EvalCondition(e, scope) ==
  LET lhs == Resolve(scope, e.node, e.field)
  IN CASE e.form = "literal" -> e.rhs = "true"
       [] e.form = "inside" -> SameText(e.op, lhs, e.rhs)
       [] e.form = "outside" ->
            IF Number[lhs] # None /\ Number[e.rhs] # None
            THEN Compare(e.op, Number[lhs], Number[e.rhs])
            ELSE SameText(e.op, lhs, e.rhs)
       [] e.form = "lookup" -> lhs = "true"

DefaultExpression ==
  [form |-> "inside", node |-> "input", field |-> "result", op |-> "==", rhs |-> "true"]

\* The maps among the inputs are nodes of their own, but for one named input.
ConditionScope(p) ==
  [n \in {"input"} \union DOMAIN p.maps |-> IF n = "input" THEN p.scalars ELSE p.maps[n]]

ConditionResult(p) ==
  EvalCondition(IF p.expr = None THEN DefaultExpression ELSE p.expr, ConditionScope(p))

\* A vote that is not a decision counts as one against.
Committee(p) ==
  LET approve == Cardinality({i \in DOMAIN p.votes : p.votes[i] = "yes"})
      total == Len(p.votes)
  IN CASE p.strategy = "unanimous" -> approve = total
       [] p.strategy = "any" -> approve >= 1
       [] p.strategy = "majority_strict" -> approve >= (total * 2) \div 3
       [] OTHER -> approve > total \div 2

----------------------------------------------------------------------------
Enabled == {r.name : r \in {m \in McpRows : m.enabled /\ m.name # ""}}

Init ==
  /\ local \in BOOLEAN
  /\ providers \in {<< >>, LlmProviderManager}   \* what cannot be listed at the start is never loaded
  /\ defs \in {{}, Enabled}
  /\ clients = {} /\ sem = 0 /\ faults = 0
  /\ pc = [c \in Calls |-> "idle"] /\ plan = [c \in Calls |-> None]
  /\ asked = [c \in Calls |-> << >>] /\ ret = [c \in Calls |-> None]
  /\ row = [c \in Calls |-> None] /\ reply = [c \in Calls |-> None]
  /\ approvals = [c \in Calls |-> None]

Fault == faults < MaxFaults /\ faults' = faults + 1
Goto(c, to) == pc' = [pc EXCEPT ![c] = to]
Hear(c, answer) == asked' = [asked EXCEPT ![c] = Append(@, answer)]

\* An executor returns an output, an error inside its result, or an error.
Return(c, kind, out) == Goto(c, "executed") /\ ret' = [ret EXCEPT ![c] = [kind |-> kind, out |-> out]]
Succeed(c, out) == Return(c, "output", out)
Fail(c) == Return(c, "err", None)

\* Standalone: a slot or an error at once.
Schedule(c, p) ==
  /\ pc[c] = "idle"
  /\ plan' = [plan EXCEPT ![c] = p]
  /\ IF local /\ sem = PoolSize
     THEN /\ Goto(c, "returned") /\ reply' = [reply EXCEPT ![c] = "refused"] /\ UNCHANGED sem
     ELSE /\ Goto(c, "route") /\ sem' = (IF local THEN sem + 1 ELSE sem) /\ UNCHANGED reply
  /\ UNCHANGED <<tables, clients, asked, ret, row, approvals, faults>>

\* The executors that need nobody else answer at once.
Route(c) ==
  LET p == plan[c]
  IN /\ pc[c] = "route"
     /\ CASE p.type \in {"agent", "supervisor"} -> Goto(c, "agent") /\ UNCHANGED ret
          [] p.type = "tool" -> Goto(c, "client") /\ UNCHANGED ret
          [] p.type \in {"human", "sandbox"} -> Goto(c, p.type) /\ UNCHANGED ret
          [] p.type = "condition" -> Succeed(c, ConditionResult(p))
          [] p.type = "committee" -> Succeed(c, Committee(p))
          [] p.type \in {"map", "join", "subflow", "skill", "noop"} -> Succeed(c, TRUE)
          [] OTHER -> Fail(c)
     /\ UNCHANGED <<tables, clients, sem, plan, asked, row, reply, approvals, faults>>

GetAgent(c) ==
  /\ pc[c] = "agent"
  /\ \/ /\ Fault /\ Fail(c)
     \/ /\ IF Agents[plan[c].agent] = None THEN Fail(c)
           ELSE Goto(c, IF plan[c].type = "agent" THEN "ask" ELSE "decide") /\ UNCHANGED ret
        /\ UNCHANGED faults
  /\ UNCHANGED <<tables, clients, sem, plan, asked, row, reply, approvals>>

\* What a call of the model can come to; without a provider, an error.
Generate(c, answers) ==
  LET ids == resolveProvider(Agents[plan[c].agent].model)
  IN (IF ids \intersect DOMAIN providers = {} THEN {} ELSE answers) \union {"error"}

\* Mutant: the answer is not compared with the schema.
FitsAny(p, answer) == answer \in {"good", "misfit"}

HasSchema(p) == p.schema \/ Agents[p.agent].schema
Fits(p, answer) == answer = "good" \/ (answer = "misfit" /\ ~HasSchema(p))

\* Up to MaxRetries + 1 attempts for an object that fits.
Ask(c) ==
  /\ pc[c] = "ask"
  /\ \E answer \in Generate(c, {"garbage", "misfit", "good"}) :
       /\ Hear(c, answer)
       /\ CASE Fits(plan[c], answer) -> Succeed(c, TRUE)
            [] ~Fits(plan[c], answer) /\ Len(asked[c]) = MaxRetries -> Fail(c)
            [] OTHER -> UNCHANGED <<pc, ret>>
  /\ UNCHANGED <<tables, clients, sem, plan, row, reply, approvals, faults>>

\* A supervisor's model is asked once; no action means continue.
Decide(c) ==
  LET allowed == plan[c].allowed
  IN /\ pc[c] = "decide"
     /\ \E answer \in Generate(c, {"garbage", ""} \union Actions) :
          LET action == IF answer = "" THEN "continue" ELSE answer
          IN /\ Hear(c, answer)
             /\ IF answer \in {"error", "garbage"} \/ (allowed # {} /\ action \notin allowed)
                THEN Fail(c) ELSE Succeed(c, action)
     /\ UNCHANGED <<tables, clients, sem, plan, row, reply, approvals, faults>>

\* The answer null leaves a nil map, and the default action is assigned into
\* it: nothing recovers, and the process ends with all its calls.  The next
\* one loads its providers and servers anew.
Panic(c) ==
  /\ pc[c] = "decide" /\ "null" \in Generate(c, {"null"})
  /\ pc' = [d \in Calls |-> IF pc[d] \in {"idle", "returned"} THEN pc[d] ELSE "lost"]
  /\ providers' \in {<< >>, LlmProviderManager} /\ defs' \in {{}, Enabled} /\ clients' = {} /\ sem' = 0
  /\ UNCHANGED <<local, plan, asked, ret, row, reply, approvals, faults>>

\* A server is connected to outside the lock, at its first use.
GetClient(c) ==
  /\ pc[c] = "client"
  /\ \/ plan[c].tool \in clients /\ Goto(c, "call") /\ UNCHANGED <<ret, faults>>
     \/ plan[c].tool \notin clients \union defs /\ Fail(c) /\ UNCHANGED faults
     \/ plan[c].tool \in defs \ clients /\ Goto(c, "connect") /\ UNCHANGED <<ret, faults>>
  /\ UNCHANGED <<tables, clients, sem, plan, asked, row, reply, approvals>>

Connect(c) ==
  /\ pc[c] = "connect"
  /\ \/ Fault /\ Fail(c) /\ UNCHANGED clients
     \/ clients' = clients \union {plan[c].tool} /\ Goto(c, "call") /\ UNCHANGED <<ret, faults>>
  /\ UNCHANGED <<tables, sem, plan, asked, row, reply, approvals>>

\* An answer that reports the tool's own failure is an output like any other.
CallTool(c) ==
  /\ pc[c] = "call"
  /\ \/ Hear(c, "error") /\ Fault /\ Fail(c)
     \/ \E answer \in {"content", "toolError"} :
          Hear(c, answer) /\ Succeed(c, TRUE) /\ UNCHANGED faults
  /\ UNCHANGED <<tables, clients, sem, plan, row, reply, approvals>>

\* The node is done as soon as the approval is stored; its output has no
\* token, for the client does not read the answer.
CreateApproval(c) ==
  LET stored == approvals' = [approvals EXCEPT ![c] = "PENDING"]
  IN /\ pc[c] = "human"
     /\ \/ stored /\ Succeed(c, "WAITING_HUMAN") /\ UNCHANGED faults
        \/ (stored \/ UNCHANGED approvals) /\ Fault /\ Fail(c)
     /\ UNCHANGED <<tables, clients, sem, plan, asked, row, reply>>

\* A decision overwrites whatever the approval says; nothing waits for it.
Approve(c) ==
  /\ approvals[c] # None
  /\ approvals' = [approvals EXCEPT ![c] = "APPROVED"]
  /\ UNCHANGED <<tables, clients, sem, pc, plan, asked, ret, row, reply, faults>>

Reject(c) ==
  /\ approvals[c] # None
  /\ approvals' = [approvals EXCEPT ![c] = "REJECTED"]
  /\ UNCHANGED <<tables, clients, sem, pc, plan, asked, ret, row, reply, faults>>

\* The sandbox executor: see SandboxExec.
Sandbox(c) ==
  /\ pc[c] = "sandbox"
  /\ \E kind \in {"output", "error", "err"} : Hear(c, kind) /\ Return(c, kind, None)
  /\ UNCHANGED <<tables, clients, sem, plan, row, reply, approvals, faults>>

\* The row is saved, or it is not and nobody is told.
SaveTask(c, status) ==
  \/ row' = [row EXCEPT ![c] = status] /\ UNCHANGED faults
  \/ Fault /\ UNCHANGED row

Status(r) == IF r.kind = "output" THEN "SUCCESS" ELSE "FAILED"

\* Without a row when the executor returned an error; an error inside the
\* result reaches the row and not the caller.
ExecutePlan(c) ==
  /\ local /\ pc[c] = "executed" /\ Goto(c, "returned")
  /\ IF ret[c].kind = "err" THEN UNCHANGED <<row, faults>>
     ELSE SaveTask(c, Status(ret[c]))
  /\ reply' = [reply EXCEPT ![c] = IF ret[c].kind = "err" THEN "FAILED" ELSE "SUCCESS"]
  /\ sem' = sem - 1
  /\ UNCHANGED <<tables, clients, plan, asked, ret, approvals>>

\* The rest of a slot worker's callback, up to what it publishes.
Report(c) ==
  /\ ~local /\ pc[c] = "executed" /\ Goto(c, "returned")
  /\ SaveTask(c, Status(ret[c]))
  /\ reply' = [reply EXCEPT ![c] = Status(ret[c])]
  /\ UNCHANGED <<tables, clients, sem, plan, asked, ret, approvals>>

Next ==
  \E c \in Calls :
    \/ \E p \in Plans : Schedule(c, p)
    \/ Route(c) \/ GetAgent(c) \/ Ask(c) \/ Decide(c) \/ Panic(c) \/ GetClient(c) \/ Connect(c) \/ CallTool(c)
    \/ CreateApproval(c) \/ Approve(c) \/ Reject(c) \/ Sandbox(c) \/ ExecutePlan(c) \/ Report(c)

Spec == Init /\ [][Next]_vars

----------------------------------------------------------------------------
\* What the answers a call has heard entitle it to: an agent to success with
\* the first answer that fits; a supervisor to an action it is allowed; a tool
\* to what an enabled server answered, an error of the tool included; a
\* sandbox to its output; a human node to say that it waits for an approval.
Entitled(c) ==
  LET p == plan[c] h == asked[c]
  IN CASE p.type = "agent" ->
            /\ h # << >> /\ Fits(p, h[Len(h)]) /\ (HasSchema(p) => h[Len(h)] # "misfit")
            /\ \A i \in 1 .. Len(h) - 1 : ~Fits(p, h[i])
       [] p.type = "supervisor" ->
            /\ h # << >> /\ h[1] \notin {"error", "garbage"}
            /\ p.allowed # {} => ret[c].out \in p.allowed
       [] p.type = "tool" -> p.tool \in Enabled /\ h # << >> /\ h[Len(h)] # "error"
       [] p.type = "sandbox" -> h = <<"output">>
       [] p.type = "human" -> approvals[c] # None /\ ret[c].out = "WAITING_HUMAN"
       [] OTHER -> TRUE

\* What a committee's strategies mean, over the voters.  Two thirds are twice
\* as many for as against; rounded down, up to two votes may be missing.
Carried(p) ==
  LET for == {i \in DOMAIN p.votes : p.votes[i] = "yes"}
      against == DOMAIN p.votes \ for
  IN CASE p.strategy = "unanimous" -> against = {}
       [] p.strategy = "any" -> for # {}
       [] p.strategy = "majority_strict" -> Cardinality(for) + 2 >= 2 * Cardinality(against)
       [] OTHER -> Cardinality(for) > Cardinality(against)

\* A node is reported as done only if what its model, tool or sandbox
\* answered entitles it to that, over every retry (agent.go:97-131,
\* supervisor.go:54-86, mcp.go:104), an agent is given up only after the last
\* retry, the votes decide as the strategy says (committee.go:35-46), but for
\* the votes missing from a strict majority of two thirds, and the task row,
\* where it was saved, agrees with the report: but for an error inside the
\* result of a sandbox, which the standalone resource manager drops
\* (standalone.go:69).  That a human node is done says no more than that an
\* approval was stored and is waited for (human.go:39), given or not.
VerdictEarned ==
  \A c \in Calls :
    LET p == plan[c]
        dropped == local /\ p.type = "sandbox" /\ asked[c] = <<"error">>
    IN reply[c] \in {"SUCCESS", "FAILED"} =>
         /\ reply[c] = "SUCCESS" => Entitled(c) \/ dropped
         /\ reply[c] = "FAILED" /\ p.type = "agent" => Len(asked[c]) \in {0, MaxRetries + 1}
         /\ p.type = "committee" => ret[c].out = Carried(p)
         /\ row[c] # None => row[c] = reply[c] \/ dropped
=============================================================================
