----------------------------- MODULE JobMaster -----------------------------
(***************************************************************************)
(* The per-run DAG orchestrator: JobMaster.Execute of                      *)
(* pkg/core/pkg/engine/jobmanager/jobmaster.go.                            *)
(*                                                                         *)
(* Execute builds the graph of one flow, marks the run RUNNING and loops:  *)
(* it takes a snapshot of the ready nodes, dispatches them one after the   *)
(* other through the blocking ResourceManager.Schedule, and stops when a   *)
(* node has failed, when every node is settled, when nothing is ready or   *)
(* when its context is done.  Only the goroutine of Execute touches the    *)
(* maps, so the steps below are the points where it meets its environment: *)
(* the run store (UpdateRun), the resource manager (Schedule) and the      *)
(* context (timeout of the flow, or loss of the run's lock).               *)
(*                                                                         *)
(* The write-only map `pending` and the error texts are left out.          *)
(***************************************************************************)
EXTENDS Naturals

CONSTANTS
  Nodes,   \* the node ids a flow may use
  Rank,    \* position of each node id in spec.Nodes, the order Ready() lists
  Specs    \* the flows that may be submitted

\* A *bool edge condition, and the entry of a node in the map `conditions`.
Verdict   == {"true", "false"}
EdgeConds == Verdict \cup {"nil"}

\* What buildExecutionGraph reads of a FlowInfo.  Nothing validates a stored
\* flow: its edges may form cycles or name nodes it does not declare.  Node ids
\* are taken to be distinct, and so are the edges.
FlowSpecs == [nodes     : SUBSET Nodes,
              edges     : SUBSET (Nodes \X Nodes),
              when      : [Nodes \X Nodes -> EdgeConds],
              condition : SUBSET Nodes]

ASSUME NodesAssumption == Nodes # {}
ASSUME RankAssumption  == Rank \in [Nodes -> Nat]
ASSUME SpecsAssumption == Specs \subseteq FlowSpecs

VARIABLES
  spec,        \* the flow being executed
  pc,          \* where Execute is: start, loop, batch, schedule or returned
  outcome,     \* why Execute returned
  completed,   \* jm.completed
  skipped,     \* jm.skipped
  failed,      \* jm.failed
  conditions,  \* jm.conditions, "unset" when the key is absent
  nodeOutputs, \* the keys of jm.nodeOutputs
  batch,       \* what is left of the snapshot Ready() returned
  current,     \* the node inside Schedule, when pc = "schedule"
  ctxDone,     \* ctx.Done() is closed
  stored,      \* the status of the run in the run store
  posting,     \* the outputs handed to the knowledge writer by postHandle
  started,     \* history: the nodes handed to Schedule
  scope        \* history: the outputs that were in scope of each started node

graphVars == <<completed, skipped, failed, conditions, nodeOutputs>>
vars == <<spec, pc, outcome, completed, skipped, failed, conditions,
          nodeOutputs, batch, current, ctxDone, stored, posting, started, scope>>

Settled == completed \cup skipped \cup failed

Deps(n)     == {d \in Nodes : <<d, n>> \in spec.edges}
Children(n) == {c \in Nodes : <<n, c>> \in spec.edges}

GetChildCondition(from, to) == spec.when[<<from, to>>]

\* Mutant: returns true at the end of the scan, without anySatisfied.
depsDoneNoAny(n) ==
  \A d \in Deps(n) : d \in completed \cup skipped \/ GetChildCondition(d, n) # "nil"

\* Mutant: a skipped dependency does not satisfy its child.
depsDoneNoSkip(n) ==
  /\ \A d \in Deps(n) : d \in completed \/ GetChildCondition(d, n) # "nil"
  /\ Deps(n) = {} \/ \E d \in Deps(n) : d \in completed

\* Mutant: one satisfied dependency is enough.
depsDoneAny(n) == Deps(n) = {} \/ \E d \in Deps(n) : d \in completed \cup skipped

\* A dependency that is neither completed nor skipped blocks its child unless
\* the edge is a dormant conditional one; at least one must be satisfied.
depsDone(n) ==
  /\ \A d \in Deps(n) : \/ d \in completed \cup skipped
                        \/ GetChildCondition(d, n) # "nil"
  /\ \/ Deps(n) = {}
     \/ \E d \in Deps(n) : d \in completed \cup skipped

\* Mutant: completed nodes are listed again.
ReadyAgain == {n \in spec.nodes : n \notin skipped \cup failed /\ depsDone(n)}

Ready == {n \in spec.nodes : n \notin Settled /\ depsDone(n)}

IsComplete == spec.nodes \subseteq Settled
HasFailed  == failed \cap spec.nodes # {}

\* The children a condition node with result r switches off.
FalseBranch(n, r) == {c \in Children(n) : GetChildCondition(n, c) \notin {"nil", r}}
-----------------------------------------------------------------------------
Init ==
  /\ spec \in Specs
  /\ pc = "start"
  /\ outcome = "none"
  /\ completed = {} /\ skipped = {} /\ failed = {}
  /\ conditions = [n \in Nodes |-> "unset"]
  /\ nodeOutputs = {}
  /\ batch = {}
  /\ current = CHOOSE n \in Nodes : TRUE
  /\ ctxDone = FALSE
  /\ stored = "PENDING"
  /\ posting = {}
  /\ started = {}
  /\ scope = [n \in Nodes |-> {}]

\* A write of the run's status through the API: it is applied and acknowledged,
\* applied with the answer lost, or not applied.
UpdateRun(status, err) ==
  /\ err \in BOOLEAN
  /\ \/ stored' = status
     \/ err /\ stored' = stored

\* The flow's timeout expires, or the JobManager cancels a run it lost.
CtxDone ==
  /\ pc # "returned"
  /\ ~ctxDone
  /\ ctxDone' = TRUE
  /\ UNCHANGED <<spec, pc, outcome, graphVars, batch, current, stored, posting,
                 started, scope>>

\* Entry of Execute: the maps are empty, the error of UpdateRun is ignored.
Start ==
  /\ pc = "start"
  /\ \E err \in BOOLEAN : UpdateRun("RUNNING", err)
  /\ pc' = "loop"
  /\ UNCHANGED <<spec, outcome, graphVars, batch, current, ctxDone, posting,
                 started, scope>>

Return(why) ==
  /\ pc' = "returned"
  /\ outcome' = why
  /\ UNCHANGED <<spec, graphVars, batch, current, ctxDone, started, scope>>

\* The select at the head of the loop: the run is left as it is stored.
LoopCancelled ==
  /\ pc = "loop" /\ ctxDone
  /\ Return("cancelled")
  /\ UNCHANGED <<stored, posting>>

\* Persist a terminal status; postHandle snapshots the outputs only when the
\* write was acknowledged.
Finish(status) ==
  \E err \in BOOLEAN :
    /\ UpdateRun(status, err)
    /\ Return(IF err THEN "storeError" ELSE status)
    /\ posting' = IF err THEN posting ELSE nodeOutputs

LoopFailed ==
  /\ pc = "loop" /\ ~ctxDone
  /\ HasFailed
  /\ Finish("FAILED")

\* Mutant: completion is tested before failure.
LoopCompleteFirst ==
  /\ pc = "loop" /\ ~ctxDone
  /\ IsComplete
  /\ Finish("COMPLETED")

LoopComplete ==
  /\ pc = "loop" /\ ~ctxDone
  /\ ~HasFailed /\ IsComplete
  /\ Finish("COMPLETED")

\* Mutant: a stuck run is stored as failed.
LoopStuckStored ==
  /\ pc = "loop" /\ ~ctxDone
  /\ ~HasFailed /\ ~IsComplete
  /\ Ready = {}
  /\ Return("stuck")
  /\ stored' = "FAILED"
  /\ UNCHANGED posting

\* Nothing is ready although nodes are unsettled: the loop breaks.
LoopStuck ==
  /\ pc = "loop" /\ ~ctxDone
  /\ ~HasFailed /\ ~IsComplete
  /\ Ready = {}
  /\ Return("stuck")
  /\ UNCHANGED <<stored, posting>>

LoopBatch ==
  /\ pc = "loop" /\ ~ctxDone
  /\ ~HasFailed /\ ~IsComplete
  /\ Ready # {}
  /\ batch' = Ready
  /\ pc' = "batch"
  /\ UNCHANGED <<spec, outcome, graphVars, current, ctxDone, stored, posting,
                 started, scope>>

\* The next node of the snapshot is handed to Schedule.  Neither its own flags
\* nor the context are looked at again.
Dispatch(n) ==
  /\ pc = "batch"
  /\ n \in batch
  /\ \A m \in batch : Rank[n] <= Rank[m]
  /\ batch' = batch \ {n}
  /\ current' = n
  /\ started' = started \cup {n}
  /\ scope' = [scope EXCEPT ![n] = nodeOutputs]
  /\ pc' = "schedule"
  /\ UNCHANGED <<spec, outcome, graphVars, ctxDone, stored, posting>>

\* Schedule returns an error, or a result that carries one.
ScheduleFailed ==
  /\ pc = "schedule"
  /\ failed' = failed \cup {current}
  /\ pc' = "batch"
  /\ UNCHANGED <<spec, outcome, completed, skipped, conditions, nodeOutputs,
                 batch, current, ctxDone, stored, posting, started, scope>>

\* Mutant: the type assertion on Output["result"] is not checked.
ScheduleDoneUnchecked(hasOutput, r) ==
  /\ pc = "schedule"
  /\ r # "none" => hasOutput
  /\ nodeOutputs' = IF hasOutput THEN nodeOutputs \cup {current} ELSE nodeOutputs
  /\ completed' = completed \cup {current}
  /\ IF current \in spec.condition
     THEN /\ conditions' = [conditions EXCEPT ![current] = r]
          /\ skipped' = skipped \cup FalseBranch(current, r)
     ELSE UNCHANGED <<conditions, skipped>>
  /\ pc' = "batch"
  /\ UNCHANGED <<spec, outcome, failed, batch, current, ctxDone, stored, posting,
                 started, scope>>

\* Mutant: Done is not called for a node without output.
ScheduleDoneForgotten(hasOutput, r) ==
  /\ pc = "schedule"
  /\ r # "none" => hasOutput
  /\ nodeOutputs' = IF hasOutput THEN nodeOutputs \cup {current} ELSE nodeOutputs
  /\ completed' = IF hasOutput THEN completed \cup {current} ELSE completed
  /\ IF current \in spec.condition /\ r # "none"
     THEN /\ conditions' = [conditions EXCEPT ![current] = r]
          /\ skipped' = skipped \cup FalseBranch(current, r)
     ELSE UNCHANGED <<conditions, skipped>>
  /\ pc' = "batch"
  /\ UNCHANGED <<spec, outcome, failed, batch, current, ctxDone, stored, posting,
                 started, scope>>

\* Schedule returns a result: Output is nil, or holds a boolean "result" (r), or
\* neither.  A condition node then switches its false branch off.
ScheduleDone(hasOutput, r) ==
  /\ pc = "schedule"
  /\ r # "none" => hasOutput
  /\ nodeOutputs' = IF hasOutput THEN nodeOutputs \cup {current} ELSE nodeOutputs
  /\ completed' = completed \cup {current}
  /\ IF current \in spec.condition /\ r # "none"
     THEN /\ conditions' = [conditions EXCEPT ![current] = r]
          /\ skipped' = skipped \cup FalseBranch(current, r)
     ELSE UNCHANGED <<conditions, skipped>>
  /\ pc' = "batch"
  /\ UNCHANGED <<spec, outcome, failed, batch, current, ctxDone, stored, posting,
                 started, scope>>

BatchEnd ==
  /\ pc = "batch"
  /\ batch = {}
  /\ pc' = "loop"
  /\ UNCHANGED <<spec, outcome, graphVars, batch, current, ctxDone, stored,
                 posting, started, scope>>

\* Execute has returned; nothing is left to do.
Terminated == pc = "returned" /\ UNCHANGED vars

Step ==
  \/ Start
  \/ LoopCancelled \/ LoopFailed \/ LoopComplete \/ LoopStuck \/ LoopBatch
  \/ \E n \in Nodes : Dispatch(n)
  \/ ScheduleFailed
  \/ \E hasOutput \in BOOLEAN, r \in Verdict \cup {"none"} : ScheduleDone(hasOutput, r)
  \/ BatchEnd

Next == Step \/ CtxDone \/ Terminated

Spec == Init /\ [][Next]_vars

\* The goroutine of Execute keeps running, and every Schedule returns (it is
\* bounded by the plan timeout of the resource manager).
FairSpec == Spec /\ WF_vars(Step)
-----------------------------------------------------------------------------
(* Properties *)

\* The types of the state of Execute (jobmaster.go, type JobMaster).
TypeOK ==
  /\ spec \in Specs
  /\ pc \in {"start", "loop", "batch", "schedule", "returned"}
  /\ outcome \in {"none", "cancelled", "FAILED", "COMPLETED", "stuck", "storeError"}
  /\ completed \subseteq Nodes /\ skipped \subseteq Nodes /\ failed \subseteq Nodes
  /\ conditions \in [Nodes -> Verdict \cup {"unset"}]
  /\ nodeOutputs \subseteq Nodes /\ batch \subseteq Nodes /\ posting \subseteq Nodes
  /\ current \in Nodes
  /\ ctxDone \in BOOLEAN
  /\ stored \in {"PENDING", "RUNNING", "COMPLETED", "FAILED"}
  /\ started \subseteq Nodes
  /\ scope \in [Nodes -> SUBSET Nodes]

\* The dependencies of n over edges that carry no condition.
PlainDeps(n) == {d \in Deps(n) : GetChildCondition(d, n) = "nil"}

\* No node of a run is handed to Schedule twice: a snapshot of Ready() never
\* holds a node that an earlier iteration, or this one, already dispatched.
NoDoubleDispatch ==
  [][\A n \in Nodes : Dispatch(n) => n \notin started]_vars

\* A node that was dispatched has no failed plain dependency, not even one that
\* was skipped by a condition while it waited in the snapshot and then failed:
\* the children of a failed node stay blocked until the run terminates.
FailureStopsDependents ==
  \A n \in started : PlainDeps(n) \cap failed = {}

\* Every output a plain dependency ever produces was in the scope of
\* resolveInput when its dependent was dispatched.
ScopeComplete ==
  \A n \in started : PlainDeps(n) \cap nodeOutputs \subseteq scope[n]

\* The terminal status in the store is the truth about the graph, whatever
\* writes were lost: COMPLETED only if every node completed or was skipped and
\* none failed, FAILED only if one did; and knowledge is only extracted from a
\* run whose terminal status was stored.
TerminalStatusSound ==
  /\ stored = "COMPLETED" =>
       spec.nodes \subseteq completed \cup skipped /\ failed \cap spec.nodes = {}
  /\ stored = "FAILED" => failed \cap spec.nodes # {}
  /\ posting # {} => stored = outcome /\ posting = nodeOutputs

\* The edges join declared nodes and have no cycle: every nonempty set of nodes
\* has a member that depends on no member of it.
WellFormed(fs) ==
  /\ fs.edges \subseteq fs.nodes \X fs.nodes
  /\ \A S \in SUBSET fs.nodes :
       S # {} => \E n \in S : \A d \in S : <<d, n>> \notin fs.edges

\* Execute gives up with nodes left over ("no ready nodes, breaking") only on a
\* malformed flow: skips, dormant edges and conditions without a boolean result
\* never block an acyclic graph.
WellFormedNeverStuck == outcome = "stuck" => ~WellFormed(spec)

\* A node whose only dependency is a condition node, over a conditional edge,
\* runs only if the condition's verdict is the one on the edge (or the
\* condition node returned no boolean).
SingleBranchHonoured ==
  \A c \in spec.condition, n \in started :
    Deps(n) = {c} /\ GetChildCondition(c, n) # "nil"
      => conditions[c] \in {"unset", GetChildCondition(c, n)}

\* Execute returns: the loop makes progress in every iteration.
Termination == <>(pc = "returned")

\* Execute touches the stored run as RunExecution.tla says, which is all the
\* JobManager relies on: RUNNING first, then at most one terminal write, and
\* none when it is cancelled or stuck.
Execution == INSTANCE RunExecution
  WITH phase <- IF pc \in {"start", "returned"} THEN pc ELSE "running"

ImplementsExecution == Execution!Spec

\* docs/01-L1-Engine-Architecture.md 3.4.5: the children on the false branch of
\* a condition "never appear in Ready()", so none of them is ever dispatched.
FalseBranchNeverRuns == started \cap skipped = {}
=============================================================================
