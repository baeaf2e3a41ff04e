-------------------------- MODULE JobMasterProofs --------------------------
(***************************************************************************)
(* Proofs about JobMaster, for every set of nodes and every set of flows.  *)
(***************************************************************************)
EXTENDS JobMaster, TLAPS

\* Every step of Execute preserves the types.
LEMMA TypeStep == TypeOK /\ [Next]_vars => TypeOK'
<1> SUFFICES ASSUME TypeOK, [Next]_vars PROVE TypeOK'
  OBVIOUS
<1> USE DEF TypeOK, Verdict
<1>1. CASE Start
  BY <1>1 DEF Start, UpdateRun, graphVars
<1>2. CASE LoopCancelled
  BY <1>2 DEF LoopCancelled, Return, graphVars
<1>3. CASE LoopFailed
  BY <1>3 DEF LoopFailed, Finish, UpdateRun, Return, graphVars
<1>4. CASE LoopComplete
  BY <1>4 DEF LoopComplete, Finish, UpdateRun, Return, graphVars
<1>5. CASE LoopStuck
  BY <1>5 DEF LoopStuck, Return, graphVars
<1>6. CASE LoopBatch
  BY <1>6, SpecsAssumption DEF LoopBatch, Ready, FlowSpecs, graphVars
<1>7. CASE \E n \in Nodes : Dispatch(n)
  BY <1>7 DEF Dispatch, graphVars
<1>8. CASE ScheduleFailed
  BY <1>8 DEF ScheduleFailed
<1>9. CASE \E hasOutput \in BOOLEAN, r \in Verdict \cup {"none"} : ScheduleDone(hasOutput, r)
  <2>1. PICK hasOutput \in BOOLEAN, r \in Verdict \cup {"none"} : ScheduleDone(hasOutput, r)
    BY <1>9
  <2>2. skipped' \subseteq Nodes /\ conditions' \in [Nodes -> Verdict \cup {"unset"}]
    BY <2>1 DEF ScheduleDone, FalseBranch, Children
  <2> QED
    BY <2>1, <2>2 DEF ScheduleDone
<1>10. CASE BatchEnd
  BY <1>10 DEF BatchEnd, graphVars
<1>11. CASE CtxDone
  BY <1>11 DEF CtxDone, graphVars
<1>12. CASE UNCHANGED vars
  BY <1>12 DEF vars
<1> QED
  BY <1>1, <1>2, <1>3, <1>4, <1>5, <1>6, <1>7, <1>8, <1>9, <1>10, <1>11, <1>12
  DEF Next, Step, Terminated

\* Execute only ever holds well-typed state.
THEOREM TypeCorrect == Spec => []TypeOK
<1>1. Init => TypeOK
  BY NodesAssumption DEF Init, TypeOK, Verdict
<1> QED
  BY <1>1, TypeStep, PTL DEF Spec
-----------------------------------------------------------------------------
(***************************************************************************)
(* The inductive invariant.  The gates of a node are the dependencies that *)
(* depsDone makes it wait for: those over a plain edge, and a dependency   *)
(* that is its only one.                                                   *)
(***************************************************************************)
Gates(n) == {d \in Deps(n) : GetChildCondition(d, n) = "nil" \/ Deps(n) = {d}}

\* A dispatched node is inside Schedule or has returned, and only dispatched
\* nodes return; what waits in the snapshot was not dispatched yet.
DispatchInv ==
  /\ batch \cup started \subseteq spec.nodes
  /\ completed \cup failed \subseteq started
  /\ nodeOutputs \subseteq completed
  /\ batch \cap started = {}
  /\ pc \notin {"batch", "schedule"} => batch = {}
  /\ pc # "schedule" => started \subseteq completed \cup failed
  /\ pc = "schedule" => /\ current \in started
                        /\ current \notin completed \cup failed
                        /\ started \subseteq completed \cup failed \cup {current}

\* The gates of a node that waits or was dispatched are settled for good: they
\* neither run now, nor wait in the same snapshot, nor failed.
GateInv ==
  \A n \in batch \cup started : \A d \in Gates(n) :
    /\ d \in completed \cup skipped
    /\ d \notin batch
    /\ d \notin failed
    /\ pc = "schedule" => d # current

\* A recorded verdict belongs to a completed condition, and its false branch is
\* skipped; a node with a single conditional dependency waits or runs only if
\* the verdict, if any, is the one on its edge.
BranchInv ==
  /\ \A c \in Nodes : conditions[c] # "unset" =>
       c \in completed /\ FalseBranch(c, conditions[c]) \subseteq skipped
  /\ \A n \in batch \cup started : \A c \in Nodes :
       Deps(n) = {c} /\ GetChildCondition(c, n) # "nil"
         => conditions[c] \in {"unset", GetChildCondition(c, n)}

\* A terminal status is stored only on the way out of Execute.
OutcomeInv ==
  /\ pc # "returned" => stored \in {"PENDING", "RUNNING"} /\ posting = {}
  /\ pc # "returned" => outcome = "none"

IInv == TypeOK /\ DispatchInv /\ GateInv /\ BranchInv /\ ScopeComplete
          /\ OutcomeInv /\ TerminalStatusSound /\ WellFormedNeverStuck

(***************************************************************************)
(* The steps that leave the graph alone: they move the program counter,    *)
(* the store or the context, never from or into a batch.                   *)
(***************************************************************************)
Leave == LoopCancelled \/ LoopFailed \/ LoopComplete \/ LoopStuck

\* What a step that leaves Execute changes.
LEMMA LeaveFrame ==
  Leave => /\ pc = "loop" /\ pc' = "returned"
           /\ UNCHANGED <<spec, graphVars, batch, current, started, scope>>
BY DEF Leave, LoopCancelled, LoopFailed, LoopComplete, LoopStuck, Finish, Return, graphVars

\* The steps of Next, grouped by what they do to the graph.
LEMMA NextCases ==
  ASSUME [Next]_vars
  PROVE  \/ Leave
         \/ LoopBatch
         \/ \E n \in Nodes : Dispatch(n)
         \/ ScheduleFailed
         \/ \E hasOutput \in BOOLEAN, r \in Verdict \cup {"none"} : ScheduleDone(hasOutput, r)
         \/ Start \/ BatchEnd \/ CtxDone \/ UNCHANGED vars
BY DEF Next, Step, Terminated, Leave

\* The flow never changes.
LEMMA SpecConstant == [Next]_vars => spec' = spec
BY NextCases, LeaveFrame
DEF LoopBatch, Dispatch, ScheduleFailed, ScheduleDone, Start, BatchEnd, CtxDone, vars

\* A dispatched node is inside Schedule or has returned, after every step.
LEMMA DispatchStep == TypeOK /\ DispatchInv /\ [Next]_vars => DispatchInv'
<1> SUFFICES ASSUME TypeOK, DispatchInv, [Next]_vars PROVE DispatchInv'
  OBVIOUS
<1> USE DEF DispatchInv
<1>1. CASE Leave
  BY <1>1, LeaveFrame DEF graphVars
<1>2. CASE LoopBatch
  BY <1>2 DEF LoopBatch, Ready, Settled, graphVars
<1>3. CASE \E n \in Nodes : Dispatch(n)
  BY <1>3 DEF Dispatch, graphVars
<1>4. CASE ScheduleFailed
  BY <1>4 DEF ScheduleFailed
<1>5. CASE \E hasOutput \in BOOLEAN, r \in Verdict \cup {"none"} : ScheduleDone(hasOutput, r)
  BY <1>5 DEF ScheduleDone
<1>6. CASE Start \/ BatchEnd \/ CtxDone \/ UNCHANGED vars
  BY <1>6 DEF Start, BatchEnd, CtxDone, vars, graphVars
<1> QED
  BY <1>1, <1>2, <1>3, <1>4, <1>5, <1>6, NextCases

\* At the head of the loop with no failure, nothing is marked failed.
LEMMA NoneFailed == DispatchInv /\ ~HasFailed => failed = {}
BY DEF DispatchInv, HasFailed

\* A ready node has its gates completed or skipped.
LEMMA ReadyGates ==
  ASSUME NEW n \in Ready, NEW d \in Gates(n)
  PROVE  d \in completed \cup skipped
BY DEF Ready, Gates, depsDone

\* The gates depend on the flow alone.
LEMMA GatesConstant == [Next]_vars => \A n : Gates(n)' = Gates(n)
BY SpecConstant DEF Gates, Deps, GetChildCondition

\* The gates of waiting and dispatched nodes stay settled.
LEMMA GateStep == TypeOK /\ DispatchInv /\ GateInv /\ [Next]_vars => GateInv'
<1> SUFFICES ASSUME TypeOK, DispatchInv, GateInv, [Next]_vars,
                    NEW n \in (batch \cup started)', NEW d \in Gates(n)
             PROVE  (/\ d \in completed \cup skipped
                     /\ d \notin batch
                     /\ d \notin failed
                     /\ pc = "schedule" => d # current)'
  BY GatesConstant DEF GateInv
<1> USE DEF GateInv
<1>1. CASE Leave
  BY <1>1, LeaveFrame DEF graphVars
<1>2. CASE LoopBatch
  <2>1. failed = {} /\ batch = {} /\ batch' = Ready /\ pc' = "batch"
    BY <1>2, NoneFailed DEF LoopBatch, DispatchInv
  <2>2. d \in completed \cup skipped
    BY <2>1, <1>2, ReadyGates DEF LoopBatch
  <2> QED
    BY <2>1, <2>2, <1>2 DEF LoopBatch, Ready, Settled, graphVars
<1>3. CASE \E m \in Nodes : Dispatch(m)
  BY <1>3 DEF Dispatch, graphVars
<1>4. CASE ScheduleFailed
  BY <1>4 DEF ScheduleFailed
<1>5. CASE \E hasOutput \in BOOLEAN, r \in Verdict \cup {"none"} : ScheduleDone(hasOutput, r)
  BY <1>5 DEF ScheduleDone
<1>6. CASE Start \/ BatchEnd \/ CtxDone \/ UNCHANGED vars
  BY <1>6 DEF Start, BatchEnd, CtxDone, vars, graphVars
<1> QED
  BY <1>1, <1>2, <1>3, <1>4, <1>5, <1>6, NextCases

\* The outputs of the gates of a dispatched node are in its scope.
LEMMA ScopeStep ==
  TypeOK /\ DispatchInv /\ GateInv /\ ScopeComplete /\ [Next]_vars => ScopeComplete'
<1> SUFFICES ASSUME TypeOK, DispatchInv, GateInv, ScopeComplete, [Next]_vars
             PROVE  ScopeComplete'
  OBVIOUS
<1>0. \A n : PlainDeps(n)' = PlainDeps(n) /\ PlainDeps(n) \subseteq Gates(n)
  BY SpecConstant DEF PlainDeps, Gates, Deps, GetChildCondition
<1> USE DEF ScopeComplete
<1>1. CASE Leave
  BY <1>0, <1>1, LeaveFrame DEF graphVars
<1>2. CASE LoopBatch
  BY <1>0, <1>2 DEF LoopBatch, graphVars
<1>3. CASE \E m \in Nodes : Dispatch(m)
  BY <1>0, <1>3 DEF Dispatch, graphVars, TypeOK
<1>4. CASE ScheduleFailed
  BY <1>0, <1>4 DEF ScheduleFailed
<1>5. CASE \E hasOutput \in BOOLEAN, r \in Verdict \cup {"none"} : ScheduleDone(hasOutput, r)
  BY <1>0, <1>5 DEF ScheduleDone, GateInv
<1>6. CASE Start \/ BatchEnd \/ CtxDone \/ UNCHANGED vars
  BY <1>0, <1>6 DEF Start, BatchEnd, CtxDone, vars, graphVars
<1> QED
  BY <1>1, <1>2, <1>3, <1>4, <1>5, <1>6, NextCases

\* The false branch of a recorded verdict is skipped, after every step.
LEMMA VerdictStep ==
  ASSUME TypeOK, DispatchInv, BranchInv, [Next]_vars,
         NEW c \in Nodes, conditions'[c] # "unset"
  PROVE  c \in completed' /\ FalseBranch(c, conditions'[c]) \subseteq skipped'
<1> USE DEF BranchInv
<1>1. CASE Leave
  BY <1>1, LeaveFrame DEF graphVars
<1>2. CASE LoopBatch
  BY <1>2 DEF LoopBatch, graphVars
<1>3. CASE \E m \in Nodes : Dispatch(m)
  BY <1>3 DEF Dispatch, graphVars
<1>4. CASE ScheduleFailed
  BY <1>4 DEF ScheduleFailed
<1>5. CASE \E hasOutput \in BOOLEAN, r \in Verdict \cup {"none"} : ScheduleDone(hasOutput, r)
  BY <1>5 DEF ScheduleDone, TypeOK
<1>6. CASE Start \/ BatchEnd \/ CtxDone \/ UNCHANGED vars
  BY <1>6 DEF Start, BatchEnd, CtxDone, vars, graphVars
<1> QED
  BY <1>1, <1>2, <1>3, <1>4, <1>5, <1>6, NextCases

\* A node gated by one condition waits or runs only on the matching verdict.
LEMMA SingleGateStep ==
  ASSUME TypeOK, DispatchInv, GateInv, BranchInv, [Next]_vars,
         NEW n \in (batch \cup started)', NEW c \in Nodes,
         Deps(n) = {c}, GetChildCondition(c, n) # "nil"
  PROVE  conditions'[c] \in {"unset", GetChildCondition(c, n)}
<1>0. c \in Gates(n)
  BY DEF Gates
<1>1. CASE Leave
  BY <1>1, LeaveFrame DEF graphVars, BranchInv
<1>2. CASE LoopBatch
  <2>1. CASE n \in started
    BY <2>1, <1>2 DEF LoopBatch, graphVars, BranchInv
  <2>2. CASE n \in Ready
    <3>1. n \notin skipped /\ n \in Children(c)
      BY <2>2, SpecsAssumption DEF Ready, Settled, Children, Deps, TypeOK, FlowSpecs
    <3>2. conditions[c] # "unset" => n \notin FalseBranch(c, conditions[c])
      BY <3>1 DEF BranchInv
    <3> QED
      BY <3>1, <3>2, <1>2 DEF FalseBranch, LoopBatch, graphVars, TypeOK
  <2> QED
    BY <2>1, <2>2, <1>2 DEF LoopBatch
<1>3. CASE \E m \in Nodes : Dispatch(m)
  BY <1>3 DEF Dispatch, graphVars, BranchInv
<1>4. CASE ScheduleFailed
  BY <1>4 DEF ScheduleFailed, BranchInv
<1>5. CASE \E hasOutput \in BOOLEAN, r \in Verdict \cup {"none"} : ScheduleDone(hasOutput, r)
  <2>1. n \in batch \cup started /\ c # current
    BY <1>0, <1>5 DEF ScheduleDone, GateInv
  <2> QED
    BY <2>1, <1>5 DEF ScheduleDone, BranchInv, TypeOK
<1>6. CASE Start \/ BatchEnd \/ CtxDone \/ UNCHANGED vars
  BY <1>6 DEF Start, BatchEnd, CtxDone, vars, graphVars, BranchInv
<1> QED
  BY <1>1, <1>2, <1>3, <1>4, <1>5, <1>6, NextCases

\* Verdicts and the branches they gate stay consistent.
LEMMA BranchStep ==
  TypeOK /\ DispatchInv /\ GateInv /\ BranchInv /\ [Next]_vars => BranchInv'
<1> SUFFICES ASSUME TypeOK, DispatchInv, GateInv, BranchInv, [Next]_vars
             PROVE  BranchInv'
  OBVIOUS
<1>1. \A c \in Nodes : conditions'[c] # "unset" =>
        c \in completed' /\ FalseBranch(c, conditions'[c]) \subseteq skipped'
  BY VerdictStep
<1>2. \A n \in (batch \cup started)' : \A c \in Nodes :
        Deps(n) = {c} /\ GetChildCondition(c, n) # "nil"
          => conditions'[c] \in {"unset", GetChildCondition(c, n)}
  BY SingleGateStep
<1> QED
  BY <1>1, <1>2, SpecConstant
  DEF BranchInv, Deps, Children, GetChildCondition, FalseBranch

\* A terminal status is stored only by the step that leaves Execute.
LEMMA OutcomeStep == TypeOK /\ OutcomeInv /\ [Next]_vars => OutcomeInv'
<1> SUFFICES ASSUME TypeOK, OutcomeInv, [Next]_vars PROVE OutcomeInv'
  OBVIOUS
<1> USE DEF OutcomeInv
<1>1. CASE Leave
  BY <1>1, LeaveFrame
<1>2. CASE Start
  BY <1>2 DEF Start, UpdateRun
<1>3. CASE LoopBatch \/ (\E n \in Nodes : Dispatch(n)) \/ ScheduleFailed
           \/ BatchEnd \/ CtxDone \/ UNCHANGED vars
  BY <1>3 DEF LoopBatch, Dispatch, ScheduleFailed, BatchEnd, CtxDone, vars
<1>4. CASE \E hasOutput \in BOOLEAN, r \in Verdict \cup {"none"} : ScheduleDone(hasOutput, r)
  BY <1>4 DEF ScheduleDone
<1> QED
  BY <1>1, <1>2, <1>3, <1>4, NextCases

\* The stored status stays the truth about the graph.
LEMMA TerminalStep ==
  TypeOK /\ OutcomeInv /\ TerminalStatusSound /\ [Next]_vars => TerminalStatusSound'
<1> SUFFICES ASSUME TypeOK, OutcomeInv, TerminalStatusSound, [Next]_vars
             PROVE  TerminalStatusSound'
  OBVIOUS
<1> USE DEF TerminalStatusSound
<1>1. CASE LoopCancelled \/ LoopStuck
  BY <1>1 DEF LoopCancelled, LoopStuck, Return, graphVars, OutcomeInv
<1>2. CASE LoopFailed
  BY <1>2 DEF LoopFailed, Finish, UpdateRun, Return, HasFailed, graphVars, OutcomeInv
<1>3. CASE LoopComplete
  BY <1>3 DEF LoopComplete, Finish, UpdateRun, Return, HasFailed, IsComplete, Settled,
              graphVars, OutcomeInv
<1>4. CASE pc' # "returned"
  BY <1>4, OutcomeStep DEF OutcomeInv
<1>5. CASE UNCHANGED vars
  BY <1>5 DEF vars
<1>6. CASE pc = "returned" /\ ~ UNCHANGED vars
  BY <1>6, NextCases, LeaveFrame
  DEF LoopBatch, Dispatch, ScheduleFailed, ScheduleDone, Start, BatchEnd, CtxDone
<1> QED
  BY <1>1, <1>2, <1>3, <1>4, <1>5, <1>6, NextCases
  DEF Leave, LoopBatch, Dispatch, ScheduleFailed, ScheduleDone, Start, BatchEnd, CtxDone

\* In a well-formed flow without failure some unsettled node is ready.
LEMMA WellFormedReady ==
  ASSUME TypeOK, WellFormed(spec), ~HasFailed, ~IsComplete
  PROVE  Ready # {}
<1> DEFINE S == {m \in spec.nodes : m \notin Settled}
<1>1. S # {} /\ S \in SUBSET spec.nodes
  BY DEF IsComplete
<1>2. PICK n \in S : \A d \in S : <<d, n>> \notin spec.edges
  BY <1>1 DEF WellFormed
<1>3. \A d \in Deps(n) : d \in completed \cup skipped
  BY <1>2 DEF Deps, WellFormed, HasFailed, Settled
<1>4. depsDone(n)
  BY <1>3 DEF depsDone
<1> QED
  BY <1>2, <1>4 DEF Ready

\* Execute never gives up on a well-formed flow.
LEMMA StuckStep ==
  TypeOK /\ WellFormedNeverStuck /\ [Next]_vars => WellFormedNeverStuck'
<1> SUFFICES ASSUME TypeOK, WellFormedNeverStuck, [Next]_vars, outcome' = "stuck"
             PROVE  ~WellFormed(spec)
  BY SpecConstant DEF WellFormedNeverStuck, WellFormed
<1>1. CASE LoopStuck
  BY <1>1, WellFormedReady DEF LoopStuck
<1>2. CASE outcome' = outcome
  BY <1>2 DEF WellFormedNeverStuck
<1>3. CASE LoopCancelled \/ LoopFailed \/ LoopComplete
  BY <1>3 DEF LoopCancelled, LoopFailed, LoopComplete, Finish, Return
<1> QED
  BY <1>1, <1>2, <1>3, NextCases
  DEF Leave, LoopBatch, Dispatch, ScheduleFailed, ScheduleDone, Start, BatchEnd, CtxDone, vars

\* The invariant holds in every state of every execution.
THEOREM Inductive == Spec => []IInv
<1>1. Init => IInv
  BY NodesAssumption
  DEF Init, IInv, TypeOK, Verdict, DispatchInv, GateInv, BranchInv, ScopeComplete,
      OutcomeInv, TerminalStatusSound, WellFormedNeverStuck
<1>2. IInv /\ [Next]_vars => IInv'
  BY TypeStep, DispatchStep, GateStep, BranchStep, ScopeStep, OutcomeStep, TerminalStep,
     StuckStep
  DEF IInv
<1> QED
  BY <1>1, <1>2, PTL DEF Spec

\* No dispatched node has a failed plain dependency.
THEOREM FailureStops == Spec => []FailureStopsDependents
<1>1. IInv => FailureStopsDependents
  BY DEF IInv, GateInv, Gates, PlainDeps, FailureStopsDependents
<1> QED
  BY <1>1, Inductive, PTL

\* The outputs of the plain dependencies of a dispatched node were in its scope.
THEOREM ScopeIsComplete == Spec => []ScopeComplete
BY Inductive, PTL DEF IInv

\* The stored terminal status is the truth about the graph.
THEOREM StatusSound == Spec => []TerminalStatusSound
BY Inductive, PTL DEF IInv

\* An acyclic flow with declared dependencies is never given up.
THEOREM NeverStuck == Spec => []WellFormedNeverStuck
BY Inductive, PTL DEF IInv

\* A node behind a single condition runs only on the matching verdict.
THEOREM BranchHonoured == Spec => []SingleBranchHonoured
<1>1. IInv => SingleBranchHonoured
  BY SpecsAssumption
  DEF IInv, BranchInv, SingleBranchHonoured, TypeOK, FlowSpecs
<1> QED
  BY <1>1, Inductive, PTL

\* No node is handed to Schedule twice.
THEOREM DispatchedOnce == Spec => NoDoubleDispatch
<1>1. IInv /\ [Next]_vars => [\A n \in Nodes : Dispatch(n) => n \notin started]_vars
  BY DEF IInv, DispatchInv, Dispatch
<1> QED
  BY <1>1, Inductive, PTL DEF NoDoubleDispatch, Spec

\* Execute implements the contract the JobManager relies on.
THEOREM ExecutionContract == Spec => ImplementsExecution
<1>1. Init => Execution!Init
  BY DEF Init, Execution!Init
<1>2. [Next]_vars => [Execution!Next]_(Execution!vars)
  <2> SUFFICES ASSUME [Next]_vars, ~UNCHANGED Execution!vars PROVE Execution!Next
    OBVIOUS
  <2>1. CASE Start
    BY <2>1 DEF Start, UpdateRun, Execution!Next, Execution!Begin
  <2>2. CASE LoopCancelled \/ LoopStuck
    BY <2>2 DEF LoopCancelled, LoopStuck, Return, Execution!Next, Execution!Leave
  <2>3. CASE LoopFailed
    BY <2>3 DEF LoopFailed, Finish, UpdateRun, Return, Execution!Next, Execution!End
  <2>4. CASE LoopComplete
    BY <2>4 DEF LoopComplete, Finish, UpdateRun, Return, Execution!Next, Execution!End
  <2>5. CASE ~(Start \/ Leave)
    BY <2>5, NextCases
    DEF LoopBatch, Dispatch, ScheduleFailed, ScheduleDone, BatchEnd, CtxDone, vars, Execution!vars
  <2> QED
    BY <2>1, <2>2, <2>3, <2>4, <2>5 DEF Leave
<1> QED
  BY <1>1, <1>2, PTL DEF Spec, ImplementsExecution, Execution!Spec
=============================================================================
