----------------------------- MODULE Controller -----------------------------
(***************************************************************************)
(* The Controller (pkg/controller/pkg/controller.go): every replica runs   *)
(* reconcile once per poll interval.  A tick takes a snapshot of the peer  *)
(* list, of the flow definitions and of the flows with active runs, and    *)
(* then works from these snapshots: it creates the JobManager Deployment   *)
(* of every active flow of its shard, registers the cron triggers of its   *)
(* shard, and garbage-collects JobManager and runtime (TaskManager and     *)
(* sandbox) Deployments.  The API calls of a tick are steps of their own:  *)
(* other replicas, users, JobManagers and the clock move between them.     *)
(*                                                                         *)
(* All flows live in the Controller's namespace, so one Kubernetes         *)
(* namespace holds everything, and Deployments are named by their flow.    *)
(* The run table is abstracted to the set of flows with a run that is      *)
(* PENDING, RUNNING or PAUSED; fewer than 100 runs are assumed, so that    *)
(* ListRuns misses none of them.                                           *)
(***************************************************************************)
EXTENDS Naturals, Sequences

CONSTANTS
    Pods,        \* the controller pods in the order Kubernetes lists them
    Flows,       \* flow ids
    Hash,        \* Hash[f]: the FNV hash of a flow id
    Scheduled,   \* the flows with a schedule trigger
    Timeout,     \* tm_orphan_timeout, in clock ticks
    MaxFaults    \* bound: crashes, failed API calls and lost JM Deployments

Range(s) == {s[i] : i \in 1 .. Len(s)}
Controllers == Range(Pods)

ASSUME ControllerAssumption ==
    /\ Pods \in Seq(Controllers)
    /\ Hash \in [Flows -> Nat]
    /\ Scheduled \subseteq Flows
    /\ Timeout \in Nat \ {0}
    /\ MaxFaults \in Nat

VARIABLES
    up,       \* controller processes that run and are Ready
    defined,  \* flows with a definition in the API server
    active,   \* flows with a run that is not terminal
    infra,    \* objects of the application namespace that exist
    jm,       \* flows whose JobManager Deployment exists
    pods,     \* flows whose JobManager pod runs
    tm,       \* flows whose runtime Deployments exist
    pc,       \* pc[c]: where reconcile of c stands
    peers,    \* peers[c]: peer snapshot of the tick
    seen,     \* seen[c]: definitions snapshot of the tick
    act,      \* act[c]: active flows of the shard, as collected
    ok,       \* ok[c]: whether that snapshot succeeded
    cron,     \* cron[c]: flows registered with c's cron
    view,     \* view[c]: history, the peer list c used to register them
    mark,     \* mark[c][k]: age of c's cleanup mark of a Deployment, or NoMark
    faults    \* faults so far

runtime == <<infra, jm, pods, tm>>
snapshot == <<peers, seen, act, ok>>
triggers == <<cron, view>>
vars == <<up, defined, active, runtime, pc, snapshot, triggers, mark, faults>>

NoMark == Timeout + 1
Objects == {"namespace", "configmap", "rbac"}
Keys == {"jm", "tm"} \X Flows
NoMarks == [k \in Keys |-> NoMark]

Init ==
    /\ up = Controllers
    /\ defined = Flows
    /\ active = {}
    /\ infra = {} /\ jm = {} /\ pods = {} /\ tm = {}
    /\ pc = [c \in Controllers |-> "idle"]
    /\ peers = [c \in Controllers |-> <<>>]
    /\ seen = [c \in Controllers |-> {}]
    /\ act = [c \in Controllers |-> {}]
    /\ ok = [c \in Controllers |-> FALSE]
    /\ cron = [c \in Controllers |-> {}]
    /\ view = [c \in Controllers |-> <<>>]
    /\ mark = [c \in Controllers |-> NoMarks]
    /\ faults = 0

Fault == faults < MaxFaults /\ faults' = faults + 1
NoFault == UNCHANGED faults

-----------------------------------------------------------------------------
(* Sharding *)

\* The Ready controller pods, in the order of the pod list.
DiscoverPeers == SelectSeq(Pods, LAMBDA c : c \in up)

ShardIndex(f, n) == IF n <= 1 THEN 0 ELSE Hash[f] % n

\* Mutated form: every listed peer owns every flow.
OwnsWhenListed(c, f) ==
    \/ peers[c] = <<>>
    \/ \E i \in 1 .. Len(peers[c]) : peers[c][i] = c

\* An empty peer list, also the one of a failed discovery, owns everything.
OwnsFlow(c, f) ==
    \/ peers[c] = <<>>
    \/ peers[c][ShardIndex(f, Len(peers[c])) + 1] = c

Owned(c, S) == {f \in S : OwnsFlow(c, f)}

-----------------------------------------------------------------------------
(* The steps of reconcile *)

Step(c, from, to) == pc[c] = from /\ c \in up /\ pc' = [pc EXCEPT ![c] = to]

\* The snapshots are local variables of reconcile: they go with its return.
Forget(c) ==
    /\ peers' = [peers EXCEPT ![c] = <<>>]
    /\ seen' = [seen EXCEPT ![c] = {}]
    /\ act' = [act EXCEPT ![c] = {}]
    /\ ok' = [ok EXCEPT ![c] = FALSE]

\* The peer list of the tick: empty when discovery fails.
GetPeers(c) ==
    \/ NoFault /\ peers' = [peers EXCEPT ![c] = DiscoverPeers]
    \/ Fault /\ peers' = [peers EXCEPT ![c] = <<>>]

\* The first two calls of a tick.  An error of ListFlows ends the tick:
\* triggers and marks stay as they are.
ListFlows(c) ==
    /\ \/ /\ Step(c, "idle", "collect") /\ GetPeers(c)
          /\ seen' = [seen EXCEPT ![c] = defined]
          /\ UNCHANGED <<act, ok>>
       \/ Step(c, "idle", "idle") /\ Fault /\ Forget(c)
    /\ UNCHANGED <<up, defined, active, runtime, triggers, mark>>

\* The defined flows of the shard with a run that is not terminal.
CollectActiveRunFlows(c) ==
    /\ Step(c, "collect", "ensure")
    /\ act' = [act EXCEPT ![c] = Owned(c, seen[c]) \cap active]
    /\ \/ NoFault /\ ok' = [ok EXCEPT ![c] = TRUE]
       \/ Fault /\ ok' = [ok EXCEPT ![c] = FALSE]
    /\ UNCHANGED <<up, defined, active, runtime, peers, seen, triggers, mark>>

\* A ConfigMap copied from the system namespace, and the service account, role
\* and binding of the runtime: each is created when missing, and a failed call
\* is only logged.
EnsureApplicationConfigMap(failed) == {"configmap"} \ failed
EnsureRuntimeRBAC(failed) == {"rbac"} \ failed

\* Mutated form: the infrastructure is ensured only with a new namespace.
EnsureOnlyNewNamespace(S, failed) ==
    IF S = {} \/ "namespace" \in failed \/ "namespace" \in infra
    THEN UNCHANGED <<infra, jm>>
    ELSE /\ infra' = infra \cup (Objects \ failed)
         /\ jm' = IF "jm" \in failed THEN jm ELSE jm \cup S

\* Namespace, ConfigMap, RBAC objects and JobManager Deployment of the flows
\* in S.  Calls of "failed" go wrong: without the namespace nothing else is
\* tried.  A Deployment that exists already is left as it is.
EnsureApplicationInfra(S, failed) ==
    IF S = {} \/ "namespace" \in failed
    THEN UNCHANGED <<infra, jm>>
    ELSE /\ infra' = infra \cup {"namespace"} \cup EnsureApplicationConfigMap(failed)
                           \cup EnsureRuntimeRBAC(failed)
         /\ jm' = IF "jm" \in failed THEN jm ELSE jm \cup S

Ensure(S) ==
    \/ NoFault /\ EnsureApplicationInfra(S, {})
    \/ /\ S # {} /\ Fault
       /\ \E failed \in {{x} : x \in Objects \cup {"jm"}} : EnsureApplicationInfra(S, failed)

EnsureActive(c) == Ensure(IF ok[c] THEN Owned(c, seen[c]) \cap act[c] ELSE {})

\* Clear, RegisterAgentFlows and Start of the schedule trigger.
RegisterAgentFlows(c) ==
    /\ cron' = [cron EXCEPT ![c] = Owned(c, seen[c]) \cap Scheduled]
    /\ view' = [view EXCEPT ![c] = peers[c]]

\* The flows of the shard are ensured, then the triggers are replaced.
DispatchOwned(c) ==
    /\ Step(c, "ensure", "gcjm")
    /\ EnsureActive(c)
    /\ RegisterAgentFlows(c)
    /\ UNCHANGED <<up, defined, active, pods, tm, snapshot, mark>>

\* Age of a mark once this tick has looked at it: a new mark has age 0.
Marked(age) == IF age = NoMark THEN 0 ELSE age

Idle(c, f) == ok[c] /\ f \notin act[c]

\* What gcOrphanedJMDeployments does with the Deployment of each owned flow.
JMExpired(c, f) == f \in seen[c] => Idle(c, f) /\ Marked(mark[c][<<"jm", f>>]) >= Timeout
JMMark(c, f) ==
    IF f \in seen[c] /\ Idle(c, f) /\ ~JMExpired(c, f)
    THEN Marked(mark[c][<<"jm", f>>]) ELSE NoMark

\* Runtime Deployments that go with the JobManager Deployments of S.
DeleteRuntimeDeploymentsForFlow(S) == tm \cap S

\* Deleting a JobManager Deployment deletes the flow's runtime Deployments.
\* A failed Delete of the JobManager keeps its mark and skips the runtime ones.
GcOrphanedJMDeployments(c) ==
    /\ Step(c, "gcjm", "gcrt")
    /\ \/ Fault /\ UNCHANGED <<jm, tm, mark>>     \* the Deployments cannot be listed
       \/ LET mine == Owned(c, jm)
              doomed == {f \in mine : JMExpired(c, f)}
          IN \E failed \in SUBSET doomed :
            /\ IF failed = {} THEN NoFault ELSE Fault
            /\ jm' = jm \ (doomed \ failed)
            /\ tm' = tm \ DeleteRuntimeDeploymentsForFlow(doomed \ failed)
            /\ mark' = [mark EXCEPT ![c] = [k \in Keys |->
                 CASE k[1] = "jm" /\ k[2] \in mine \ failed -> JMMark(c, k[2])
                   [] k[1] = "jm" /\ k[2] \in failed /\ k[2] \in seen[c] -> Marked(mark[c][k])
                   [] k[1] = "tm" /\ k[2] \in DeleteRuntimeDeploymentsForFlow(doomed \ failed) -> NoMark
                   [] OTHER -> mark[c][k]]]
    /\ UNCHANGED <<up, defined, active, infra, pods, snapshot, triggers>>

\* Mutated form: flows that are no longer defined are skipped.
RuntimeExpiredKnownFlow(c, f) ==
    f \in seen[c] /\ (Idle(c, f) \/ Marked(mark[c][<<"tm", f>>]) >= Timeout)

\* gcOrphanedRuntimeDeployments: only the runtime of a JobManager that is gone.
RuntimeExpired(c, f) ==
    f \in seen[c] => Idle(c, f) \/ Marked(mark[c][<<"tm", f>>]) >= Timeout

GcOrphanedRuntimeDeployments(c) ==
    /\ Step(c, "gcrt", "idle")
    /\ \/ Fault /\ UNCHANGED <<tm, mark>>     \* no list, or no answer about the parent
       \/ LET mine == Owned(c, tm)
              doomed == {f \in mine \ jm : RuntimeExpired(c, f)}
          IN \E failed \in SUBSET doomed :
            /\ IF failed = {} THEN NoFault ELSE Fault
            /\ tm' = tm \ (doomed \ failed)
            /\ mark' = [mark EXCEPT ![c] = [k \in Keys |->
                 CASE k[1] = "tm" /\ k[2] \in (mine \cap jm) \cup (doomed \ failed) -> NoMark
                   [] k[1] = "tm" /\ k[2] \in mine \ (jm \cup doomed) -> Marked(mark[c][k])
                   [] k[1] = "tm" /\ k[2] \in failed /\ k[2] \in seen[c] /\ ~Idle(c, k[2])
                        -> Marked(mark[c][k])
                   [] OTHER -> mark[c][k]]]
    /\ Forget(c)
    /\ UNCHANGED <<up, defined, active, infra, jm, pods, triggers>>

\* A cron entry fires: the flow is read again, a run is created, and its
\* infrastructure is ensured even when the creation of the run failed.
TriggerScheduledRun(c, f) ==
    /\ c \in up /\ f \in cron[c] /\ f \in defined
    /\ \/ active' = active \cup {f} /\ Ensure({f})
       \/ UNCHANGED active /\ Fault /\ EnsureApplicationInfra({f}, {})
    /\ UNCHANGED <<up, defined, pods, tm, pc, snapshot, triggers, mark>>

\* The process ends (crash, or the shutdown path of Run) and comes back with
\* no cron entries and no cleanup marks.
Crash(c) ==
    /\ c \in up /\ Fault
    /\ up' = up \ {c}
    /\ pc' = [pc EXCEPT ![c] = "idle"]
    /\ Forget(c)
    /\ cron' = [cron EXCEPT ![c] = {}]
    /\ view' = [view EXCEPT ![c] = <<>>]
    /\ mark' = [mark EXCEPT ![c] = NoMarks]
    /\ UNCHANGED <<defined, active, runtime>>

Restart(c) ==
    /\ c \notin up
    /\ up' = up \cup {c}
    /\ UNCHANGED <<defined, active, runtime, pc, snapshot, triggers, mark, faults>>

-----------------------------------------------------------------------------
(* Users, JobManagers, Kubernetes and the clock *)

UserStep ==
    /\ \E f \in Flows :
         \/ f \in defined /\ defined' = defined \ {f} /\ UNCHANGED active
         \/ f \notin defined /\ defined' = defined \cup {f} /\ UNCHANGED active
         \/ f \in defined \ active /\ active' = active \cup {f} /\ UNCHANGED defined
    /\ UNCHANGED <<up, runtime, pc, snapshot, triggers, mark, faults>>

\* The run of f ends: its JobManager completes it, or a user cancels it.
EndRun(f) ==
    /\ f \in active
    /\ active' = active \ {f}
    /\ UNCHANGED <<up, defined, runtime, pc, snapshot, triggers, mark, faults>>

\* The kubelet starts and stops the pod of the Deployment.
Kubelet(f) ==
    /\ \/ f \in jm \ pods /\ infra = Objects /\ pods' = pods \cup {f}
       \/ f \in pods \ jm /\ pods' = pods \ {f}
    /\ UNCHANGED <<up, defined, active, infra, jm, tm, pc, snapshot, triggers, mark, faults>>

\* A JobManager pod creates its runtime Deployments for an active run, also
\* while the pod is being stopped.
StartRuntime(f) ==
    /\ f \in (pods \cap active) \ tm
    /\ tm' = tm \cup {f}
    /\ UNCHANGED <<up, defined, active, infra, jm, pods, pc, snapshot, triggers, mark, faults>>

\* A JobManager Deployment disappears without the Controller.
LoseJM(f) ==
    /\ f \in jm /\ Fault
    /\ jm' = jm \ {f}
    /\ UNCHANGED <<up, defined, active, infra, pods, tm, pc, snapshot, triggers, mark>>

Older(age) == IF age < Timeout THEN age + 1 ELSE age

ClockTick ==
    /\ \E c \in Controllers, k \in Keys : mark[c][k] < Timeout
    /\ mark' = [c \in Controllers |-> [k \in Keys |-> Older(mark[c][k])]]
    /\ UNCHANGED <<up, defined, active, runtime, pc, snapshot, triggers, faults>>

Reconcile(c) ==
    \/ ListFlows(c) \/ CollectActiveRunFlows(c) \/ DispatchOwned(c)
    \/ GcOrphanedJMDeployments(c) \/ GcOrphanedRuntimeDeployments(c)

Next ==
    \/ \E c \in Controllers :
         \/ Reconcile(c) \/ Crash(c) \/ Restart(c)
         \/ \E f \in Flows : TriggerScheduledRun(c, f)
    \/ UserStep
    \/ \E f \in Flows : EndRun(f) \/ Kubelet(f) \/ StartRuntime(f) \/ LoseJM(f)
    \/ ClockTick

\* Replicas keep ticking, a crashed pod is restarted by its Deployment, the
\* kubelet acts and time passes.  Users and JobManagers owe nothing.
Fairness ==
    /\ \A c \in Controllers : WF_vars(Reconcile(c)) /\ WF_vars(Restart(c))
    /\ \A f \in Flows : WF_vars(Kubelet(f))
    /\ WF_vars(ClockTick)

Spec == Init /\ [][Next]_vars /\ Fairness

-----------------------------------------------------------------------------
(* Properties *)

\* What the sharding guarantees: two replicas hold a cron entry of the same
\* flow, which then fires twice, only when they registered it from different
\* peer lists, or from the empty list that a failed discovery leaves.
CronDuplicatesNeedStaleView ==
    \A c, d \in Controllers :
      c # d /\ cron[c] \cap cron[d] # {} => view[c] # view[d] \/ view[c] = <<>>

\* A defined flow with an active run gets its JobManager Deployment and
\* everything its pod mounts, whatever crashes, failed calls and stale
\* snapshots came before, unless the run ends or the flow is deleted.
ActiveRunsServed ==
    \A f \in Flows :
      f \in active \cap defined ~> (f \in jm /\ infra = Objects) \/ f \notin active \cap defined

\* The Deployments of a deleted flow are all removed, also runtime Deployments
\* that a stopping JobManager pod creates after the collector has passed.
OrphansCollected ==
    \A f \in Flows : f \notin defined ~> f \in defined \/ f \notin jm \cup tm
=============================================================================
