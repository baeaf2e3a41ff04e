----------------------------- MODULE RMScaling -----------------------------
(***************************************************************************)
(* Elastic capacity of KubernetesResourceManager                           *)
(* (pkg/core/pkg/engine/resourcemanager/kubernetes.go).  Two pools of pods *)
(* are scaled by the same algorithm: TaskManagers and sandboxes.  Every    *)
(* Schedule call counts itself in, computes the size the pool should have, *)
(* raises the Deployment under the mutex and waits for the pods; the       *)
(* scaling loop reads the counters without the mutex and shrinks a pool    *)
(* that had no new plan for idleTimeout, or raises one that is too small;  *)
(* Shutdown scales to the minimum; the counters are kept in a cache for    *)
(* the next process.  What a call does after it has its capacity is        *)
(* PlanDispatch's subject.                                                 *)
(***************************************************************************)
EXTENDS Integers, FiniteSets, FiniteSetsExt

CONSTANTS
    Calls,         \* concurrent Schedule calls
    SandboxCalls,  \* those whose plan is a sandbox task
    Slots,         \* Slots[p]: plans a pod of pool p runs at a time
    MinPods,       \* MinPods[p], MaxPods[p]: configured size of pool p
    MaxPods,
    Cached,        \* whether the manager was given a cache
    MaxFaults      \* bound: failed calls of the Kubernetes API, unready pods, crashes

Pools == {"tm", "sandbox"}

ASSUME ScalingAssumption ==
    /\ IsFiniteSet(Calls) /\ SandboxCalls \subseteq Calls
    /\ Slots \in [Pools -> Nat \ {0}]
    /\ MinPods \in [Pools -> Nat]
    /\ MaxPods \in [Pools -> Nat \ {0}]
    /\ MinPods["sandbox"] <= MaxPods["sandbox"]
    /\ Cached \in BOOLEAN
    /\ MaxFaults \in Nat

VARIABLES
    alive,     \* the JobManager process runs
    looping,   \* its scaling loop was started (Start)
    st,        \* st[c]: where the Schedule call c stands
    want,      \* want[c]: pool size the call c asked for
    pending,   \* pending[p]: pendingPlans, sandboxPendingTriggers
    undercut,  \* history: undercut[p]: calls whose pool was lowered by a call that
               \* could not read its size
    known,     \* known[p]: currentTMs, sandboxCurrentReplicas
    replicas,  \* replicas[p]: Spec.Replicas of the Deployment
    avail,     \* avail[p]: AvailableReplicas
    quiet,     \* more than idleTimeout since the last activity
    loop,      \* where the scaling loop stands
    goal,      \* size the loop decided on
    cache,     \* persisted state, or NoState
    faults

process == <<st, want, pending, undercut, known, quiet, loop, goal>>
vars == <<alive, looping, process, replicas, avail, cache, faults>>

NoState == [known |-> [p \in Pools |-> -1], pending |-> [p \in Pools |-> -1]]

Init ==
    /\ alive = TRUE /\ looping \in BOOLEAN
    /\ st = [c \in Calls |-> "idle"] /\ want = [c \in Calls |-> 0]
    /\ pending = [p \in Pools |-> 0] /\ undercut = [p \in Pools |-> {}]
    /\ known = MinPods /\ replicas = MinPods /\ avail = MinPods
    /\ quiet = TRUE
    /\ loop = <<"tm", "decide">> /\ goal = 0
    /\ cache = NoState
    /\ faults = 0

Fault == faults < MaxFaults /\ faults' = faults + 1

-----------------------------------------------------------------------------
(* Sizes *)

\* desiredTMCount, desiredSandboxCount
DesiredCount(p, n) ==
    IF n <= 0 THEN MinPods[p]
    ELSE Min({Max({(n + Slots[p] - 1) \div Slots[p], MinPods[p]}), MaxPods[p]})

\* scaleDeployment, scaleSandboxDeployment: pods beyond the new size stop at
\* once, new ones become available later.
ScaleTo(p, n) ==
    /\ replicas' = [replicas EXCEPT ![p] = n]
    /\ avail' = [avail EXCEPT ![p] = Min({@, n})]

Persist(k, pend) ==
    cache' = IF Cached THEN [known |-> k, pending |-> pend] ELSE cache

\* Calls that have passed the capacity step of pool p.
Covered(p) ==
    {c \in Calls : \/ p = "tm" /\ st[c] \in {"tm_wait", "sandbox_size", "sandbox_scale", "sandbox_wait", "dispatched"}
                   \/ p = "sandbox" /\ c \in SandboxCalls /\ st[c] \in {"sandbox_wait", "dispatched"}}

\* History: where n pods are fewer than the Deployment had, the calls it served.
Undercut(p, n) == IF n < replicas[p] THEN [undercut EXCEPT ![p] = Covered(p)] ELSE undercut

\* The part of ensureTaskManagerCapacity and ensureSandboxCapacity that holds
\* the mutex: the Deployment is created at its minimum when it is missing, and
\* raised where the size that was read is below the target.
EnsureSize(p, target, seen) ==
    CASE seen < target ->
           /\ ScaleTo(p, target)
           /\ undercut' = Undercut(p, target)
           /\ known' = [known EXCEPT ![p] = target]
           /\ Persist(known', pending)
      [] seen >= target /\ known[p] < target ->
           /\ known' = [known EXCEPT ![p] = seen]
           /\ Persist(known', pending)
           /\ UNCHANGED <<undercut, replicas, avail>>
      [] OTHER -> UNCHANGED <<undercut, known, replicas, avail, cache>>

\* The size is read first.  When that fails the error is dropped and the size
\* taken for zero, so that the Deployment is set to the target even where it is
\* larger.
EnsureCapacity(p, target) ==
    \/ EnsureSize(p, target, replicas[p]) /\ UNCHANGED faults
    \/ EnsureSize(p, target, 0) /\ Fault

\* An error of the Kubernetes API ends the step, after the request took effect
\* or not.
EnsureFails(p, target) ==
    /\ Fault
    /\ \/ UNCHANGED <<undercut, replicas, avail>>
       \/ ScaleTo(p, target) /\ undercut' = Undercut(p, target)
    /\ UNCHANGED <<known, cache>>

-----------------------------------------------------------------------------
(* Schedule *)

Goto(c, stage) == st' = [st EXCEPT ![c] = stage]

\* The call counts itself in and marks activity.
Schedule(c) ==
    /\ alive /\ st[c] = "idle"
    /\ Goto(c, "tm_size")
    /\ pending' = [pending EXCEPT !["tm"] = @ + 1]
    /\ undercut' = [p \in Pools |-> undercut[p] \ {c}]
    /\ quiet' = FALSE
    /\ UNCHANGED <<alive, looping, want, known, replicas, avail, loop, goal, cache, faults>>

After(c, p) == IF p = "tm" /\ c \in SandboxCalls THEN "sandbox_size" ELSE "dispatched"

\* Mutated form: the target leaves out the call itself.
SizeWithoutSelf(c, p) ==
    /\ alive /\ st[c] = (IF p = "tm" THEN "tm_size" ELSE "sandbox_size")
    /\ LET n == IF p = "tm" THEN pending[p] ELSE pending[p] + 1
       IN /\ pending' = [pending EXCEPT ![p] = n]
          /\ want' = [want EXCEPT ![c] = DesiredCount(p, n - 1)]
          /\ Goto(c, IF DesiredCount(p, n - 1) <= 0 THEN After(c, p)
                     ELSE IF p = "tm" THEN "tm_scale" ELSE "sandbox_scale")
    /\ UNCHANGED <<alive, looping, undercut, known, replicas, avail, quiet, loop, goal, cache, faults>>

\* The target is computed before the mutex is taken.
Size(c, p) ==
    /\ alive /\ st[c] = (IF p = "tm" THEN "tm_size" ELSE "sandbox_size")
    /\ LET n == IF p = "tm" THEN pending[p] ELSE pending[p] + 1
       IN /\ pending' = [pending EXCEPT ![p] = n]
          /\ want' = [want EXCEPT ![c] = DesiredCount(p, n)]
          /\ Goto(c, IF DesiredCount(p, n) <= 0 THEN After(c, p)
                     ELSE IF p = "tm" THEN "tm_scale" ELSE "sandbox_scale")
    /\ UNCHANGED <<alive, looping, undercut, known, replicas, avail, quiet, loop, goal, cache, faults>>

\* Return of the call in any way: the deferred decrements run.
Return(c) ==
    /\ Goto(c, "idle")
    /\ want' = [want EXCEPT ![c] = 0]
    /\ pending' = [p \in Pools |->
         IF p = "tm" \/ st[c] \in {"sandbox_scale", "sandbox_wait"} \/
            (st[c] = "dispatched" /\ c \in SandboxCalls)
         THEN pending[p] - 1 ELSE pending[p]]

Scale(c, p) ==
    /\ alive /\ st[c] = (IF p = "tm" THEN "tm_scale" ELSE "sandbox_scale")
    /\ \/ /\ EnsureCapacity(p, want[c])
          /\ Goto(c, IF p = "tm" THEN "tm_wait" ELSE "sandbox_wait")
          /\ UNCHANGED <<want, pending>>
       \/ EnsureFails(p, want[c]) /\ Return(c)
    /\ UNCHANGED <<alive, looping, quiet, loop, goal>>

\* waitForReadyTaskManagers, waitForReadySandbox: enough available pods, or an
\* error, the two-minute deadline, or the end of the context.
WaitReady(c, p) ==
    /\ alive /\ st[c] = (IF p = "tm" THEN "tm_wait" ELSE "sandbox_wait")
    /\ \/ /\ avail[p] >= want[c]
          /\ Goto(c, After(c, p)) /\ want' = [want EXCEPT ![c] = 0]
          /\ UNCHANGED <<pending, faults>>
       \/ replicas[p] < want[c] /\ Return(c) /\ UNCHANGED faults
       \/ Fault /\ Return(c)
    /\ UNCHANGED <<alive, looping, undercut, known, replicas, avail, quiet, loop, goal, cache>>

\* The plan is answered, fails or times out.
Finish(c) ==
    /\ alive /\ st[c] = "dispatched"
    /\ Return(c)
    /\ UNCHANGED <<alive, looping, undercut, known, replicas, avail, quiet, loop, goal, cache, faults>>

-----------------------------------------------------------------------------
(* The scaling loop *)

Following(p) == <<IF p = "tm" THEN "sandbox" ELSE "tm", "decide">>

\* reconcileTM and reconcileSandbox read counters, known size and idle time
\* without holding the mutex across what follows.
Decide(p) ==
    /\ alive /\ looping /\ loop = <<p, "decide">>
    /\ LET short == pending[p] > known[p] * Slots[p]
           grow == short /\ DesiredCount(p, pending[p]) > known[p]
           shrink == ~short /\ quiet /\ known[p] > MinPods[p]
       IN \/ grow /\ loop' = <<p, "up">> /\ UNCHANGED goal
          \/ shrink /\ loop' = <<p, "down">> /\ goal' = Max({known[p] - 1, MinPods[p]})
          \/ ~grow /\ ~shrink /\ loop' = Following(p) /\ UNCHANGED goal
    /\ UNCHANGED <<alive, looping, st, want, pending, undercut, known, replicas, avail, quiet, cache, faults>>

\* The target is computed anew from the counter.
Grow(p) ==
    /\ alive /\ loop = <<p, "up">>
    /\ LET target == DesiredCount(p, pending[p])
       IN \/ /\ target > 0 /\ EnsureCapacity(p, target)
             /\ loop' = <<p, "wait">>
          \/ /\ target > 0 /\ EnsureFails(p, target)
             /\ loop' = Following(p)
          \/ /\ target <= 0 /\ loop' = Following(p)
             /\ UNCHANGED <<undercut, known, replicas, avail, cache, faults>>
    /\ UNCHANGED <<alive, looping, st, want, pending, quiet, goal>>

\* The loop waits for the pods it asked for, or gives up after two minutes.
LoopWait(p) ==
    /\ alive /\ loop = <<p, "wait">>
    /\ loop' = Following(p)
    /\ UNCHANGED <<alive, looping, st, want, pending, undercut, known, replicas, avail, quiet, goal, cache, faults>>

\* Mutated form: a pool is not shrunk below one pod.
ShrinkKeepsOne(p) ==
    /\ alive /\ loop = <<p, "down">>
    /\ ScaleTo(p, Max({goal, 1}))
    /\ loop' = <<p, "store">>
    /\ UNCHANGED <<alive, looping, st, want, pending, undercut, known, quiet, goal, cache, faults>>

\* The decision is carried out, whatever was scheduled in the meantime.
Shrink(p) ==
    /\ alive /\ loop = <<p, "down">>
    /\ \/ /\ ScaleTo(p, goal)
          /\ loop' = <<p, "store">> /\ UNCHANGED <<goal, faults>>
       \/ /\ Fault
          /\ UNCHANGED <<replicas, avail>> \/ ScaleTo(p, goal)
          /\ loop' = Following(p) /\ goal' = 0
    /\ UNCHANGED <<alive, looping, st, want, pending, undercut, known, quiet, cache>>

\* The new size is noted without the mutex: a call that raised the Deployment
\* since then is forgotten.
Shrunk(p) ==
    /\ alive /\ loop = <<p, "store">>
    /\ known' = [known EXCEPT ![p] = goal]
    /\ Persist(known', pending)
    /\ loop' = Following(p) /\ goal' = 0
    /\ UNCHANGED <<alive, looping, st, want, pending, undercut, replicas, avail, quiet, faults>>

-----------------------------------------------------------------------------
(* Process, cache and cluster *)

Die ==
    /\ alive' = FALSE
    /\ st' = [c \in Calls |-> "idle"] /\ want' = [c \in Calls |-> 0]
    /\ loop' = <<"tm", "decide">> /\ goal' = 0

\* Shutdown: both Deployments go to their minimum under the calls in flight; a
\* scale call that fails is logged.
Shutdown ==
    /\ alive /\ Fault /\ Die
    /\ \E scaled \in SUBSET Pools :
         /\ replicas' = [p \in Pools |-> IF p \in scaled THEN MinPods[p] ELSE replicas[p]]
         /\ avail' = [p \in Pools |-> IF p \in scaled THEN Min({avail[p], MinPods[p]}) ELSE avail[p]]
    /\ UNCHANGED <<looping, pending, undercut, known, quiet, cache>>

Crash ==
    /\ alive /\ Fault /\ Die
    /\ UNCHANGED <<looping, pending, undercut, known, replicas, avail, quiet, cache>>

\* restore: the state of the process before, if its cache entry is still there.
Restored ==
    IF cache # NoState THEN cache ELSE [known |-> MinPods, pending |-> [p \in Pools |-> 0]]

\* NewKubernetesResourceManager: restore what is cached, then scale to the
\* minimum where there is one, and persist.  The last activity is restored too.
Restart ==
    /\ ~alive /\ alive' = TRUE
    /\ known' = Restored.known /\ pending' = Restored.pending
    /\ replicas' = [p \in Pools |-> IF MinPods[p] > 0 THEN MinPods[p] ELSE replicas[p]]
    /\ avail' = [p \in Pools |-> Min({avail[p], replicas'[p]})]
    /\ quiet' \in IF cache # NoState THEN BOOLEAN ELSE {TRUE}
    /\ Persist(known', pending')
    /\ UNCHANGED <<looping, st, want, undercut, loop, goal, faults>>

\* The entry lives for 30 seconds; only a new process looks whether it has gone.
CacheExpires ==
    /\ ~alive /\ cache # NoState /\ cache' = NoState
    /\ UNCHANGED <<alive, looping, process, replicas, avail, faults>>

PodReady(p) ==
    /\ avail[p] < replicas[p]
    /\ avail' = [avail EXCEPT ![p] = @ + 1]
    /\ UNCHANGED <<alive, looping, process, replicas, cache, faults>>

\* idleTimeout passes without a new Schedule call, plans in flight or not; only
\* the loop asks.
IdleTimeout ==
    /\ looping /\ ~quiet /\ quiet' = TRUE
    /\ UNCHANGED <<alive, looping, st, want, pending, undercut, known, replicas, avail, loop, goal, cache, faults>>

ScheduleStep(c) ==
    Schedule(c) \/ Finish(c) \/ \E p \in Pools : Size(c, p) \/ Scale(c, p) \/ WaitReady(c, p)

ScalingLoop == \E p \in Pools : Decide(p) \/ Grow(p) \/ LoopWait(p) \/ Shrink(p) \/ Shrunk(p)

Next ==
    \/ \E c \in Calls : ScheduleStep(c)
    \/ ScalingLoop
    \/ Shutdown \/ Crash \/ Restart \/ CacheExpires
    \/ \E p \in Pools : PodReady(p)
    \/ IdleTimeout

\* The loop runs, the process is restarted, time passes and Kubernetes starts
\* pods.  No plan is ever owed.
Fairness ==
    /\ WF_vars(ScalingLoop) /\ WF_vars(Restart) /\ WF_vars(IdleTimeout)
    /\ \A p \in Pools : WF_vars(PodReady(p))
    /\ \A c \in Calls : WF_vars(ScheduleStep(c) /\ ~Schedule(c))

Spec == Init /\ [][Next]_vars /\ Fairness

-----------------------------------------------------------------------------
(* Properties *)

\* The sizes a pool may have.
Sizes(p) == 0 .. IF MinPods[p] > MaxPods[p] THEN MinPods[p] ELSE MaxPods[p]

\* Calls counted in for pool p that have not scaled it yet.
Entering(p) ==
    {c \in Calls : \/ p = "tm" /\ st[c] \in {"tm_size", "tm_scale"}
                   \/ p = "sandbox" /\ st[c] = "sandbox_scale"}

\* Without the scaling loop (no binary starts it), the Deployment is sized for
\* all calls it has to serve as soon as none of them is still on its way:
\* computing the target before taking the mutex loses no call.  A call that
\* cannot read the size lowers the pool under the calls before it (they are in
\* undercut), and under no other one.  And no pool ever leaves its bounds,
\* whatever is restored, lost or read too late.
PoolSized ==
    \A p \in Pools :
      /\ replicas[p] \in Sizes(p) /\ known[p] \in Sizes(p)
      /\ ~looping /\ alive /\ Entering(p) = {} =>
        LET served == Covered(p) \ undercut[p]
        IN served = {} \/ replicas[p] >= DesiredCount(p, Cardinality(served))

NoCalls == \A c \in Calls : st[c] = "idle"

\* The manager knows of every pod and counts no plan of its predecessor.
Tracked ==
    \A p \in Pools :
      /\ pending[p] = 0 /\ replicas[p] <= known[p]
      /\ loop = <<p, "store">> => replicas[p] <= goal

\* The loop works off an idle pool, although every decision is made on values
\* that may be stale: once no call is in flight both pools go back to their
\* minimum.  This needs a manager that knows of all its pods.  One that a call
\* raised between the loop's scale request and its note of the new size, one
\* whose request was answered with an error but carried out, and what a
\* predecessor left behind without a cache entry stay up for good, and plans
\* restored from the cache are never counted out.
IdlePoolsShrink ==
    looping /\ alive /\ NoCalls /\ Tracked ~> replicas = MinPods \/ ~alive \/ ~NoCalls
=============================================================================
