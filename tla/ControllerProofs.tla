-------------------------- MODULE ControllerProofs --------------------------
(***************************************************************************)
(* Proofs about Controller, for any number of replicas, flows and faults.  *)
(***************************************************************************)
EXTENDS Controller, TLAPS

\* What a replica can take for the list of its peers: nothing, or those of the
\* listed pods that were Ready at some time.
Ready(S) == SelectSeq(Pods, LAMBDA c : c \in S)
PeerLists == {<<>>} \cup {Ready(S) : S \in SUBSET Controllers}

Ages == 0 .. NoMark

TypeOK ==
    /\ up \subseteq Controllers /\ defined \subseteq Flows /\ active \subseteq Flows
    /\ infra \subseteq Objects /\ jm \subseteq Flows /\ pods \subseteq Flows /\ tm \subseteq Flows
    /\ pc \in [Controllers -> {"idle", "collect", "ensure", "gcjm", "gcrt"}]
    /\ peers \in [Controllers -> PeerLists]
    /\ seen \in [Controllers -> SUBSET Flows] /\ act \in [Controllers -> SUBSET Flows]
    /\ ok \in [Controllers -> BOOLEAN]
    /\ cron \in [Controllers -> SUBSET Flows] /\ view \in [Controllers -> PeerLists]
    /\ mark \in [Controllers -> [Keys -> Ages]]
    /\ faults \in 0 .. MaxFaults

\* The steps of Next, one by one.
LEMMA NextCases ==
  ASSUME [Next]_vars
  PROVE  \/ \E c \in Controllers :
              \/ ListFlows(c) \/ CollectActiveRunFlows(c) \/ DispatchOwned(c)
              \/ GcOrphanedJMDeployments(c) \/ GcOrphanedRuntimeDeployments(c)
              \/ Crash(c) \/ Restart(c)
         \/ \E c \in Controllers, f \in Flows : TriggerScheduledRun(c, f)
         \/ \E f \in Flows : EndRun(f) \/ Kubelet(f) \/ StartRuntime(f) \/ LoseJM(f)
         \/ UserStep \/ ClockTick \/ UNCHANGED vars
BY DEF Next, Reconcile

\* Infrastructure is created out of known objects, whichever calls fail.
LEMMA InfraType ==
  ASSUME TypeOK, NEW S \in SUBSET Flows, NEW failed, EnsureApplicationInfra(S, failed)
  PROVE  infra' \subseteq Objects /\ jm' \subseteq Flows /\ infra \subseteq infra' /\ jm \subseteq jm'
BY DEF TypeOK, EnsureApplicationInfra, EnsureApplicationConfigMap, EnsureRuntimeRBAC, Objects

\* The same of Ensure, which counts its failures.
LEMMA EnsureType ==
  ASSUME TypeOK, NEW S \in SUBSET Flows, Ensure(S)
  PROVE  /\ infra' \subseteq Objects /\ jm' \subseteq Flows
         /\ infra \subseteq infra' /\ jm \subseteq jm'
         /\ faults' \in 0 .. MaxFaults
<1>1. faults' \in 0 .. MaxFaults
  BY ControllerAssumption DEF Ensure, NoFault, Fault, TypeOK
<1> QED
  BY <1>1, InfraType DEF Ensure

\* Ages stay ages when they are looked at or grow older.
LEMMA AgeType == ASSUME NEW age \in Ages PROVE Marked(age) \in Ages /\ Older(age) \in Ages
BY ControllerAssumption DEF Ages, NoMark, Marked, Older

\* The snapshots of a replica that has returned from reconcile are empty.
LEMMA ForgetType ==
  ASSUME TypeOK, NEW c \in Controllers, Forget(c)
  PROVE  /\ peers' \in [Controllers -> PeerLists] /\ seen' \in [Controllers -> SUBSET Flows]
         /\ act' \in [Controllers -> SUBSET Flows] /\ ok' \in [Controllers -> BOOLEAN]
<1>1. ok' \in [Controllers -> BOOLEAN]
  BY Zenon DEF TypeOK, Forget
<1> QED
  BY <1>1 DEF TypeOK, Forget, PeerLists

\* Every step preserves the types.
LEMMA TypeStep == TypeOK /\ [Next]_vars => TypeOK'
<1> SUFFICES ASSUME TypeOK, [Next]_vars PROVE TypeOK'
  OBVIOUS
<1> USE ControllerAssumption DEF runtime, snapshot, triggers
<1>1. /\ <<>> \in PeerLists /\ DiscoverPeers \in PeerLists
      /\ NoMarks \in [Keys -> Ages]
  <2>1. DiscoverPeers = Ready(up) /\ up \in SUBSET Controllers
    BY DEF DiscoverPeers, Ready, TypeOK
  <2>2. NoMarks \in [Keys -> Ages]
    BY DEF NoMarks, NoMark, Ages
  <2> QED
    BY <2>1, <2>2 DEF PeerLists
<1>2. ASSUME NEW c \in Controllers, ListFlows(c) PROVE TypeOK'
  <2>1. CASE Step(c, "idle", "idle") /\ Fault /\ Forget(c)
    BY <1>2, <2>1, ForgetType DEF TypeOK, ListFlows, Step, Fault
  <2>2. CASE /\ Step(c, "idle", "collect") /\ GetPeers(c)
             /\ seen' = [seen EXCEPT ![c] = defined] /\ UNCHANGED <<act, ok>>
    BY <1>1, <1>2, <2>2 DEF TypeOK, ListFlows, Step, Fault, NoFault, GetPeers
  <2> QED
    BY <1>2, <2>1, <2>2 DEF ListFlows
<1>3. ASSUME NEW c \in Controllers, CollectActiveRunFlows(c) PROVE TypeOK'
  <2>1. ok' \in [Controllers -> BOOLEAN]
    BY <1>3, Zenon DEF TypeOK, CollectActiveRunFlows
  <2> QED
    BY <1>3, <2>1 DEF TypeOK, CollectActiveRunFlows, Step, Fault, NoFault, Owned
<1>4. ASSUME NEW c \in Controllers, DispatchOwned(c) PROVE TypeOK'
  <2>1. Owned(c, seen[c]) \subseteq Flows
    BY DEF TypeOK, Owned
  <2>2. infra' \subseteq Objects /\ jm' \subseteq Flows /\ faults' \in 0 .. MaxFaults
    BY <1>4, <2>1, EnsureType DEF DispatchOwned, EnsureActive
  <2> QED
    BY <1>4, <2>1, <2>2 DEF TypeOK, DispatchOwned, RegisterAgentFlows, Step
<1>5. ASSUME NEW c \in Controllers, GcOrphanedJMDeployments(c) PROVE TypeOK'
  <2>1. /\ jm' \subseteq Flows /\ tm' \subseteq Flows
        /\ pc' \in [Controllers -> {"idle", "collect", "ensure", "gcjm", "gcrt"}]
        /\ faults' \in 0 .. MaxFaults
        /\ UNCHANGED <<up, defined, active, infra, pods, snapshot, triggers>>
    <3>1. /\ jm' \subseteq jm /\ tm' \subseteq tm /\ (Fault \/ NoFault)
      BY <1>5 DEF GcOrphanedJMDeployments
    <3> QED
      BY <1>5, <3>1 DEF TypeOK, GcOrphanedJMDeployments, Step, Fault, NoFault
  <2>2. mark' \in [Controllers -> [Keys -> Ages]]
    <3> DEFINE mine == Owned(c, jm)
               doomed == {f \in mine : JMExpired(c, f)}
               m(failed) == [k \in Keys |->
                 CASE k[1] = "jm" /\ k[2] \in mine \ failed -> JMMark(c, k[2])
                   [] k[1] = "jm" /\ k[2] \in failed /\ k[2] \in seen[c] -> Marked(mark[c][k])
                   [] k[1] = "tm" /\ k[2] \in DeleteRuntimeDeploymentsForFlow(doomed \ failed) -> NoMark
                   [] OTHER -> mark[c][k]]
    <3>1. mark' = mark \/ \E failed \in SUBSET doomed : mark' = [mark EXCEPT ![c] = m(failed)]
      BY <1>5 DEF GcOrphanedJMDeployments
    <3>2. NoMark \in Ages
      BY DEF NoMark, Ages
    <3>3. \A k \in Keys : mark[c][k] \in Ages /\ Marked(mark[c][k]) \in Ages
      BY AgeType DEF TypeOK
    <3>4. \A f \in Flows : JMMark(c, f) \in Ages
      <4>1. \A f \in Flows : <<"jm", f>> \in Keys
        BY DEF Keys
      <4> QED
        BY <3>2, <3>3, <4>1 DEF JMMark
    <3>5. \A failed : m(failed) \in [Keys -> Ages]
      <4>1. \A k \in Keys : k[2] \in Flows
        BY DEF Keys
      <4> HIDE DEF mine, doomed
      <4> QED
        BY <3>2, <3>3, <3>4, <4>1
    <3> HIDE DEF m
    <3> QED
      BY <3>1, <3>5 DEF TypeOK
  <2> QED
    BY <2>1, <2>2 DEF TypeOK
<1>6. ASSUME NEW c \in Controllers, GcOrphanedRuntimeDeployments(c) PROVE TypeOK'
  <2>1. /\ tm' \subseteq Flows
        /\ pc' \in [Controllers -> {"idle", "collect", "ensure", "gcjm", "gcrt"}]
        /\ faults' \in 0 .. MaxFaults /\ Forget(c)
        /\ UNCHANGED <<up, defined, active, infra, jm, pods, triggers>>
    BY <1>6 DEF TypeOK, GcOrphanedRuntimeDeployments, Step, Fault, NoFault
  <2>2. mark' \in [Controllers -> [Keys -> Ages]]
    <3>1. \A k \in Keys : mark[c][k] \in Ages /\ Marked(mark[c][k]) \in Ages
      BY AgeType DEF TypeOK
    <3> DEFINE mine == Owned(c, tm)
               doomed == {f \in mine \ jm : RuntimeExpired(c, f)}
               m(failed) == [k \in Keys |->
                 CASE k[1] = "tm" /\ k[2] \in (mine \cap jm) \cup (doomed \ failed) -> NoMark
                   [] k[1] = "tm" /\ k[2] \in mine \ (jm \cup doomed) -> Marked(mark[c][k])
                   [] k[1] = "tm" /\ k[2] \in failed /\ k[2] \in seen[c] /\ ~Idle(c, k[2])
                        -> Marked(mark[c][k])
                   [] OTHER -> mark[c][k]]
    <3>2. mark' = mark \/ \E failed \in SUBSET doomed : mark' = [mark EXCEPT ![c] = m(failed)]
      BY <1>6 DEF GcOrphanedRuntimeDeployments
    <3>3. \A failed : m(failed) \in [Keys -> Ages]
      <4>1. NoMark \in Ages
        BY DEF NoMark, Ages
      <4> HIDE DEF mine, doomed
      <4> QED
        BY <3>1, <4>1
    <3> HIDE DEF m
    <3> QED
      BY <3>2, <3>3 DEF TypeOK
  <2> QED
    BY <2>1, <2>2, ForgetType DEF TypeOK
<1>7. ASSUME NEW c \in Controllers, Crash(c) \/ Restart(c) PROVE TypeOK'
  <2>1. CASE Crash(c)
    BY <1>1, <2>1, ForgetType DEF TypeOK, Crash, Fault
  <2>2. CASE Restart(c)
    BY <2>2 DEF TypeOK, Restart
  <2> QED
    BY <1>7, <2>1, <2>2
<1>8. ASSUME NEW c \in Controllers, NEW f \in Flows, TriggerScheduledRun(c, f) PROVE TypeOK'
  <2>1. CASE active' = active \cup {f} /\ Ensure({f})
    <3>1. infra' \subseteq Objects /\ jm' \subseteq Flows /\ faults' \in 0 .. MaxFaults
      BY <2>1, EnsureType
    <3> QED
      BY <1>8, <2>1, <3>1 DEF TypeOK, TriggerScheduledRun
  <2>2. CASE UNCHANGED active /\ Fault /\ EnsureApplicationInfra({f}, {})
    <3>1. infra' \subseteq Objects /\ jm' \subseteq Flows
      BY <2>2, InfraType
    <3> QED
      BY <1>8, <2>2, <3>1 DEF TypeOK, TriggerScheduledRun, Fault
  <2> QED
    BY <1>8, <2>1, <2>2 DEF TriggerScheduledRun
<1>9. ASSUME NEW f \in Flows, EndRun(f) \/ Kubelet(f) \/ StartRuntime(f) \/ LoseJM(f) PROVE TypeOK'
  BY <1>9 DEF TypeOK, EndRun, Kubelet, StartRuntime, LoseJM, Fault
<1>10. CASE UserStep
  BY <1>10 DEF TypeOK, UserStep
<1>11. CASE ClockTick
  <2>1. mark' \in [Controllers -> [Keys -> Ages]]
    BY <1>11, AgeType DEF TypeOK, ClockTick
  <2> QED
    BY <1>11, <2>1 DEF TypeOK, ClockTick
<1>12. CASE UNCHANGED vars
  BY <1>12 DEF TypeOK, vars
<1> QED
  BY <1>2, <1>3, <1>4, <1>5, <1>6, <1>7, <1>8, <1>9, <1>10, <1>11, <1>12, NextCases

\* The controllers, their snapshots and the cluster only hold well-typed state.
THEOREM TypeCorrect == Spec => []TypeOK
<1>1. Init => TypeOK
  BY ControllerAssumption DEF Init, TypeOK, PeerLists, NoMarks, NoMark, Ages
<1> QED
  BY <1>1, TypeStep, PTL DEF Spec
-----------------------------------------------------------------------------
(***************************************************************************)
(* The inductive invariant behind the sharding of cron triggers: a replica *)
(* only holds entries it owns according to the list it registered them     *)
(* from, and a list gives a flow to one replica.                           *)
(***************************************************************************)
OwnerIn(list, f) == list[ShardIndex(f, Len(list)) + 1]

CronOwned ==
    \A c \in Controllers : \A f \in cron[c] :
      f \in Scheduled /\ (view[c] = <<>> \/ OwnerIn(view[c], f) = c)

\* Triggers are only replaced as a whole, by a registration or by a crash.
LEMMA CronStep == TypeOK /\ CronOwned /\ [Next]_vars => CronOwned'
<1> SUFFICES ASSUME TypeOK, CronOwned, [Next]_vars PROVE CronOwned'
  OBVIOUS
<1>1. CASE UNCHANGED triggers
  BY <1>1 DEF CronOwned, triggers
<1>2. ASSUME NEW c \in Controllers, DispatchOwned(c) PROVE CronOwned'
  <2>1. /\ cron' = [cron EXCEPT ![c] = Owned(c, seen[c]) \cap Scheduled]
        /\ view' = [view EXCEPT ![c] = peers[c]]
    BY <1>2 DEF DispatchOwned, RegisterAgentFlows
  <2>2. \A f \in Owned(c, seen[c]) : peers[c] = <<>> \/ OwnerIn(peers[c], f) = c
    BY DEF Owned, OwnsFlow, OwnerIn
  <2> QED
    BY <2>1, <2>2 DEF CronOwned, TypeOK
<1>3. ASSUME NEW c \in Controllers, Crash(c) PROVE CronOwned'
  BY <1>3 DEF Crash, CronOwned, TypeOK
<1> QED
  BY <1>1, <1>2, <1>3, NextCases
  DEF ListFlows, CollectActiveRunFlows, GcOrphanedJMDeployments, GcOrphanedRuntimeDeployments,
      Restart, TriggerScheduledRun, EndRun, Kubelet, StartRuntime, LoseJM, UserStep, ClockTick,
      vars, triggers

\* Two replicas hold a cron entry of the same flow only when they registered it
\* from different peer lists, or from an empty one.
THEOREM CronSharded == Spec => []CronDuplicatesNeedStaleView
<1>1. Init => CronOwned
  BY DEF Init, CronOwned
<1>2. CronOwned => CronDuplicatesNeedStaleView
  BY DEF CronOwned, CronDuplicatesNeedStaleView
<1> QED
  BY <1>1, <1>2, CronStep, TypeCorrect, PTL DEF Spec
-----------------------------------------------------------------------------
(***************************************************************************)
(* What pods stand on.  The objects of the namespace are created before    *)
(* the Deployment whose pod mounts them, but their errors are only logged; *)
(* nothing ever deletes them, so a pod that has started keeps them.        *)
(***************************************************************************)
PodsMounted == pods # {} => infra = Objects

\* No step removes an object of the namespace: ensureApplicationInfra only
\* creates, and neither garbage collector touches them.
THEOREM InfraIsKept == Spec => [][infra \subseteq infra']_vars
<1>1. TypeOK /\ [Next]_vars => infra \subseteq infra'
  <2> SUFFICES ASSUME TypeOK, [Next]_vars PROVE infra \subseteq infra'
    OBVIOUS
  <2>1. ASSUME NEW c \in Controllers, DispatchOwned(c) PROVE infra \subseteq infra'
    <3>1. Owned(c, seen[c]) \subseteq Flows
      BY DEF TypeOK, Owned
    <3> QED
      BY <2>1, <3>1, EnsureType DEF DispatchOwned, EnsureActive
  <2>2. ASSUME NEW c \in Controllers, NEW f \in Flows, TriggerScheduledRun(c, f)
        PROVE  infra \subseteq infra'
    BY <2>2, EnsureType, InfraType DEF TriggerScheduledRun
  <2> QED
    BY <2>1, <2>2, NextCases
    DEF ListFlows, CollectActiveRunFlows, GcOrphanedJMDeployments, GcOrphanedRuntimeDeployments,
        Crash, Restart, EndRun, Kubelet, StartRuntime, LoseJM, UserStep, ClockTick, vars, runtime
<1> QED
  BY <1>1, TypeCorrect, PTL DEF Spec

\* The pod of a JobManager runs only in a namespace with its ConfigMap and its
\* service account, although each of these calls may have failed.
THEOREM PodsAreMounted == Spec => []PodsMounted
<1>1. Init => PodsMounted
  BY DEF Init, PodsMounted
<1>2. TypeOK /\ TypeOK' /\ PodsMounted /\ [Next]_vars /\ [infra \subseteq infra']_vars => PodsMounted'
  <2> SUFFICES ASSUME TypeOK, TypeOK', PodsMounted, [Next]_vars, [infra \subseteq infra']_vars
               PROVE  PodsMounted'
    OBVIOUS
  <2>1. CASE pods' = pods
    BY <2>1 DEF PodsMounted, TypeOK, vars, runtime
  <2>2. ASSUME NEW f \in Flows, Kubelet(f) PROVE PodsMounted'
    BY <2>2 DEF Kubelet, PodsMounted
  <2> QED
    BY <2>1, <2>2, NextCases
    DEF ListFlows, CollectActiveRunFlows, DispatchOwned, GcOrphanedJMDeployments,
        GcOrphanedRuntimeDeployments, Crash, Restart, TriggerScheduledRun, EndRun, StartRuntime,
        LoseJM, UserStep, ClockTick, vars, runtime
<1> QED
  BY <1>1, <1>2, TypeCorrect, InfraIsKept, PTL DEF Spec
=============================================================================
