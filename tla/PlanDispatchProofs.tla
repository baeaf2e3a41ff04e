------------------------- MODULE PlanDispatchProofs -------------------------
(***************************************************************************)
(* Proofs about PlanDispatch, for any number of calls, keys, pods and      *)
(* faults.                                                                 *)
(***************************************************************************)
EXTENDS PlanDispatch, FiniteSetTheorems, TLAPS

\* The steps of Next, one by one.
LEMMA NextCases ==
  ASSUME [Next]_vars
  PROVE  \/ \E c \in Calls : \/ Begin(c) \/ ensureTaskManagerCapacity(c) \/ CapacityFailed(c)
                             \/ Register(c) \/ RegisterUnsubscribed(c)
                             \/ Publish(c) \/ PublishUnconnected(c)
                             \/ Receive(c) \/ Timeout(c) \/ Deliver(c)
         \/ \E c \in Calls, taken \in BOOLEAN : PublishUnacked(c, taken)
         \/ \E c \in Calls, t \in TMs, n \in 0..2 : Finish(c, t, n)
         \/ \E t \in TMs : PodAvailable(t) \/ Listen(t) \/ TMCrash(t) \/ TMDisconnect(t)
         \/ Disconnect
         \/ UNCHANGED vars
BY DEF Next, CallStep, FaultStep

\* The number of pods asked for is a natural number.
LEMMA TargetType == desiredTMCount(Cardinality(Active)) \in Nat
<1>1. Cardinality(Active) \in Nat
  BY CallsAssumption, FS_Subset, FS_CardinalityType DEF Active
<1>2. \A p \in Nat : (p + SlotsPerTM - 1) \div SlotsPerTM \in Nat
  BY ScaleAssumption
<1> QED
  BY <1>1, <1>2, ScaleAssumption DEF desiredTMCount

\* The broker hands out one more copy of a plan, or drops it.
LEMMA AcceptType ==
  ASSUME TypeOK, NEW c \in Calls, Accept(c)
  PROVE  work' \in [Calls \X TMs -> Nat] /\ unheard' \subseteq Calls
<1>1. CASE listening = {}
  BY <1>1 DEF TypeOK, Accept
<1>2. CASE listening # {}
  <2>1. PICK t \in listening : work' = [work EXCEPT ![<<c, t>>] = @ + 1]
    BY <1>2 DEF Accept
  <2>2. <<c, t>> \in Calls \X TMs /\ work[<<c, t>>] + 1 \in Nat
    BY <2>1 DEF TypeOK
  <2>3. work' \in [Calls \X TMs -> Nat]
    BY <2>1, <2>2 DEF TypeOK
  <2> QED
    BY <1>2, <2>3 DEF TypeOK, Accept
<1> QED
  BY <1>1, <1>2

\* Every step preserves the types.
LEMMA TypeStep == TypeOK /\ [Next]_vars => TypeOK'
<1> SUFFICES ASSUME TypeOK, [Next]_vars PROVE TypeOK'
  OBVIOUS
<1> USE FaultsAssumption, KeysAssumption
    DEF TypeOK, callVars, routeVars, connVars, podVars, msgVars, histVars, Fault,
        GoTo, Return, RunOfCall
<1>1. ASSUME NEW c \in Calls, Begin(c) PROVE TypeOK'
  BY <1>1 DEF Begin
<1>2. ASSUME NEW c \in Calls, ensureTaskManagerCapacity(c) PROVE TypeOK'
  BY <1>2, TargetType DEF ensureTaskManagerCapacity
<1>3. ASSUME NEW c \in Calls, CapacityFailed(c) PROVE TypeOK'
  BY <1>3 DEF CapacityFailed
<1>4. ASSUME NEW c \in Calls, Register(c) PROVE TypeOK'
  <2>1. routed' \subseteq Runs /\ connected' \in BOOLEAN /\ subs' \subseteq routed'
    <3>1. CASE RunOfCall(c) \in routed
      BY <1>4, <3>1 DEF Register
    <3>2. CASE RunOfCall(c) \notin routed
      BY <1>4, <3>2 DEF Register, Subscribe
    <3> QED
      BY <3>1, <3>2
  <2> QED
    BY <1>4, <2>1 DEF Register, Rivals
<1>5. ASSUME NEW c \in Calls, RegisterUnsubscribed(c) PROVE TypeOK'
  BY <1>5 DEF RegisterUnsubscribed, Rivals, Dial
<1>6. ASSUME NEW c \in Calls, Publish(c) PROVE TypeOK'
  <2>1. work' \in [Calls \X TMs -> Nat] /\ unheard' \subseteq Calls
    BY <1>6, AcceptType DEF Publish
  <2> QED
    BY <1>6, <2>1 DEF Publish
<1>7. ASSUME NEW c \in Calls, PublishUnconnected(c) PROVE TypeOK'
  BY <1>7 DEF PublishUnconnected, Unregister
<1>8. ASSUME NEW c \in Calls, Receive(c) PROVE TypeOK'
  BY <1>8 DEF Receive
<1>9. ASSUME NEW c \in Calls, Timeout(c) PROVE TypeOK'
  BY <1>9 DEF Timeout, Unregister
<1>10. ASSUME NEW c \in Calls, Deliver(c) PROVE TypeOK'
  BY <1>10 DEF Deliver
<1>11. ASSUME NEW c \in Calls, NEW taken \in BOOLEAN, PublishUnacked(c, taken) PROVE TypeOK'
  <2>1. work' \in [Calls \X TMs -> Nat] /\ unheard' \subseteq Calls
    <3>1. CASE taken
      BY <1>11, <3>1, AcceptType DEF PublishUnacked
    <3>2. CASE ~taken
      BY <1>11, <3>2 DEF PublishUnacked
    <3> QED
      BY <3>1, <3>2
  <2>2. results' \in [Calls -> Nat]
    BY <1>11 DEF PublishUnacked, Redial, Dial, LoseResults
  <2>3. connected' \in BOOLEAN /\ subs' \subseteq routed' /\ routed' = routed
    BY <1>11 DEF PublishUnacked, Redial, Dial
  <2>4. /\ pc' \in [Calls -> {"idle", "capacity", "ready", "publish", "retry", "wait", "returned"}]
        /\ ret' \in [Calls -> {"none", "result", "error"}]
        /\ chan' \in [Keys -> Calls \cup {None}]
    <3>1. CASE pc[c] = "publish"
      BY <1>11, <3>1 DEF PublishUnacked
    <3>2. CASE pc[c] = "retry"
      BY <1>11, <3>2 DEF PublishUnacked, Unregister
    <3> QED
      BY <1>11, <3>1, <3>2 DEF PublishUnacked
  <2>5. faults' \in 0..MaxFaults
    BY <1>11 DEF PublishUnacked
  <2>6. UNCHANGED <<need, box, routed, replicas, available, listening, overlapped>>
    BY <1>11 DEF PublishUnacked
  <2> QED
    BY <2>1, <2>2, <2>3, <2>4, <2>5, <2>6, Zenon
<1>12. ASSUME NEW c \in Calls, NEW t \in TMs, NEW n \in 0..2, Finish(c, t, n) PROVE TypeOK'
  BY <1>12 DEF Finish, Forwarded
<1>13. ASSUME NEW t \in TMs, PodAvailable(t) \/ Listen(t) PROVE TypeOK'
  BY <1>13 DEF PodAvailable, Listen
<1>14. ASSUME NEW t \in TMs, TMCrash(t) \/ TMDisconnect(t) PROVE TypeOK'
  <2>1. \A lost : LoseWork(t, lost) => work' \in [Calls \X TMs -> Nat]
    BY DEF LoseWork
  <2>2. CASE TMCrash(t)
    BY <2>1, <2>2 DEF TMCrash
  <2>3. CASE TMDisconnect(t)
    BY <2>1, <2>3 DEF TMDisconnect
  <2> QED
    BY <1>14, <2>2, <2>3
<1>15. CASE Disconnect
  <2>1. results' \in [Calls -> Nat] /\ faults' \in 0..MaxFaults
    BY <1>15 DEF Disconnect, LoseResults
  <2>2. connected' = FALSE /\ subs' = {}
    BY <1>15 DEF Disconnect
  <2>3. UNCHANGED <<callVars, routeVars, routed, podVars, work, histVars>>
    BY <1>15 DEF Disconnect
  <2> QED
    BY <2>1, <2>2, <2>3
<1>16. CASE UNCHANGED vars
  BY <1>16 DEF vars
<1> QED
  BY <1>1, <1>2, <1>3, <1>4, <1>5, <1>6, <1>7, <1>8, <1>9, <1>10, <1>11, <1>12, <1>13,
     <1>14, <1>15, <1>16, NextCases

\* The state of Schedule, of the client and of the pods is well-typed.
THEOREM TypeCorrect == Spec => []TypeOK
<1>1. Init => TypeOK
  BY FaultsAssumption, ScaleAssumption DEF Init, TypeOK
<1> QED
  BY <1>1, TypeStep, PTL DEF Spec
-----------------------------------------------------------------------------
(***************************************************************************)
(* The inductive invariant of the result channels.  Beside the two         *)
(* properties it says that a channel is empty before it is registered, and *)
(* that calls registered for one key at a time are known to overlap.       *)
(***************************************************************************)
EmptyBefore ==
  \A c \in Calls : box[c] # None => pc[c] \in Registered \cup {"returned"}

OverlapIsSeen ==
  \A c, d \in Calls :
    /\ c # d /\ KeyOf[c] = KeyOf[d]
    /\ pc[c] \in Registered /\ pc[d] \in Registered
    => c \in overlapped

Routing ==
  RegistrationIsLive /\ WaiterIsRegistered /\ EmptyBefore /\ OverlapIsSeen

\* What the steps of Schedule do to the channels: a call registers, leaves
\* without an answer, takes its answer, or neither.
Enters(c) ==
  /\ pc[c] = "ready" /\ GoTo(c, "publish")
  /\ chan' = [chan EXCEPT ![KeyOf[c]] = c]
  /\ overlapped' = IF Rivals(c) = {} THEN overlapped ELSE overlapped \cup Rivals(c) \cup {c}
  /\ UNCHANGED box

Leaves(c) ==
  /\ pc[c] \in Registered /\ GoTo(c, "returned")
  /\ Unregister(c)
  /\ UNCHANGED <<box, overlapped>>

Takes(c) ==
  /\ pc[c] = "wait" /\ box[c] # None /\ GoTo(c, "returned")
  /\ UNCHANGED <<chan, box, overlapped>>

Quiet ==
  /\ UNCHANGED <<chan, box, overlapped>>
  /\ \A c \in Calls : /\ pc'[c] \in Registered <=> pc[c] \in Registered
                      /\ pc[c] = "returned" => pc'[c] = "returned"

\* Every step does one of these things, or delivers a result.
LEMMA RoutingCases ==
  ASSUME TypeOK, [Next]_vars
  PROVE  \/ \E c \in Calls : Enters(c) \/ Leaves(c) \/ Takes(c) \/ Deliver(c)
         \/ Quiet
<1> USE DEF TypeOK, Registered, callVars, routeVars, histVars, GoTo, Return, Quiet
<1>1. ASSUME NEW c \in Calls, Begin(c) \/ ensureTaskManagerCapacity(c) \/ CapacityFailed(c)
      PROVE  Quiet
  <2>1. CASE Begin(c)
    BY <2>1 DEF Begin
  <2>2. CASE ensureTaskManagerCapacity(c)
    BY <2>2 DEF ensureTaskManagerCapacity
  <2>3. CASE CapacityFailed(c)
    BY <2>3 DEF CapacityFailed
  <2> QED
    BY <1>1, <2>1, <2>2, <2>3
<1>2. ASSUME NEW c \in Calls, Register(c) \/ RegisterUnsubscribed(c) PROVE Enters(c)
  BY <1>2 DEF Register, RegisterUnsubscribed, Enters
<1>3. ASSUME NEW c \in Calls, Publish(c) PROVE Quiet
  BY <1>3 DEF Publish
<1>4. ASSUME NEW c \in Calls, PublishUnconnected(c) \/ Timeout(c) PROVE Leaves(c)
  BY <1>4 DEF PublishUnconnected, Timeout, Leaves
<1>5. ASSUME NEW c \in Calls, Receive(c) PROVE Takes(c)
  BY <1>5 DEF Receive, Takes
<1>6. ASSUME NEW c \in Calls, NEW taken \in BOOLEAN, PublishUnacked(c, taken)
      PROVE  Quiet \/ Leaves(c)
  <2>1. CASE pc[c] = "publish"
    BY <1>6, <2>1 DEF PublishUnacked
  <2>2. CASE pc[c] = "retry"
    BY <1>6, <2>2 DEF PublishUnacked, Leaves
  <2> QED
    BY <1>6, <2>1, <2>2 DEF PublishUnacked
<1>7. ASSUME NEW c \in Calls, NEW t \in TMs, NEW n \in 0..2, Finish(c, t, n) PROVE Quiet
  BY <1>7 DEF Finish
<1>8. ASSUME NEW t \in TMs, PodAvailable(t) \/ Listen(t) \/ TMCrash(t) \/ TMDisconnect(t)
      PROVE  Quiet
  BY <1>8 DEF PodAvailable, Listen, TMCrash, TMDisconnect
<1>9. CASE Disconnect
  BY <1>9 DEF Disconnect
<1>10. CASE UNCHANGED vars
  BY <1>10 DEF vars
<1> QED
  BY <1>1, <1>2, <1>3, <1>4, <1>5, <1>6, <1>7, <1>8, <1>9, <1>10, NextCases

\* Every step preserves the invariant of the channels.
LEMMA RoutingStep == TypeOK /\ Routing /\ [Next]_vars => Routing'
<1> SUFFICES ASSUME TypeOK, Routing, [Next]_vars PROVE Routing'
  OBVIOUS
<1> USE NoneAssumption, KeysAssumption
    DEF TypeOK, Routing, RegistrationIsLive, WaiterIsRegistered, EmptyBefore,
        OverlapIsSeen, Registered
<1>1. ASSUME NEW c \in Calls, Enters(c) PROVE Routing'
  <2> USE <1>1 DEF Enters, GoTo, Rivals
  <2>1. RegistrationIsLive'
    OBVIOUS
  <2>2. EmptyBefore'
    OBVIOUS
  <2>3. \A d \in Calls : d # c /\ KeyOf[d] = KeyOf[c] /\ pc[d] \in Registered
                           => d \in overlapped' /\ c \in overlapped'
    OBVIOUS
  <2>4. overlapped \subseteq overlapped'
    OBVIOUS
  <2>5. WaiterIsRegistered'
    BY <2>3, <2>4
  <2>6. OverlapIsSeen'
    BY <2>3, <2>4
  <2> QED
    BY <2>1, <2>2, <2>5, <2>6
<1>2. ASSUME NEW c \in Calls, Leaves(c) PROVE Routing'
  BY <1>2 DEF Leaves, GoTo, Unregister
<1>3. ASSUME NEW c \in Calls, Takes(c) PROVE Routing'
  BY <1>3 DEF Takes, GoTo
<1>4. ASSUME NEW c \in Calls, Deliver(c) PROVE Routing'
  BY <1>4 DEF Deliver, callVars, routeVars, histVars
<1>5. CASE Quiet
  BY <1>5 DEF Quiet
<1> QED
  BY <1>1, <1>2, <1>3, <1>4, <1>5, RoutingCases

\* The channels start empty.
LEMMA RoutingInit == Init => Routing
BY NoneAssumption
DEF Init, Routing, RegistrationIsLive, WaiterIsRegistered, EmptyBefore, OverlapIsSeen,
    Registered

\* No path of Schedule leaves a registration behind (RegistrationIsLive).
THEOREM RegistrationLive == Spec => []RegistrationIsLive
<1>1. Routing => RegistrationIsLive
  BY DEF Routing
<1> QED
  BY <1>1, TypeCorrect, RoutingInit, RoutingStep, PTL DEF Spec

\* A call that is alone with its key stays reachable (WaiterIsRegistered).
THEOREM WaiterRegistered == Spec => []WaiterIsRegistered
<1>1. Routing => WaiterIsRegistered
  BY DEF Routing
<1> QED
  BY <1>1, TypeCorrect, RoutingInit, RoutingStep, PTL DEF Spec
-----------------------------------------------------------------------------
(***************************************************************************)
(* Nothing is lost.  Until the first fault the broker forwards the results *)
(* of every routed run, and every registered call's run is routed; plans   *)
(* and results only exist for calls that published.                        *)
(***************************************************************************)
Published == {"retry", "wait", "returned"}

RunsAreRouted == \A c \in Calls : pc[c] \in Registered => RunOfCall(c) \in routed

SoundConnection == faults = 0 => connected = TRUE /\ subs = routed

OnlyPublished ==
  \A c \in Calls :
    /\ results[c] > 0 => pc[c] \in Published
    /\ \A t \in TMs : work[<<c, t>>] > 0 => pc[c] \in Published

\* The run of a call is a run.
LEMMA RunType == ASSUME NEW c \in Calls PROVE RunOfCall(c) \in Runs
BY KeysAssumption DEF RunOfCall

\* A registered call's run stays routed: the first call of a run routes it.
LEMMA RoutedStep == TypeOK /\ RunsAreRouted /\ [Next]_vars => RunsAreRouted'
<1> SUFFICES ASSUME TypeOK, RunsAreRouted, [Next]_vars,
                    NEW e \in Calls, pc'[e] \in Registered
             PROVE  RunOfCall(e) \in routed'
  BY DEF RunsAreRouted, RunOfCall
<1> USE DEF TypeOK, RunsAreRouted, callVars, connVars, GoTo, Return, Registered
<1>1. CASE UNCHANGED <<pc, routed>>
  BY <1>1
<1>2. ASSUME NEW c \in Calls,
             \/ Begin(c) \/ ensureTaskManagerCapacity(c) \/ CapacityFailed(c)
             \/ Publish(c) \/ PublishUnconnected(c) \/ Receive(c) \/ Timeout(c)
      PROVE  RunOfCall(e) \in routed'
  BY <1>2 DEF Begin, ensureTaskManagerCapacity, CapacityFailed, Publish,
              PublishUnconnected, Receive, Timeout
<1>3. ASSUME NEW c \in Calls, Register(c) PROVE RunOfCall(e) \in routed'
  <2>1. CASE RunOfCall(c) \in routed
    BY <1>3, <2>1 DEF Register
  <2>2. CASE RunOfCall(c) \notin routed
    BY <1>3, <2>2 DEF Register, Subscribe
  <2> QED
    BY <2>1, <2>2
<1>4. ASSUME NEW c \in Calls, RegisterUnsubscribed(c) PROVE RunOfCall(e) \in routed'
  BY <1>4 DEF RegisterUnsubscribed
<1>5. ASSUME NEW c \in Calls, NEW taken \in BOOLEAN, PublishUnacked(c, taken)
      PROVE  RunOfCall(e) \in routed'
  <2>1. pc'[e] = pc[e] \/ pc[e] \in {"publish", "retry"}
    BY <1>5 DEF PublishUnacked
  <2>2. routed' = routed
    BY <1>5 DEF PublishUnacked
  <2> QED
    BY <2>1, <2>2
<1>6. ASSUME NEW c \in Calls, Deliver(c) PROVE RunOfCall(e) \in routed'
  BY <1>6 DEF Deliver
<1>7. ASSUME NEW c \in Calls, NEW t \in TMs, NEW n \in 0..2, Finish(c, t, n)
      PROVE  RunOfCall(e) \in routed'
  BY <1>7 DEF Finish
<1>8. ASSUME NEW t \in TMs, PodAvailable(t) \/ Listen(t) \/ TMCrash(t) \/ TMDisconnect(t)
      PROVE  RunOfCall(e) \in routed'
  BY <1>8 DEF PodAvailable, Listen, TMCrash, TMDisconnect
<1>9. CASE Disconnect
  BY <1>9 DEF Disconnect
<1>10. CASE UNCHANGED vars
  BY <1>10 DEF vars
<1> QED
  BY <1>1, <1>2, <1>3, <1>4, <1>5, <1>6, <1>7, <1>8, <1>9, <1>10, NextCases

\* Without a fault the connection and its subscriptions stay sound.
LEMMA ConnectionStep == TypeOK /\ SoundConnection /\ [Next]_vars => SoundConnection'
<1> SUFFICES ASSUME TypeOK, SoundConnection, [Next]_vars, faults' = 0
             PROVE  connected' = TRUE /\ subs' = routed'
  BY DEF SoundConnection
<1> USE DEF TypeOK, SoundConnection, connVars, Fault
<1>1. ASSUME NEW c \in Calls, Register(c) PROVE connected' = TRUE /\ subs' = routed'
  <2>1. faults = 0 /\ connected = TRUE /\ subs = routed
    BY <1>1 DEF Register
  <2>2. CASE RunOfCall(c) \in routed
    BY <1>1, <2>1, <2>2 DEF Register
  <2>3. CASE RunOfCall(c) \notin routed
    BY <1>1, <2>1, <2>3 DEF Register, Subscribe
  <2> QED
    BY <2>2, <2>3
<1>2. ASSUME NEW c \in Calls, Publish(c) PROVE connected' = TRUE /\ subs' = routed'
  BY <1>2 DEF Publish
<1>3. CASE UNCHANGED <<routed, connected, subs, faults>>
  BY <1>3
<1>4. ASSUME NEW c \in Calls,
             \/ Begin(c) \/ ensureTaskManagerCapacity(c) \/ CapacityFailed(c)
             \/ RegisterUnsubscribed(c) \/ PublishUnconnected(c) \/ Receive(c)
             \/ Timeout(c) \/ Deliver(c)
      PROVE  UNCHANGED <<routed, connected, subs, faults>> \/ faults' > 0
  BY <1>4 DEF Begin, ensureTaskManagerCapacity, CapacityFailed, RegisterUnsubscribed,
              PublishUnconnected, Receive, Timeout, Deliver
<1>5. ASSUME NEW c \in Calls, NEW taken \in BOOLEAN, PublishUnacked(c, taken)
      PROVE  faults' > 0
  BY <1>5 DEF PublishUnacked
<1>6. ASSUME NEW c \in Calls, NEW t \in TMs, NEW n \in 0..2, Finish(c, t, n)
      PROVE  UNCHANGED <<routed, connected, subs, faults>> \/ faults' > 0
  BY <1>6 DEF Finish
<1>7. ASSUME NEW t \in TMs, PodAvailable(t) \/ Listen(t) \/ TMCrash(t) \/ TMDisconnect(t)
      PROVE  UNCHANGED <<routed, connected, subs, faults>> \/ faults' > 0
  BY <1>7 DEF PodAvailable, Listen, TMCrash, TMDisconnect
<1>8. CASE Disconnect
  BY <1>8 DEF Disconnect
<1>9. CASE UNCHANGED vars
  BY <1>9 DEF vars
<1>10. faults' > 0 => connected' = TRUE /\ subs' = routed'
  OBVIOUS
<1> HIDE DEF TypeOK, SoundConnection, connVars, Fault
<1> QED
  BY <1>1, <1>2, <1>3, <1>4, <1>5, <1>6, <1>7, <1>8, <1>9, <1>10, NextCases, Zenon

\* A call that published has published: it never goes back.
LEMMA PublishedStays ==
  ASSUME TypeOK, [Next]_vars, NEW e \in Calls, pc[e] \in Published
  PROVE  pc'[e] \in Published
<1> USE DEF TypeOK, Published, callVars, GoTo, Return
<1>1. ASSUME NEW c \in Calls,
             \/ Begin(c) \/ ensureTaskManagerCapacity(c) \/ CapacityFailed(c)
             \/ Register(c) \/ RegisterUnsubscribed(c) \/ Publish(c)
             \/ PublishUnconnected(c) \/ Receive(c) \/ Timeout(c) \/ Deliver(c)
      PROVE  pc'[e] \in Published
  BY <1>1 DEF Begin, ensureTaskManagerCapacity, CapacityFailed, Register,
              RegisterUnsubscribed, Publish, PublishUnconnected, Receive, Timeout, Deliver
<1>2. ASSUME NEW c \in Calls, NEW taken \in BOOLEAN, PublishUnacked(c, taken)
      PROVE  pc'[e] \in Published
  BY <1>2 DEF PublishUnacked
<1>3. ASSUME NEW c \in Calls, NEW t \in TMs, NEW n \in 0..2, Finish(c, t, n)
      PROVE  pc'[e] \in Published
  BY <1>3 DEF Finish
<1>4. ASSUME NEW t \in TMs, PodAvailable(t) \/ Listen(t) \/ TMCrash(t) \/ TMDisconnect(t)
      PROVE  pc'[e] \in Published
  BY <1>4 DEF PodAvailable, Listen, TMCrash, TMDisconnect
<1>5. CASE Disconnect
  BY <1>5 DEF Disconnect
<1>6. CASE UNCHANGED vars
  BY <1>6 DEF vars
<1> QED
  BY <1>1, <1>2, <1>3, <1>4, <1>5, <1>6, NextCases

\* A copy of a plan or of a result comes from an earlier copy or a publication.
LEMMA CopiesStep ==
  ASSUME TypeOK, [Next]_vars, NEW e \in Calls, pc'[e] \notin Published
  PROVE  /\ results'[e] > 0 => results[e] > 0 \/ \E t \in TMs : work[<<e, t>>] > 0
         /\ \A t \in TMs : work'[<<e, t>>] > 0 => work[<<e, t>>] > 0
<1> DEFINE Goal == /\ results'[e] > 0 => results[e] > 0 \/ \E t \in TMs : work[<<e, t>>] > 0
                   /\ \A t \in TMs : work'[<<e, t>>] > 0 => work[<<e, t>>] > 0
<1> USE DEF TypeOK, callVars, msgVars, GoTo, Return
<1>1. CASE UNCHANGED <<work, results>>
  BY <1>1
<1>2. ASSUME NEW c \in Calls,
             \/ Begin(c) \/ ensureTaskManagerCapacity(c) \/ CapacityFailed(c)
             \/ Register(c) \/ RegisterUnsubscribed(c)
             \/ PublishUnconnected(c) \/ Receive(c) \/ Timeout(c)
      PROVE  UNCHANGED <<work, results>>
  BY <1>2 DEF Begin, ensureTaskManagerCapacity, CapacityFailed, Register,
              RegisterUnsubscribed, PublishUnconnected, Receive, Timeout
<1>3. ASSUME NEW c \in Calls, Publish(c) PROVE Goal
  <2>1. e # c
    BY <1>3 DEF Publish, Published
  <2>2. \A t \in TMs : work'[<<e, t>>] = work[<<e, t>>]
    BY <1>3, <2>1 DEF Publish, Accept
  <2> QED
    BY <1>3, <2>2 DEF Publish
<1>4. ASSUME NEW c \in Calls, NEW taken \in BOOLEAN, PublishUnacked(c, taken) PROVE Goal
  <2>1. e # c
    BY <1>4 DEF PublishUnacked, Published
  <2>2. \A t \in TMs : work'[<<e, t>>] = work[<<e, t>>]
    <3>1. CASE taken
      BY <1>4, <2>1, <3>1 DEF PublishUnacked, Accept
    <3>2. CASE ~taken
      BY <1>4, <3>2 DEF PublishUnacked
    <3> QED
      BY <3>1, <3>2
  <2>3. results'[e] \in {0, results[e]}
    BY <1>4 DEF PublishUnacked, Redial, Dial, LoseResults
  <2> QED
    BY <2>2, <2>3
<1>5. ASSUME NEW c \in Calls, Deliver(c) PROVE Goal
  BY <1>5 DEF Deliver
<1>6. ASSUME NEW c \in Calls, NEW t \in TMs, NEW n \in 0..2, Finish(c, t, n) PROVE Goal
  <2>1. e # c => results'[e] = results[e]
    BY <1>6 DEF Finish
  <2>2. e = c => work[<<e, t>>] > 0
    BY <1>6 DEF Finish
  <2>3. \A s \in TMs : work'[<<e, s>>] > 0 => work[<<e, s>>] > 0
    BY <1>6 DEF Finish
  <2> QED
    BY <2>1, <2>2, <2>3
<1>7. ASSUME NEW t \in TMs, PodAvailable(t) \/ Listen(t) PROVE UNCHANGED <<work, results>>
  BY <1>7 DEF PodAvailable, Listen
<1>8. ASSUME NEW t \in TMs, TMCrash(t) \/ TMDisconnect(t) PROVE Goal
  <2>1. \E lost : LoseWork(t, lost)
    BY <1>8 DEF TMCrash, TMDisconnect
  <2>2. \A s \in TMs : work'[<<e, s>>] \in {0, work[<<e, s>>]}
    BY <2>1 DEF LoseWork
  <2>3. results' = results
    BY <1>8 DEF TMCrash, TMDisconnect
  <2> QED
    BY <2>2, <2>3
<1>9. CASE Disconnect
  BY <1>9 DEF Disconnect, LoseResults
<1>10. CASE UNCHANGED vars
  BY <1>10 DEF vars
<1> HIDE DEF Goal
<1>11. Goal
  BY <1>1, <1>2, <1>3, <1>4, <1>5, <1>6, <1>7, <1>8, <1>9, <1>10, NextCases DEF Goal, vars
<1> QED
  BY <1>11 DEF Goal

\* Plans and results only exist for calls that published.
LEMMA OnlyPublishedStep == TypeOK /\ OnlyPublished /\ [Next]_vars => OnlyPublished'
<1> SUFFICES ASSUME TypeOK, OnlyPublished, [Next]_vars,
                    NEW e \in Calls, pc'[e] \notin Published
             PROVE  /\ ~(results'[e] > 0)
                    /\ \A t \in TMs : ~(work'[<<e, t>>] > 0)
  BY DEF OnlyPublished
<1>1. pc[e] \notin Published
  BY PublishedStays
<1> QED
  BY <1>1, CopiesStep DEF OnlyPublished
-----------------------------------------------------------------------------
\* Only the registered call's channel is written, with a result for its key.
LEMMA AnswerStep ==
  TypeOK /\ Routing /\ OnlyPublished /\ AnswerMatchesKey /\ [Next]_vars => AnswerMatchesKey'
<1> SUFFICES ASSUME TypeOK, Routing, OnlyPublished, AnswerMatchesKey, [Next]_vars,
                    NEW e \in Calls, box'[e] # None
             PROVE  KeyOf[box'[e]] = KeyOf[e] /\ pc'[box'[e]] \in Published
  BY DEF AnswerMatchesKey, Published
<1> USE NoneAssumption, KeysAssumption DEF TypeOK
<1>1. CASE box'[e] = box[e]
  <2>1. box[e] \in Calls /\ KeyOf[box[e]] = KeyOf[e] /\ pc[box[e]] \in Published
    BY <1>1 DEF AnswerMatchesKey, Published
  <2> QED
    BY <1>1, <2>1, PublishedStays
<1>2. CASE box'[e] # box[e]
  <2>1. PICK c \in Calls : Deliver(c)
    BY <1>2, RoutingCases DEF Enters, Leaves, Takes, Quiet
  <2>2. e = chan[KeyOf[c]] /\ box'[e] = c
    BY <1>2, <2>1 DEF Deliver, routeVars
  <2>3. KeyOf[c] = KeyOf[e]
    BY <2>2 DEF Routing, RegistrationIsLive
  <2>4. pc[c] \in Published
    BY <2>1 DEF Deliver, OnlyPublished
  <2> QED
    BY <2>2, <2>3, <2>4, PublishedStays
<1> QED
  BY <1>1, <1>2

\* The initial state has no messages and a sound connection.
LEMMA DeliveryInit ==
  Init => OnlyPublished /\ AnswerMatchesKey /\ RunsAreRouted /\ SoundConnection /\ NothingLost
BY NoneAssumption
DEF Init, OnlyPublished, AnswerMatchesKey, RunsAreRouted, SoundConnection, NothingLost,
    Registered, Published

\* No call is answered with another node's or another run's result, nor with
\* one that nobody asked for (AnswerMatchesKey).
THEOREM AnswerMatches == Spec => []AnswerMatchesKey
BY TypeCorrect, RoutingInit, RoutingStep, DeliveryInit, OnlyPublishedStep, AnswerStep, PTL
DEF Spec
-----------------------------------------------------------------------------
\* Until the first fault, a waiting call's plan or result exists somewhere: a
\* publication creates a copy, an execution turns it into a result that is
\* forwarded, and a delivery of it reaches the call.
LEMMA NothingLostStep ==
  /\ TypeOK /\ Routing /\ RunsAreRouted /\ SoundConnection /\ NothingLost
  /\ [Next]_vars
  => NothingLost'
<1> SUFFICES ASSUME TypeOK, Routing, RunsAreRouted, SoundConnection, NothingLost,
                    [Next]_vars, faults' = 0,
                    NEW e \in Calls, e \notin unheard', e \notin overlapped',
                    pc'[e] = "wait", box'[e] = None
             PROVE  results'[e] > 0 \/ \E t \in TMs : work'[<<e, t>>] > 0
  BY DEF NothingLost
<1> DEFINE Somewhere == results[e] > 0 \/ \E t \in TMs : work[<<e, t>>] > 0
<1> USE DEF TypeOK, callVars, routeVars, connVars, podVars, msgVars, histVars, Fault,
            GoTo, Return
<1>1. ASSUME pc[e] = "wait", box[e] = None, faults = 0, e \notin unheard \cup overlapped
      PROVE  Somewhere
  BY <1>1 DEF NothingLost
<1>3. ASSUME NEW c \in Calls,
             Begin(c) \/ ensureTaskManagerCapacity(c) \/ PublishUnconnected(c) \/ Receive(c)
      PROVE  Somewhere'
  <2>1. /\ pc[e] = "wait"
        /\ UNCHANGED <<box, work, results, unheard, overlapped, faults>>
    BY <1>3 DEF Begin, ensureTaskManagerCapacity, PublishUnconnected, Receive
  <2> QED
    BY <1>1, <2>1
<1>4. ASSUME NEW c \in Calls, Register(c) PROVE Somewhere'
  <2>1. pc[e] = "wait" /\ overlapped \subseteq overlapped'
    BY <1>4 DEF Register
  <2>2. UNCHANGED <<box, work, results, unheard, faults>>
    BY <1>4 DEF Register
  <2> QED
    BY <1>1, <2>1, <2>2
<1>5. ASSUME NEW c \in Calls, Publish(c) PROVE Somewhere'
  <2>1. UNCHANGED <<box, results, overlapped, faults>> /\ unheard \subseteq unheard'
    BY <1>5 DEF Publish, Accept
  <2>2. CASE e = c
    <3>1. listening # {}
      BY <1>5, <2>2 DEF Publish, Accept
    <3>2. PICK t \in listening : work' = [work EXCEPT ![<<c, t>>] = @ + 1]
      BY <1>5, <3>1 DEF Publish, Accept
    <3>3. t \in TMs /\ work[<<c, t>>] \in Nat
      BY <3>2
    <3>4. work'[<<e, t>>] > 0
      BY <2>2, <3>2, <3>3
    <3> QED
      BY <3>3, <3>4
  <2>3. CASE e # c
    <3>1. \A t \in TMs : work'[<<e, t>>] = work[<<e, t>>]
      BY <1>5, <2>3 DEF Publish, Accept
    <3>2. pc[e] = "wait"
      BY <1>5, <2>3 DEF Publish
    <3> QED
      BY <1>1, <2>1, <3>1, <3>2
  <2> QED
    BY <2>2, <2>3
<1>6. ASSUME NEW c \in Calls, Deliver(c) PROVE Somewhere'
  <2>1. UNCHANGED <<pc, work, unheard, overlapped, faults>>
    BY <1>6 DEF Deliver
  <2>2. box[e] = None
    BY <1>6 DEF Deliver
  <2>3. chan[KeyOf[e]] = e
    BY <2>1, <2>2 DEF Routing, WaiterIsRegistered, Registered
  <2>4. e # c
    BY <1>6, <2>2, <2>3, NoneAssumption DEF Deliver
  <2>5. results'[e] = results[e]
    BY <1>6, <2>4 DEF Deliver
  <2> QED
    BY <1>1, <2>1, <2>2, <2>5
<1>7. ASSUME NEW c \in Calls, NEW t \in TMs, NEW n \in 0..2, Finish(c, t, n) PROVE Somewhere'
  <2>1. UNCHANGED <<pc, box, subs, unheard, overlapped, faults>> /\ n = 1
    BY <1>7 DEF Finish
  <2>2. CASE e = c
    <3>1. RunOfCall(e) \in subs
      BY <2>1 DEF RunsAreRouted, SoundConnection, Registered
    <3>2. results'[e] = results[e] + 1
      BY <1>7, <2>1, <2>2, <3>1 DEF Finish, Forwarded
    <3> QED
      BY <3>2
  <2>3. CASE e # c
    <3>1. results'[e] = results[e] /\ \A s \in TMs : work'[<<e, s>>] = work[<<e, s>>]
      BY <1>7, <2>3 DEF Finish
    <3> QED
      BY <1>1, <2>1, <3>1
  <2> QED
    BY <2>2, <2>3
<1>8. ASSUME NEW t \in TMs, PodAvailable(t) \/ Listen(t) PROVE Somewhere'
  <2>1. UNCHANGED <<pc, box, work, results, unheard, overlapped, faults>>
    BY <1>8 DEF PodAvailable, Listen
  <2> QED
    BY <1>1, <2>1
<1>9. ASSUME NEW c \in Calls, CapacityFailed(c) \/ RegisterUnsubscribed(c) \/ Timeout(c)
      PROVE  FALSE
  BY <1>9 DEF CapacityFailed, RegisterUnsubscribed, Timeout
<1>10. ASSUME NEW c \in Calls, NEW taken \in BOOLEAN, PublishUnacked(c, taken) PROVE FALSE
  BY <1>10 DEF PublishUnacked
<1>11. ASSUME NEW t \in TMs, TMCrash(t) \/ TMDisconnect(t) PROVE FALSE
  BY <1>11 DEF TMCrash, TMDisconnect
<1>12. CASE Disconnect
  BY <1>12 DEF Disconnect
<1>13. CASE UNCHANGED vars
  BY <1>1, <1>13 DEF vars
<1> HIDE DEF Somewhere
<1>14. Somewhere'
  BY <1>3, <1>4, <1>5, <1>6, <1>7, <1>8, <1>9, <1>10, <1>11, <1>12, <1>13, NextCases
  DEF Somewhere
<1> QED
  BY <1>14 DEF Somewhere

\* Without faults no answer is lost once a pod heard the plan (NothingLost).
THEOREM NoAnswerLost == Spec => []NothingLost
<1>1. Init => RunsAreRouted /\ SoundConnection /\ NothingLost
  BY DeliveryInit
<1> QED
  BY <1>1, TypeCorrect, RoutingInit, RoutingStep, RoutedStep, ConnectionStep,
     NothingLostStep, PTL DEF Spec
=============================================================================
