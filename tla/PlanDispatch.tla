---------------------------- MODULE PlanDispatch ----------------------------
(***************************************************************************)
(* How a plan reaches a TaskManager and its result comes back:             *)
(* KubernetesResourceManager.Schedule                                      *)
(* (pkg/core/pkg/engine/resourcemanager/kubernetes.go) on the JobManager's *)
(* side, SlotWorker.Loop (pkg/core/pkg/engine/taskmanager/taskworker.go)   *)
(* on the other, and the MQTT client between them                          *)
(* (pkg/messager/pkg/mqtt.go).                                             *)
(*                                                                         *)
(* One JobManager process makes several Schedule calls at a time.  A call  *)
(* makes sure that enough TaskManager pods are available, registers a      *)
(* channel under its run and node, publishes the plan and waits.  Results  *)
(* carry the node, not the call: a result is handed to whoever is          *)
(* registered for the node when it arrives.                                *)
(*                                                                         *)
(* The broker and Kubernetes are external.  Sessions are clean: what is    *)
(* published while nobody subscribes is dropped, and what is on its way    *)
(* over a connection that breaks may be lost.  A message is acknowledged   *)
(* before its handler runs, so a plan dies with the pod that executes it.  *)
(*                                                                         *)
(* A failed execution is a result as well (JobMaster.tla tells them        *)
(* apart).  Left out: sandbox plans, the task table, which nothing here    *)
(* reads, and the cached replica count, which only the scaling loop reads. *)
(***************************************************************************)
EXTENDS Naturals, FiniteSets

CONSTANTS
  Calls,      \* Schedule calls
  Keys,       \* the (run, node) pairs of the plans
  Runs,       \* run ids
  KeyOf,      \* the key of each call's plan
  RunOf,      \* the run of each key
  TMs,        \* TaskManager pods
  None,       \* no call
  SlotsPerTM, MinTMs, MaxTMs,
  MaxFaults   \* bound on failures

ASSUME CallsAssumption  == IsFiniteSet(Calls)
ASSUME NoneAssumption   == None \notin Calls
ASSUME KeysAssumption   == KeyOf \in [Calls -> Keys] /\ RunOf \in [Keys -> Runs]
ASSUME ScaleAssumption  == SlotsPerTM \in Nat \ {0} /\ MinTMs \in Nat /\ MaxTMs \in Nat
ASSUME FaultsAssumption == MaxFaults \in Nat

VARIABLES
  pc,         \* where each call of Schedule is
  need,       \* the number of pods it waits for
  ret,        \* what it returned
  chan,       \* runResults[run][node]: the call whose channel is registered
  box,        \* the buffer of each call's channel: whose plan was answered
  routed,     \* the runs with an entry in runResults and a handler in the client
  connected,  \* the JobManager's client has a connection
  subs,       \* the runs whose exec/results the broker forwards over it
  replicas,   \* spec.replicas of the TaskManager deployment
  available,  \* its available pods
  listening,  \* the pods subscribed to exec/plans
  work,       \* copies of each plan delivered to, or executed by, each pod
  results,    \* copies of each plan's result on their way to the JobManager
  unheard,    \* history: plans published while no pod was listening
  overlapped, \* history: calls that were registered at the same time as
              \* another one for the same key
  faults      \* number of faults so far

callVars  == <<pc, need, ret>>
routeVars == <<chan, box>>
connVars  == <<routed, connected, subs>>
podVars   == <<replicas, available, listening>>
msgVars   == <<work, results>>
histVars  == <<unheard, overlapped>>
vars == <<pc, need, ret, chan, box, routed, connected, subs, replicas, available,
          listening, work, results, unheard, overlapped, faults>>

\* The key and the run of call c.
RunOfCall(c) == RunOf[KeyOf[c]]

\* The calls counted in pendingPlans, and those whose channel is registered
\* unless someone took it away.
Active     == {c \in Calls : pc[c] \notin {"idle", "returned"}}
Registered == {"publish", "retry", "wait"}

Fault == faults < MaxFaults /\ faults' = faults + 1

Init ==
  /\ pc = [c \in Calls |-> "idle"]
  /\ need = [c \in Calls |-> 0]
  /\ ret = [c \in Calls |-> "none"]
  /\ chan = [k \in Keys |-> None]
  /\ box = [c \in Calls |-> None]
  /\ routed = {} /\ connected = TRUE /\ subs = {}
  /\ replicas = MinTMs /\ available = {} /\ listening = {}
  /\ work = [w \in Calls \X TMs |-> 0]
  /\ results = [c \in Calls |-> 0]
  /\ unheard = {} /\ overlapped = {}
  /\ faults = 0
-----------------------------------------------------------------------------
(* Schedule: capacity *)

GoTo(c, p) == pc' = [pc EXCEPT ![c] = p]

Return(c, what) == GoTo(c, "returned") /\ ret' = [ret EXCEPT ![c] = what]

\* ceil(pending / slots), between the minimum and the maximum.
desiredTMCount(pending) ==
  LET ceil   == (pending + SlotsPerTM - 1) \div SlotsPerTM
      atLeast == IF ceil < MinTMs THEN MinTMs ELSE ceil
  IN IF pending = 0 THEN MinTMs
     ELSE IF atLeast > MaxTMs THEN MaxTMs ELSE atLeast

\* Entry of Schedule: pendingPlans is incremented.
Begin(c) ==
  /\ pc[c] = "idle"
  /\ GoTo(c, "capacity")
  /\ UNCHANGED <<need, ret, routeVars, connVars, podVars, msgVars, histVars, faults>>

\* ensureTaskManagerCapacity: the deployment is only ever scaled up.
ensureTaskManagerCapacity(c) ==
  LET target == desiredTMCount(Cardinality(Active)) IN
  /\ pc[c] = "capacity"
  /\ need' = [need EXCEPT ![c] = target]
  /\ replicas' = IF replicas < target THEN target ELSE replicas
  /\ GoTo(c, "ready")
  /\ UNCHANGED <<ret, routeVars, connVars, available, listening, msgVars, histVars,
                 faults>>

\* The Kubernetes API fails, or the pods do not become available in time.
CapacityFailed(c) ==
  /\ pc[c] \in {"capacity", "ready"}
  /\ Fault
  /\ Return(c, "error")
  /\ UNCHANGED <<need, routeVars, connVars, podVars, msgVars, histVars>>
-----------------------------------------------------------------------------
(* Schedule: registration *)

\* The calls registered for the key of c.
Rivals(c) == {d \in Calls \ {c} : KeyOf[d] = KeyOf[c] /\ pc[d] \in Registered}

\* Mutant: the handler is only remembered, for the next connection to subscribe.
SubscribeLazily(r) ==
  /\ routed' = routed \cup {r}
  /\ UNCHANGED <<connected, subs>>

\* Mutant: the handler is not remembered for a new connection.
SubscribeOnce(r) ==
  /\ subs' = subs \cup {r}
  /\ UNCHANGED <<routed, connected>>

\* Subscribe remembers the topic's handler for later connections, then dials if
\* there is no connection - which subscribes what was remembered, but only logs
\* the failures - and subscribes the topic.
Subscribe(r) ==
  /\ routed' = routed \cup {r}
  /\ connected' = TRUE
  /\ \E again \in SUBSET routed :
       subs' = (IF connected THEN subs ELSE again) \cup {r}

\* Enough pods are available: the run's results are subscribed to unless an
\* earlier call did so, and the channel is registered.
Register(c) ==
  /\ pc[c] = "ready"
  /\ Cardinality(available) >= need[c]
  /\ IF RunOfCall(c) \in routed THEN UNCHANGED connVars ELSE Subscribe(RunOfCall(c))
  /\ chan' = [chan EXCEPT ![KeyOf[c]] = c]
  /\ overlapped' = IF Rivals(c) = {} THEN overlapped ELSE overlapped \cup Rivals(c) \cup {c}
  /\ GoTo(c, "publish")
  /\ UNCHANGED <<need, ret, box, podVars, msgVars, unheard, faults>>

\* A new client subscribes what was remembered; dialling, or some of the
\* subscriptions, may fail.
Dial(topics) ==
  /\ connected' \in BOOLEAN
  /\ subs' \in SUBSET topics
  /\ ~connected' => subs' = {}

\* The error of Subscribe is ignored, and no later call of the run repeats it.
RegisterUnsubscribed(c) ==
  /\ pc[c] = "ready"
  /\ Cardinality(available) >= need[c]
  /\ RunOfCall(c) \notin routed
  /\ Fault
  /\ routed' = routed \cup {RunOfCall(c)}
  /\ IF connected THEN UNCHANGED <<connected, subs>> ELSE Dial(routed')
  /\ chan' = [chan EXCEPT ![KeyOf[c]] = c]
  /\ overlapped' = IF Rivals(c) = {} THEN overlapped ELSE overlapped \cup Rivals(c) \cup {c}
  /\ GoTo(c, "publish")
  /\ UNCHANGED <<need, ret, box, podVars, msgVars, unheard>>

\* The key is deleted, whosever channel it holds.
Unregister(c) == chan' = [chan EXCEPT ![KeyOf[c]] = None]
-----------------------------------------------------------------------------
(* Schedule: publication *)

\* The broker takes the plan of c: it hands it to one pod of the shared
\* subscription, or drops it when there is none.
Accept(c) ==
  IF listening = {}
  THEN unheard' = unheard \cup {c} /\ UNCHANGED work
  ELSE /\ \E t \in listening : work' = [work EXCEPT ![<<c, t>>] = @ + 1]
       /\ UNCHANGED unheard

\* An attempt that is acknowledged, on a new connection if there is none.
Publish(c) ==
  /\ pc[c] \in {"publish", "retry"}
  /\ connected' = TRUE
  /\ \E again \in SUBSET routed : subs' = IF connected THEN subs ELSE again
  /\ Accept(c)
  /\ GoTo(c, "wait")
  /\ UNCHANGED <<need, ret, routeVars, routed, podVars, results, overlapped, faults>>

\* A connection breaks: the results of the plans in lost do not arrive.
LoseResults(lost) == results' = [c \in Calls |-> IF c \in lost THEN 0 ELSE results[c]]

\* The client is replaced, and what was on its way over the old one may be lost.
Redial ==
  /\ Dial(routed)
  /\ \E lost \in SUBSET Calls : LoseResults(lost)

\* An attempt that is not acknowledged, although the broker may have taken the
\* message.  It is followed by a new connection; after the second one Schedule
\* fails.
PublishUnacked(c, taken) ==
  /\ pc[c] \in {"publish", "retry"}
  /\ Fault
  /\ IF taken THEN Accept(c) ELSE UNCHANGED <<work, unheard>>
  /\ Redial
  /\ IF pc[c] = "publish"
     THEN GoTo(c, "retry") /\ UNCHANGED <<ret, chan>>
     ELSE Return(c, "error") /\ Unregister(c)
  /\ UNCHANGED <<need, box, routed, podVars, overlapped>>

\* The connection is gone and dialling fails as well: Schedule fails at once.
PublishUnconnected(c) ==
  /\ pc[c] \in {"publish", "retry"}
  /\ ~connected
  /\ Return(c, "error")
  /\ Unregister(c)
  /\ UNCHANGED <<need, box, connVars, podVars, msgVars, histVars, faults>>
-----------------------------------------------------------------------------
(* Schedule: the answer *)

Receive(c) ==
  /\ pc[c] = "wait"
  /\ box[c] # None
  /\ Return(c, "result")
  /\ UNCHANGED <<need, routeVars, connVars, podVars, msgVars, histVars, faults>>

\* Mutant: the key stays behind.
TimeoutKept(c) ==
  /\ pc[c] = "wait"
  /\ Fault
  /\ Return(c, "error")
  /\ UNCHANGED <<need, chan, box, connVars, podVars, msgVars, histVars>>

\* The plan timeout, or the end of the run's context.  It may win against a
\* result that has just arrived.
Timeout(c) ==
  /\ pc[c] = "wait"
  /\ Fault
  /\ Return(c, "error")
  /\ Unregister(c)
  /\ UNCHANGED <<need, box, connVars, podVars, msgVars, histVars>>

\* Mutant: the entry of the whole run is deleted.
DeliverDropsRun(c) ==
  LET d == chan[KeyOf[c]] IN
  /\ results[c] > 0
  /\ results' = [results EXCEPT ![c] = @ - 1]
  /\ IF d = None
     THEN UNCHANGED routeVars
     ELSE /\ chan' = [k \in Keys |-> IF RunOf[k] = RunOfCall(c) THEN None ELSE chan[k]]
          /\ box' = [box EXCEPT ![d] = IF @ = None THEN c ELSE @]
  /\ UNCHANGED <<callVars, connVars, podVars, work, histVars, faults>>

\* Mutant: the node of a result is not compared.
DeliverAnyNode(c) ==
  /\ results[c] > 0
  /\ results' = [results EXCEPT ![c] = @ - 1]
  /\ \E k \in Keys :
       IF chan[k] = None
       THEN UNCHANGED routeVars
       ELSE /\ chan' = [chan EXCEPT ![k] = None]
            /\ box' = [box EXCEPT ![chan[k]] = IF @ = None THEN c ELSE @]
  /\ UNCHANGED <<callVars, connVars, podVars, work, histVars, faults>>

\* The handler of the run's results: the registered call gets the result and
\* is unregistered; without one the result is dropped.
Deliver(c) ==
  LET d == chan[KeyOf[c]] IN
  /\ results[c] > 0
  /\ results' = [results EXCEPT ![c] = @ - 1]
  /\ IF d = None
     THEN UNCHANGED routeVars
     ELSE /\ chan' = [chan EXCEPT ![KeyOf[c]] = None]
          /\ box' = [box EXCEPT ![d] = IF @ = None THEN c ELSE @]
  /\ UNCHANGED <<callVars, connVars, podVars, work, histVars, faults>>
-----------------------------------------------------------------------------
(* The TaskManagers *)

PodAvailable(t) ==
  /\ t \notin available
  /\ Cardinality(available) < replicas
  /\ available' = available \cup {t}
  /\ UNCHANGED <<callVars, routeVars, connVars, replicas, listening, msgVars,
                 histVars, faults>>

\* The slot workers subscribe, at startup or when a heartbeat reconnects.
Listen(t) ==
  /\ t \in available \ listening
  /\ listening' = listening \cup {t}
  /\ UNCHANGED <<callVars, routeVars, connVars, replicas, available, msgVars,
                 histVars, faults>>

\* The broker forwards a result only to a subscriber.
Forwarded(c, n) == IF RunOfCall(c) \in subs THEN results[c] + n ELSE results[c]

\* A handler executes the plan and publishes the result; n copies of it reach
\* the broker: one, or none or two when acknowledgements fail.
Finish(c, t, n) ==
  /\ work[<<c, t>>] > 0
  /\ work' = [work EXCEPT ![<<c, t>>] = @ - 1]
  /\ results' = [results EXCEPT ![c] = Forwarded(c, n)]
  /\ IF n = 1 THEN UNCHANGED faults ELSE Fault
  /\ UNCHANGED <<callVars, routeVars, connVars, podVars, histVars>>

\* What pod t was given or executes is gone for the plans in lost.
LoseWork(t, lost) ==
  work' = [w \in Calls \X TMs |-> IF w[2] = t /\ w[1] \in lost THEN 0 ELSE work[w]]

\* Pod t dies.
TMCrash(t) ==
  /\ t \in available
  /\ Fault
  /\ available' = available \ {t}
  /\ listening' = listening \ {t}
  /\ LoseWork(t, Calls)
  /\ UNCHANGED <<callVars, routeVars, connVars, replicas, results, histVars>>

\* Pod t loses its connection; plans it has not received yet are lost.
TMDisconnect(t) ==
  /\ t \in listening
  /\ Fault
  /\ listening' = listening \ {t}
  /\ \E lost \in SUBSET Calls : LoseWork(t, lost)
  /\ UNCHANGED <<callVars, routeVars, connVars, replicas, available, results, histVars>>

\* The JobManager loses its connection.  It only dials again when it publishes
\* or subscribes.
Disconnect ==
  /\ connected
  /\ Fault
  /\ connected' = FALSE /\ subs' = {}
  /\ \E lost \in SUBSET Calls : LoseResults(lost)
  /\ UNCHANGED <<callVars, routeVars, routed, podVars, work, histVars>>
-----------------------------------------------------------------------------
CallStep(c) ==
  \/ Begin(c) \/ ensureTaskManagerCapacity(c) \/ Register(c) \/ Publish(c)
  \/ Receive(c)

FaultStep ==
  \/ \E c \in Calls :
       \/ CapacityFailed(c) \/ RegisterUnsubscribed(c)
       \/ \E taken \in BOOLEAN : PublishUnacked(c, taken)
       \/ PublishUnconnected(c) \/ Timeout(c)
       \/ \E t \in TMs, n \in {0, 2} : Finish(c, t, n)
  \/ \E t \in TMs : TMCrash(t) \/ TMDisconnect(t)
  \/ Disconnect

Next ==
  \/ \E c \in Calls : CallStep(c) \/ Deliver(c) \/ \E t \in TMs : Finish(c, t, 1)
  \/ \E t \in TMs : PodAvailable(t) \/ Listen(t)
  \/ FaultStep

Spec == Init /\ [][Next]_vars

\* Goroutines run, executors return, messages on a sound connection arrive.
\* Nothing is assumed of failures; the plan timeout is one of them.
FairSpec ==
  /\ Spec
  /\ \A c \in Calls : WF_vars(CallStep(c)) /\ WF_vars(Deliver(c))
  /\ \A c \in Calls, t \in TMs : WF_vars(Finish(c, t, 1))
-----------------------------------------------------------------------------
(* Properties *)

\* The types of the state of Schedule, of the client and of the pods.
TypeOK ==
  /\ pc \in [Calls -> {"idle", "capacity", "ready", "publish", "retry", "wait", "returned"}]
  /\ need \in [Calls -> Nat]
  /\ ret \in [Calls -> {"none", "result", "error"}]
  /\ chan \in [Keys -> Calls \cup {None}]
  /\ box \in [Calls -> Calls \cup {None}]
  /\ routed \subseteq Runs /\ connected \in BOOLEAN /\ subs \subseteq routed
  /\ replicas \in Nat /\ available \subseteq TMs /\ listening \subseteq available
  /\ work \in [Calls \X TMs -> Nat]
  /\ results \in [Calls -> Nat]
  /\ unheard \subseteq Calls /\ overlapped \subseteq Calls
  /\ faults \in 0..MaxFaults

\* A registered channel is that of a call for this key that still waits for its
\* first result: no error path of Schedule, and no result, leaves a registration
\* behind that would swallow a later call's result.
RegistrationIsLive ==
  \A k \in Keys : chan[k] # None =>
    /\ KeyOf[chan[k]] = k
    /\ pc[chan[k]] \in Registered
    /\ box[chan[k]] = None

\* A call that was alone with its key stays reachable: whatever fails, times out
\* or arrives for other calls, its channel is registered until it is answered.
WaiterIsRegistered ==
  \A c \in Calls \ overlapped :
    pc[c] \in Registered /\ box[c] = None => chan[KeyOf[c]] = c

\* A call is only ever answered with a result for its own run and node, one that
\* was published by this call or an earlier one for the same key.
AnswerMatchesKey ==
  \A c \in Calls : box[c] # None =>
    /\ KeyOf[box[c]] = KeyOf[c]
    /\ pc[box[c]] \in {"retry", "wait", "returned"}

\* Without faults nothing is lost between publication and answer, provided a pod
\* was listening: the result of a waiting call is in its channel, on its way, or
\* still to be produced.  This is what subscribing and registering before
\* publishing is for.
NothingLost ==
  faults = 0 =>
    \A c \in Calls \ (unheard \cup overlapped) :
      pc[c] = "wait" /\ box[c] = None =>
        results[c] > 0 \/ \E t \in TMs : work[<<c, t>>] > 0

\* So a waiting call is eventually answered, unless something failed, no pod was
\* listening, or another call for the same key interfered.
WaiterIsAnswered ==
  \A c \in Calls :
    pc[c] = "wait" /\ c \notin unheard ~> ret[c] = "result" \/ faults > 0 \/ c \in overlapped

\* docs/01-L1-Engine-Architecture.md 5.2: Schedule waits for the replicas to be
\* available "so MQTT work is not lost before TM subscribers exist".
PlansAreHeard == faults = 0 => unheard = {}
=============================================================================
