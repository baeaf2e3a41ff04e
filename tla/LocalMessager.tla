---------------------------- MODULE LocalMessager ----------------------------
(***************************************************************************)
(* The in-memory messager of the single-process deployment, with the       *)
(* topics the components publish to and subscribe with.  Publish picks the *)
(* handlers under the lock and calls them after it, in the goroutine of    *)
(* the publisher; a shared subscription gives its handlers turns.  A topic *)
(* is the sequence of its levels, a filter [group, parts], with group ""   *)
(* without a $share prefix.                                                *)
(***************************************************************************)
EXTENDS Naturals, FiniteSets, SequencesExt

CONSTANTS
  Addresses,    \* [ns, flow, run, pod]
  Listeners,    \* [kind, addr, id]: who may subscribe, by what it listens for
  Publishers,   \* goroutines that publish
  MaxPublishes  \* bound on messages

VARIABLES
  subs,    \* handlers of every filter, in the order they came
  next,    \* turn of every shared filter
  open,    \* whether Close was not called
  left,    \* by publisher: handlers still to be called
  msg,     \* by publisher: number of the message it delivers
  log      \* history: [kind, for, to, heard] of every message

vars == <<subs, next, open, left, msg, log>>

----------------------------------------------------------------------------
(* Topics.                                                                 *)

TopicPrefix == <<"flowgent", "v1">>
RunTopic(a, part, what) ==
  TopicPrefix \o <<a.ns, "flows", a.flow, "runs", a.run, part, what>>
Shared(group, part, what) ==
  [group |-> group, parts |-> TopicPrefix \o <<"+", "flows", "+", "runs", "+", part, what>>]
Plain(topic) == [group |-> "", parts |-> topic]

ExecPlansTopic(a) == RunTopic(a, "exec", "plans")
SharedExecPlans == Shared("tm-pool", "exec", "plans")
ExecResultsTopic(a) == RunTopic(a, "exec", "results")
SandboxTriggerTopic(a) == RunTopic(a, "sandbox", "trigger")
SharedSandboxTrigger == Shared("sandbox-pool", "sandbox", "trigger")
SandboxResultTopic(a) == RunTopic(a, "sandbox", "result")
SignRequestTopic(a) == RunTopic(a, "sign", "request")
SharedSignRequest == Shared("wallet-pool", "sign", "request")
SignResponseTopic(a) == RunTopic(a, "sign", "response")
HeartbeatTopic(tm) == TopicPrefix \o <<"heartbeat", tm>>
HeartbeatWildcard == TopicPrefix \o <<"heartbeat", "+">>
NotifyEventTopic(a) == RunTopic(a, "notify", "event")
NotifyQueueWildcard == Shared("notify-pool", "notify", "event")
NotifyPodWSTopic(pod, ws) == TopicPrefix \o <<"notify", "pod", pod, "ws", ws>>
NotifyPodWSWildcard(pod) == TopicPrefix \o <<"notify", "pod", pod, "ws", "+">>

\* What a component publishes to address a, and what the component at
\* address a subscribes with.
TopicOf(kind, a) ==
  CASE kind = "plans" -> ExecPlansTopic(a)
    [] kind = "results" -> ExecResultsTopic(a)
    [] kind = "trigger" -> SandboxTriggerTopic(a)
    [] kind = "scriptResult" -> SandboxResultTopic(a)
    [] kind = "signRequest" -> SignRequestTopic(a)
    [] kind = "signResponse" -> SignResponseTopic(a)
    [] kind = "heartbeat" -> HeartbeatTopic(a.pod)
    [] kind = "notify" -> NotifyEventTopic(a)
    [] kind = "push" -> NotifyPodWSTopic(a.pod, a.run)

FilterOf(kind, a) ==
  CASE kind = "plans" -> SharedExecPlans
    [] kind = "trigger" -> SharedSandboxTrigger
    [] kind = "signRequest" -> SharedSignRequest
    [] kind = "notify" -> NotifyQueueWildcard
    [] kind = "heartbeat" -> Plain(HeartbeatWildcard)
    [] kind = "push" -> Plain(NotifyPodWSWildcard(a.pod))
    [] OTHER -> Plain(TopicOf(kind, a))

Kinds == {"plans", "results", "trigger", "scriptResult", "signRequest", "signResponse",
          "heartbeat", "notify", "push"}

----------------------------------------------------------------------------
TopicMatch(filter, topic) ==
  /\ Len(filter.parts) = Len(topic)
  /\ \A i \in DOMAIN topic : filter.parts[i] \in {"+", topic[i]}

Matching(topic) == {f \in DOMAIN subs : TopicMatch(f, topic)}
IsShared(f) == f.group # ""

Turn(f) == next[f] % Len(subs[f])

\* The handlers of one matching filter that Publish calls.
ChosenAll(f) == subs[f]
Chosen(f) == IF IsShared(f) THEN <<subs[f][Turn(f) + 1]>> ELSE subs[f]

----------------------------------------------------------------------------
Init ==
  /\ subs = << >> /\ next = << >> /\ open = TRUE
  /\ left = [p \in Publishers |-> << >>] /\ msg = [p \in Publishers |-> 0] /\ log = << >>

Subscribed == UNION {ToSet(subs[f]) : f \in DOMAIN subs}

SharedKinds == {"plans", "trigger", "signRequest", "notify"}

\* Whom a message is for: of results and answers the listeners of the same
\* run, of a push the pod, of the rest everybody who listens for the kind.
For(kind, a) ==
  {l \in Subscribed :
     /\ l.kind = kind
     /\ kind \in {"results", "scriptResult", "signResponse"} =>
          <<l.addr.ns, l.addr.flow, l.addr.run>> = <<a.ns, a.flow, a.run>>
     /\ kind = "push" => l.addr.pod = a.pod}

\* A filter somebody has subscribed with gets one more handler.
Subscribe(l) ==
  LET f == FilterOf(l.kind, l.addr)
      old == IF f \in DOMAIN subs THEN subs[f] ELSE << >>
      at == DOMAIN subs \union {f}
  IN /\ open /\ l \notin Subscribed
     /\ subs' = [g \in at |-> IF g = f THEN Append(old, l) ELSE subs[g]]
     /\ next' = [g \in at |-> IF g \in DOMAIN next THEN next[g] ELSE 0]
     /\ UNCHANGED <<open, left, msg, log>>

\* Publish, under the lock: the filters are met in any order.
Publish(p, kind, a) ==
  /\ left[p] = << >> /\ Len(log) < MaxPublishes
  /\ \E order \in SetToSeqs(Matching(TopicOf(kind, a))) :
       LET to == FlattenSeq([i \in DOMAIN order |-> Chosen(order[i])])
       IN /\ left' = [left EXCEPT ![p] = to]
          /\ log' = Append(log, [kind |-> kind, for |-> For(kind, a), to |-> to, heard |-> {}])
  /\ next' = [f \in DOMAIN next |->
                IF f \in Matching(TopicOf(kind, a)) /\ IsShared(f) THEN Turn(f) + 1 ELSE next[f]]
  /\ msg' = [msg EXCEPT ![p] = Len(log) + 1]
  /\ UNCHANGED <<subs, open>>

\* One handler is called.
Deliver(p) ==
  /\ left[p] # << >>
  /\ left' = [left EXCEPT ![p] = Tail(@)]
  /\ log' = [log EXCEPT ![msg[p]].heard = @ \union {Head(left[p])}]
  /\ UNCHANGED <<subs, next, open, msg>>

\* A Subscribe after Close would panic.
Close ==
  /\ open /\ open' = FALSE /\ subs' = << >>
  /\ UNCHANGED <<next, left, msg, log>>

Next ==
  \/ \E l \in Listeners : Subscribe(l)
  \/ \E p \in Publishers : Deliver(p) \/ \E kind \in Kinds, a \in Addresses : Publish(p, kind, a)
  \/ Close

Spec == Init /\ [][Next]_vars

----------------------------------------------------------------------------
Done(i) == \A p \in Publishers : left[p] = << >> \/ msg[p] # i

\* When Publish returns, the message has reached exactly those it is for: all
\* of them, or one worker of the pool where the work is shared; and before a
\* worker's turn comes again all that were there at its last turn had theirs.
RoutedLikeABroker ==
  /\ \A i \in DOMAIN log : Done(i) =>
       /\ log[i].heard \subseteq log[i].for
       /\ IF log[i].kind \in SharedKinds /\ log[i].for # {}
          THEN Cardinality(log[i].heard) = 1 ELSE log[i].heard = log[i].for
  /\ \A i, j \in DOMAIN log :
       /\ i < j /\ log[i].kind = log[j].kind /\ log[i].kind \in SharedKinds
       /\ log[i].to # << >> /\ log[i].to = log[j].to
       => Cardinality({k \in i .. j - 1 : log[k].kind = log[i].kind}) >= Cardinality(log[i].for)
=============================================================================
