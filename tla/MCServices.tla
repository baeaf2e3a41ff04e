----------------------------- MODULE MCServices -----------------------------
(***************************************************************************)
(* Instances of the services around the engine.  A behaviour is one of a   *)
(* single service, as `subject' says; the others do not move.              *)
(***************************************************************************)
EXTENDS Payments, Services, TLC

CONSTANTS k1, k2, m1, m2, t1, t2, g1, g2, cl

VARIABLE subject

paymentVars == <<defaultAddr, approver, provider, pc, offer, ledger, approval, pending, requests,
                 responses, sig, secrets, master, loaded, stored, settled, said, keyOps>>

----------------------------------------------------------------------------
(* Payments: offers on both sides of every rule of the policy.             *)

API == <<"com", "example", "api">>
Ads == <<"com", "example", "ads">>
At(host) == <<host, <<"8080">>>>
Offer(url, server, asset, amount, parses) ==
  [url |-> url, server |-> server, asset |-> asset, chain |-> "base", amount |-> amount, payTo |-> "shop",
   parses |-> parses]
\* Among them a URL with a user name and a password, and a redirect.
MCOffers ==
  {Offer(At(API), API, "USDC", 2, TRUE), Offer(At(API), API, "USDC", 3, TRUE), Offer(At(API), API, "DAI", 1, TRUE),
   Offer(At(Ads), Ads, "USDC", 1, TRUE), Offer(At(API), API, "USDC", 9, FALSE),
   Offer(<<<<"user">>, <<"com", "example", "pw">>>>, API, "USDC", 2, TRUE), Offer(At(API), Ads, "USDC", 2, TRUE)}
MCPolicy ==
  [assets |-> {"USDC"}, chains |-> {"base"}, max |-> 3, budget |-> 3, threshold |-> 3,
   blocked |-> {[wild |-> FALSE, name |-> <<"com", "example", "ads">>]},
   allowed |-> {[wild |-> TRUE, name |-> <<"com", "example">>]}]

----------------------------------------------------------------------------
(* Resources: a flow with all it needs, a skill and a run, in two          *)
(* namespaces, and an agent the console has added (id 0); or a backup of   *)
(* all that, for empty tables or for ones in which another MCP server has  *)
(* the id of the one in the backup.                                        *)

NewRow(id, ns, status, enabled, sort, needs) ==
  [id |-> id, ns |-> ns, status |-> status, enabled |-> enabled, sort |-> sort, body |-> 1,
   needs |-> needs, del |-> FALSE]
First(row) == [k \in 1 .. 3 |-> IF k = 1 THEN row ELSE None]
MCTable ==
  [llm |-> First(NewRow(1, "n1", "ACTIVE", FALSE, "", {})),
   channel |-> First(NewRow(1, "n1", "", TRUE, "", {})),
   knowledge |-> First(NewRow(1, "n1", "ACTIVE", TRUE, "", {})),
   mcp |-> First(NewRow(1, "n2", "active", TRUE, "", {})),
   agent |-> First(NewRow(0, "n1", "", FALSE, "", {})),
   flow |-> [k \in 1 .. 3 |->
               CASE k = 1 -> NewRow(1, "n1", "ACTIVE", FALSE, "flow", {<<"agent", 1>>, <<"mcp", 1>>})
                 [] k = 2 -> NewRow(2, "n1", "ACTIVE", FALSE, "skill", {<<"agent", 1>>})
                 [] OTHER -> None],
   run |-> First(NewRow(1, "n1", "RUNNING", FALSE, "", {<<"flow", 1>>}))]
In(status, enabled, body) == [status |-> status, enabled |-> enabled, body |-> body, needs |-> {}]
MCSlots == {"llm", "channel", "mcp", "skill", "agent", "flow", "run"}

Empty == [kind \in DOMAIN MCTable |-> [k \in 1 .. 3 |-> None]]
Occupied ==
  [Empty EXCEPT !["mcp"][2] = NewRow(1, "n1", "", TRUE, "", {}),
                !["flow"][3] = NewRow(3, "n1", "ACTIVE", FALSE, "flow", {<<"mcp", 2>>})]
MCBackup ==
  [slot \in MCSlots |->
     LET kind == IF slot = "skill" THEN "flow" ELSE slot
     IN {[key |-> k, row |-> MCTable[kind][k]] :
           k \in {j \in 1 .. 3 : MCTable[kind][j] # None /\ MCTable[kind][j].sort \in {"", slot}}}]

MCContents == {MCTable, Empty, Occupied}
MCBackups == {None, MCBackup}
MCInputs == {In("", TRUE, 2), In("active", FALSE, 0)}
MCSelections == {MCSlots, {"flow"}}

----------------------------------------------------------------------------
(* Auth: two replicas and two browsers; a user name that two domains know  *)
(* and one that only the second knows.                                     *)

MCDomains == <<"d1", "d2">>
MCRoleMapping == <<[match |-> "g", role |-> "admin"], [match |-> "d2", role |-> "guest"]>>
MCAnonymousPaths == {[wild |-> TRUE, name |-> <<"h">>]}
MCPaths == {<<"h">>, <<"a">>}
\* What one entry is called is also what is typed for the other.
MCUserId == [p1 |-> "u2", p2 |-> None]
MCConfigured == [kind |-> "p256", no |-> 0]
MCDirectory ==
  /\ finds = [d1 |-> [u1 |-> "p1", u2 |-> None], d2 |-> [u1 |-> "p2", u2 |-> "p2"]]
  /\ password = [p1 |-> "x", p2 |-> "y"] /\ member = [p1 |-> {"g"}, p2 |-> {"g"}]
MCConfig == config = [alg |-> "ES256", keys |-> Configured]

----------------------------------------------------------------------------
(* A2A: messages with and without a spec, an action, a later part.         *)

Part(kind, action, spec) == [kind |-> kind, action |-> action, spec |-> spec]
MCMessages ==
  {<<Part("text", "delete_flow", FALSE)>>, <<Part("data", "create_flow", TRUE)>>,
   <<Part("data", "update_flow", FALSE), Part("text", "", FALSE)>>, <<Part("text", "get_run", FALSE)>>,
   <<Part("data", None, TRUE), Part("text", "update_flow", FALSE)>>}

----------------------------------------------------------------------------
(* LocalMessager: plans with each other kind of message.                   *)

Address(run, pod) == [ns |-> "n1", flow |-> "f1", run |-> run, pod |-> pod]
First1 == Address("r1", "pod1")
Second1 == Address("r2", "pod2")
MCKinds == {"plans", "results", "trigger", "scriptResult", "signRequest", "signResponse",
            "heartbeat", "notify", "push"}
MCListeners ==
  {[kind |-> kind, addr |-> First1, id |-> 1] : kind \in MCKinds} \union
  {[kind |-> kind, addr |-> Second1, id |-> 2] : kind \in MCKinds} \union
  {[kind |-> "plans", addr |-> First1, id |-> 3]}

MCAddresses == {First1, Second1}

\* Three slots and four plans, or one slot, two listeners of another kind
\* and two messages.
MCTraffic ==
  LET kinds == {l.kind : l \in Q!Subscribed'} \union {log'[i].kind : i \in DOMAIN log'}
  IN \/ kinds \subseteq {"plans"}
     \/ /\ Len(log') <= 2 /\ Cardinality(kinds \ {"plans"}) = 1
        /\ \A l \in Q!Subscribed' : l.kind # "plans" \/ l.id = 3

----------------------------------------------------------------------------
(* FlowAPI: a flow with each kind of trigger, with and without a namespace *)
(* of its own, under a configuration without a namespace section.          *)

Hook(source, events) == [type |-> "Webhook", provider |-> source, events |-> events]
Cron == [type |-> "cron", provider |-> "", events |-> {}]
MCSpecs ==
  {[ns |-> "", k8s |-> << >>, triggers |-> {Hook("GitLab", {<<"Push">>})}, body |-> 1],
   [ns |-> "team", k8s |-> << >>, triggers |-> {Hook("gitlab", {<<"issue">>})}, body |-> 1],
   [ns |-> "team", k8s |-> <<"own">>, triggers |-> {Hook("github", {}), Cron}, body |-> 1]}
MCLower ==
  [Webhook |-> "webhook", GitLab |-> "gitlab", GitHub |-> "github", Push |-> "push", Issue |-> "issue", Hook |-> "hook"]

Delivery(source, header, pr, kind) ==
  [provider |-> source, header |-> header, pr |-> pr, ref |-> TRUE, kind |-> kind]
MCDeliveries ==
  {Delivery("gitlab", <<"Push", "Hook">>, FALSE, <<"push">>), Delivery("GitHub", << >>, TRUE, << >>),
   Delivery("gitlab", <<"Issue", "Hook">>, FALSE, << >>), Delivery("gitlab", << >>, FALSE, <<"note">>)}

MCNamespaces == [prefix |-> "", default |-> ""]

\* The table starts out empty or with an imported flow.
MCFlows == specs["f1"] # None => specs["f1"].ns = ""

----------------------------------------------------------------------------
(* Migration: two tables; the shipped files in small.                      *)

Statement(op, table) == [op |-> op, on |-> table]
MCCreate ==
  <<Statement("table", "flows"), Statement("index", "flows"),
    Statement("table", "knowledge"), Statement("index", "knowledge")>>

MCFiles ==
  [sqlite |-> <<MCCreate, << >>>>,
   postgres |-> <<MCCreate, << >>, <<Statement("alter", "knowledge")>>>>]

----------------------------------------------------------------------------
(* Executors: agents of a loaded provider, of one that is missing and of   *)
(* one whose name begins another's; each executor on both sides of what it *)
(* decides.                                                                *)

Node(kind) == [type |-> kind]
AgentNode(kind, name, schema, allowed) ==
  [type |-> kind, agent |-> name, schema |-> schema, allowed |-> allowed]
Votes(strategy, votes) == [type |-> "committee", strategy |-> strategy, votes |-> votes]
If(expr) ==
  [type |-> "condition", expr |-> expr, scalars |-> [result |-> "true"], maps |-> [a |-> [score |-> "1"]]]
Test(form, field, op, rhs) == [form |-> form, node |-> "a", field |-> field, op |-> op, rhs |-> rhs]
MCPlans ==
  {AgentNode("agent", "ok", TRUE, {}), AgentNode("agent", "ok", FALSE, {}), AgentNode("agent", "none", FALSE, {}),
   AgentNode("agent", "lost", FALSE, {}), AgentNode("supervisor", "ok", FALSE, {"continue"}),
   AgentNode("supervisor", "ok", FALSE, {}), [type |-> "tool", tool |-> "git"], [type |-> "tool", tool |-> "off"],
   Node("human"), Node("sandbox"), Node("noop"), Node("unknown")}
  \union {Votes(strategy, votes) : strategy \in {"majority", "unanimous", "any", "majority_strict"},
            votes \in {<< >>, <<"yes">>, <<"yes", "no">>, <<"yes", "junk", "yes">>}}
  \union {If(None)} \union {If(Test("outside", "score", op, "1.0")) : op \in {">", "<", ">=", "<=", "==", "!="}}
  \union {If(Test("inside", "score", "==", "1.0")), If(Test("inside", "gone", "!=", "1")),
           If(Test("outside", "gone", "!=", "1")), If(Test("lookup", None, "", "")), If(Test("literal", None, "", "true"))}

MCAgents ==
  [ok |-> [model |-> <<"open", "ai", "/", "m">>, schema |-> FALSE],
   lost |-> [model |-> <<"other", "/", "m">>, schema |-> FALSE], none |-> None]
MCLlmRows ==
  <<[id |-> <<"open">>, provider |-> <<"open", "ai">>, status |-> "ACTIVE"],
    [id |-> <<"other">>, provider |-> << >>, status |-> "active"]>>
MCMcpRows == {[name |-> "git", enabled |-> TRUE], [name |-> "off", enabled |-> FALSE]}
MCNumber == [n \in {"1", "1.0", "true", "map", "${..}"} |-> IF n \in {"1", "1.0"} THEN 1 ELSE None]

\* Two nodes at once matter to the servers they share; which plan is refused
\* does not matter.
MCPairs ==
  \A c, d \in {g1, g2} :
    /\ reply'[c] = "refused" => plan'[c] = Node("noop")
    /\ c # d /\ phase'[c] # "idle" /\ phase'[d] # "idle" /\ reply'[c] # "refused" /\ reply'[d] # "refused"
       => plan'[c].type = "tool" /\ plan'[d].type = "tool"

----------------------------------------------------------------------------
\* The wallet starts without a key or with k1, sealed with m1; a process
\* without an approver or a wallet is of interest with one provider.
MCPayments ==
  /\ master = m1 /\ \A n \in Names : secrets[n] \in {None, Seal(k1, m1)}
  /\ (approver /\ defaultAddr # "") \/ provider = "default"

\* A backup comes into another database.
MCResources == (rows # MCTable) = (file # None)

\* A single initial state for a service that is not the subject.
Resting(service, rests) == subject # service => rests

MCInit ==
  /\ subject \in {"payments", "resources", "auth", "tasks", "messages", "flows", "migration", "executors"}
  /\ MCDirectory /\ ServicesInit /\ MCFlows /\ Resting("auth", MCConfig)
  /\ Resting("tasks", exists) /\ Resting("flows", live = {} /\ specs["f1"] = None)
  /\ Resting("migration", \A t \in DOMAIN columns : columns[t] = "none")
  /\ subject \notin {"migration", "resources"} => dialect = "sqlite"
  /\ Resting("executors", local /\ providers = << >> /\ defs = {})
  /\ MCResources /\ Resting("resources", file = None)
  /\ Init /\ MCPayments /\ Resting("payments", defaultAddr = "" /\ ~approver /\ stored = {})

MCNext ==
  \/ subject = "payments" /\ Next /\ faults' + keyOps' <= 1 /\ UNCHANGED <<subject, serviceVars>>
  \/ /\ \/ subject = "resources" /\ ResourceStep /\ writes' + outages' <= 1
        \/ subject = "messages" /\ MessagerStep /\ MCTraffic
        \/ subject = "auth" /\ AuthStep /\ (logins' < 2 \/ (MCConfig /\ outages' = 0))
        \/ subject = "tasks" /\ TaskStep /\ sends'[t1] + sends'[t2] <= 2
        \/ subject = "flows" /\ FlowStep /\ changes' + boots' <= 2
        \/ subject = "migration" /\ MigrationStep
        \/ subject = "executors" /\ ExecutorStep /\ MCPairs
     /\ UNCHANGED <<subject, paymentVars, faults>>

Symmetry == {p @@ q : p \in Permutations(Calls), q \in Permutations(Servers)}
=============================================================================
