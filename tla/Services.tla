------------------------------- MODULE Services ------------------------------
(***************************************************************************)
(* The services around the engine: authentication, flow definitions and    *)
(* resource tables of the apiserver replicas and the console, the A2A      *)
(* server, the executors of a TaskManager, the in-process messager and the *)
(* migrations every process starts with.  Of their state they share the    *)
(* kind of the database, which none of them changes, so a step is a step   *)
(* of one of them; that the restart of a replica hits its logins and its   *)
(* flow cache at once is a sequence of two such steps.                     *)
(***************************************************************************)
EXTENDS Naturals, Sequences

CONSTANTS
  Nil,            \* nothing: no row, no request, no answer yet
  Servers,        \* apiserver replicas
  Browsers, Users, People, UserId, Passwords, Domains, Groups, RoleMapping,
  AnonymousPaths, Paths, Algorithms, Configured, AKValidity, RKValidity,
  Flows, Requests, Specs, Bodies, Deliveries, Lower, PageSize, Config,
  Tasks, AdminMessages,
  Executions,     \* calls of Schedule and plans taken by slot workers
  Plans, Agents, LlmRows, McpRows, Number, Actions, PoolSize, MaxRetries,
  Processes, Tables, Files,
  RowKeys, Updaters, Spaces, Inputs, Contents, Backups, Selections, UsedIds, MaxIds, MaxEdits,
  Addresses, Listeners, Publishers, MaxPublishes,
  MaxTime, MaxLogins, MaxWrites, MaxBoots, MaxSends, MaxStarts, MaxOutages

\* The absence of an answer, of a row and of an approval is not one of them.
ASSUME NilAssumption == Nil \notin {"ok", "SUCCESS", "FAILED", "PENDING", "APPROVED", "REJECTED"}

\* The votes of a committee are a list, with entries that are no decision.
ASSUME PlansAssumption ==
  \A p \in Plans : p.type = "committee" => p.votes \in Seq({"yes", "no", "junk"})
ASSUME RetriesAssumption == MaxRetries \in Nat

\* Every table is created by some file, before the first statement on it.
ASSUME FilesAssumption ==
  \A d \in {"sqlite", "postgres"} :
    /\ Files[d] \in Seq(Seq([op : {"table", "index", "alter"}, on : Tables])) /\ Files[d] # << >>
    /\ \A t \in Tables : \E f \in DOMAIN Files[d] : \E i \in DOMAIN Files[d][f] :
         Files[d][f][i] = [op |-> "table", on |-> t]
    /\ \A f \in DOMAIN Files[d] : \A i \in DOMAIN Files[d][f] :
         Files[d][f][i].op # "table" =>
           \E g \in 1 .. f : \E j \in DOMAIN Files[d][g] :
             (g < f \/ j < i) /\ Files[d][g][j] = [op |-> "table", on |-> Files[d][f][i].on]

VARIABLES
  \* Auth
  config, key, pairs, now, finds, password, member, login, cookie, state, consents,
  tokens, logins, verified, last,
  \* FlowAPI
  specs, live, cache, served, lastRun, changes, boots, tainted, missed,
  \* A2A
  request, result, queue, taskState, exists, applied, answered, sends,
  \* Executors
  local, providers, defs, clients, sem, phase, plan, asked, ret, task, reply, approvals,
  \* Migration
  dialect, columns, done, recorded, step, renaming, at, swallowed, disturbed, starts,
  \* Resources
  rows, ids, req, namespace, doing, todo, left, wanted, file, home, closed, touched, writes,
  \* LocalMessager
  subs, next, open, callees, msg, log,
  outages   \* faults of all of them

authVars == <<config, key, pairs, now, finds, password, member, login, cookie, state, consents,
              tokens, logins, verified, last>>
flowVars == <<specs, live, cache, served, lastRun, changes, boots, tainted, missed>>
taskVars == <<request, result, queue, taskState, exists, applied, answered, sends>>
executorVars == <<local, providers, defs, clients, sem, phase, plan, asked, ret, task, reply, approvals>>
migrationVars == <<dialect, columns, done, recorded, step, renaming, at, swallowed, disturbed, starts>>
resourceVars == <<rows, ids, req, namespace, doing, todo, left, wanted, file, home, closed, touched, writes>>
messagerVars == <<subs, next, open, callees, msg, log>>
serviceVars == <<authVars, flowVars, taskVars, executorVars, migrationVars, resourceVars, messagerVars, outages>>

A == INSTANCE Auth WITH None <- Nil, faults <- outages, MaxFaults <- MaxOutages

F == INSTANCE FlowAPI WITH
  None <- Nil, Clients <- Requests, stored <- specs, req <- served, writes <- changes

T == INSTANCE A2A WITH
  None <- Nil, Messages <- AdminMessages, state <- taskState, said <- answered,
  faults <- outages, MaxFaults <- MaxOutages

X == INSTANCE Executors WITH
  None <- Nil, Calls <- Executions, pc <- phase, row <- task, faults <- outages, MaxFaults <- MaxOutages

M == INSTANCE Migration WITH pc <- step, faults <- outages, MaxFaults <- MaxOutages

R == INSTANCE Resources WITH
  None <- Nil, Keys <- RowKeys, Clients <- Updaters, Tables <- Contents, MaxWrites <- MaxEdits,
  faults <- outages, MaxFaults <- MaxOutages

Q == INSTANCE LocalMessager WITH left <- callees

\* Tables and backups hold rows; a fresh id may be a key.
ASSUME ResourcesAssumption ==
  /\ Nil \notin R!Row /\ UsedIds \in Nat /\ MaxIds \in Nat /\ 1 .. MaxIds \subseteq RowKeys /\ RowKeys \subseteq Nat
  /\ Spaces \subseteq R!Text /\ "" \notin Spaces
  /\ Inputs \subseteq [status : R!Text, enabled : BOOLEAN, body : Nat, needs : SUBSET ({"agent", "mcp"} \X RowKeys)]
  /\ \A t \in Contents :
       t \in [R!Kinds -> [RowKeys -> R!Row \union {Nil}]]
       /\ \A kind \in R!Kinds, k \in RowKeys : t[kind][k] \in R!RowOf(kind) \union {Nil}
  /\ \A b \in Backups \ {Nil} : R!Backup(b)

\* What the code writes into text columns is text.
ASSUME TextsAssumption ==
  {"", "flow", "skill", "ACTIVE", "INACTIVE", "DELETED", "PENDING", "RUNNING", "SUCCEEDED", "CANCELLED"} \subseteq R!Text

\* No namespace, flow, run or pod has the name of the wildcard.
ASSUME AddressesAssumption ==
  /\ Addresses \subseteq [ns : STRING \ {"+"}, flow : STRING \ {"+"}, run : STRING \ {"+"}, pod : STRING \ {"+"}]
  /\ Listeners \subseteq [kind : Q!Kinds, addr : Addresses, id : Nat]

----------------------------------------------------------------------------
ServicesInit == A!Init /\ F!Init /\ T!Init /\ X!Init /\ M!Init /\ R!Init /\ Q!Init

AuthStep ==
  A!Next /\ UNCHANGED <<flowVars, taskVars, executorVars, migrationVars, resourceVars, messagerVars>>
FlowStep ==
  F!Next /\ UNCHANGED <<authVars, taskVars, executorVars, migrationVars, resourceVars, messagerVars, outages>>
TaskStep ==
  T!Next /\ UNCHANGED <<authVars, flowVars, executorVars, migrationVars, resourceVars, messagerVars>>
ExecutorStep ==
  X!Next /\ UNCHANGED <<authVars, flowVars, taskVars, migrationVars, resourceVars, messagerVars>>
MigrationStep ==
  M!Next /\ UNCHANGED <<authVars, flowVars, taskVars, executorVars, resourceVars, messagerVars>>
ResourceStep ==
  R!Next /\ UNCHANGED <<authVars, flowVars, taskVars, executorVars, migrationVars, messagerVars>>
MessagerStep ==
  Q!Next /\ UNCHANGED <<authVars, flowVars, taskVars, executorVars, migrationVars, resourceVars, outages>>

ServicesNext ==
  \/ AuthStep \/ FlowStep \/ TaskStep \/ ExecutorStep \/ MigrationStep \/ ResourceStep \/ MessagerStep

ServicesSpec == ServicesInit /\ [][ServicesNext]_serviceVars

----------------------------------------------------------------------------
\* Middleware: a request is served in a user's name only while a login is
\* fresh in which the user's password was checked against the very entry that
\* was found, or the identity provider named the user.
ServedAsLoggedIn == A!ServedAsLoggedIn

\* FlowDefHandler: a replica's copy of a flow is its row, but for one it did
\* not load, until a write meets another request on the flow or goes past the
\* replica: through another one, through the console or with a lost answer.
CacheFollowsStore == F!CacheFollowsStore

\* CreateRunFromTrigger: a run asked for through a copy no write went past is
\* of a stored flow that asked for it and lies where its JobManager polls.
RunReachesItsJobManager == F!RunReachesItsJobManager

\* Execute and Cancel of the A2A server: a task seen as completed stands for
\* an action that was carried out, after lost calls, refusals, cancellations
\* and further messages.
CompletedIsApplied == T!CompletedIsApplied

\* The executors: a node is reported as done only if what its model, tool,
\* sandbox or voters answered entitles it to that; a human node, as soon as it
\* waits for its approval.
VerdictEarned == X!VerdictEarned

\* RunMigrations: a starter that reports no error leaves the full schema
\* unless a rename error was swallowed, and one fails only when a statement of
\* its own did or another process recorded a file meanwhile.
MigrationConverges == M!MigrationConverges

\* ImportAll: as soon as the import is past a kind, every row of that kind in
\* the file is in the table again, deleted since or not, with the content it
\* had and as usable as it was, in the console's namespace; only a later
\* write by somebody else takes it away or, in SQLite, a row saved since under
\* another name with the same id.
ImportRestores == R!ImportRestores

\* ImportAll: with a file in which every name is found, a flow or a run that
\* names a missing row has lost it, or got the name, through somebody else, or
\* SQLite has dropped the row for one with the same id.
ImportNeverDangles == R!ImportNeverDangles

\* Publish of the in-process messager: a message reaches exactly those it is
\* for, or one worker of a pool, and the workers of a pool take turns.
RoutedLikeABroker == Q!RoutedLikeABroker
=============================================================================
