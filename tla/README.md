# Flowgent in TLA+

Flowgent runs *agent flows*: directed graphs whose nodes call models, tools,
sandboxes or people. This directory specifies its engine and the services around
it, model-checks them with TLC and proves their invariants with TLAPS. Paths
below are relative to `src/`; the engine is `pkg/core/pkg/engine`.

## 1. Inventory

| Component | State | Operations | Talks to | What makes it correct |
|---|---|---|---|---|
| API server (`pkg/api`) | flow, run, resource, approval tables; a copy of every flow definition per replica | CRUD, trigger, webhook, cancel, long poll, login | everyone, over HTTP | pending runs can be found; a copy follows its row; a request is served as the identity that logged in |
| Controller (`pkg/controller`) | peer list, cron table, GC observations | shard flows by hash, deploy JobManagers, fire cron, collect idle deployments | API, Kubernetes | each trigger has one owner; active runs are served; nothing of a deleted flow stays |
| JobManager (`jobmanager/jobmanager.go`) | page of pending runs, claims | poll, claim, submit, extend, release | API, lock table | a run has one owner; a pending run is picked up |
| Distributed lock (`pkg/core/pkg/lock`) | `dlocks` rows; per-process map key -> value | TryLock, Extend, Release | postgres | exclusion until expiry; nobody deletes another's row |
| JobMaster (`jobmanager/jobmaster.go`) | graph, completed/skipped/failed, outputs, condition results | Execute: Ready, dispatch, Done/Skip/Fail, terminal write | ResourceManager, API | dependency order, branches, truthful status, termination |
| Kubernetes ResourceManager (`resourcemanager/kubernetes.go`) | pending counters, replicas, result channels per run and node | Schedule, scaling, Shutdown, persistence | MQTT, Kubernetes, cache | every call gets its own node's result; pools are sized for the calls in flight |
| Standalone ResourceManager | a pool of slots | Schedule | local TaskManager | bound on slots; errors are reported |
| Messagers (`pkg/messager`) | connection, handlers by topic | Publish, Subscribe, redial and resubscribe | broker, or in process | handlers survive reconnection; the in-process one routes like a broker |
| TaskManager (`taskmanager`), executors (`executor`) | slot workers, providers, MCP clients | execute a plan with retries, save its row, publish its result | MQTT, models, tools | every plan is answered; a node is reported done only if it was |
| Sandbox executor and manager (`executor/sandbox.go`, `pkg/sandbox`) | result channels, directories, trigger queue, slots | trigger, run the script, result over MQTT and file | MQTT, shared directory | a result belongs to its request; every execution is answered |
| Seccomp (`pkg/sandbox/pkg/seccomp`) | resolved policy, BPF program, notifier | build, encode, install, decide | kernel | the program decides as the policy says |
| Payments and wallet (`pkg/wallet`, x402 client) | daily spending, approvals, sign requests, keys | policy check, approve, sign, settle, record | facilitator, signer over MQTT | only what policy, human and key allow is settled |
| Authentication (`pkg/api/pkg/auth`) | key pairs, cookies, tokens | password and OIDC login, refresh, middleware | directory, identity provider | see API server |
| A2A server | tasks and their events | Execute, Cancel, Save | API | a task reported completed was carried out |
| Console (`pkg/console`) | current namespace, backup file | add, remove, run, keys, export, import | database directly | an import restores what was exported and never dangles |
| Stores and migrations | tables, `schema_migrations` | rename, apply, record | PostgreSQL, SQLite | concurrent or interrupted starters end with the same schema |

Interaction, in order: the **Controller** gives a flow with active runs its
JobManager Deployment; the **API server** stores a run as PENDING; a
**JobManager** lists it, takes its **lock** and starts a **JobMaster**; the
JobMaster hands one node after the other to the **ResourceManager**, which scales
TaskManager pods, publishes the plan over **MQTT** and waits; a **TaskManager**
slot worker runs the node's **executor** - which may call a model, a tool, a
**sandbox** pod or a paid service - and publishes the result; the JobMaster
records it and, at the end, writes the terminal status through the API.

What is hard in this code: several processes that share only a lock with expiry
and a status column; decisions taken on stale pages, snapshots and caches; a lock
map shared by the goroutines of one process; results matched by node or by run
and not by call; counters read without their mutex; a broker that forgets what
nobody subscribes to; clients that reconnect only on use; pods that count as
available before they listen; two channels for one sandbox result; ignored errors
of calls whose effect is uncertain. `PROJECT.json` lists each of these under
`hazards`, at its line, with the properties that cover it.

## 2. Modules

| Module | Models | Used by |
|---|---|---|
| `JobMaster` | `JobMaster.Execute` for one run | `MCJobMaster` (flows to check), `JobMasterProofs` |
| `RunExecution` | what Execute promises to do to the stored run | implemented by `JobMaster`; its steps are those of a claim in `JobManager` |
| `JobManager` | pollers, claims, postgres lock, run table | its cfgs, `MCJobManager` (with and without lock), `JobManagerProofs` |
| `PlanDispatch` | `Schedule`, the MQTT client, slot workers | `MCPlanDispatch`, `PlanDispatchProofs` |
| `RMScaling` | the two pools of pods, scaling loop, Shutdown, persisted counters | `MCRMScaling`, `RMScalingProofs` |
| `Controller` | replicas of `reconcile`, cron, garbage collection | `MCController`, `ControllerProofs` |
| `SandboxExec` | sandbox executions of a run and the pod that serves them | `Sandbox` |
| `Seccomp` | policy to BPF program, its interpretation, the notifier | `Sandbox` |
| `Sandbox` | the two together | `MCSandbox`, `SandboxExecProofs` |
| `FlowAPI`, `FlowWatch` | flow definitions, caches, run creation; the long poll | `Services`; `MCJobManager` |
| `Resources` | resource tables under REST and console, export and import | `Services` |
| `Auth` | middleware, token service, LDAP and OIDC logins | `Services` |
| `Payments` | x402 client, policy, approval, wallet daemon, console keys | `MCServices`, `PaymentsProofs` |
| `Executors` | every executor of a TaskManager, standalone `Schedule` | `Services` |
| `A2A`, `Migration` | A2A tasks; schema migrations | `Services` |
| `LocalMessager` | in-process messager and topics | `Services` |
| `Services` | the composition of `Auth`, `FlowAPI`, `A2A`, `Executors`, `Migration`, `Resources` and `LocalMessager` | `MCServices`, `ServicesProofs` |

`MCServices`, `MCSandbox` and `MCJobManager` hold several instances and a variable
`subject`, fixed at the start: a behaviour is one of a single subject. In
`Services` the seven components move in any order; they share no state but the
count of faults. In `Sandbox` the filter of a script and the executions share
nothing: an execution sees only how its script ended. `MCServices` extends `Services` and `Payments` and takes its components
one by one, since their product is out of TLC's reach; what the steps of one do
to the others is nothing, which the proofs use.

**JobMaster.** One goroutine executes a run, so the steps of the model are the
points where it meets its environment: a status write, a `Schedule` call, the
test of the context. The maps of the Go struct are sets of node ids; `batch` is
the rest of the snapshot of `Ready()` the inner loop iterates over, in the order
of `Rank` (the order of `spec.Nodes`). A flow is any record of `FlowSpecs`:
nothing in the code validates stored flows, so cycles and undeclared
dependencies are in the model. A status write may be applied without being
acknowledged. History variables: `started` and `scope` (what `resolveInput`
could refer to). Left out: the write-only map `pending`, task rows, texts.

**JobManager.** A claim is identified by its lock value (a fresh uuid) and moves
through `locking`, `start`, `running`, `returned`, `forget`. `TryLock` is two
steps, the SQL statement and the entry in the shared map, and so is `Release`.
The map lookup that precedes the SQL of `Release` and `Extend` is part of the SQL
step: when a newer claim of the same process replaces row and map entry between
the two, the statement matches no row, which is the step taken before the map
entry is replaced. Expiry is a step: `Expire` when nobody live owns the row,
`ExpireLate`, counted as a fault, under a live holder (late ticker, hanging call,
clock skew: `expires_at` is computed from the process's clock and compared with
the database's). Faults are crashes, calls that fail with or without effect and
late expiries, at most `MaxFaults` of them.

**PlanDispatch.** `chan` is `runResults[run][node]`, `box` the one-element buffer
of a call's channel and holds whose plan the result answers. `routed` are the
runs for which a handler is remembered, `subs` those the broker forwards on the
current connection. The broker and Kubernetes are external: `Accept` gives a
plan to one listening pod or drops it; a broken connection may lose what is in
flight; a pod becomes available before it listens. `RegisterUnsubscribed` is the
ignored error of `Subscribe`; `PublishUnacked` the retry that may duplicate.

**RMScaling.** `pending`, `known`, `replicas` and `avail` are functions of the
pool (TaskManagers or sandboxes), which the code handles with the same algorithm.
A `Schedule` call counts itself in, computes its `want` and raises the Deployment
under the mutex (`EnsureCapacity`); where the size cannot be read the code goes on
with 0, so the request may lower the Deployment, and the history `undercut` has
the calls that were served by it. The loop works without the mutex: its decision
(`goal`), its request (`Shrink`) and the note of the new size (`Shrunk`) are three
steps, between which calls move. No binary calls `Start`, so behaviours without the
loop are the shipped ones. `cache` holds the state the next process restores; the
time of the last activity in it may be recent or not.

**Controller.** One tick of a replica is a sequence of API calls (`pc`), between
which everything else may move; `peers`, `seen` and `act` are its snapshots.
`mark[c][k]` is the age of the observation after which a Deployment is collected.
Kubernetes starts and stops pods (`Kubelet`), and a stopping JobManager may still
create runtime Deployments. `view` is a history of the list used for cron.

**SandboxExec.** `stage` and `inbox` are the executor's side, `jobs`, `slot`,
`file` and `status` the pod's. Executions of one plan share a directory, all
executions share the run's result topic; `contended` is the history of the first,
`overlap[e]` has the *other* executions that were under way while `e` listened.
`Torn` is a result file truncated and not yet written. Every write of `result.json`
or `status` may fail, its error being dropped (`broken` has the directories), and a
script may outlive its timeout through what it started (`Hang`). Messages may be
lost or repeated, the pod may die; publishing is retried `MaxAttempts` times.

**Seccomp.** The program is the sequence of instructions the generator emits, with
its jump offsets; it is encoded, decoded in the child and interpreted one
instruction per step on the system calls of a script. The reference is
`FilterImplementsPolicy`: what policy and `Table`, the table in the comment above
`buildBPF`, prescribe for the call. `Table` reads "SOCK_RAW" as the type of the
socket, the low four bits of the argument; `Departs` are the calls the code
decides otherwise.

**FlowAPI, FlowWatch.** `stored` and `live` are the row, `cache` the copy of each
replica. Handlers are split where the code releases its lock or calls the
database. Every write may be refused, or be carried out and answered with an error;
the console writes the table itself (`ConsoleSave`, `ConsoleRemove`; an import does
the same). `tainted` remembers which copies a write went past and where one met
another request of the same flow: there the code promises nothing (section 5).
`missed` are the flows a replica did not load at its start, for they were behind its
page. Names are sequences of words, so that letter case and the blanks of a header
are compared as the code does. In `FlowWatch`, comparing the version and
registering the channel are two lock sections and two steps.

**Resources.** A row names others in `needs`; `rows` are changed by REST handlers
(read, then write) and by the console. `dialect` is the database: a second row with
the id of an agent or MCP server is refused by PostgreSQL, in SQLite it takes the
place of the first (`Saved`). Export reads table by table, import writes
row by row in the order of the code; kinds an export was not asked for are passed
over, and a refused id or a failing write ends an import with what it has written
so far. `touched` and `closed` record what others did meanwhile and whether the
tables were consistent when the import began.

**Auth.** A key pair is configured or generated by each replica; a token carries
algorithm, key and expiry. Directory and identity provider are external and change
between the steps of a login, and so does time. The subject of a token is the
user id attribute of the entry, or what was typed where the entry has none
(`BuildUserInfo`). `verified` is the history of proved identities, with the end
of the login.

**Payments.** A call of `Do` moves through policy, approval, signature and
settlement; requests and responses of the signer are messages that may be lost or
repeated. An offer has the URL as it is written and the server that is paid; the
policy sees of the first what `ExtractDomain` makes of it. An answer of the
facilitator with status 200 counts as paid, whatever its body says. The wallet
daemon reads its master key or keys at start; the console changes them behind it.

**Executors.** A call gets a slot, runs the executor of its node's type with the
retries of that executor, saves its row and replies. `asked` is what models,
tools, sandboxes and committee members answered; the verdict is compared with what
these answers entitle it to (`Entitled`, and `Carried` for a vote). A supervisor
that is answered `null` ends the process (`Panic`).

**A2A, LocalMessager, Migration.** An A2A task's events go through the SDK's queue;
`applied` is the history of what the API server did. In `LocalMessager` handlers
are chosen under the lock and called after it; topics are those the components
use. `Migration` has one step per statement, and an error that SQLite turns into
a panic is only logged on PostgreSQL.

Definitions with a comment "Mutant" are deliberately wrong variants of the
definition that follows them; `PROJECT.json` pairs each with the property it
violates.

## 3. Runs

| Run | Instance | Checks |
|---|---|---|
| `jobmaster` | all flows on three nodes with the labels of `OutLabels`, undeclared dependencies, diamonds; 134,420 states | `TypeOK`, `NoDoubleDispatch`, `FailureStopsDependents`, `ScopeComplete`, `TerminalStatusSound`, `WellFormedNeverStuck`, `SingleBranchHonoured`, `Termination`, `ImplementsExecution` |
| `jobmanager_claim` | 2 processes, 1 run, 3 lock values, 2 faults; 779,255 states | `TypeOK`, `ExclusiveExecution`, `RowRespected`, `BoundedReexecution` |
| `jobmanager_live` | the same with 1 fault; 1 process without lock and 2 runs; 2 watchers, 2 changes, 1 restart; with fairness | `PendingIsPickedUp`, `ChangeIsListed` |
| `plan_dispatch` | 3 calls (two for one node), 1 pod, 2 faults; 189,328 states | `TypeOK`, `RegistrationIsLive`, `WaiterIsRegistered`, `AnswerMatchesKey`, `NothingLost`, `WaiterIsAnswered` |
| `rm_scaling` | 2 calls, one of which uses both pools, 1 fault, with a cache; @RM@ states | `PoolSized`, `IdlePoolsShrink` |
| `controller` | 2 replicas, 1 scheduled flow, timeout of 1 tick, 1 fault | `CronDuplicatesNeedStaleView`, `ActiveRunsServed`, `OrphansCollected` |
| `sandbox` | 2 executions of 1 or 2 plans, 1 or 2 slots, 2 publish attempts, 1 fault; every policy of a small set; @SB@ states | `AnswerSound`, `StatusSound`, `ExecutionAnswered`, `FilterImplementsPolicy` |
| `services` | one service per behaviour, 1 fault; 733,410 states | `PaymentAuthorized`, `VerdictEarned`, `ImportRestores`, `ImportNeverDangles`, `ServedAsLoggedIn`, `CompletedIsApplied`, `CacheFollowsStore`, `RunReachesItsJobManager`, `RoutedLikeABroker`, `MigrationConverges` |

Four runs document disagreements (section 5) and are expected to fail:
`jobmaster_false_branch`, `jobmanager_page`, `jobmanager_final`,
`plan_dispatch_startup`.

*What the properties outside the core say.*

- `PoolSized`: pools stay within their bounds, and without the scaling loop a pool
  is sized for all calls that have their capacity once no scale call is on its
  way, but for those that a later call undercut because it could not read the size.
  `IdlePoolsShrink`: with the loop an idle pool goes back to its minimum, in
  a process that knows of all its pods (`Tracked`): one that restored no counters,
  and in which no call raised the pool between the loop's request and its note.
- `CronDuplicatesNeedStaleView`: two replicas hold the cron entry of one flow only
  if they registered it from different peer lists, or from an empty one.
  `ActiveRunsServed`: a defined flow whose run stays active gets its JobManager
  Deployment and everything the pod mounts. `OrphansCollected`: all Deployments of
  a deleted flow go away, also those a stopping JobManager creates late.
- `AnswerSound`: an execution returns what a script of its own plan did, or the
  result of another execution of the run that overlapped with it; a lone execution
  is never mistaken. `StatusSound`: the final status tells the truth about
  `result.json` unless two slots shared the directory or a write in it failed.
  `ExecutionAnswered`: an execution is answered before its timeout even when the
  result message is lost or `result.json` cannot be written, because either will
  do; not when its script hangs, or every slot does. `FilterImplementsPolicy`: the
  installed program and the notifier decide every call as the table above
  `buildBPF` and the policy prescribe, but for a raw socket type with flags.
- `CacheFollowsStore`: a replica's copy of a flow is its row until a write goes past
  the replica (by another replica, the console, or with a lost answer) or meets
  another request. `RunReachesItsJobManager`: a run created by trigger, webhook or
  A2A through such a copy carries the namespace its JobManager polls. `ChangeIsListed`: once changes
  cease, every watcher has listed the last one.
- `PaymentAuthorized`: whatever was settled is within the policy's assets and
  chains, within its domains where the URL names the host plainly, within its
  limit and approved by a human above the threshold where the amount parses, and
  carries a signature over its own payload by a key that was stored under that name.
- `VerdictEarned`: a node is reported done only if the answers of models, tools,
  sandboxes and voters, over all retries, entitle it to; agents fail only after
  their last retry; every strategy of a committee decides as its name says, two
  thirds being rounded down; the saved row agrees with the report. A human node is
  done when an approval was stored and is waited for: that it was given is not
  what the code, and so not what the property, says.
- `ImportRestores`: after an import every imported row nobody else touched, and
  SQLite has not replaced by one with its id, is as in the backup and usable. `ImportNeverDangles`: an import of a closed backup
  into closed tables at no point leaves a flow or a run behind that names a missing
  row, in SQLite but for rows replaced by one with the same id; skills are
  excepted, which the import writes before their agents.
- `ServedAsLoggedIn`: a request is served as an identity that was proved within
  the validity of its token, counted from the end of the login. `CompletedIsApplied`: a completed A2A task was carried
  out. `RoutedLikeABroker`: every message reaches, once, the handlers a broker
  would choose. `MigrationConverges`: a starter that reports
  no error leaves the full schema unless a rename error was swallowed, and one
  fails only when its own statement did or another recorded a file meanwhile.

*Why the bounds suffice.* Three nodes give every combination of a conditional
edge, a plain edge and a failure at one node; the diamonds add a join of two
branches and a condition behind a condition. Two processes and three values are a
holder, a thief after expiry and a second claim of the first process, which is
the case the shared map is about. Two faults are, for instance, a late expiry and
a crash. One run is enough for the lock properties, because keys of different
runs are independent; two are needed for the page. Two calls for one key arise
when a run is executed again while the first execution still waits; the third
call shares the run, and so the subscription, but not the key. `plan_dispatch`
uses one pod: which pod takes a plan does not matter to the JobManager's side.
Two replicas with one flow have every disagreement about an owner; the cleanup
timeout is one tick, since only "before" and "after" differ. Two sandbox
executions share topic, directory, or both; two attempts are a failing one and
the last one (the code has five). Two scheduling calls are one that raises a pool
and one that found it large enough. In `services` two concurrent requests, one
fault and one or two writes reach each race the handlers have between their own
steps; the bounds are in `MCServices` and `Services.cfg`. The tables have one write
of a caller or one outage besides an import, the flows two writes or restarts
together; the database is SQLite or PostgreSQL for the tables and the migrations.
Payments include a URL with a user name and a password, a redirect and an amount
that does not parse. Its symmetry permutes `Calls` and `Servers`, and it checks
invariants only. In `rm_scaling` one call uses the sandbox pool and both the other.

*Fairness.* `JobMaster.FairSpec`: the goroutine keeps running and `Schedule`
returns, which its plan timeout guarantees. `JobManager.FairSpec`: pollers tick,
goroutines run, time passes, and - strongly - a run that is claimed again and
again once stores RUNNING before its lock is lost, since the write is sent at
once and the first extension comes a minute later. `PlanDispatch.FairSpec`:
goroutines run, executors return, and messages on a sound connection arrive; the
timeout is a failure and gets no fairness, so `WaiterIsAnswered` cannot be
satisfied by calls that give up; nor does `ExecutionAnswered` profit from the
sandbox timeout. `Controller`: the ticker of every replica fires, Kubernetes
restarts crashed pods and follows Deployments, the clock moves. `RMScaling`: the
loop's ticker, the steps of calls that were made, pods and time; the process is
restarted and cached state expires. `SandboxExec`: messages that are not lost
arrive, workers and pollers run; a worker whose script hangs gets none, since
nothing ends what the script left behind. `FlowWatch`: a caller polls again. There is never
fairness on faults, users' requests, creation or cancellation.

`CHECK_DEADLOCK FALSE` is set where the system really may come to rest: all runs
finished, all calls returned, all requests served. `JobMaster` ends in an explicit
`Terminated`; the controller and the scaling loop never rest.

## 4. Proofs

Every theorem holds for every value of the constants under the named assumptions
of the modules: finiteness where something is counted (`Calls`, `JMs`, `Slots`),
nonempty sets, types of the parameters, and that values standing for "nothing"
are not among the others. Four say something about the repository:

- `ControllerAssumption` types the list of pods, which every replica gets from the
  same API, and the hash, which is a function of the flow only;
- `FilesAssumption` says that every migration file set creates each table before
  it creates an index on it or alters it, which the shipped SQL does. Without it
  a single undisturbed starter could fail;
- `ResourcesAssumption` says that tables and backups hold rows as the handlers and
  an export write them: each row once, a flow naming agents and MCP servers only,
  no namespace empty, and fresh ids that are keys. (`TextsAssumption` only tells
  the prover that the words of the code are strings.)
- `AddressesAssumption` says that no namespace, flow, run or pod is called `+`. A
  flow of that name would turn its topics into filters.

The properties are seldom inductive. What had to be added, and why:

- **JobMasterProofs.** `IInv` adds that a
  dispatched node is in `Schedule` or has returned (`DispatchInv`), that the
  *gates* of a dispatched or waiting node - its plain dependencies, and a
  dependency that is its only one - have completed or were skipped, and neither
  run, wait in the same snapshot nor have failed (`GateInv`), what that means for a node behind one condition
  (`BranchInv`), and how the outcome and the stored status are related
  (`OutcomeInv`). `GateInv` is the heart: a skipped node may still be in the
  snapshot and be dispatched, so "skipped" alone does not keep it from failing
  later; what does is that the dependents of such a node cannot have been
  dispatched before it. `NeverStuck` uses acyclicity as the existence of a minimal
  unsettled node. `ExecutionContract` is the refinement of `RunExecution`.
- **JobManagerProofs.** `Exclusive` rests on `OwnerHasRow`: until its lock expires
  under it, an owner has the unexpired row of its run. `RowIsRespected` rests on
  `HeldByClaimant`: a process only remembers values of its own live claims.
  `ReexecutionBounded` has two parts. Until a run has begun, it has no claim or
  one, whose holder has row and map entry for itself (`ClaimedOnce`); afterwards a
  claim is paid for by striking the run from a page, so the claims and the pages
  that still list the run are together at most one more than the pollers
  (`ClaimsPaid`). No page can list it again, because a poll keeps only pending
  runs.
- **PlanDispatchProofs.** `RegistrationLive` and `WaiterRegistered` are inductive
  together with `EmptyBefore` (a channel is empty before it is registered) and
  `OverlapIsSeen`. `AnswerMatches` needs `OnlyPublished`; `NoAnswerLost` needs
  that registered calls are routed and that, without faults, every routed run is
  subscribed.
- **ControllerProofs.** `CronSharded` needs that a replica's entries are flows it
  owns in the list it registered them from (`CronOwned`); two replicas with the
  same nonempty list then cannot own the same flow, the owner being a function of
  list and hash. `PodsAreMounted` rests on `InfraIsKept`, an action property: no
  step of anybody removes an object of the namespace. `SelectSeq` comes without
  usable facts, so `PeerLists` types the peer lists as what it makes of the pods.
- **RMScalingProofs.** `PoolsAreSized` follows from `Ranked`: where a Deployment is
  too small for k plans, fewer than k calls that were not undercut have asked for
  less. Saying instead that
  the Deployment fits the counter is not inductive, because a call computes its
  size under the mutex and others count themselves in meanwhile; each of those
  still has its own request to come. `CountersCover`, the counter never being
  below the calls it is counted for, holds through failures and restarts.
- **SandboxExecProofs.** Two invariants. `AnswerInv` says where a result can come
  from: a worker that has read a script has one of its job's plan (`SlotsBusy`,
  `Written`), files and messages carry that plan (`OwnPlan`), and who listens on
  the shared topic has everything under way on its list of rivals (`Overheard`).
  `StatusInv` is about one directory: outside `contended` it has one worker
  (`OneWorker`), outside `broken` its writes took effect, and the final status is gone before the result is touched and
  written after it (`StatusLast`). `PolicyIsImplemented`, the theorem about the
  filter, goes through the whole pipeline. `BuildBPFIs`: both list modes generate
  the same 29 instructions (`Listing`). `RoundTrip`: what `ScriptCmd` encodes
  into bytes `ChildMain` decodes again, for every program whose fields fit their
  widths; the flattening of the encoded instructions is recursive, so the lemma
  argues from a least position at which it would differ (`Least`, `Flattened`).
  `FilterInv` then has three parts: what is installed in each phase (`Installed`),
  what is known of the call and the accumulator at each of the 29 instructions the
  machine can reach (`Reached`), and that a decision is the prescribed one
  (`Decided`). The last two are inductive only together: that no jump goes astray
  is what makes a decision right. Policies, host names and calls are arbitrary;
  nothing is assumed about them.
- **PaymentsProofs.** Every key the daemon may sign with was stored under its name
  (`KeysStored`); policy and human admitted a call as far as it has come
  (`Admitted`); requests and responses carry the offer of their call, which no
  longer changes (`Addressed`); a signature is taken once (`SignedOnce`).
  `SettledForGood` is the action property: late and repeated messages, restarts
  and key changes leave a settled call alone.
- **ServicesProofs.** One invariant per component, and a lemma that the others'
  steps leave it alone.
  *A2A*: an answer not yet reported stands for the last action carried out, and
  the last event in the queue is as truthful as the state (`Performed`,
  `Truthful`): the queue may still hold the event that makes a task completed.
  *Auth*: identities were proved in the past, a login at the group lookup has its
  password checked, a token expires a validity after a proof (`Past`, `Checked`,
  `Issued`). Access and refresh validity are unrelated constants, so the theorem
  speaks of either.
  *FlowAPI*: what a request carries from one step to the next is still so in the
  table as long as the flow is untainted (`AllFresh`); a write through a replica
  mends its copy, one that goes past it, or is answered with an error, taints it. `SameNamespace` is the
  lemma that handlers and Controller derive the same namespace.
  *Executors*: where a call is says what its executor has heard (`Underway`), what
  it returned agrees with that (`Outcome`), and so does what is stored and
  reported (`Concluded`). For the committee the votes for and against are counted
  as cardinalities of disjoint sets of positions, for any number of members.
  *Migration*: recorded files are in effect (`AllApplied`), which lasts because
  the schema only grows (`Grows`); a process has the files before its own recorded
  and of its own what it has executed, unless it was overtaken (`ProcessInv`).
  *Resources*: every write of a caller, of the engine or of a command touches one
  row and says so (`Edit`), so one lemma covers them all. What an import is past is
  restored, kind by kind and, in the current kind, row by row (`Importing`), and no
  flow or run it has written names a missing row (`NoneDangles`). The second needs
  the first: when a flow is written, the agents and MCP servers it names are in
  kinds of a smaller `Rank`, which the queue is ordered by (`Ordered`), so they are
  there or somebody else removed them. `Exporting` says that a file is a backup
  while it is still being written.
  *LocalMessager*: a topic matches the filters of its own kind and address only,
  so at most one filter of the map matches, and the handlers under it are
  those the message is for (`Subscriptions`, `ChosenRight`); this is where the
  topics are taken apart segment by segment. `Delivering` says that a message has
  one publisher, who has still to call whoever has not heard it. That all workers
  of a pool have a turn before one gets its next (`Fair`) is a statement about
  pairs of messages of the log; it follows from counting, for every message so far,
  how many turns the pool has taken since (`TurnsTaken`), with workers subscribing
  in between.

Only model-checked is liveness: `Termination`, `PendingIsPickedUp`, `ChangeIsListed`,
`WaiterIsAnswered`, `IdlePoolsShrink`, `ActiveRunsServed`, `OrphansCollected`,
`ExecutionAnswered`. They rest on fairness, which the prover cannot handle.

## 5. What was found

With a run:

1. *False branches can run* (`jobmaster_false_branch`). The documentation says
   false-branch children never appear in `Ready()`. A child that has another,
   completed dependency is ready while its conditional edge is dormant, and the
   dispatch loop does not look at `skipped` again.
2. *A finished run can be executed again* (`jobmanager_final`). A poller works off
   a stale page and the lock does not protect the status. `BoundedReexecution`
   bounds the damage: once per poller whose page listed the run.
3. *Pending runs behind a full page starve* (`jobmanager_page`). The list is cut
   to the newest 50 runs before it is filtered by status. The run uses a page of
   one and two runs instead of 50 and 51.
4. *Plans can be published to nobody* (`plan_dispatch_startup`). Pods have no
   readiness probe, so availability does not mean that slot workers have subscribed.

Met while modelling; the properties of section 3 are stated so that they hold
next to these, or the model contains them:

- *Runs.* Duplicate node ids are not rejected (`jobmaster.go:141`). A run whose
  flow timeout expires or whose lock is lost keeps its status RUNNING. Cancel only
  writes the status (`flow_run.go:177`): the JobManager is not told and overwrites it. Runs created
  by `FlowRunHandler.Create` and by the console have no Kubernetes namespace, so
  no JobManager polls them. The default run lock is in the memory of one process
  (`cmd/jobmanager.go:243`), and it frees another goroutine's claim after an
  expiry; the all-in-one sets none (`allinone.go:259`). The HTTP client has no
  timeout (`flowgent_client.go:47`).
- *Runs whose flow is gone* are passed over at every poll (`jobmanager.go:107-109`)
  and stay PENDING; `PendingIsPickedUp` has that step only as a bounded fault.
- *Scaling.* A Get that fails is taken for a size of 0 and the Deployment may be
  lowered (`kubernetes.go:440-443`, `:568-571`); the size after a scale-down is
  stored outside the mutex (`:409`, `:534`), so a raise in between is forgotten.
  `Shutdown` scales a deployment that replicas share (`kubernetes.go:929`); restored counters are never decremented; the scaling
  loop and `HeartbeatMonitor` are never started; a failed `Subscribe` is ignored
  (`kubernetes.go:293`); the MQTT client reconnects only on use (`mqtt.go:52`).
- *Controller.* Replicas with different peer lists register the same trigger, and
  both fire, although `controller.go:209-211` says exactly once.
- *Sandbox.* The result topic is called point-to-point and is shared per run; a
  node executed again may find the `result.json` of the first time. The errors of
  writing `result.json` and `status` are dropped (`sandboxmanager.go:464-467`,
  `:337`, `:345`); `cmd.Wait` (`:318`) waits for whatever holds the output of a
  script whose timeout has passed, for there is neither a wait delay nor a process
  group. Mode "none" installs no filter although `bpf.go:29-32` has it.
  `docs/01-L1-Engine-Architecture.md:1605` and `:1635-1637` send `sendto`, `sendmsg` and
  `sendmmsg` to the notifier, while `bpf.go:30-32` and the program allow them:
  the model follows the code. `bpf.go:28` and `docs/01-L1-Engine-Architecture.md:1602`, `:1638` block
  SOCK_RAW, while the program compares the whole argument, which may carry
  SOCK_CLOEXEC or SOCK_NONBLOCK.
- *Flow definitions.* Two handlers write the map without the lock
  (`flow_def.go:321`, `:335`); a Get that overlaps a Delete brings the flow back
  into the cache, an Update after a concurrent Delete brings the row back; webhook
  dispatch looks only at the replica's cache, although `webhook.go:32-33` says it
  finds every flow; the console and its imports write the table past every replica
  (`core.go:182-196`, `import.go:237`, `:358`, `:385`), and a write that succeeds with
  a lost answer leaves the copy behind (`flow_def.go:232`, `:317`, `:330`).
  `LoadFromDB` reads at most 1000 rows and uses the page before it looks at the
  error;
  `WatchFlows` callers never advance `since`, and the version restarts at 1.
- *Payments.* The spending is read under the intent's recipient (`policy.go:106`)
  and recorded under the default wallet (`x402_httpclient.go:158`), and checking
  and recording are separate steps: the daily budget of
  `docs/02-L1-x402-Economic-Support.md:82` and `:136` is not kept (TLC refutes it
  at once). The ledger is in memory; `SetDefaultWallet` is never called, so the
  shipped client never gets a signature; the error of `ParseAssetAmount` is
  dropped, so that such an amount counts as 0; `extractDomain` (`policy.go:155-169`)
  keeps letter case and a user name, and redirects are followed after the check;
  status 200 of the facilitator counts as paid although its body may say
  `success: false` (`facilitator.go:141-152`); the factory never sets an approver; keys of a wrong length panic in
  `ed25519.Sign`; the console stores keys in its own database,
  and a bulk import stores one without a name (`import.go:406-415`), which adding a
  key refuses.
- *Approvals.* `docs/01-L1-Engine-Architecture.md:725` calls a human node an approval gate with a
  timeout; `HumanExecutor` returns at once, the node counts as done before anybody
  decided, and nothing consumes WAITING_HUMAN; `CreateApproval` does not decode its answer, so the token is
  empty; Approve and Reject overwrite any status.
- *Executors.* "majority_strict", a "2/3 super-majority" in
  `jobmanager_it_test.go:345`, divides integers: it accepts 1 of 2, 0 of 1 and
  0 of 0 votes, up to two votes less than two thirds ask for, and unanimity accepts an empty vote. A missing field makes `!=`
  true; a comparison inside braces is textual, outside it is numeric.
  `resolveProvider` takes any provider whose name begins the model's, in map order.
  MCP answers with `IsError` count as success. Providers and MCP servers are listed
  once, at start. The standalone resource manager drops a result's error
  (`standalone.go:69`). The answer `null` to a supervisor panics (`supervisor.go:70`).
  Map, subflow and skill executors are stubs.
- *Resources.* `INSERT OR REPLACE` in SQLite (`sqlite.go:102`) removes another agent
  or MCP server with the same id for good, where PostgreSQL refuses the new one. Import keeps the LLM status "active" while the runtime wants
  "ACTIVE"; it moves every row into the console's namespace, duplicates runs and
  imports skills before their agents; export ignores errors and namespaces. POST of
  an existing agent or MCP server overwrites it, PUT of an LLM provider or channel
  clears its namespace. The console's `add` leaves the id empty, so the second one
  violates the primary key. `ListAgents` of the client expects a list where the
  handler sends a page.
- *Authentication.* An unknown `jwt_algorithm` signs with ES256 and is then
  compared with the configured name: every token is refused. Replicas without
  configured keys generate different ones. A refresh token is accepted as an access
  token. A second OIDC login overwrites the state cookie of the first. One user
  name in two LDAP domains is one user id. Nothing makes a refresh token outlive
  the access token issued with it.
- *A2A.* Deleting a missing flow or cancelling an unknown run is reported as done;
  cancelling a task does not stop its call; a failed task may have been applied.
- *Notifier.* It asks for `/api/v1//notifications/channels` and decodes a list
  where the handler sends a page, so nothing is ever sent. Behind that: senders are
  shared per type, each pod announces, WebSocket clients are looked up by task id
  though stored by connection, routes by run id though stored by flow id.
- *Messager.* The in-process messager knows no `#` and no unsubscribe, and panics
  on Subscribe after Close. Nobody subscribes to the control topics.
- *Migrations.* Errors are logged on PostgreSQL and panic on SQLite; rename errors
  are swallowed; the PostgreSQL rename scans a count into a Boolean and so never
  sees the new column; of two concurrent starters one fails on the primary key.

## 6. Not modelled

- *Notifier*: as shipped it never sends (above), so a model would be about code
  that does not run.
- *Memory and redis locks*: the first excludes nothing between processes, the
  second cannot be configured. *Cache*: a key-value store with expiry, of which
  `RMScaling` has the part it uses.
- *Configuration, tracing, utilities, entities, binaries, Web UI, use cases,
  manifests*: data, parsing, wiring and presentation. The choices of the binaries
  (which lock, no scaling loop, no approver) are constants or initial states.
- *Data mapping*: SQL text, the HTTP formats of the three model APIs, the JSON
  schema check, prompts, the contents of Deployments, task-run rows of the API,
  knowledge search, metrics, listing commands of the console.
- *In modelled components*: HTTP calls that hang for ever, the round robin inside
  one MQTT client, deletion of runs, plans taken by the pods of another flow (the
  shared topic is a wildcard), pages of 100 runs in the controller, cryptography
  (a signature is a record of key and payload), Docker in place of a process.

## 7. Plan

Done: everything of section 2, and a theorem for every invariant, every action
property and the refinement that the runs check. Liveness stays with TLC. The hazards
without a property (the budget of the x402 client, runs left RUNNING, plans lost
with their pod, the dropped error of the standalone resource manager) are what the
code does (section 5): their properties can be stated once it is changed.
