----------------------------- MODULE JobManager -----------------------------
(***************************************************************************)
(* How pending runs find a JobMaster: the poller of each JobManager        *)
(* process (StartRunPoller and claimRun of                                 *)
(* pkg/core/pkg/engine/jobmanager/jobmanager.go), the distributed lock     *)
(* that guards a run (pkg/core/pkg/lock), and the run table behind the API *)
(* server (pkg/api/pkg/handler/flow_run.go).                               *)
(*                                                                         *)
(* A poller lists the pending runs, and for each item of that page - which *)
(* may be stale by then - takes the run's lock and starts a goroutine that *)
(* executes the run (the steps of RunExecution.tla) while a second one     *)
(* extends the lock.  The unique lock value (a uuid) identifies the claim. *)
(* A process keeps the value it holds for a run in one map, which all its  *)
(* goroutines share.  Time is abstract: a lock may expire at any moment,   *)
(* and `late` records the runs whose lock expired under a live claim.      *)
(*                                                                         *)
(* Left out: the namespace and flow filters of the page, which are fixed   *)
(* per process, and the timestamps of a run.                               *)
(***************************************************************************)
EXTENDS Naturals, Sequences, FiniteSets

CONSTANTS
  JMs,        \* JobManager processes
  Runs,       \* run ids
  Values,     \* lock values
  None,       \* the absent lock value
  Locked,     \* SetRunLock was called with a postgres lock; the all-in-one
              \* binary sets no lock
  PageSize,   \* page size of the poller (50 in the code)
  MaxFaults   \* bound on crashes, failed calls and late expiries

ASSUME ProcessAssumption  == JMs # {} /\ IsFiniteSet(JMs) /\ Runs # {}
ASSUME LockedAssumption   == Locked \in BOOLEAN
ASSUME NoneAssumption     == None \notin Values
ASSUME PageSizeAssumption == PageSize \in Nat
ASSUME FaultsAssumption   == MaxFaults \in Nat

VARIABLES
  status,    \* the status column of the run table, "absent" before creation
  created,   \* the runs in the order of created_at
  lockValue, \* dlocks.lock_value of each run's key, None without a row
  unexpired, \* the runs whose row has expires_at in the future
  held,      \* PostgresLock.locks of each process
  page,      \* what is left of the page each poller iterates over
  phase,     \* where the goroutine started for each lock value is
  jmOf,      \* its process
  runOf,     \* its run
  cancelled, \* the goroutines whose context was cancelled
  late,      \* history: runs whose lock expired under a live claim
  claims,    \* history: how often each run was claimed before the first fault
  faults     \* number of faults so far

lockVars == <<lockValue, unexpired, held>>
claimVars == <<phase, jmOf, runOf, cancelled>>
histVars == <<late, claims>>
vars == <<status, created, lockValue, unexpired, held, page, phase, jmOf, runOf,
          cancelled, late, claims, faults>>

Statuses == {"absent", "PENDING", "RUNNING", "COMPLETED", "FAILED", "CANCELLED"}

\* The phases of a claim; a claim owns its run from TryLock until Release.
Owning == {"locking", "start", "running", "returned"}
Phases == Owning \cup {"free", "forget"}

\* What jmOf and runOf hold for a value that is free.
SomeJM  == CHOOSE j \in JMs : TRUE
SomeRun == CHOOSE r \in Runs : TRUE

\* The values no goroutine, row or map uses.
Unused ==
  {v \in Values : /\ phase[v] = "free"
                  /\ \A r \in Runs : lockValue[r] # v
                  /\ \A j \in JMs, r \in Runs : held[<<j, r>>] # v}

\* uuid.New returns some unused value; which one does not matter.
Fresh(v) == v \in Unused /\ v = CHOOSE u \in Unused : TRUE

\* Claims are only counted as long as nothing has gone wrong.
Counted(r) == IF faults = 0 THEN [claims EXCEPT ![r] = @ + 1] ELSE claims

Fault == faults < MaxFaults /\ faults' = faults + 1

Init ==
  /\ status = [r \in Runs |-> "absent"]
  /\ created = << >>
  /\ lockValue = [r \in Runs |-> None]
  /\ unexpired = {}
  /\ held = [k \in JMs \X Runs |-> None]
  /\ page = [j \in JMs |-> {}]
  /\ phase = [v \in Values |-> "free"]
  /\ jmOf = [v \in Values |-> SomeJM]
  /\ runOf = [v \in Values |-> SomeRun]
  /\ cancelled = {}
  /\ late = {}
  /\ claims = [r \in Runs |-> 0]
  /\ faults = 0
-----------------------------------------------------------------------------
(* The API server *)

CreateRun(r) ==
  /\ status[r] = "absent"
  /\ status' = [status EXCEPT ![r] = "PENDING"]
  /\ created' = Append(created, r)
  /\ UNCHANGED <<lockVars, page, claimVars, histVars, faults>>

\* Cancel overwrites any status; nothing tells the JobManager.
CancelRun(r) ==
  /\ status[r] \notin {"absent", "CANCELLED"}
  /\ status' = [status EXCEPT ![r] = "CANCELLED"]
  /\ UNCHANGED <<created, lockVars, page, claimVars, histVars, faults>>

\* List selects the PageSize newest runs and filters them by status afterwards.
ListRuns ==
  {created[i] : i \in {k \in 1..Len(created) :
                         k + PageSize > Len(created) /\ status[created[k]] = "PENDING"}}
-----------------------------------------------------------------------------
(* The poller of process j *)

\* The poller goroutine is not inside TryLock.
Idle(j) == \A v \in Values : ~(phase[v] = "locking" /\ jmOf[v] = j)

\* A tick: the previous page has been worked off.
Poll(j) ==
  /\ Idle(j)
  /\ page[j] = {}
  /\ ListRuns # {}
  /\ page' = [page EXCEPT ![j] = ListRuns]
  /\ UNCHANGED <<status, created, lockVars, claimVars, histVars, faults>>

\* GetFlow failed, or TryLock failed before it changed the lock table.
SkipRun(j, r) ==
  /\ Idle(j) /\ r \in page[j]
  /\ Fault
  /\ page' = [page EXCEPT ![j] = @ \ {r}]
  /\ UNCHANGED <<status, created, lockVars, claimVars, histVars>>

\* TryLock finds an unexpired row of somebody.
Busy(j, r) ==
  /\ Idle(j) /\ r \in page[j]
  /\ Locked
  /\ r \in unexpired
  /\ page' = [page EXCEPT ![j] = @ \ {r}]
  /\ UNCHANGED <<status, created, lockVars, claimVars, histVars, faults>>

\* TryLock takes the row, but its answer is lost: nobody knows the value.
TryLockLost(j, r, v) ==
  /\ Idle(j) /\ r \in page[j]
  /\ Locked
  /\ Fresh(v)
  /\ r \notin unexpired
  /\ Fault
  /\ lockValue' = [lockValue EXCEPT ![r] = v]
  /\ unexpired' = unexpired \cup {r}
  /\ page' = [page EXCEPT ![j] = @ \ {r}]
  /\ UNCHANGED <<status, created, held, claimVars, histVars>>

\* The goroutine of claim v reaches phase p.
GoTo(v, p) ==
  /\ phase' = [phase EXCEPT ![v] = p]
  /\ UNCHANGED <<jmOf, runOf, cancelled>>

\* The goroutines of claim v are gone.
Done(v) ==
  /\ phase' = [phase EXCEPT ![v] = "free"]
  /\ jmOf' = [jmOf EXCEPT ![v] = SomeJM]
  /\ runOf' = [runOf EXCEPT ![v] = SomeRun]
  /\ cancelled' = cancelled \ {v}

\* Claim v of run r is made by process j and starts in phase p.
NewClaim(j, r, v, p) ==
  /\ phase' = [phase EXCEPT ![v] = p]
  /\ jmOf' = [jmOf EXCEPT ![v] = j]
  /\ runOf' = [runOf EXCEPT ![v] = r]
  /\ cancelled' = cancelled \ {v}
  /\ claims' = Counted(r)

\* Mutant: ON CONFLICT DO UPDATE without its WHERE clause.
TryLockSteal(j, r, v) ==
  /\ Idle(j) /\ r \in page[j]
  /\ Fresh(v)
  /\ lockValue' = [lockValue EXCEPT ![r] = v]
  /\ unexpired' = unexpired \cup {r}
  /\ NewClaim(j, r, v, "locking")
  /\ page' = [page EXCEPT ![j] = @ \ {r}]
  /\ UNCHANGED <<status, created, held, late, faults>>

\* Mutant: an expired row blocks its key like a live one.
TryLockNeverExpired(j, r, v) ==
  /\ Idle(j) /\ r \in page[j]
  /\ Fresh(v)
  /\ lockValue[r] = None
  /\ lockValue' = [lockValue EXCEPT ![r] = v]
  /\ unexpired' = unexpired \cup {r}
  /\ NewClaim(j, r, v, "locking")
  /\ page' = [page EXCEPT ![j] = @ \ {r}]
  /\ UNCHANGED <<status, created, held, late, faults>>

\* TryLock inserts the row, or replaces one that has expired.  The status of
\* the run is not read again.
TryLock(j, r, v) ==
  /\ Idle(j) /\ r \in page[j]
  /\ Fresh(v)
  /\ r \notin unexpired
  /\ lockValue' = [lockValue EXCEPT ![r] = v]
  /\ unexpired' = unexpired \cup {r}
  /\ NewClaim(j, r, v, "locking")
  /\ page' = [page EXCEPT ![j] = @ \ {r}]
  /\ UNCHANGED <<status, created, held, late, faults>>

\* The new value enters the shared map and the goroutines are started.
Remember(v) ==
  /\ phase[v] = "locking"
  /\ held' = [held EXCEPT ![<<jmOf[v], runOf[v]>>] = v]
  /\ GoTo(v, "start")
  /\ UNCHANGED <<status, created, lockValue, unexpired, page, histVars, faults>>

\* Without a lock (the all-in-one binary sets none) the goroutine starts at once.
ClaimUnlocked(j, r, v) ==
  /\ r \in page[j]
  /\ Fresh(v)
  /\ NewClaim(j, r, v, "start")
  /\ page' = [page EXCEPT ![j] = @ \ {r}]
  /\ UNCHANGED <<status, created, lockVars, late, faults>>

ClaimRun(j, r, v) == IF Locked THEN TryLock(j, r, v) ELSE ClaimUnlocked(j, r, v)
-----------------------------------------------------------------------------
(* The goroutine of claim v: Submit, and the deferred release *)

\* The row of r's key is deleted.
DeleteRow(r) ==
  /\ lockValue' = [lockValue EXCEPT ![r] = None]
  /\ unexpired' = unexpired \ {r}

\* Mutant: the run is not marked RUNNING.
BeginUnmarked(v) ==
  /\ phase[v] = "start" /\ v \notin cancelled
  /\ GoTo(v, "running")
  /\ UNCHANGED <<status, created, lockVars, page, histVars, faults>>

\* Execute marks the run RUNNING.
Begin(v) ==
  /\ phase[v] = "start" /\ v \notin cancelled
  /\ status' = [status EXCEPT ![runOf[v]] = "RUNNING"]
  /\ GoTo(v, "running")
  /\ UNCHANGED <<created, lockVars, page, histVars, faults>>

\* That write fails, for sure once the context is cancelled; the error is
\* ignored and Execute goes on.
BeginUnstored(v) ==
  /\ phase[v] = "start"
  /\ IF v \in cancelled THEN UNCHANGED faults ELSE Fault
  /\ GoTo(v, "running")
  /\ UNCHANGED <<status, created, lockVars, page, histVars>>

\* Mutant: run.Status is not set before the write.
EndEmpty(v, result) ==
  /\ phase[v] = "running" /\ v \notin cancelled
  /\ status' = [status EXCEPT ![runOf[v]] = ""]
  /\ GoTo(v, "returned")
  /\ UNCHANGED <<created, lockVars, page, histVars, faults>>

\* Execute stores the terminal status, whatever the table says by now.
End(v, result) ==
  /\ phase[v] = "running" /\ v \notin cancelled
  /\ status' = [status EXCEPT ![runOf[v]] = result]
  /\ GoTo(v, "returned")
  /\ UNCHANGED <<created, lockVars, page, histVars, faults>>

\* The write of the terminal status failed.
EndUnstored(v) ==
  /\ phase[v] = "running" /\ v \notin cancelled
  /\ Fault
  /\ GoTo(v, "returned")
  /\ UNCHANGED <<status, created, lockVars, page, histVars>>

\* The flow timed out, is stuck, or its lock was lost: no write.
Leave(v) ==
  /\ phase[v] = "running"
  /\ GoTo(v, "returned")
  /\ UNCHANGED <<status, created, lockVars, page, histVars, faults>>

\* Mutant: Release deletes the row of the key, whatever its value.
ReleaseAnyValue(v) ==
  LET j == jmOf[v]  r == runOf[v] IN
  /\ phase[v] = "returned"
  /\ IF Locked /\ held[<<j, r>>] # None
     THEN /\ DeleteRow(r)
          /\ GoTo(v, "forget")
     ELSE /\ Done(v)
          /\ UNCHANGED <<lockValue, unexpired>>
  /\ UNCHANGED <<status, created, held, page, histVars, faults>>

\* Release, up to the DELETE: it looks the value up in the shared map and
\* deletes the row that carries it.
Release(v) ==
  LET j == jmOf[v]  r == runOf[v] IN
  /\ phase[v] = "returned"
  /\ IF Locked /\ held[<<j, r>>] # None /\ lockValue[r] = held[<<j, r>>]
     THEN /\ DeleteRow(r)
          /\ GoTo(v, "forget")
     ELSE /\ Done(v)
          /\ UNCHANGED <<lockValue, unexpired>>
  /\ UNCHANGED <<status, created, held, page, histVars, faults>>

\* Release fails: the row may be gone all the same, the map keeps the value.
ReleaseFailed(v) ==
  LET j == jmOf[v]  r == runOf[v] IN
  /\ phase[v] = "returned"
  /\ Locked /\ held[<<j, r>>] # None
  /\ Fault
  /\ \/ UNCHANGED <<lockValue, unexpired>>
     \/ lockValue[r] = held[<<j, r>>] /\ DeleteRow(r)
  /\ Done(v)
  /\ UNCHANGED <<status, created, held, page, histVars>>

\* The rest of Release: the key is deleted from the map, whatever value a
\* newer claim of the same process has put there since.
Forget(v) ==
  /\ phase[v] = "forget"
  /\ held' = [held EXCEPT ![<<jmOf[v], runOf[v]>>] = None]
  /\ Done(v)
  /\ UNCHANGED <<status, created, lockValue, unexpired, page, histVars, faults>>
-----------------------------------------------------------------------------
(* The lock *)

\* A tick of the extending goroutine: the value of the shared map is extended,
\* even when the row has expired; if it is gone the run is cancelled.
Extend(v) ==
  LET j == jmOf[v]  r == runOf[v] IN
  /\ Locked /\ phase[v] \in {"start", "running"} /\ v \notin cancelled
  /\ IF held[<<j, r>>] # None /\ lockValue[r] = held[<<j, r>>]
     THEN /\ unexpired' = unexpired \cup {r}
          /\ UNCHANGED claimVars
     ELSE /\ cancelled' = cancelled \cup {v} /\ UNCHANGED <<phase, jmOf, runOf>>
          /\ UNCHANGED unexpired
  /\ UNCHANGED <<status, created, lockValue, held, page, histVars, faults>>

\* The call fails: the run is cancelled although it may still own the lock.
ExtendFailed(v) ==
  /\ Locked /\ phase[v] \in {"start", "running"} /\ v \notin cancelled
  /\ Fault
  /\ cancelled' = cancelled \cup {v} /\ UNCHANGED <<phase, jmOf, runOf>>
  /\ UNCHANGED <<status, created, lockVars, page, histVars>>

\* The claims of r that own their run.
Owners(r) == {v \in Values : phase[v] \in Owning /\ runOf[v] = r}

\* expires_at passes for a row nobody extends any more.
Expire(r) ==
  /\ r \in unexpired
  /\ lockValue[r] \notin Owners(r)
  /\ unexpired' = unexpired \ {r}
  /\ UNCHANGED <<status, created, lockValue, held, page, claimVars, histVars, faults>>

\* expires_at passes under a live claim: the extending goroutine was not
\* scheduled in time, the call hung, or the clocks of process and database
\* differ (expires_at is computed from the clock of the process).
ExpireLate(r) ==
  /\ r \in unexpired
  /\ lockValue[r] \in Owners(r)
  /\ Fault
  /\ unexpired' = unexpired \ {r}
  /\ late' = late \cup {r}
  /\ UNCHANGED <<status, created, lockValue, held, page, claimVars, claims>>

\* Process j dies and is restarted; its rows stay until they expire.
Crash(j) ==
  /\ Fault
  /\ phase' = [v \in Values |-> IF jmOf[v] = j THEN "free" ELSE phase[v]]
  /\ jmOf' = [v \in Values |-> IF jmOf[v] = j THEN SomeJM ELSE jmOf[v]]
  /\ runOf' = [v \in Values |-> IF jmOf[v] = j THEN SomeRun ELSE runOf[v]]
  /\ cancelled' = {v \in cancelled : jmOf[v] # j}
  /\ held' = [k \in JMs \X Runs |-> IF k[1] = j THEN None ELSE held[k]]
  /\ page' = [page EXCEPT ![j] = {}]
  /\ UNCHANGED <<status, created, lockValue, unexpired, histVars>>
-----------------------------------------------------------------------------
PollerStep(j) ==
  \/ Poll(j)
  \/ \E r \in Runs : Busy(j, r) \/ \E v \in Values : ClaimRun(j, r, v)

ClaimStep(v) ==
  \/ Remember(v) \/ Begin(v) \/ Leave(v) \/ Release(v) \/ Forget(v)
  \/ v \in cancelled /\ BeginUnstored(v)
  \/ \E result \in {"COMPLETED", "FAILED"} : End(v, result)

FaultStep ==
  \/ \E j \in JMs : Crash(j)
  \/ \E j \in JMs, r \in Runs : SkipRun(j, r) \/ \E v \in Values : TryLockLost(j, r, v)
  \/ \E v \in Values : BeginUnstored(v) \/ EndUnstored(v) \/ ReleaseFailed(v) \/ ExtendFailed(v)
  \/ \E r \in Runs : ExpireLate(r)

Next ==
  \/ \E r \in Runs : CreateRun(r) \/ CancelRun(r) \/ Expire(r)
  \/ \E j \in JMs : PollerStep(j)
  \/ \E v \in Values : ClaimStep(v) \/ Extend(v)
  \/ FaultStep

Spec == Init /\ [][Next]_vars

\* Pollers tick, goroutines run (Execute returns: JobMaster.Termination), and
\* time passes.  The write of RUNNING is sent at once and the first extension
\* only comes a minute later, so a run that is claimed again and again does
\* write it some time.  No fairness on faults, creation or cancellation.
FairSpec ==
  /\ Spec
  /\ \A j \in JMs : WF_vars(PollerStep(j))
  /\ \A v \in Values : WF_vars(ClaimStep(v))
  /\ \A r \in Runs : WF_vars(Expire(r))
  /\ SF_vars(\E v \in Values : Begin(v))
-----------------------------------------------------------------------------
(* Properties *)

\* The types of the run table, the lock table and the processes' state.
TypeOK ==
  /\ status \in [Runs -> Statuses]
  /\ created \in Seq(Runs)
  /\ lockValue \in [Runs -> Values \cup {None}] /\ unexpired \subseteq Runs
  /\ held \in [JMs \X Runs -> Values \cup {None}]
  /\ page \in [JMs -> SUBSET Runs]
  /\ phase \in [Values -> Phases] /\ cancelled \subseteq Values
  /\ jmOf \in [Values -> JMs] /\ runOf \in [Values -> Runs]
  /\ late \subseteq Runs
  /\ claims \in [Runs -> Nat]
  /\ faults \in 0..MaxFaults

\* As long as no lock expired under its holder, a run has at most one owner
\* across all processes: neither crashes, lost answers, stale pages nor the map
\* the goroutines of a process share give it a second one (claimRun's purpose).
ExclusiveExecution ==
  \A r \in Runs \ late : Locked => \A u, v \in Owners(r) : u = v

\* Even after a late expiry, a step of one process never takes an unexpired row
\* away from a live claim of another (the value test in Release and TryLock).
RowRespected ==
  [][\A v, u \in Values :
       /\ phase[u] \in Owning /\ runOf[u] \in unexpired /\ lockValue[runOf[u]] = u
       /\ phase[v] # phase'[v]
       /\ (IF phase[v] = "free" THEN jmOf' ELSE jmOf)[v] # jmOf[u]
       => lockValue'[runOf[u]] = u]_vars

\* Under the lock and without faults a run is executed at most once for the claim
\* that found it pending and once for every poller whose page still listed it then.
BoundedReexecution ==
  Locked /\ faults = 0 => \A r \in Runs : claims[r] <= 1 + Cardinality(JMs)

\* A pending run does not stay pending for ever:
\* locks left behind by crashes and lost answers expire, pollers come back.
PendingIsPickedUp ==
  \A r \in Runs : status[r] = "PENDING" ~> status[r] # "PENDING"

\* docs/01-L1-Engine-Architecture.md 8.1: the status of a run goes
\* PENDING -> RUNNING -> COMPLETED/FAILED, so a terminal status is final but for
\* a request to cancel it.
TerminalIsFinal ==
  [][\A r \in Runs : 
       status[r] \in {"COMPLETED", "FAILED"} => status'[r] \in {status[r], "CANCELLED"}]_vars
=============================================================================
