-------------------------- MODULE JobManagerProofs --------------------------
(***************************************************************************)
(* Proofs about JobManager, for any number of processes, runs and faults.  *)
(***************************************************************************)
EXTENDS JobManager, FiniteSetTheorems, TLAPS

\* The placeholders of a free value are a process and a run.
LEMMA SomeType == SomeJM \in JMs /\ SomeRun \in Runs
BY ProcessAssumption DEF SomeJM, SomeRun

\* The page holds existing runs.
LEMMA PageType == TypeOK => ListRuns \subseteq Runs
BY DEF TypeOK, ListRuns

\* The steps of Next, one by one.
LEMMA NextCases ==
  ASSUME [Next]_vars
  PROVE  \/ \E r \in Runs : CreateRun(r) \/ CancelRun(r) \/ Expire(r) \/ ExpireLate(r)
         \/ \E j \in JMs : Poll(j) \/ Crash(j)
         \/ \E j \in JMs, r \in Runs : Busy(j, r) \/ SkipRun(j, r)
         \/ \E j \in JMs, r \in Runs, v \in Values :
              TryLock(j, r, v) \/ TryLockLost(j, r, v) \/ (~Locked /\ ClaimUnlocked(j, r, v))
         \/ \E v \in Values : \/ Remember(v) \/ Begin(v) \/ BeginUnstored(v) \/ Leave(v)
                              \/ EndUnstored(v) \/ Release(v) \/ ReleaseFailed(v) \/ Forget(v)
                              \/ Extend(v) \/ ExtendFailed(v)
         \/ \E v \in Values, result \in {"COMPLETED", "FAILED"} : End(v, result)
         \/ UNCHANGED vars
BY DEF Next, PollerStep, ClaimRun, ClaimStep, FaultStep

\* Every step preserves the types.
LEMMA TypeStep == TypeOK /\ [Next]_vars => TypeOK'
<1> SUFFICES ASSUME TypeOK, [Next]_vars PROVE TypeOK'
  OBVIOUS
<1> USE FaultsAssumption, SomeType
    DEF TypeOK, lockVars, claimVars, histVars, Fault, Statuses, Phases, Owning
<1>1. ASSUME NEW r \in Runs, CreateRun(r) PROVE TypeOK'
  BY <1>1 DEF CreateRun
<1>2. ASSUME NEW r \in Runs, CancelRun(r) PROVE TypeOK'
  BY <1>2 DEF CancelRun
<1>3. ASSUME NEW r \in Runs, Expire(r) \/ ExpireLate(r) PROVE TypeOK'
  BY <1>3 DEF Expire, ExpireLate
<1>4. ASSUME NEW j \in JMs, Poll(j) PROVE TypeOK'
  BY <1>4, PageType DEF Poll
<1>5. ASSUME NEW j \in JMs, Crash(j) PROVE TypeOK'
  BY <1>5 DEF Crash
<1>6. ASSUME NEW j \in JMs, NEW r \in Runs, Busy(j, r) \/ SkipRun(j, r) PROVE TypeOK'
  <2>1. CASE Busy(j, r)
    BY <2>1 DEF Busy
  <2>2. CASE SkipRun(j, r)
    BY <2>2 DEF SkipRun
  <2> QED
    BY <1>6, <2>1, <2>2
<1>7. ASSUME NEW j \in JMs, NEW r \in Runs, NEW v \in Values,
             TryLock(j, r, v) \/ TryLockLost(j, r, v) \/ ClaimUnlocked(j, r, v)
      PROVE TypeOK'
  <2>1. Counted(r) \in [Runs -> Nat]
    BY DEF Counted
  <2>2. CASE TryLock(j, r, v)
    BY <2>1, <2>2 DEF TryLock, NewClaim
  <2>3. CASE TryLockLost(j, r, v)
    BY <2>3 DEF TryLockLost
  <2>4. CASE ClaimUnlocked(j, r, v)
    BY <2>1, <2>4 DEF ClaimUnlocked, NewClaim
  <2> QED
    BY <1>7, <2>2, <2>3, <2>4
<1>8. ASSUME NEW v \in Values,
             Remember(v) \/ Begin(v) \/ BeginUnstored(v) \/ Leave(v) \/ EndUnstored(v)
      PROVE TypeOK'
  <2>1. CASE Remember(v)
    BY <2>1 DEF Remember, GoTo
  <2>2. CASE Begin(v)
    BY <2>2 DEF Begin, GoTo
  <2>3. CASE BeginUnstored(v)
    BY <2>3 DEF BeginUnstored, GoTo
  <2>4. CASE Leave(v)
    BY <2>4 DEF Leave, GoTo
  <2>5. CASE EndUnstored(v)
    BY <2>5 DEF EndUnstored, GoTo
  <2> QED
    BY <1>8, <2>1, <2>2, <2>3, <2>4, <2>5
<1>9. ASSUME NEW v \in Values, Release(v) \/ ReleaseFailed(v) \/ Forget(v) PROVE TypeOK'
  <2>1. CASE Release(v)
    BY <2>1 DEF Release, DeleteRow, GoTo, Done
  <2>2. CASE ReleaseFailed(v)
    <3>1. CASE UNCHANGED <<lockValue, unexpired>>
      BY <2>2, <3>1 DEF ReleaseFailed, Done
    <3>2. CASE DeleteRow(runOf[v])
      BY <2>2, <3>2 DEF ReleaseFailed, DeleteRow, Done
    <3> QED
      BY <2>2, <3>1, <3>2 DEF ReleaseFailed
  <2>3. CASE Forget(v)
    BY <2>3 DEF Forget, Done
  <2> QED
    BY <1>9, <2>1, <2>2, <2>3
<1>10. ASSUME NEW v \in Values, Extend(v) \/ ExtendFailed(v) PROVE TypeOK'
  BY <1>10 DEF Extend, ExtendFailed
<1>11. ASSUME NEW v \in Values, NEW result \in {"COMPLETED", "FAILED"}, End(v, result)
       PROVE TypeOK'
  BY <1>11 DEF End, GoTo
<1>12. CASE UNCHANGED vars
  BY <1>12 DEF vars
<1> QED
  BY <1>1, <1>2, <1>3, <1>4, <1>5, <1>6, <1>7, <1>8, <1>9, <1>10, <1>11, <1>12, NextCases

\* The run table, the lock table and the processes only hold well-typed state.
THEOREM TypeCorrect == Spec => []TypeOK
<1>1. Init => TypeOK
  BY SomeType, FaultsAssumption
  DEF Init, TypeOK, Statuses, Phases
<1> QED
  BY <1>1, TypeStep, PTL DEF Spec
-----------------------------------------------------------------------------
(***************************************************************************)
(* The inductive invariant: until the lock of a run expires under its      *)
(* holder, whoever owns the run also has its unexpired row.                *)
(***************************************************************************)
OwnerHasRow ==
  Locked => \A v \in Values :
    phase[v] \in Owning /\ runOf[v] \notin late
      => lockValue[runOf[v]] = v /\ runOf[v] \in unexpired

\* Taking an expired or absent row gives nobody a run twice, and the row of an
\* owner is only removed by its own release.
LEMMA OwnerStep == TypeOK /\ OwnerHasRow /\ [Next]_vars => OwnerHasRow'
<1> SUFFICES ASSUME TypeOK, OwnerHasRow, [Next]_vars, Locked,
                    NEW u \in Values, phase'[u] \in Owning,
                    runOf'[u] \notin late'
             PROVE  lockValue'[runOf'[u]] = u /\ runOf'[u] \in unexpired'
  BY DEF OwnerHasRow
<1> USE NoneAssumption DEF TypeOK, OwnerHasRow, lockVars, claimVars, histVars, Owning
<1>1. CASE UNCHANGED <<lockValue, unexpired, phase, runOf, late>>
  BY <1>1
<1>2. ASSUME NEW r \in Runs, Expire(r) \/ ExpireLate(r)
      PROVE  lockValue'[runOf'[u]] = u /\ runOf'[u] \in unexpired'
  BY <1>2 DEF Expire, ExpireLate, Owners
<1>3. ASSUME NEW j \in JMs, Crash(j)
      PROVE  lockValue'[runOf'[u]] = u /\ runOf'[u] \in unexpired'
  BY <1>3 DEF Crash
<1>4. ASSUME NEW j \in JMs, NEW r \in Runs, NEW v \in Values,
             TryLock(j, r, v) \/ TryLockLost(j, r, v)
      PROVE  lockValue'[runOf'[u]] = u /\ runOf'[u] \in unexpired'
  <2>1. /\ phase[v] = "free" /\ r \notin unexpired
        /\ lockValue' = [lockValue EXCEPT ![r] = v]
        /\ unexpired' = unexpired \cup {r}
        /\ late' = late
    BY <1>4 DEF TryLock, TryLockLost, Fresh, Unused
  <2>2. CASE TryLock(j, r, v) /\ u = v
    BY <2>1, <2>2 DEF TryLock, NewClaim
  <2>3. CASE TryLockLost(j, r, v) \/ u # v
    <3>1. phase'[u] = phase[u] /\ runOf'[u] = runOf[u]
      BY <1>4, <2>3 DEF TryLock, TryLockLost, NewClaim
    <3>2. lockValue[runOf[u]] = u /\ runOf[u] \in unexpired
      BY <2>1, <3>1
    <3> QED
      BY <2>1, <3>1, <3>2
  <2> QED
    BY <1>4, <2>2, <2>3
<1>5. ASSUME NEW v \in Values,
             Remember(v) \/ Begin(v) \/ BeginUnstored(v) \/ Leave(v) \/ EndUnstored(v)
               \/ Forget(v) \/ ExtendFailed(v)
      PROVE  lockValue'[runOf'[u]] = u /\ runOf'[u] \in unexpired'
  BY <1>5
  DEF Remember, Begin, BeginUnstored, Leave, EndUnstored, Forget, ExtendFailed, GoTo, Done
<1>6. ASSUME NEW v \in Values, Release(v) \/ ReleaseFailed(v)
      PROVE  lockValue'[runOf'[u]] = u /\ runOf'[u] \in unexpired'
  <2>1. u # v /\ phase'[u] = phase[u] /\ runOf'[u] = runOf[u] /\ late' = late
    BY <1>6 DEF Release, ReleaseFailed, GoTo, Done
  <2>2. phase[v] = "returned"
    BY <1>6 DEF Release, ReleaseFailed
  <2>3. lockValue[runOf[u]] = u /\ runOf[u] \in unexpired
    BY <2>1
  <2>4. runOf[v] # runOf[u]
    BY <2>1, <2>2, <2>3
  <2> QED
    BY <1>6, <2>1, <2>3, <2>4 DEF Release, ReleaseFailed, DeleteRow
<1>7. ASSUME NEW v \in Values, Extend(v)
      PROVE  lockValue'[runOf'[u]] = u /\ runOf'[u] \in unexpired'
  BY <1>7 DEF Extend
<1>8. ASSUME NEW v \in Values, NEW result \in {"COMPLETED", "FAILED"}, End(v, result)
      PROVE  lockValue'[runOf'[u]] = u /\ runOf'[u] \in unexpired'
  BY <1>8 DEF End, GoTo
<1>9. CASE \/ \E r \in Runs : CreateRun(r) \/ CancelRun(r)
           \/ \E j \in JMs : Poll(j)
           \/ \E j \in JMs, r \in Runs : Busy(j, r) \/ SkipRun(j, r)
           \/ UNCHANGED vars
  BY <1>1, <1>9 DEF CreateRun, CancelRun, Poll, Busy, SkipRun, vars
<1> QED
  BY <1>2, <1>3, <1>4, <1>5, <1>6, <1>7, <1>8, <1>9, NextCases

\* Under the postgres lock a run whose lock never expires under its holder has
\* at most one owner, across all processes and whatever fails.
THEOREM Exclusive == Spec => []ExclusiveExecution
<1>1. Init => OwnerHasRow
  BY DEF Init, OwnerHasRow, Owning
<1>2. TypeOK /\ OwnerHasRow /\ [Next]_vars => OwnerHasRow'
  BY OwnerStep
<1>3. OwnerHasRow => ExclusiveExecution
  BY DEF OwnerHasRow, ExclusiveExecution, Owners
<1> QED
  BY <1>1, <1>2, <1>3, TypeCorrect, PTL DEF Spec
-----------------------------------------------------------------------------
(***************************************************************************)
(* A process only remembers values of its own live claims: values are      *)
(* fresh when they are taken, and only Remember writes the map.            *)
(***************************************************************************)
HeldByClaimant ==
  \A j \in JMs, r \in Runs, u \in Values :
    held[<<j, r>>] = u /\ phase[u] # "free" => jmOf[u] = j

\* No step puts the value of another process's claim into a process's map.
LEMMA HeldStep == TypeOK /\ HeldByClaimant /\ [Next]_vars => HeldByClaimant'
<1> SUFFICES ASSUME TypeOK, HeldByClaimant, [Next]_vars,
                    NEW i \in JMs, NEW q \in Runs, NEW u \in Values,
                    held'[<<i, q>>] = u, phase'[u] # "free"
             PROVE  jmOf'[u] = i
  BY DEF HeldByClaimant
<1> USE NoneAssumption DEF TypeOK, HeldByClaimant, lockVars, claimVars, histVars
<1>1. CASE UNCHANGED <<held, phase, jmOf>>
  BY <1>1
<1>2. ASSUME NEW j \in JMs, Crash(j) PROVE jmOf'[u] = i
  <2>1. phase'[u] = phase[u] /\ jmOf'[u] = jmOf[u] /\ jmOf[u] # j
    BY <1>2 DEF Crash
  <2>2. held'[<<i, q>>] = held[<<i, q>>]
    BY <1>2 DEF Crash
  <2> QED
    BY <2>1, <2>2
<1>3. ASSUME NEW j \in JMs, NEW r \in Runs, NEW v \in Values,
             TryLock(j, r, v) \/ ClaimUnlocked(j, r, v)
      PROVE  jmOf'[u] = i
  <2>1. held' = held /\ v \in Unused
    BY <1>3 DEF TryLock, ClaimUnlocked, Fresh
  <2>2. u # v
    BY <2>1 DEF Unused
  <2>3. phase'[u] = phase[u] /\ jmOf'[u] = jmOf[u]
    BY <1>3, <2>2 DEF TryLock, ClaimUnlocked, NewClaim
  <2> QED
    BY <2>1, <2>3
<1>4. ASSUME NEW v \in Values, Remember(v) PROVE jmOf'[u] = i
  <2>1. jmOf' = jmOf /\ phase[v] # "free"
    BY <1>4 DEF Remember, GoTo
  <2>2. CASE u = v /\ <<i, q>> = <<jmOf[v], runOf[v]>>
    BY <2>1, <2>2
  <2>3. CASE <<i, q>> # <<jmOf[v], runOf[v]>>
    BY <1>4, <2>1, <2>3 DEF Remember, GoTo
  <2> QED
    BY <1>4, <2>2, <2>3 DEF Remember
<1>5. ASSUME NEW v \in Values,
             Begin(v) \/ BeginUnstored(v) \/ Leave(v) \/ EndUnstored(v)
               \/ \E result \in {"COMPLETED", "FAILED"} : End(v, result)
      PROVE  jmOf'[u] = i
  BY <1>5 DEF Begin, BeginUnstored, Leave, EndUnstored, End, GoTo
<1>6. ASSUME NEW v \in Values, Release(v) \/ ReleaseFailed(v) \/ Forget(v)
      PROVE  jmOf'[u] = i
  <2>1. phase[u] # "free" /\ jmOf'[u] = jmOf[u]
    BY <1>6 DEF Release, ReleaseFailed, Forget, GoTo, Done
  <2>2. held[<<i, q>>] = u
    BY <1>6 DEF Release, ReleaseFailed, Forget
  <2> QED
    BY <2>1, <2>2
<1>7. CASE \/ \E r \in Runs : CreateRun(r) \/ CancelRun(r) \/ Expire(r) \/ ExpireLate(r)
           \/ \E j \in JMs : Poll(j)
           \/ \E j \in JMs, r \in Runs : Busy(j, r) \/ SkipRun(j, r)
           \/ \E j \in JMs, r \in Runs, v \in Values : TryLockLost(j, r, v)
           \/ \E v \in Values : Extend(v) \/ ExtendFailed(v)
           \/ UNCHANGED vars
  <2>1. UNCHANGED <<held, phase, jmOf>>
    BY <1>7, Zenon
    DEF CreateRun, CancelRun, Expire, ExpireLate, Poll, Busy, SkipRun, TryLockLost, Extend,
        ExtendFailed, vars
  <2> QED
    BY <1>1, <2>1
<1> QED
  BY <1>2, <1>3, <1>4, <1>5, <1>6, <1>7, NextCases

\* Even after a late expiry, a process never takes an unexpired row away from a
\* live claim of another process.
THEOREM RowIsRespected == Spec => RowRespected
<1> DEFINE Respect ==
      \A v, u \in Values :
        /\ phase[u] \in Owning /\ runOf[u] \in unexpired /\ lockValue[runOf[u]] = u
        /\ phase[v] # phase'[v]
        /\ (IF phase[v] = "free" THEN jmOf' ELSE jmOf)[v] # jmOf[u]
        => lockValue'[runOf[u]] = u
<1>1. Init => HeldByClaimant
  BY DEF Init, HeldByClaimant
<1>2. TypeOK /\ HeldByClaimant /\ [Next]_vars => [Respect]_vars
  <2> SUFFICES ASSUME TypeOK, HeldByClaimant, [Next]_vars, NEW v \in Values, NEW u \in Values,
                      phase[u] \in Owning, runOf[u] \in unexpired, lockValue[runOf[u]] = u,
                      phase[v] # phase'[v],
                      (IF phase[v] = "free" THEN jmOf' ELSE jmOf)[v] # jmOf[u],
                      lockValue' # lockValue
               PROVE  lockValue'[runOf[u]] = u
    OBVIOUS
  <2> USE NoneAssumption DEF TypeOK, lockVars, claimVars, histVars
  <2>1. ASSUME NEW j \in JMs, NEW r \in Runs, NEW w \in Values,
               TryLock(j, r, w) \/ TryLockLost(j, r, w)
        PROVE  lockValue'[runOf[u]] = u
    BY <2>1 DEF TryLock, TryLockLost
  <2>2. ASSUME NEW w \in Values, Release(w) \/ ReleaseFailed(w)
        PROVE  lockValue'[runOf[u]] = u
    <3>1. v = w /\ phase[v] # "free"
      <4>1. phase[w] = "returned"
        BY <2>2 DEF Release, ReleaseFailed
      <4>2. v # w => phase'[v] = phase[v]
        BY <2>2 DEF Release, ReleaseFailed, GoTo, Done
      <4> QED
        BY <4>1, <4>2
    <3>2. /\ lockValue' = [lockValue EXCEPT ![runOf[v]] = None]
          /\ lockValue[runOf[v]] = held[<<jmOf[v], runOf[v]>>]
      <4>1. CASE Release(w)
        BY <4>1, <3>1, Zenon DEF Release, DeleteRow
      <4>2. CASE ReleaseFailed(w)
        BY <4>2, <3>1, Zenon DEF ReleaseFailed, DeleteRow
      <4> QED
        BY <2>2, <4>1, <4>2
    <3>3. jmOf[v] # jmOf[u] /\ phase[u] # "free"
      BY <3>1, Zenon DEF Owning
    <3>4. held[<<jmOf[v], runOf[v]>>] # u
      <4>1. jmOf[v] \in JMs /\ runOf[v] \in Runs
        OBVIOUS
      <4>2. \A j \in JMs, r \in Runs :
              held[<<j, r>>] = u /\ phase[u] # "free" => jmOf[u] = j
        BY DEF HeldByClaimant
      <4>3. held[<<jmOf[v], runOf[v]>>] = u /\ phase[u] # "free" => jmOf[u] = jmOf[v]
        BY <4>1, <4>2, SMT
      <4> QED
        BY <3>3, <4>3
    <3>5. runOf[v] # runOf[u]
      BY <3>2, <3>4
    <3> QED
      BY <3>2, <3>5
  <2>3. CASE lockValue' = lockValue
    BY <2>3
  <2> QED
    BY <2>1, <2>2, <2>3, NextCases
    DEF CreateRun, CancelRun, Expire, ExpireLate, Poll, Crash, Busy, SkipRun, ClaimUnlocked,
        Remember, Begin, BeginUnstored, Leave, EndUnstored, End, Forget, Extend, ExtendFailed, vars
<1> QED
  BY <1>1, <1>2, HeldStep, TypeCorrect, PTL DEF Spec, RowRespected
-----------------------------------------------------------------------------
(***************************************************************************)
(* How often a run can be executed.  As long as the table says that it has *)
(* not begun, it has at most one claim, which has the row and the map      *)
(* entry it needs to store RUNNING.  Afterwards no page gets the run any   *)
(* more, and every further claim takes it off one.                         *)
(***************************************************************************)
NotBegun(r) == status[r] \in {"absent", "PENDING"}

\* No goroutine other than that of v is about r.
Alone(r, v) == \A u \in Values \ {v} : phase[u] # "free" => runOf[u] # r

FirstClaim(r, v) ==
  /\ phase[v] \in {"locking", "start"} /\ runOf[v] = r /\ v \notin cancelled
  /\ lockValue[r] = v /\ r \in unexpired
  /\ phase[v] = "start" => held[<<jmOf[v], r>>] = v
  /\ Alone(r, v)

ClaimedOnce ==
  faults = 0 => \A r \in Runs : NotBegun(r) =>
    \/ claims[r] = 0 /\ Alone(r, None)
    \/ claims[r] = 1 /\ \E v \in Values : FirstClaim(r, v)

Listed(r) == {j \in JMs : r \in page[j]}

ClaimsPaid ==
  faults = 0 => \A r \in Runs :
    ~NotBegun(r) => claims[r] + Cardinality(Listed(r)) <= 1 + Cardinality(JMs)

\* Faults are never taken back.
LEMMA FaultFree ==
  ASSUME TypeOK, [Next]_vars, faults' = 0
  PROVE  faults = 0 /\ ~Fault
<1>1. ASSUME Fault PROVE FALSE
  BY <1>1, FaultsAssumption DEF Fault, TypeOK
<1> QED
  BY <1>1, NextCases
  DEF lockVars, claimVars, histVars, CreateRun, CancelRun, Expire, ExpireLate, Poll, Crash, Busy,
      SkipRun, TryLock,
      TryLockLost, ClaimUnlocked, Remember, Begin, BeginUnstored, Leave, EndUnstored, End,
      Release, ReleaseFailed, Forget, Extend, ExtendFailed, vars

\* Until the run has begun its first claim keeps everything it needs.
LEMMA ClaimedOnceStep ==
  ASSUME Locked, TypeOK, ClaimedOnce, [Next]_vars
  PROVE  ClaimedOnce'
<1> DEFINE Goal(r) == \/ claims'[r] = 0 /\ Alone(r, None)'
                      \/ claims'[r] = 1 /\ \E v \in Values : FirstClaim(r, v)'
<1> SUFFICES ASSUME faults' = 0, NEW r \in Runs, NotBegun(r)'
             PROVE  Goal(r)
  BY DEF ClaimedOnce
<1> USE NoneAssumption DEF TypeOK, lockVars, claimVars, histVars
<1>1. faults = 0 /\ ~Fault
  BY FaultFree
<1>2. ASSUME NotBegun(r),
             UNCHANGED <<lockValue, unexpired, held, phase, jmOf, runOf, cancelled, claims>>
      PROVE  Goal(r)
  BY <1>1, <1>2 DEF ClaimedOnce, FirstClaim, Alone
<1>3. CASE \E q \in Runs : CreateRun(q) \/ CancelRun(q)
  BY <1>2, <1>3 DEF CreateRun, CancelRun, NotBegun
<1>4. CASE \/ \E j \in JMs : Poll(j)
           \/ \E j \in JMs, q \in Runs : Busy(j, q)
           \/ UNCHANGED vars
  BY <1>2, <1>4 DEF Poll, Busy, vars, NotBegun
<1>5. ASSUME NotBegun(r)
      PROVE  \/ claims[r] = 0 /\ Alone(r, None)
             \/ claims[r] = 1 /\ \E v \in Values : FirstClaim(r, v)
  BY <1>1, <1>5 DEF ClaimedOnce
<1>6. ASSUME NEW q \in Runs, Expire(q) PROVE Goal(r)
  <2>1. NotBegun(r) /\ UNCHANGED <<lockValue, held, phase, jmOf, runOf, cancelled, claims>>
    BY <1>6 DEF Expire, NotBegun
  <2>2. CASE claims[r] = 0 /\ Alone(r, None)
    BY <2>1, <2>2 DEF Alone
  <2>3. CASE claims[r] = 1 /\ \E v \in Values : FirstClaim(r, v)
    <3>1. PICK v \in Values : FirstClaim(r, v)
      BY <2>3
    <3>2. q # r
      BY <1>6, <3>1 DEF Expire, FirstClaim, Owners, Owning
    <3>3. FirstClaim(r, v)'
      BY <1>6, <2>1, <3>1, <3>2 DEF Expire, FirstClaim, Alone
    <3> QED
      BY <2>1, <2>3, <3>3
  <2> QED
    BY <1>5, <2>1, <2>2, <2>3
<1>7. ASSUME NEW j \in JMs, NEW q \in Runs, NEW w \in Values, TryLock(j, q, w) PROVE Goal(r)
  <2>1. /\ NotBegun(r) /\ phase[w] = "free" /\ q \notin unexpired
        /\ \A k \in JMs, s \in Runs : held[<<k, s>>] # w
        /\ \A s \in Runs : lockValue[s] # w
        /\ lockValue' = [lockValue EXCEPT ![q] = w] /\ unexpired' = unexpired \cup {q}
        /\ held' = held /\ claims' = [claims EXCEPT ![q] = @ + 1]
        /\ phase' = [phase EXCEPT ![w] = "locking"] /\ jmOf' = [jmOf EXCEPT ![w] = j]
        /\ runOf' = [runOf EXCEPT ![w] = q] /\ cancelled' = cancelled \ {w}
    BY <1>1, <1>7 DEF TryLock, NewClaim, Counted, Fresh, Unused, NotBegun
  <2>2. CASE claims[r] = 0 /\ Alone(r, None)
    <3>1. CASE q = r
      <4>1. FirstClaim(r, w)'
        BY <2>1, <2>2, <3>1 DEF FirstClaim, Alone
      <4> QED
        BY <2>1, <2>2, <3>1, <4>1
    <3>2. CASE q # r
      BY <2>1, <2>2, <3>2 DEF Alone
    <3> QED
      BY <3>1, <3>2
  <2>3. CASE claims[r] = 1 /\ \E v \in Values : FirstClaim(r, v)
    <3>1. PICK v \in Values : FirstClaim(r, v)
      BY <2>3
    <3>2. q # r /\ v # w
      BY <2>1, <3>1 DEF FirstClaim
    <3>3. FirstClaim(r, v)'
      BY <2>1, <3>1, <3>2 DEF FirstClaim, Alone
    <3> QED
      BY <2>1, <2>3, <3>2, <3>3
  <2> QED
    BY <1>5, <2>1, <2>2, <2>3
<1>8. ASSUME NEW w \in Values,
             \/ Begin(w) \/ BeginUnstored(w) \/ Leave(w) \/ Release(w) \/ Forget(w)
             \/ \E result \in {"COMPLETED", "FAILED"} : End(w, result)
      PROVE  Goal(r)
  <2>1. NotBegun(r) /\ claims' = claims
    BY <1>8, <1>1
    DEF Begin, BeginUnstored, Leave, Release, Forget, End, NotBegun
  <2>2. \/ Begin(w) /\ runOf[w] # r
        \/ BeginUnstored(w) /\ w \in cancelled
        \/ phase[w] \in {"running", "returned", "forget"}
    BY <1>8, <1>1 DEF Begin, BeginUnstored, Leave, Release, Forget, End, NotBegun
  <2>3. /\ phase[w] # "free"
        /\ phase' \in [Values -> Phases] /\ \A u \in Values \ {w} : phase'[u] = phase[u]
        /\ \A u \in Values \ {w} : runOf'[u] = runOf[u] /\ jmOf'[u] = jmOf[u]
        /\ phase'[w] # "free" => runOf'[w] = runOf[w]
        /\ cancelled' \subseteq cancelled
        /\ \A k \in JMs, s \in Runs \ {runOf[w]} : held'[<<k, s>>] = held[<<k, s>>]
        /\ \A s \in Runs \ {runOf[w]} :
             lockValue'[s] = lockValue[s] /\ (s \in unexpired => s \in unexpired')
    <3>1. CASE Begin(w) \/ BeginUnstored(w) \/ Leave(w)
      BY <3>1 DEF Begin, BeginUnstored, Leave, GoTo, Phases, Owning
    <3>2. CASE Release(w)
      BY <3>2 DEF Release, DeleteRow, GoTo, Done, Phases, Owning
    <3>3. CASE Forget(w)
      BY <3>3 DEF Forget, Done, Phases, Owning
    <3>4. ASSUME NEW result \in {"COMPLETED", "FAILED"}, End(w, result) 
          PROVE  <2>3!:
      BY <3>4 DEF End, GoTo, Phases, Owning
    <3> QED
      BY <1>8, <3>1, <3>2, <3>3, <3>4
  <2>4. CASE claims[r] = 0 /\ Alone(r, None)
    <3>1. runOf[w] # r
      BY <2>3, <2>4 DEF Alone
    <3> QED
      BY <2>1, <2>3, <2>4, <3>1 DEF Alone
  <2>5. CASE claims[r] = 1 /\ \E v \in Values : FirstClaim(r, v)
    <3>1. PICK v \in Values : FirstClaim(r, v)
      BY <2>5
    <3>2. w # v
      BY <2>2, <3>1 DEF FirstClaim
    <3>3. runOf[w] # r
      BY <2>3, <3>1, <3>2 DEF FirstClaim, Alone
    <3>4. Alone(r, v)'
      BY <2>3, <3>1, <3>2, <3>3 DEF FirstClaim, Alone
    <3>5. /\ phase'[v] = phase[v] /\ runOf'[v] = runOf[v] /\ jmOf'[v] = jmOf[v]
          /\ held'[<<jmOf[v], r>>] = held[<<jmOf[v], r>>]
          /\ lockValue'[r] = lockValue[r] /\ (r \in unexpired => r \in unexpired')
      BY <2>3, <3>2, <3>3
    <3>6. FirstClaim(r, v)'
      BY <2>3, <3>1, <3>4, <3>5 DEF FirstClaim
    <3> QED
      BY <2>1, <2>5, <3>6
  <2> QED
    BY <1>5, <2>1, <2>4, <2>5
<1>9. ASSUME NEW w \in Values, Remember(w) PROVE Goal(r)
  <2>1. /\ NotBegun(r) /\ phase[w] = "locking"
        /\ UNCHANGED <<lockValue, unexpired, jmOf, runOf, cancelled, claims>>
        /\ phase' = [phase EXCEPT ![w] = "start"]
        /\ held' = [held EXCEPT ![<<jmOf[w], runOf[w]>>] = w]
    BY <1>9 DEF Remember, GoTo, NotBegun
  <2>2. CASE claims[r] = 0 /\ Alone(r, None)
    BY <2>1, <2>2 DEF Alone
  <2>3. CASE claims[r] = 1 /\ \E v \in Values : FirstClaim(r, v)
    <3>1. PICK v \in Values : FirstClaim(r, v)
      BY <2>3
    <3>2. w # v => runOf[w] # r
      BY <2>1, <3>1 DEF FirstClaim, Alone
    <3>3. FirstClaim(r, v)'
      BY <2>1, <3>1, <3>2 DEF FirstClaim, Alone
    <3> QED
      BY <2>1, <2>3, <3>3
  <2> QED
    BY <1>5, <2>1, <2>2, <2>3
<1>10. ASSUME NEW w \in Values, Extend(w) PROVE Goal(r)
  <2>1. NotBegun(r) /\ UNCHANGED <<lockValue, held, phase, jmOf, runOf, claims>>
    BY <1>10 DEF Extend, NotBegun
  <2>2. CASE claims[r] = 0 /\ Alone(r, None)
    BY <2>1, <2>2 DEF Alone
  <2>3. CASE claims[r] = 1 /\ \E v \in Values : FirstClaim(r, v)
    <3>1. PICK v \in Values : FirstClaim(r, v)
      BY <2>3
    <3>2. r \in unexpired' /\ v \notin cancelled'
      BY <1>10, <3>1 DEF Extend, FirstClaim
    <3>3. FirstClaim(r, v)'
      BY <2>1, <3>1, <3>2 DEF FirstClaim, Alone
    <3> QED
      BY <2>1, <2>3, <3>3
  <2> QED
    BY <1>5, <2>1, <2>2, <2>3
<1> HIDE DEF Goal
<1> QED
  BY <1>1, <1>3, <1>4, <1>6, <1>7, <1>8, <1>9, <1>10, NextCases
  DEF ExpireLate, Crash, SkipRun, TryLockLost, ReleaseFailed, ExtendFailed, EndUnstored

\* Claims and pages of a run that has begun: no page gets it again.
LEMMA ClaimsPaidStep ==
  ASSUME Locked, TypeOK, ClaimedOnce, ClaimsPaid, [Next]_vars
  PROVE  ClaimsPaid'
<1> SUFFICES ASSUME faults' = 0, NEW r \in Runs, ~NotBegun(r)'
             PROVE  claims'[r] + Cardinality(Listed(r)') <= 1 + Cardinality(JMs)
  BY DEF ClaimsPaid
<1> USE DEF TypeOK, lockVars, claimVars, histVars
<1>1. faults = 0 /\ ~Fault
  BY FaultFree
<1>2. /\ IsFiniteSet(Listed(r)) /\ Cardinality(Listed(r)) \in Nat
      /\ IsFiniteSet(Listed(r)') /\ Cardinality(Listed(r)') \in Nat
      /\ Cardinality(JMs) \in Nat
      /\ Cardinality(Listed(r)) <= Cardinality(JMs)
      /\ Cardinality(Listed(r)') <= Cardinality(JMs)
  <2>1. Listed(r) \subseteq JMs /\ Listed(r)' \subseteq JMs
    BY DEF Listed
  <2> QED
    BY <2>1, ProcessAssumption, FS_Subset, FS_CardinalityType
<1>3. CASE NotBegun(r)
  <2>1. claims[r] \in {0, 1}
    BY <1>1, <1>3 DEF ClaimedOnce
  <2>2. claims' = claims
    BY <1>1, <1>3, NextCases
    DEF CreateRun, CancelRun, Expire, ExpireLate, Poll, Crash, Busy, SkipRun, TryLock, TryLockLost,
        Remember, Begin, BeginUnstored, Leave, EndUnstored, End, Release, ReleaseFailed, Forget,
        Extend, ExtendFailed, vars, NotBegun
  <2> QED
    BY <1>2, <2>1, <2>2
<1>4. CASE ~NotBegun(r)
  <2>1. claims[r] + Cardinality(Listed(r)) <= 1 + Cardinality(JMs)
    BY <1>1, <1>4 DEF ClaimsPaid
  <2>2. ASSUME claims'[r] = claims[r], Listed(r)' \subseteq Listed(r)
        PROVE  claims'[r] + Cardinality(Listed(r)') <= 1 + Cardinality(JMs)
    <3>1. Cardinality(Listed(r)') <= Cardinality(Listed(r))
      BY <1>2, <2>2, FS_Subset
    <3> QED
      BY <1>2, <2>1, <2>2, <3>1
  <2>3. ASSUME NEW j \in JMs, NEW q \in Runs, NEW w \in Values, TryLock(j, q, w)
        PROVE  claims'[r] + Cardinality(Listed(r)') <= 1 + Cardinality(JMs)
    <3>1. /\ q \in page[j] /\ page' = [page EXCEPT ![j] = @ \ {q}]
          /\ claims' = [claims EXCEPT ![q] = @ + 1]
      BY <1>1, <2>3 DEF TryLock, NewClaim, Counted
    <3>2. CASE q # r
      BY <2>2, <3>1, <3>2 DEF Listed
    <3>3. CASE q = r
      <4>1. j \in Listed(r) /\ Listed(r)' = Listed(r) \ {j}
        BY <3>1, <3>3 DEF Listed
      <4>2. Cardinality(Listed(r)') = Cardinality(Listed(r)) - 1
        BY <1>2, <4>1, FS_RemoveElement
      <4> QED
        BY <1>2, <2>1, <3>1, <3>3, <4>2
    <3> QED
      BY <3>2, <3>3
  <2>4. ASSUME NEW j \in JMs, Poll(j)
        PROVE  claims'[r] + Cardinality(Listed(r)') <= 1 + Cardinality(JMs)
    <3>1. r \notin ListRuns
      BY <1>4 DEF ListRuns, NotBegun
    <3> QED
      BY <2>2, <2>4, <3>1 DEF Poll, Listed
  <2>5. ASSUME NEW j \in JMs, NEW q \in Runs, Busy(j, q)
        PROVE  claims'[r] + Cardinality(Listed(r)') <= 1 + Cardinality(JMs)
    BY <2>2, <2>5 DEF Busy, Listed
  <2>6. ASSUME UNCHANGED <<page, claims>>
        PROVE  claims'[r] + Cardinality(Listed(r)') <= 1 + Cardinality(JMs)
    BY <2>2, <2>6 DEF Listed
  <2> QED
    BY <1>1, <2>3, <2>4, <2>5, <2>6, NextCases
    DEF CreateRun, CancelRun, Expire, ExpireLate, Remember, Begin, BeginUnstored, Leave,
        EndUnstored, End, Release, ReleaseFailed, Forget, Extend, ExtendFailed, vars, Crash,
        SkipRun, TryLockLost
<1> QED
  BY <1>3, <1>4

\* Under the postgres lock and without faults, a run is executed at most once
\* more than there are pollers, however stale their pages are.
THEOREM ReexecutionBounded == Spec => []BoundedReexecution
<1>1. Init => ClaimedOnce /\ ClaimsPaid
  <2> SUFFICES ASSUME Init PROVE ClaimedOnce /\ ClaimsPaid
    OBVIOUS
  <2>1. \A r \in Runs : NotBegun(r) /\ claims[r] = 0 /\ Alone(r, None)
    BY DEF Init, NotBegun, Alone
  <2> QED
    BY <2>1 DEF ClaimedOnce, ClaimsPaid
<1>2. ASSUME Locked
      PROVE  TypeOK /\ ClaimedOnce /\ ClaimsPaid /\ [Next]_vars => ClaimedOnce' /\ ClaimsPaid'
  BY <1>2, ClaimedOnceStep, ClaimsPaidStep
<1>3. TypeOK /\ ClaimedOnce /\ ClaimsPaid => BoundedReexecution
  <2> SUFFICES ASSUME TypeOK, ClaimedOnce, ClaimsPaid, faults = 0, NEW r \in Runs
               PROVE  claims[r] <= 1 + Cardinality(JMs)
    BY DEF BoundedReexecution
  <2>1. Cardinality(JMs) \in Nat /\ claims[r] \in Nat
    BY ProcessAssumption, FS_CardinalityType DEF TypeOK
  <2>2. CASE NotBegun(r)
    BY <2>1, <2>2 DEF ClaimedOnce
  <2>3. CASE ~NotBegun(r)
    <3>1. Listed(r) \subseteq JMs
      BY DEF Listed
    <3>2. Cardinality(Listed(r)) \in Nat
      BY <3>1, ProcessAssumption, FS_Subset, FS_CardinalityType
    <3> QED
      BY <2>1, <2>3, <3>2 DEF ClaimsPaid
  <2> QED
    BY <2>2, <2>3
<1>4. CASE Locked
  <2>1. TypeOK /\ ClaimedOnce /\ ClaimsPaid /\ [Next]_vars => ClaimedOnce' /\ ClaimsPaid'
    BY <1>2, <1>4
  <2> QED
    BY <1>1, <1>3, <2>1, TypeCorrect, PTL DEF Spec
<1>5. CASE ~Locked
  <2>1. BoundedReexecution
    BY <1>5 DEF BoundedReexecution
  <2> QED
    BY <2>1, PTL
<1> QED
  BY <1>4, <1>5
=============================================================================
