-------------------------- MODULE RMScalingProofs --------------------------
(***************************************************************************)
(* Proofs about RMScaling: no pool ever leaves its bounds, and without the *)
(* scaling loop a Deployment is large enough for the calls it has to       *)
(* serve, for any number of concurrent calls, any pod and pool sizes and   *)
(* any number of faults.                                                   *)
(***************************************************************************)
EXTENDS RMScaling, FiniteSetTheorems, TLAPS

-----------------------------------------------------------------------------
(* Sizes *)

LEMMA MaxOfTwo ==
    ASSUME NEW a \in Int, NEW b \in Int
    PROVE  Max({a, b}) \in {a, b} /\ Max({a, b}) >= a /\ Max({a, b}) >= b
<1> DEFINE P(m) == m \in {a, b} /\ \A y \in {a, b} : m >= y
<1>1. \E m \in {a, b} : P(m)
  <2>1. a >= b \/ b >= a  OBVIOUS
  <2>2. CASE a >= b  BY <2>2
  <2>3. CASE b >= a  BY <2>3
  <2> QED  BY <2>1, <2>2, <2>3
<1>2. P(Max({a, b}))  BY <1>1 DEF Max
<1> QED  BY <1>2

LEMMA MinOfTwo ==
    ASSUME NEW a \in Int, NEW b \in Int
    PROVE  Min({a, b}) \in {a, b} /\ Min({a, b}) <= a /\ Min({a, b}) <= b
<1> DEFINE P(m) == m \in {a, b} /\ \A y \in {a, b} : m <= y
<1>1. \E m \in {a, b} : P(m)
  <2>1. a <= b \/ b <= a  OBVIOUS
  <2>2. CASE a <= b  BY <2>2
  <2>3. CASE b <= a  BY <2>3
  <2> QED  BY <2>1, <2>2, <2>3
<1>2. P(Min({a, b}))  BY <1>1 DEF Min
<1> QED  BY <1>2

LEMMA DivType ==
    ASSUME NEW a \in Nat, NEW s \in Nat \ {0}
    PROVE  a \div s \in Nat /\ (a >= s => a \div s >= 1)
OBVIOUS

LEMMA DivMonotonic ==
    ASSUME NEW a \in Nat, NEW b \in Nat, NEW s \in Nat \ {0}, a <= b
    PROVE  a \div s <= b \div s
OBVIOUS

\* DesiredCount stays within the bounds of the pool, asks for a pod as soon as
\* there is a plan, and never shrinks with the number of plans.
LEMMA DesiredInSizes ==
    ASSUME ScalingAssumption, NEW p \in Pools, NEW n \in Nat
    PROVE  DesiredCount(p, n) \in Sizes(p) /\ (n > 0 => DesiredCount(p, n) >= 1)
<1>1. Slots[p] \in Nat \ {0} /\ MinPods[p] \in Nat /\ MaxPods[p] \in Nat \ {0}
  BY DEF ScalingAssumption
<1>2. CASE n <= 0  BY <1>1, <1>2 DEF DesiredCount, Sizes
<1>3. CASE n > 0
  <2> DEFINE q == (n + Slots[p] - 1) \div Slots[p]
             top == Max({q, MinPods[p]})
  <2>1. n + Slots[p] - 1 \in Nat /\ n + Slots[p] - 1 >= Slots[p]  BY <1>1, <1>3
  <2>2. q \in Nat /\ q >= 1  BY <1>1, <2>1, DivType
  <2>3. DesiredCount(p, n) = Min({top, MaxPods[p]})  BY <1>3 DEF DesiredCount
  <2> HIDE DEF q
  <2>0. q \in Int /\ MinPods[p] \in Int /\ MaxPods[p] \in Int  BY <1>1, <2>2
  <2>4. top \in {q, MinPods[p]} /\ top >= q  BY <2>0, MaxOfTwo, Zenon
  <2>5. top \in Nat /\ top \in Int  BY <1>1, <2>2, <2>4
  <2> HIDE DEF top
  <2>6. Min({top, MaxPods[p]}) \in {top, MaxPods[p]} /\ Min({top, MaxPods[p]}) <= MaxPods[p]
    BY <2>0, <2>5, MinOfTwo, Zenon
  <2> QED  BY <1>1, <2>2, <2>3, <2>4, <2>5, <2>6 DEF Sizes
<1> QED  BY <1>2, <1>3

LEMMA DesiredMonotonic ==
    ASSUME ScalingAssumption, NEW p \in Pools, NEW m \in Nat \ {0}, NEW n \in Nat, m <= n
    PROVE  DesiredCount(p, m) <= DesiredCount(p, n)
<1>1. Slots[p] \in Nat \ {0} /\ MinPods[p] \in Nat /\ MaxPods[p] \in Nat \ {0}
  BY DEF ScalingAssumption
<1> DEFINE q(k) == (k + Slots[p] - 1) \div Slots[p]
           top(k) == Max({q(k), MinPods[p]})
<1>2. q(m) \in Nat /\ q(n) \in Nat /\ q(m) <= q(n)
  <2>1. m + Slots[p] - 1 \in Nat /\ n + Slots[p] - 1 \in Nat
        /\ m + Slots[p] - 1 <= n + Slots[p] - 1
    BY <1>1
  <2> QED  BY <1>1, <2>1, DivType, DivMonotonic
<1>3. /\ DesiredCount(p, m) = Min({top(m), MaxPods[p]})
      /\ DesiredCount(p, n) = Min({top(n), MaxPods[p]})
  BY DEF DesiredCount
<1> HIDE DEF q
<1>4. ASSUME NEW k \in {m, n}
      PROVE  top(k) \in {q(k), MinPods[p]} /\ top(k) >= q(k) /\ top(k) >= MinPods[p]
  <2>1. q(k) \in Int /\ MinPods[p] \in Int  BY <1>1, <1>2
  <2> QED  BY <2>1, MaxOfTwo, Zenon
<1>5. top(m) \in Nat /\ top(n) \in Nat /\ top(m) <= top(n)  BY <1>1, <1>2, <1>4
<1> HIDE DEF top
<1>6. ASSUME NEW k \in {m, n}
      PROVE  /\ Min({top(k), MaxPods[p]}) \in {top(k), MaxPods[p]}
             /\ Min({top(k), MaxPods[p]}) <= top(k) /\ Min({top(k), MaxPods[p]}) <= MaxPods[p]
  <2>1. top(k) \in Int /\ MaxPods[p] \in Int  BY <1>1, <1>5
  <2> QED  BY <2>1, MinOfTwo, Zenon
<1> QED  BY <1>1, <1>3, <1>5, <1>6

-----------------------------------------------------------------------------
(* The inductive invariant *)

Stages == {"idle", "tm_size", "tm_scale", "tm_wait", "sandbox_size", "sandbox_scale",
           "sandbox_wait", "dispatched"}
LoopStages == Pools \X {"decide", "up", "wait", "down", "store"}

ScaleStage(p) == IF p = "tm" THEN "tm_scale" ELSE "sandbox_scale"
DownStages(p) == {<<p, "down">>, <<p, "store">>}

TypeOK ==
    /\ alive \in BOOLEAN /\ looping \in BOOLEAN /\ quiet \in BOOLEAN /\ undercut \in [Pools -> SUBSET Calls]
    /\ st \in [Calls -> Stages] /\ want \in [Calls -> Nat]
    /\ pending \in [Pools -> Nat] /\ known \in [Pools -> Nat]
    /\ replicas \in [Pools -> Nat] /\ avail \in [Pools -> Nat]
    /\ loop \in LoopStages /\ goal \in Nat
    /\ cache = NoState \/ cache \in [known : [Pools -> Nat], pending : [Pools -> Nat]]
    /\ faults \in Nat

\* Every size that is in force, known, cached, asked for or decided on is one
\* the pool may have.
Bounded ==
    \A p \in Pools :
      /\ replicas[p] \in Sizes(p) /\ known[p] \in Sizes(p)
      /\ cache # NoState => cache.known[p] \in Sizes(p)
      /\ \A c \in Calls : st[c] = ScaleStage(p) => want[c] \in Sizes(p)
      /\ loop \in DownStages(p) => goal \in Sizes(p)

\* Calls that are counted in pending[p].
Counted(p) ==
    {c \in Calls : \/ p = "tm" /\ st[c] # "idle"
                   \/ p = "sandbox" /\ c \in SandboxCalls
                      /\ st[c] \in {"sandbox_scale", "sandbox_wait", "dispatched"}}

\* A dead process has no calls, a process without the loop never decides, and
\* only sandbox plans get to the sandbox pool.
Stopped ==
    /\ ~alive => \A c \in Calls : st[c] = "idle"
    /\ ~looping => loop = <<"tm", "decide">>
    /\ \A c \in Calls : st[c] \in {"sandbox_size", "sandbox_scale", "sandbox_wait"} => c \in SandboxCalls

PendingCounts == \A p \in Pools : pending[p] >= Cardinality(Counted(p))

\* Calls that are about to scale pool p for fewer than k plans.
Modest(p, k) == {c \in Calls : st[c] = ScaleStage(p) /\ want[c] < DesiredCount(p, k)}

\* Fewer than k calls at a time are about to ask for less than k plans need: the
\* k-th call to compute its target saw the k - 1 before it.
Queued == \A p \in Pools : \A k \in Nat \ {0} : Cardinality(Modest(p, k)) < k

\* These, and the calls that scaled pool p and were not undercut since.
Below(p, k) == (Covered(p) \ undercut[p]) \union Modest(p, k)

\* Where the Deployment is too small for k plans, fewer than k calls asked for
\* less than that.  The calls that fail meanwhile take none of this away, and a
\* call that lowers the pool leaves only calls that have yet to scale it.
Ranked ==
    ~looping => \A p \in Pools : \A k \in Nat \ {0} :
        replicas[p] >= DesiredCount(p, k) \/ Cardinality(Below(p, k)) < k

IInv == TypeOK /\ Bounded /\ Stopped /\ PendingCounts /\ Queued /\ Ranked

-----------------------------------------------------------------------------
(* Types and bounds *)

LEMMA NextCases ==
    ASSUME [Next]_vars
    PROVE  \/ \E c \in Calls : Schedule(c) \/ Finish(c)
           \/ \E c \in Calls, p \in Pools : Size(c, p) \/ Scale(c, p) \/ WaitReady(c, p)
           \/ \E p \in Pools : Decide(p) \/ Grow(p) \/ LoopWait(p)
           \/ \E p \in Pools : Shrink(p) \/ Shrunk(p) \/ PodReady(p)
           \/ Shutdown \/ Crash \/ Restart \/ CacheExpires \/ IdleTimeout
           \/ UNCHANGED vars
BY DEF Next, ScheduleStep, ScalingLoop

LEMMA SizesAreNat ==
    ASSUME ScalingAssumption, NEW p \in Pools
    PROVE  Sizes(p) \subseteq Nat /\ MinPods[p] \in Sizes(p)
BY DEF ScalingAssumption, Sizes

LEMMA MinType ==
    ASSUME NEW a \in Nat, NEW b \in Nat
    PROVE  Min({a, b}) \in Nat
<1>1. a \in Int /\ b \in Int  OBVIOUS
<1>2. Min({a, b}) \in {a, b}  BY <1>1, MinOfTwo, Zenon
<1> QED  BY <1>2

\* Setting a Deployment to a size it may have.
LEMMA ScaleEffect ==
    ASSUME ScalingAssumption, TypeOK, Bounded, NEW p \in Pools, NEW n \in Sizes(p), ScaleTo(p, n)
    PROVE  /\ replicas' \in [Pools -> Nat] /\ avail' \in [Pools -> Nat]
           /\ \A x \in Pools : replicas'[x] \in Sizes(x)
           /\ replicas'[p] = n /\ \A x \in Pools : x # p => replicas'[x] = replicas[x]
<1>1. n \in Nat  BY SizesAreNat
<1>2. Min({avail[p], n}) \in Nat  BY <1>1, MinType DEF TypeOK
<1> QED  BY <1>1, <1>2 DEF ScaleTo, TypeOK, Bounded

\* The size of no pool falls, or all calls the pool served are undercut.
RaisedOrUndercut(p) ==
    /\ undercut' \in [Pools -> SUBSET Calls]
    /\ \A x \in Pools : \/ replicas'[x] >= replicas[x] /\ undercut'[x] = undercut[x]
                        \/ x = p /\ undercut'[x] = Covered(x)

LEMMA UndercutEffect ==
    ASSUME ScalingAssumption, TypeOK, Bounded, NEW p \in Pools, NEW n \in Sizes(p), ScaleTo(p, n),
           undercut' = Undercut(p, n)
    PROVE  RaisedOrUndercut(p)
<1>1. n \in Nat /\ \A x \in Pools : replicas[x] \in Nat  BY SizesAreNat DEF TypeOK
<1>2. replicas'[p] = n /\ \A x \in Pools : x # p => replicas'[x] = replicas[x]  BY ScaleEffect
<1>3. Covered(p) \subseteq Calls  BY DEF Covered
<1>4. CASE n < replicas[p]
  <2>1. undercut' = [undercut EXCEPT ![p] = Covered(p)]  BY <1>4 DEF Undercut
  <2> QED  BY <1>1, <1>2, <1>3, <2>1 DEF RaisedOrUndercut, TypeOK
<1>5. CASE ~(n < replicas[p])
  <2>1. undercut' = undercut  BY <1>5 DEF Undercut
  <2> QED  BY <1>1, <1>2, <1>5, <2>1 DEF RaisedOrUndercut, TypeOK
<1> QED  BY <1>4, <1>5

LEMMA NotLowered ==
    ASSUME TypeOK, NEW p \in Pools, UNCHANGED <<replicas, undercut>>
    PROVE  RaisedOrUndercut(p)
<1>1. \A x \in Pools : replicas[x] >= replicas[x]  BY DEF TypeOK
<1> QED  BY <1>1 DEF RaisedOrUndercut, TypeOK

\* Sizing a Deployment under the mutex: afterwards it has the asked size, and no
\* pool has become smaller but under the calls in undercut.
LEMMA EnsureRaises ==
    ASSUME ScalingAssumption, TypeOK, Bounded, NEW p \in Pools, NEW target \in Sizes(p),
           EnsureCapacity(p, target)
    PROVE  /\ known' \in [Pools -> Nat] /\ replicas' \in [Pools -> Nat] /\ avail' \in [Pools -> Nat]
           /\ cache' = NoState \/ cache' \in [known : [Pools -> Nat], pending : [Pools -> Nat]]
           /\ \A x \in Pools : /\ known'[x] \in Sizes(x) /\ replicas'[x] \in Sizes(x)
                               /\ cache' # NoState => cache'.known[x] \in Sizes(x)
           /\ RaisedOrUndercut(p) /\ replicas'[p] >= target
           /\ faults' \in Nat
<1>1. target \in Nat /\ replicas[p] \in Nat /\ known[p] \in Nat  BY SizesAreNat DEF TypeOK
<1>0. PICK seen \in {0, replicas[p]} : EnsureSize(p, target, seen)  BY DEF EnsureCapacity
<1>00. faults' \in Nat  BY DEF EnsureCapacity, Fault, TypeOK
<1>2. ASSUME known' \in [Pools -> Nat], \A x \in Pools : known'[x] \in Sizes(x),
             Persist(known', pending)
      PROVE  /\ cache' = NoState \/ cache' \in [known : [Pools -> Nat], pending : [Pools -> Nat]]
             /\ \A x \in Pools : cache' # NoState => cache'.known[x] \in Sizes(x)
  BY <1>2 DEF Persist, TypeOK, Bounded
<1>3. CASE seen < target /\ ScaleTo(p, target) /\ undercut' = Undercut(p, target)
             /\ known' = [known EXCEPT ![p] = target] /\ Persist(known', pending)
  <2>1. known' \in [Pools -> Nat] /\ \A x \in Pools : known'[x] \in Sizes(x)
    BY <1>1, <1>3 DEF TypeOK, Bounded
  <2>2. RaisedOrUndercut(p)  BY <1>3, UndercutEffect
  <2>3. /\ replicas' \in [Pools -> Nat] /\ avail' \in [Pools -> Nat]
        /\ \A x \in Pools : replicas'[x] \in Sizes(x)
        /\ replicas'[p] >= target
    BY <1>1, <1>3, ScaleEffect
  <2> QED  BY <1>00, <1>2, <1>3, <2>1, <2>2, <2>3
<1>4. CASE seen >= target /\ known[p] < target
             /\ known' = [known EXCEPT ![p] = seen] /\ Persist(known', pending)
             /\ UNCHANGED <<undercut, replicas, avail>>
  <2>1. seen = replicas[p]  BY <1>0, <1>1, <1>4
  <2>2. known' \in [Pools -> Nat] /\ \A x \in Pools : known'[x] \in Sizes(x)
    BY <1>1, <1>4, <2>1 DEF TypeOK, Bounded
  <2> QED  BY <1>00, <1>1, <1>2, <1>4, <2>1, <2>2, NotLowered DEF TypeOK, Bounded
<1>5. CASE seen >= target /\ UNCHANGED <<undercut, known, replicas, avail, cache>>
  <2>1. replicas[p] >= target  BY <1>0, <1>1, <1>5
  <2> QED  BY <1>00, <1>5, <2>1, NotLowered DEF TypeOK, Bounded
<1> QED  BY <1>0, <1>1, <1>3, <1>4, <1>5 DEF EnsureSize

LEMMA FailureEffect ==
    ASSUME ScalingAssumption, TypeOK, Bounded, NEW p \in Pools, NEW target \in Sizes(p),
           EnsureFails(p, target)
    PROVE  /\ replicas' \in [Pools -> Nat] /\ avail' \in [Pools -> Nat]
           /\ \A x \in Pools : replicas'[x] \in Sizes(x)
           /\ RaisedOrUndercut(p)
           /\ faults' \in Nat /\ UNCHANGED <<known, cache>>
<1>1. faults' \in Nat /\ UNCHANGED <<known, cache>>  BY DEF EnsureFails, Fault, TypeOK
<1>2. CASE UNCHANGED <<undercut, replicas, avail>>
  BY <1>1, <1>2, NotLowered DEF TypeOK, Bounded
<1>3. CASE ScaleTo(p, target) /\ undercut' = Undercut(p, target)
  BY <1>1, <1>3, ScaleEffect, UndercutEffect
<1> QED  BY <1>2, <1>3 DEF EnsureFails

LEMMA ReturnType ==
    ASSUME ScalingAssumption, TypeOK, Bounded, Stopped, PendingCounts, NEW c \in Calls,
           st[c] # "idle", Return(c)
    PROVE  /\ st' \in [Calls -> Stages] /\ want' \in [Calls -> Nat] /\ pending' \in [Pools -> Nat]
           /\ \A x \in Calls : x # c => st'[x] = st[x] /\ want'[x] = want[x]
           /\ st'[c] = "idle"
           /\ \A p \in Pools : c \in Counted(p) => pending'[p] = pending[p] - 1
           /\ \A p \in Pools : c \notin Counted(p) => pending'[p] = pending[p]
<1>1. ASSUME NEW p \in Pools
      PROVE  /\ c \in Counted(p) <=> (p = "tm" \/ st[c] \in {"sandbox_scale", "sandbox_wait"} \/
                                        (st[c] = "dispatched" /\ c \in SandboxCalls))
             /\ c \in Counted(p) => pending[p] >= 1
  <2>1. c \in Counted(p) <=> (p = "tm" \/ st[c] \in {"sandbox_scale", "sandbox_wait"} \/
                                  (st[c] = "dispatched" /\ c \in SandboxCalls))
    BY DEF Counted, Pools, Stopped
  <2>2. ASSUME c \in Counted(p) PROVE pending[p] >= 1
    <3>1. IsFiniteSet(Counted(p))
      <4>1. Counted(p) \subseteq Calls  BY DEF Counted
      <4> QED  BY <4>1, FS_Subset DEF ScalingAssumption
    <3>2. Cardinality(Counted(p)) \in Nat /\ Cardinality(Counted(p)) # 0
      BY <3>1, <2>2, FS_CardinalityType, FS_EmptySet
    <3> QED  BY <3>2 DEF PendingCounts, TypeOK
  <2> QED  BY <2>1, <2>2
<1>2. pending' = [p \in Pools |-> IF c \in Counted(p) THEN pending[p] - 1 ELSE pending[p]]
  BY <1>1 DEF Return
<1>3. pending' \in [Pools -> Nat]  BY <1>1, <1>2 DEF TypeOK
<1>4. st' \in [Calls -> Stages] /\ want' \in [Calls -> Nat]
  BY DEF Return, Goto, TypeOK, Stages
<1> QED  BY <1>2, <1>3, <1>4 DEF Return, Goto, TypeOK

Basics == TypeOK /\ Bounded /\ Stopped /\ PendingCounts

\* What Size leaves behind: the call has its target and goes on to scale.
LEMMA SizeEffect ==
    ASSUME ScalingAssumption, Basics, NEW c \in Calls, NEW p \in Pools, Size(c, p)
    PROVE  \E n \in Nat \ {0} :
             /\ pending' = [pending EXCEPT ![p] = n]
             /\ n = IF p = "tm" THEN pending[p] ELSE pending[p] + 1
             /\ want' = [want EXCEPT ![c] = DesiredCount(p, n)]
             /\ st' = [st EXCEPT ![c] = ScaleStage(p)]
             /\ DesiredCount(p, n) \in Sizes(p)
<1> DEFINE n == IF p = "tm" THEN pending[p] ELSE pending[p] + 1
<1>1. n \in Nat \ {0}
  <2>1. CASE p = "sandbox"  BY <2>1 DEF Basics, TypeOK
  <2>2. CASE p = "tm"
    <3>1. c \in Counted(p)  BY <2>2 DEF Size, Counted
    <3>2. IsFiniteSet(Counted(p))
      <4>1. Counted(p) \subseteq Calls  BY DEF Counted
      <4> QED  BY <4>1, FS_Subset DEF ScalingAssumption
    <3>3. Cardinality(Counted(p)) \in Nat /\ Cardinality(Counted(p)) # 0
      BY <3>1, <3>2, FS_CardinalityType, FS_EmptySet
    <3> QED  BY <2>2, <3>3 DEF Basics, PendingCounts, TypeOK
  <2> QED  BY <2>1, <2>2 DEF Pools
<1>2. DesiredCount(p, n) \in Sizes(p) /\ DesiredCount(p, n) >= 1  BY <1>1, DesiredInSizes
<1>3. DesiredCount(p, n) \in Nat  BY <1>2, SizesAreNat
<1>4. ~(DesiredCount(p, n) <= 0)  BY <1>2, <1>3
<1>5. pending' = [pending EXCEPT ![p] = n] /\ want' = [want EXCEPT ![c] = DesiredCount(p, n)]
  BY DEF Size
<1>6. st' = [st EXCEPT ![c] = ScaleStage(p)]
  BY <1>4 DEF Size, Goto, ScaleStage
<1> QED  BY <1>1, <1>2, <1>5, <1>6

LEMMA SizesStep ==
    ASSUME ScalingAssumption, Basics, [Next]_vars
    PROVE  TypeOK' /\ Bounded'
<1> USE DEF Basics
<1>1. ASSUME NEW c \in Calls, Schedule(c)  PROVE TypeOK' /\ Bounded'
  <2>0. quiet' \in BOOLEAN  BY <1>1 DEF Schedule
  <2>1. TypeOK'
    <3>1. st' \in [Calls -> Stages]  BY <1>1 DEF TypeOK, Schedule, Goto, Stages
    <3>2. pending' \in [Pools -> Nat]  BY <1>1 DEF TypeOK, Schedule, Pools
    <3>3. undercut' \in [Pools -> SUBSET Calls]  BY <1>1 DEF TypeOK, Schedule
    <3> QED  BY <1>1, <2>0, <3>1, <3>2, <3>3 DEF TypeOK, Schedule
  <2>2. Bounded'  BY <1>1 DEF TypeOK, Bounded, Schedule, Goto, ScaleStage, DownStages, Sizes
  <2> QED  BY <2>1, <2>2
<1>2. ASSUME NEW c \in Calls, Finish(c)  PROVE TypeOK' /\ Bounded'
  <2>1. TypeOK'  BY <1>2, ReturnType DEF TypeOK, Finish
  <2>2. Bounded'
    <3>1. /\ \A x \in Calls : x # c => st'[x] = st[x] /\ want'[x] = want[x]
          /\ st'[c] = "idle"
      BY <1>2, ReturnType DEF Finish
    <3> QED  BY <1>2, <3>1 DEF Bounded, Finish, ScaleStage, DownStages, Sizes
  <2> QED  BY <2>1, <2>2
<1>3. ASSUME NEW c \in Calls, NEW p \in Pools, Size(c, p)  PROVE TypeOK' /\ Bounded'
  <2>1. PICK n \in Nat \ {0} :
             /\ pending' = [pending EXCEPT ![p] = n]
             /\ want' = [want EXCEPT ![c] = DesiredCount(p, n)]
             /\ st' = [st EXCEPT ![c] = ScaleStage(p)]
             /\ DesiredCount(p, n) \in Sizes(p)
    BY <1>3, SizeEffect
  <2>2. DesiredCount(p, n) \in Nat  BY <2>1, SizesAreNat
  <2>3. ScaleStage(p) \in Stages  BY DEF ScaleStage, Stages
  <2>4. TypeOK'  BY <1>3, <2>1, <2>2, <2>3 DEF TypeOK, Size
  <2>5. \A q \in Pools : ScaleStage(q) = ScaleStage(p) => q = p  BY DEF ScaleStage, Pools
  <2>6. ASSUME NEW q \in Pools, NEW x \in Calls, st'[x] = ScaleStage(q)
        PROVE  want'[x] \in Sizes(q)
    BY <2>1, <2>5, <2>6 DEF TypeOK, Bounded
  <2>7. Bounded'  BY <1>3, <2>6 DEF Bounded, Size, ScaleStage, DownStages, Sizes
  <2> QED  BY <2>4, <2>7
<1>4. ASSUME NEW c \in Calls, NEW p \in Pools, Scale(c, p)  PROVE TypeOK' /\ Bounded'
  <2>1. st[c] = ScaleStage(p) /\ want[c] \in Sizes(p)
    BY <1>4 DEF Scale, ScaleStage, Bounded
  <2>2. CASE /\ EnsureCapacity(p, want[c])
             /\ Goto(c, IF p = "tm" THEN "tm_wait" ELSE "sandbox_wait")
             /\ UNCHANGED <<want, pending>>
    <3>0. undercut' \in [Pools -> SUBSET Calls]
      BY <2>1, <2>2, EnsureRaises DEF RaisedOrUndercut
    <3>1. TypeOK'
      BY <1>4, <2>1, <2>2, <3>0, EnsureRaises DEF TypeOK, Scale, Goto, Stages
    <3>2. \A q \in Pools : /\ replicas'[q] \in Sizes(q) /\ known'[q] \in Sizes(q)
                           /\ cache' # NoState => cache'.known[q] \in Sizes(q)
      BY <2>1, <2>2, EnsureRaises
    <3>3. Bounded'
      BY <1>4, <2>2, <3>2 DEF TypeOK, Bounded, Scale, Goto, ScaleStage, DownStages, Sizes, NoState
    <3> QED  BY <3>1, <3>3
  <2>3. CASE EnsureFails(p, want[c]) /\ Return(c)
    <3>0. st[c] # "idle"  BY <2>1 DEF ScaleStage
    <3>1. /\ \A x \in Calls : x # c => st'[x] = st[x] /\ want'[x] = want[x]
          /\ st'[c] = "idle"
      BY <2>3, <3>0, ReturnType
    <3>2. /\ replicas' \in [Pools -> Nat] /\ avail' \in [Pools -> Nat]
          /\ undercut' \in [Pools -> SUBSET Calls]
          /\ \A q \in Pools : replicas'[q] \in Sizes(q)
          /\ faults' \in Nat /\ UNCHANGED <<known, cache>>
      BY <2>1, <2>3, FailureEffect DEF RaisedOrUndercut
    <3>3. TypeOK'  BY <1>4, <2>3, <3>0, <3>2, ReturnType DEF TypeOK, Scale
    <3>4. Bounded'  BY <1>4, <3>1, <3>2 DEF Bounded, Scale, ScaleStage, DownStages, Sizes
    <3> QED  BY <3>3, <3>4
  <2> QED  BY <1>4, <2>2, <2>3 DEF Scale
<1>5. ASSUME NEW c \in Calls, NEW p \in Pools, WaitReady(c, p)  PROVE TypeOK' /\ Bounded'
  <2>1. CASE Goto(c, After(c, p)) /\ want' = [want EXCEPT ![c] = 0] /\ UNCHANGED <<pending, faults>>
    <3>1. After(c, p) \in Stages /\ \A q \in Pools : After(c, p) # ScaleStage(q)
      BY DEF After, Stages, ScaleStage
    <3>2. TypeOK'  BY <1>5, <2>1, <3>1 DEF TypeOK, WaitReady, Goto
    <3>3. Bounded'
      BY <1>5, <2>1, <3>1 DEF TypeOK, Bounded, WaitReady, Goto, ScaleStage, DownStages, Sizes
    <3> QED  BY <3>2, <3>3
  <2>2. CASE Return(c) /\ faults' \in Nat
    <3>0. st[c] # "idle"  BY <1>5 DEF WaitReady
    <3>1. /\ \A x \in Calls : x # c => st'[x] = st[x] /\ want'[x] = want[x]
          /\ st'[c] = "idle"
      BY <2>2, <3>0, ReturnType
    <3>2. TypeOK'  BY <1>5, <2>2, <3>0, ReturnType DEF TypeOK, WaitReady
    <3>3. Bounded'  BY <1>5, <2>2, <3>1 DEF Bounded, WaitReady, ScaleStage, DownStages, Sizes
    <3> QED  BY <3>2, <3>3
  <2> QED  BY <1>5, <2>1, <2>2 DEF WaitReady, Fault, TypeOK
<1>a. ASSUME NEW p \in Pools
      PROVE  Following(p) \in LoopStages /\ \A q \in Pools : Following(p) \notin DownStages(q)
  BY <1>a DEF Following, LoopStages, DownStages, Pools
<1>6. ASSUME NEW p \in Pools, Decide(p)  PROVE TypeOK' /\ Bounded'
  <2>1. CASE loop' \in {<<p, "up">>, Following(p)} /\ UNCHANGED goal
    <3>1. loop' \in LoopStages /\ \A q \in Pools : loop' \notin DownStages(q)
      BY <1>a, <2>1 DEF LoopStages, DownStages
    <3>2. TypeOK'  BY <1>6, <2>1, <3>1 DEF TypeOK, Decide
    <3>3. Bounded'  BY <1>6, <2>1, <3>1 DEF Bounded, Decide, ScaleStage, DownStages, Sizes
    <3> QED  BY <3>2, <3>3
  <2>3. CASE /\ known[p] > MinPods[p] /\ goal' = Max({known[p] - 1, MinPods[p]})
             /\ loop' = <<p, "down">>
    <3>1. known[p] \in Nat /\ MinPods[p] \in Nat /\ known[p] - 1 \in Int /\ MinPods[p] \in Int
      BY DEF TypeOK, ScalingAssumption
    <3>2. goal' \in {known[p] - 1, MinPods[p]}
      <4>1. Max({known[p] - 1, MinPods[p]}) \in {known[p] - 1, MinPods[p]}  BY <3>1, MaxOfTwo, Zenon
      <4> QED  BY <2>3, <4>1
    <3>3. known[p] \in Sizes(p) /\ MinPods[p] \in Sizes(p)  BY SizesAreNat DEF Bounded
    <3>4. goal' \in Sizes(p) /\ goal' \in Nat  BY <2>3, <3>1, <3>2, <3>3 DEF Sizes
    <3>5. loop' \in LoopStages /\ \A q \in Pools : loop' \in DownStages(q) => q = p
      BY <2>3 DEF LoopStages, DownStages
    <3>6. TypeOK'  BY <1>6, <2>3, <3>4, <3>5 DEF TypeOK, Decide
    <3>7. Bounded'  BY <1>6, <2>3, <3>4, <3>5 DEF Bounded, Decide, ScaleStage, Sizes
    <3> QED  BY <3>6, <3>7
  <2> QED  BY <1>6, <2>1, <2>3 DEF Decide
<1>7. ASSUME NEW p \in Pools, LoopWait(p)  PROVE TypeOK' /\ Bounded'
  <2>1. loop' \in LoopStages /\ \A q \in Pools : loop' \notin DownStages(q)  BY <1>7, <1>a DEF LoopWait
  <2>2. TypeOK'  BY <1>7, <2>1 DEF TypeOK, LoopWait
  <2>3. Bounded'  BY <1>7, <2>1 DEF Bounded, LoopWait, ScaleStage, DownStages, Sizes
  <2> QED  BY <2>2, <2>3
<1>8. ASSUME NEW p \in Pools, Grow(p)  PROVE TypeOK' /\ Bounded'
  <2> DEFINE target == DesiredCount(p, pending[p])
  <2>1. target \in Sizes(p)  BY DesiredInSizes DEF TypeOK
  <2>2. loop' \in LoopStages /\ \A q \in Pools : loop' \notin DownStages(q)
    <3>1. loop' \in {<<p, "wait">>, Following(p)}  BY <1>8 DEF Grow
    <3> QED  BY <3>1, <1>a DEF LoopStages, DownStages
  <2>3. /\ known' \in [Pools -> Nat] /\ replicas' \in [Pools -> Nat] /\ avail' \in [Pools -> Nat]
        /\ cache' = NoState \/ cache' \in [known : [Pools -> Nat], pending : [Pools -> Nat]]
        /\ \A x \in Pools : /\ known'[x] \in Sizes(x) /\ replicas'[x] \in Sizes(x)
                            /\ cache' # NoState => cache'.known[x] \in Sizes(x)
        /\ undercut' \in [Pools -> SUBSET Calls]
        /\ faults' \in Nat
    <3> HIDE DEF target
    <3>1. CASE EnsureCapacity(p, target)  BY <2>1, <3>1, EnsureRaises DEF RaisedOrUndercut
    <3>2. CASE EnsureFails(p, target)
      BY <2>1, <3>2, FailureEffect DEF RaisedOrUndercut, TypeOK, Bounded
    <3>3. CASE UNCHANGED <<undercut, known, replicas, avail, cache, faults>>
      BY <3>3 DEF TypeOK, Bounded
    <3> QED  BY <1>8, <3>1, <3>2, <3>3 DEF Grow, target
  <2>4. TypeOK'  BY <1>8, <2>2, <2>3 DEF TypeOK, Grow
  <2>5. Bounded'  BY <1>8, <2>2, <2>3 DEF Bounded, Grow, ScaleStage, Sizes, NoState
  <2> QED  BY <2>4, <2>5
<1>8a. ASSUME NEW p \in Pools, Shrink(p)  PROVE TypeOK' /\ Bounded'
  <2>1. goal \in Sizes(p) /\ goal \in Nat  BY <1>8a DEF Shrink, DownStages, Bounded, TypeOK
  <2>2. /\ replicas' \in [Pools -> Nat] /\ avail' \in [Pools -> Nat]
        /\ \A q \in Pools : replicas'[q] \in Sizes(q)
    <3>1. CASE ScaleTo(p, goal)  BY <2>1, <3>1, ScaleEffect
    <3>2. CASE UNCHANGED <<replicas, avail>>  BY <3>2 DEF TypeOK, Bounded
    <3> QED  BY <1>8a, <3>1, <3>2 DEF Shrink
  <2>3. CASE loop' = <<p, "store">> /\ UNCHANGED <<goal, faults>>
    <3>1. loop' \in LoopStages /\ \A q \in Pools : loop' \in DownStages(q) => q = p
      BY <2>3 DEF LoopStages, DownStages
    <3>2. TypeOK'  BY <1>8a, <2>2, <2>3, <3>1 DEF TypeOK, Shrink
    <3>3. Bounded'  BY <1>8a, <2>1, <2>2, <2>3, <3>1 DEF Bounded, Shrink, ScaleStage, Sizes
    <3> QED  BY <3>2, <3>3
  <2>4. CASE Fault /\ loop' = Following(p) /\ goal' = 0
    <3>1. TypeOK'  BY <1>8a, <1>a, <2>2, <2>4 DEF TypeOK, Shrink, Fault
    <3>2. Bounded'  BY <1>8a, <1>a, <2>2, <2>4 DEF Bounded, Shrink, ScaleStage, Sizes
    <3> QED  BY <3>1, <3>2
  <2> QED  BY <1>8a, <2>3, <2>4 DEF Shrink
<1>8b. ASSUME NEW p \in Pools, Shrunk(p)  PROVE TypeOK' /\ Bounded'
  <2>1. goal \in Sizes(p) /\ goal \in Nat  BY <1>8b DEF Shrunk, DownStages, Bounded, TypeOK
  <2>2. loop' \in LoopStages /\ goal' = 0 /\ \A q \in Pools : loop' \notin DownStages(q)
    BY <1>8b, <1>a DEF Shrunk
  <2>3. known' \in [Pools -> Nat] /\ \A q \in Pools : known'[q] \in Sizes(q)
    BY <1>8b, <2>1 DEF Shrunk, TypeOK, Bounded
  <2>4. /\ cache' = NoState \/ cache' \in [known : [Pools -> Nat], pending : [Pools -> Nat]]
        /\ \A q \in Pools : cache' # NoState => cache'.known[q] \in Sizes(q)
    BY <1>8b, <2>3 DEF Shrunk, Persist, TypeOK, Bounded
  <2>5. TypeOK'  BY <1>8b, <2>2, <2>3, <2>4 DEF TypeOK, Shrunk
  <2>6. Bounded'  BY <1>8b, <2>2, <2>3, <2>4 DEF Bounded, Shrunk, ScaleStage, Sizes, NoState
  <2> QED  BY <2>5, <2>6
<1>9. CASE Shutdown
  <2>1. avail' \in [Pools -> Nat]
    <3>1. \A p \in Pools : Min({avail[p], MinPods[p]}) \in Nat /\ avail[p] \in Nat
      BY MinType DEF TypeOK, ScalingAssumption
    <3> QED  BY <1>9, <3>1 DEF Shutdown
  <2>0. alive' \in BOOLEAN  BY <1>9 DEF Shutdown, Die
  <2>3. \A p \in Pools : MinPods[p] \in Sizes(p) /\ MinPods[p] \in Nat
    BY SizesAreNat DEF ScalingAssumption
  <2>4. replicas' \in [Pools -> Nat] /\ \A p \in Pools : replicas'[p] \in Sizes(p)
    BY <1>9, <2>3 DEF Shutdown, TypeOK, Bounded
  <2>5. loop' \in LoopStages /\ goal' = 0 /\ \A q \in Pools : loop' \notin DownStages(q)
    BY <1>9 DEF Shutdown, Die, LoopStages, DownStages, Pools
  <2>6. TypeOK'  BY <1>9, <2>0, <2>1, <2>4, <2>5 DEF TypeOK, Shutdown, Die, Fault, Stages
  <2>7. Bounded'  BY <1>9, <2>4, <2>5 DEF Bounded, Shutdown, Die, ScaleStage, Sizes
  <2> QED  BY <2>6, <2>7
<1>10. CASE Crash
  <2>0. alive' \in BOOLEAN  BY <1>10 DEF Crash, Die
  <2>1. loop' \in LoopStages /\ goal' = 0 /\ \A q \in Pools : loop' \notin DownStages(q)
    BY <1>10 DEF Crash, Die, LoopStages, DownStages, Pools
  <2>2. TypeOK'  BY <1>10, <2>0, <2>1 DEF TypeOK, Crash, Die, Fault, Stages
  <2>3. Bounded'  BY <1>10, <2>1 DEF Bounded, Crash, Die, ScaleStage, Sizes
  <2> QED  BY <2>2, <2>3
<1>11. CASE Restart
  <2>1. /\ known' \in [Pools -> Nat] /\ pending' \in [Pools -> Nat]
        /\ \A p \in Pools : known'[p] \in Sizes(p)
    <3>1. CASE cache # NoState
      BY <1>11, <3>1 DEF Restart, Restored, TypeOK, Bounded
    <3>2. CASE cache = NoState
      BY <1>11, <3>2, SizesAreNat DEF Restart, Restored, ScalingAssumption
    <3> QED  BY <3>1, <3>2
  <2>2. replicas' \in [Pools -> Nat] /\ \A p \in Pools : replicas'[p] \in Sizes(p)
    BY <1>11, SizesAreNat DEF Restart, TypeOK, Bounded, ScalingAssumption
  <2>3. avail' \in [Pools -> Nat]
    <3>1. \A p \in Pools : Min({avail[p], replicas'[p]}) \in Nat  BY <2>2, MinType DEF TypeOK
    <3> QED  BY <1>11, <3>1 DEF Restart
  <2>4. /\ cache' = NoState \/ cache' \in [known : [Pools -> Nat], pending : [Pools -> Nat]]
        /\ \A p \in Pools : cache' # NoState => cache'.known[p] \in Sizes(p)
    BY <1>11, <2>1 DEF Restart, Persist, TypeOK, Bounded
  <2>5. TypeOK'  BY <1>11, <2>1, <2>2, <2>3, <2>4 DEF TypeOK, Restart
  <2>6. Bounded'
    BY <1>11, <2>1, <2>2, <2>4 DEF Bounded, Restart, ScaleStage, DownStages, Sizes, NoState
  <2> QED  BY <2>5, <2>6
<1>12. CASE CacheExpires
  BY <1>12 DEF TypeOK, Bounded, CacheExpires, process, ScaleStage, DownStages, Sizes, NoState
<1>13. ASSUME NEW p \in Pools, PodReady(p)  PROVE TypeOK' /\ Bounded'
  BY <1>13 DEF TypeOK, Bounded, PodReady, process, ScaleStage, DownStages, Sizes
<1>14. CASE IdleTimeout
  BY <1>14 DEF TypeOK, Bounded, IdleTimeout, ScaleStage, DownStages, Sizes
<1>15. CASE UNCHANGED vars
  BY <1>15 DEF TypeOK, Bounded, vars, process, ScaleStage, DownStages, Sizes
<1> QED
  BY <1>1, <1>2, <1>3, <1>4, <1>5, <1>6, <1>7, <1>8, <1>8a, <1>8b, <1>9, <1>10, <1>11, <1>12,
     <1>13, <1>14, <1>15, NextCases

-----------------------------------------------------------------------------
(* Counting *)

LEMMA StoppedStep ==
    ASSUME ScalingAssumption, Basics, [Next]_vars
    PROVE  Stopped'
<1> USE DEF Basics
<1>1. ASSUME NEW c \in Calls, Schedule(c)  PROVE Stopped'
  BY <1>1 DEF TypeOK, Stopped, Schedule, Goto
<1>2. ASSUME NEW c \in Calls, Finish(c)  PROVE Stopped'
  BY <1>2 DEF TypeOK, Stopped, Finish, Return, Goto
<1>3. ASSUME NEW c \in Calls, NEW p \in Pools, Size(c, p)  PROVE Stopped'
  <2>1. st' = [st EXCEPT ![c] = ScaleStage(p)]  BY <1>3, SizeEffect
  <2>2. alive /\ UNCHANGED <<alive, looping, loop>>  BY <1>3 DEF Size
  <2>3. p = "sandbox" => c \in SandboxCalls  BY <1>3 DEF Size, Stopped
  <2>4. p = "tm" => ScaleStage(p) = "tm_scale"  BY DEF ScaleStage
  <2> QED  BY <2>1, <2>2, <2>3, <2>4 DEF TypeOK, Stopped, Pools
<1>4. ASSUME NEW c \in Calls, NEW p \in Pools, Scale(c, p)  PROVE Stopped'
  BY <1>4 DEF TypeOK, Stopped, Scale, Return, Goto, Pools
<1>5. ASSUME NEW c \in Calls, NEW p \in Pools, WaitReady(c, p)  PROVE Stopped'
  BY <1>5 DEF TypeOK, Stopped, WaitReady, Return, Goto, After, Pools
<1>6. ASSUME NEW p \in Pools, Decide(p)  PROVE Stopped'
  BY <1>6 DEF Stopped, Decide
<1>7. ASSUME NEW p \in Pools, LoopWait(p)  PROVE Stopped'
  BY <1>7 DEF Stopped, LoopWait
<1>8. ASSUME NEW p \in Pools, Grow(p)  PROVE Stopped'
  BY <1>8 DEF Stopped, Grow
<1>8a. ASSUME NEW p \in Pools, Shrink(p)  PROVE Stopped'
  BY <1>8a DEF Stopped, Shrink
<1>8b. ASSUME NEW p \in Pools, Shrunk(p)  PROVE Stopped'
  BY <1>8b DEF Stopped, Shrunk
<1>9. CASE Shutdown  BY <1>9 DEF Stopped, Shutdown, Die
<1>10. CASE Crash  BY <1>10 DEF Stopped, Crash, Die
<1>11. CASE Restart  BY <1>11 DEF Stopped, Restart
<1>12. CASE CacheExpires  BY <1>12 DEF Stopped, CacheExpires, process
<1>13. ASSUME NEW p \in Pools, PodReady(p)  PROVE Stopped'  BY <1>13 DEF Stopped, PodReady, process
<1>14. CASE IdleTimeout  BY <1>14 DEF Stopped, IdleTimeout
<1>15. CASE UNCHANGED vars  BY <1>15 DEF Stopped, vars, process
<1> QED
  BY <1>1, <1>2, <1>3, <1>4, <1>5, <1>6, <1>7, <1>8, <1>8a, <1>8b, <1>9, <1>10, <1>11, <1>12,
     <1>13, <1>14, <1>15, NextCases

\* Cardinalities of sets that lose, keep or gain one element.
LEMMA Counting ==
    ASSUME NEW S, IsFiniteSet(S), NEW T, NEW c
    PROVE  /\ Cardinality(S) \in Nat
           /\ T \subseteq S => Cardinality(T) \in Nat /\ Cardinality(T) <= Cardinality(S)
           /\ T \subseteq S \union {c} => Cardinality(T) \in Nat /\ Cardinality(T) <= Cardinality(S) + 1
           /\ c \in S /\ T \subseteq S \ {c} => Cardinality(T) \in Nat /\ Cardinality(T) <= Cardinality(S) - 1
<1>1. Cardinality(S) \in Nat  BY FS_CardinalityType
<1>2. ASSUME T \subseteq S PROVE Cardinality(T) \in Nat /\ Cardinality(T) <= Cardinality(S)
  BY <1>2, FS_Subset, FS_CardinalityType
<1>3. ASSUME T \subseteq S \union {c}
      PROVE  Cardinality(T) \in Nat /\ Cardinality(T) <= Cardinality(S) + 1
  <2>1. IsFiniteSet(S \union {c}) /\ Cardinality(S \union {c}) <= Cardinality(S) + 1
    BY <1>1, FS_AddElement
  <2>2. Cardinality(S \union {c}) \in Nat  BY <2>1, FS_CardinalityType
  <2>3. IsFiniteSet(T) /\ Cardinality(T) <= Cardinality(S \union {c})  BY <1>3, <2>1, FS_Subset
  <2> QED  BY <1>1, <2>1, <2>2, <2>3, FS_CardinalityType
<1>4. ASSUME c \in S, T \subseteq S \ {c}
      PROVE  Cardinality(T) \in Nat /\ Cardinality(T) <= Cardinality(S) - 1
  <2>1. IsFiniteSet(S \ {c}) /\ Cardinality(S \ {c}) = Cardinality(S) - 1
    BY <1>4, FS_RemoveElement
  <2>2. IsFiniteSet(T) /\ Cardinality(T) <= Cardinality(S \ {c})  BY <1>4, <2>1, FS_Subset
  <2> QED  BY <1>1, <2>1, <2>2, FS_CardinalityType
<1> QED  BY <1>1, <1>2, <1>3, <1>4

LEMMA CountedFinite ==
    ASSUME ScalingAssumption, NEW p
    PROVE  IsFiniteSet(Counted(p)) /\ IsFiniteSet(Counted(p)')
<1>1. Counted(p) \subseteq Calls /\ Counted(p)' \subseteq Calls  BY DEF Counted
<1> QED  BY <1>1, FS_Subset DEF ScalingAssumption

\* A step that counts no further call in keeps the counters high enough.
LEMMA CountKept ==
    ASSUME ScalingAssumption, Basics, NEW p \in Pools, Counted(p)' \subseteq Counted(p),
           pending'[p] = pending[p]
    PROVE  pending'[p] >= Cardinality(Counted(p)')
<1>1. /\ Cardinality(Counted(p)) \in Nat /\ Cardinality(Counted(p)') \in Nat
      /\ Cardinality(Counted(p)') <= Cardinality(Counted(p))
  BY CountedFinite, Counting
<1> QED  BY <1>1 DEF Basics, PendingCounts, TypeOK

LEMMA CountAdded ==
    ASSUME ScalingAssumption, Basics, NEW p \in Pools, NEW c, Counted(p)' \subseteq Counted(p) \union {c},
           pending'[p] = pending[p] + 1
    PROVE  pending'[p] >= Cardinality(Counted(p)')
<1>1. /\ Cardinality(Counted(p)) \in Nat /\ Cardinality(Counted(p)') \in Nat
      /\ Cardinality(Counted(p)') <= Cardinality(Counted(p)) + 1
  BY CountedFinite, Counting
<1> QED  BY <1>1 DEF Basics, PendingCounts, TypeOK

LEMMA CountReturned ==
    ASSUME ScalingAssumption, Basics, NEW p \in Pools, NEW c \in Calls, st[c] # "idle", Return(c)
    PROVE  pending'[p] >= Cardinality(Counted(p)')
<1>1. Counted(p)' \subseteq Counted(p) \ {c}
  BY DEF Return, Goto, Counted, Basics, TypeOK
<1>2. CASE c \in Counted(p)
  <2>1. pending'[p] = pending[p] - 1  BY <1>2, ReturnType DEF Basics
  <2>2. /\ Cardinality(Counted(p)) \in Nat /\ Cardinality(Counted(p)') \in Nat
        /\ Cardinality(Counted(p)') <= Cardinality(Counted(p)) - 1
    BY <1>1, <1>2, CountedFinite, Counting
  <2> QED  BY <2>1, <2>2 DEF Basics, PendingCounts, TypeOK
<1>3. CASE c \notin Counted(p)
  <2>1. pending'[p] = pending[p]  BY <1>3, ReturnType DEF Basics
  <2> QED  BY <1>1, <2>1, CountKept
<1> QED  BY <1>2, <1>3

LEMMA CountStep ==
    ASSUME ScalingAssumption, Basics, [Next]_vars
    PROVE  PendingCounts'
<1>0. SUFFICES ASSUME NEW q \in Pools
               PROVE  pending'[q] >= Cardinality(Counted(q)')
  BY DEF PendingCounts
<1>a. CASE UNCHANGED <<st, pending>>
  <2>1. Counted(q)' = Counted(q)  BY <1>a DEF Counted
  <2> QED  BY <1>a, <2>1, CountKept
<1>1. ASSUME NEW c \in Calls, Schedule(c)  PROVE pending'[q] >= Cardinality(Counted(q)')
  <2>1. CASE q = "tm"
    <3>1. Counted(q)' \subseteq Counted(q) \union {c}
      BY <1>1, <2>1 DEF Schedule, Goto, Counted, Basics, TypeOK
    <3>2. pending'[q] = pending[q] + 1  BY <1>1, <2>1 DEF Schedule, Basics, TypeOK
    <3> QED  BY <3>1, <3>2, CountAdded
  <2>2. CASE q # "tm"
    <3>1. Counted(q)' \subseteq Counted(q)
      BY <1>1, <2>2 DEF Schedule, Goto, Counted, Basics, TypeOK
    <3>2. pending'[q] = pending[q]  BY <1>1, <2>2 DEF Schedule, Basics, TypeOK
    <3> QED  BY <3>1, <3>2, CountKept
  <2> QED  BY <2>1, <2>2
<1>2. ASSUME NEW c \in Calls, Finish(c)  PROVE pending'[q] >= Cardinality(Counted(q)')
  BY <1>2, CountReturned DEF Finish
<1>3. ASSUME NEW c \in Calls, NEW p \in Pools, Size(c, p)
      PROVE  pending'[q] >= Cardinality(Counted(q)')
  <2>1. /\ st' = [st EXCEPT ![c] = ScaleStage(p)]
        /\ pending' = [pending EXCEPT ![p] = IF p = "tm" THEN pending[p] ELSE pending[p] + 1]
    BY <1>3, SizeEffect
  <2>2. st[c] = IF p = "tm" THEN "tm_size" ELSE "sandbox_size"  BY <1>3 DEF Size
  <2>3. CASE p = "sandbox" /\ q = "sandbox"
    <3>1. Counted(q)' \subseteq Counted(q) \union {c}
      BY <2>1, <2>3 DEF Counted, Basics, TypeOK
    <3>2. pending'[q] = pending[q] + 1  BY <2>1, <2>3 DEF Basics, TypeOK
    <3> QED  BY <3>1, <3>2, CountAdded
  <2>4. CASE p = "tm" \/ q = "tm"
    <3>1. Counted(q)' \subseteq Counted(q)
      BY <2>1, <2>2, <2>4 DEF Counted, Basics, TypeOK, ScaleStage, Pools
    <3>2. pending'[q] = pending[q]  BY <2>1, <2>4 DEF Basics, TypeOK, Pools
    <3> QED  BY <3>1, <3>2, CountKept
  <2> QED  BY <2>3, <2>4 DEF Pools
<1>4. ASSUME NEW c \in Calls, NEW p \in Pools, Scale(c, p)
      PROVE  pending'[q] >= Cardinality(Counted(q)')
  <2>1. st[c] = ScaleStage(p)  BY <1>4 DEF Scale, ScaleStage
  <2>2. CASE Goto(c, IF p = "tm" THEN "tm_wait" ELSE "sandbox_wait") /\ UNCHANGED pending
    <3>1. Counted(q)' \subseteq Counted(q)
      BY <2>1, <2>2 DEF Goto, Counted, Basics, TypeOK, ScaleStage, Pools
    <3> QED  BY <2>2, <3>1, CountKept
  <2>3. CASE Return(c)  BY <2>1, <2>3, CountReturned DEF ScaleStage
  <2> QED  BY <1>4, <2>2, <2>3 DEF Scale
<1>5. ASSUME NEW c \in Calls, NEW p \in Pools, WaitReady(c, p)
      PROVE  pending'[q] >= Cardinality(Counted(q)')
  <2>1. st[c] = IF p = "tm" THEN "tm_wait" ELSE "sandbox_wait"  BY <1>5 DEF WaitReady
  <2>2. CASE Goto(c, After(c, p)) /\ UNCHANGED pending
    <3>1. Counted(q)' \subseteq Counted(q)
      BY <2>1, <2>2 DEF Goto, After, Counted, Basics, TypeOK, Pools
    <3> QED  BY <2>2, <3>1, CountKept
  <2>3. CASE Return(c)  BY <2>1, <2>3, CountReturned
  <2> QED  BY <1>5, <2>2, <2>3 DEF WaitReady
<1>6. ASSUME NEW p \in Pools, Decide(p) \/ Grow(p) \/ LoopWait(p) \/ Shrink(p) \/ Shrunk(p) \/ PodReady(p)
      PROVE  pending'[q] >= Cardinality(Counted(q)')
  BY <1>6, <1>a DEF Decide, Grow, LoopWait, Shrink, Shrunk, PodReady, process
<1>7. CASE Shutdown \/ Crash
  <2>1. Counted(q)' \subseteq Counted(q)  BY <1>7 DEF Shutdown, Crash, Die, Counted
  <2> QED  BY <1>7, <2>1, CountKept DEF Shutdown, Crash
<1>8. CASE Restart
  <2>1. Counted(q)' = {}  BY <1>8 DEF Restart, Counted, Basics, Stopped
  <2>2. Cardinality(Counted(q)') = 0  BY <2>1, FS_EmptySet
  <2>3. TypeOK'  BY SizesStep
  <2> QED  BY <2>2, <2>3 DEF TypeOK
<1> QED
  BY <1>a, <1>1, <1>2, <1>3, <1>4, <1>5, <1>6, <1>7, <1>8, NextCases
     DEF CacheExpires, IdleTimeout, vars, process

-----------------------------------------------------------------------------
(* No call is lost to the target computed before the mutex *)

LEMMA ModestFinite ==
    ASSUME ScalingAssumption, NEW p, NEW k
    PROVE  IsFiniteSet(Modest(p, k)) /\ IsFiniteSet(Modest(p, k)')
<1>1. Modest(p, k) \subseteq Calls /\ Modest(p, k)' \subseteq Calls  BY DEF Modest
<1> QED  BY <1>1, FS_Subset DEF ScalingAssumption

LEMMA ModestCalls ==
    ASSUME ScalingAssumption, Basics, [Next]_vars, NEW q \in Pools, NEW k \in Nat \ {0}
    PROVE  \/ Modest(q, k)' \subseteq Modest(q, k)
           \/ /\ \E c \in Calls : Size(c, q)
              /\ \E n \in Nat \ {0} : ~(k <= n) /\ pending'[q] = n
<1>a. TypeOK /\ DesiredCount(q, k) \in Nat  BY DesiredInSizes, SizesAreNat DEF Basics
<1>b. DesiredCount(q, k)' = DesiredCount(q, k)  BY DEF DesiredCount
<1>1. ASSUME NEW c \in Calls, Size(c, q)
      PROVE  Modest(q, k)' \subseteq Modest(q, k) \/ \E n \in Nat \ {0} : ~(k <= n) /\ pending'[q] = n
  <2>1. PICK n \in Nat \ {0} :
             /\ pending' = [pending EXCEPT ![q] = n]
             /\ want' = [want EXCEPT ![c] = DesiredCount(q, n)]
             /\ st' = [st EXCEPT ![c] = ScaleStage(q)]
             /\ DesiredCount(q, n) \in Sizes(q)
    BY <1>1, SizeEffect
  <2>2. DesiredCount(q, n) \in Nat /\ pending'[q] = n  BY <1>a, <2>1, SizesAreNat DEF TypeOK
  <2>3. CASE k <= n
    <3>1. DesiredCount(q, k) <= DesiredCount(q, n)  BY <2>3, DesiredMonotonic
    <3>2. c \notin Modest(q, k)'  BY <1>a, <1>b, <2>1, <2>2, <3>1 DEF Modest, TypeOK
    <3>3. \A x \in Calls : x # c => st'[x] = st[x] /\ want'[x] = want[x]  BY <1>a, <2>1 DEF TypeOK
    <3>4. Modest(q, k)' \subseteq Modest(q, k)
      BY <1>b, <3>2, <3>3 DEF Modest, ScaleStage
    <3> QED  BY <3>4
  <2> QED  BY <2>2, <2>3
<1>2. ASSUME NEW c \in Calls, NEW p \in Pools, p # q, Size(c, p)
      PROVE  Modest(q, k)' \subseteq Modest(q, k)
  <2>1. PICK n \in Nat \ {0} :
             /\ want' = [want EXCEPT ![c] = DesiredCount(p, n)]
             /\ st' = [st EXCEPT ![c] = ScaleStage(p)]
    BY <1>2, SizeEffect
  <2>2. ScaleStage(p) # ScaleStage(q)  BY <1>2 DEF ScaleStage, Pools
  <2> QED  BY <1>a, <1>b, <2>1, <2>2 DEF Modest, TypeOK, ScaleStage
<1>3. ASSUME NEW c \in Calls, NEW stage, st' = [st EXCEPT ![c] = stage], stage # ScaleStage(q),
             \A x \in Calls : x # c => want'[x] = want[x]
      PROVE  Modest(q, k)' \subseteq Modest(q, k)
  BY <1>a, <1>b, <1>3 DEF Modest, TypeOK, ScaleStage
<1>4. ASSUME NEW c \in Calls, Return(c)  PROVE Modest(q, k)' \subseteq Modest(q, k)
  <2>1. "idle" # ScaleStage(q)  BY DEF ScaleStage
  <2> QED  BY <1>a, <1>3, <1>4, <2>1 DEF Return, Goto, TypeOK
<1>5. ASSUME NEW c \in Calls, Schedule(c) \/ Finish(c)  PROVE Modest(q, k)' \subseteq Modest(q, k)
  <2>1. "tm_size" # ScaleStage(q)  BY DEF ScaleStage
  <2> QED  BY <1>3, <1>4, <1>5, <2>1 DEF Schedule, Finish, Goto
<1>6. ASSUME NEW c \in Calls, NEW p \in Pools, Scale(c, p)
      PROVE  Modest(q, k)' \subseteq Modest(q, k)
  <2> DEFINE stage == IF p = "tm" THEN "tm_wait" ELSE "sandbox_wait"
  <2>1. stage # ScaleStage(q)  BY DEF ScaleStage
  <2> QED  BY <1>3, <1>4, <1>6, <2>1 DEF Scale, Goto
<1>7. ASSUME NEW c \in Calls, NEW p \in Pools, WaitReady(c, p)
      PROVE  Modest(q, k)' \subseteq Modest(q, k)
  <2>1. After(c, p) # ScaleStage(q)  BY DEF ScaleStage, After
  <2>2. CASE Goto(c, After(c, p)) /\ want' = [want EXCEPT ![c] = 0]
    <3>1. \A x \in Calls : x # c => want'[x] = want[x]  BY <1>a, <2>2 DEF TypeOK
    <3> QED  BY <1>3, <2>1, <2>2, <3>1 DEF Goto
  <2> QED  BY <1>4, <1>7, <2>2 DEF WaitReady
<1>8. ASSUME \A x \in Calls : st'[x] = "idle"  PROVE Modest(q, k)' \subseteq Modest(q, k)
  BY <1>8 DEF Modest, ScaleStage
<1>9. CASE Shutdown \/ Crash  BY <1>8, <1>9 DEF Shutdown, Crash, Die
<1>10. ASSUME UNCHANGED <<st, want>>  PROVE Modest(q, k)' \subseteq Modest(q, k)
  BY <1>10, <1>b DEF Modest, ScaleStage
<1>11. ASSUME NEW p \in Pools, Decide(p) \/ Grow(p) \/ LoopWait(p) \/ Shrink(p) \/ Shrunk(p) \/ PodReady(p)
       PROVE  Modest(q, k)' \subseteq Modest(q, k)
  <2>1. UNCHANGED <<st, want>>
    BY <1>11 DEF Decide, Grow, LoopWait, Shrink, Shrunk, PodReady, process
  <2> QED  BY <1>10, <2>1
<1> QED
  BY <1>1, <1>2, <1>5, <1>6, <1>7, <1>9, <1>10, <1>11, NextCases
     DEF Restart, CacheExpires, IdleTimeout, vars, process

LEMMA QueuedStep ==
    ASSUME ScalingAssumption, Basics, Queued, [Next]_vars
    PROVE  Queued'
<1>0. SUFFICES ASSUME NEW q \in Pools, NEW k \in Nat \ {0}
               PROVE  Cardinality(Modest(q, k)') < k
  BY DEF Queued
<1>a. TypeOK' /\ PendingCounts' /\ Stopped'  BY SizesStep, CountStep, StoppedStep
<1>1. CASE Modest(q, k)' \subseteq Modest(q, k)
  <2>1. /\ Cardinality(Modest(q, k)) \in Nat /\ Cardinality(Modest(q, k)') \in Nat
        /\ Cardinality(Modest(q, k)') <= Cardinality(Modest(q, k))
    BY <1>1, ModestFinite, Counting
  <2> QED  BY <2>1 DEF Queued
<1>2. ASSUME NEW n \in Nat \ {0}, ~(k <= n), pending'[q] = n
      PROVE  Cardinality(Modest(q, k)') < k
  <2>1. Modest(q, k)' \subseteq Counted(q)'
    BY <1>a DEF Modest, Counted, ScaleStage, Pools, Stopped
  <2>2. /\ Cardinality(Counted(q)') \in Nat /\ Cardinality(Modest(q, k)') \in Nat
        /\ Cardinality(Modest(q, k)') <= Cardinality(Counted(q)')
    BY <2>1, CountedFinite, Counting
  <2>3. n >= Cardinality(Counted(q)')  BY <1>a, <1>2 DEF PendingCounts
  <2> QED  BY <1>2, <2>2, <2>3
<1> QED  BY <1>1, <1>2, ModestCalls

Fits(p, k) == replicas[p] >= DesiredCount(p, k) \/ Cardinality(Below(p, k)) < k

LEMMA BelowFinite ==
    ASSUME ScalingAssumption, NEW p, NEW k
    PROVE  IsFiniteSet(Below(p, k)) /\ IsFiniteSet(Below(p, k)')
<1>1. Below(p, k) \subseteq Calls /\ Below(p, k)' \subseteq Calls  BY DEF Below, Modest, Covered
<1> QED  BY <1>1, FS_Subset DEF ScalingAssumption

\* A step that shrinks no pool and adds no call to those that asked for less.
LEMMA FitsKept ==
    ASSUME ScalingAssumption, TypeOK, TypeOK', NEW p \in Pools, NEW k \in Nat \ {0}, Fits(p, k),
           replicas'[p] >= replicas[p], Below(p, k)' \subseteq Below(p, k)
    PROVE  Fits(p, k)'
<1>1. DesiredCount(p, k) \in Nat  BY DesiredInSizes, SizesAreNat
<1>2. /\ Cardinality(Below(p, k)) \in Nat /\ Cardinality(Below(p, k)') \in Nat
      /\ Cardinality(Below(p, k)') <= Cardinality(Below(p, k))
  BY BelowFinite, Counting
<1>3. DesiredCount(p, k)' = DesiredCount(p, k)  BY DEF DesiredCount
<1>4. replicas[p] \in Nat /\ replicas'[p] \in Nat  BY DEF TypeOK
<1> QED  BY <1>1, <1>2, <1>3, <1>4 DEF Fits

\* A step after which only calls that have yet to scale the pool are left.
LEMMA FitsAnew ==
    ASSUME ScalingAssumption, Queued, NEW p \in Pools, NEW k \in Nat \ {0},
           Below(p, k)' \subseteq Modest(p, k)
    PROVE  Fits(p, k)'
<1>1. /\ Cardinality(Modest(p, k)) \in Nat /\ Cardinality(Below(p, k)') \in Nat
      /\ Cardinality(Below(p, k)') <= Cardinality(Modest(p, k))
  BY ModestFinite, Counting
<1> QED  BY <1>1 DEF Fits, Queued

\* The call c leaves its stage for one that is not yet to scale pool p.
LEMMA BelowShrinks ==
    ASSUME ScalingAssumption, TypeOK, NEW p \in Pools, NEW k \in Nat \ {0}, NEW c \in Calls, NEW stage,
           st' = [st EXCEPT ![c] = stage], stage # ScaleStage(p),
           \A x \in Calls : x # c => want'[x] = want[x]
    PROVE  /\ Modest(p, k)' \subseteq Modest(p, k) \ {c}
           /\ Covered(p)' \subseteq Covered(p) \union {c}
           /\ c \notin Covered(p)' => Covered(p)' \subseteq Covered(p)
<1>1. DesiredCount(p, k)' = DesiredCount(p, k)  BY DEF DesiredCount
<1> QED  BY <1>1 DEF Modest, Covered, TypeOK, ScaleStage

LEMMA FitsReturned ==
    ASSUME ScalingAssumption, TypeOK, TypeOK', Queued, NEW p \in Pools, NEW k \in Nat \ {0}, Fits(p, k),
           NEW c \in Calls, Return(c), NEW q \in Pools, RaisedOrUndercut(q)
    PROVE  Fits(p, k)'
<1>1. /\ Modest(p, k)' \subseteq Modest(p, k)
      /\ Covered(p)' \subseteq Covered(p)
  <2>1. "idle" # ScaleStage(p)  BY DEF ScaleStage
  <2>2. st' = [st EXCEPT ![c] = "idle"] /\ \A x \in Calls : x # c => want'[x] = want[x]
    BY DEF Return, Goto, TypeOK
  <2>3. c \notin Covered(p)'  BY <2>2 DEF Covered, TypeOK
  <2>4. /\ Modest(p, k)' \subseteq Modest(p, k) \ {c}
        /\ c \notin Covered(p)' => Covered(p)' \subseteq Covered(p)
    BY <2>1, <2>2, BelowShrinks
  <2> QED  BY <2>3, <2>4
<1>2. CASE replicas'[p] >= replicas[p] /\ undercut'[p] = undercut[p]
  <2>1. Below(p, k)' \subseteq Below(p, k)  BY <1>1, <1>2 DEF Below
  <2> QED  BY <1>2, <2>1, FitsKept
<1>3. CASE undercut'[p] = Covered(p)
  <2>1. Below(p, k)' \subseteq Modest(p, k)  BY <1>1, <1>3 DEF Below
  <2> QED  BY <2>1, FitsAnew
<1> QED  BY <1>2, <1>3 DEF RaisedOrUndercut

LEMMA RankedStep ==
    ASSUME ScalingAssumption, IInv, [Next]_vars
    PROVE  Ranked'
<1>a. Basics /\ TypeOK /\ TypeOK' /\ PendingCounts' /\ Queued
  BY SizesStep, CountStep DEF IInv, Basics
<1>b. SUFFICES ASSUME ~looping', NEW q \in Pools, NEW k \in Nat \ {0}
               PROVE  Fits(q, k)'
  BY DEF Ranked, Fits
<1>c. looping' = looping
  BY NextCases DEF Schedule, Finish, Size, Scale, WaitReady, Decide, Grow, LoopWait, Shrink, Shrunk,
     PodReady, Shutdown, Crash, Restart, CacheExpires, IdleTimeout, vars, process
<1>d. ~looping /\ loop = <<"tm", "decide">> /\ Fits(q, k)
  BY <1>b, <1>c DEF IInv, Ranked, Fits, Stopped
<1>e. ASSUME UNCHANGED <<st, want, replicas, undercut>>  PROVE Fits(q, k)'
  BY <1>d, <1>e DEF Fits, Below, Modest, Covered, ScaleStage, DesiredCount
<1>f. replicas[q] \in Nat /\ DesiredCount(q, k) \in Nat  BY <1>a, DesiredInSizes, SizesAreNat DEF TypeOK
<1>g. ASSUME UNCHANGED <<replicas, undercut>>  PROVE RaisedOrUndercut(q)  BY <1>a, <1>g, NotLowered
<1>1. ASSUME NEW c \in Calls, Schedule(c)  PROVE Fits(q, k)'
  <2>1. c \notin Covered(q)'  BY <1>1, <1>a DEF Schedule, Goto, Covered, TypeOK
  <2>2. "tm_size" # ScaleStage(q)  BY DEF ScaleStage
  <2>3. /\ Modest(q, k)' \subseteq Modest(q, k) \ {c} /\ Covered(q)' \subseteq Covered(q)
    BY <1>1, <1>a, <2>1, <2>2, BelowShrinks DEF Schedule, Goto
  <2>4. undercut'[q] = undercut[q] \ {c}  BY <1>1 DEF Schedule
  <2>5. Below(q, k)' \subseteq Below(q, k)  BY <2>1, <2>3, <2>4 DEF Below
  <2> QED  BY <1>1, <1>a, <1>d, <1>f, <2>5, FitsKept DEF Schedule
<1>2. ASSUME NEW c \in Calls, Finish(c)  PROVE Fits(q, k)'
  BY <1>2, <1>a, <1>d, <1>g, FitsReturned DEF Finish
<1>3. ASSUME NEW c \in Calls, NEW p \in Pools, Size(c, p)  PROVE Fits(q, k)'
  <2>1. PICK n \in Nat \ {0} :
             /\ pending' = [pending EXCEPT ![p] = n]
             /\ want' = [want EXCEPT ![c] = DesiredCount(p, n)]
             /\ st' = [st EXCEPT ![c] = ScaleStage(p)]
             /\ DesiredCount(p, n) \in Sizes(p)
    BY <1>3, <1>a, SizeEffect
  <2>2. /\ replicas' = replicas /\ undercut' = undercut
        /\ st[c] = IF p = "tm" THEN "tm_size" ELSE "sandbox_size"
    BY <1>3 DEF Size
  <2>3. Covered(q)' \subseteq Covered(q)
    BY <1>a, <2>1, <2>2 DEF Covered, TypeOK, ScaleStage, Pools
  <2>4. CASE Modest(q, k)' \subseteq Modest(q, k)
    <3>1. Below(q, k)' \subseteq Below(q, k)  BY <2>2, <2>3, <2>4 DEF Below
    <3> QED  BY <1>a, <1>d, <1>f, <2>2, <3>1, FitsKept
  <2>5. ASSUME NEW m \in Nat \ {0}, ~(k <= m), pending'[q] = m  PROVE Fits(q, k)'
    <3>1. Below(q, k)' \subseteq Counted(q)'
      <4>1. Stopped'  BY <1>a, StoppedStep
      <4> QED  BY <1>a, <4>1 DEF Below, Modest, Covered, Counted, ScaleStage, Pools, Stopped
    <3>2. /\ Cardinality(Counted(q)') \in Nat /\ Cardinality(Below(q, k)') \in Nat
          /\ Cardinality(Below(q, k)') <= Cardinality(Counted(q)')
      BY <3>1, CountedFinite, Counting
    <3>3. m >= Cardinality(Counted(q)')  BY <1>a, <2>5 DEF PendingCounts
    <3> QED  BY <2>5, <3>2, <3>3 DEF Fits
  <2> QED  BY <1>a, <2>4, <2>5, ModestCalls
<1>4. ASSUME NEW c \in Calls, NEW p \in Pools, Scale(c, p)  PROVE Fits(q, k)'
  <2>1. st[c] = ScaleStage(p) /\ want[c] \in Sizes(p) /\ want[c] \in Nat
    BY <1>4, <1>a DEF Scale, ScaleStage, Basics, Bounded, TypeOK
  <2>2. CASE EnsureCapacity(p, want[c]) /\ UNCHANGED want
             /\ Goto(c, IF p = "tm" THEN "tm_wait" ELSE "sandbox_wait")
    <3> DEFINE stage == IF p = "tm" THEN "tm_wait" ELSE "sandbox_wait"
    <3>1. /\ replicas' \in [Pools -> Nat] /\ replicas'[p] >= want[c]
          /\ RaisedOrUndercut(p)
      BY <1>a, <2>1, <2>2, EnsureRaises DEF Basics
    <3>2. /\ Modest(q, k)' \subseteq Modest(q, k) \ {c}
          /\ Covered(q)' \subseteq Covered(q) \union {c}
          /\ c \notin Covered(q)' => Covered(q)' \subseteq Covered(q)
      <4>1. stage # ScaleStage(q)  BY DEF ScaleStage
      <4> QED  BY <1>a, <2>2, <4>1, BelowShrinks DEF Goto
    <3>3. CASE q = p /\ want[c] >= DesiredCount(p, k)
      <4>1. replicas'[q] >= DesiredCount(q, k)  BY <1>f, <2>1, <3>1, <3>3
      <4>2. DesiredCount(q, k)' = DesiredCount(q, k)  BY DEF DesiredCount
      <4> QED  BY <4>1, <4>2 DEF Fits
    <3>4. CASE q = p /\ ~(want[c] >= DesiredCount(p, k))
      <4>1. want[c] < DesiredCount(p, k)  BY <1>f, <2>1, <3>4
      <4>2. c \in Modest(q, k)  BY <2>1, <3>4, <4>1 DEF Modest
      <4>3. CASE replicas'[q] >= replicas[q] /\ undercut'[q] = undercut[q]
        <5>1. Below(q, k)' \subseteq Below(q, k)  BY <3>2, <4>2, <4>3 DEF Below
        <5> QED  BY <1>a, <1>d, <4>3, <5>1, FitsKept
      <4>4. CASE undercut'[q] = Covered(q)
        <5>1. Below(q, k)' \subseteq Modest(q, k)  BY <3>2, <4>2, <4>4 DEF Below
        <5> QED  BY <1>a, <5>1, FitsAnew
      <4> QED  BY <3>1, <4>3, <4>4 DEF RaisedOrUndercut
    <3>5. CASE q # p
      <4>1. Covered(q)' \subseteq Covered(q)
        BY <1>a, <2>1, <2>2, <3>5 DEF Goto, Covered, TypeOK, ScaleStage, Pools
      <4>2. replicas'[q] >= replicas[q] /\ undercut'[q] = undercut[q]
        BY <3>1, <3>5 DEF RaisedOrUndercut
      <4>3. Below(q, k)' \subseteq Below(q, k)  BY <3>2, <4>1, <4>2 DEF Below
      <4> QED  BY <1>a, <1>d, <4>2, <4>3, FitsKept
    <3> QED  BY <3>3, <3>4, <3>5
  <2>3. CASE Return(c) /\ EnsureFails(p, want[c])
    <3>1. RaisedOrUndercut(p)  BY <1>a, <2>1, <2>3, FailureEffect DEF Basics
    <3> QED  BY <1>a, <1>d, <2>3, <3>1, FitsReturned
  <2> QED  BY <1>4, <2>2, <2>3 DEF Scale
<1>5. ASSUME NEW c \in Calls, NEW p \in Pools, WaitReady(c, p)  PROVE Fits(q, k)'
  <2>1. /\ st[c] = (IF p = "tm" THEN "tm_wait" ELSE "sandbox_wait")
        /\ UNCHANGED <<replicas, undercut>>
    BY <1>5 DEF WaitReady
  <2>2. CASE Goto(c, After(c, p)) /\ want' = [want EXCEPT ![c] = 0]
    <3>1. Covered(q)' \subseteq Covered(q)
      BY <1>a, <2>1, <2>2 DEF Goto, After, Covered, TypeOK, Pools
    <3>2. Modest(q, k)' \subseteq Modest(q, k)
      <4>1. After(c, p) # ScaleStage(q)  BY DEF After, ScaleStage
      <4>2. \A x \in Calls : x # c => want'[x] = want[x]  BY <1>a, <2>2 DEF TypeOK
      <4>3. Modest(q, k)' \subseteq Modest(q, k) \ {c}
        BY <1>a, <2>2, <4>1, <4>2, BelowShrinks DEF Goto
      <4> QED  BY <4>3
    <3>3. Below(q, k)' \subseteq Below(q, k)  BY <2>1, <3>1, <3>2 DEF Below
    <3> QED  BY <1>a, <1>d, <1>f, <2>1, <3>3, FitsKept
  <2>3. CASE Return(c)  BY <1>a, <1>d, <1>g, <2>1, <2>3, FitsReturned
  <2> QED  BY <1>5, <2>2, <2>3 DEF WaitReady
<1>6. ASSUME NEW p \in Pools, Decide(p) \/ Grow(p) \/ LoopWait(p) \/ Shrink(p) \/ Shrunk(p)
      PROVE  Fits(q, k)'
  BY <1>6, <1>d DEF Decide, Grow, LoopWait, Shrink, Shrunk
<1>7. CASE Shutdown \/ Crash \/ Restart
  <2>1. \A c \in Calls : st'[c] = "idle"
    BY <1>7, <1>a DEF Shutdown, Crash, Restart, Die, Basics, Stopped
  <2>2. Below(q, k)' = {}  BY <2>1 DEF Below, Modest, Covered, ScaleStage
  <2>3. Cardinality(Below(q, k)') = 0  BY <2>2, FS_EmptySet
  <2> QED  BY <2>3 DEF Fits
<1>8. ASSUME NEW p \in Pools, PodReady(p)  PROVE Fits(q, k)'
  BY <1>8, <1>e DEF PodReady, process
<1> QED
  BY <1>1, <1>2, <1>3, <1>4, <1>5, <1>6, <1>7, <1>8, <1>e, NextCases
     DEF CacheExpires, IdleTimeout, vars, process

-----------------------------------------------------------------------------
LEMMA InitHolds ==
    ASSUME ScalingAssumption, Init
    PROVE  IInv
<1>1. TypeOK
  <2>1. loop \in LoopStages  BY DEF Init, LoopStages, Pools
  <2> QED  BY <2>1 DEF Init, TypeOK, Stages, ScalingAssumption
<1>2. Bounded
  <2>1. \A q \in Pools : loop \notin DownStages(q)  BY DEF Init, DownStages
  <2> QED  BY <2>1, SizesAreNat DEF Init, Bounded, ScaleStage
<1>3. Stopped  BY DEF Init, Stopped
<1>4. PendingCounts
  <2>1. \A p \in Pools : Counted(p) = {}  BY DEF Init, Counted
  <2>2. \A p \in Pools : Cardinality(Counted(p)) = 0  BY <2>1, FS_EmptySet
  <2> QED  BY <2>2 DEF Init, PendingCounts
<1>5. Queued /\ Ranked
  <2> SUFFICES ASSUME NEW p \in Pools, NEW k \in Nat \ {0}
               PROVE  Cardinality(Modest(p, k)) < k /\ Cardinality(Below(p, k)) < k
    BY DEF Queued, Ranked
  <2>1. Modest(p, k) = {} /\ Below(p, k) = {}  BY DEF Init, Below, Modest, Covered, ScaleStage
  <2>2. Cardinality({}) = 0  BY FS_EmptySet
  <2> QED  BY <2>1, <2>2
<1> QED  BY <1>1, <1>2, <1>3, <1>4, <1>5 DEF IInv

LEMMA IInvStep ==
    ASSUME ScalingAssumption, IInv, [Next]_vars
    PROVE  IInv'
<1>1. Basics  BY DEF IInv, Basics
<1> QED  BY <1>1, SizesStep, StoppedStep, CountStep, QueuedStep, RankedStep DEF IInv

\* Types: the counters of pending plans never become negative, whatever is
\* restored from the cache and however a Schedule call returns.
THEOREM TypeCorrect == Spec => []TypeOK
<1>1. Init => IInv  BY InitHolds, ScalingAssumption
<1>2. IInv /\ [Next]_vars => IInv'  BY IInvStep, ScalingAssumption
<1>3. IInv => TypeOK  BY DEF IInv
<1> QED  BY <1>1, <1>2, <1>3, PTL DEF Spec

\* The counter of a pool never falls below the Schedule calls it stands for
\* (the deferred decrements of Schedule match its increments).
THEOREM CountersCover == Spec => []PendingCounts
<1>1. Init => IInv  BY InitHolds, ScalingAssumption
<1>2. IInv /\ [Next]_vars => IInv'  BY IInvStep, ScalingAssumption
<1>3. IInv => PendingCounts  BY DEF IInv
<1> QED  BY <1>1, <1>2, <1>3, PTL DEF Spec

\* No pool leaves its bounds (desiredTMCount, desiredSandboxCount, restore,
\* reconcileTM and reconcileSandbox), and without the scaling loop the
\* Deployment is sized for all calls it has to serve once none is on its way,
\* but those undercut by a call that could not read its size.
THEOREM PoolsAreSized == Spec => []PoolSized
<1>1. Init => IInv  BY InitHolds, ScalingAssumption
<1>2. IInv /\ [Next]_vars => IInv'  BY IInvStep, ScalingAssumption
<1>3. IInv => PoolSized
  <2> SUFFICES ASSUME IInv, NEW p \in Pools
               PROVE  /\ replicas[p] \in Sizes(p) /\ known[p] \in Sizes(p)
                      /\ ~looping /\ alive /\ Entering(p) = {} =>
                           LET served == Covered(p) \ undercut[p]
                           IN served = {} \/ replicas[p] >= DesiredCount(p, Cardinality(served))
    BY DEF PoolSized
  <2> DEFINE served == Covered(p) \ undercut[p]
  <2>1. replicas[p] \in Sizes(p) /\ known[p] \in Sizes(p)  BY DEF IInv, Bounded
  <2>2. ASSUME ~looping, Entering(p) = {}, served # {}
        PROVE  replicas[p] >= DesiredCount(p, Cardinality(served))
    <3> DEFINE k == Cardinality(served)
    <3>1. IsFiniteSet(served)
      <4>1. served \subseteq Calls  BY DEF Covered
      <4> QED  BY <4>1, FS_Subset, ScalingAssumption DEF ScalingAssumption
    <3>2. k \in Nat \ {0}  BY <2>2, <3>1, FS_CardinalityType, FS_EmptySet
    <3>3. Below(p, k) = served
      <4>1. \A c \in Calls : st[c] # ScaleStage(p)  BY <2>2 DEF Entering, ScaleStage, Pools
      <4> QED  BY <4>1 DEF Below, Modest
    <3>4. replicas[p] >= DesiredCount(p, k) \/ Cardinality(Below(p, k)) < k
      BY <2>2, <3>2 DEF IInv, Ranked
    <3> QED  BY <3>2, <3>3, <3>4
  <2> QED  BY <2>1, <2>2
<1> QED  BY <1>1, <1>2, <1>3, PTL DEF Spec
=============================================================================
