------------------------- MODULE SandboxExecProofs -------------------------
(***************************************************************************)
(* Proofs about SandboxExec, for any number of executions, plans and slot  *)
(* workers and any number of lost and repeated messages and pod crashes:   *)
(* what Execute returns, and what the status file of a directory says; and *)
(* proofs about Seccomp, for any policies and system calls: what the       *)
(* filter of a script decides.                                             *)
(***************************************************************************)
EXTENDS Sandbox, SequenceTheorems, WellFoundedInduction, TLAPS

Stages == {"idle", "script", "subscribed", "waiting", "error", "done"}
Statuses == {None, "PENDING", "RUNNING", "SUCCESS", "FAILED"}
SlotStages == {"idle", "read", "execute", "hung", "write", "status", "publish"}
SlotStates ==
    [job : Execs \union {None}, at : SlotStages,
     of : Execs \union {None}, kind : {"ok", "failed", "refused"}, attempt : Nat]

TypeOK ==
    /\ planOf \in [Execs -> Plans] /\ stage \in [Execs -> Stages]
    /\ inbox \in [Execs -> Results \union {None}]
    /\ answer \in [Execs -> Results \union {None, Timeout}]
    /\ script \in [Plans -> Execs \union {None}]
    /\ file \in [Plans -> Results \union {None, Torn}]
    /\ status \in [Plans -> Statuses]
    /\ slots \in SUBSET Slots /\ triggers \in SUBSET Execs /\ jobs \in Seq(Execs)
    /\ slot \in [Slots -> SlotStates]
    /\ wire \in SUBSET Results /\ contended \in SUBSET Plans /\ broken \in SUBSET Plans
    /\ overlap \in [Execs -> SUBSET Execs]

\* A worker that is not idle has a job, and once it has read the script it
\* has one of the plan of that job.
SlotsBusy ==
    \A w \in Slots :
      /\ slot[w].at # "idle" <=> slot[w].job # None
      /\ slot[w].at \in {"execute", "hung", "write", "status", "publish"} =>
           slot[w].of \in Execs /\ planOf[slot[w].of] = planOf[slot[w].job]

\* A directory holds a script of its plan from the first one on, and what is
\* under way was sent after that.
Written ==
    /\ \A e \in Execs : stage[e] # "idle" => script[planOf[e]] # None
    /\ \A d \in Plans : script[d] # None => planOf[script[d]] = d
    /\ \A e \in Outstanding : stage[e] # "idle"

\* Results, in the directory and on their way, are of the plan they were
\* asked for.
OwnPlan ==
    /\ \A d \in Plans : file[d] \in Results => planOf[file[d].of] = d
    /\ \A r \in wire : planOf[r.of] = planOf[r.trigger]

\* Whoever listens knows of everything else that is under way.
Overheard ==
    \A e \in Execs :
      /\ stage[e] \in Listening => Outstanding \subseteq overlap[e] \union {e}
      /\ stage[e] \in {"idle", "script"} => inbox[e] = None /\ answer[e] = None
      /\ inbox[e] # None => /\ inbox[e].trigger \in overlap[e] \union {e}
                           /\ planOf[inbox[e].of] = planOf[inbox[e].trigger]

AnswerInv == TypeOK /\ SlotsBusy /\ Written /\ OwnPlan /\ Overheard /\ AnswerSound

\* A directory that no two slots worked in at once has one worker; if no write
\* in it failed either, its final status is gone before its result.json is
\* touched, and the status is written after a complete result.json of that
\* outcome.
Worked(w, d) == slot[w].job # None /\ planOf[slot[w].job] = d

OneWorker ==
    \A d \in Plans \ contended : \A w, v \in Slots : Worked(w, d) /\ Worked(v, d) => w = v

\* The parts of StatusLast for one worker.
WorkedLast(w, d) ==
    /\ slot[w].at \in {"execute", "hung", "write", "status"} => status[d] \notin FinalStatuses
    /\ slot[w].at = "status" => file[d] \in Results /\ file[d].kind = slot[w].kind

StatusLast ==
    \A d \in Plans \ (contended \union broken) : \A w \in Slots : Worked(w, d) => WorkedLast(w, d)

\* A script that has ended succeeded or failed.
Ended == \A w \in Slots : slot[w].at \in {"write", "status"} => slot[w].kind \in {"ok", "failed"}

StatusInv == TypeOK /\ SlotsBusy /\ Written /\ OneWorker /\ Ended /\ StatusLast /\ StatusSound

-----------------------------------------------------------------------------
(* Steps *)

\* What one worker does to the slots.
WorkerStep(w) ==
    \/ TakeJob(w) \/ ReadScript(w) \/ Refuse(w) \/ Hang(w)
    \/ (\E k \in {"ok", "failed"} : RunScript(w, k))
    \/ WriteResultFile(w) \/ WriteStatus(w) \/ PublishResult(w)

LEMMA NextCases ==
    ASSUME [Next]_vars
    PROVE  \/ \E e \in Execs : \/ WriteScript(e) \/ Subscribe(e) \/ PublishTrigger(e) \/ ExecuteError(e)
                              \/ TakeResult(e) \/ PollResult(e) \/ WaitExpires(e)
                              \/ DeliverTrigger(e) \/ LoseTrigger(e)
           \/ \E w \in Slots : WorkerStep(w)
           \/ \E r \in wire : DeliverResult(r) \/ LoseResult(r)
           \/ CrashPod
           \/ UNCHANGED vars
BY DEF Next, Executor, Worker, WorkerStep

LEMMA RangeFacts ==
    ASSUME NEW S, NEW s \in Seq(S)
    PROVE  /\ Range(s) \subseteq S
           /\ \A e \in S : Range(Append(s, e)) = Range(s) \union {e}
           /\ s # <<>> => Head(s) \in Range(s) /\ Range(Tail(s)) \subseteq Range(s)
           /\ Range(<<>>) = {}
<1>1. Range(s) \subseteq S  BY DEF Range
<1>2. ASSUME NEW e \in S PROVE Range(Append(s, e)) = Range(s) \union {e}
  <2>1. DOMAIN Append(s, e) = 1 .. Len(s) + 1 /\ DOMAIN s = 1 .. Len(s) /\ Len(s) \in Nat  OBVIOUS
  <2>2. \A i \in 1 .. Len(s) : Append(s, e)[i] = s[i]  OBVIOUS
  <2>3. Append(s, e)[Len(s) + 1] = e  OBVIOUS
  <2> QED  BY <2>1, <2>2, <2>3 DEF Range
<1>3. ASSUME s # <<>> PROVE Head(s) \in Range(s) /\ Range(Tail(s)) \subseteq Range(s)
  <2>1. Len(s) \in Nat \ {0} /\ DOMAIN s = 1 .. Len(s) /\ Head(s) = s[1]  BY <1>3
  <2>2. DOMAIN Tail(s) = 1 .. Len(s) - 1  BY <1>3
  <2>3. \A i \in 1 .. Len(s) - 1 : Tail(s)[i] = s[i + 1]  BY <1>3
  <2>4. ASSUME NEW i \in 1 .. Len(s) - 1 PROVE i + 1 \in 1 .. Len(s)  BY <2>1
  <2> QED  BY <2>1, <2>2, <2>3, <2>4 DEF Range
<1>4. Range(<<>>) = {}  BY DEF Range
<1> QED  BY <1>1, <1>2, <1>3, <1>4

\* The updates of a slot the workers make.
LEMMA SlotUpdates ==
    ASSUME NEW f \in [Slots -> SlotStates], NEW w \in Slots, NEW a \in SlotStages,
           NEW o \in Execs \union {None}, NEW k \in {"ok", "failed", "refused"}
    PROVE  /\ [f EXCEPT ![w].at = a] \in [Slots -> SlotStates]
           /\ [f EXCEPT ![w].at = a, ![w].of = o] \in [Slots -> SlotStates]
           /\ [f EXCEPT ![w].at = a, ![w].of = o, ![w].kind = k] \in [Slots -> SlotStates]
           /\ [f EXCEPT ![w].at = a, ![w].kind = k] \in [Slots -> SlotStates]
           /\ [f EXCEPT ![w].attempt = @ + 1] \in [Slots -> SlotStates]
<1>1. [f EXCEPT ![w].at = a] \in [Slots -> SlotStates]  BY DEF SlotStates
<1>2. [f EXCEPT ![w].at = a, ![w].of = o] \in [Slots -> SlotStates]  BY DEF SlotStates
<1>3. [f EXCEPT ![w].at = a, ![w].of = o, ![w].kind = k] \in [Slots -> SlotStates]  BY DEF SlotStates
<1>4. [f EXCEPT ![w].at = a, ![w].kind = k] \in [Slots -> SlotStates]  BY DEF SlotStates
<1>5. [f EXCEPT ![w].attempt = @ + 1] \in [Slots -> SlotStates]  BY DEF SlotStates
<1> QED  BY <1>1, <1>2, <1>3, <1>4, <1>5

LEMMA ResultOfType ==
    ASSUME TypeOK, SlotsBusy, NEW w \in Slots, slot[w].at \in {"write", "status", "publish"}
    PROVE  /\ ResultOf(w) \in Results /\ ResultOf(w).trigger = slot[w].job
           /\ ResultOf(w).of = slot[w].of /\ ResultOf(w).kind = slot[w].kind
           /\ slot[w].job \in Execs
BY DEF TypeOK, SlotsBusy, SlotStates, ResultOf, Results

\* What a write of the status file leaves there.
LEMMA StatusWrite ==
    ASSUME TypeOK, NEW d \in Plans, NEW v \in Statuses, NEW mended \in SUBSET {d},
           WriteStatusFile(d, v, mended)
    PROVE  /\ status' \in [Plans -> Statuses] /\ broken' \in SUBSET Plans
           /\ \A x \in Plans : x # d => status'[x] = status[x] /\ (x \in broken' <=> x \in broken)
           /\ \/ status'[d] = v /\ (d \notin broken' => d \notin broken \/ d \in mended)
              \/ d \in broken'
BY DEF TypeOK, WriteStatusFile, Statuses

LEMMA WorkerType ==
    ASSUME ValuesAssumption, TypeOK, SlotsBusy, Written, NEW w \in Slots, WorkerStep(w)
    PROVE  /\ \A x \in Slots : x # w => slot'[x] = slot[x]
           /\ slot' \in [Slots -> SlotStates]
           /\ script' \in [Plans -> Execs \union {None}]
           /\ file' \in [Plans -> Results \union {None, Torn}]
           /\ status' \in [Plans -> Statuses]
           /\ jobs' \in Seq(Execs) /\ wire' \in SUBSET Results
           /\ contended' \in SUBSET Plans /\ broken' \in SUBSET Plans
           /\ UNCHANGED <<executor, triggers, overlap>>
<1>0. slot \in [Slots -> SlotStates]  BY DEF TypeOK
<1>1. CASE TakeJob(w)
  <2>1. Head(jobs) \in Execs /\ Tail(jobs) \in Seq(Execs)  BY <1>1 DEF TakeJob, TypeOK
  <2>2. [Free EXCEPT !.job = Head(jobs), !.at = "read"] \in SlotStates
    BY <2>1 DEF Free, SlotStates, SlotStages
  <2>3. Dir(Head(jobs)) \in Plans  BY <2>1 DEF Dir, TypeOK
  <2> QED  BY <1>1, <2>1, <2>2, <2>3 DEF TakeJob, TypeOK, disk
<1>2. CASE ReadScript(w)
  <2>1. slot[w].job \in Execs /\ Dir(slot[w].job) \in Plans
    BY <1>2 DEF ReadScript, TypeOK, SlotsBusy, SlotStates, Dir
  <2>2. script[Dir(slot[w].job)] \in Execs \union {None}  BY <2>1 DEF TypeOK
  <2>3. slot' \in [Slots -> SlotStates] /\ \A x \in Slots : x # w => slot'[x] = slot[x]
    <3>1. slot' \in [Slots -> SlotStates]
      <4>1. [slot EXCEPT ![w].at = "execute", ![w].of = script[Dir(slot[w].job)]]
              \in [Slots -> SlotStates]
        <5>1. "execute" \in SlotStages  BY DEF SlotStages
        <5> QED  BY <1>0, <2>2, <5>1, SlotUpdates, Zenon
      <4>2. [slot EXCEPT ![w].at = "publish", ![w].of = slot[w].job, ![w].kind = "refused"]
              \in [Slots -> SlotStates]
        BY <1>0, <2>1, SlotUpdates DEF SlotStages
      <4> QED  BY <1>2, <4>1, <4>2 DEF ReadScript
    <3> QED  BY <1>0, <1>2, <3>1 DEF ReadScript
  <2>4. status' \in [Plans -> Statuses] /\ broken' \in SUBSET Plans
    BY <1>2, <2>1, StatusWrite DEF ReadScript, TypeOK, Statuses
  <2> QED  BY <1>2, <2>3, <2>4 DEF ReadScript, TypeOK
<1>3. CASE Refuse(w)
  <2>1. slot' \in [Slots -> SlotStates]  BY <1>0, <1>3, SlotUpdates DEF Refuse, SlotStages
  <2>2. \A x \in Slots : x # w => slot'[x] = slot[x]  BY <1>0, <1>3 DEF Refuse
  <2> QED  BY <1>3, <2>1, <2>2 DEF Refuse, TypeOK, disk, history
<1>4. ASSUME NEW k \in {"ok", "failed"}, RunScript(w, k)
      PROVE  /\ \A x \in Slots : x # w => slot'[x] = slot[x]
             /\ slot' \in [Slots -> SlotStates]
             /\ script' \in [Plans -> Execs \union {None}]
             /\ file' \in [Plans -> Results \union {None, Torn}]
             /\ broken' \in SUBSET Plans
  <2>1. slot[w].job \in Execs /\ Dir(slot[w].job) \in Plans /\ slot[w].of \in Execs
    BY <1>4 DEF RunScript, TypeOK, SlotsBusy, SlotStates, Dir
  <2>2. slot' \in [Slots -> SlotStates] /\ \A x \in Slots : x # w => slot'[x] = slot[x]
    <3>0. \A a \in SlotStages : [slot EXCEPT ![w].at = a, ![w].kind = k] \in [Slots -> SlotStates]
      BY <1>0, SlotUpdates
    <3>1. /\ [slot EXCEPT ![w].at = "write", ![w].kind = k] \in [Slots -> SlotStates]
          /\ [slot EXCEPT ![w].at = "status", ![w].kind = k] \in [Slots -> SlotStates]
      BY <3>0 DEF SlotStages
    <3>2. slot' \in [Slots -> SlotStates]  BY <1>4, <3>1 DEF RunScript
    <3> QED  BY <1>0, <1>4, <3>2 DEF RunScript
  <2>3. script' \in [Plans -> Execs \union {None}]  BY <1>4, <2>1 DEF RunScript, TypeOK
  <2>4. file' \in [Plans -> Results \union {None, Torn}] /\ broken' \in SUBSET Plans
    BY <1>4, <2>1 DEF RunScript, TypeOK
  <2> QED  BY <2>2, <2>3, <2>4
<1>5. CASE WriteResultFile(w)
  <2>1. slot[w].job \in Execs /\ Dir(slot[w].job) \in Plans /\ ResultOf(w) \in Results
    BY <1>5, ResultOfType DEF WriteResultFile, TypeOK, Dir
  <2>2. slot' \in [Slots -> SlotStates] /\ \A x \in Slots : x # w => slot'[x] = slot[x]
    <3>1. slot' \in [Slots -> SlotStates]  BY <1>0, <1>5, SlotUpdates DEF WriteResultFile, Goto, SlotStages
    <3> QED  BY <1>0, <1>5, <3>1 DEF WriteResultFile, Goto
  <2>3. file' \in [Plans -> Results \union {None, Torn}] /\ broken' \in SUBSET Plans
    BY <1>5, <2>1 DEF WriteResultFile, TypeOK
  <2> QED  BY <1>5, <2>2, <2>3 DEF WriteResultFile, TypeOK
<1>6. CASE WriteStatus(w)
  <2>1. slot[w].job \in Execs /\ Dir(slot[w].job) \in Plans
    BY <1>6, ResultOfType DEF WriteStatus, TypeOK, Dir
  <2>2. slot' \in [Slots -> SlotStates] /\ \A x \in Slots : x # w => slot'[x] = slot[x]
    <3>1. slot' \in [Slots -> SlotStates]  BY <1>0, <1>6, SlotUpdates DEF WriteStatus, Goto, SlotStages
    <3> QED  BY <1>0, <1>6, <3>1 DEF WriteStatus, Goto
  <2>3. status' \in [Plans -> Statuses] /\ broken' \in SUBSET Plans
    BY <1>6, <2>1, StatusWrite DEF WriteStatus, TypeOK, FinalStatus, Statuses
  <2> QED  BY <1>6, <2>2, <2>3 DEF WriteStatus, TypeOK
<1>7. CASE PublishResult(w)
  <2>1. ResultOf(w) \in Results  BY <1>7, ResultOfType DEF PublishResult
  <2>2. Free \in SlotStates  BY DEF Free, SlotStates, SlotStages
  <2>3. slot' \in [Slots -> SlotStates] /\ \A x \in Slots : x # w => slot'[x] = slot[x]
    <3>1. slot' \in [Slots -> SlotStates]
      <4>1. [slot EXCEPT ![w] = Free] \in [Slots -> SlotStates]  BY <1>0, <2>2
      <4>2. [slot EXCEPT ![w].attempt = @ + 1] \in [Slots -> SlotStates]
        BY <1>0, SlotUpdates DEF SlotStages
      <4> QED  BY <1>7, <4>1, <4>2 DEF PublishResult
    <3> QED  BY <1>0, <1>7, <3>1 DEF PublishResult
  <2> QED  BY <1>7, <2>1, <2>3 DEF PublishResult, TypeOK, disk
<1>8. CASE Hang(w)
  <2>1. slot[w].job \in Execs /\ Dir(slot[w].job) \in Plans /\ slot[w].of \in Execs
    BY <1>8 DEF Hang, TypeOK, SlotsBusy, SlotStates, Dir
  <2>2. slot' \in [Slots -> SlotStates] /\ \A x \in Slots : x # w => slot'[x] = slot[x]
    <3>1. slot' \in [Slots -> SlotStates]  BY <1>0, <1>8, SlotUpdates DEF Hang, Goto, SlotStages
    <3> QED  BY <1>0, <1>8, <3>1 DEF Hang, Goto
  <2>3. script' \in [Plans -> Execs \union {None}]  BY <1>8, <2>1 DEF Hang, TypeOK
  <2> QED  BY <1>8, <2>2, <2>3 DEF Hang, TypeOK
<1> QED
  BY <1>1, <1>2, <1>3, <1>4, <1>5, <1>6, <1>7, <1>8 DEF WorkerStep, RunScript, TypeOK

LEMMA TypeStep ==
    ASSUME ValuesAssumption, TypeOK, SlotsBusy, Written, [Next]_vars
    PROVE  TypeOK'
<1>1. ASSUME NEW e \in Execs, WriteScript(e)  PROVE TypeOK'
  <2>1. Dir(e) \in Plans  BY DEF Dir, TypeOK
  <2>2. status' \in [Plans -> Statuses] /\ broken' \in SUBSET Plans
    BY <1>1, <2>1, StatusWrite DEF WriteScript, Statuses
  <2> QED  BY <1>1, <2>1, <2>2 DEF TypeOK, WriteScript, Stages, fixed
<1>2. ASSUME NEW e \in Execs, Subscribe(e)  PROVE TypeOK'
  <2>1. Outstanding \subseteq Execs
    BY RangeFacts DEF Outstanding, TypeOK, Handled, Results
  <2> QED  BY <1>2, <2>1 DEF TypeOK, Subscribe, Stages, fixed, disk
<1>3. ASSUME NEW e \in Execs, PublishTrigger(e)  PROVE TypeOK'
  BY <1>3 DEF TypeOK, PublishTrigger, Stages, fixed, disk
<1>4. ASSUME NEW e \in Execs, ExecuteError(e)  PROVE TypeOK'
  BY <1>4 DEF TypeOK, ExecuteError, Stages, fixed, disk, history
<1>5. ASSUME NEW e \in Execs, TakeResult(e) \/ PollResult(e) \/ WaitExpires(e)  PROVE TypeOK'
  <2>1. PICK r \in Results \union {None, Timeout} : Return(e, r)
    BY <1>5 DEF TypeOK, TakeResult, PollResult, WaitExpires, Readable
  <2> QED  BY <2>1 DEF TypeOK, Return, Stages, fixed, disk, history
<1>6. ASSUME NEW e \in Execs, DeliverTrigger(e)  PROVE TypeOK'
  <2>1. jobs' \in Seq(Execs) /\ triggers' \in SUBSET Execs
    BY <1>6 DEF TypeOK, DeliverTrigger
  <2> QED  BY <1>6, <2>1 DEF TypeOK, DeliverTrigger, executor, fixed, disk, history
<1>7. ASSUME NEW e \in Execs, LoseTrigger(e)  PROVE TypeOK'
  BY <1>7 DEF TypeOK, LoseTrigger, executor, fixed, disk
<1>8. ASSUME NEW w \in Slots, WorkerStep(w)  PROVE TypeOK'
  BY <1>8, WorkerType DEF TypeOK, executor, fixed
<1>9. ASSUME NEW r \in wire, DeliverResult(r)  PROVE TypeOK'
  <2>1. inbox' \in [Execs -> Results \union {None}]  BY <1>9 DEF TypeOK, DeliverResult
  <2> QED  BY <1>9, <2>1 DEF TypeOK, DeliverResult, fixed, disk, history
<1>10. ASSUME NEW r \in wire, LoseResult(r)  PROVE TypeOK'
  BY <1>10 DEF TypeOK, LoseResult, executor, fixed, disk
<1>11. CASE CrashPod
  <2>1. Free \in SlotStates  BY DEF Free, SlotStates, SlotStages
  <2> QED  BY <1>11, <2>1 DEF TypeOK, CrashPod, executor, fixed, disk
<1>12. CASE UNCHANGED vars
  BY <1>12 DEF TypeOK, vars, executor, fixed, disk, history
<1> QED
  BY <1>1, <1>2, <1>3, <1>4, <1>5, <1>6, <1>7, <1>8, <1>9, <1>10, <1>11, <1>12, NextCases

-----------------------------------------------------------------------------
(* Slots, scripts and what is under way *)

\* What a worker is doing after its step.
LEMMA WorkerEffect ==
    ASSUME ValuesAssumption, TypeOK, SlotsBusy, Written, NEW w \in Slots, WorkerStep(w)
    PROVE  \/ /\ TakeJob(w) /\ Head(jobs) \in Execs /\ slot[w].job = None
              /\ slot'[w].job = Head(jobs) /\ slot'[w].at = "read"
           \/ /\ slot[w].at # "idle" /\ slot[w].job \in Execs /\ planOf[slot[w].job] \in Plans
              /\ UNCHANGED <<jobs, contended>>
              /\ \/ slot[w].at = "read" /\ ReadScript(w)
                 \/ slot[w].at \in {"execute", "hung", "write", "status", "publish"} /\ ~ReadScript(w)
              /\ \/ /\ slot'[w].job = slot[w].job /\ slot'[w].at # "idle" /\ UNCHANGED wire
                    /\ slot'[w].of \in Execs /\ planOf[slot'[w].of] = planOf[slot[w].job]
                 \/ /\ PublishResult(w) /\ slot[w].at = "publish"
                    /\ slot'[w].job = None /\ slot'[w].at = "idle"
                    /\ wire' = wire \/ wire' = wire \union {ResultOf(w)}
<1>0. slot \in [Slots -> SlotStates]  BY DEF TypeOK
<1>1. CASE TakeJob(w)
  <2>1. Head(jobs) \in Execs  BY <1>1 DEF TakeJob, TypeOK
  <2>2. slot'[w] = [Free EXCEPT !.job = Head(jobs), !.at = "read"] /\ slot[w].job = None
    BY <1>0, <1>1 DEF TakeJob, Free
  <2> QED  BY <1>1, <2>1, <2>2 DEF Free
<1>2. ASSUME slot[w].at # "idle"  PROVE slot[w].job \in Execs /\ planOf[slot[w].job] \in Plans
  BY <1>2 DEF TypeOK, SlotsBusy, SlotStates
<1>3. CASE ReadScript(w)
  <2>1. slot[w].at = "read" /\ slot[w].job \in Execs /\ planOf[slot[w].job] \in Plans
    BY <1>2, <1>3 DEF ReadScript
  <2> DEFINE d == planOf[slot[w].job]
  <2>2. slot[w].job \in Outstanding  BY <2>1 DEF Outstanding, Handled, Busy
  <2>3. script[d] \in Execs /\ planOf[script[d]] = d  BY <2>1, <2>2 DEF Written, TypeOK
  <2>4. CASE slot' = [slot EXCEPT ![w].at = "execute", ![w].of = script[d]]
    <3>1. slot'[w].job = slot[w].job /\ slot'[w].at = "execute" /\ slot'[w].of = script[d]
      BY <1>0, <2>4 DEF SlotStates
    <3> QED  BY <1>3, <2>1, <2>3, <3>1 DEF ReadScript
  <2>5. CASE slot' = [slot EXCEPT ![w].at = "publish", ![w].of = slot[w].job, ![w].kind = "refused"]
    <3>1. slot'[w].job = slot[w].job /\ slot'[w].at = "publish" /\ slot'[w].of = slot[w].job
      BY <1>0, <2>5 DEF SlotStates
    <3> QED  BY <1>3, <2>1, <3>1 DEF ReadScript
  <2> QED  BY <1>3, <2>4, <2>5 DEF ReadScript, Dir
<1>4. ASSUME slot[w].at \in {"execute", "hung", "write", "status", "publish"}
      PROVE  /\ slot[w].at # "idle" /\ ~ReadScript(w)
             /\ slot[w].of \in Execs /\ planOf[slot[w].of] = planOf[slot[w].job]
  BY <1>4 DEF SlotsBusy, ReadScript
<1>5. CASE Refuse(w)
  <2>1. slot'[w].job = slot[w].job /\ slot'[w].at = "publish" /\ slot'[w].of = slot[w].of
    BY <1>0, <1>5 DEF Refuse, SlotStates
  <2> QED  BY <1>2, <1>4, <1>5, <2>1 DEF Refuse, history
<1>6. ASSUME NEW k \in {"ok", "failed"}, RunScript(w, k)
      PROVE  /\ slot[w].at \in {"execute", "hung"} /\ UNCHANGED <<jobs, contended, wire>>
             /\ slot'[w].job = slot[w].job /\ slot'[w].at # "idle" /\ slot'[w].of = slot[w].of
  <2>1. slot'[w].job = slot[w].job /\ slot'[w].at # "idle" /\ slot'[w].of = slot[w].of
    <3>1. CASE slot' = [slot EXCEPT ![w].at = "write", ![w].kind = k]  BY <1>0, <3>1 DEF SlotStates
    <3>2. CASE slot' = [slot EXCEPT ![w].at = "status", ![w].kind = k]  BY <1>0, <3>2 DEF SlotStates
    <3> QED  BY <1>6, <3>1, <3>2 DEF RunScript
  <2> QED  BY <1>6, <2>1 DEF RunScript
<1>7. CASE WriteResultFile(w)
  <2>1. slot'[w].job = slot[w].job /\ slot'[w].at = "status" /\ slot'[w].of = slot[w].of
    BY <1>0, <1>7 DEF WriteResultFile, Goto, SlotStates
  <2> QED  BY <1>2, <1>4, <1>7, <2>1 DEF WriteResultFile
<1>8. CASE WriteStatus(w)
  <2>1. slot'[w].job = slot[w].job /\ slot'[w].at = "publish" /\ slot'[w].of = slot[w].of
    BY <1>0, <1>8 DEF WriteStatus, Goto, SlotStates
  <2> QED  BY <1>2, <1>4, <1>8, <2>1 DEF WriteStatus
<1>9. CASE PublishResult(w)
  <2>1. slot[w].at = "publish" /\ UNCHANGED <<jobs, contended>>  BY <1>9 DEF PublishResult
  <2>2. CASE slot' = [slot EXCEPT ![w] = Free]
    <3>1. slot'[w].job = None /\ slot'[w].at = "idle"  BY <1>0, <2>2 DEF Free
    <3>2. wire' = wire \/ wire' = wire \union {ResultOf(w)}  BY <1>9 DEF PublishResult
    <3> QED  BY <1>2, <1>4, <1>9, <2>1, <3>1, <3>2
  <2>3. CASE slot' = [slot EXCEPT ![w].attempt = @ + 1] /\ UNCHANGED wire
    <3>1. slot'[w].job = slot[w].job /\ slot'[w].at = slot[w].at /\ slot'[w].of = slot[w].of
      BY <1>0, <2>3 DEF SlotStates
    <3> QED  BY <1>2, <1>4, <2>1, <2>3, <3>1
  <2> QED  BY <1>9, <2>2, <2>3 DEF PublishResult
<1>10. CASE Hang(w)
  <2>1. slot'[w].job = slot[w].job /\ slot'[w].at = "hung" /\ slot'[w].of = slot[w].of
    BY <1>0, <1>10 DEF Hang, Goto, SlotStates
  <2> QED  BY <1>2, <1>4, <1>10, <2>1 DEF Hang
<1> QED  BY <1>1, <1>2, <1>3, <1>4, <1>5, <1>6, <1>7, <1>8, <1>9, <1>10 DEF WorkerStep

LEMMA SlotsStep ==
    ASSUME ValuesAssumption, TypeOK, SlotsBusy, Written, [Next]_vars
    PROVE  SlotsBusy'
<1>1. CASE UNCHANGED <<slot, planOf>>  BY <1>1 DEF SlotsBusy
<1>2. ASSUME NEW w \in Slots, WorkerStep(w)  PROVE SlotsBusy'
  <2>1. planOf' = planOf /\ \A x \in Slots : x # w => slot'[x] = slot[x]
    BY <1>2, WorkerType DEF executor, fixed
  <2>2. /\ slot'[w].at # "idle" <=> slot'[w].job # None
        /\ slot'[w].at \in {"execute", "hung", "write", "status", "publish"} =>
             slot'[w].of \in Execs /\ planOf[slot'[w].of] = planOf[slot'[w].job]
    BY <1>2, WorkerEffect DEF ValuesAssumption
  <2> QED  BY <2>1, <2>2 DEF SlotsBusy
<1>3. CASE CrashPod
  BY <1>3 DEF CrashPod, SlotsBusy, Free, executor, fixed
<1> QED
  BY <1>1, <1>2, <1>3, NextCases
     DEF WriteScript, Subscribe, PublishTrigger, ExecuteError, TakeResult, PollResult, WaitExpires,
         Return, DeliverTrigger, LoseTrigger, DeliverResult, LoseResult, vars, executor, fixed

\* Only PublishTrigger puts an execution under way.
LEMMA OutstandingStep ==
    ASSUME ValuesAssumption, TypeOK, SlotsBusy, Written, [Next]_vars
    PROVE  \/ Outstanding' \subseteq Outstanding
           \/ \E e \in Execs : PublishTrigger(e) /\ Outstanding' \subseteq Outstanding \union {e}
<1>1. CASE UNCHANGED <<triggers, jobs, slot, wire>>
  BY <1>1 DEF Outstanding, Handled, Busy
<1>2. ASSUME NEW e \in Execs, PublishTrigger(e)  PROVE Outstanding' \subseteq Outstanding \union {e}
  BY <1>2 DEF PublishTrigger, Outstanding, Handled, Busy
<1>3. ASSUME NEW e \in Execs, DeliverTrigger(e)  PROVE Outstanding' \subseteq Outstanding
  <2>1. Range(jobs') = Range(jobs) \union {e}  BY <1>3, RangeFacts DEF DeliverTrigger, TypeOK
  <2>2. Handled' = Handled  BY <1>3 DEF DeliverTrigger, Handled, Busy
  <2>3. e \in triggers /\ triggers' \subseteq triggers /\ wire' = wire  BY <1>3 DEF DeliverTrigger
  <2> QED  BY <2>1, <2>2, <2>3 DEF Outstanding
<1>4. ASSUME NEW e \in Execs, LoseTrigger(e)  PROVE Outstanding' \subseteq Outstanding
  BY <1>4 DEF LoseTrigger, Outstanding, Handled, Busy
<1>5. ASSUME NEW r \in wire, DeliverResult(r) \/ LoseResult(r)  PROVE Outstanding' \subseteq Outstanding
  <2>1. wire' \subseteq wire /\ UNCHANGED <<triggers, jobs, slot>>  BY <1>5 DEF DeliverResult, LoseResult
  <2> QED  BY <2>1 DEF Outstanding, Handled, Busy
<1>6. CASE CrashPod
  <2>1. Range(jobs') = {}  BY <1>6 DEF CrashPod, Range
  <2>2. Handled' = {}  BY <1>6 DEF CrashPod, Handled, Busy, Free, ValuesAssumption
  <2> QED  BY <1>6, <2>1, <2>2 DEF CrashPod, Outstanding
<1>7. ASSUME NEW w \in Slots, WorkerStep(w)  PROVE Outstanding' \subseteq Outstanding
  <2>1. triggers' = triggers /\ \A x \in Slots : x # w => slot'[x] = slot[x]  BY <1>7, WorkerType
  <2>2. CASE TakeJob(w) /\ slot'[w].job = Head(jobs)
    <3>1. Head(jobs) \in Range(jobs) /\ Range(jobs') \subseteq Range(jobs) /\ wire' = wire
      BY <2>2, RangeFacts DEF TakeJob, TypeOK
    <3>2. Handled' \subseteq Handled \union {Head(jobs)}  BY <2>1, <2>2 DEF Handled, Busy
    <3> QED  BY <2>1, <3>1, <3>2 DEF Outstanding
  <2>3. CASE slot'[w].job = slot[w].job /\ UNCHANGED <<jobs, wire>>
    <3>1. Handled' \subseteq Handled  BY <2>1, <2>3 DEF Handled, Busy
    <3> QED  BY <2>1, <2>3, <3>1 DEF Outstanding
  <2>4. CASE /\ slot[w].at = "publish" /\ slot'[w].job = None /\ UNCHANGED jobs
             /\ wire' = wire \/ wire' = wire \union {ResultOf(w)}
    <3>1. Handled' \subseteq Handled  BY <2>1, <2>4 DEF Handled, Busy, ValuesAssumption
    <3>2. ResultOf(w).trigger \in Handled  BY <2>4, ResultOfType DEF Handled, Busy
    <3>3. {r.trigger : r \in wire'} \subseteq {r.trigger : r \in wire} \union Handled
      BY <2>4, <3>2
    <3> QED  BY <2>1, <2>4, <3>1, <3>3 DEF Outstanding
  <2> QED  BY <1>7, <2>2, <2>3, <2>4, WorkerEffect
<1> QED
  BY <1>1, <1>2, <1>3, <1>4, <1>5, <1>6, <1>7, NextCases
     DEF WriteScript, Subscribe, ExecuteError, TakeResult, PollResult, WaitExpires, Return, vars

LEMMA PlansFixed ==
    ASSUME ValuesAssumption, TypeOK, SlotsBusy, Written, [Next]_vars
    PROVE  planOf' = planOf
<1>1. \A w \in Slots : WorkerStep(w) => planOf' = planOf  BY WorkerType DEF executor, fixed
<1> QED
  BY <1>1, NextCases
     DEF WriteScript, Subscribe, PublishTrigger, ExecuteError, TakeResult, PollResult, WaitExpires,
         Return, DeliverTrigger, LoseTrigger, DeliverResult, LoseResult, CrashPod, vars, executor, fixed

LEMMA WrittenStep ==
    ASSUME ValuesAssumption, TypeOK, SlotsBusy, Written, [Next]_vars
    PROVE  Written'
<1>0. planOf' = planOf  BY PlansFixed
<1>1. \A e \in Execs : stage[e] # "idle" => stage'[e] # "idle"
  <2>1. \A w \in Slots : WorkerStep(w) => stage' = stage  BY WorkerType DEF executor
  <2> QED
    BY <2>1, NextCases
       DEF TypeOK, WriteScript, Subscribe, PublishTrigger, ExecuteError, TakeResult, PollResult,
           WaitExpires, Return, DeliverTrigger, LoseTrigger, DeliverResult, LoseResult, CrashPod,
           vars, executor
<1>2. \A e \in Outstanding' : stage'[e] # "idle"
  <2>1. CASE Outstanding' \subseteq Outstanding
    <3>1. Outstanding \subseteq Execs  BY RangeFacts DEF Outstanding, TypeOK, Handled, Results
    <3> QED  BY <1>1, <2>1, <3>1 DEF Written
  <2>2. ASSUME NEW e \in Execs, PublishTrigger(e), Outstanding' \subseteq Outstanding \union {e}
        PROVE  \A x \in Outstanding' : stage'[x] # "idle"
    <3>1. Outstanding \subseteq Execs  BY RangeFacts DEF Outstanding, TypeOK, Handled, Results
    <3>2. stage'[e] # "idle"  BY <2>2 DEF PublishTrigger, TypeOK
    <3> QED  BY <1>1, <2>2, <3>1, <3>2 DEF Written
  <2> QED  BY <2>1, <2>2, OutstandingStep
<1>3. ASSUME UNCHANGED script, \A e \in Execs : stage'[e] # "idle" => stage[e] # "idle"
      PROVE  /\ \A e \in Execs : stage'[e] # "idle" => script'[planOf[e]] # None
             /\ \A d \in Plans : script'[d] # None => planOf[script'[d]] = d
  BY <1>3 DEF Written
<1>4. ASSUME NEW e \in Execs, WriteScript(e)
      PROVE  /\ \A x \in Execs : stage'[x] # "idle" => script'[planOf[x]] # None
             /\ \A d \in Plans : script'[d] # None => planOf[script'[d]] = d
  BY <1>4 DEF WriteScript, Written, TypeOK, Dir, ValuesAssumption
<1>5. ASSUME NEW w \in Slots, Hang(w) \/ \E k \in {"ok", "failed"} : RunScript(w, k)
      PROVE  /\ \A x \in Execs : stage'[x] # "idle" => script'[planOf[x]] # None
             /\ \A d \in Plans : script'[d] # None => planOf[script'[d]] = d
  <2>1. slot[w].job \in Execs /\ slot[w].of \in Execs /\ planOf[slot[w].of] = planOf[slot[w].job]
    BY <1>5 DEF RunScript, Hang, SlotsBusy, TypeOK, SlotStates
  <2>2. /\ script' = script \/ script' = [script EXCEPT ![planOf[slot[w].job]] = slot[w].of]
        /\ stage' = stage
    BY <1>5 DEF RunScript, Hang, Dir, executor
  <2> QED  BY <2>1, <2>2 DEF Written, TypeOK, ValuesAssumption
<1>6. \/ UNCHANGED script /\ \A e \in Execs : stage'[e] # "idle" => stage[e] # "idle"
      \/ \E e \in Execs : WriteScript(e)
      \/ \E w \in Slots : Hang(w) \/ \E k \in {"ok", "failed"} : RunScript(w, k)
  BY NextCases
     DEF TypeOK, Subscribe, PublishTrigger, ExecuteError, TakeResult, PollResult, WaitExpires,
         Return, DeliverTrigger, LoseTrigger, DeliverResult, LoseResult, CrashPod, WorkerStep,
         TakeJob, ReadScript, Refuse, WriteResultFile, WriteStatus, PublishResult, vars, executor, disk
<1> QED  BY <1>0, <1>2, <1>3, <1>4, <1>5, <1>6 DEF Written

-----------------------------------------------------------------------------
(* Answers *)

LEMMA OwnPlanStep ==
    ASSUME ValuesAssumption, AnswerInv, [Next]_vars
    PROVE  OwnPlan'
<1> USE DEF AnswerInv
<1>0. planOf' = planOf  BY PlansFixed
<1>1. \A d \in Plans : file'[d] \in Results => planOf[file'[d].of] = d
  <2>1. CASE UNCHANGED file  BY <2>1 DEF OwnPlan
  <2>2. ASSUME NEW w \in Slots, NEW k \in {"ok", "failed"}, RunScript(w, k)
        PROVE  \A d \in Plans : file'[d] \in Results => planOf[file'[d].of] = d
    BY <2>2 DEF RunScript, OwnPlan, TypeOK, ValuesAssumption
  <2>3. ASSUME NEW w \in Slots, WriteResultFile(w)
        PROVE  \A d \in Plans : file'[d] \in Results => planOf[file'[d].of] = d
    <3>1. /\ ResultOf(w) \in Results /\ slot[w].job \in Execs
          /\ planOf[ResultOf(w).of] = planOf[slot[w].job]
      BY <2>3, ResultOfType DEF WriteResultFile, SlotsBusy
    <3> QED  BY <2>3, <3>1 DEF WriteResultFile, OwnPlan, TypeOK, Dir
  <2>4. \/ UNCHANGED file
        \/ \E w \in Slots : WriteResultFile(w) \/ \E k \in {"ok", "failed"} : RunScript(w, k)
    BY NextCases
       DEF WriteScript, Subscribe, PublishTrigger, ExecuteError, TakeResult, PollResult, WaitExpires,
           Return, DeliverTrigger, LoseTrigger, DeliverResult, LoseResult, CrashPod, WorkerStep,
           TakeJob, ReadScript, Refuse, Hang, WriteStatus, PublishResult, vars, disk
  <2> QED  BY <2>1, <2>2, <2>3, <2>4
<1>2. \A r \in wire' : planOf[r.of] = planOf[r.trigger]
  <2>1. CASE wire' \subseteq wire  BY <2>1 DEF OwnPlan
  <2>2. ASSUME NEW w \in Slots, WorkerStep(w)
        PROVE  \A r \in wire' : planOf[r.of] = planOf[r.trigger]
    <3>1. CASE UNCHANGED wire  BY <3>1 DEF OwnPlan
    <3>2. CASE slot[w].at = "publish" /\ wire' = wire \union {ResultOf(w)}
      <4>1. planOf[ResultOf(w).of] = planOf[ResultOf(w).trigger]
        BY <3>2, ResultOfType DEF SlotsBusy
      <4> QED  BY <3>2, <4>1 DEF OwnPlan
    <3> QED  BY <2>2, <3>1, <3>2, WorkerEffect DEF TakeJob
  <2> QED
    BY <2>1, <2>2, NextCases
       DEF WriteScript, Subscribe, PublishTrigger, ExecuteError, TakeResult, PollResult, WaitExpires,
           Return, DeliverTrigger, LoseTrigger, DeliverResult, LoseResult, CrashPod, vars
<1> QED  BY <1>0, <1>1, <1>2 DEF OwnPlan

\* What a listening execution knows of stays known.
LEMMA OverlapGrows ==
    ASSUME ValuesAssumption, AnswerInv, [Next]_vars,
           NEW e \in Execs, stage[e] \notin {"idle", "script"}
    PROVE  /\ stage'[e] \notin {"idle", "script"}
           /\ overlap[e] \subseteq overlap'[e]
<1>1. \A w \in Slots : WorkerStep(w) => stage' = stage /\ overlap' = overlap
  BY WorkerType DEF executor, AnswerInv
<1>2. ASSUME NEW x \in Execs, PublishTrigger(x)
      PROVE  stage'[e] \notin {"idle", "script"} /\ overlap[e] \subseteq overlap'[e]
  BY <1>2 DEF PublishTrigger, AnswerInv, TypeOK
<1>3. ASSUME NEW x \in Execs, Subscribe(x)
      PROVE  stage'[e] \notin {"idle", "script"} /\ overlap[e] \subseteq overlap'[e]
  BY <1>3 DEF Subscribe, AnswerInv, TypeOK
<1> QED
  BY <1>1, <1>2, <1>3, NextCases
     DEF AnswerInv, TypeOK, WriteScript, ExecuteError, TakeResult, PollResult, WaitExpires,
         Return, DeliverTrigger, LoseTrigger, DeliverResult, LoseResult, CrashPod,
         vars, executor, history

LEMMA OverheardStep ==
    ASSUME ValuesAssumption, AnswerInv, [Next]_vars
    PROVE  Overheard'
<1> USE DEF AnswerInv
<1> SUFFICES ASSUME NEW e \in Execs
             PROVE  /\ stage'[e] \in Listening => Outstanding' \subseteq overlap'[e] \union {e}
                    /\ stage'[e] \in {"idle", "script"} => inbox'[e] = None /\ answer'[e] = None
                    /\ inbox'[e] # None => /\ inbox'[e].trigger \in overlap'[e] \union {e}
                                          /\ planOf[inbox'[e].of] = planOf[inbox'[e].trigger]
  BY PlansFixed DEF Overheard, Listening
<1>0. \A w \in Slots : WorkerStep(w) => UNCHANGED <<stage, inbox, answer, overlap>>
  BY WorkerType DEF executor
<1>1. ASSUME stage'[e] \in Listening  PROVE Outstanding' \subseteq overlap'[e] \union {e}
  <2>1. \/ stage[e] \in Listening
        \/ Subscribe(e)
    BY <1>0, <1>1, NextCases
       DEF TypeOK, Listening, WriteScript, Subscribe, PublishTrigger, ExecuteError, TakeResult,
           PollResult, WaitExpires, Return, DeliverTrigger, LoseTrigger, DeliverResult, LoseResult,
           CrashPod, vars, executor
  <2>2. CASE Subscribe(e)
    BY <2>2 DEF Subscribe, TypeOK, Outstanding, Handled, Busy
  <2>3. CASE stage[e] \in Listening
    <3>1. Outstanding \subseteq overlap[e] \union {e} /\ overlap[e] \subseteq overlap'[e]
      BY <2>3, OverlapGrows DEF Overheard, Listening
    <3>2. ASSUME NEW x \in Execs, PublishTrigger(x), Outstanding' \subseteq Outstanding \union {x}
          PROVE  Outstanding' \subseteq overlap'[e] \union {e}
      BY <2>3, <3>1, <3>2 DEF PublishTrigger, TypeOK
    <3> QED  BY <3>1, <3>2, OutstandingStep
  <2> QED  BY <2>1, <2>2, <2>3
<1>2. ASSUME stage'[e] \in {"idle", "script"}  PROVE inbox'[e] = None /\ answer'[e] = None
  <2>1. stage[e] \in {"idle", "script"}  BY <1>2, OverlapGrows
  <2>2. inbox[e] = None /\ answer[e] = None  BY <2>1 DEF Overheard
  <2>3. ASSUME NEW r \in wire, DeliverResult(r) PROVE inbox'[e] = None /\ answer'[e] = None
    BY <2>1, <2>2, <2>3 DEF DeliverResult, Listening
  <2>4. ASSUME NEW x \in Execs, TakeResult(x) \/ PollResult(x) \/ WaitExpires(x)
        PROVE  inbox'[e] = None /\ answer'[e] = None
    BY <2>1, <2>2, <2>4 DEF TakeResult, PollResult, WaitExpires, Return, TypeOK
  <2> QED
    BY <1>0, <2>2, <2>3, <2>4, NextCases
       DEF WriteScript, Subscribe, PublishTrigger, ExecuteError, DeliverTrigger, LoseTrigger,
           LoseResult, CrashPod, vars, executor
<1>3. ASSUME inbox'[e] # None
      PROVE  /\ inbox'[e].trigger \in overlap'[e] \union {e}
             /\ planOf[inbox'[e].of] = planOf[inbox'[e].trigger]
  <2>1. CASE inbox'[e] = inbox[e]
    <3>1. /\ stage[e] \notin {"idle", "script"} /\ inbox[e].trigger \in overlap[e] \union {e}
          /\ planOf[inbox[e].of] = planOf[inbox[e].trigger]
      BY <1>3, <2>1 DEF Overheard
    <3> QED  BY <2>1, <3>1, OverlapGrows
  <2>2. ASSUME NEW r \in wire, DeliverResult(r), inbox'[e] # inbox[e]
        PROVE  /\ inbox'[e].trigger \in overlap'[e] \union {e}
               /\ planOf[inbox'[e].of] = planOf[inbox'[e].trigger]
    <3>1. stage[e] \in Listening /\ inbox'[e] = r  BY <2>2 DEF DeliverResult, TypeOK
    <3>2. r.trigger \in Outstanding /\ planOf[r.of] = planOf[r.trigger]
      BY DEF Outstanding, OwnPlan
    <3>3. overlap' = overlap  BY <2>2 DEF DeliverResult, history
    <3> QED  BY <3>1, <3>2, <3>3 DEF Overheard
  <2> QED
    BY <1>0, <1>3, <2>1, <2>2, NextCases
       DEF TypeOK, WriteScript, Subscribe, PublishTrigger, ExecuteError, TakeResult, PollResult,
           WaitExpires, Return, DeliverTrigger, LoseTrigger, LoseResult, CrashPod, vars, executor
<1> QED  BY <1>1, <1>2, <1>3

LEMMA AnswerStep ==
    ASSUME ValuesAssumption, AnswerInv, [Next]_vars
    PROVE  AnswerSound'
<1> USE DEF AnswerInv
<1>0. planOf' = planOf  BY PlansFixed
<1> SUFFICES ASSUME NEW e \in Execs, answer'[e] \in Results
             PROVE  \/ planOf[answer'[e].of] = planOf[e]
                    \/ answer'[e].trigger \in overlap'[e]
  BY <1>0 DEF AnswerSound
<1>1. CASE answer'[e] = answer[e]
  <2>1. answer[e] # None  BY <1>1 DEF ValuesAssumption
  <2>2. stage[e] \notin {"idle", "script"}  BY <2>1 DEF Overheard
  <2> QED  BY <1>1, <2>2, OverlapGrows DEF AnswerSound
<1>2. CASE TakeResult(e)
  <2>1. answer'[e] = inbox[e] /\ inbox[e] # None /\ overlap' = overlap
    BY <1>2 DEF TakeResult, Return, TypeOK, history
  <2> QED  BY <2>1 DEF Overheard
<1>3. CASE PollResult(e) \/ WaitExpires(e)
  <2>1. answer'[e] = file[planOf[e]]
    BY <1>3 DEF PollResult, WaitExpires, Return, TypeOK, Dir, ValuesAssumption
  <2> QED  BY <2>1 DEF OwnPlan, TypeOK
<1>4. \/ answer'[e] = answer[e] \/ TakeResult(e) \/ PollResult(e) \/ WaitExpires(e)
  <2>1. \A w \in Slots : WorkerStep(w) => answer' = answer  BY WorkerType DEF executor
  <2> QED
    BY <2>1, NextCases
       DEF TypeOK, WriteScript, Subscribe, PublishTrigger, ExecuteError, TakeResult, PollResult,
           WaitExpires, Return, DeliverTrigger, LoseTrigger, DeliverResult, LoseResult, CrashPod,
           vars, executor
<1> QED  BY <1>1, <1>2, <1>3, <1>4

LEMMA TypeInit ==
    ASSUME SandboxAssumption, ValuesAssumption, Init
    PROVE  TypeOK /\ SlotsBusy /\ Written /\ Outstanding = {}
<1>1. Free \in SlotStates  BY DEF Free, SlotStates, SlotStages
<1>2. TypeOK  BY <1>1 DEF Init, TypeOK, Stages, Statuses
<1>3. SlotsBusy  BY DEF Init, SlotsBusy, Free
<1>4. Outstanding = {}
  <2>1. Range(jobs) = {}  BY DEF Init, Range
  <2>2. Handled = {}  BY DEF Init, Handled, Busy, Free, ValuesAssumption
  <2> QED  BY <2>1, <2>2 DEF Init, Outstanding
<1>5. Written  BY <1>4 DEF Init, Written
<1> QED  BY <1>2, <1>3, <1>4, <1>5

\* Types, and that a busy slot has a script of its job's plan.
THEOREM TypeCorrect == Spec => [](TypeOK /\ SlotsBusy)
<1> DEFINE I == TypeOK /\ SlotsBusy /\ Written
<1>1. Init => I  BY TypeInit, SandboxAssumption, ValuesAssumption
<1>2. I /\ [Next]_vars => I'  BY TypeStep, SlotsStep, WrittenStep, ValuesAssumption
<1>3. I => TypeOK /\ SlotsBusy  OBVIOUS
<1> QED  BY <1>1, <1>2, <1>3, PTL DEF Spec

\* SandboxExecutor.Execute returns what a script of its own plan did, unless
\* another execution of the run was in progress while it listened.
THEOREM AnswersAreSound == Spec => []AnswerSound
<1>1. Init => AnswerInv
  <2> SUFFICES ASSUME Init PROVE AnswerInv  OBVIOUS
  <2>1. TypeOK /\ SlotsBusy /\ Written /\ Outstanding = {}
    BY TypeInit, SandboxAssumption, ValuesAssumption
  <2>2. OwnPlan  BY ValuesAssumption DEF Init, OwnPlan, ValuesAssumption
  <2>3. Overheard  BY <2>1 DEF Init, Overheard
  <2>4. AnswerSound  BY ValuesAssumption DEF Init, AnswerSound, ValuesAssumption
  <2> QED  BY <2>1, <2>2, <2>3, <2>4 DEF AnswerInv
<1>2. AnswerInv /\ [Next]_vars => AnswerInv'
  BY TypeStep, SlotsStep, WrittenStep, OwnPlanStep, OverheardStep, AnswerStep, ValuesAssumption
     DEF AnswerInv
<1>3. AnswerInv => AnswerSound  BY DEF AnswerInv
<1> QED  BY <1>1, <1>2, <1>3, PTL DEF Spec

-----------------------------------------------------------------------------
(* The status file *)

\* What a worker's step does in the directory of its job, and that it leaves
\* the others alone.
LEMMA WorkerDisk ==
    ASSUME ValuesAssumption, TypeOK, SlotsBusy, Written, Ended,
           NEW w \in Slots, WorkerStep(w), ~TakeJob(w), NEW d, d = planOf[slot[w].job]
    PROVE  /\ d \in Plans /\ slot[w].job \in Execs /\ contended' = contended
           /\ slot'[w].job \in {slot[w].job, None}
           /\ slot'[w].at \in {"write", "status"} => slot'[w].kind \in {"ok", "failed"}
           /\ \A x \in Plans : x # d => /\ file'[x] = file[x] /\ status'[x] = status[x]
                                        /\ x \in broken' <=> x \in broken
           /\ \/ d \in broken'
              \/ /\ slot'[w].at = "execute" /\ d \notin broken
                 /\ file'[d] = file[d] /\ status'[d] = "RUNNING"
              \/ /\ slot'[w].at \in {"idle", "publish"} /\ UNCHANGED <<file, status, broken>>
              \/ /\ slot[w].at = "execute" /\ slot'[w].at = "hung" /\ UNCHANGED <<file, status, broken>>
              \/ /\ slot[w].at \in {"execute", "hung"} /\ slot'[w].at = "write"
                 /\ file'[d] = Torn /\ UNCHANGED <<status, broken>>
              \/ /\ slot[w].at = "write" /\ slot'[w].at = "status" /\ slot'[w].kind = slot[w].kind
                 /\ file'[d] \in Results /\ file'[d].kind = slot[w].kind /\ UNCHANGED <<status, broken>>
              \/ /\ slot[w].at = "status" /\ slot'[w].at = "publish"
                 /\ slot[w].kind \in {"ok", "failed"}
                 /\ file'[d] = file[d] /\ status'[d] = FinalStatus(slot[w].kind)
                 /\ d \notin broken \/ (file[d] \in Results /\ file[d].kind = slot[w].kind)
<1>0. slot \in [Slots -> SlotStates]  BY DEF TypeOK
<1>a. /\ d \in Plans /\ slot[w].job \in Execs /\ contended' = contended
      /\ slot'[w].job \in {slot[w].job, None}
  BY WorkerEffect
<1>b. /\ file \in [Plans -> Results \union {None, Torn}] /\ status \in [Plans -> Statuses]
      /\ broken \in SUBSET Plans
  BY DEF TypeOK
<1>1. CASE ReadScript(w)
  <2>1. CASE /\ slot' = [slot EXCEPT ![w].at = "execute", ![w].of = script[d]]
             /\ WriteStatusFile(d, "RUNNING", {}) /\ file' = file
    <3>1. slot'[w].at = "execute"  BY <1>0, <2>1 DEF SlotStates
    <3>2. /\ \A x \in Plans : x # d => status'[x] = status[x] /\ (x \in broken' <=> x \in broken)
          /\ d \in broken' \/ (status'[d] = "RUNNING" /\ d \notin broken)
      BY <1>a, <2>1, StatusWrite DEF Statuses
    <3> QED  BY <1>a, <1>b, <2>1, <3>1, <3>2
  <2>2. CASE /\ slot' = [slot EXCEPT ![w].at = "publish", ![w].of = slot[w].job, ![w].kind = "refused"]
             /\ UNCHANGED <<status, file, broken>>
    <3>1. slot'[w].at = "publish"  BY <1>0, <2>2 DEF SlotStates
    <3> QED  BY <1>a, <1>b, <2>2, <3>1
  <2> QED  BY <1>1, <2>1, <2>2 DEF ReadScript, Dir
<1>2. CASE Refuse(w)
  <2>1. slot'[w].at = "publish"  BY <1>0, <1>2 DEF Refuse, SlotStates
  <2> QED  BY <1>2, <1>a, <2>1 DEF Refuse, disk, history
<1>3. ASSUME NEW k \in {"ok", "failed"}, RunScript(w, k)
      PROVE  /\ slot'[w].at \in {"write", "status"} => slot'[w].kind \in {"ok", "failed"}
             /\ \A x \in Plans : x # d => /\ file'[x] = file[x] /\ status'[x] = status[x]
                                          /\ x \in broken' <=> x \in broken
             /\ \/ d \in broken'
                \/ /\ slot[w].at \in {"execute", "hung"} /\ slot'[w].at = "write"
                   /\ file'[d] = Torn /\ UNCHANGED <<status, broken>>
  <2>1. CASE /\ slot' = [slot EXCEPT ![w].at = "write", ![w].kind = k]
             /\ file' = [file EXCEPT ![d] = Torn] /\ UNCHANGED <<status, broken>>
    <3>1. slot'[w].at = "write" /\ slot'[w].kind = k  BY <1>0, <2>1 DEF SlotStates
    <3> QED  BY <1>3, <1>a, <1>b, <2>1, <3>1 DEF RunScript
  <2>2. CASE /\ slot' = [slot EXCEPT ![w].at = "status", ![w].kind = k]
             /\ broken' = broken \union {d} /\ UNCHANGED <<file, status>>
    <3>1. slot'[w].kind = k  BY <1>0, <2>2 DEF SlotStates
    <3> QED  BY <1>a, <1>b, <2>2, <3>1
  <2> QED  BY <1>3, <2>1, <2>2 DEF RunScript, WritesFile, Dir
<1>4. CASE WriteResultFile(w)
  <2>1. slot'[w].at = "status" /\ slot'[w].kind = slot[w].kind
    BY <1>0, <1>4 DEF WriteResultFile, Goto, SlotStates
  <2>2. slot[w].at = "write" /\ status' = status /\ ResultOf(w) \in Results
        /\ ResultOf(w).kind = slot[w].kind /\ slot[w].kind \in {"ok", "failed"}
    BY <1>4, ResultOfType DEF WriteResultFile, Ended
  <2>3. \/ file' = [file EXCEPT ![d] = ResultOf(w)] /\ broken' = broken
        \/ file' = file /\ broken' = broken \union {d}
    BY <1>4, <2>2 DEF WriteResultFile, WritesFile, Dir
  <2> QED  BY <1>a, <1>b, <2>1, <2>2, <2>3
<1>5. CASE WriteStatus(w)
  <2>1. slot'[w].at = "publish"  BY <1>0, <1>5 DEF WriteStatus, Goto, SlotStates
  <2> DEFINE mended == IF file[d] = ResultOf(w) THEN {d} ELSE {}
  <2>2. /\ slot[w].at = "status" /\ file' = file
        /\ WriteStatusFile(d, FinalStatus(slot[w].kind), mended)
    BY <1>5 DEF WriteStatus, Dir
  <2>3. slot[w].kind \in {"ok", "failed"} /\ ResultOf(w) \in Results /\ ResultOf(w).kind = slot[w].kind
    BY <2>2, ResultOfType DEF Ended
  <2>4. FinalStatus(slot[w].kind) \in Statuses /\ mended \in SUBSET {d}  BY DEF FinalStatus, Statuses
  <2> HIDE DEF mended
  <2>5. /\ \A x \in Plans : x # d => status'[x] = status[x] /\ (x \in broken' <=> x \in broken)
        /\ \/ /\ status'[d] = FinalStatus(slot[w].kind)
              /\ d \notin broken' => d \notin broken \/ d \in mended
           \/ d \in broken'
    BY <1>a, <2>2, <2>4, StatusWrite
  <2>6. d \in mended => file[d] \in Results /\ file[d].kind = slot[w].kind  BY <2>3 DEF mended
  <2>7. \/ d \in broken'
        \/ /\ status'[d] = FinalStatus(slot[w].kind)
           /\ d \notin broken \/ (file[d] \in Results /\ file[d].kind = slot[w].kind)
    BY <2>5, <2>6
  <2> QED  BY <1>a, <2>1, <2>2, <2>3, <2>5, <2>7
<1>6. CASE PublishResult(w)
  <2>1. slot[w].at = "publish" /\ UNCHANGED <<file, status, broken>>  BY <1>6 DEF PublishResult, disk
  <2>2. slot'[w].at \in {"idle", "publish"}
    BY <1>0, <1>6, <2>1 DEF PublishResult, Free, SlotStates
  <2> QED  BY <1>a, <2>1, <2>2
<1>7. CASE Hang(w)
  <2>1. slot'[w].at = "hung"  BY <1>0, <1>7 DEF Hang, Goto, SlotStates
  <2>2. slot[w].at = "execute" /\ UNCHANGED <<file, status, broken>>  BY <1>7 DEF Hang
  <2> QED  BY <1>a, <2>1, <2>2
<1> QED  BY <1>a, <1>1, <1>2, <1>3, <1>4, <1>5, <1>6, <1>7 DEF WorkerStep

\* Steps that are not a worker's leave slots and directories alone, but for a
\* new script, which makes the status PENDING, and a crash, which frees the
\* slots.
LEMMA OtherDisk ==
    ASSUME ValuesAssumption, TypeOK, [Next]_vars, \A w \in Slots : ~WorkerStep(w)
    PROVE  /\ file' = file /\ contended' = contended /\ broken \subseteq broken'
           /\ slot' = slot \/ \A w \in Slots : slot'[w].job = None /\ slot'[w].at = "idle"
           /\ \A d \in Plans \ broken' : status'[d] \in {status[d], "PENDING"}
<1>1. ASSUME NEW e \in Execs, WriteScript(e)
      PROVE  /\ file' = file /\ contended' = contended /\ slot' = slot /\ broken \subseteq broken'
             /\ \A d \in Plans \ broken' : status'[d] \in {status[d], "PENDING"}
  <2>1. Dir(e) \in Plans  BY DEF TypeOK, Dir
  <2>2. WriteStatusFile(Dir(e), "PENDING", {})  BY <1>1 DEF WriteScript
  <2>3. broken \subseteq broken'  BY <2>2 DEF WriteStatusFile
  <2>4. \A d \in Plans \ broken' : status'[d] \in {status[d], "PENDING"}
    BY <2>1, <2>2, StatusWrite DEF Statuses
  <2> QED  BY <1>1, <2>3, <2>4 DEF WriteScript
<1>2. CASE CrashPod
  BY <1>2 DEF CrashPod, Free, disk
<1> QED
  BY <1>1, <1>2, NextCases
     DEF Subscribe, PublishTrigger, ExecuteError, TakeResult, PollResult, WaitExpires,
         Return, DeliverTrigger, LoseTrigger, DeliverResult, LoseResult, vars, disk, history

LEMMA EndedStep ==
    ASSUME ValuesAssumption, StatusInv, [Next]_vars
    PROVE  Ended'
<1> USE DEF StatusInv
<1>1. CASE \A w \in Slots : ~WorkerStep(w)
  BY <1>1, OtherDisk DEF Ended
<1>2. ASSUME NEW u \in Slots, WorkerStep(u), ~TakeJob(u)  PROVE Ended'
  BY <1>2, WorkerType, WorkerDisk DEF Ended
<1>3. ASSUME NEW u \in Slots, WorkerStep(u), TakeJob(u)  PROVE Ended'
  <2>1. slot'[u].at = "read"
    <3>1. slot[u] = Free  BY <1>3 DEF TakeJob
    <3>2. slot[u].at = "idle"  BY <3>1 DEF Free
    <3> QED  BY <1>3, <3>2, WorkerEffect
  <2> QED  BY <1>3, <2>1, WorkerType DEF Ended
<1> QED  BY <1>1, <1>2, <1>3

LEMMA OneWorkerStep ==
    ASSUME ValuesAssumption, StatusInv, [Next]_vars
    PROVE  OneWorker'
<1> USE DEF StatusInv
<1>0. planOf' = planOf  BY PlansFixed
<1>1. CASE \A w \in Slots : ~WorkerStep(w)
  BY <1>0, <1>1, OtherDisk DEF OneWorker, Worked
<1>2. ASSUME NEW u \in Slots, WorkerStep(u)  PROVE OneWorker'
  <2>1. \A x \in Slots : x # u => slot'[x] = slot[x]  BY <1>2, WorkerType
  <2>2. CASE ~TakeJob(u)
    <3>1. contended' = contended /\ slot'[u].job \in {slot[u].job, None}
      BY <1>2, <2>2, WorkerDisk
    <3>2. \A d \in Plans, w \in Slots : Worked(w, d)' => Worked(w, d)
      BY <1>0, <2>1, <3>1 DEF Worked
    <3> QED  BY <3>1, <3>2 DEF OneWorker
  <2>3. CASE TakeJob(u)
    <3>1. Head(jobs) \in Execs /\ slot[u].job = None /\ slot'[u].job = Head(jobs)
      <4>1. slot[u] = Free  BY <2>3 DEF TakeJob
      <4>2. slot[u].at = "idle"  BY <4>1 DEF Free
      <4> QED  BY <1>2, <4>2, WorkerEffect
    <3>2. contended' = contended \union
            ({planOf[Head(jobs)]} \intersect {planOf[e] : e \in Handled})
      BY <2>3 DEF TakeJob, Dir
    <3>3. ASSUME NEW d \in Plans \ contended', NEW w \in Slots, NEW v \in Slots,
                 Worked(w, d)', Worked(v, d)'
          PROVE  w = v
      <4>1. CASE d = planOf[Head(jobs)]
        <5>1. \A e \in Handled : planOf[e] # d  BY <3>2, <3>3, <4>1
        <5>2. ASSUME NEW x \in Slots, x # u PROVE ~Worked(x, d)'
          <6>1. slot[x].job \in Execs => slot[x].job \in Handled  BY DEF Handled, Busy
          <6>2. slot[x].job \in Execs \union {None}  BY DEF TypeOK, SlotStates
          <6> QED  BY <1>0, <2>1, <5>1, <5>2, <6>1, <6>2 DEF Worked
        <5> QED  BY <3>3, <5>2
      <4>2. CASE d # planOf[Head(jobs)]
        <5>1. w # u /\ v # u  BY <1>0, <3>1, <3>3, <4>2 DEF Worked
        <5>2. Worked(w, d) /\ Worked(v, d)  BY <1>0, <2>1, <3>3, <5>1 DEF Worked
        <5>3. d \in Plans \ contended  BY <3>2, <3>3
        <5> QED  BY <5>2, <5>3 DEF OneWorker
      <4> QED  BY <4>1, <4>2
    <3> QED  BY <3>3 DEF OneWorker
  <2> QED  BY <2>2, <2>3
<1> QED  BY <1>1, <1>2

Truthful(d) ==
    /\ status[d] = "SUCCESS" => file[d] \in Results /\ file[d].kind = "ok"
    /\ status[d] = "FAILED" => file[d] \in Results /\ file[d].kind = "failed"

LEMMA StatusStep ==
    ASSUME ValuesAssumption, StatusInv, [Next]_vars
    PROVE  StatusLast' /\ StatusSound'
<1> USE DEF StatusInv
<1>0. planOf' = planOf  BY PlansFixed
<1> DEFINE Kept(d) == (\A w \in Slots : Worked(w, d)' => WorkedLast(w, d)') /\ Truthful(d)'
<1>a. SUFFICES ASSUME NEW d \in Plans, d \notin contended', d \notin broken'  PROVE Kept(d)
  <2>1. StatusLast'
    BY DEF StatusLast
  <2>2. StatusSound'
    BY DEF StatusSound, Truthful
  <2> QED  BY <2>1, <2>2
<1>b. ASSUME d \notin contended, d \notin broken, NEW w \in Slots, Worked(w, d)  PROVE WorkedLast(w, d)
  BY <1>b DEF StatusLast
<1>c. ASSUME d \notin contended, d \notin broken  PROVE Truthful(d)
  BY <1>c DEF StatusSound, Truthful
<1>1. CASE \A w \in Slots : ~WorkerStep(w)
  <2>1. /\ file' = file /\ d \notin contended /\ d \notin broken
        /\ status'[d] \in {status[d], "PENDING"}
    BY <1>1, <1>a, OtherDisk
  <2>2. ASSUME NEW w \in Slots, Worked(w, d)'  PROVE WorkedLast(w, d)'
    <3>1. slot' = slot  BY <1>1, <2>2, OtherDisk DEF Worked
    <3>2. Worked(w, d)  BY <1>0, <2>2, <3>1 DEF Worked
    <3> QED  BY <1>b, <2>1, <3>1, <3>2 DEF WorkedLast, FinalStatuses, Results
  <2>3. Truthful(d)'  BY <1>c, <2>1 DEF Truthful, Results
  <2> QED  BY <2>2, <2>3
<1>2. ASSUME NEW u \in Slots, WorkerStep(u), TakeJob(u)  PROVE Kept(d)
  <2>1. /\ \A x \in Slots : x # u => slot'[x] = slot[x]
        /\ UNCHANGED <<file, status, broken>> /\ contended \subseteq contended'
    BY <1>2, WorkerType DEF TakeJob, disk
  <2>2. slot'[u].at = "read"
    <3>1. slot[u] = Free  BY <1>2 DEF TakeJob
    <3>2. slot[u].at = "idle"  BY <3>1 DEF Free
    <3> QED  BY <1>2, <3>2, WorkerEffect
  <2>3. d \notin contended /\ d \notin broken  BY <1>a, <2>1
  <2>4. ASSUME NEW w \in Slots, Worked(w, d)'  PROVE WorkedLast(w, d)'
    <3>1. CASE w = u  BY <2>2, <3>1 DEF WorkedLast
    <3>2. CASE w # u
      <4>1. slot'[w] = slot[w]  BY <2>1, <3>2
      <4>2. WorkedLast(w, d)  BY <1>0, <1>b, <2>3, <2>4, <4>1 DEF Worked
      <4> QED  BY <2>1, <4>1, <4>2 DEF WorkedLast, FinalStatuses, Results
    <3> QED  BY <3>1, <3>2
  <2>5. Truthful(d)'
    <3>1. Truthful(d)  BY <1>c, <2>3
    <3> QED  BY <2>1, <3>1 DEF Truthful, Results
  <2> QED  BY <2>4, <2>5
<1>3. ASSUME NEW u \in Slots, WorkerStep(u), ~TakeJob(u)  PROVE Kept(d)
  <2> DEFINE du == planOf[slot[u].job]
  <2>1. \A x \in Slots : x # u => slot'[x] = slot[x]  BY <1>3, WorkerType
  <2>2. /\ du \in Plans /\ slot[u].job \in Execs /\ contended' = contended
        /\ slot'[u].job \in {slot[u].job, None}
        /\ \A x \in Plans : x # du => /\ file'[x] = file[x] /\ status'[x] = status[x]
                                      /\ x \in broken' <=> x \in broken
    BY <1>3, WorkerDisk
  <2>3. \/ du \in broken'
        \/ /\ slot'[u].at = "execute" /\ du \notin broken
           /\ file'[du] = file[du] /\ status'[du] = "RUNNING"
        \/ /\ slot'[u].at \in {"idle", "publish"} /\ UNCHANGED <<file, status, broken>>
        \/ /\ slot[u].at = "execute" /\ slot'[u].at = "hung" /\ UNCHANGED <<file, status, broken>>
        \/ /\ slot[u].at \in {"execute", "hung"} /\ slot'[u].at = "write"
           /\ file'[du] = Torn /\ UNCHANGED <<status, broken>>
        \/ /\ slot[u].at = "write" /\ slot'[u].at = "status" /\ slot'[u].kind = slot[u].kind
           /\ file'[du] \in Results /\ file'[du].kind = slot[u].kind /\ UNCHANGED <<status, broken>>
        \/ /\ slot[u].at = "status" /\ slot'[u].at = "publish"
           /\ slot[u].kind \in {"ok", "failed"}
           /\ file'[du] = file[du] /\ status'[du] = FinalStatus(slot[u].kind)
           /\ du \notin broken \/ (file[du] \in Results /\ file[du].kind = slot[u].kind)
    BY <1>3, WorkerDisk
  <2>4. Worked(u, du) /\ d \notin contended  BY <1>a, <2>2 DEF Worked, ValuesAssumption
  <2>5. CASE d # du
    <3>1. file'[d] = file[d] /\ status'[d] = status[d] /\ d \notin broken  BY <1>a, <2>2, <2>5
    <3>2. ASSUME NEW w \in Slots, Worked(w, d)'  PROVE WorkedLast(w, d)'
      <4>1. Worked(w, d) /\ w # u
        BY <1>0, <2>1, <2>2, <2>4, <2>5, <3>2 DEF Worked
      <4>2. slot'[w] = slot[w] /\ WorkedLast(w, d)  BY <1>b, <2>1, <2>4, <3>1, <4>1
      <4> QED  BY <3>1, <4>2 DEF WorkedLast, FinalStatuses, Results
    <3>3. Truthful(d)'  BY <1>c, <2>4, <3>1 DEF Truthful, Results
    <3> QED  BY <3>2, <3>3
  <2>6. CASE d = du
    <3>1. ASSUME NEW w \in Slots, Worked(w, d)'  PROVE w = u
      <4>1. w # u => Worked(w, d)  BY <1>0, <2>1, <3>1 DEF Worked
      <4> QED  BY <2>4, <2>6, <4>1 DEF OneWorker
    <3>2. d \notin broken => WorkedLast(u, d) /\ Truthful(d)  BY <1>b, <1>c, <2>4, <2>6
    <3>3. CASE d \notin broken
      <4>1. WorkedLast(u, d)'
        BY <1>a, <2>3, <2>6, <3>2, <3>3 DEF WorkedLast, FinalStatuses, Results
      <4>2. Truthful(d)'
        BY <1>a, <2>3, <2>6, <3>2, <3>3 DEF WorkedLast, Truthful, FinalStatus, FinalStatuses, Results
      <4> QED  BY <3>1, <4>1, <4>2
    <3>4. CASE d \in broken
      <4>1. /\ slot'[u].at = "publish" /\ slot[u].kind \in {"ok", "failed"}
            /\ file'[d] = file[d] /\ status'[d] = FinalStatus(slot[u].kind)
            /\ file[d] \in Results /\ file[d].kind = slot[u].kind
        BY <1>a, <2>3, <2>6, <3>4
      <4>2. WorkedLast(u, d)'  BY <4>1 DEF WorkedLast
      <4>3. Truthful(d)'  BY <4>1 DEF Truthful, FinalStatus, Results
      <4> QED  BY <3>1, <4>2, <4>3
    <3> QED  BY <3>3, <3>4
  <2> QED  BY <2>5, <2>6
<1> QED  BY <1>1, <1>2, <1>3

\* The final status a sandbox worker leaves in a directory is true of its
\* result.json, unless two slots worked in the directory at once or a write
\* there failed unnoticed.
THEOREM StatusIsSound == Spec => []StatusSound
<1>1. Init => StatusInv
  <2> SUFFICES ASSUME Init PROVE StatusInv  OBVIOUS
  <2>1. TypeOK /\ SlotsBusy /\ Written  BY TypeInit, SandboxAssumption, ValuesAssumption
  <2>2. \A w \in Slots : slot[w].job = None  BY DEF Init, Free
  <2>3. OneWorker /\ StatusLast  BY <2>2 DEF OneWorker, StatusLast, Worked
  <2>5. Ended  BY DEF Init, Free, Ended
  <2>4. StatusSound
    <3>1. None # "SUCCESS" /\ None # "FAILED"
      BY ValuesAssumption DEF ValuesAssumption, FinalStatuses
    <3> QED  BY <3>1 DEF Init, StatusSound
  <2> QED  BY <2>1, <2>3, <2>4, <2>5 DEF StatusInv
<1>2. StatusInv /\ [Next]_vars => StatusInv'
  BY TypeStep, SlotsStep, WrittenStep, OneWorkerStep, EndedStep, StatusStep, ValuesAssumption DEF StatusInv
<1>3. StatusInv => StatusSound  BY DEF StatusInv
<1> QED  BY <1>1, <1>2, <1>3, PTL DEF Spec

-----------------------------------------------------------------------------
(* The filter of a script.  Its program is the same 29 instructions in both  *)
(* list modes: four blocks that refuse a call, the socket handler, the block *)
(* that asks the notifier about connect, and allow.  That what is installed  *)
(* is that listing follows from the layout of the bytes; that the machine    *)
(* runs it right, from what is known of the call at each of its instructions.*)

\* A set of naturals has a least element.
LEMMA Least ==
    ASSUME NEW S \in SUBSET Nat, S # {}
    PROVE  \E n \in S : \A m \in S : n <= m
<1>1. \A x, y \in Nat : <<x, y>> \in OpToRel(<, Nat) <=> x < y  BY DEF OpToRel
<1>2. PICK n \in S : \A m \in S : ~(<<m, n>> \in OpToRel(<, Nat))  BY WFMin, NatLessThanWellFounded
<1>3. \A m \in S : ~(m < n) /\ m \in Nat /\ n \in Nat  BY <1>1, <1>2, Zenon
<1> QED  BY <1>3

\* FlattenSeq is what every function says that adds the elements one by one.
LEMMA Flattened ==
    ASSUME NEW s, NEW n \in Nat \ {0}, Len(s) = n, NEW G,
           G[1] = s[1], \A i \in 2 .. n : G[i] = G[i - 1] \o s[i]
    PROVE  Filter!FlattenSeq(s) = G[n]
<1> DEFINE Adds(h) == h = [i \in 1 .. Len(s) |-> IF i = 1 THEN s[i] ELSE h[i - 1] \o s[i]]
           g == [i \in 1 .. n |-> G[i]]
<1>1. Adds(g)
  <2>1. ASSUME NEW i \in 1 .. n  PROVE G[i] = IF i = 1 THEN s[i] ELSE g[i - 1] \o s[i]
    <3>1. CASE i = 1  BY <3>1
    <3>2. CASE i # 1
      <4>1. i \in 2 .. n /\ i - 1 \in 1 .. n  BY <3>2
      <4>2. g[i - 1] = G[i - 1]  BY <4>1
      <4>3. G[i] = G[i - 1] \o s[i]  BY <4>1
      <4> QED  BY <3>2, <4>2, <4>3
    <3> QED  BY <3>1, <3>2
  <2> QED  BY <2>1
<1> DEFINE f == CHOOSE h : Adds(h)
<1>2. Adds(f)
  <2> HIDE DEF Adds
  <2> QED  BY <1>1
<1>3. Filter!FlattenSeq(s) = f[n]  BY DEF Filter!FlattenSeq
<1> HIDE DEF f
<1>4. f[1] = s[1]  BY <1>2
<1>5. ASSUME NEW i \in 2 .. n  PROVE f[i] = f[i - 1] \o s[i]
  <2>1. i \in 1 .. Len(s) /\ i # 1  OBVIOUS
  <2> QED  BY <1>2, <2>1
<1> HIDE DEF Adds
<1>6. ASSUME NEW m \in 1 .. n, f[m] # G[m]  PROVE FALSE
  <2> DEFINE D == {i \in 1 .. n : f[i] # G[i]}
  <2>1. D \subseteq Nat /\ D # {}  BY <1>6
  <2>2. PICK k \in D : \A i \in D : k <= i  BY <2>1, Least
  <2>3. k # 1  BY <1>4, <2>2
  <2>4. k \in 2 .. n /\ k - 1 \in 1 .. n /\ ~(k <= k - 1)  BY <2>2, <2>3
  <2>5. f[k - 1] = G[k - 1]  BY <2>2, <2>4
  <2>6. f[k] = G[k]  BY <1>5, <2>4, <2>5
  <2> QED  BY <2>2, <2>6
<1> QED  BY <1>3, <1>6

\* A function on 1 .. n is a sequence.
LEMMA FunctionSeq ==
    ASSUME NEW S, NEW n \in Nat, NEW f \in [1 .. n -> S]
    PROVE  f \in Seq(S) /\ Len(f) = n
  OBVIOUS

\* So is a block of eight.
LEMMA EightSeq ==
    ASSUME NEW S, NEW f, f \in [1 .. 8 -> S]
    PROVE  f \in Seq(S) /\ Len(f) = 8
  BY FunctionSeq

\* w is u and then the block v.
Followed(S, u, v, w, m) ==
    /\ m \in Nat /\ u \in Seq(S) /\ Len(u) = m /\ w \in Seq(S) /\ Len(w) = m + 8 /\ v \in [1 .. 8 -> S]
    /\ \A j \in 1 .. m : w[j] = u[j]
    /\ \A r \in 1 .. 8 : w[m + r] = v[r]

\* A block added to a sequence.
LEMMA JoinedEight ==
    ASSUME NEW S, NEW u, NEW v, NEW w, NEW m, Followed(S, u, v, w, m)
    PROVE  w = u \o v
<1>0. /\ m \in Nat /\ u \in Seq(S) /\ Len(u) = m /\ w \in Seq(S) /\ Len(w) = m + 8 /\ v \in [1 .. 8 -> S]
      /\ \A j \in 1 .. m : w[j] = u[j]
      /\ \A r \in 1 .. 8 : w[m + r] = v[r]
  BY DEF Followed
<1> DEFINE k == 8
           c == u \o v
<1>1. k \in Nat /\ v \in Seq(S) /\ Len(v) = k  BY <1>0, EightSeq
<1>2. Len(w) = m + k /\ \A r \in 1 .. k : w[m + r] = v[r]  BY <1>0
<1> HIDE DEF k
<1>3. /\ c \in Seq(S) /\ Len(c) = m + k
      /\ \A j \in 1 .. m : c[j] = u[j]
      /\ \A r \in 1 .. k : c[m + r] = v[r]
  <2>0. m \in Nat /\ u \in Seq(S) /\ Len(u) = m  BY <1>0
  <2>1. k \in Nat  BY <1>1
  <2>2. v \in Seq(S)  BY <1>1
  <2>3. Len(v) = k  BY <1>1
  <2>4. c \in Seq(S)  BY ONLY <2>0, <2>2
  <2>5. Len(c) = Len(u) + Len(v)  BY ONLY <2>0, <2>2
  <2>6. \A j \in 1 .. m : c[j] = u[j]  BY ONLY <2>0, <2>2
  <2>7. \A r \in 1 .. k : c[m + r] = v[r]  BY ONLY <2>0, <2>1, <2>2, <2>3
  <2> QED  BY <2>0, <2>3, <2>4, <2>5, <2>6, <2>7
<1> HIDE DEF c
<1>4. ASSUME NEW j \in 1 .. m + k  PROVE w[j] = c[j]
  <2>1. CASE j \in 1 .. m  BY <1>0, <1>3, <2>1
  <2>2. CASE j \notin 1 .. m
    <3>1. j - m \in 1 .. k /\ j = m + (j - m)  BY <1>0, <1>1, <2>2
    <3> QED  BY <1>2, <1>3, <3>1
  <2> QED  BY <2>1, <2>2
<1>5. \A j \in 1 .. Len(w) : w[j] = c[j]  BY <1>2, <1>4
<1>6. w = c
  <2>1. w \in Seq(S) /\ c \in Seq(S) /\ Len(w) = Len(c)  BY <1>0, <1>2, <1>3
  <2> QED  BY ONLY <1>5, <2>1, SeqEqual, Zenon
<1> QED  BY <1>6 DEF c

\* FlattenSeq of four sequences, the blocks of KillAll.
LEMMA FlattenFour ==
    ASSUME NEW s, Len(s) = 4
    PROVE  Filter!FlattenSeq(s) = ((s[1] \o s[2]) \o s[3]) \o s[4]
<1> DEFINE g == <<s[1], s[1] \o s[2], (s[1] \o s[2]) \o s[3], ((s[1] \o s[2]) \o s[3]) \o s[4]>>
<1>1. g[1] = s[1] /\ g[2] = g[1] \o s[2] /\ g[3] = g[2] \o s[3] /\ g[4] = g[3] \o s[4]
        /\ g[4] = ((s[1] \o s[2]) \o s[3]) \o s[4]
  OBVIOUS
<1> HIDE DEF g
<1>2. \A i \in 2 .. 4 : g[i] = g[i - 1] \o s[i]
  <2> SUFFICES ASSUME NEW i \in 2 .. 4
               PROVE  g[i] = g[i - 1] \o s[i]
    OBVIOUS
  <2>1. (i = 2 /\ i - 1 = 1) \/ (i = 3 /\ i - 1 = 2) \/ (i = 4 /\ i - 1 = 3)  OBVIOUS
  <2> QED  BY <1>1, <2>1
<1>3. 4 \in Nat \ {0}  OBVIOUS
<1>4. Filter!FlattenSeq(s) = g[4]  BY ONLY <1>1, <1>2, <1>3, Len(s) = 4, Flattened, Zenon
<1> QED  BY ONLY <1>1, <1>4, Zenon

\* Division of a position by the size of a block.
LEMMA Eights ==
    ASSUME NEW q \in Int, NEW r \in Int, NEW x \in Int, x = 8 * q + r, 0 <= r, r <= 7
    PROVE  x \div 8 = q /\ x % 8 = r
  OBVIOUS

\* Eight elements a block: element r of block i is at 8 (i - 1) + r.
LEMMA FlattenEights ==
    ASSUME NEW s, NEW n \in Nat \ {0}, NEW S, s \in [1 .. n -> [1 .. 8 -> S]]
    PROVE  /\ Len(Filter!FlattenSeq(s)) = 8 * n
           /\ \A i \in 1 .. n : \A r \in 1 .. 8 : Filter!FlattenSeq(s)[8 * (i - 1) + r] = s[i][r]
<1> DEFINE At(j) == s[(j - 1) \div 8 + 1][((j - 1) % 8) + 1]
           g == [i \in 1 .. n |-> [j \in 1 .. 8 * i |-> At(j)]]
<1>1. \A i \in 1 .. n : \A r \in 1 .. 8 : At(8 * (i - 1) + r) = s[i][r]
  <2> SUFFICES ASSUME NEW i \in 1 .. n, NEW r \in 1 .. 8
               PROVE  At(8 * (i - 1) + r) = s[i][r]
    OBVIOUS
  <2> DEFINE x == 8 * (i - 1) + r - 1
  <2>1. i - 1 \in Int /\ r - 1 \in Int /\ x \in Int /\ x = 8 * (i - 1) + (r - 1) /\ 0 <= r - 1 /\ r - 1 <= 7  OBVIOUS
  <2> HIDE DEF x
  <2>2. x \div 8 = i - 1 /\ x % 8 = r - 1  BY ONLY <2>1, Eights, Zenon
  <2>3. (i - 1) + 1 = i /\ (r - 1) + 1 = r  OBVIOUS
  <2> QED  BY <2>2, <2>3 DEF x
<1>2. \A j \in 1 .. 8 * n : \E i \in 1 .. n : \E r \in 1 .. 8 : j = 8 * (i - 1) + r
  <2> SUFFICES ASSUME NEW j \in 1 .. 8 * n
               PROVE  \E i \in 1 .. n : \E r \in 1 .. 8 : j = 8 * (i - 1) + r
    OBVIOUS
  <2> DEFINE q == (j - 1) \div 8
             p == (j - 1) % 8
  <2>1. q \in Nat /\ p \in 0 .. 7  OBVIOUS
  <2>2. j - 1 = 8 * q + p  BY <2>1, SMT
  <2> HIDE DEF q, p
  <2>3. q + 1 \in 1 .. n /\ p + 1 \in 1 .. 8 /\ j = 8 * ((q + 1) - 1) + (p + 1)  BY <2>1, <2>2
  <2> QED  BY <2>3
<1> HIDE DEF At
<1>3. \A j \in 1 .. 8 * n : At(j) \in S
  <2> SUFFICES ASSUME NEW j \in 1 .. 8 * n
               PROVE  At(j) \in S
    OBVIOUS
  <2>1. PICK i \in 1 .. n, r \in 1 .. 8 : j = 8 * (i - 1) + r  BY <1>2
  <2>2. At(j) = s[i][r]  BY <1>1, <2>1
  <2> QED  BY <2>2
<1>4. \A i \in 1 .. n : s[i] \in Seq(S) /\ Len(s[i]) = 8 /\ g[i] \in Seq(S) /\ Len(g[i]) = 8 * i
                          /\ \A j \in 1 .. 8 * i : g[i][j] = At(j)
  <2> SUFFICES ASSUME NEW i \in 1 .. n
               PROVE  s[i] \in Seq(S) /\ Len(s[i]) = 8 /\ g[i] \in Seq(S) /\ Len(g[i]) = 8 * i
                          /\ \A j \in 1 .. 8 * i : g[i][j] = At(j)
    OBVIOUS
  <2> DEFINE m == 8 * i
             h == [j \in 1 .. m |-> At(j)]
  <2>1. m \in Nat /\ \A j \in 1 .. m : j \in 1 .. 8 * n  OBVIOUS
  <2>2. g[i] = h  OBVIOUS
  <2> HIDE DEF m
  <2>3. h \in [1 .. m -> S] /\ \A j \in 1 .. m : h[j] = At(j)  BY <1>3, <2>1
  <2>4. s[i] \in [1 .. 8 -> S]  OBVIOUS
  <2> HIDE DEF g, h
  <2>5. h \in Seq(S) /\ Len(h) = m  BY <2>1, <2>3
  <2>6. s[i] \in Seq(S) /\ Len(s[i]) = 8
    BY ONLY <2>4, EightSeq, Zenon
  <2> QED  BY <2>2, <2>3, <2>5, <2>6 DEF m
<1>5. s \in Seq([1 .. 8 -> S]) /\ Len(s) = n  OBVIOUS
<1> HIDE DEF g
<1>6. g[1] = s[1]
  <2>1. 1 \in 1 .. n /\ 8 * 1 = 8  OBVIOUS
  <2>2. g[1] \in Seq(S) /\ s[1] \in Seq(S) /\ Len(g[1]) = 8 /\ Len(s[1]) = 8 /\ \A j \in 1 .. 8 : g[1][j] = At(j)
    BY <1>4, <2>1
  <2>3. \A r \in 1 .. 8 : 8 * (1 - 1) + r = r  OBVIOUS
  <2>4. \A r \in 1 .. 8 : At(8 * (1 - 1) + r) = s[1][r]  BY <1>1, <2>1
  <2>5. \A r \in 1 .. 8 : g[1][r] = s[1][r]  BY ONLY <2>2, <2>3, <2>4, Zenon
  <2> QED  BY ONLY <2>2, <2>5, SeqEqual, Zenon
<1>7. \A i \in 2 .. n : g[i] = g[i - 1] \o s[i]
  <2> SUFFICES ASSUME NEW i \in 2 .. n
               PROVE  g[i] = g[i - 1] \o s[i]
    OBVIOUS
  <2>1. i \in 1 .. n /\ i - 1 \in 1 .. n /\ 8 * (i - 1) + 8 = 8 * i  OBVIOUS
  <2>2. g[i] \in Seq(S) /\ Len(g[i]) = 8 * i /\ g[i - 1] \in Seq(S) /\ Len(g[i - 1]) = 8 * (i - 1)
          /\ s[i] \in Seq(S) /\ Len(s[i]) = 8
          /\ (\A j \in 1 .. 8 * (i - 1) : g[i - 1][j] = At(j)) /\ \A j \in 1 .. 8 * i : g[i][j] = At(j)
    BY <1>4, <2>1
  <2>3. \A r \in 1 .. 8 : At(8 * (i - 1) + r) = s[i][r]  BY <1>1, <2>1
  <2> DEFINE u == g[i - 1]
             v == s[i]
             w == g[i]
             m == 8 * (i - 1)
  <2>4. m \in Nat /\ u \in Seq(S) /\ Len(u) = m /\ v \in [1 .. 8 -> S] /\ w \in Seq(S) /\ Len(w) = m + 8
    BY <2>1, <2>2
  <2>5. \A j \in 1 .. m : w[j] = u[j]
    <3>1. \A j \in 1 .. m : j \in 1 .. 8 * i  BY <2>1
    <3> QED  BY <2>2, <3>1
  <2>6. \A r \in 1 .. 8 : w[m + r] = v[r]
    <3>1. \A r \in 1 .. 8 : m + r \in 1 .. 8 * i  BY <2>1
    <3> QED  BY <2>2, <2>3, <3>1
  <2> HIDE DEF u, v, w, m
  <2>7. w = u \o v
    <3>1. Followed(S, u, v, w, m)  BY <2>4, <2>5, <2>6 DEF Followed
    <3> QED  BY ONLY <3>1, JoinedEight, Zenon
  <2> QED  BY <2>7 DEF w, u, v
<1>8. Filter!FlattenSeq(s) = g[n]  BY ONLY <1>5, <1>6, <1>7, Flattened, n \in Nat \ {0}, Zenon
<1>9. n \in 1 .. n /\ \A i \in 1 .. n : \A r \in 1 .. 8 : 8 * (i - 1) + r \in 1 .. 8 * n  OBVIOUS
<1>10. Len(g[n]) = 8 * n /\ \A j \in 1 .. 8 * n : g[n][j] = At(j)  BY <1>4, <1>9
<1> QED  BY ONLY <1>1, <1>8, <1>9, <1>10, Zenon

\* What fits two bytes and what fits four.
Short == {k \in Nat : k < 65536}
Word == {k \in Nat : k < 4294967296}

\* struct sock_filter.
Instructions == [code : Short, jt : Nat, jf : Nat, k : Word]

\* An instruction is its four fields.
LEMMA Fields ==
    ASSUME NEW x, x \in Instructions
    PROVE  /\ x.code \in Short /\ x.jt \in Nat /\ x.jf \in Nat /\ x.k \in Word
           /\ x = [code |-> x.code, jt |-> x.jt, jf |-> x.jf, k |-> x.k]
  BY SMT DEF Instructions

\* A code is put together from its two bytes.
LEMMA BytesOfShort ==
    ASSUME NEW k, k \in Short
    PROVE  /\ Filter!Byte(k, 0) \in Nat /\ Filter!Byte(k, 1) \in Nat
           /\ Filter!Byte(k, 0) + 256 * Filter!Byte(k, 1) = k
<1>1. k \in Nat /\ k < 65536  BY SMT DEF Short
<1>2. Filter!Byte(k, 0) \in Nat /\ Filter!Byte(k, 1) \in Nat  BY <1>1, SMT DEF Filter!Byte
<1>3. Filter!Byte(k, 0) + 256 * Filter!Byte(k, 1) = k  BY ONLY <1>1, SMT DEF Filter!Byte
<1> QED  BY <1>2, <1>3

\* A constant is put together from its four bytes.
LEMMA BytesOfWord ==
    ASSUME NEW k, k \in Word
    PROVE  /\ Filter!Byte(k, 0) \in Nat /\ Filter!Byte(k, 1) \in Nat
           /\ Filter!Byte(k, 2) \in Nat /\ Filter!Byte(k, 3) \in Nat
           /\ Filter!Byte(k, 0) + 256 * (Filter!Byte(k, 1) + 256 * (Filter!Byte(k, 2) + 256 * Filter!Byte(k, 3))) = k
<1>1. k \in Nat /\ k < 4294967296  BY SMT DEF Word
<1>2. /\ Filter!Byte(k, 0) \in Nat /\ Filter!Byte(k, 1) \in Nat
      /\ Filter!Byte(k, 2) \in Nat /\ Filter!Byte(k, 3) \in Nat
  BY <1>1, SMT DEF Filter!Byte
<1>3. Filter!Byte(k, 0) + 256 * (Filter!Byte(k, 1) + 256 * (Filter!Byte(k, 2) + 256 * Filter!Byte(k, 3))) = k
  BY ONLY <1>1, SMT DEF Filter!Byte
<1> QED  BY ONLY <1>2, <1>3, Zenon

\* Eight bytes are a block.
LEMMA Octets ==
    ASSUME NEW a \in Nat, NEW b \in Nat, NEW c \in Nat, NEW d \in Nat,
           NEW e \in Nat, NEW f \in Nat, NEW g \in Nat, NEW h \in Nat
    PROVE  <<a, b, c, d, e, f, g, h>> \in [1 .. 8 -> Nat]
  OBVIOUS

\* ChildMain decodes the program that ScriptCmd encoded.
LEMMA RoundTrip ==
    ASSUME NEW p, NEW n \in Nat \ {0}, p \in [1 .. n -> Instructions]
    PROVE  Filter!DecodeFilter(Filter!MarshalFilter(p)) = p
<1> DEFINE B(i) == <<Filter!Byte(p[i].code, 0), Filter!Byte(p[i].code, 1), p[i].jt, p[i].jf,
                     Filter!Byte(p[i].k, 0), Filter!Byte(p[i].k, 1), Filter!Byte(p[i].k, 2), Filter!Byte(p[i].k, 3)>>
           s == [i \in 1 .. n |-> B(i)]
           F == Filter!MarshalFilter(p)
<1>1. F = Filter!FlattenSeq(s)  BY DEF Filter!MarshalFilter
<1>2. \A i \in 1 .. n : p[i].code \in Short /\ p[i].jt \in Nat /\ p[i].jf \in Nat /\ p[i].k \in Word
                          /\ p[i] = [code |-> p[i].code, jt |-> p[i].jt, jf |-> p[i].jf, k |-> p[i].k]
  <2>1. \A i \in 1 .. n : p[i] \in Instructions  OBVIOUS
  <2> QED  BY ONLY <2>1, Fields, Zenon
<1>3. \A i \in 1 .. n : B(i) \in [1 .. 8 -> Nat]
  <2> SUFFICES ASSUME NEW i \in 1 .. n
               PROVE  B(i) \in [1 .. 8 -> Nat]
    OBVIOUS
  <2>1. Filter!Byte(p[i].code, 0) \in Nat /\ Filter!Byte(p[i].code, 1) \in Nat
    BY ONLY <1>2, BytesOfShort, i \in 1 .. n, Zenon
  <2>2. /\ Filter!Byte(p[i].k, 0) \in Nat /\ Filter!Byte(p[i].k, 1) \in Nat
        /\ Filter!Byte(p[i].k, 2) \in Nat /\ Filter!Byte(p[i].k, 3) \in Nat
    BY ONLY <1>2, BytesOfWord, i \in 1 .. n, Zenon
  <2>3. p[i].jt \in Nat /\ p[i].jf \in Nat  BY ONLY <1>2, i \in 1 .. n, Zenon
  <2> QED  BY ONLY <2>1, <2>2, <2>3, Octets, Zenon
<1>4. \A i \in 1 .. n : /\ s[i][1] = Filter!Byte(p[i].code, 0) /\ s[i][2] = Filter!Byte(p[i].code, 1)
                        /\ s[i][3] = p[i].jt /\ s[i][4] = p[i].jf
                        /\ s[i][5] = Filter!Byte(p[i].k, 0) /\ s[i][6] = Filter!Byte(p[i].k, 1)
                        /\ s[i][7] = Filter!Byte(p[i].k, 2) /\ s[i][8] = Filter!Byte(p[i].k, 3)
  OBVIOUS
<1>5. s \in [1 .. n -> [1 .. 8 -> Nat]]
  <2> HIDE DEF B
  <2> QED  BY <1>3
<1> HIDE DEF s
<1>6. /\ Len(Filter!FlattenSeq(s)) = 8 * n
      /\ \A i \in 1 .. n : \A r \in 1 .. 8 : Filter!FlattenSeq(s)[8 * (i - 1) + r] = s[i][r]
  BY ONLY <1>5, FlattenEights, n \in Nat \ {0}, Zenon
<1>7. Len(F) = 8 * n /\ \A i \in 1 .. n : \A r \in 1 .. 8 : F[8 * (i - 1) + r] = s[i][r]  BY ONLY <1>1, <1>6, Zenon
<1> HIDE DEF F
<1>8. Len(F) \div 8 = n
  <2>1. 8 * n \in Int /\ 8 * n = 8 * n + 0 /\ n \in Int /\ 0 \in Int /\ 0 <= 0 /\ 0 <= 7  OBVIOUS
  <2>2. (8 * n) \div 8 = n  BY ONLY <2>1, Eights, Zenon
  <2> QED  BY <1>7, <2>2
<1> DEFINE D(i) == LET o == 8 * (i - 1) + 1 IN
                   [code |-> F[o] + 256 * F[o + 1], jt |-> F[o + 2], jf |-> F[o + 3],
                    k |-> F[o + 4] + 256 * (F[o + 5] + 256 * (F[o + 6] + 256 * F[o + 7]))]
<1>9. Filter!DecodeFilter(F) = [i \in 1 .. n |-> D(i)]  BY <1>8 DEF Filter!DecodeFilter
<1>10. \A i \in 1 .. n : D(i) = p[i]
  <2> SUFFICES ASSUME NEW i \in 1 .. n
               PROVE  D(i) = p[i]
    OBVIOUS
  <2> DEFINE o == 8 * (i - 1) + 1
             P == p[i]
  <2>1. /\ o = 8 * (i - 1) + 1 /\ o + 1 = 8 * (i - 1) + 2 /\ o + 2 = 8 * (i - 1) + 3 /\ o + 3 = 8 * (i - 1) + 4
        /\ o + 4 = 8 * (i - 1) + 5 /\ o + 5 = 8 * (i - 1) + 6 /\ o + 6 = 8 * (i - 1) + 7 /\ o + 7 = 8 * (i - 1) + 8
    OBVIOUS
  <2>2. /\ 1 \in 1 .. 8 /\ 2 \in 1 .. 8 /\ 3 \in 1 .. 8 /\ 4 \in 1 .. 8
        /\ 5 \in 1 .. 8 /\ 6 \in 1 .. 8 /\ 7 \in 1 .. 8 /\ 8 \in 1 .. 8
    OBVIOUS
  <2> HIDE DEF o
  <2>3. /\ F[o] = Filter!Byte(P.code, 0) /\ F[o + 1] = Filter!Byte(P.code, 1) /\ F[o + 2] = P.jt /\ F[o + 3] = P.jf
        /\ F[o + 4] = Filter!Byte(P.k, 0) /\ F[o + 5] = Filter!Byte(P.k, 1)
        /\ F[o + 6] = Filter!Byte(P.k, 2) /\ F[o + 7] = Filter!Byte(P.k, 3)
    <3>1. \A r \in 1 .. 8 : F[8 * (i - 1) + r] = s[i][r]  BY ONLY <1>7, i \in 1 .. n, Zenon
    <3>2. /\ F[o] = s[i][1] /\ F[o + 1] = s[i][2] /\ F[o + 2] = s[i][3] /\ F[o + 3] = s[i][4]
          /\ F[o + 4] = s[i][5] /\ F[o + 5] = s[i][6] /\ F[o + 6] = s[i][7] /\ F[o + 7] = s[i][8]
      BY ONLY <2>1, <2>2, <3>1
    <3> QED  BY ONLY <1>4, <3>2, i \in 1 .. n, Zenon
  <2>4. Filter!Byte(P.code, 0) + 256 * Filter!Byte(P.code, 1) = P.code  BY ONLY <1>2, BytesOfShort, i \in 1 .. n, Zenon
  <2>5. Filter!Byte(P.k, 0)
          + 256 * (Filter!Byte(P.k, 1) + 256 * (Filter!Byte(P.k, 2) + 256 * Filter!Byte(P.k, 3))) = P.k
    BY ONLY <1>2, BytesOfWord, i \in 1 .. n, Zenon
  <2>6. P = [code |-> P.code, jt |-> P.jt, jf |-> P.jf, k |-> P.k]  BY ONLY <1>2, i \in 1 .. n, Zenon
  <2> HIDE DEF P
  <2>7. D(i) = [code |-> P.code, jt |-> P.jt, jf |-> P.jf, k |-> P.k]  BY ONLY <2>3, <2>4, <2>5, Zenon DEF o
  <2> QED  BY <2>6, <2>7 DEF P
<1> HIDE DEF D
<1>11. p = [i \in 1 .. n |-> p[i]]  OBVIOUS
<1> QED  BY ONLY <1>9, <1>10, <1>11 DEF F

\* p is a program of n instructions; r is p and then q.
Program(p, n) == n \in Nat /\ p \in Seq(Instructions) /\ Len(p) = n

Joins(r, p, m, q, n) == Program(r, m + n) /\ \A j \in 1 .. m + n : r[j] = IF j <= m THEN p[j] ELSE q[j - m]

\* Two pieces of a program, one after the other.
LEMMA Added ==
    ASSUME NEW p, NEW q, NEW m, NEW n, Program(p, m), Program(q, n)
    PROVE  Joins(p \o q, p, m, q, n)
<1>1. m \in Nat /\ n \in Nat /\ p \in Seq(Instructions) /\ q \in Seq(Instructions) /\ Len(p) = m /\ Len(q) = n
  BY DEF Program
<1>2. p \o q \in Seq(Instructions)  BY ONLY <1>1
<1>3. Len(p \o q) = Len(p) + Len(q)  BY ONLY <1>1
<1>4. \A j \in 1 .. m + n : (p \o q)[j] = IF j <= m THEN p[j] ELSE q[j - m]  BY ONLY <1>1
<1> QED  BY <1>1, <1>2, <1>3, <1>4 DEF Program, Joins

\* What the emitting functions return are instructions.
LEMMA Emitted ==
    /\ \A o \in {0, 24} : Filter!Ld(o) \in Instructions
    /\ \A v \in Word, jt \in Nat, jf \in Nat : Filter!Jeq(v, jt, jf) \in Instructions
    /\ \A v \in Word : Filter!Ja(v) \in Instructions /\ Filter!Ret(v) \in Instructions
<1>1. 32 \in Short /\ 21 \in Short /\ 5 \in Short /\ 6 \in Short /\ 0 \in Word /\ 24 \in Word  BY SMT DEF Short, Word
<1>2. 0 \in Nat  OBVIOUS
<1> QED  BY <1>1, <1>2 DEF Instructions, Filter!Ld, Filter!Jeq, Filter!Ja, Filter!Ret

\* The numbers the code emits fit their fields.
LEMMA Constants ==
    /\ Filter!RetAllow \in Word /\ Filter!RetUserNotif \in Word /\ Filter!RetErrno \in Word
    /\ \A v \in {1, 3, 4, 5, 41, 42, 175, 246, 298, 321} : v \in Word
<1>1. Filter!RetAllow \in Word /\ Filter!RetUserNotif \in Word /\ Filter!RetErrno \in Word
  BY SMT DEF Word, Filter!RetAllow, Filter!RetUserNotif, Filter!RetErrno
<1>2. \A v \in {1, 3, 4, 5, 41, 42, 175, 246, 298, 321} : v \in Word
  BY SMT DEF Word
<1> QED  BY <1>1, <1>2

\* Instructions listed one by one are a program.
LEMMA Tuples ==
    ASSUME NEW a \in Instructions, NEW b \in Instructions, NEW c \in Instructions, NEW d \in Instructions
    PROVE  Program(<<a>>, 1) /\ Program(<<a, b, c>>, 3) /\ Program(<<a, b, c, d>>, 4)
<1>1. <<a>> \in Seq(Instructions) /\ Len(<<a>>) = 1  OBVIOUS
<1>2. <<a, b, c>> \in Seq(Instructions) /\ Len(<<a, b, c>>) = 3  OBVIOUS
<1>3. <<a, b, c, d>> \in Seq(Instructions) /\ Len(<<a, b, c, d>>) = 4  OBVIOUS
<1>4. 1 \in Nat /\ 3 \in Nat /\ 4 \in Nat  OBVIOUS
<1> QED  BY <1>1, <1>2, <1>3, <1>4 DEF Program

\* From instruction o + 1 on, p returns x for the system call nr.
Returns(p, o, nr, x) ==
    /\ p[o + 1] = Filter!Ld(Filter!OffNr) /\ p[o + 2] = Filter!Jeq(nr, 1, 0)
    /\ p[o + 3] = Filter!Ja(1) /\ p[o + 4] = Filter!Ret(x)

\* The four instructions that OnNr emits.
LEMMA OnNrIs ==
    ASSUME NEW nr \in Word, NEW x \in Word
    PROVE  Program(Filter!OnNr(nr, x), 4) /\ Returns(Filter!OnNr(nr, x), 0, nr, x)
<1> DEFINE a == Filter!Ld(Filter!OffNr)
           b == Filter!Jeq(nr, 1, 0)
           c == Filter!Ja(1)
           d == Filter!Ret(x)
           p == <<a>>
           q == <<b, c, d>>
<1>1. 1 \in Word /\ 0 \in {0, 24} /\ 0 \in Nat /\ 1 \in Nat /\ Filter!OffNr = 0  BY Constants DEF Filter!OffNr
<1>2. a \in Instructions /\ b \in Instructions /\ c \in Instructions /\ d \in Instructions
  <2>1. a \in Instructions  BY ONLY <1>1, Emitted, Zenon
  <2>2. b \in Instructions  BY ONLY <1>1, Emitted, nr \in Word, Zenon
  <2>3. c \in Instructions  BY ONLY <1>1, Emitted, Zenon
  <2>4. d \in Instructions  BY ONLY Emitted, x \in Word, Zenon
  <2> QED  BY ONLY <2>1, <2>2, <2>3, <2>4, Zenon
<1>3. Filter!OnNr(nr, x) = p \o q  BY DEF Filter!OnNr, Filter!JeqRet
<1> HIDE DEF a, b, c, d
<1>4. Program(p, 1) /\ Program(q, 3)  BY ONLY <1>2, Tuples, Zenon
<1>5. p[1] = a /\ q[1] = b /\ q[2] = c /\ q[3] = d  OBVIOUS
<1> HIDE DEF p, q
<1> DEFINE r == p \o q
<1>6. Joins(r, p, 1, q, 3)  BY ONLY <1>4, Added, Zenon
<1> HIDE DEF r
<1>7. Program(r, 4) /\ \A j \in 1 .. 4 : r[j] = IF j <= 1 THEN p[j] ELSE q[j - 1]  BY ONLY <1>6 DEF Joins
<1>8. r[1] = a /\ r[2] = b /\ r[3] = c /\ r[4] = d  BY ONLY <1>5, <1>7
<1>9. Returns(r, 0, nr, x)  BY <1>8 DEF Returns, a, b, c, d
<1> QED  BY <1>3, <1>7, <1>9 DEF r

\* Instructions 17 to 24: socket.
HandlesSocket(p, o) ==
    /\ p[o + 1] = Filter!Ld(Filter!OffNr) /\ p[o + 2] = Filter!Jeq(Filter!NrSocket, 1, 0) /\ p[o + 3] = Filter!Ja(5)
    /\ p[o + 4] = Filter!Ld(Filter!OffArg1) /\ p[o + 5] = Filter!Jeq(Filter!SockRaw, 1, 0) /\ p[o + 6] = Filter!Ja(1)
    /\ p[o + 7] = Filter!Ret(Filter!RetErrno) /\ p[o + 8] = Filter!Ret(Filter!RetAllow)

\* The eight instructions of the socket handler.
LEMMA SocketBlockIs == Program(Filter!SocketBlock, 8) /\ HandlesSocket(Filter!SocketBlock, 0)
<1> DEFINE a == Filter!Ld(Filter!OffNr)
           b == Filter!Jeq(Filter!NrSocket, 1, 0)
           c == Filter!Ja(5)
           d == Filter!Ld(Filter!OffArg1)
           e == Filter!Jeq(Filter!SockRaw, 1, 0)
           f == Filter!Ja(1)
           g == Filter!Ret(Filter!RetErrno)
           h == Filter!Ret(Filter!RetAllow)
           p == <<a, b, c, d>>
           q == <<e, f, g>>
           l == <<h>>
<1>1. /\ 1 \in Word /\ 5 \in Word /\ Filter!NrSocket \in Word /\ Filter!SockRaw \in Word /\ 0 \in Nat /\ 1 \in Nat
      /\ Filter!OffNr \in {0, 24} /\ Filter!OffArg1 \in {0, 24}
      /\ Filter!RetErrno \in Word /\ Filter!RetAllow \in Word
  <2>1. Filter!NrSocket = 41 /\ Filter!SockRaw = 3 /\ Filter!OffNr = 0 /\ Filter!OffArg1 = 24
    BY DEF Filter!OffNr, Filter!OffArg1, Filter!NrSocket, Filter!SockRaw
  <2> QED  BY <2>1, Constants
<1>2. /\ a \in Instructions /\ b \in Instructions /\ c \in Instructions /\ d \in Instructions
      /\ e \in Instructions /\ f \in Instructions /\ g \in Instructions /\ h \in Instructions
  <2>1. a \in Instructions /\ d \in Instructions  BY ONLY <1>1, Emitted, Zenon
  <2>2. b \in Instructions  BY ONLY <1>1, Emitted, Zenon
  <2>3. e \in Instructions  BY ONLY <1>1, Emitted, Zenon
  <2>4. c \in Instructions /\ f \in Instructions  BY ONLY <1>1, Emitted, Zenon
  <2>5. g \in Instructions /\ h \in Instructions  BY ONLY <1>1, Emitted, Zenon
  <2> QED  BY ONLY <2>1, <2>2, <2>3, <2>4, <2>5, Zenon
<1>3. Filter!SocketBlock = (p \o q) \o l  BY DEF Filter!SocketBlock, Filter!JeqRet
<1> HIDE DEF a, b, c, d, e, f, g, h
<1>4. Program(p, 4) /\ Program(q, 3) /\ Program(l, 1)  BY ONLY <1>2, Tuples, Zenon
<1>5. p[1] = a /\ p[2] = b /\ p[3] = c /\ p[4] = d /\ q[1] = e /\ q[2] = f /\ q[3] = g /\ l[1] = h  OBVIOUS
<1> HIDE DEF p, q, l
<1> DEFINE r == p \o q
           s == r \o l
<1>6. Joins(r, p, 4, q, 3)  BY ONLY <1>4, Added, Zenon
<1> HIDE DEF r
<1>7. Program(r, 7) /\ \A j \in 1 .. 7 : r[j] = IF j <= 4 THEN p[j] ELSE q[j - 4]  BY ONLY <1>6 DEF Joins
<1>8. Joins(s, r, 7, l, 1)  BY ONLY <1>4, <1>7, Added, Zenon
<1> HIDE DEF s
<1>9. Program(s, 8) /\ \A j \in 1 .. 8 : s[j] = IF j <= 7 THEN r[j] ELSE l[j - 7]  BY ONLY <1>8 DEF Joins
<1>10. r[1] = a /\ r[2] = b /\ r[3] = c /\ r[4] = d /\ r[5] = e /\ r[6] = f /\ r[7] = g  BY ONLY <1>5, <1>7
<1>11. s[1] = a /\ s[2] = b /\ s[3] = c /\ s[4] = d /\ s[5] = e /\ s[6] = f /\ s[7] = g /\ s[8] = h
  BY ONLY <1>5, <1>9, <1>10
<1>12. HandlesSocket(s, 0)  BY <1>11 DEF HandlesSocket, a, b, c, d, e, f, g, h
<1> QED  BY <1>3, <1>12, <1>9 DEF r, s

\* The calls that are always blocked.
Refuses(p) ==
    /\ Returns(p, 0, 321, Filter!RetErrno) /\ Returns(p, 4, 175, Filter!RetErrno)
    /\ Returns(p, 8, 246, Filter!RetErrno) /\ Returns(p, 12, 298, Filter!RetErrno)

\* The program of the list modes.
Listing(p) ==
    /\ Program(p, 29) /\ Refuses(p) /\ HandlesSocket(p, 16)
    /\ Returns(p, 24, Filter!NrConnect, Filter!RetUserNotif)
    /\ p[29] = Filter!Ret(Filter!RetAllow)

\* A handler stays where it is when instructions are added.
LEMMA ReturnsIn ==
    ASSUME NEW r, NEW p, NEW m, NEW q, NEW n, Joins(r, p, m, q, n), m \in Nat, n \in Nat,
           NEW o, o \in Nat, o + 4 <= m, NEW nr, NEW x, Returns(p, o, nr, x)
    PROVE  Returns(r, o, nr, x)
<1>1. \A j \in 1 .. m + n : r[j] = IF j <= m THEN p[j] ELSE q[j - m]  BY DEF Joins
<1>2. r[o + 1] = p[o + 1] /\ r[o + 2] = p[o + 2] /\ r[o + 3] = p[o + 3] /\ r[o + 4] = p[o + 4]  BY <1>1
<1> QED  BY <1>2 DEF Returns

\* The handler that is added comes after what is there.
LEMMA ReturnsAfter ==
    ASSUME NEW r, NEW p, NEW m, NEW q, NEW n, Joins(r, p, m, q, n), m \in Nat, n \in Nat, 4 <= n,
           NEW nr, NEW x, Returns(q, 0, nr, x)
    PROVE  Returns(r, m, nr, x)
<1>1. \A j \in 1 .. m + n : r[j] = IF j <= m THEN p[j] ELSE q[j - m]  BY DEF Joins
<1>2. r[m + 1] = q[1] /\ r[m + 2] = q[2] /\ r[m + 3] = q[3] /\ r[m + 4] = q[4]  BY <1>1
<1>3. 0 + 1 = 1 /\ 0 + 2 = 2 /\ 0 + 3 = 3 /\ 0 + 4 = 4  OBVIOUS
<1> QED  BY <1>2, <1>3 DEF Returns

\* The handlers of the blocked calls stay where they are.
LEMMA RefusesIn ==
    ASSUME NEW r, NEW p, NEW m, NEW q, NEW n, Joins(r, p, m, q, n), m \in Nat, n \in Nat, 16 <= m, Refuses(p)
    PROVE  Refuses(r)
<1> DEFINE E == Filter!RetErrno
<1>1. /\ 0 \in Nat /\ 4 \in Nat /\ 8 \in Nat /\ 12 \in Nat
      /\ 0 + 4 <= m /\ 4 + 4 <= m /\ 8 + 4 <= m /\ 12 + 4 <= m
  OBVIOUS
<1>2. Returns(p, 0, 321, E) /\ Returns(p, 4, 175, E) /\ Returns(p, 8, 246, E) /\ Returns(p, 12, 298, E)
  BY DEF Refuses
<1> HIDE DEF E
<1>3. Joins(r, p, m, q, n) /\ m \in Nat /\ n \in Nat  OBVIOUS
<1>4. Returns(r, 0, 321, E)  BY ONLY <1>2, <1>1, <1>3, ReturnsIn
<1>5. Returns(r, 4, 175, E)  BY ONLY <1>2, <1>1, <1>3, ReturnsIn
<1>6. Returns(r, 8, 246, E)  BY ONLY <1>2, <1>1, <1>3, ReturnsIn
<1>7. Returns(r, 12, 298, E)  BY ONLY <1>2, <1>1, <1>3, ReturnsIn
<1> QED  BY <1>4, <1>5, <1>6, <1>7 DEF Refuses, E

\* So does the socket handler, which comes after what is there when it is
\* added.
LEMMA SocketIn ==
    ASSUME NEW r, NEW p, NEW m, NEW q, NEW n, Joins(r, p, m, q, n), m \in Nat, n \in Nat
    PROVE  /\ \A o \in Nat : o + 8 <= m /\ HandlesSocket(p, o) => HandlesSocket(r, o)
           /\ 8 <= n /\ HandlesSocket(q, 0) => HandlesSocket(r, m)
<1>1. \A j \in 1 .. m + n : r[j] = IF j <= m THEN p[j] ELSE q[j - m]  BY DEF Joins
<1>2. ASSUME NEW o \in Nat, o + 8 <= m, HandlesSocket(p, o)  PROVE HandlesSocket(r, o)
  <2>1. /\ r[o + 1] = p[o + 1] /\ r[o + 2] = p[o + 2] /\ r[o + 3] = p[o + 3] /\ r[o + 4] = p[o + 4]
        /\ r[o + 5] = p[o + 5] /\ r[o + 6] = p[o + 6] /\ r[o + 7] = p[o + 7] /\ r[o + 8] = p[o + 8]
    BY <1>1, <1>2
  <2> QED  BY <1>2, <2>1 DEF HandlesSocket
<1>3. ASSUME 8 <= n, HandlesSocket(q, 0)  PROVE HandlesSocket(r, m)
  <2>1. /\ r[m + 1] = q[1] /\ r[m + 2] = q[2] /\ r[m + 3] = q[3] /\ r[m + 4] = q[4]
        /\ r[m + 5] = q[5] /\ r[m + 6] = q[6] /\ r[m + 7] = q[7] /\ r[m + 8] = q[8]
    BY <1>1, <1>3
  <2>2. 0 + 1 = 1 /\ 0 + 2 = 2 /\ 0 + 3 = 3 /\ 0 + 4 = 4 /\ 0 + 5 = 5 /\ 0 + 6 = 6 /\ 0 + 7 = 7 /\ 0 + 8 = 8  OBVIOUS
  <2> QED  BY <1>3, <2>1, <2>2 DEF HandlesSocket
<1> QED  BY <1>2, <1>3

\* buildBPF generates the listing in both list modes.
LEMMA BuildBPFIs ==
    ASSUME NEW mode, Filter!NeedsNotifier(mode)
    PROVE  Listing(Filter!BuildBPF(mode))
<1> DEFINE E == Filter!RetErrno
           b1 == Filter!OnNr(321, E)
           b2 == Filter!OnNr(175, E)
           b3 == Filter!OnNr(246, E)
           b4 == Filter!OnNr(298, E)
           k2 == b1 \o b2
           k3 == k2 \o b3
           k4 == k3 \o b4
           socket == Filter!SocketBlock
           p24 == k4 \o socket
           connect == Filter!OnNr(Filter!NrConnect, Filter!RetUserNotif)
           p28 == p24 \o connect
           allow == <<Filter!Ret(Filter!RetAllow)>>
           p29 == p28 \o allow
<1>1. Filter!KillAll(Filter!AlwaysBlocked) = k4
  <2> DEFINE nrs == Filter!AlwaysBlocked
             s == [i \in DOMAIN nrs |-> Filter!OnNr(nrs[i], E)]
  <2>1. nrs[1] = 321 /\ nrs[2] = 175 /\ nrs[3] = 246 /\ nrs[4] = 298 /\ DOMAIN nrs = 1 .. 4
    BY DEF Filter!AlwaysBlocked
  <2> HIDE DEF nrs, E
  <2>2. s[1] = b1 /\ s[2] = b2 /\ s[3] = b3 /\ s[4] = b4 /\ Len(s) = 4  BY <2>1
  <2>3. Filter!KillAll(nrs) = Filter!FlattenSeq(s)  BY DEF Filter!KillAll, E
  <2> HIDE DEF s, b1, b2, b3, b4
  <2>4. Filter!FlattenSeq(s) = ((s[1] \o s[2]) \o s[3]) \o s[4]  BY ONLY <2>2, FlattenFour, Zenon
  <2> QED  BY ONLY <2>2, <2>3, <2>4, Zenon DEF nrs
<1>2. Filter!BuildBPF(mode) = p29
  <2> HIDE DEF k4
  <2> QED  BY ONLY <1>1, Filter!NeedsNotifier(mode), Zenon DEF Filter!BuildBPF
<1>3. /\ E \in Word /\ 321 \in Word /\ 175 \in Word /\ 246 \in Word /\ 298 \in Word
      /\ Filter!NrConnect \in Word /\ Filter!RetUserNotif \in Word /\ Filter!RetAllow \in Word
  BY Constants DEF Filter!NrConnect
<1>4. /\ Program(b1, 4) /\ Program(b2, 4) /\ Program(b3, 4) /\ Program(b4, 4) /\ Program(connect, 4)
      /\ Returns(b1, 0, 321, E) /\ Returns(b2, 0, 175, E) /\ Returns(b3, 0, 246, E) /\ Returns(b4, 0, 298, E)
      /\ Returns(connect, 0, Filter!NrConnect, Filter!RetUserNotif)
  BY ONLY <1>3, OnNrIs, ZenonT(60)
<1>5. Program(socket, 8) /\ HandlesSocket(socket, 0)  BY SocketBlockIs
<1>6. Program(allow, 1) /\ allow[1] = Filter!Ret(Filter!RetAllow)
  <2>1. Filter!Ret(Filter!RetAllow) \in Instructions  BY ONLY <1>3, Emitted, Zenon
  <2>2. Program(allow, 1)  BY ONLY <2>1, Tuples, Zenon
  <2> QED  BY <2>2
<1> HIDE DEF E, b1, b2, b3, b4, socket, connect, allow
<1>7. Joins(k2, b1, 4, b2, 4)  BY ONLY <1>4, Added, Zenon
<1> HIDE DEF k2
<1>8. Program(k2, 8)  BY ONLY <1>7 DEF Joins
<1>9. Joins(k3, k2, 8, b3, 4)  BY ONLY <1>4, <1>8, Added, Zenon
<1> HIDE DEF k3
<1>10. Program(k3, 12)  BY ONLY <1>9 DEF Joins
<1>11. Joins(k4, k3, 12, b4, 4)  BY ONLY <1>4, <1>10, Added, Zenon
<1> HIDE DEF k4
<1>12. Program(k4, 16)  BY ONLY <1>11 DEF Joins
<1>13. Joins(p24, k4, 16, socket, 8)  BY ONLY <1>5, <1>12, Added, Zenon
<1> HIDE DEF p24
<1>14. Program(p24, 24)  BY ONLY <1>13 DEF Joins
<1>15. Joins(p28, p24, 24, connect, 4)  BY ONLY <1>4, <1>14, Added, Zenon
<1> HIDE DEF p28
<1>16. Program(p28, 28)  BY ONLY <1>15 DEF Joins
<1>17. Joins(p29, p28, 28, allow, 1)  BY ONLY <1>6, <1>16, Added, Zenon
<1> HIDE DEF p29
<1>18. Program(p29, 29) /\ p29[29] = allow[1]
  <2>1. Program(p29, 28 + 1) /\ \A j \in 1 .. 28 + 1 : p29[j] = IF j <= 28 THEN p28[j] ELSE allow[j - 28]
    BY ONLY <1>17 DEF Joins
  <2> QED  BY ONLY <2>1
<1>19. 4 \in Nat /\ 8 \in Nat /\ 12 \in Nat /\ 16 \in Nat /\ 24 \in Nat /\ 28 \in Nat /\ 1 \in Nat /\ 0 \in Nat  OBVIOUS
<1>20. Returns(k2, 0, 321, E) /\ Returns(k2, 4, 175, E)  BY ONLY <1>4, <1>7, <1>19, ReturnsIn, ReturnsAfter
<1>21. Returns(k3, 0, 321, E) /\ Returns(k3, 4, 175, E) /\ Returns(k3, 8, 246, E)
  BY ONLY <1>4, <1>9, <1>19, <1>20, ReturnsIn, ReturnsAfter
<1>22. Refuses(k4)
  <2>1. Returns(k4, 0, 321, E) /\ Returns(k4, 4, 175, E)  BY ONLY <1>11, <1>19, <1>21, ReturnsIn
  <2>2. Returns(k4, 8, 246, E) /\ Returns(k4, 12, 298, E)  BY ONLY <1>4, <1>11, <1>19, <1>21, ReturnsIn, ReturnsAfter
  <2> QED  BY ONLY <2>1, <2>2 DEF Refuses, E
<1>23. Refuses(p24)  BY ONLY <1>13, <1>19, <1>22, RefusesIn
<1>24. Refuses(p28)  BY ONLY <1>15, <1>19, <1>23, RefusesIn
<1>25. Refuses(p29)  BY ONLY <1>17, <1>19, <1>24, RefusesIn
<1>26. Returns(p28, 24, Filter!NrConnect, Filter!RetUserNotif)  BY ONLY <1>4, <1>15, <1>19, ReturnsAfter
<1>27. Returns(p29, 24, Filter!NrConnect, Filter!RetUserNotif)  BY ONLY <1>17, <1>19, <1>26, ReturnsIn
<1>28. HandlesSocket(p24, 16)  BY ONLY <1>5, <1>13, <1>19, SocketIn
<1>29. HandlesSocket(p28, 16)  BY ONLY <1>15, <1>19, <1>28, SocketIn
<1>30. HandlesSocket(p29, 16)  BY ONLY <1>17, <1>19, <1>29, SocketIn
<1> QED  BY ONLY <1>2, <1>6, <1>18, <1>25, <1>30, <1>27, Zenon DEF Listing

\* The list of the execution is the one of its policy.
Listed == Filter!NeedsNotifier(Filter!Mode) /\ list = Filter!Named

\* A filter is installed only in a list mode, and calls are made only while
\* the script runs.
Installed ==
    /\ phase \in {"build", "command", "child"} => program = << >>
    /\ phase = "command" => Listed \/ (Filter!Mode = "none" /\ list = {})
    /\ phase = "child" => Listed
    /\ program # << >> => Listed /\ Listing(program)
    /\ phase # "run" => pc = 0 /\ outcome = "none"

\* What is known of the call when the machine has come to an instruction.
Reached ==
    LET n == call.nr IN
    /\ pc \in 1 .. 29
    /\ pc \in {2, 6, 10, 14, 18, 26} => acc = n
    /\ pc = 4 => n = 321
    /\ pc = 8 => n = 175
    /\ pc = 12 => n = 246
    /\ pc = 16 => n = 298
    /\ pc = 3 \/ pc > 4 => n # 321
    /\ pc = 7 \/ pc > 8 => n # 175
    /\ pc = 11 \/ pc > 12 => n # 246
    /\ pc = 15 \/ pc > 16 => n # 298
    /\ pc \in 20 .. 24 => n = 41
    /\ pc = 19 \/ pc > 24 => n # 41
    /\ pc = 21 => acc = call.arg
    /\ pc \in {22, 24} => call.arg # 3
    /\ pc = 23 => call.arg = 3
    /\ pc = 28 => n = 42
    /\ pc \in {27, 29} => n # 42

\* What the table above buildBPF says of a call, with the departure of the
\* code from it.
Decision(c) == IF Filter!Departs(c) THEN "allow" ELSE Filter!Table(c)

\* A connection the policy lets through.
Permitted ==
    LET t == call.target IN
    t # NoAddress /\ (t.port = 53 \/ (t \in Filter!Named) = (Filter!Mode = "allowlist"))

\* The decision about a call is that one, or the one of the policy.
Decided ==
    /\ outcome = "pending" => call.nr = 42
    /\ outcome \in {"allow", "deny"} =>
         /\ Decision(call) # "ask" => outcome = Decision(call)
         /\ Decision(call) = "ask" /\ outcome = "allow" => Permitted
         /\ Decision(call) = "ask" /\ outcome = "deny" => ~Permitted \/ ~notifier \/ list = {}

\* The inductive invariant: the machine runs only under an installed filter,
\* and what it knows and decides follows the table.
FilterInv ==
    /\ Installed
    /\ pc # 0 => program # << >> /\ outcome = "none" /\ Reached
    /\ program # << >> /\ pc = 0 => Decided

\* The decisions, call by call.
LEMMA TableIs ==
    ASSUME NEW c
    PROVE  /\ c.nr \in {321, 175, 246, 298} => Decision(c) = "deny"
           /\ c.nr = 41 => Decision(c) = IF c.arg = 3 THEN "deny" ELSE "allow"
           /\ c.nr = 42 => Decision(c) = "ask"
           /\ c.nr \notin {321, 175, 246, 298, 41, 42} => Decision(c) = "allow"
<1> DEFINE b == Filter!AlwaysBlocked
<1>1. b[1] = 321 /\ b[2] = 175 /\ b[3] = 246 /\ b[4] = 298 /\ DOMAIN b = 1 .. 4  BY DEF Filter!AlwaysBlocked
<1>2. 1 .. 4 = {1, 2, 3, 4}  OBVIOUS
<1> HIDE DEF b
<1>3. Filter!Range(b) = {321, 175, 246, 298}  BY <1>1, <1>2 DEF Filter!Range
<1>4. 3 % 16 = 3  OBVIOUS
<1> QED
  BY <1>3, <1>4 DEF Decision, Filter!Table, Filter!Departs, Filter!RawSocket,
                    Filter!NrSocket, Filter!NrConnect, Filter!SockRaw, b

\* The actions a filter can return are different numbers.
LEMMA Distinct ==
    /\ Filter!RetErrno # Filter!RetAllow /\ Filter!RetErrno # Filter!RetUserNotif
    /\ Filter!RetUserNotif # Filter!RetAllow
  BY SMT DEF Filter!RetErrno, Filter!RetAllow, Filter!RetUserNotif

\* What one step of the machine does, by the instruction it executes.
LEMMA Executed ==
    ASSUME Filter!StepBPF
    PROVE  /\ \A o : program[pc] = Filter!Ld(o) =>
                /\ acc' = IF o = 0 THEN call.nr ELSE call.arg
                /\ pc' = pc + 1 /\ outcome' = "none"
           /\ \A v : program[pc] = Filter!Jeq(v, 1, 0) =>
                acc' = acc /\ pc' = pc + 1 + (IF acc = v THEN 1 ELSE 0) /\ outcome' = "none"
           /\ \A n : program[pc] = Filter!Ja(n) => acc' = acc /\ pc' = pc + 1 + n /\ outcome' = "none"
           /\ program[pc] = Filter!Ret(Filter!RetErrno) => pc' = 0 /\ outcome' = "deny"
           /\ program[pc] = Filter!Ret(Filter!RetAllow) => pc' = 0 /\ outcome' = "allow"
           /\ program[pc] = Filter!Ret(Filter!RetUserNotif) => pc' = 0 /\ outcome' = "pending"
<1>1. \A o : program[pc] = Filter!Ld(o) =>
                /\ acc' = IF o = 0 THEN call.nr ELSE call.arg
                /\ pc' = pc + 1 /\ outcome' = "none"
  BY DEF Filter!StepBPF, Filter!Ld, Filter!OffNr
<1>2. \A v : program[pc] = Filter!Jeq(v, 1, 0) =>
                acc' = acc /\ pc' = pc + 1 + (IF acc = v THEN 1 ELSE 0) /\ outcome' = "none"
  BY DEF Filter!StepBPF, Filter!Jeq
<1>3. \A n : program[pc] = Filter!Ja(n) => acc' = acc /\ pc' = pc + 1 + n /\ outcome' = "none"
  BY DEF Filter!StepBPF, Filter!Ja
<1>4. /\ program[pc] = Filter!Ret(Filter!RetErrno) => pc' = 0 /\ outcome' = "deny"
      /\ program[pc] = Filter!Ret(Filter!RetAllow) => pc' = 0 /\ outcome' = "allow"
      /\ program[pc] = Filter!Ret(Filter!RetUserNotif) => pc' = 0 /\ outcome' = "pending"
  BY Distinct DEF Filter!StepBPF, Filter!Ret
<1> QED  BY ONLY <1>1, <1>2, <1>3, <1>4, Zenon

\* The instruction at each place of the listing.
LEMMA Instruction ==
    ASSUME Listing(program)
    PROVE  /\ \A i \in {1, 5, 9, 13, 17, 25} : program[i] = Filter!Ld(0)
           /\ \A i \in {3, 7, 11, 15, 22, 27} : program[i] = Filter!Ja(1)
           /\ \A i \in {4, 8, 12, 16, 23} : program[i] = Filter!Ret(Filter!RetErrno)
           /\ \A i \in {24, 29} : program[i] = Filter!Ret(Filter!RetAllow)
           /\ program[2] = Filter!Jeq(321, 1, 0) /\ program[6] = Filter!Jeq(175, 1, 0)
           /\ program[10] = Filter!Jeq(246, 1, 0) /\ program[14] = Filter!Jeq(298, 1, 0)
           /\ program[18] = Filter!Jeq(41, 1, 0) /\ program[26] = Filter!Jeq(42, 1, 0)
           /\ program[19] = Filter!Ja(5) /\ program[20] = Filter!Ld(24) /\ program[21] = Filter!Jeq(3, 1, 0)
           /\ program[28] = Filter!Ret(Filter!RetUserNotif)
<1>1. /\ Returns(program, 0, 321, Filter!RetErrno) /\ Returns(program, 4, 175, Filter!RetErrno)
      /\ Returns(program, 8, 246, Filter!RetErrno) /\ Returns(program, 12, 298, Filter!RetErrno)
      /\ HandlesSocket(program, 16) /\ Returns(program, 24, Filter!NrConnect, Filter!RetUserNotif)
      /\ program[29] = Filter!Ret(Filter!RetAllow)
  BY DEF Listing, Refuses
<1>2. /\ program[1] = Filter!Ld(0) /\ program[2] = Filter!Jeq(321, 1, 0) /\ program[3] = Filter!Ja(1)
      /\ program[4] = Filter!Ret(Filter!RetErrno)
  BY ONLY <1>1 DEF Returns, Filter!OffNr
<1>3. /\ program[5] = Filter!Ld(0) /\ program[6] = Filter!Jeq(175, 1, 0) /\ program[7] = Filter!Ja(1)
      /\ program[8] = Filter!Ret(Filter!RetErrno)
  BY ONLY <1>1 DEF Returns, Filter!OffNr
<1>4. /\ program[9] = Filter!Ld(0) /\ program[10] = Filter!Jeq(246, 1, 0) /\ program[11] = Filter!Ja(1)
      /\ program[12] = Filter!Ret(Filter!RetErrno)
  BY ONLY <1>1 DEF Returns, Filter!OffNr
<1>5. /\ program[13] = Filter!Ld(0) /\ program[14] = Filter!Jeq(298, 1, 0) /\ program[15] = Filter!Ja(1)
      /\ program[16] = Filter!Ret(Filter!RetErrno)
  BY ONLY <1>1 DEF Returns, Filter!OffNr
<1>6. /\ program[17] = Filter!Ld(0) /\ program[18] = Filter!Jeq(41, 1, 0) /\ program[19] = Filter!Ja(5)
      /\ program[20] = Filter!Ld(24) /\ program[21] = Filter!Jeq(3, 1, 0) /\ program[22] = Filter!Ja(1)
      /\ program[23] = Filter!Ret(Filter!RetErrno) /\ program[24] = Filter!Ret(Filter!RetAllow)
  BY ONLY <1>1 DEF HandlesSocket, Filter!OffNr, Filter!OffArg1, Filter!NrSocket, Filter!SockRaw
<1>7. /\ program[25] = Filter!Ld(0) /\ program[26] = Filter!Jeq(42, 1, 0) /\ program[27] = Filter!Ja(1)
      /\ program[28] = Filter!Ret(Filter!RetUserNotif)
  BY ONLY <1>1 DEF Returns, Filter!OffNr, Filter!NrConnect
<1> QED  BY ONLY <1>1, <1>2, <1>3, <1>4, <1>5, <1>6, <1>7

\* One instruction: the jumps land where what is known of the call says they
\* should, and what a return decides is what the table says.
LEMMA StepKeeps == FilterInv /\ Filter!StepBPF => FilterInv'
<1> SUFFICES ASSUME FilterInv, Filter!StepBPF
             PROVE  FilterInv'
  OBVIOUS
<1>1. /\ pc # 0 /\ UNCHANGED <<policy, phase, list, program, notifier, call>>  BY DEF Filter!StepBPF
<1>2. program # << >> /\ Reached /\ Listing(program) /\ phase = "run"  BY <1>1 DEF FilterInv, Installed
<1> DEFINE Result == (pc' # 0 /\ outcome' = "none" /\ Reached') \/ (pc' = 0 /\ Decided')
<1>3. Result
  <2>1. CASE pc \in {1, 5, 9, 13, 17, 25}
    <3>1. acc' = call.nr /\ pc' = pc + 1 /\ outcome' = "none"
      <4>1. program[pc] = Filter!Ld(0)  BY <1>2, <2>1, Instruction
      <4> QED  BY <4>1, Executed
    <3> QED  BY <1>1, <1>2, <2>1, <3>1 DEF Reached
  <2>2. CASE pc \in {3, 7, 11, 15, 22, 27}
    <3>1. acc' = acc /\ pc' = pc + 2 /\ outcome' = "none"
      <4>1. acc' = acc /\ pc' = pc + 1 + 1 /\ outcome' = "none"  BY <1>2, <2>2, Instruction, Executed
      <4> QED  BY <2>2, <4>1
    <3> QED  BY <1>1, <1>2, <2>2, <3>1 DEF Reached
  <2>3. CASE pc \in {4, 8, 12, 16, 23}
    <3>1. pc' = 0 /\ outcome' = "deny"  BY <1>2, <2>3, Instruction, Executed
    <3>2. call.nr \in {321, 175, 246, 298} \/ (call.nr = 41 /\ call.arg = 3)  BY <1>2, <2>3 DEF Reached
    <3>3. Decision(call) = "deny" /\ call' = call  BY <1>1, <3>2, TableIs
    <3> QED  BY <3>1, <3>3 DEF Decided
  <2>4. CASE pc \in {24, 29}
    <3>1. pc' = 0 /\ outcome' = "allow"  BY <1>2, <2>4, Instruction, Executed
    <3>2. call.nr \notin {321, 175, 246, 298, 41, 42} \/ (call.nr = 41 /\ call.arg # 3)  BY <1>2, <2>4 DEF Reached
    <3>3. Decision(call) = "allow" /\ call' = call  BY <1>1, <3>2, TableIs
    <3> QED  BY <3>1, <3>3 DEF Decided
  <2>5. CASE pc = 2
    <3>1. acc' = acc /\ pc' = 3 + (IF acc = 321 THEN 1 ELSE 0) /\ outcome' = "none"
      BY <1>2, <2>5, Instruction, Executed
    <3> QED  BY <1>1, <1>2, <2>5, <3>1 DEF Reached
  <2>6. CASE pc = 6
    <3>1. acc' = acc /\ pc' = 7 + (IF acc = 175 THEN 1 ELSE 0) /\ outcome' = "none"
      BY <1>2, <2>6, Instruction, Executed
    <3> QED  BY <1>1, <1>2, <2>6, <3>1 DEF Reached
  <2>7. CASE pc = 10
    <3>1. acc' = acc /\ pc' = 11 + (IF acc = 246 THEN 1 ELSE 0) /\ outcome' = "none"
      BY <1>2, <2>7, Instruction, Executed
    <3> QED  BY <1>1, <1>2, <2>7, <3>1 DEF Reached
  <2>8. CASE pc = 14
    <3>1. acc' = acc /\ pc' = 15 + (IF acc = 298 THEN 1 ELSE 0) /\ outcome' = "none"
      BY <1>2, <2>8, Instruction, Executed
    <3> QED  BY <1>1, <1>2, <2>8, <3>1 DEF Reached
  <2>9. CASE pc = 18
    <3>1. acc' = acc /\ pc' = 19 + (IF acc = 41 THEN 1 ELSE 0) /\ outcome' = "none"
      BY <1>2, <2>9, Instruction, Executed
    <3> QED  BY <1>1, <1>2, <2>9, <3>1 DEF Reached
  <2>10. CASE pc = 26
    <3>1. acc' = acc /\ pc' = 27 + (IF acc = 42 THEN 1 ELSE 0) /\ outcome' = "none"
      BY <1>2, <2>10, Instruction, Executed
    <3> QED  BY <1>1, <1>2, <2>10, <3>1 DEF Reached
  <2>11. CASE pc = 21
    <3>1. acc' = acc /\ pc' = 22 + (IF acc = 3 THEN 1 ELSE 0) /\ outcome' = "none"
      BY <1>2, <2>11, Instruction, Executed
    <3> QED  BY <1>1, <1>2, <2>11, <3>1 DEF Reached
  <2>12. CASE pc = 19
    <3>1. acc' = acc /\ pc' = 25 /\ outcome' = "none"  BY <1>2, <2>12, Instruction, Executed
    <3> QED  BY <1>1, <1>2, <2>12, <3>1 DEF Reached
  <2>13. CASE pc = 20
    <3>1. acc' = call.arg /\ pc' = 21 /\ outcome' = "none"  BY <1>2, <2>13, Instruction, Executed
    <3> QED  BY <1>1, <1>2, <2>13, <3>1 DEF Reached
  <2>14. CASE pc = 28
    <3>1. pc' = 0 /\ outcome' = "pending"  BY <1>2, <2>14, Instruction, Executed
    <3> QED  BY <1>1, <1>2, <2>14, <3>1 DEF Reached, Decided
  <2>15. pc \in 1 .. 29  BY <1>2 DEF Reached
  <2> QED  BY <2>1, <2>2, <2>3, <2>4, <2>5, <2>6, <2>7, <2>8, <2>9, <2>10, <2>11, <2>12, <2>13, <2>14, <2>15
<1> HIDE DEF Result
<1>4. Installed'  BY <1>1, <1>2 DEF FilterInv, Installed, Listed, Filter!Named, Filter!Mode
<1> QED  BY <1>1, <1>2, <1>3, <1>4 DEF FilterInv, Result

\* Before the first execution nothing is installed.
LEMMA FilterStarts == Filter!Init => FilterInv
  BY DEF Filter!Init, FilterInv, Installed

\* The resolved list of a policy without bad entries.
LEMMA ResolvedIsNamed ==
    ASSUME \A n \in policy.entries : ~Filter!BadEntry(n)
    PROVE  Filter!ResolveEntries(policy.entries) = Filter!Named
<1>1. {m \in policy.entries : ~Filter!BadEntry(m)} = policy.entries  OBVIOUS
<1> QED  BY <1>1 DEF Filter!ResolveEntries, Filter!Named

\* BuildFilter: the list of a list mode is the one its policy names.
LEMMA BuildKeeps == FilterInv /\ Filter!BuildFilter => FilterInv'
<1> SUFFICES ASSUME FilterInv, Filter!BuildFilter
             PROVE  FilterInv'
  OBVIOUS
<1> DEFINE used == IF Filter!NeedsNotifier(Filter!Mode) THEN policy.entries ELSE {}
           bad == Filter!Mode \notin {"none", "allowlist", "denylist"} \/ \E n \in used : Filter!BadEntry(n)
<1>1. /\ phase = "build" /\ UNCHANGED <<policy, program, notifier, call, pc, acc, outcome>>
      /\ phase' = IF bad THEN "failed" ELSE "command"
      /\ list' = IF bad THEN {} ELSE Filter!ResolveEntries(used)
  BY DEF Filter!BuildFilter
<1>2. program = << >> /\ pc = 0 /\ outcome = "none"  BY <1>1 DEF FilterInv, Installed
<1>3. Filter!Mode' = Filter!Mode /\ Filter!Named' = Filter!Named
  BY <1>1 DEF Filter!Mode, Filter!Named
<1>4. CASE bad  BY <1>1, <1>2, <1>4 DEF FilterInv, Installed
<1>5. CASE ~bad
  <2>1. CASE Filter!NeedsNotifier(Filter!Mode)
    <3>1. list' = Filter!Named  BY <1>1, <1>5, <2>1, ResolvedIsNamed
    <3>2. Listed'  BY <1>3, <2>1, <3>1 DEF Listed, Filter!NeedsNotifier
    <3> QED  BY <1>1, <1>2, <1>5, <3>2 DEF FilterInv, Installed
  <2>2. CASE ~Filter!NeedsNotifier(Filter!Mode)
    <3>1. Filter!Mode = "none"  BY <1>5, <2>2 DEF Filter!NeedsNotifier
    <3>2. list' = {}
      <4>1. used = {}  BY <2>2
      <4>2. list' = Filter!ResolveEntries({})  BY <1>1, <1>5, <4>1
      <4> QED  BY <4>2 DEF Filter!ResolveEntries
    <3> QED  BY <1>1, <1>2, <1>3, <1>5, <3>1, <3>2 DEF FilterInv, Installed
  <2> QED  BY <2>1, <2>2
<1> QED  BY <1>4, <1>5

\* A sequence is a function on its positions.
LEMMA SeqFunction ==
    ASSUME NEW S, NEW n \in Nat, NEW p, p \in Seq(S), Len(p) = n
    PROVE  p \in [1 .. n -> S]
  OBVIOUS

\* ChildMain: what is installed is what was generated, for the encoding is
\* undone by the decoding loop.
LEMMA InstallKeeps ==
    ASSUME FilterInv, Filter!ChildMain
    PROVE  FilterInv'
<1>1. /\ phase = "child" /\ UNCHANGED <<policy, list, notifier, call, pc, acc, outcome>>
      /\ \/ /\ phase' = "handshake"
            /\ program' = Filter!DecodeFilter(Filter!MarshalFilter(Filter!BuildBPF(Filter!Mode)))
         \/ phase' = "failed" /\ program' = program
  BY DEF Filter!ChildMain
<1>2. program = << >> /\ pc = 0 /\ outcome = "none" /\ Listed  BY <1>1 DEF FilterInv, Installed
<1>3. Listed'  BY <1>1, <1>2 DEF Listed, Filter!Mode, Filter!Named, Filter!NeedsNotifier
<1>4. CASE phase' = "failed" /\ program' = program  BY <1>1, <1>2, <1>3, <1>4 DEF FilterInv, Installed
<1>5. CASE /\ phase' = "handshake"
           /\ program' = Filter!DecodeFilter(Filter!MarshalFilter(Filter!BuildBPF(Filter!Mode)))
  <2> DEFINE p == Filter!BuildBPF(Filter!Mode)
  <2>1. Listing(p)  BY <1>2, BuildBPFIs DEF Listed
  <2> HIDE DEF p
  <2>2. p \in [1 .. 29 -> Instructions] /\ 29 \in Nat \ {0}
    <3>1. p \in Seq(Instructions) /\ Len(p) = 29  BY <2>1 DEF Listing, Program
    <3>2. 29 \in Nat \ {0}  OBVIOUS
    <3> QED  BY ONLY <3>1, <3>2, SeqFunction
  <2>3. program' = p
    <3>1. Filter!DecodeFilter(Filter!MarshalFilter(p)) = p  BY ONLY <2>2, RoundTrip, Zenon
    <3> QED  BY <1>5, <3>1 DEF p
  <2>4. Listing(program)'  BY <2>1, <2>3
  <2>5. pc' = 0 /\ outcome' = "none" /\ phase' = "handshake"  BY <1>1, <1>2, <1>5
  <2> QED  BY <1>3, <2>4, <2>5 DEF FilterInv, Installed, Decided
<1> QED  BY <1>1, <1>4, <1>5

\* A new call starts the machine at the first instruction, where nothing is
\* known yet.
LEMMA EnterKeeps ==
    ASSUME FilterInv, NEW c, Filter!EnterCall(c)
    PROVE  FilterInv'
<1>1. /\ phase = "run" /\ call' = c /\ UNCHANGED <<policy, phase, list, program, notifier>>
      /\ IF program = << >> THEN pc' = 0 /\ outcome' = "allow" ELSE pc' = 1 /\ outcome' = "none"
  BY DEF Filter!EnterCall
<1>2. Installed'
  BY <1>1 DEF FilterInv, Installed, Listed, Filter!Mode, Filter!Named, Filter!NeedsNotifier
<1>3. program # << >> => Reached'  BY <1>1 DEF Reached
<1> QED  BY <1>1, <1>2, <1>3 DEF FilterInv

\* The notifier decides a call by the list the policy names; what it lets
\* through is permitted, and what it refuses is not, unless the list is empty.
LEMMA NotifyKeeps == FilterInv /\ Filter!Notify => FilterInv'
<1> SUFFICES ASSUME FilterInv, Filter!Notify
             PROVE  FilterInv'
  OBVIOUS
<1>1. /\ outcome = "pending" /\ UNCHANGED <<policy, phase, list, program, notifier, call, pc, acc>>
      /\ outcome' = IF notifier /\ Filter!CheckTarget(call.target) THEN "allow" ELSE "deny"
  BY DEF Filter!Notify
<1>2. phase = "run" /\ pc = 0  BY <1>1 DEF FilterInv, Installed
<1>3. Installed'  BY <1>1, <1>2 DEF FilterInv, Installed, Listed, Filter!Mode, Filter!Named, Filter!NeedsNotifier
<1>4. ASSUME program # << >>  PROVE Decided'
  <2>1. Listed /\ call.nr = 42  BY <1>1, <1>2, <1>4 DEF FilterInv, Installed, Decided
  <2>2. Decision(call) = "ask" /\ call' = call  BY <1>1, <2>1, TableIs
  <2>3. Permitted' = Permitted  BY <1>1 DEF Permitted, Filter!Named, Filter!Mode
  <2>4. Filter!CheckTarget(call.target) => Permitted
    BY <2>1 DEF Filter!CheckTarget, Permitted, Listed, Filter!NeedsNotifier
  <2>5. Permitted => Filter!CheckTarget(call.target) \/ list = {}
    BY <2>1 DEF Filter!CheckTarget, Permitted, Listed, Filter!NeedsNotifier
  <2> QED  BY <1>1, <2>2, <2>3, <2>4, <2>5 DEF Decided
<1> QED  BY <1>1, <1>2, <1>3, <1>4 DEF FilterInv

\* The steps that leave the call in progress alone.
LEMMA OthersKeep ==
    ASSUME FilterInv,
           Filter!ScriptCmd \/ Filter!Handshake \/ Filter!NotifierEnds \/ Filter!Finish
             \/ UNCHANGED filterVars
    PROVE  FilterInv'
<1>1. CASE Filter!ScriptCmd
  <2>1. /\ phase = "command" /\ UNCHANGED <<policy, list, program, notifier, call, pc, acc, outcome>>
        /\ phase' = IF Filter!Mode = "none" /\ list = {} THEN "run" ELSE "child"
    BY <1>1 DEF Filter!ScriptCmd
  <2>2. program = << >> /\ pc = 0 /\ outcome = "none"  BY <2>1 DEF FilterInv, Installed
  <2>3. Listed' = Listed  BY <2>1 DEF Listed, Filter!Mode, Filter!Named, Filter!NeedsNotifier
  <2> QED  BY <2>1, <2>2, <2>3 DEF FilterInv, Installed
<1>2. CASE Filter!Handshake
  <2>1. /\ phase = "handshake" /\ UNCHANGED <<policy, list, program, call, pc, acc, outcome>>
        /\ phase' \in {"run", "failed"}
    BY <1>2 DEF Filter!Handshake
  <2>2. pc = 0 /\ outcome = "none"  BY <2>1 DEF FilterInv, Installed
  <2>3. Listed' = Listed  BY <2>1 DEF Listed, Filter!Mode, Filter!Named, Filter!NeedsNotifier
  <2> QED  BY <2>1, <2>2, <2>3 DEF FilterInv, Installed, Decided
<1>3. CASE Filter!NotifierEnds
  <2>1. UNCHANGED <<policy, phase, list, program, call, pc, acc, outcome>> /\ ~notifier'
    BY <1>3 DEF Filter!NotifierEnds
  <2>2. Installed' /\ (Reached => Reached')
    <3>1. Installed'
      BY <2>1 DEF FilterInv, Installed, Listed, Filter!Mode, Filter!Named, Filter!NeedsNotifier
    <3>2. ASSUME Reached  PROVE Reached'  BY ONLY <2>1, <3>2 DEF Reached
    <3> QED  BY <3>1, <3>2
  <2>3. Permitted' = Permitted  BY <2>1 DEF Permitted, Filter!Named, Filter!Mode
  <2>4. Decided => Decided'  BY <2>1, <2>3 DEF Decided
  <2> QED  BY <2>1, <2>2, <2>4 DEF FilterInv
<1>4. CASE Filter!Finish
  <2>1. pc = 0 /\ pc' = 0 /\ phase' = "build" /\ program' = << >> /\ outcome' = "none"
    BY <1>4 DEF Filter!Finish
  <2> QED  BY <2>1 DEF FilterInv, Installed
<1>5. CASE UNCHANGED filterVars
  <2>1. UNCHANGED <<policy, phase, list, program, notifier, call, pc, acc, outcome>>  BY <1>5 DEF filterVars
  <2>2. Installed' /\ (Reached => Reached')
    <3>1. Installed'
      BY <2>1 DEF FilterInv, Installed, Listed, Filter!Mode, Filter!Named, Filter!NeedsNotifier
    <3>2. ASSUME Reached  PROVE Reached'  BY ONLY <2>1, <3>2 DEF Reached
    <3> QED  BY <3>1, <3>2
  <2>3. Permitted' = Permitted  BY <2>1 DEF Permitted, Filter!Named, Filter!Mode
  <2>4. Decided => Decided'  BY <2>1, <2>3 DEF Decided
  <2> QED  BY <2>1, <2>2, <2>4 DEF FilterInv
<1> QED  BY <1>1, <1>2, <1>3, <1>4, <1>5

\* Every step of the filter keeps the invariant, and so does any other step.
LEMMA FilterKept ==
    ASSUME FilterInv, Filter!Next \/ UNCHANGED filterVars
    PROVE  FilterInv'
<1>1. CASE Filter!Next
  <2>1. CASE \E c \in Calls : Filter!EnterCall(c)  BY <2>1, EnterKeeps
  <2>2. CASE Filter!BuildFilter  BY <2>2, BuildKeeps
  <2>3. CASE Filter!StepBPF  BY <2>3, StepKeeps
  <2>4. CASE Filter!Notify  BY <2>4, NotifyKeeps
  <2>5. CASE Filter!ChildMain  BY <2>5, InstallKeeps
  <2> QED  BY <1>1, <2>1, <2>2, <2>3, <2>4, <2>5, OthersKeep DEF Filter!Next
<1> QED  BY <1>1, OthersKeep

\* The invariant gives the property.
LEMMA FilterSound ==
    ASSUME FilterInv
    PROVE  FilterImplementsPolicy
<1>1. pc \in 0 .. Len(program)
  <2>1. CASE pc = 0
    <3>1. Len(program) \in Nat
      <4>1. CASE program = << >>  BY <4>1
      <4>2. CASE program # << >>  BY <4>2 DEF FilterInv, Installed, Listing, Program
      <4> QED  BY <4>1, <4>2
    <3> QED  BY <2>1, <3>1
  <2>2. CASE pc # 0
    <3>1. pc \in 1 .. 29 /\ Len(program) = 29
      BY <2>2 DEF FilterInv, Installed, Listing, Program, Reached
    <3> QED  BY <3>1
  <2> QED  BY <2>1, <2>2
<1>2. program # << >> /\ pc = 0 => Decided  BY DEF FilterInv
<1>3. /\ Filter!Table(call) = "ask" <=> Decision(call) = "ask"
      /\ Decision(call) = IF Filter!Departs(call) THEN "allow" ELSE Filter!Table(call)
  BY DEF Decision, Filter!Departs, Filter!RawSocket, Filter!Table, Filter!NrSocket, Filter!NrConnect
<1> HIDE DEF Decision
<1> QED
  BY <1>1, <1>2, <1>3 DEF FilterImplementsPolicy, Filter!FilterImplementsPolicy, Decided, Permitted

\* Whatever the policy, the calls of the script and the failures of child and
\* notifier, the generated BPF program, encoded by ScriptCmd and decoded by
\* ChildMain, runs off no end, and every decision about a call is the one that
\* the table above buildBPF and the policy's list prescribe, but for a raw
\* socket whose type carries a flag, which the handler's comparison misses.
THEOREM PolicyIsImplemented == SandboxSpec => []FilterImplementsPolicy
<1>1. Filter!Init => FilterInv  BY FilterStarts
<1>2. FilterInv /\ [ExecutionStep \/ FilterStep]_<<vars, filterVars>> => FilterInv'
  BY FilterKept DEF ExecutionStep, FilterStep
<1>3. FilterInv => FilterImplementsPolicy  BY FilterSound
<1> QED  BY <1>1, <1>2, <1>3, PTL DEF SandboxSpec
=============================================================================
