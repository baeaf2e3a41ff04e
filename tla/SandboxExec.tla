---------------------------- MODULE SandboxExec ----------------------------
(***************************************************************************)
(* Script execution through the sandbox: SandboxExecutor on the            *)
(* TaskManager (core/pkg/engine/executor/sandbox.go) and the slot workers  *)
(* of a sandbox pod (sandbox/pkg/sandboxmanager.go).  The executor writes  *)
(* the script into a directory named after its plan, subscribes to the     *)
(* result topic of the run, publishes a trigger and takes the first of: a  *)
(* message on that topic, a readable result.json in the directory, a       *)
(* timeout.  The pod queues triggers for its slots, runs the script,       *)
(* leaves result.json and status in the directory and publishes the        *)
(* result.  All executions here belong to one run, whose result topic they *)
(* share; executions of one plan (a node executed again by a new           *)
(* JobManager) share the directory as well.                                *)
(***************************************************************************)
EXTENDS Integers, Sequences, SequencesExt, FiniteSets

CONSTANTS
    Execs,        \* executions of sandbox nodes of one run
    Plans,        \* plan ids, each with its directory
    Slots,        \* slot workers a pod may have
    MaxAttempts,  \* publish attempts of a result (5 in the code)
    MaxFaults,    \* bound: lost and repeated messages, failed calls, crashes
    None,
    Torn,         \* result.json truncated and not yet written
    Timeout       \* the error result of an expired wait

ASSUME SandboxAssumption ==
    /\ Plans # {}
    /\ IsFiniteSet(Slots) /\ Slots # {}
    /\ MaxAttempts \in Nat \ {0} /\ MaxFaults \in Nat

VARIABLES
    planOf,    \* planOf[e]: plan of the execution e
    stage,     \* stage[e]: where Execute stands
    inbox,     \* inbox[e]: resultCh, buffered by one
    answer,    \* answer[e]: what Execute returned
    script,    \* script[d]: whose script is in directory d
    file,      \* file[d]: result.json
    status,    \* status[d]: the status file
    triggers,  \* trigger messages on their way
    slots,     \* slot workers of the pod (SetSlots)
    jobs,      \* the pod's channel of triggers
    slot,      \* slot[w]: what slot worker w is doing
    wire,      \* result messages on their way
    lost,      \* history: executions whose trigger or only result was lost
    contended, \* history: directories two slots worked in at once
    broken,    \* history: directories where a failed write was ignored
    overlap,   \* overlap[e]: history, other executions in progress while e listened
    faults

fixed == <<planOf, slots>>
executor == <<fixed, stage, inbox, answer>>
disk == <<script, file, status>>
history == <<lost, contended, broken, overlap>>
vars == <<executor, disk, triggers, jobs, slot, wire, history, faults>>

\* A result: the execution whose trigger was handled, the one whose script
\* ran, and how it ended; "refused" covers every error return that leaves no
\* result.json.
Results == [trigger : Execs, of : Execs, kind : {"ok", "failed", "refused"}]
FinalStatuses == {"SUCCESS", "FAILED"}

\* An execution, a result and a status are told from None, Torn and Timeout.
ASSUME ValuesAssumption ==
    \A v \in {None, Torn, Timeout} : v \notin Execs /\ v \notin Results /\ v \notin FinalStatuses

Free == [job |-> None, at |-> "idle", of |-> None, kind |-> "ok", attempt |-> 0]
Listening == {"subscribed", "waiting"}

\* buildPath: one directory per plan.
DirPerRun(e) == CHOOSE p \in Plans : TRUE
Dir(e) == planOf[e]

ResultOf(w) == [trigger |-> slot[w].job, of |-> slot[w].of, kind |-> slot[w].kind]
Readable(d) == file[d] \in Results
Busy(e) == {w \in Slots : slot[w].job = e}
Handled == {e \in Execs : Busy(e) # {}}
Outstanding == triggers \union Range(jobs) \union Handled \union {r.trigger : r \in wire}

Init ==
    /\ planOf \in [Execs -> Plans]
    /\ stage = [e \in Execs |-> "idle"]
    /\ inbox = [e \in Execs |-> None] /\ answer = [e \in Execs |-> None]
    /\ script = [d \in Plans |-> None] /\ file = [d \in Plans |-> None]
    /\ status = [d \in Plans |-> None]
    /\ slots \in SUBSET Slots \ {{}}
    /\ triggers = {} /\ jobs = <<>> /\ slot = [w \in Slots |-> Free]
    /\ wire = {} /\ lost = {} /\ contended = {} /\ broken = {}
    /\ overlap = [e \in Execs |-> {}] /\ faults \in 0 .. MaxFaults

Fault == faults < MaxFaults /\ faults' = faults + 1
NoFault == UNCHANGED faults

\* A write of a status file whose error nobody looks at: it takes effect, or
\* leaves the old content, or an empty file.  A directory is `mended' when a
\* complete result.json and its status are written.
WriteStatusFile(d, v, mended) ==
    \/ status' = [status EXCEPT ![d] = v] /\ NoFault /\ broken' = broken \ mended
    \/ /\ \E old \in {status[d], None} : status' = [status EXCEPT ![d] = old]
       /\ Fault /\ broken' = broken \union {d}

-----------------------------------------------------------------------------
(* SandboxExecutor.Execute *)

\* writeScript, writeInput and snapshotOriginals.  Nothing removes the
\* result.json of an earlier execution of the plan.
WriteScript(e) ==
    /\ stage[e] = "idle"
    /\ stage' = [stage EXCEPT ![e] = "script"]
    /\ script' = [script EXCEPT ![Dir(e)] = e]
    /\ WriteStatusFile(Dir(e), "PENDING", {})
    /\ UNCHANGED <<fixed, inbox, answer, file, triggers, jobs, slot, wire, lost, contended, overlap>>

\* Subscribe to the result topic of the run.
Subscribe(e) ==
    /\ stage[e] = "script"
    /\ stage' = [stage EXCEPT ![e] = "subscribed"]
    /\ overlap' = [overlap EXCEPT ![e] = Outstanding \ {e}]
    /\ UNCHANGED <<fixed, inbox, answer, disk, triggers, jobs, slot, wire, lost, contended, broken, faults>>

PublishTrigger(e) ==
    /\ stage[e] = "subscribed"
    /\ stage' = [stage EXCEPT ![e] = "waiting"]
    /\ triggers' = triggers \union {e}
    /\ overlap' = [x \in Execs |->
                     IF x # e /\ stage[x] \in Listening THEN overlap[x] \union {e} ELSE overlap[x]]
    /\ UNCHANGED <<fixed, inbox, answer, disk, jobs, slot, wire, lost, contended, broken, faults>>

\* An error of a file operation, of Subscribe or of Publish ends Execute.
ExecuteError(e) ==
    /\ stage[e] \in {"script", "subscribed"} /\ Fault
    /\ stage' = [stage EXCEPT ![e] = "error"]
    /\ UNCHANGED <<fixed, inbox, answer, disk, triggers, jobs, slot, wire, history>>

Return(e, r) ==
    /\ stage' = [stage EXCEPT ![e] = "done"]
    /\ answer' = [answer EXCEPT ![e] = r]
    /\ inbox' = [inbox EXCEPT ![e] = None]
    /\ UNCHANGED <<fixed, disk, triggers, jobs, slot, wire, history, faults>>

TakeResult(e) == stage[e] = "waiting" /\ inbox[e] # None /\ Return(e, inbox[e])

\* The poll of readResultFile; a torn file does not parse.
PollResult(e) == stage[e] = "waiting" /\ Readable(Dir(e)) /\ Return(e, file[Dir(e)])

\* The wait expires, or the plan's context ends: one more look at the file.
WaitExpires(e) ==
    /\ stage[e] = "waiting"
    /\ Return(e, IF Readable(Dir(e)) THEN file[Dir(e)] ELSE Timeout)

-----------------------------------------------------------------------------
(* FlowgentSandboxManager *)

\* The subscription callback blocks while the channel is full.  A message
\* may be delivered again.
DeliverTrigger(e) ==
    /\ e \in triggers /\ Len(jobs) < Cardinality(slots)
    /\ jobs' = Append(jobs, e)
    /\ \/ triggers' = triggers \ {e} /\ NoFault
       \/ triggers' = triggers /\ Fault
    /\ UNCHANGED <<executor, disk, slot, wire, history>>

\* SandboxSlotWorker.Start takes the next job.
TakeJob(w) ==
    /\ w \in slots /\ slot[w] = Free /\ jobs # <<>>
    /\ slot' = [slot EXCEPT ![w] = [Free EXCEPT !.job = Head(jobs), !.at = "read"]]
    /\ jobs' = Tail(jobs)
    /\ contended' = contended \union ({Dir(Head(jobs))} \intersect {Dir(e) : e \in Handled})
    /\ UNCHANGED <<executor, disk, triggers, wire, lost, broken, overlap, faults>>

Goto(w, at) == slot' = [slot EXCEPT ![w].at = at]

\* handleTrigger: read the script; an error is published as the result.
ReadScript(w) ==
    LET d == Dir(slot[w].job) IN
    /\ slot[w].at = "read"
    /\ \/ /\ slot' = [slot EXCEPT ![w].at = "execute", ![w].of = script[d]]
          /\ WriteStatusFile(d, "RUNNING", {})
       \/ /\ slot' = [slot EXCEPT ![w].at = "publish", ![w].of = slot[w].job,
                                  ![w].kind = "refused"]
          /\ UNCHANGED <<status, broken>> /\ Fault
    /\ UNCHANGED <<executor, script, file, triggers, jobs, wire, lost, contended, overlap>>

\* execute: isRuntimeAllowed, checkBanned and every step up to the running
\* process (seccomp filter, start, notifier handshake) may end it with an
\* error that leaves no result.json.
Refuse(w) ==
    /\ slot[w].at = "execute"
    /\ slot' = [slot EXCEPT ![w].at = "publish", ![w].kind = "refused"]
    /\ UNCHANGED <<executor, disk, triggers, jobs, wire, history, faults>>

WritesFileOnSuccess(kind) == kind = "ok"
WritesFile(kind) == kind # "refused"

\* executeInProcess, executeInDocker: the script is written back and runs.
\* Its timeout kills the process, but Wait also waits for whatever the
\* process started and left behind with its output open.
Hang(w) ==
    LET d == Dir(slot[w].job) IN
    /\ slot[w].at = "execute" /\ Fault
    /\ script' = [script EXCEPT ![d] = slot[w].of]
    /\ Goto(w, "hung")
    /\ lost' = lost \union {slot[w].job}
    /\ UNCHANGED <<executor, file, status, triggers, jobs, wire, contended, broken, overlap>>

\* The script has ended and result.json is truncated; an error of opening it
\* is dropped ...
RunScript(w, kind) ==
    LET d == Dir(slot[w].job) IN
    /\ slot[w].at \in {"execute", "hung"}
    /\ script' = IF slot[w].at = "execute" THEN [script EXCEPT ![d] = slot[w].of] ELSE script
    /\ \/ /\ slot' = [slot EXCEPT ![w].at = "write", ![w].kind = kind]
          /\ file' = IF WritesFile(kind) THEN [file EXCEPT ![d] = Torn] ELSE file
          /\ broken' = broken /\ NoFault
       \/ /\ slot' = [slot EXCEPT ![w].at = "status", ![w].kind = kind]
          /\ file' = file
          /\ broken' = broken \union {d} /\ Fault
    /\ UNCHANGED <<executor, status, triggers, jobs, wire, lost, contended, overlap>>

\* ... and written (writeResultFile), the error of the write dropped too;
\* the file stays torn for every execution that polls it ...
WriteResultFile(w) ==
    LET d == Dir(slot[w].job) IN
    /\ slot[w].at = "write"
    /\ Goto(w, "status")
    /\ \/ /\ file' = IF WritesFile(slot[w].kind) THEN [file EXCEPT ![d] = ResultOf(w)] ELSE file
          /\ UNCHANGED <<lost, broken>> /\ NoFault
       \/ /\ file' = file
          /\ lost' = lost \union {e \in Execs \ {slot[w].job} : Dir(e) = d}
          /\ broken' = broken \union {d} /\ Fault
    /\ UNCHANGED <<executor, script, status, triggers, jobs, wire, contended, overlap>>

AlwaysSuccess(kind) == "SUCCESS"
FinalStatus(kind) == IF kind = "ok" THEN "SUCCESS" ELSE "FAILED"

\* ... before the status says so.
WriteStatus(w) ==
    LET d == Dir(slot[w].job) IN
    /\ slot[w].at = "status"
    /\ Goto(w, "publish")
    /\ WriteStatusFile(d, FinalStatus(slot[w].kind), IF file[d] = ResultOf(w) THEN {d} ELSE {})
    /\ UNCHANGED <<executor, script, file, triggers, jobs, wire, lost, contended, overlap>>

\* Whom a lost result leaves waiting: its execution, if it was refused or its
\* result.json could not be written.
Unheard(r) ==
    LET d == Dir(r.trigger) IN
    IF r.kind = "refused" \/ (d \in broken /\ ~Readable(d)) THEN {r.trigger} ELSE {}

\* publishResult retries a failed publish; after the last attempt the worker
\* goes on with the next job.
PublishResult(w) ==
    /\ slot[w].at = "publish"
    /\ \/ /\ wire' = wire \union {ResultOf(w)} /\ slot' = [slot EXCEPT ![w] = Free]
          /\ lost' = lost /\ NoFault
       \/ /\ slot[w].attempt + 1 < MaxAttempts /\ NoFault
          /\ slot' = [slot EXCEPT ![w].attempt = @ + 1] /\ UNCHANGED <<wire, lost>>
       \/ /\ slot[w].attempt + 1 = MaxAttempts /\ Fault
          /\ slot' = [slot EXCEPT ![w] = Free] /\ wire' = wire
          /\ lost' = lost \union Unheard(ResultOf(w))
    /\ UNCHANGED <<executor, disk, triggers, jobs, contended, broken, overlap>>

\* Every handler of the topic gets the message; a full channel drops it.
DeliverResult(r) ==
    /\ r \in wire
    /\ inbox' = [e \in Execs |-> IF stage[e] \in Listening /\ inbox[e] = None THEN r ELSE inbox[e]]
    /\ \/ wire' = wire \ {r} /\ NoFault
       \/ wire' = wire /\ Fault
    /\ UNCHANGED <<fixed, stage, answer, disk, triggers, jobs, slot, history>>

-----------------------------------------------------------------------------
(* Faults *)

LoseTrigger(e) ==
    /\ e \in triggers /\ Fault
    /\ triggers' = triggers \ {e} /\ lost' = lost \union {e}
    /\ UNCHANGED <<executor, disk, jobs, slot, wire, contended, broken, overlap>>

LoseResult(r) ==
    /\ r \in wire /\ Fault
    /\ wire' = wire \ {r} /\ lost' = lost \union Unheard(r)
    /\ UNCHANGED <<executor, disk, triggers, jobs, slot, contended, broken, overlap>>

\* The pod dies (or is stopped) with its jobs; a new one subscribes.
CrashPod ==
    /\ Fault
    /\ jobs' = <<>> /\ slot' = [w \in Slots |-> Free]
    /\ lost' = lost \union Range(jobs) \union Handled
                 \union {e \in Execs : file[Dir(e)] = Torn}
    /\ UNCHANGED <<executor, disk, triggers, wire, contended, broken, overlap>>

-----------------------------------------------------------------------------
Executor(e) ==
    \/ WriteScript(e) \/ Subscribe(e) \/ PublishTrigger(e) \/ ExecuteError(e)
    \/ TakeResult(e) \/ PollResult(e) \/ WaitExpires(e)

Worker(w) ==
    \/ TakeJob(w) \/ ReadScript(w) \/ Refuse(w) \/ Hang(w)
    \/ \E k \in {"ok", "failed"} : RunScript(w, k)
    \/ WriteResultFile(w) \/ WriteStatus(w) \/ PublishResult(w)

Next ==
    \/ \E e \in Execs : Executor(e) \/ DeliverTrigger(e) \/ LoseTrigger(e)
    \/ \E w \in Slots : Worker(w)
    \/ \E r \in wire : DeliverResult(r) \/ LoseResult(r)
    \/ CrashPod

\* The broker delivers, the executor's poll and every slot worker keep
\* running, but for a worker whose script never lets go of its output; no
\* expiry of the wait is assumed.
Fairness ==
    /\ \A e \in Execs : WF_vars(DeliverTrigger(e)) /\ WF_vars(TakeResult(e)) /\ WF_vars(PollResult(e))
    /\ \A w \in Slots : WF_vars(slot[w].at # "hung" /\ Worker(w))
    /\ WF_vars(\E r \in wire : DeliverResult(r))

Spec == Init /\ [][Next]_vars
FairSpec == Spec /\ Fairness

-----------------------------------------------------------------------------
\* Execute returns what a script of its own plan did, unless another
\* execution of the run was in progress while it listened on the topic they
\* share: results carry no plan id, so only then can a foreign one arrive.
AnswerSound ==
    \A e \in Execs : answer[e] \in Results =>
        \/ planOf[answer[e].of] = planOf[e]
        \/ answer[e].trigger \in overlap[e]

\* The final status of a directory tells the truth about its result.json:
\* it is complete and of that outcome, as long as no other slot worked in
\* the directory at the same time and no write in it failed: the errors of
\* those writes are dropped, and the status is written all the same.
StatusSound ==
    \A d \in Plans \ (contended \union broken) :
        /\ status[d] = "SUCCESS" => file[d] \in Results /\ file[d].kind = "ok"
        /\ status[d] = "FAILED" => file[d] \in Results /\ file[d].kind = "failed"

\* Every slot worker of the pod waits for a script that does not let go.
Stalled == \A w \in slots : slot[w].at = "hung"

\* An execution that waits gets an answer before any timeout, although a
\* published result may be lost, a publish fail for good and the write of a
\* result.json fail: the message or the file is there for the other.  Only a
\* lost trigger, a dead pod, a script that hangs (or hangs every slot), and
\* the loss of the one result there was leave it to the timeout.
ExecutionAnswered ==
    \A e \in Execs : stage[e] = "waiting" ~> (stage[e] = "done" \/ e \in lost \/ Stalled)
=============================================================================
