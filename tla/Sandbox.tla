------------------------------ MODULE Sandbox ------------------------------
(***************************************************************************)
(* The sandbox: executions of scripts on a pod and the filter that a       *)
(* script runs under.  The filter belongs to the process of one script; an *)
(* execution sees of it only how the script ended, so that the two share   *)
(* no state.                                                               *)
(***************************************************************************)
EXTENDS SandboxExec

CONSTANTS Policies, Addresses, Unknown, Calls, NoAddress

VARIABLES policy, phase, list, program, notifier, call, pc, acc, outcome

filterVars == <<policy, phase, list, program, notifier, call, pc, acc, outcome>>

Filter == INSTANCE Seccomp

ExecutionStep == Next /\ UNCHANGED filterVars
FilterStep == Filter!Next /\ UNCHANGED vars

SandboxSpec == Init /\ Filter!Init /\ [][ExecutionStep \/ FilterStep]_<<vars, filterVars>>

\* Every decision about a system call of a filtered script is the one the
\* table above buildBPF and the policy prescribe, but for a raw socket whose
\* type carries a flag.
FilterImplementsPolicy == Filter!FilterImplementsPolicy
=============================================================================
