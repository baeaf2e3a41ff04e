------------------------------ MODULE Seccomp ------------------------------
(***************************************************************************)
(* The network policy of a sandboxed script (sandbox/pkg/seccomp):         *)
(* BuildFilter resolves the policy and generates a BPF program, ScriptCmd  *)
(* starts a child that decodes and installs it and hands the notifier fd   *)
(* to the parent, the kernel interprets the program on every system call,  *)
(* and the notifier decides about the calls the program refers to it.      *)
(* Instructions are the numbers the code emits; the interpreter runs one   *)
(* of them per step.                                                       *)
(***************************************************************************)
EXTENDS Integers, Sequences, SequencesExt, FiniteSets

CONSTANTS
    Policies,  \* network policies: mode, and the entries of its list
    Addresses, \* Addresses[h]: IPv4 addresses a host name resolves to
    Unknown,   \* host names that do not resolve
    Calls,     \* system calls of scripts: nr, arg (its 2nd argument), target
    NoAddress  \* a sockaddr that is null, unreadable or not IPv4

VARIABLES
    policy,   \* the network policy of the execution
    phase,    \* build, command, child, handshake, run, failed
    list,     \* resolved entries of the policy's list
    program,  \* the filter installed in the child; empty if there is none
    notifier, \* the notifier loop runs
    call,     \* the system call in progress
    pc, acc,  \* the BPF machine; pc = 0 when it does not run
    outcome   \* what became of the call: allow, deny or pending

vars == <<policy, phase, list, program, notifier, call, pc, acc, outcome>>

-----------------------------------------------------------------------------
(* The filter program *)

Ld(offset) == [code |-> 32, jt |-> 0, jf |-> 0, k |-> offset]
Jeq(value, jt, jf) == [code |-> 21, jt |-> jt, jf |-> jf, k |-> value]
Ja(n) == [code |-> 5, jt |-> 0, jf |-> 0, k |-> n]
Ret(action) == [code |-> 6, jt |-> 0, jf |-> 0, k |-> action]
RetAllow == 2147418112       \* 0x7fff0000
RetUserNotif == 2143289344   \* 0x7fc00000
RetErrno == 327681           \* 0x00050000 | EPERM

NrSocket == 41
NrConnect == 42
SendCalls == <<44, 46, 307>>
AlwaysBlocked == <<321, 175, 246, 298>>
SockRaw == 3
OffNr == 0
OffArg1 == 24

JeqRet(nr, action) == <<Jeq(nr, 1, 0), Ja(1), Ret(action)>>
OnNr(nr, action) == <<Ld(OffNr)>> \o JeqRet(nr, action)
KillAll(nrs) == FlattenSeq([i \in DOMAIN nrs |-> OnNr(nrs[i], RetErrno)])

\* socket: SOCK_RAW is refused, other types allowed at once; any other call
\* jumps over the handler.
SocketShortJump ==
    <<Ld(OffNr), Jeq(NrSocket, 1, 0), Ja(4), Ld(OffArg1)>> \o JeqRet(SockRaw, RetErrno) \o <<Ret(RetAllow)>>

SocketBlock ==
    <<Ld(OffNr), Jeq(NrSocket, 1, 0), Ja(5), Ld(OffArg1)>> \o JeqRet(SockRaw, RetErrno) \o <<Ret(RetAllow)>>

NeedsNotifier(mode) == mode \in {"allowlist", "denylist"}

BuildBPF(mode) ==
    KillAll(AlwaysBlocked) \o SocketBlock
      \o (IF NeedsNotifier(mode) THEN OnNr(NrConnect, RetUserNotif)
                                 ELSE KillAll(<<NrConnect>> \o SendCalls))
      \o <<Ret(RetAllow)>>

\* MarshalFilter: eight bytes an instruction, little endian.
Byte(n, i) == (n \div 256^i) % 256
MarshalFilter(prog) ==
    FlattenSeq([i \in DOMAIN prog |->
        <<Byte(prog[i].code, 0), Byte(prog[i].code, 1), prog[i].jt, prog[i].jf,
          Byte(prog[i].k, 0), Byte(prog[i].k, 1), Byte(prog[i].k, 2), Byte(prog[i].k, 3)>>])

\* The decoding loop of ChildMain.
DecodeFilter(flat) ==
    [i \in 1 .. Len(flat) \div 8 |->
        LET o == 8 * (i - 1) + 1 IN
        [code |-> flat[o] + 256 * flat[o + 1], jt |-> flat[o + 2], jf |-> flat[o + 3],
         k |-> flat[o + 4] + 256 * (flat[o + 5] + 256 * (flat[o + 6] + 256 * flat[o + 7]))]]

-----------------------------------------------------------------------------
(* The policy *)

\* splitPolicyEntry: an explicit port, or the one of the scheme, or 443.
SplitPolicyEntry(entry) ==
    [host |-> entry.host,
     port |-> IF entry.port # 0 THEN entry.port ELSE IF entry.scheme = "http" THEN 80 ELSE 443]

BadEntry(entry) ==
    \/ entry.host = ""
    \/ SplitPolicyEntry(entry).port \notin 1 .. 65535
    \/ SplitPolicyEntry(entry).host \in Unknown

\* resolveEntries; addresses that are not IPv4 are dropped.
ResolveEntries(entries) ==
    UNION {{[ip |-> a, port |-> SplitPolicyEntry(n).port] : a \in Addresses[n.host]} : n \in entries}

Mode == IF policy.mode = "" THEN "none" ELSE policy.mode

Init ==
    /\ policy \in Policies
    /\ phase = "build" /\ list = {} /\ program = <<>> /\ notifier = FALSE
    /\ call = CHOOSE c \in Calls : TRUE
    /\ pc = 0 /\ acc = 0 /\ outcome = "none"

\* BuildFilter; resolution happens only in the two list modes.
BuildFilter ==
    LET used == IF NeedsNotifier(Mode) THEN policy.entries ELSE {}
        bad == Mode \notin {"none", "allowlist", "denylist"} \/ \E n \in used : BadEntry(n)
    IN  /\ phase = "build"
        /\ phase' = IF bad THEN "failed" ELSE "command"
        /\ list' = IF bad THEN {} ELSE ResolveEntries(used)
        /\ UNCHANGED <<policy, program, notifier, call, pc, acc, outcome>>

\* ScriptCmd: without a notifier mode the script is started directly, with
\* no filter; otherwise through a child that gets the marshalled program.
ScriptCmd ==
    /\ phase = "command"
    /\ phase' = IF Mode = "none" /\ list = {} THEN "run" ELSE "child"
    /\ UNCHANGED <<policy, list, program, notifier, call, pc, acc, outcome>>

\* ChildMain installs the decoded program and passes the notifier fd; if it
\* cannot, the parent's recvNotifier sees the socket close.
ChildMain ==
    /\ phase = "child"
    /\ \/ /\ phase' = "handshake"
          /\ program' = DecodeFilter(MarshalFilter(BuildBPF(Mode)))
       \/ phase' = "failed" /\ program' = program
    /\ UNCHANGED <<policy, list, notifier, call, pc, acc, outcome>>

\* recvNotifier and the wait of executeInProcess: the notifier starts, or
\* the handshake fails or times out and the child is killed.
Handshake ==
    /\ phase = "handshake"
    /\ \/ phase' = "run" /\ notifier' = TRUE
       \/ phase' = "failed" /\ notifier' = FALSE
    /\ UNCHANGED <<policy, list, program, call, pc, acc, outcome>>

-----------------------------------------------------------------------------
(* Running script *)

\* The script enters the kernel; without a filter the call goes ahead.
EnterCall(c) ==
    /\ phase = "run" /\ pc = 0 /\ outcome # "pending"
    /\ call' = c /\ acc' = 0
    /\ IF program = <<>> THEN pc' = 0 /\ outcome' = "allow" ELSE pc' = 1 /\ outcome' = "none"
    /\ UNCHANGED <<policy, phase, list, program, notifier>>

\* One instruction of the filter (external: the kernel's BPF machine).
StepBPF ==
    LET i == program[pc] IN
    /\ pc # 0
    /\ acc' = IF i.code = 32 THEN (IF i.k = OffNr THEN call.nr ELSE call.arg) ELSE acc
    /\ pc' = CASE i.code = 32 -> pc + 1
               [] i.code = 21 -> pc + 1 + (IF acc = i.k THEN i.jt ELSE i.jf)
               [] i.code = 5  -> pc + 1 + i.k
               [] OTHER       -> 0
    /\ outcome' = IF i.code # 6 THEN "none"
                  ELSE CASE i.k = RetAllow -> "allow" [] i.k = RetUserNotif -> "pending" [] OTHER -> "deny"
    /\ UNCHANGED <<policy, phase, list, program, notifier, call>>

\* checkTarget: DNS always, then the list of the mode; a mode whose list is
\* empty allows nothing.
CheckTarget(t) ==
    /\ t # NoAddress
    /\ \/ t.port = 53
       \/ Mode = "allowlist" /\ t \in list
       \/ Mode = "denylist" /\ list # {} /\ t \notin list

\* The notifier answers, or its loop has ended and the kernel refuses.
Notify ==
    /\ outcome = "pending"
    /\ outcome' = IF notifier /\ CheckTarget(call.target) THEN "allow" ELSE "deny"
    /\ UNCHANGED <<policy, phase, list, program, notifier, call, pc, acc>>

\* Start returns when an ioctl fails; nothing restarts it.
NotifierEnds ==
    /\ notifier /\ notifier' = FALSE
    /\ UNCHANGED <<policy, phase, list, program, call, pc, acc, outcome>>

\* The script ends and the next execution begins.
Finish ==
    /\ phase \in {"run", "failed"} /\ pc = 0 /\ outcome # "pending"
    /\ policy' \in Policies
    /\ phase' = "build" /\ list' = {} /\ program' = <<>> /\ notifier' = FALSE
    /\ outcome' = "none" /\ UNCHANGED <<call, pc, acc>>

Next ==
    \/ BuildFilter \/ ScriptCmd \/ ChildMain \/ Handshake
    \/ \E c \in Calls : EnterCall(c)
    \/ StepBPF \/ Notify \/ NotifierEnds \/ Finish

Spec == Init /\ [][Next]_vars

-----------------------------------------------------------------------------
\* A socket type is in the low four bits of the argument; SOCK_NONBLOCK and
\* SOCK_CLOEXEC may be set above them.
RawSocket(c) == c.nr = NrSocket /\ c.arg % 16 = SockRaw

\* What the table above buildBPF promises for a filtered script; "ask" is a
\* notification.
Table(c) ==
    CASE c.nr \in Range(AlwaysBlocked) \/ RawSocket(c) -> "deny"
      [] c.nr = NrConnect -> "ask"
      [] OTHER -> "allow"

\* Where the code departs from that table: the socket handler compares the
\* whole argument with SOCK_RAW.
Departs(c) == RawSocket(c) /\ c.arg # SockRaw

\* Endpoints the policy names.
Named ==
    UNION {{[ip |-> a, port |-> SplitPolicyEntry(n).port] : a \in Addresses[n.host]} :
              n \in {m \in policy.entries : ~BadEntry(m)}}

\* Every decision about a system call of a filtered script is the one the
\* table above buildBPF and the policy prescribe, but for a raw socket whose
\* type carries a flag: the generated jumps land where they should, the
\* program survives its encoding, and a connection is made only to DNS or to
\* a target the policy's list lets through.
FilterImplementsPolicy ==
    /\ pc \in 0 .. Len(program)
    /\ program # <<>> /\ pc = 0 /\ outcome \in {"allow", "deny"} =>
        LET t == call.target
            permitted == t # NoAddress /\ (t.port = 53 \/ (t \in Named) = (Mode = "allowlist"))
        IN  /\ Table(call) # "ask" => outcome = (IF Departs(call) THEN "allow" ELSE Table(call))
            /\ Table(call) = "ask" /\ outcome = "allow" => permitted
            /\ Table(call) = "ask" /\ outcome = "deny" => ~permitted \/ ~notifier \/ list = {}
=============================================================================
