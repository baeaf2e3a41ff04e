----------------------------- MODULE MCSandbox -----------------------------
(***************************************************************************)
(* An instance of Sandbox.  A behaviour is one of script executions or one *)
(* of a filtered script, as `subject' says.                                *)
(***************************************************************************)
EXTENDS Sandbox
CONSTANTS p1, e1, s1
VARIABLE subject

MCAddresses == [api |-> {"10.0.0.1", "10.0.0.2"}, web |-> {"10.0.0.1"}, v6only |-> {}]

Entry(s, h, p) == [scheme |-> s, host |-> h, port |-> p]
MCEntries == {{}, {Entry("", "api", 8080)}, {Entry("http", "web", 0), Entry("https", "api", 0)},
              {Entry("", "web", 0)}, {Entry("", "v6only", 443)}, {Entry("", "api", 70000)},
              {Entry("", "gone", 443)}, {Entry("http", "", 0)}}
MCPolicies == [mode : {"", "none", "allowlist", "denylist", "open"}, entries : MCEntries]
MCTargets == [ip : {"10.0.0.1", "10.0.0.2"}, port : {53, 80, 443, 8080}] \union {NoAddress}
MCCalls ==
    [nr : {0, 44, 46, 175, 246, 298, 307, 321}, arg : {3}, target : {NoAddress}]
      \union [nr : {41}, arg : {1, 2, 3, 2049, 2051}, target : {NoAddress}]
      \union [nr : {42}, arg : {3}, target : MCTargets]

\* Up to renaming, the executions are of one plan or of two; a pod of one
\* slot meets one fault, a pod of two slots none.
MCInit ==
    /\ Init /\ Filter!Init
    /\ planOf[e1] = p1
    /\ \/ slots = {s1} /\ faults = 0
       \/ slots = Slots /\ faults = MaxFaults
    /\ \/ subject = "execution" /\ policy = [mode |-> "none", entries |-> {}]
       \/ subject = "filter" /\ slots = {s1} /\ planOf = [e \in Execs |-> p1]

MCNext ==
    \/ subject = "execution" /\ ExecutionStep /\ UNCHANGED subject
    \/ subject = "filter" /\ FilterStep /\ UNCHANGED subject

MCSpec == MCInit /\ [][MCNext]_<<subject, vars, filterVars>> /\ Fairness
=============================================================================
