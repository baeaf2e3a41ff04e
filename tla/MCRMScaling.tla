---------------------------- MODULE MCRMScaling ----------------------------
(* Two concurrent calls, one of a sandbox plan: the TaskManager pool grows to *)
(* two pods, the sandbox pool to one.                                        *)
EXTENDS RMScaling, TLC

CONSTANTS a, b

MCCalls == {a, b}
MCSandboxCalls == {b}
MCSlots == "tm" :> 1 @@ "sandbox" :> 1
MCMinPods == "tm" :> 0 @@ "sandbox" :> 0
MCMaxPods == "tm" :> 2 @@ "sandbox" :> 1
=============================================================================
