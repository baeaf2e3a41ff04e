---------------------------- MODULE MCController ----------------------------
(* Two controller replicas that share one flow with a schedule.              *)
EXTENDS Controller, TLC

CONSTANTS c1, c2, f1

MCPods == <<c1, c2>>
MCFlows == {f1}
MCHash == f1 :> 3
MCScheduled == {f1}
=============================================================================
