--------------------------- MODULE MCPlanDispatch ---------------------------
(***************************************************************************)
(* Three calls of one run: c1 and c2 for the same node (the run was        *)
(* executed again), c3 for another one.                                    *)
(***************************************************************************)
EXTENDS PlanDispatch, TLC

CONSTANTS c1, c2, c3, k1, k2, r1

MCKeyOf == (c1 :> k1 @@ c2 :> k1 @@ c3 :> k2)
MCRunOf == (k1 :> r1 @@ k2 :> r1)
=============================================================================
