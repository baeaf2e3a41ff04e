---------------------------- MODULE MCJobMaster ----------------------------
(***************************************************************************)
(* All flows over three declared nodes with the edge labels of OutLabels,  *)
(* cyclic ones included, plus flows with an undeclared dependency and a    *)
(* four-node diamond.                                                      *)
(***************************************************************************)
EXTENDS JobMaster, TLC

CONSTANTS a, b, c, d

MCRank == (a :> 1 @@ b :> 2 @@ c :> 3 @@ d :> 4)

Pairs(S) == {p \in S \X S : p[1] # p[2]}

\* The flow with node set N, condition nodes K, and the edges labelled by f.
Flow(N, K, f) ==
  [nodes |-> N, condition |-> K,
   edges |-> {p \in DOMAIN f : f[p] # "absent"},
   when  |-> [p \in Nodes \X Nodes |->
                IF p \in DOMAIN f /\ f[p] # "absent" THEN f[p] ELSE "nil"]]

Labels == EdgeConds \cup {"absent"}

\* The labels of the edges out of each node: a is the condition node, c has
\* conditional edges without being one, b has plain edges only.
OutLabels == (a :> Labels @@ b :> {"nil", "absent"} @@ c :> {"nil", "true", "absent"})

ThreeNodeFlows ==
  {Flow({a, b, c}, {a}, f) :
     f \in {g \in [Pairs({a, b, c}) -> Labels] : \A p \in DOMAIN g : g[p] \in OutLabels[p[1]]}}

\* c lists a dependency on the undeclared node d.
UndeclaredFlows ==
  {Flow({a, c}, {a}, (<<a, c>> :> l) @@ (<<d, c>> :> "nil")) : l \in EdgeConds}

\* c is listed third but gates b and d; d joins both branches of a.
DiamondFlows ==
  {Flow({a, b, c, d}, {a, c},
        (<<a, b>> :> l) @@ (<<a, c>> :> m) @@ (<<b, d>> :> "nil") @@ (<<c, d>> :> k)) :
     l \in EdgeConds, m \in EdgeConds, k \in EdgeConds}

MCSpecs == ThreeNodeFlows \cup UndeclaredFlows \cup DiamondFlows
=============================================================================
