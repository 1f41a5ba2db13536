------------------------------ MODULE MCRouter ------------------------------
(* Calls of the router on a grid of two by three nodes with a penalty edge,  *)
(* as between the racks and the gates of nodes.yaml.                         *)
EXTENDS Router

\* Node N<k> of nodes.yaml is the number k: five columns, rows from the top.
MCCell == [n \in Node |-> <<(n - 1) % 5, 4 - ((n - 1) \div 5)>>]

\* Bounds: at most one blocked node, one excluded edge, two penalized nodes.
AtMost(k, S) == {T \in SUBSET S : Cardinality(T) <= k}
Edges == {{a, b} : a, b \in Node}
MCQuery ==
  [start : Node, goal : Node, blocked : AtMost(1, Node),
   edges : AtMost(1, {e \in Edges : \E a, b \in e : Adjacent(a, b)}),
   penalized : AtMost(2, Node)]
=============================================================================
