------------------------------ MODULE MCTraffic ------------------------------
(* The traffic manager alone, on a piece of the floor: two robots that may   *)
(* ask anything at any time.                                                 *)
EXTENDS Traffic

\* Node N<k> of nodes.yaml is the number k: five columns, rows from the top.
MCCell == [n \in Node |-> <<(n - 1) % 5, 4 - ((n - 1) \div 5)>>]

\* Bound: at most one node is announced as blocked at a time.
OneBlock == Cardinality(tm.announced) <= 1
=============================================================================
