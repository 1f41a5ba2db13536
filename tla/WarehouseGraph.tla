--------------------------- MODULE WarehouseGraph ---------------------------
(***************************************************************************)
(* The node graph of the warehouse (graph.py) and what the router promises *)
(* about it (router.py): which nodes are adjacent, what an edge costs,     *)
(* which way it points, and the cheapest routes between two nodes.         *)
(*                                                                         *)
(* Coordinates are grid cells (0.30 m apart) and costs are counted in      *)
(* edges of 0.30 m.  The router breaks ties between equally cheap routes   *)
(* by a heap order on (float cost, node name); here every cheapest route   *)
(* may be returned.                                                        *)
(***************************************************************************)
EXTENDS Integers, SequencesExt

CONSTANTS
  Node,          \* the nodes that are not walls (Graph.free)
  Cell,          \* [Node -> <<column, row>>], rows counted northwards
  BlockedEdge,   \* edges {a, b} no robot may use (_BLOCKED_EDGES)
  PenaltyEdge    \* edges {a, b} that cost twice as much (_PENALTY_EDGES)

ASSUME GraphAssumption ==
  /\ IsFiniteSet(Node)
  /\ Cell \in [Node -> Int \X Int]
  /\ \A a, b \in Node : Cell[a] = Cell[b] => a = b

-----------------------------------------------------------------------------
(* Adjacency, direction and cost.                                          *)

Dx(a, b) == Cell[b][1] - Cell[a][1]
Dy(a, b) == Cell[b][2] - Cell[a][2]
Abs(i) == IF i < 0 THEN -i ELSE i

\* One cell apart, horizontally or vertically, and not a forbidden edge.
Adjacent(a, b) ==
  /\ Abs(Dx(a, b)) + Abs(Dy(a, b)) = 1
  /\ {a, b} \notin BlockedEdge

Neighbors(a) == {b \in Node : Adjacent(a, b)}

Dir(a, b) ==
  IF Abs(Dx(a, b)) >= Abs(Dy(a, b))
    THEN IF Dx(a, b) > 0 THEN "E" ELSE "W"
    ELSE IF Dy(a, b) > 0 THEN "N" ELSE "S"

EdgeCost(a, b) == IF {a, b} \in PenaltyEdge THEN 2 ELSE 1

\* Entering a node on the other robot's planned route costs twice as much.
StepCost(a, b, penalized) ==
  IF b \in penalized THEN 2 * EdgeCost(a, b) ELSE EdgeCost(a, b)

-----------------------------------------------------------------------------
(* Routes.                                                                 *)

IsWalk(p) ==
  /\ p \in Seq(Node)
  /\ p # <<>>
  /\ \A i \in 1..(Len(p) - 1) : Adjacent(p[i], p[i + 1])

\* All simple walks with k edges, each grown from one with k - 1 edges.
Grow[k \in Nat] ==
  IF k = 0
    THEN {<<n>> : n \in Node}
    ELSE UNION { {Append(p, b) : b \in Neighbors(p[k]) \ Range(p)} : p \in Grow[k - 1] }

\* Grow makes no other walks: the filter states what they are.
SimpleWalks ==
  {p \in UNION {Grow[k] : k \in 0..(Cardinality(Node) - 1)} : IsWalk(p) /\ IsInjective(p)}

WalksBetween ==
  [ends \in Node \X Node |->
     {p \in SimpleWalks : p[1] = ends[1] /\ Last(p) = ends[2]}]

WalkCost(p, penalized) ==
  LET upTo[i \in 1..Len(p)] ==
        IF i = 1 THEN 0 ELSE upTo[i - 1] + StepCost(p[i - 1], p[i], penalized)
  IN  upTo[Len(p)]

\* The routes Router.shortest_path may return; {} where it returns None.
CheapestRoutes(start, goal, blocked, blockedEdges, penalized) ==
  LET avoid == blocked \ {start, goal}
      open  == {p \in WalksBetween[<<start, goal>>] :
                  /\ Range(p) \cap avoid = {}
                  /\ \A i \in 1..(Len(p) - 1) : {p[i], p[i + 1]} \notin blockedEdges}
      cost  == [p \in open |-> WalkCost(p, penalized)]
  IN  {p \in open : \A q \in open : cost[p] <= cost[q]}

\* The route p keeps its direction from index i to index j.
IsStraight(p, i, j) ==
  \A k \in (i + 1)..(j - 1) : Dir(p[k - 1], p[k]) = Dir(p[k], p[k + 1])

\* The last index of the straight run of p that starts at index i.
RunEnd(p, i) == Max({j \in i..Len(p) : IsStraight(p, i, j)})

=============================================================================
