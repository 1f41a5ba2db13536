--------------------------- MODULE TrafficProofs ---------------------------
(***************************************************************************)
(* Proofs about the traffic manager, for any graph and any set of robots:  *)
(* the types, the agreement of reservations and windows, the waiting marks *)
(* the deadlock sweep relies on, windows that meet no node twice, blocked  *)
(* nodes that are announced, and the refinement of the interlocking.       *)
(*                                                                         *)
(* Core, WaitingIsStuck and EarlyHasNext are inductive together.  The      *)
(* lemmas follow the layers of the code: routes, the four primitives that  *)
(* write the tables (_install_route, reserve_forward, _advance and the     *)
(* block list), the callbacks, and the steps.                              *)
(***************************************************************************)
EXTENDS Traffic, Extrema, SequenceTheorems

-----------------------------------------------------------------------------
(* Routes.                                                                 *)

\* The nodes of p follow edges of the graph.
FollowsEdges(p) == \A k \in 1..(Len(p) - 1) : Adjacent(p[k], p[k + 1])

\* No node occurs twice in p from index i to index j.
NoneTwice(p, i, j) == \A x, y \in i..j : p[x] = p[y] => x = y

\* A route is a non-empty walk from start to goal.
IsRoute(p, start, goal) ==
  /\ p \in Seq(Node) /\ p # <<>>
  /\ p[1] = start /\ p[Len(p)] = goal
  /\ FollowsEdges(p)

\* The walks between two nodes are routes between them, without a cycle.
LEMMA WalksAreRoutes ==
  ASSUME NEW start \in Node, NEW goal \in Node, NEW p \in WalksBetween[<<start, goal>>]
  PROVE  IsRoute(p, start, goal) /\ NoneTwice(p, 1, Len(p))
<1>1. p \in Seq(Node) /\ IsWalk(p) /\ p[1] = start /\ Last(p) = goal /\ IsInjective(p)
  BY DEF WalksBetween, SimpleWalks, IsWalk
<1>2. IsRoute(p, start, goal)
  BY <1>1 DEF IsRoute, IsWalk, FollowsEdges, Last
<1>3. NoneTwice(p, 1, Len(p))
  BY <1>1 DEF IsInjective, NoneTwice
<1> QED BY <1>2, <1>3

\* So is whatever the router returns.
LEMMA RouterReturnsRoutes ==
  ASSUME NEW start \in Node, NEW goal \in Node, NEW blocked, NEW edges, NEW penalized,
         NEW p \in CheapestRoutes(start, goal, blocked, edges, penalized)
  PROVE  IsRoute(p, start, goal)
<1>1. p \in WalksBetween[<<start, goal>>]
  BY DEF CheapestRoutes
<1> QED BY <1>1, WalksAreRoutes

\* An escape followed by a route from its end is a route of which the escape
\* is the beginning.
LEMMA JoinedRoute ==
  ASSUME NEW a \in Node, NEW b \in Node, NEW c \in Node, NEW p, NEW q,
         IsRoute(p, a, b), IsRoute(q, b, c)
  PROVE  /\ p \o Tail(q) \in Seq(Node) /\ p \o Tail(q) # <<>>
         /\ (p \o Tail(q))[1] = a
         /\ FollowsEdges(p \o Tail(q))
         /\ Len(p) \in Nat /\ Len(p) <= Len(p \o Tail(q))
         /\ \A k \in 1..Len(p) : (p \o Tail(q))[k] = p[k]
<1>1. /\ p \in Seq(Node) /\ q \in Seq(Node) /\ p # <<>> /\ q # <<>> /\ p[1] = a
      /\ p[Len(p)] = q[1] /\ FollowsEdges(p) /\ FollowsEdges(q)
  BY DEF IsRoute
<1>2. /\ Tail(q) \in Seq(Node) /\ Len(Tail(q)) = Len(q) - 1 /\ Len(q) \in Nat
      /\ \A k \in 1..Len(Tail(q)) : Tail(q)[k] = q[k + 1]
  BY <1>1
<1>3. /\ p \o Tail(q) \in Seq(Node) /\ Len(p \o Tail(q)) = Len(p) + Len(Tail(q))
      /\ Len(p) \in Nat /\ Len(p) >= 1
  BY <1>1, <1>2
<1>4. \A k \in 1..Len(p) : (p \o Tail(q))[k] = p[k]
  BY <1>1, <1>2, <1>3
<1>5. \A k \in Len(p)..Len(p \o Tail(q)) : (p \o Tail(q))[k] = q[k - Len(p) + 1]
  <2> SUFFICES ASSUME NEW k \in Len(p)..Len(p \o Tail(q))
               PROVE  (p \o Tail(q))[k] = q[k - Len(p) + 1]
    OBVIOUS
  <2>1. CASE k = Len(p)
    BY <1>1, <1>3, <1>4, <2>1
  <2>2. CASE k > Len(p)
    <3>1. k - Len(p) \in 1..Len(Tail(q))
      BY <1>2, <1>3, <2>2
    <3>2. (p \o Tail(q))[k] = Tail(q)[k - Len(p)]
      BY <1>1, <1>2, <1>3, <2>2
    <3> QED BY <1>2, <3>1, <3>2
  <2> QED BY <1>3, <2>1, <2>2
<1>6. FollowsEdges(p \o Tail(q))
  <2> DEFINE j == p \o Tail(q)
  <2> SUFFICES ASSUME NEW k \in 1..(Len(j) - 1) PROVE Adjacent(j[k], j[k + 1])
    BY DEF FollowsEdges
  <2>1. CASE k < Len(p)
    <3>1. k \in 1..(Len(p) - 1) /\ k \in 1..Len(p) /\ k + 1 \in 1..Len(p)
      BY <1>3, <2>1
    <3>2. j[k] = p[k] /\ j[k + 1] = p[k + 1]
      BY <1>4, <3>1
    <3> QED BY <1>1, <3>1, <3>2 DEF FollowsEdges
  <2>2. CASE k >= Len(p)
    <3>1. /\ k \in Len(p)..Len(j) /\ k + 1 \in Len(p)..Len(j)
          /\ k - Len(p) + 1 \in 1..(Len(q) - 1) /\ k + 1 - Len(p) + 1 = (k - Len(p) + 1) + 1
      BY <1>2, <1>3, <2>2
    <3>2. j[k] = q[k - Len(p) + 1] /\ j[k + 1] = q[(k - Len(p) + 1) + 1]
      <4> HIDE DEF j
      <4> QED BY <1>5, <3>1 DEF j
    <3> QED BY <1>1, <3>1, <3>2 DEF FollowsEdges
  <2> QED BY <1>3, <2>1, <2>2
<1> QED BY <1>1, <1>2, <1>3, <1>4, <1>6

\* How far north, east, south or west a node is.
Along(dir, n) ==
  CASE dir = "E" -> Cell[n][1]
    [] dir = "W" -> - Cell[n][1]
    [] dir = "N" -> Cell[n][2]
    [] OTHER -> - Cell[n][2]

\* An edge leads one cell further in its own direction.
LEMMA EdgeLeadsOn ==
  ASSUME NEW a \in Node, NEW b \in Node, Adjacent(a, b)
  PROVE  Along(Dir(a, b), b) = Along(Dir(a, b), a) + 1
<1>1. Cell[a][1] \in Int /\ Cell[a][2] \in Int /\ Cell[b][1] \in Int /\ Cell[b][2] \in Int
  BY GraphAssumption
<1>2. CASE Dx(a, b) = 1 /\ Dy(a, b) = 0
  BY <1>1, <1>2 DEF Dir, Abs, Along, Dx, Dy
<1>3. CASE Dx(a, b) = -1 /\ Dy(a, b) = 0
  BY <1>1, <1>3 DEF Dir, Abs, Along, Dx, Dy
<1>4. CASE Dx(a, b) = 0 /\ Dy(a, b) = 1
  BY <1>1, <1>4 DEF Dir, Abs, Along, Dx, Dy
<1>5. CASE Dx(a, b) = 0 /\ Dy(a, b) = -1
  BY <1>1, <1>5 DEF Dir, Abs, Along, Dx, Dy
<1> QED BY <1>1, <1>2, <1>3, <1>4, <1>5 DEF Adjacent, Abs, Dx, Dy

\* A straight run leads one cell further in the direction of its first edge with
\* each of its edges.
LEMMA StraightLeadsOn ==
  ASSUME NEW p \in Seq(Node), FollowsEdges(p), NEW i \in 1..Len(p), NEW j \in 1..Len(p),
         IsStraight(p, i, j), NEW dir, dir = Dir(p[i], p[i + 1])
  PROVE  /\ \A k \in i..(j - 1) : Dir(p[k], p[k + 1]) = dir
         /\ \A k \in i..j : Along(dir, p[k]) = Along(dir, p[i]) + (k - i)
<1>1. i \in Nat /\ j \in Nat /\ i >= 1 /\ j <= Len(p) /\ Len(p) \in Nat
  OBVIOUS
<1>0. dir \in {"E", "W", "N", "S"}
  BY DEF Dir
<1>2. \A k \in i..(j - 1) : Dir(p[k], p[k + 1]) = dir
  <2> DEFINE S == {m \in Int : Dir(p[m], p[m + 1]) = dir}
  <2>1. i \in S
    BY <1>1
  <2>2. ASSUME NEW k \in i..((j - 1) - 1), k \in S PROVE k + 1 \in S
    <3>1. k + 1 \in (i + 1)..(j - 1) /\ (k + 1) - 1 = k
      BY <1>1
    <3>2. Dir(p[k], p[k + 1]) = Dir(p[k + 1], p[(k + 1) + 1])
      BY <3>1 DEF IsStraight
    <3> QED BY <1>1, <2>2, <3>2
  <2>3. i \in Int /\ j - 1 \in Int
    BY <1>1
  <2> HIDE DEF S
  <2>4. \A k \in i..(j - 1) : k \in S
    BY <2>1, <2>2, <2>3, Upwards
  <2> QED BY <2>4 DEF S
<1>3. \A k \in i..j : Along(dir, p[k]) = Along(dir, p[i]) + (k - i)
  <2> DEFINE S == {m \in i..j : Along(dir, p[m]) = Along(dir, p[i]) + (m - i)}
  <2>0. \A m \in 1..Len(p) : p[m] \in Node
    BY <1>1
  <2>a. \A n \in Node : Along(dir, n) \in Int
    BY <1>0, GraphAssumption DEF Along
  <2>1. CASE i <= j
    <3>1. i \in S
      BY <1>1, <2>0, <2>a, <2>1
    <3>2. ASSUME NEW k \in i..(j - 1), k \in S PROVE k + 1 \in S
      <4>1. /\ p[k] \in Node /\ p[k + 1] \in Node /\ p[i] \in Node /\ Adjacent(p[k], p[k + 1])
            /\ Dir(p[k], p[k + 1]) = dir
        BY <1>1, <1>2, <2>0 DEF FollowsEdges
      <4>2. Along(dir, p[k + 1]) = Along(dir, p[k]) + 1
        BY <4>1, EdgeLeadsOn
      <4>3. /\ Along(dir, p[k]) = Along(dir, p[i]) + (k - i) /\ Along(dir, p[i]) \in Int
            /\ k \in Int /\ k + 1 \in i..j
        BY <1>1, <2>a, <3>2, <4>1
      <4>4. Along(dir, p[k + 1]) = Along(dir, p[i]) + ((k + 1) - i)
        BY <1>1, <4>2, <4>3
      <4> QED BY <4>3, <4>4
    <3>3. i \in Int /\ j \in Int
      BY <1>1
    <3> HIDE DEF S
    <3>4. \A k \in i..j : k \in S
      BY <3>1, <3>2, <3>3, Upwards
    <3> QED BY <3>4 DEF S
  <2>2. CASE ~ (i <= j)
    BY <1>1, <2>2
  <2> QED BY <2>1, <2>2
<1> QED BY <1>2, <1>3

\* So it does not come back to a node.
LEMMA StraightMeetsNoneTwice ==
  ASSUME NEW p \in Seq(Node), FollowsEdges(p), NEW i \in 1..Len(p), NEW j \in 1..Len(p),
         IsStraight(p, i, j)
  PROVE  NoneTwice(p, i, j)
<1> DEFINE dir == Dir(p[i], p[i + 1])
<1>1. i \in Nat /\ j \in Nat
  OBVIOUS
<1>2. \A k \in i..j : Along(dir, p[k]) = Along(dir, p[i]) + (k - i)
  BY StraightLeadsOn
<1>3. Along(dir, p[i]) \in Int
  BY GraphAssumption DEF Along
<1> HIDE DEF dir
<1>4. ASSUME NEW x \in i..j, NEW y \in i..j, p[x] = p[y] PROVE x = y
  BY <1>1, <1>2, <1>3, <1>4
<1> QED BY <1>4 DEF NoneTwice

\* The straight run from an index of a route ends within the route.
LEMMA RunIsStraight ==
  ASSUME NEW p \in Seq(Node), NEW i \in 1..Len(p)
  PROVE  /\ RunEnd(p, i) \in i..Len(p) /\ IsStraight(p, i, RunEnd(p, i))
         /\ i + 1 <= Len(p) => i + 1 <= RunEnd(p, i)
         /\ \A j \in i..Len(p) : IsStraight(p, i, j) => j <= RunEnd(p, i)
<1> DEFINE S == {j \in i..Len(p) : IsStraight(p, i, j)}
<1>1. i \in S
  BY DEF IsStraight
<1>2. S \in SUBSET (i..Len(p)) /\ S # {} /\ i \in Int /\ Len(p) \in Int
  BY <1>1
<1> HIDE DEF S
<1>3. Max(S) \in S /\ \A x \in S : Max(S) >= x
  BY <1>2, MaxOfBounded, Zenon
<1>4. i + 1 <= Len(p) => i + 1 \in S
  BY DEF S, IsStraight
<1>5. i + 1 <= Len(p) => i + 1 <= Max(S)
  <2>1. \A x \in S : x \in i..Len(p)
    BY <1>2
  <2>2. Max(S) \in i..Len(p)
    BY <1>3, <2>1
  <2> QED BY <1>3, <1>4, <2>2
<1>6. \A j \in i..Len(p) : IsStraight(p, i, j) => j <= Max(S)
  <2> SUFFICES ASSUME NEW j \in i..Len(p), IsStraight(p, i, j) PROVE j <= Max(S)
    OBVIOUS
  <2>1. j \in S
    BY DEF S
  <2>2. \A x \in S : x \in i..Len(p)
    BY <1>2
  <2>3. Max(S) \in i..Len(p)
    BY <1>3, <2>2
  <2>4. Max(S) >= j
    BY <1>3, <2>1
  <2> QED BY <2>3, <2>4
<1> QED BY <1>3, <1>5, <1>6 DEF S, RunEnd

-----------------------------------------------------------------------------
(* The tables.                                                             *)

\* A route follows the edges of the graph, and meets no node twice on its
\* escape and in its window.
RouteOK(st) ==
  /\ FollowsEdges(st.route)
  /\ st.escape_end <= Len(st.route) /\ NoneTwice(st.route, 1, st.escape_end)
  /\ NoneTwice(st.route, st.index, st.reserved_end)

\* Every blocked node is announced.
Shown(s) == s.blocked \subseteq s.announced

\* The part of the invariant that speaks of the manager alone.
Core(s) ==
  /\ s \in Manager
  /\ WindowInRoute(s) /\ ReservedIsWindow(s) /\ Shown(s)
  /\ \A r \in Robot : RouteOK(s.robots[r])

\* A truth value, by a name of its own: the provers treat a variable of BOOLEAN
\* as a formula, and then do not match it with a field of a record.
IsFlag(b) == b \in BOOLEAN

\* t is s after an operation on behalf of r: the other robots are as before.
OnlyFor(s, t, r) == \A q \in Robot \ {r} : t.robots[q] = s.robots[q]

\* The current node and the goal of a robot with a route are nodes, and so is
\* the node after the current one.
LEMMA NodesOfRoute ==
  ASSUME NEW s, Core(s), NEW r \in Robot, HasRoute(s.robots[r])
  PROVE  LET st == s.robots[r]
         IN  /\ st \in RobotState
             /\ st.index \in 1..Len(st.route) /\ Len(st.route) \in Nat
             /\ st.reserved_end \in st.index..Len(st.route)
             /\ CurrentNode(st) \in Node
             /\ Goal(st) \in Node
             /\ NextNode(st) \subseteq Node
<1> DEFINE st == s.robots[r]
<1>1. st \in RobotState
  BY DEF Core, Manager
<1>2. 1 <= st.index /\ st.index <= st.reserved_end /\ st.reserved_end <= Len(st.route)
  BY DEF Core, WindowInRoute, HasRoute, NoState
<1>3. st.index \in Nat /\ st.reserved_end \in Nat /\ st.route \in Seq(Node) /\ Len(st.route) \in Nat
  BY <1>1 DEF RobotState
<1>4. \A i \in 1..Len(st.route) : st.route[i] \in Node
  BY <1>3
<1> HIDE DEF st
<1>5. CurrentNode(st) \in Node /\ Goal(st) \in Node
  BY <1>2, <1>3, <1>4 DEF CurrentNode, Goal, Last
<1>6. NextNode(st) \subseteq Node
  BY <1>2, <1>3, <1>4 DEF NextNode, AtEnd
<1> QED BY <1>1, <1>2, <1>3, <1>5, <1>6 DEF st

\* An operation for r that gives its window exactly the nodes reserved for it,
\* and does not touch the others' reservations, keeps the tables in order.
LEMMA CoreStep ==
  ASSUME NEW s, Core(s), NEW r \in Robot, NEW t \in Manager, OnlyFor(s, t, r),
         1 <= t.robots[r].index,
         t.robots[r].index <= t.robots[r].reserved_end,
         t.robots[r].reserved_end <= Len(t.robots[r].route),
         \A n \in Node : t.reservations[n] = r <=> n \in Window(t.robots[r]),
         \A n \in Node, q \in Robot \ {r} : t.reservations[n] = q <=> s.reservations[n] = q,
         RouteOK(t.robots[r]), Shown(t)
  PROVE  Core(t)
<1>1. WindowInRoute(t)
  BY DEF Core, WindowInRoute, OnlyFor
<1>2. ReservedIsWindow(t)
  <2> SUFFICES ASSUME NEW q \in Robot, NEW n \in Node
               PROVE  t.reservations[n] = q <=> n \in Window(t.robots[q])
    BY DEF ReservedIsWindow
  <2>1. CASE q = r
    BY <2>1
  <2>2. CASE q # r
    BY <2>2 DEF Core, ReservedIsWindow, OnlyFor
  <2> QED BY <2>1, <2>2
<1>3. \A q \in Robot : RouteOK(t.robots[q])
  BY DEF Core, OnlyFor
<1> QED BY <1>1, <1>2, <1>3 DEF Core

\* Changing the block lists does not disturb the tables.
LEMMA CoreSame ==
  ASSUME NEW s, Core(s), NEW t \in Manager, Shown(t),
         t.robots = s.robots, t.reservations = s.reservations
  PROVE  Core(t)
  BY DEF Core, WindowInRoute, ReservedIsWindow

\* Nor does any other change of a robot's state that keeps its window.
LEMMA CoreMark ==
  ASSUME NEW s, Core(s), NEW r \in Robot, HasRoute(s.robots[r]), NEW new \in RobotState,
         new.route = s.robots[r].route, new.index = s.robots[r].index,
         new.reserved_end = s.robots[r].reserved_end,
         new.escape_end = s.robots[r].escape_end,
         NEW t \in Manager, OnlyFor(s, t, r), t.robots[r] = new,
         t.reservations = s.reservations, Shown(t)
  PROVE  Core(t)
<1>1. \A n \in Node : t.reservations[n] = r <=> n \in Window(t.robots[r])
  <2>1. Window(new) = Window(s.robots[r])
    BY DEF Window
  <2> QED BY <2>1 DEF Core, ReservedIsWindow
<1>2. \A n \in Node, q \in Robot \ {r} : t.reservations[n] = q <=> s.reservations[n] = q
  OBVIOUS
<1>3. /\ 1 <= t.robots[r].index
      /\ t.robots[r].index <= t.robots[r].reserved_end
      /\ t.robots[r].reserved_end <= Len(t.robots[r].route)
  BY NodesOfRoute
<1>4. RouteOK(t.robots[r])
  BY DEF Core, RouteOK
<1>5. Shown(t)
  OBVIOUS
<1> QED BY ONLY r \in Robot, Core(s), t \in Manager, OnlyFor(s, t, r), <1>1, <1>2, <1>3, <1>4,
                <1>5, CoreStep

\* _install_route: the robot gives back what it had and holds the start.
LEMMA InstallKeepsCore ==
  ASSUME NEW s, Core(s), NEW r \in Robot, NEW p, p \in Seq(Node), p # <<>>, FollowsEdges(p),
         FreeFor(s, p[1], r), NEW laden, IsFlag(laden), NEW t, t = InstallRoute(s, r, p, laden)
  PROVE  /\ Core(t) /\ OnlyFor(s, t, r)
         /\ t.robots[r] = [route |-> p, index |-> 1, reserved_end |-> 1, laden |-> laden,
                           waiting |-> FALSE, escape_end |-> 0]
<1> DEFINE st == [route |-> p, index |-> 1, reserved_end |-> 1, laden |-> laden,
                  waiting |-> FALSE, escape_end |-> 0]
           R == [n \in Node |-> IF n = p[1] THEN r
                                ELSE IF s.reservations[n] = r THEN NoRobot
                                ELSE s.reservations[n]]
<1>1. s \in Manager
  BY DEF Core
<1>2. st \in RobotState /\ R \in [Node -> Robot \cup {NoRobot}] /\ Len(p) \in Nat /\ Len(p) >= 1
  BY <1>1 DEF RobotState, Manager, IsFlag
<1>3. p[1] \in Node
  BY <1>2
<1>4. t = [s EXCEPT !.robots = [s.robots EXCEPT ![r] = st], !.reservations = R]
  BY DEF InstallRoute
<1> HIDE DEF st, R
<1>5. /\ t \in Manager /\ t.robots = [s.robots EXCEPT ![r] = st]
      /\ t.reservations = R /\ t.blocked = s.blocked /\ t.announced = s.announced
  <2>1. st \in RobotState /\ R \in [Node -> Robot \cup {NoRobot}]
    BY <1>2
  <2> QED BY ONLY r \in Robot, <1>1, <2>1, <1>4 DEF Manager
<1>6. t.robots[r] = st /\ OnlyFor(s, t, r)
  BY <1>1, <1>5 DEF OnlyFor, Manager
<1>7. Window(st) = {p[1]}
  BY DEF Window, st
<1>8. \A n \in Node : t.reservations[n] = r <=> n \in Window(t.robots[r])
  BY <1>5, <1>6, <1>7, RobotAssumption DEF R, NoRobot
<1>9. \A n \in Node, q \in Robot \ {r} : t.reservations[n] = q <=> s.reservations[n] = q
  BY <1>3, <1>5, RobotAssumption DEF R, NoRobot, FreeFor
<1>10. /\ 1 <= t.robots[r].index
       /\ t.robots[r].index <= t.robots[r].reserved_end
       /\ t.robots[r].reserved_end <= Len(t.robots[r].route)
  BY <1>2, <1>6 DEF st
<1>11. Core(t)
  <2>1. t \in Manager /\ Shown(t)
    BY <1>5 DEF Core, Shown
  <2>2. OnlyFor(s, t, r)
    BY <1>6
  <2>3. RouteOK(t.robots[r])
    BY <1>2, <1>6 DEF st, RouteOK, NoneTwice
  <2> QED BY ONLY r \in Robot, Core(s), <2>1, <2>2, <2>3, <1>8, <1>9, <1>10, CoreStep
<1> QED BY <1>5, <1>6, <1>11 DEF st

\* What reserve_forward adds to the window: nodes that are free for the robot.
LEMMA ReserveEndBounds ==
  ASSUME NEW s, Core(s), NEW r \in Robot, HasRoute(s.robots[r]), NEW limit
  PROVE  LET st == s.robots[r]
             end == ReserveEnd(s, r, limit)
         IN  /\ end \in st.reserved_end..Len(st.route)
             /\ \A j \in (st.reserved_end + 1)..end : j <= limit /\ FreeFor(s, st.route[j], r)
<1> DEFINE st == s.robots[r]
           S == {i \in st.reserved_end..Len(st.route) :
                   \A j \in (st.reserved_end + 1)..i :
                     /\ j <= limit
                     /\ st.route[j] \notin s.blocked
                     /\ FreeFor(s, st.route[j], r)}
<1>1. st.reserved_end \in Nat /\ Len(st.route) \in Nat /\ st.reserved_end <= Len(st.route)
  BY NodesOfRoute
<1>2. S \in SUBSET (st.reserved_end..Len(st.route))
  OBVIOUS
<1>3. S # {}
  <2>1. st.reserved_end \in S
    BY <1>1
  <2> QED BY <2>1
<1>4. st.reserved_end \in Int /\ Len(st.route) \in Int
  BY <1>1
<1>5. ReserveEnd(s, r, limit) = Max(S)
  BY DEF ReserveEnd
<1> HIDE DEF S, st
<1>6. Max(S) \in S
  BY <1>2, <1>3, <1>4, MaxOfBounded, Zenon
<1> QED BY <1>5, <1>6 DEF S, st

\* reserve_forward: the window grows at its far end.
LEMMA ReserveKeepsCore ==
  ASSUME NEW s, Core(s), NEW r \in Robot, HasRoute(s.robots[r]),
         NEW t, t = ReserveForward(s, r)
  PROVE  LET st == s.robots[r]
             end == t.robots[r].reserved_end
         IN  /\ Core(t) /\ OnlyFor(s, t, r) /\ t.blocked = s.blocked
             /\ t.announced = s.announced
             /\ end \in st.reserved_end..Len(st.route)
             /\ t.robots[r] = [st EXCEPT !.reserved_end = end]
<1> DEFINE st == s.robots[r]
           end == ReserveEnd(s, r, ReserveLimit(s, r))
           new == [st EXCEPT !.reserved_end = end]
           got == {st.route[j] : j \in (st.reserved_end + 1)..end}
           R == [n \in Node |-> IF n \in got THEN r ELSE s.reservations[n]]
           h == IF st.escape_end = 0 /\ ~HoldActive(s, r) THEN NoHold ELSE s.hold[r]
<1>1. s \in Manager /\ st \in RobotState /\ st.reserved_end \in Nat /\ Len(st.route) \in Nat
      /\ st.index \in Nat /\ 1 <= st.index /\ st.index <= st.reserved_end
  BY NodesOfRoute DEF Core
<1>2. /\ end \in st.reserved_end..Len(st.route)
      /\ \A j \in (st.reserved_end + 1)..end :
           j <= ReserveLimit(s, r) /\ FreeFor(s, st.route[j], r)
  BY ReserveEndBounds
<1>a. NoneTwice(st.route, st.index, end)
  <2> HIDE DEF end
  <2>1. CASE end = st.reserved_end
    BY <2>1 DEF Core, RouteOK
  <2>2. CASE end > st.reserved_end
    <3>1. end <= ReserveLimit(s, r)
      BY <1>1, <1>2, <2>2
    <3>2. FollowsEdges(st.route) /\ NoneTwice(st.route, 1, st.escape_end) /\ st.escape_end \in Nat
      BY <1>1 DEF Core, RouteOK, RobotState
    <3>3. CASE st.escape_end # 0
      <4>1. end <= st.escape_end
        BY <3>1, <3>3 DEF ReserveLimit
      <4> QED BY <1>1, <1>2, <3>2, <4>1 DEF NoneTwice
    <3>4. CASE st.escape_end = 0 /\ HoldActive(s, r)
      <4>1. ReserveLimit(s, r) = st.index
        BY <3>4 DEF ReserveLimit
      <4> QED BY <1>1, <1>2, <2>2, <3>1, <4>1
    <3>5. CASE st.escape_end = 0 /\ ~HoldActive(s, r)
      <4>1. end <= RunEnd(st.route, st.index)
        BY <3>1, <3>5 DEF ReserveLimit
      <4>2. st.route \in Seq(Node) /\ st.index \in 1..Len(st.route)
        BY <1>1, <1>2 DEF RobotState
      <4> HIDE DEF st
      <4>3. /\ RunEnd(st.route, st.index) \in st.index..Len(st.route)
            /\ IsStraight(st.route, st.index, RunEnd(st.route, st.index))
        BY <4>2, RunIsStraight
      <4>4. RunEnd(st.route, st.index) \in 1..Len(st.route)
        BY <1>1, <4>3
      <4>5. NoneTwice(st.route, st.index, RunEnd(st.route, st.index))
        BY <3>2, <4>2, <4>3, <4>4, StraightMeetsNoneTwice
      <4> QED BY <1>1, <1>2, <4>1, <4>3, <4>5 DEF NoneTwice
    <3> QED BY <3>3, <3>4, <3>5
  <2> QED BY <1>1, <1>2, <2>1, <2>2
<1> HIDE DEF st, end
<1>3. new \in RobotState /\ end \in Nat
  BY <1>1, <1>2 DEF RobotState
<1>4. R \in [Node -> Robot \cup {NoRobot}] /\ h \in (Robot \X Node) \cup {NoHold}
  BY <1>1 DEF Manager
<1>5. t = [s EXCEPT !.robots = [s.robots EXCEPT ![r] = new], !.reservations = R,
                    !.hold = [s.hold EXCEPT ![r] = h]]
  BY <1>1 DEF ReserveForward, Manager, st, end
<1> HIDE DEF new, R, h
<1>6. /\ t \in Manager /\ t.robots = [s.robots EXCEPT ![r] = new] /\ t.reservations = R
      /\ t.blocked = s.blocked /\ t.announced = s.announced
  <2>1. s \in Manager /\ new \in RobotState
    BY <1>1, <1>3
  <2> QED BY ONLY r \in Robot, <1>4, <1>5, <2>1 DEF Manager
<1>7. t.robots[r] = new /\ OnlyFor(s, t, r)
  BY <1>1, <1>6 DEF OnlyFor, Manager
<1>8. /\ new.route = st.route /\ new.index = st.index /\ new.reserved_end = end
      /\ new.escape_end = st.escape_end
  BY <1>1 DEF new, RobotState
<1>9. Window(new) = Window(st) \cup got
  <2>1. st.index..end = (st.index..st.reserved_end) \cup ((st.reserved_end + 1)..end)
    BY <1>1, <1>2
  <2> QED BY <1>8, <2>1 DEF Window
<1>10. \A n \in Node : s.reservations[n] = r <=> n \in Window(st)
  BY DEF Core, ReservedIsWindow, st
<1>11. \A n \in Node : t.reservations[n] = r <=> n \in Window(t.robots[r])
  BY <1>6, <1>7, <1>9, <1>10 DEF R
<1>12. \A n \in Node, q \in Robot \ {r} : t.reservations[n] = q <=> s.reservations[n] = q
  BY <1>2, <1>6, RobotAssumption DEF R, NoRobot, FreeFor
<1>13. /\ 1 <= t.robots[r].index
       /\ t.robots[r].index <= t.robots[r].reserved_end
       /\ t.robots[r].reserved_end <= Len(t.robots[r].route)
  BY <1>1, <1>2, <1>7, <1>8
<1>14. Core(t)
  <2>1. t \in Manager /\ Shown(t)
    BY <1>6 DEF Core, Shown
  <2>2. OnlyFor(s, t, r)
    BY <1>7
  <2>3. RouteOK(t.robots[r])
    <3>1. RouteOK(st)
      BY DEF Core, st
    <3> QED BY <1>a, <1>7, <1>8, <3>1 DEF RouteOK
  <2> QED BY ONLY r \in Robot, Core(s), <2>1, <2>2, <2>3, <1>11, <1>12, <1>13, CoreStep
<1> QED BY <1>2, <1>6, <1>7, <1>8, <1>14 DEF new, st

\* _advance: the robot is at a later node of its window, which loses the nodes
\* before it; they are given back, except those the window meets again.
LEMMA AdvanceKeepsCore ==
  ASSUME NEW s, Core(s), NEW r \in Robot, HasRoute(s.robots[r]),
         NEW i \in (s.robots[r].index + 1)..s.robots[r].reserved_end,
         NEW t, t = Advance(s, r, i)
  PROVE  /\ Core(t) /\ OnlyFor(s, t, r)
         /\ t.robots[r].route = s.robots[r].route
         /\ t.robots[r].index = i
         /\ t.robots[r].reserved_end = s.robots[r].reserved_end
         /\ t.robots[r].waiting = s.robots[r].waiting
<1> DEFINE st == s.robots[r]
           keep == {st.route[j] : j \in i..st.reserved_end}
           past == {st.route[j] : j \in 1..(i - 1)} \ keep
           new == [st EXCEPT !.index = i, !.escape_end = IF i >= @ THEN 0 ELSE @]
           R == [m \in Node |->
                   IF m \in past /\ s.reservations[m] = r THEN NoRobot ELSE s.reservations[m]]
<1>1. s \in Manager /\ st \in RobotState /\ st.reserved_end \in Nat /\ Len(st.route) \in Nat
      /\ st.index \in Nat /\ 1 <= st.index /\ st.reserved_end <= Len(st.route)
  BY NodesOfRoute DEF Core
<1>2. i \in Nat /\ st.index + 1 <= i /\ i <= st.reserved_end
  BY <1>1
<1>3. t = [s EXCEPT !.robots = [s.robots EXCEPT ![r] = new], !.reservations = R]
  BY <1>1 DEF Advance, Manager
<1> HIDE DEF st
<1>4. new \in RobotState
  BY <1>1, <1>2 DEF RobotState
<1>5. R \in [Node -> Robot \cup {NoRobot}]
  BY <1>1 DEF Manager
<1>6. /\ new.route = st.route /\ new.index = i /\ new.reserved_end = st.reserved_end
      /\ new.waiting = st.waiting /\ new.escape_end \in {0, st.escape_end}
  BY <1>1 DEF RobotState
<1> HIDE DEF new, R
<1>7. /\ t \in Manager /\ t.robots = [s.robots EXCEPT ![r] = new] /\ t.reservations = R
      /\ t.blocked = s.blocked /\ t.announced = s.announced
  <2>1. s \in Manager
    BY <1>1
  <2> QED BY ONLY r \in Robot, <1>3, <1>4, <1>5, <2>1 DEF Manager
<1>8. t.robots[r] = new /\ OnlyFor(s, t, r)
  BY <1>1, <1>7 DEF OnlyFor, Manager
<1>9. Window(new) = keep
  BY <1>6 DEF Window
<1>10. Window(st) \ past = keep
  <2>1. st.index..st.reserved_end = (st.index..(i - 1)) \cup (i..st.reserved_end)
    BY <1>1, <1>2
  <2>2. st.index..(i - 1) \subseteq 1..(i - 1)
    BY <1>1, <1>2
  <2> QED BY <2>1, <2>2 DEF Window
<1>11. \A n \in Node : s.reservations[n] = r <=> n \in Window(st)
  BY DEF Core, ReservedIsWindow, st
<1> HIDE DEF past, keep
<1>12. \A n \in Node : t.reservations[n] = r <=> n \in Window(t.robots[r])
  BY <1>7, <1>8, <1>9, <1>10, <1>11, RobotAssumption DEF R, NoRobot
<1>13. \A n \in Node, q \in Robot \ {r} : t.reservations[n] = q <=> s.reservations[n] = q
  BY <1>7, RobotAssumption DEF R, NoRobot
<1>14. /\ 1 <= t.robots[r].index
       /\ t.robots[r].index <= t.robots[r].reserved_end
       /\ t.robots[r].reserved_end <= Len(t.robots[r].route)
  BY <1>1, <1>2, <1>6, <1>8
<1>15. Core(t)
  <2>1. t \in Manager /\ Shown(t)
    BY <1>7 DEF Core, Shown
  <2>2. OnlyFor(s, t, r)
    BY <1>8
  <2>3. RouteOK(t.robots[r])
    <3>1. RouteOK(st)
      BY DEF Core, st
    <3>2. new.escape_end <= Len(st.route) /\ NoneTwice(st.route, 1, new.escape_end)
      BY <1>1, <1>6, <3>1 DEF RouteOK, NoneTwice
    <3>3. NoneTwice(st.route, i, st.reserved_end)
      BY <1>1, <1>2, <3>1 DEF RouteOK, NoneTwice
    <3> QED BY <1>6, <1>8, <3>1, <3>2, <3>3 DEF RouteOK
  <2> QED BY ONLY r \in Robot, Core(s), <2>1, <2>2, <2>3, <1>12, <1>13, <1>14, CoreStep
<1> QED BY <1>6, <1>8, <1>15 DEF st

-----------------------------------------------------------------------------
(* Operations.                                                             *)

\* t is s after an operation for r that left r with a route and, if r is marked
\* as waiting, with a used-up window.
Serves(s, t, r) ==
  /\ Core(t) /\ OnlyFor(s, t, r)
  /\ HasRoute(t.robots[r]) /\ StuckIfWaiting(t.robots[r])

\* The outcome o of an operation for r that changes nothing or puts r at n.
Placed(s, o, r, n) ==
  \/ o = Refused(s)
  \/ /\ o.ok = TRUE
     /\ Serves(s, o.s, r)
     /\ CurrentNode(o.s.robots[r]) = n
     /\ o.s.robots[r].index = 1

\* set_route either changes nothing or puts the robot at the start.
LEMMA SetRouteServes ==
  ASSUME NEW s, Core(s), NEW r \in Robot, NEW start \in Node, NEW goal \in Node,
         NEW laden, IsFlag(laden), NEW avoid, NEW edges,
         NEW o \in SetRoute(s, r, start, goal, laden, avoid, edges)
  PROVE  Placed(s, o, r, start)
<1> DEFINE routes == CheapestRoutes(start, goal, s.blocked \cup avoid, edges, Others(s, r))
<1>1. CASE routes = {} \/ ~FreeFor(s, start, r)
  BY <1>1 DEF SetRoute, Placed
<1>2. CASE routes # {} /\ FreeFor(s, start, r)
  <2>1. PICK p \in routes : o = Done(ReserveForward(InstallRoute(s, r, p, laden), r))
    BY <1>2 DEF SetRoute
  <2>2. IsRoute(p, start, goal)
    BY <2>1, RouterReturnsRoutes
  <2>3. p \in Seq(Node) /\ p # <<>> /\ p[1] = start /\ FollowsEdges(p)
    BY <2>2 DEF IsRoute
  <2> DEFINE u == InstallRoute(s, r, p, laden)
             t == ReserveForward(u, r)
  <2>4. o.ok = TRUE /\ o.s = t
    BY <2>1 DEF Done
  <2>5. FreeFor(s, p[1], r)
    BY <1>2, <2>3
  <2> HIDE DEF u, t
  <2>6. /\ Core(u) /\ OnlyFor(s, u, r)
        /\ u.robots[r] = [route |-> p, index |-> 1, reserved_end |-> 1, laden |-> laden,
                          waiting |-> FALSE, escape_end |-> 0]
    BY <2>3, <2>5, InstallKeepsCore DEF u
  <2>7. HasRoute(u.robots[r])
    BY <2>3, <2>6 DEF HasRoute
  <2>8. /\ Core(t) /\ OnlyFor(u, t, r)
        /\ t.robots[r] = [u.robots[r] EXCEPT !.reserved_end = t.robots[r].reserved_end]
    <3>1. Core(u)
      BY <2>6
    <3>2. t = ReserveForward(u, r)
      BY DEF t
    <3> QED BY ONLY r \in Robot, <2>7, <3>1, <3>2, ReserveKeepsCore
  <2>9. t.robots[r].route = p /\ t.robots[r].index = 1 /\ t.robots[r].waiting = FALSE
    BY <2>6, <2>8
  <2>10. OnlyFor(s, t, r)
    BY <2>6, <2>8 DEF OnlyFor
  <2>11. Serves(s, t, r) /\ CurrentNode(t.robots[r]) = start /\ t.robots[r].index = 1
    BY <2>3, <2>8, <2>9, <2>10 DEF Serves, HasRoute, StuckIfWaiting, CurrentNode
  <2> QED BY <2>4, <2>11 DEF Placed
<1> QED BY <1>1, <1>2

\* _yield_route either changes nothing or puts the robot at the start of its
\* escape, where it is.
LEMMA YieldRouteServes ==
  ASSUME NEW s, Core(s), NEW r \in Robot, NEW opponent \in Robot, HasRoute(s.robots[r]),
         NEW o \in YieldRoute(s, r, opponent)
  PROVE  Placed(s, o, r, CurrentNode(s.robots[r]))
<1> DEFINE st == s.robots[r]
           here == CurrentNode(st)
<1>1. st \in RobotState /\ here \in Node /\ Goal(st) \in Node /\ IsFlag(st.laden)
  BY NodesOfRoute DEF RobotState, IsFlag
<1>2. CASE EscapeRoutes(s, r, opponent) = {}
  BY <1>2 DEF YieldRoute, Placed
<1>3. CASE EscapeRoutes(s, r, opponent) # {}
  <2>1. PICK escape \in EscapeRoutes(s, r, opponent) : o \in YieldAlong(s, r, opponent, escape)
    BY <1>3 DEF YieldRoute
  <2>2. PICK n \in Node : escape \in WalksBetween[<<here, n>>]
    BY DEF EscapeRoutes
  <2>3. IsRoute(escape, here, n) /\ NoneTwice(escape, 1, Len(escape))
    BY <1>1, <2>2, WalksAreRoutes
  <2>4. Last(escape) = n
    BY <2>3 DEF IsRoute, Last
  <2> DEFINE tails == CheapestRoutes(Last(escape), Goal(st), s.blocked, {}, Others(s, r))
  <2>5. CASE tails = {} \/ ~FreeFor(s, here, r)
    BY <2>1, <2>5 DEF YieldAlong, Placed
  <2>6. CASE tails # {} /\ FreeFor(s, here, r)
    <3> DEFINE Moved(tail) ==
                 [InstallRoute(s, r, escape \o Tail(tail), st.laden)
                    EXCEPT !.robots[r].escape_end = Len(escape),
                           !.hold[r] = <<opponent, here>>]
    <3>1. PICK tail \in tails : o = Done(Moved(tail))
      BY <2>1, <2>6 DEF YieldAlong
    <3>2. IsRoute(tail, n, Goal(st))
      BY <1>1, <2>4, <3>1, RouterReturnsRoutes
    <3> DEFINE p == escape \o Tail(tail)
               u == InstallRoute(s, r, p, st.laden)
               t == Moved(tail)
    <3>3. /\ p \in Seq(Node) /\ p # <<>> /\ p[1] = here /\ FollowsEdges(p)
          /\ Len(escape) \in Nat /\ Len(escape) <= Len(p)
          /\ \A k \in 1..Len(escape) : p[k] = escape[k]
      <4>1. here \in Node /\ Goal(st) \in Node
        BY <1>1
      <4> HIDE DEF here, st
      <4>2. IsRoute(escape, here, n)
        BY <2>3
      <4>3. /\ escape \o Tail(tail) \in Seq(Node) /\ escape \o Tail(tail) # <<>>
            /\ (escape \o Tail(tail))[1] = here
            /\ FollowsEdges(escape \o Tail(tail))
            /\ Len(escape) \in Nat /\ Len(escape) <= Len(escape \o Tail(tail))
            /\ \A k \in 1..Len(escape) : (escape \o Tail(tail))[k] = escape[k]
        <5> HIDE DEF p, u, t, Moved, tails
        <5> QED BY ONLY n \in Node, <4>2, <3>2, <4>1, JoinedRoute
      <4> QED BY <4>3 DEF p
    <3>4. o.ok = TRUE /\ o.s = t
      BY <3>1 DEF Done
    <3>5. t = [u EXCEPT !.robots[r].escape_end = Len(escape), !.hold[r] = <<opponent, here>>]
      OBVIOUS
    <3>6. FreeFor(s, p[1], r)
      BY <2>6, <3>3
    <3> HIDE DEF p, u, t, Moved, st, here
    <3>7. /\ Core(u) /\ OnlyFor(s, u, r)
          /\ u.robots[r] = [route |-> p, index |-> 1, reserved_end |-> 1, laden |-> st.laden,
                            waiting |-> FALSE, escape_end |-> 0]
      BY <1>1, <3>3, <3>6, InstallKeepsCore DEF u
    <3> DEFINE new == [u.robots[r] EXCEPT !.escape_end = Len(escape)]
    <3>8. u \in Manager /\ u.robots[r] \in RobotState
      BY <3>7 DEF Core, Manager
    <3>9. t = [u EXCEPT !.robots = [u.robots EXCEPT ![r] = new],
                        !.hold = [u.hold EXCEPT ![r] = <<opponent, here>>]]
      BY <3>5, <3>8 DEF Manager
    <3>10. /\ new \in RobotState
           /\ new.route = p /\ new.index = 1 /\ new.reserved_end = 1 /\ new.waiting = FALSE
           /\ new.escape_end = Len(escape)
      <4>1. /\ u.robots[r].route = p /\ u.robots[r].index = 1 /\ u.robots[r].reserved_end = 1
            /\ u.robots[r].waiting = FALSE
        BY <3>7
      <4>2. Len(escape) \in Nat
        BY <3>3
      <4> QED BY ONLY <3>8, <4>1, <4>2 DEF RobotState
    <3>11. <<opponent, here>> \in Robot \X Node
      BY <1>1
    <3> HIDE DEF new
    <3>12. /\ t \in Manager /\ t.robots = [u.robots EXCEPT ![r] = new]
           /\ t.reservations = u.reservations
           /\ t.blocked = u.blocked /\ t.announced = u.announced
      <4>1. u \in Manager
        BY <3>8
      <4>2. new \in RobotState
        BY <3>10
      <4> QED BY ONLY r \in Robot, <3>9, <3>11, <4>1, <4>2 DEF Manager
    <3>13. t.robots[r] = new /\ OnlyFor(u, t, r)
      BY <3>8, <3>12 DEF OnlyFor, Manager
    <3>14. Window(new) = Window(u.robots[r])
      BY <3>7, <3>10 DEF Window
    <3>15. Core(t)
      <4>1. WindowInRoute(t)
        <5>1. Len(p) >= 1 /\ WindowInRoute(u)
          BY <3>3, <3>7 DEF Core
        <5> QED BY <3>10, <3>13, <5>1 DEF WindowInRoute, OnlyFor
      <4>2. \A q \in Robot : Window(t.robots[q]) = Window(u.robots[q])
        BY <3>13, <3>14 DEF OnlyFor
      <4>3. ReservedIsWindow(t)
        BY <3>7, <3>12, <4>2 DEF Core, ReservedIsWindow
      <4>4. RouteOK(new)
        <5>1. NoneTwice(p, 1, Len(escape))
          BY <2>3, <3>3 DEF NoneTwice
        <5> QED BY <3>3, <3>10, <5>1 DEF RouteOK, NoneTwice
      <4>5. \A q \in Robot : RouteOK(t.robots[q])
        BY <3>7, <3>13, <4>4 DEF Core, OnlyFor
      <4>6. Shown(t)
        BY <3>7, <3>12 DEF Core, Shown
      <4> QED BY <3>12, <4>1, <4>3, <4>5, <4>6 DEF Core
    <3>16. OnlyFor(s, t, r)
      BY <3>7, <3>13 DEF OnlyFor
    <3>17. Serves(s, t, r) /\ CurrentNode(t.robots[r]) = here /\ t.robots[r].index = 1
      BY <3>3, <3>10, <3>13, <3>15, <3>16 DEF Serves, HasRoute, StuckIfWaiting, CurrentNode
    <3> QED BY <3>4, <3>17 DEF here, st, Placed
  <2> QED BY <2>5, <2>6
<1> QED BY <1>2, <1>3

-----------------------------------------------------------------------------
(* Callbacks.                                                              *)

\* A turn of r: nothing happens to the routes, or r is served without getting
\* to a node outside its window.
Turn(s, t, r) ==
  /\ Core(t)
  /\ \/ t.robots = s.robots
     \/ Serves(s, t, r) /\ CurrentNode(t.robots[r]) \in Window(s.robots[r])

\* The current node of a robot is in its window.
LEMMA CurrentInWindow ==
  ASSUME NEW s, Core(s), NEW r \in Robot, HasRoute(s.robots[r])
  PROVE  CurrentNode(s.robots[r]) \in Window(s.robots[r])
<1> DEFINE st == s.robots[r]
<1>1. st.index \in st.index..st.reserved_end
  BY NodesOfRoute
<1> QED BY <1>1 DEF CurrentNode, Window

\* r is put at the start of another route, where it is.
Replanned(s, t, r) ==
  /\ Serves(s, t, r)
  /\ t.robots[r].index = 1
  /\ CurrentNode(t.robots[r]) = CurrentNode(s.robots[r])

\* A re-planning of r where it is, or nothing to the routes.
Stays(s, t, r) ==
  /\ Core(t)
  /\ \/ t.robots = s.robots
     \/ Replanned(s, t, r)

\* Re-planning a robot where it is, and nothing else, is a turn of it.
LEMMA StayIsTurn ==
  ASSUME NEW s, Core(s), NEW r \in Robot, HasRoute(s.robots[r]), NEW t, Stays(s, t, r)
  PROVE  Turn(s, t, r)
  BY CurrentInWindow DEF Turn, Stays, Replanned

\* A route request for the current node and the goal, whatever is to be avoided,
\* is refused or re-plans the robot where it is.
LEMMA ReplanAttempts ==
  ASSUME NEW s, Core(s), NEW r \in Robot, HasRoute(s.robots[r]), NEW avoid, NEW edges,
         NEW o \in SetRoute(s, r, CurrentNode(s.robots[r]), Goal(s.robots[r]),
                            s.robots[r].laden, avoid, edges)
  PROVE  o = Refused(s) \/ (o.ok = TRUE /\ Replanned(s, o.s, r))
<1> DEFINE st == s.robots[r]
<1>1. CurrentNode(st) \in Node
  BY NodesOfRoute
<1>2. Goal(st) \in Node
  BY NodesOfRoute
<1>3. IsFlag(st.laden)
  BY NodesOfRoute DEF RobotState, IsFlag
<1>4. Placed(s, o, r, CurrentNode(st))
  <2> HIDE DEF st
  <2>1. o \in SetRoute(s, r, CurrentNode(st), Goal(st), st.laden, avoid, edges)
    BY DEF st
  <2> QED BY ONLY Core(s), r \in Robot, <1>1, <1>2, <1>3, <2>1, SetRouteServes
<1> QED BY <1>4 DEF Placed, Replanned

\* A detour is one, and its reply tells the robot the new route.
LEMMA DetourReplans ==
  ASSUME NEW s, Core(s), NEW r \in Robot, HasRoute(s.robots[r]), NEW o \in Detour(s, r)
  PROVE  \/ o = Answer(s, Wait)
         \/ Replanned(s, o.s, r) /\ o.reply = RouteReply("reroute", o.s, r)
<1> DEFINE st == s.robots[r]
<1>1. PICK o1 \in SetRoute(s, r, CurrentNode(st), Goal(st), st.laden, {}, {}) :
        o = Answer(o1.s, IF o1.ok THEN RouteReply("reroute", o1.s, r) ELSE Wait)
  BY DEF Detour
<1>2. o1 = Refused(s) \/ (o1.ok = TRUE /\ Replanned(s, o1.s, r))
  BY ReplanAttempts, Zenon
<1>3. CASE o1 = Refused(s)
  BY <1>1, <1>3 DEF Refused
<1>4. CASE o1.ok = TRUE /\ Replanned(s, o1.s, r)
  BY <1>1, <1>4 DEF Answer
<1> QED BY <1>2, <1>3, <1>4

\* So a detour leaves the robot where it is.
LEMMA DetourStays ==
  ASSUME NEW s, Core(s), NEW r \in Robot, HasRoute(s.robots[r]), NEW o \in Detour(s, r)
  PROVE  Stays(s, o.s, r)
<1>1. o.s = s \/ Replanned(s, o.s, r)
  BY DetourReplans DEF Answer
<1> QED BY <1>1 DEF Stays, Replanned, Serves

\* Re-planning after an operation for r that only extended its window, marked
\* it as waiting or changed the block list is a turn.
LEMMA TurnAfter ==
  ASSUME NEW s, NEW u, NEW t, NEW r \in Robot, OnlyFor(s, u, r), Stays(u, t, r),
         HasRoute(u.robots[r]), StuckIfWaiting(u.robots[r]),
         CurrentNode(u.robots[r]) \in Window(s.robots[r])
  PROVE  Turn(s, t, r)
<1>1. CASE t.robots = u.robots
  BY <1>1 DEF Turn, Serves, OnlyFor, Stays
<1>2. CASE Replanned(u, t, r)
  BY <1>2 DEF Turn, Serves, OnlyFor, Replanned
<1> QED BY <1>1, <1>2 DEF Stays

\* k is the last index of the window on the straight run ahead.
EndsAt(st, k) ==
  /\ k \in (st.index + 1)..st.reserved_end
  /\ IsStraight(st.route, st.index, k)
  /\ \A j \in st.index..st.reserved_end : IsStraight(st.route, st.index, j) => j <= k

\* What next_segment hands out leads along the straight run ahead as far as the
\* window reaches.
LEMMA NextSegmentLeads ==
  ASSUME NEW st \in RobotState, 1 <= st.index, st.index < st.reserved_end,
         st.reserved_end <= Len(st.route)
  PROVE  /\ NextSegment(st) \in Seq(Node) /\ NextSegment(st) # <<>>
         /\ \E k \in Nat : EndsAt(st, k) /\ Last(NextSegment(st)) = st.route[k]
<1> DEFINE p == st.route
           i == st.index
           run == RunEnd(p, i)
           k == Min({st.reserved_end, run})
<1>1. /\ p \in Seq(Node) /\ Len(p) \in Nat /\ i \in Nat /\ st.reserved_end \in Nat
      /\ i \in 1..Len(p) /\ i + 1 <= Len(p)
  BY DEF RobotState
<1>2. /\ run \in i..Len(p) /\ IsStraight(p, i, run) /\ i + 1 <= run
      /\ \A j \in i..Len(p) : IsStraight(p, i, j) => j <= run
  BY <1>1, RunIsStraight
<1>3. k \in {st.reserved_end, run} /\ k <= st.reserved_end /\ k <= run
  <2>1. {st.reserved_end, run} \in SUBSET Nat
    BY <1>1, <1>2
  <2> HIDE DEF run
  <2> QED BY <2>1, MinOfNats
<1>4. k \in (i + 1)..st.reserved_end /\ k <= Len(p)
  BY <1>1, <1>2, <1>3
<1>5. IsStraight(p, i, k)
  <2> HIDE DEF k, run
  <2> QED BY <1>1, <1>2, <1>3, <1>4 DEF IsStraight
<1>6. NextSegment(st) = SubSeq(p, i + 1, k)
  BY DEF NextSegment
<1> HIDE DEF k, run
<1>9. \A j \in i..st.reserved_end : IsStraight(p, i, j) => j <= k
  BY <1>1, <1>2, <1>3
<1>10. EndsAt(st, k) /\ k \in Nat
  BY <1>1, <1>4, <1>5, <1>9 DEF EndsAt
<1>7. /\ SubSeq(p, i + 1, k) \in Seq(Node) /\ Len(SubSeq(p, i + 1, k)) = k - i
      /\ \A j \in 1..(k - i) : SubSeq(p, i + 1, k)[j] = p[i + j]
  <2>1. p \in Seq(Node) /\ i + 1 \in 1..(Len(p) + 1) /\ k \in i..Len(p)
    BY <1>1, <1>4
  <2> QED BY <1>1, <1>4, <2>1, SubSeqProperties, SMTT(30)
<1>8. SubSeq(p, i + 1, k) # <<>> /\ Last(SubSeq(p, i + 1, k)) = p[k]
  <2>1. k - i \in 1..(k - i) /\ i + (k - i) = k
    BY <1>1, <1>4
  <2> DEFINE q == SubSeq(p, i + 1, k)
  <2>2. q \in Seq(Node) /\ Len(q) = k - i /\ q[k - i] = p[k]
    BY <1>7, <2>1
  <2> HIDE DEF q
  <2>3. q # <<>> /\ Last(q) = p[k]
    BY <2>1, <2>2 DEF Last
  <2> QED BY <2>3 DEF q
<1> QED BY <1>6, <1>7, <1>8, <1>10

\* t is s after r was served and perhaps given more of its route.
Extended(s, t, r) ==
  /\ Serves(s, t, r)
  /\ t.robots[r].route = s.robots[r].route
  /\ t.robots[r].index = s.robots[r].index
  /\ s.robots[r].reserved_end <= t.robots[r].reserved_end

\* The state in which next_segment decides: the window is extended as far as it
\* can be, and the mark says whether that was of any use.
Marked(s, r) ==
  LET s1 == ReserveForward(s, r)
  IN  [s1 EXCEPT !.robots[r].waiting = (s1.robots[r].reserved_end <= s.robots[r].index)]

\* It extends the window, and is what the decision depends on.
LEMMA SegmentReserves ==
  ASSUME NEW s, Core(s), NEW r \in Robot, HasRoute(s.robots[r]), ~AtEnd(s.robots[r]),
         NEW s1, s1 = ReserveForward(s, r), NEW s2, s2 = Marked(s, r)
  PROVE  /\ Extended(s, s2, r)
         /\ s2.robots[r].index = s.robots[r].index
         /\ s2.robots[r].reserved_end = s1.robots[r].reserved_end
<1> DEFINE st == s.robots[r]
           stuck == s1.robots[r].reserved_end <= st.index
<1>1. /\ Core(s1) /\ OnlyFor(s, s1, r)
      /\ s1.robots[r].reserved_end \in st.reserved_end..Len(st.route)
      /\ s1.robots[r] = [st EXCEPT !.reserved_end = s1.robots[r].reserved_end]
  BY ONLY Core(s), r \in Robot, HasRoute(s.robots[r]), s1 = ReserveForward(s, r), ReserveKeepsCore
<1>2. /\ st \in RobotState /\ st.index \in Nat /\ st.reserved_end \in Nat
      /\ st.index <= st.reserved_end /\ Len(st.route) \in Nat
  BY NodesOfRoute
<1>3. /\ s1.robots[r].route = st.route /\ s1.robots[r].index = st.index
      /\ s1.robots[r].reserved_end \in Nat /\ st.index <= s1.robots[r].reserved_end
      /\ st.reserved_end <= s1.robots[r].reserved_end
  BY <1>1, <1>2 DEF RobotState
<1>4. HasRoute(s1.robots[r]) /\ stuck \in BOOLEAN
  BY <1>3 DEF HasRoute
<1>a. s2 = [s1 EXCEPT !.robots[r].waiting = stuck]
  BY DEF Marked
<1> HIDE DEF stuck
<1> DEFINE new == [s1.robots[r] EXCEPT !.waiting = stuck]
<1>5. s1.robots[r] \in RobotState
  BY <1>1 DEF Core, Manager
<1>6. /\ new \in RobotState /\ new.route = s1.robots[r].route /\ new.index = s1.robots[r].index
      /\ new.reserved_end = s1.robots[r].reserved_end /\ new.waiting = stuck
      /\ new.escape_end = s1.robots[r].escape_end
  BY <1>4, <1>5 DEF RobotState
<1>7. Core(s2) /\ OnlyFor(s1, s2, r) /\ s2.robots[r] = new
  <2>1. s2 = [s1 EXCEPT !.robots = [s1.robots EXCEPT ![r] = new]]
    BY <1>1, <1>a DEF Core, Manager
  <2> HIDE DEF new
  <2>2. /\ s2 \in Manager /\ OnlyFor(s1, s2, r) /\ s2.robots[r] = new
        /\ s2.reservations = s1.reservations /\ Shown(s2)
    BY <1>1, <1>6, <2>1 DEF Core, Manager, OnlyFor, Shown
  <2> QED BY ONLY r \in Robot, <1>1, <1>4, <1>6, <2>2, CoreMark
<1> HIDE DEF new
<1>8. /\ s2.robots[r].route = st.route /\ s2.robots[r].index = st.index
      /\ s2.robots[r].reserved_end = s1.robots[r].reserved_end
      /\ s2.robots[r].waiting = stuck
  BY <1>3, <1>6, <1>7
<1>9. OnlyFor(s, s2, r) /\ HasRoute(s2.robots[r])
  BY <1>1, <1>7, <1>8 DEF OnlyFor, HasRoute
<1>10. StuckIfWaiting(s2.robots[r])
  <2>1. s2.robots[r].waiting => s1.robots[r].reserved_end <= st.index
    BY <1>8, Zenon DEF stuck
  <2> QED BY <1>2, <1>3, <1>8, <2>1 DEF StuckIfWaiting, AtEnd
<1>11. Extended(s, s2, r)
  BY <1>3, <1>7, <1>8, <1>9, <1>10 DEF Extended, Serves
<1> QED BY <1>8, <1>11

\* At its goal a robot is told that it is done, and not marked as waiting.
LEMMA DoneExtends ==
  ASSUME NEW s, Core(s), NEW r \in Robot, HasRoute(s.robots[r]), AtEnd(s.robots[r]),
         NEW t, t = [s EXCEPT !.robots[r].waiting = FALSE]
  PROVE  Extended(s, t, r)
<1> DEFINE st == s.robots[r]
           new == [st EXCEPT !.waiting = FALSE]
<1>1. t = [s EXCEPT !.robots = [s.robots EXCEPT ![r] = new]]
  BY DEF Core, Manager
<1>2. st \in RobotState /\ st.reserved_end \in Nat
  BY NodesOfRoute DEF RobotState
<1>3. /\ new \in RobotState /\ new.route = st.route /\ new.index = st.index
      /\ new.reserved_end = st.reserved_end /\ new.waiting = FALSE
      /\ new.escape_end = st.escape_end
  BY <1>2 DEF RobotState
<1> HIDE DEF new
<1>4. /\ t \in Manager /\ OnlyFor(s, t, r) /\ t.robots[r] = new
      /\ t.reservations = s.reservations /\ Shown(t)
  <2>1. s \in Manager /\ Shown(s)
    BY DEF Core
  <2> QED BY ONLY r \in Robot, <1>1, <1>3, <2>1 DEF Manager, OnlyFor, Shown
<1>5. Core(t)
  BY ONLY Core(s), r \in Robot, HasRoute(s.robots[r]), <1>3, <1>4, CoreMark
<1> QED BY <1>2, <1>3, <1>4, <1>5 DEF Extended, Serves, HasRoute, StuckIfWaiting

\* A segment reply leads to the last node of the window on the straight run.
IsSegment(st, m) ==
  /\ m = [type |-> "segment", nodes |-> m.nodes]
  /\ m.nodes \in Seq(Node) /\ m.nodes # <<>>
  /\ \E k \in Nat : EndsAt(st, k) /\ Last(m.nodes) = st.route[k]

\* The answers of next_segment: the robot keeps its route and is told to wait,
\* that it is done or how far it may go; or it had used up its window, and is
\* re-planned where it is and told its new route.
LEMMA SegmentAnswers ==
  ASSUME NEW s, Core(s), NEW r \in Robot, NEW o \in OnSegmentRequest(s, r)
  PROVE  \/ ~HasRoute(s.robots[r]) /\ o = Answer(s, Wait)
         \/ /\ HasRoute(s.robots[r]) /\ Extended(s, o.s, r)
            /\ \/ o.reply = Wait
               \/ o.reply = [type |-> "done", nodes |-> <<>>]
               \/ IsSegment(o.s.robots[r], o.reply)
         \/ /\ HasRoute(s.robots[r]) /\ Replanned(s, o.s, r)
            /\ s.robots[r].reserved_end = s.robots[r].index
            /\ o.reply = RouteReply("reroute", o.s, r)
<1> DEFINE st == s.robots[r]
           s1 == ReserveForward(s, r)
           stuck == s1.robots[r].reserved_end <= st.index
           s2 == [s1 EXCEPT !.robots[r].waiting = stuck]
<1>1. CASE ~HasRoute(st)
  BY <1>1 DEF OnSegmentRequest
<1>2. CASE HasRoute(st) /\ AtEnd(st)
  <2>1. o = Answer([s EXCEPT !.robots[r].waiting = FALSE], [type |-> "done", nodes |-> <<>>])
    BY <1>2 DEF OnSegmentRequest
  <2>2. Extended(s, [s EXCEPT !.robots[r].waiting = FALSE], r)
    BY <1>2, DoneExtends
  <2> QED BY <1>2, <2>1, <2>2 DEF Answer
<1>3. CASE HasRoute(st) /\ ~AtEnd(st)
  <2>1. \/ ~stuck /\ o = Answer(s2, [type |-> "segment", nodes |-> NextSegment(s2.robots[r])])
        \/ stuck /\ o \in Detour(s2, r)
        \/ stuck /\ o = Answer(s2, Wait)
    BY <1>3, Zenon DEF OnSegmentRequest
  <2>2. Extended(s, s2, r) /\ (stuck <=> s2.robots[r].reserved_end <= s2.robots[r].index)
    <3> DEFINE a1 == s1
               a2 == s2
    <3>1. a1 = ReserveForward(s, r)
      OBVIOUS
    <3>2. a2 = Marked(s, r)
      BY DEF Marked
    <3>3. stuck <=> a1.robots[r].reserved_end <= s.robots[r].index
      OBVIOUS
    <3> HIDE DEF a1, a2, stuck
    <3>4. HasRoute(s.robots[r]) /\ ~AtEnd(s.robots[r])
      BY <1>3
    <3>5. /\ Extended(s, a2, r) /\ a2.robots[r].index = s.robots[r].index
          /\ a2.robots[r].reserved_end = a1.robots[r].reserved_end
      BY ONLY Core(s), r \in Robot, <3>1, <3>2, <3>4, SegmentReserves
    <3> QED BY <3>3, <3>5 DEF a2
  <2>3. /\ s2.robots[r] \in RobotState /\ s2.robots[r].index \in Nat
        /\ s2.robots[r].reserved_end \in Nat /\ 1 <= s2.robots[r].index
        /\ s2.robots[r].index <= s2.robots[r].reserved_end
        /\ s2.robots[r].reserved_end <= Len(s2.robots[r].route)
    <3>1. Core(s2) /\ HasRoute(s2.robots[r])
      BY <2>2 DEF Extended, Serves
    <3> DEFINE x == s2.robots[r]
    <3>2. /\ x \in RobotState /\ x.index \in 1..Len(x.route) /\ Len(x.route) \in Nat
          /\ x.reserved_end \in x.index..Len(x.route)
      BY ONLY r \in Robot, <3>1, NodesOfRoute
    <3> HIDE DEF x
    <3>3. /\ x.index \in Nat /\ x.reserved_end \in Nat /\ 1 <= x.index
          /\ x.index <= x.reserved_end /\ x.reserved_end <= Len(x.route)
      BY <3>2
    <3> QED BY <3>2, <3>3 DEF x
  <2>4. CASE ~stuck /\ o = Answer(s2, [type |-> "segment", nodes |-> NextSegment(s2.robots[r])])
    <3>1. s2.robots[r].index < s2.robots[r].reserved_end
      BY <2>2, <2>3, <2>4
    <3>2. IsSegment(s2.robots[r], o.reply)
      BY <2>3, <2>4, <3>1, NextSegmentLeads DEF Answer, IsSegment
    <3> QED BY <1>3, <2>2, <2>4, <3>2 DEF Answer
  <2>5. CASE stuck /\ o = Answer(s2, Wait)
    BY <1>3, <2>2, <2>5 DEF Answer
  <2>6. CASE stuck /\ o \in Detour(s2, r)
    <3>1. Core(s2) /\ HasRoute(s2.robots[r])
      BY <2>2 DEF Extended, Serves
    <3>2. o = Answer(s2, Wait) \/ (Replanned(s2, o.s, r) /\ o.reply = RouteReply("reroute", o.s, r))
      BY ONLY r \in Robot, <2>6, <3>1, DetourReplans
    <3>3. CASE o = Answer(s2, Wait)
      BY <1>3, <2>2, <3>3 DEF Answer
    <3>4. CASE Replanned(s2, o.s, r) /\ o.reply = RouteReply("reroute", o.s, r)
      <4>1. Replanned(s, o.s, r)
        BY <2>2, <3>4 DEF Replanned, Serves, OnlyFor, Extended, CurrentNode
      <4>2. st.reserved_end = st.index
        <5>1. st.index \in Nat /\ st.reserved_end \in Nat /\ st.index <= st.reserved_end
          BY <1>3, NodesOfRoute
        <5> HIDE DEF st
        <5>2. /\ s2.robots[r].index = st.index /\ st.reserved_end <= s2.robots[r].reserved_end
              /\ s2.robots[r].reserved_end <= s2.robots[r].index
          BY <2>2, <2>6 DEF Extended, st
        <5> QED BY <2>3, <5>1, <5>2
      <4> QED BY <1>3, <3>4, <4>1, <4>2
    <3> QED BY <3>2, <3>3, <3>4
  <2> QED BY <2>1, <2>4, <2>5, <2>6
<1> QED BY <1>1, <1>2, <1>3

\* So next_segment with its reply is a turn of the robot that asks.
LEMMA SegmentRequestIsTurn ==
  ASSUME NEW s, Core(s), NEW r \in Robot, NEW o \in OnSegmentRequest(s, r)
  PROVE  Turn(s, o.s, r)
<1>1. CASE o = Answer(s, Wait)
  BY <1>1 DEF Answer, Turn
<1>2. CASE HasRoute(s.robots[r]) /\ Extended(s, o.s, r)
  BY <1>2, CurrentInWindow DEF Extended, Serves, Turn, CurrentNode
<1>3. CASE HasRoute(s.robots[r]) /\ Replanned(s, o.s, r)
  BY <1>3, CurrentInWindow DEF Replanned, Serves, Turn
<1> QED BY <1>1, <1>2, <1>3, SegmentAnswers

\* The answers of report_obstacle: the robot is told to wait, or re-planned
\* where it is and told its new route.
LEMMA BlockedAnswers ==
  ASSUME NEW s, Core(s), NEW r \in Robot, NEW o \in OnBlockedRequest(s, r)
  PROVE  \/ Core(o.s) /\ o.s.robots = s.robots /\ o.reply = Wait
         \/ /\ HasRoute(s.robots[r]) /\ Replanned(s, o.s, r)
            /\ o.reply = RouteReply("reroute", o.s, r)
<1> DEFINE st == s.robots[r]
           s1 == [s EXCEPT !.blocked = @ \cup NextNode(st), !.announced = @ \cup NextNode(st)]
<1>1. CASE ~HasRoute(st) \/ AtEnd(st)
  BY <1>1 DEF OnBlockedRequest, Answer
<1>2. CASE HasRoute(st) /\ ~AtEnd(st)
  <2>1. NextNode(st) \subseteq Node
    BY <1>2, NodesOfRoute
  <2>2. s1 \in Manager /\ s1.robots = s.robots /\ s1.reservations = s.reservations /\ Shown(s1)
    BY <2>1 DEF Core, Manager, Shown
  <2>3. o = Answer(s1, Wait) \/ o \in Detour(s1, r)
    BY <1>2 DEF OnBlockedRequest
  <2> HIDE DEF s1
  <2>4. Core(s1)
    BY <2>2, CoreSame
  <2>5. CASE o = Answer(s1, Wait)
    BY <2>2, <2>4, <2>5 DEF Answer
  <2>6. CASE Replanned(s1, o.s, r) /\ o.reply = RouteReply("reroute", o.s, r)
    BY <1>2, <2>2, <2>6 DEF Replanned, Serves, OnlyFor
  <2> QED BY <1>2, <2>2, <2>3, <2>4, <2>5, <2>6, DetourReplans
<1> QED BY <1>1, <1>2

\* So report_obstacle with its reply is a turn of the robot that reports.
LEMMA BlockedRequestIsTurn ==
  ASSUME NEW s, Core(s), NEW r \in Robot, NEW o \in OnBlockedRequest(s, r)
  PROVE  Turn(s, o.s, r)
<1>1. CASE HasRoute(s.robots[r]) /\ Replanned(s, o.s, r)
  BY <1>1, CurrentInWindow DEF Replanned, Serves, Turn
<1>2. CASE Core(o.s) /\ o.s.robots = s.robots
  BY <1>2 DEF Turn
<1> QED BY <1>1, <1>2, BlockedAnswers

\* update_position does nothing, or puts the robot at the index of its window
\* that has the node.
LEMMA PoseAdvances ==
  ASSUME NEW s, Core(s), NEW r \in Robot, NEW n \in Node, NEW t, t = OnPose(s, r, n)
  PROVE  \/ t = s /\ PassedIndex(s.robots[r], n) = {}
         \/ /\ HasRoute(s.robots[r])
            /\ Core(t) /\ OnlyFor(s, t, r)
            /\ t.robots[r].index \in PassedIndex(s.robots[r], n)
            /\ t.robots[r].route = s.robots[r].route
            /\ t.robots[r].reserved_end = s.robots[r].reserved_end
            /\ t.robots[r].waiting = s.robots[r].waiting
<1> DEFINE st == s.robots[r]
           S == PassedIndex(st, n)
           i == Max(S)
           s1 == [s EXCEPT !.blocked = @ \ {st.route[j] : j \in (st.index + 1)..i}]
<1>1. CASE S = {}
  BY <1>1 DEF OnPose
<1>2. CASE S # {}
  <2>1. st \in RobotState /\ WindowInRoute(s)
    BY DEF Core, Manager
  <2>2. HasRoute(st)
    <3>1. st # NoState
      BY <1>2 DEF PassedIndex, NoState
    <3>2. 1 <= st.index /\ st.index <= Len(st.route)
      BY <2>1, <3>1 DEF WindowInRoute, RobotState
    <3> QED BY <2>1, <3>2 DEF HasRoute, RobotState
  <2>3. /\ st.index \in Nat /\ st.reserved_end \in Nat /\ st.index >= 1
        /\ st.reserved_end <= Len(st.route) /\ Len(st.route) \in Nat
    BY <2>2, NodesOfRoute
  <2>4. S \in SUBSET ((st.index + 1)..st.reserved_end)
    BY DEF PassedIndex
  <2>5. i \in S
    <3> HIDE DEF S
    <3>1. st.index + 1 \in Int /\ st.reserved_end \in Int
      BY <2>3
    <3> HIDE DEF st
    <3> QED BY <1>2, <2>4, <3>1, MaxOfBounded, Zenon
  <2>6. t = Advance(s1, r, i)
    BY <1>2 DEF OnPose
  <2> HIDE DEF i, S
  <2>7. i \in (st.index + 1)..st.reserved_end
    BY <2>4, <2>5
  <2>8. s1 \in Manager /\ s1.robots = s.robots /\ s1.reservations = s.reservations /\ Shown(s1)
    BY DEF Core, Manager, Shown
  <2> HIDE DEF s1
  <2>9. Core(s1)
    BY <2>8, CoreSame
  <2>10. /\ Core(t) /\ OnlyFor(s1, t, r)
         /\ t.robots[r].route = st.route /\ t.robots[r].index = i
         /\ t.robots[r].reserved_end = st.reserved_end
         /\ t.robots[r].waiting = st.waiting
    <3>1. HasRoute(s1.robots[r]) /\ i \in (s1.robots[r].index + 1)..s1.robots[r].reserved_end
      BY <2>2, <2>7, <2>8
    <3>2. s1.robots[r] = st
      BY <2>8
    <3> HIDE DEF st
    <3> QED BY ONLY r \in Robot, <2>6, <2>9, <3>1, <3>2, AdvanceKeepsCore
  <2>11. OnlyFor(s, t, r)
    BY <2>8, <2>10 DEF OnlyFor
  <2> QED BY <2>2, <2>5, <2>10, <2>11 DEF S
<1> QED BY <1>1, <1>2

\* So update_position is a turn: the node the robot is at is one of its window.
LEMMA PoseIsTurn ==
  ASSUME NEW s, Core(s), NEW r \in Robot, StuckIfWaiting(s.robots[r]), NEW n \in Node,
         NEW t, t = OnPose(s, r, n)
  PROVE  Turn(s, t, r)
<1> DEFINE st == s.robots[r]
<1>1. CASE t = s
  BY <1>1 DEF Turn
<1>2. CASE /\ HasRoute(st) /\ Core(t) /\ OnlyFor(s, t, r)
           /\ t.robots[r].index \in PassedIndex(st, n)
           /\ t.robots[r].route = st.route
           /\ t.robots[r].waiting = st.waiting
  <2>1. /\ st.index \in Nat /\ st.reserved_end \in Nat
        /\ t.robots[r].index \in (st.index + 1)..st.reserved_end
    BY <1>2, NodesOfRoute DEF PassedIndex
  <2>2. ~st.waiting
    BY <2>1 DEF StuckIfWaiting
  <2>3. HasRoute(t.robots[r]) /\ StuckIfWaiting(t.robots[r])
    BY <1>2, <2>2 DEF HasRoute, StuckIfWaiting
  <2>4. CurrentNode(t.robots[r]) \in Window(st)
    BY <1>2, <2>1 DEF CurrentNode, Window
  <2> QED BY <1>2, <2>3, <2>4 DEF Turn, Serves
<1> QED BY <1>1, <1>2, PoseAdvances

-----------------------------------------------------------------------------
(* Giving way.                                                             *)

\* Two robots that face each other have routes.
LEMMA FacingHaveRoutes ==
  ASSUME NEW s, Core(s), NEW a \in Robot, NEW b \in Robot, Faces(s, a, b)
  PROVE  HasRoute(s.robots[a]) /\ HasRoute(s.robots[b])
<1>1. ~AtEnd(s.robots[a]) /\ ~AtEnd(s.robots[b])
  BY DEF Faces, IsHeadOn, NextNode
<1>2. s.robots[a] \in RobotState /\ s.robots[b] \in RobotState
  BY DEF Core, Manager
<1> QED BY <1>1, <1>2 DEF HasRoute, AtEnd, RobotState

\* The outcome o of arbitrating for r: nothing, or r is re-planned where it is,
\* and told so.
GivesWay(s, o, r) ==
  \/ o.s = s /\ o.rerouted = {}
  \/ Replanned(s, o.s, r) /\ o.rerouted = {r}

\* Giving way is a turn.
LEMMA WayIsTurn ==
  ASSUME NEW s, Core(s), NEW r \in Robot, HasRoute(s.robots[r]), NEW o, GivesWay(s, o, r)
  PROVE  Turn(s, o.s, r)
<1>1. Stays(s, o.s, r)
  BY DEF GivesWay, Stays, Replanned, Serves
<1> QED BY <1>1, StayIsTurn

\* _reroute, the fallback, re-plans where the robot is.
LEMMA FallBackGivesWay ==
  ASSUME NEW s, Core(s), NEW r \in Robot, HasRoute(s.robots[r]), NEW q,
         NEW o \in FallBack(s, r, q)
  PROVE  GivesWay(s, o, r)
<1>1. PICK o1 \in Reroute(s, r, q) : o = Outcome(o1, r)
  BY DEF FallBack
<1>2. \E avoid, edges :
        o1 \in SetRoute(s, r, CurrentNode(s.robots[r]), Goal(s.robots[r]),
                        s.robots[r].laden, avoid, edges)
  BY DEF Reroute
<1>3. o1 = Refused(s) \/ (o1.ok = TRUE /\ Replanned(s, o1.s, r))
  BY <1>2, ReplanAttempts
<1> QED BY <1>1, <1>3 DEF GivesWay, Refused, Outcome

\* So does _yield_route, if it does anything.
LEMMA YieldGivesWay ==
  ASSUME NEW s, Core(s), NEW r \in Robot, HasRoute(s.robots[r]), NEW q \in Robot,
         NEW o \in YieldRoute(s, r, q)
  PROVE  GivesWay(s, Outcome(o, r), r)
<1>1. Placed(s, o, r, CurrentNode(s.robots[r]))
  BY YieldRouteServes
<1> QED BY <1>1 DEF Placed, GivesWay, Replanned, Refused, Outcome

\* Arbitrating a pair re-plans one of the two.
LEMMA ArbitrateGivesWay ==
  ASSUME NEW s, Core(s), NEW a \in Robot, NEW b \in Robot, a < b, Faces(s, a, b),
         NEW o \in Arbitrate(s, a, b)
  PROVE  \E x \in {a, b} : HasRoute(s.robots[x]) /\ GivesWay(s, o, x)
<1> DEFINE Other(r) == IF r = a THEN b ELSE a
<1>1. \A x \in {a, b} : x \in Robot /\ Other(x) \in Robot /\ HasRoute(s.robots[x])
  BY FacingHaveRoutes
<1>2. CASE PickYielder(s, a, b) = {}
  <2>1. o \in FallBack(s, Max({a, b}), Min({a, b}))
    BY <1>2 DEF Arbitrate
  <2>2. Max({a, b}) \in {a, b}
    <3>1. a \in Int /\ b \in Int
      BY RobotAssumption
    <3>2. {a, b} \in SUBSET (a..b) /\ {a, b} # {}
      BY <3>1
    <3> QED BY <3>1, <3>2, MaxOfBounded, Zenon
  <2> QED BY <1>1, <2>1, <2>2, FallBackGivesWay
<1>3. CASE PickYielder(s, a, b) # {}
  <2>1. PICK r \in PickYielder(s, a, b) :
          \E o1 \in YieldRoute(s, r, Other(r)) :
             o \in IF o1.ok THEN {Outcome(o1, r)} ELSE FallBack(s, r, Other(r))
    BY <1>3 DEF Arbitrate
  <2>2. r \in {a, b}
    BY DEF PickYielder
  <2> HIDE DEF Other
  <2>3. PICK o1 \in YieldRoute(s, r, Other(r)) :
          o \in IF o1.ok THEN {Outcome(o1, r)} ELSE FallBack(s, r, Other(r))
    BY <2>1
  <2>4. r \in Robot /\ Other(r) \in Robot /\ HasRoute(s.robots[r])
    BY <1>1, <2>2
  <2>5. CASE o1.ok
    <3>1. o = Outcome(o1, r)
      BY <2>3, <2>5
    <3> QED BY <2>2, <2>4, <3>1, YieldGivesWay
  <2>6. CASE ~o1.ok
    BY <2>2, <2>3, <2>4, <2>6, FallBackGivesWay
  <2> QED BY <2>5, <2>6
<1> QED BY <1>2, <1>3

\* Giving way early re-plans the robot or changes nothing.
LEMMA YieldEarlyGivesWay ==
  ASSUME NEW s, Core(s), NEW x \in Robot, HasRoute(s.robots[x]), NEW o \in YieldEarly(s, x)
  PROVE  GivesWay(s, o, x)
<1>1. CASE YieldsEarlyTo(s, x) = {}
  BY <1>1 DEF YieldEarly, GivesWay
<1>2. CASE YieldsEarlyTo(s, x) # {}
  <2>1. PICK y \in YieldsEarlyTo(s, x) : \E o1 \in YieldRoute(s, x, y) : o = Outcome(o1, x)
    BY <1>2 DEF YieldEarly
  <2>2. PICK o1 \in YieldRoute(s, x, y) : o = Outcome(o1, x)
    BY <2>1
  <2>3. y \in Robot
    BY DEF YieldsEarlyTo
  <2> QED BY <2>2, <2>3, YieldGivesWay
<1> QED BY <1>1, <1>2

-----------------------------------------------------------------------------
(* The invariant.                                                          *)

SweepOK == sweep \in [pairs : SUBSET SUBSET Robot, early : SUBSET Robot]

AllStuck(s) == \A r \in Robot : StuckIfWaiting(s.robots[r])

\* The tables agree, waiting robots are stuck, and the robots a sweep will
\* still visit have a next node.
IInv == Core(tm) /\ AllStuck(tm) /\ SweepOK /\ EarlyHasNext

\* A turn keeps the waiting marks true, and disturbs no other robot.
LEMMA TurnKeeps ==
  ASSUME NEW s, AllStuck(s), NEW r \in Robot, NEW t, Turn(s, t, r)
  PROVE  AllStuck(t) /\ \A q \in Robot \ {r} : t.robots[q] = s.robots[q]
<1>1. CASE t.robots = s.robots
  BY <1>1 DEF AllStuck
<1>2. CASE Serves(s, t, r)
  BY <1>2 DEF AllStuck, Serves, OnlyFor
<1> QED BY <1>1, <1>2 DEF Turn

\* Before the first callback nothing is reserved and nobody waits.
LEMMA InitInvariant == TrafficInit => IInv
<1> SUFFICES ASSUME TrafficInit PROVE IInv
  OBVIOUS
<1>1. tm = NewManager /\ sweep = NoSweep
  BY DEF TrafficInit
<1>2. NoState \in RobotState
  BY DEF NoState, RobotState
<1>3. tm \in Manager
  BY <1>1, <1>2 DEF NewManager, Manager
<1>4. \A r \in Robot : tm.robots[r] = NoState
  BY <1>1 DEF NewManager
<1>5. WindowInRoute(tm)
  BY <1>4 DEF WindowInRoute
<1>6. ReservedIsWindow(tm)
  <2>1. Window(NoState) = {}
    BY DEF Window, NoState
  <2>2. \A n \in Node : tm.reservations[n] = NoRobot
    BY <1>1 DEF NewManager
  <2> QED BY <1>4, <2>1, <2>2, RobotAssumption DEF ReservedIsWindow, NoRobot
<1>a. Shown(tm) /\ \A r \in Robot : RouteOK(tm.robots[r])
  BY <1>1, <1>4 DEF NewManager, Shown, RouteOK, NoneTwice, FollowsEdges, NoState
<1>7. AllStuck(tm)
  BY <1>4 DEF AllStuck, StuckIfWaiting, NoState
<1>8. SweepOK /\ EarlyHasNext
  BY <1>1 DEF NoSweep, SweepOK, EarlyHasNext
<1> QED BY <1>3, <1>5, <1>6, <1>a, <1>7, <1>8 DEF IInv, Core

\* A callback that finds no sweep running and is a turn keeps the invariant.
LEMMA IdleTurn ==
  ASSUME IInv, Idle, NEW r \in Robot, Turn(tm, tm', r), UNCHANGED sweep
  PROVE  IInv'
<1>1. Core(tm')
  BY DEF Turn
<1>2. AllStuck(tm')
  BY TurnKeeps DEF IInv
<1>3. SweepOK' /\ EarlyHasNext'
  BY DEF IInv, Idle, NoSweep, SweepOK, EarlyHasNext
<1> QED BY <1>1, <1>2, <1>3 DEF IInv

\* A route request puts the robot at the node it asks from.
LEMMA RouteRequestServes ==
  ASSUME IInv, NEW r \in Robot, RouteRequest(r)
  PROVE  \/ tm' = tm
         \/ /\ Serves(tm, tm', r)
            /\ CurrentNode(tm'.robots[r]) \in Node
            /\ \E goal \in Stop, laden \in BOOLEAN :
                 \E o \in OnRouteRequest(tm, r, CurrentNode(tm'.robots[r]), goal, laden) : tm' = o.s
<1>1. PICK start \in Node, goal \in Stop, laden \in BOOLEAN :
         \E o \in OnRouteRequest(tm, r, start, goal, laden) : tm' = o.s
  BY DEF RouteRequest
<1>2. \E o \in SetRoute(tm, r, start, goal, laden, {}, {}) : tm' = o.s
  BY <1>1 DEF OnRouteRequest, Answer
<1>3. PICK o \in SetRoute(tm, r, start, goal, laden, {}, {}) : tm' = o.s
  BY <1>2
<1>4. start \in Node /\ goal \in Node /\ IsFlag(laden) /\ Core(tm)
  BY StopAssumption DEF IInv, IsFlag
<1>5. Placed(tm, o, r, start)
  BY <1>4, SetRouteServes
<1>6. CASE tm' = tm
  BY <1>6
<1>7. CASE Serves(tm, tm', r) /\ CurrentNode(tm'.robots[r]) = start
  BY <1>1, <1>7
<1> QED BY <1>3, <1>5, <1>6, <1>7 DEF Placed, Refused

\* Every other step is a turn of some robot.
LEMMA CallbackTurns ==
  ASSUME IInv, NEW r \in Robot, SegmentRequest(r) \/ BlockedRequest(r) \/ Pose(r)
  PROVE  Turn(tm, tm', r)
<1>1. CASE SegmentRequest(r)
  BY <1>1, SegmentRequestIsTurn DEF SegmentRequest, IInv
<1>2. CASE BlockedRequest(r)
  BY <1>2, BlockedRequestIsTurn DEF BlockedRequest, IInv, AllStuck
<1>3. CASE Pose(r)
  BY <1>3, PoseIsTurn DEF Pose, IInv, AllStuck
<1> QED BY <1>1, <1>2, <1>3

\* _on_unblock only shrinks the block list: a turn that moves nobody.
LEMMA UnblockTurns ==
  ASSUME IInv, Unblock \/ Timer
  PROVE  Core(tm') /\ tm'.robots = tm.robots
<1>1. /\ tm' \in Manager /\ tm'.robots = tm.robots /\ tm'.reservations = tm.reservations
      /\ Shown(tm')
  BY DEF IInv, Core, Manager, Unblock, OnUnblock, Timer, Reconcile, Shown
<1> QED BY <1>1, CoreSame DEF IInv

\* An iteration of the sweep over pairs, its reroutes included, is a turn.
LEMMA SweepPairTurns ==
  ASSUME IInv, NEW a \in Robot, NEW b \in Robot, NEW told, SweepPair(a, b, told)
  PROVE  \E x \in {a, b} : Turn(tm, tm', x)
<1>1. CASE Faces(tm, a, b)
  <2>1. PICK o \in Arbitrate(tm, a, b) : tm' = o.s
    BY <1>1 DEF SweepPair
  <2>2. a < b /\ Core(tm)
    BY DEF SweepPair, IInv
  <2>3. PICK x \in {a, b} : HasRoute(tm.robots[x]) /\ GivesWay(tm, o, x)
    BY <1>1, <2>2, ArbitrateGivesWay
  <2> QED BY <2>1, <2>2, <2>3, WayIsTurn
<1>2. CASE ~Faces(tm, a, b)
  BY <1>2 DEF SweepPair, Turn, IInv
<1> QED BY <1>1, <1>2

\* So is an iteration of the sweep that lets a waiting robot give way early.
LEMMA SweepEarlyTurns ==
  ASSUME IInv, NEW x \in Robot, NEW told, SweepEarly(x, told)
  PROVE  Turn(tm, tm', x)
<1>1. Core(tm) /\ tm.robots[x] \in RobotState /\ ~AtEnd(tm.robots[x])
  BY DEF IInv, Core, Manager, EarlyHasNext, SweepEarly
<1>2. HasRoute(tm.robots[x])
  BY <1>1 DEF HasRoute, AtEnd, RobotState
<1>3. PICK o \in YieldEarly(tm, x) : tm' = o.s
  BY DEF SweepEarly
<1> QED BY <1>1, <1>2, <1>3, YieldEarlyGivesWay, WayIsTurn

\* The invariant is inductive.
LEMMA NextInvariant == IInv /\ [TrafficNext]_trafficVars => IInv'
<1> SUFFICES ASSUME IInv, [TrafficNext]_trafficVars PROVE IInv'
  OBVIOUS
<1>1. CASE UNCHANGED trafficVars
  BY <1>1 DEF trafficVars, IInv, SweepOK, EarlyHasNext
<1>2. ASSUME NEW r \in Robot, RouteRequest(r) PROVE IInv'
  <2>1. Idle /\ UNCHANGED sweep
    BY <1>2 DEF RouteRequest
  <2>2. CASE tm' = tm
    BY <2>1, <2>2 DEF IInv, SweepOK, EarlyHasNext
  <2>3. CASE Serves(tm, tm', r)
    <3>1. Core(tm') /\ AllStuck(tm')
      BY <2>3 DEF Serves, AllStuck, OnlyFor, IInv
    <3> QED BY <2>1, <3>1 DEF IInv, Idle, NoSweep, SweepOK, EarlyHasNext
  <2> QED BY <1>2, <2>2, <2>3, RouteRequestServes
<1>3. ASSUME NEW r \in Robot, SegmentRequest(r) \/ BlockedRequest(r) \/ Pose(r) PROVE IInv'
  <2>1. Idle /\ UNCHANGED sweep
    BY <1>3 DEF SegmentRequest, BlockedRequest, Pose
  <2> QED BY <1>3, <2>1, CallbackTurns, IdleTurn
<1>4. CASE Unblock
  <2>1. Core(tm') /\ tm'.robots = tm.robots
    BY <1>4, UnblockTurns
  <2> QED BY <1>4, <2>1 DEF Unblock, IInv, AllStuck, SweepOK, EarlyHasNext
<1>5. CASE Timer
  <2>1. Core(tm') /\ tm'.robots = tm.robots
    BY <1>5, UnblockTurns
  <2>2. AllStuck(tm')
    BY <2>1 DEF IInv, AllStuck
  <2>3. SweepOK'
    BY <1>5 DEF Timer, StartSweep, SweepOK, Pairs, WaitingRobots
  <2>4. EarlyHasNext'
    BY <1>5, <2>1 DEF Timer, StartSweep, EarlyHasNext, WaitingRobots, IInv, AllStuck, StuckIfWaiting
  <2> QED BY <2>1, <2>2, <2>3, <2>4 DEF IInv
<1>6. ASSUME NEW a \in Robot, NEW b \in Robot, NEW told, SweepPair(a, b, told) PROVE IInv'
  <2>1. PICK x \in {a, b} : Turn(tm, tm', x)
    BY <1>6, SweepPairTurns
  <2>2. Core(tm') /\ AllStuck(tm') /\ \A q \in Robot \ {x} : tm'.robots[q] = tm.robots[q]
    BY <2>1, TurnKeeps DEF IInv, Turn
  <2>3. CASE Faces(tm, a, b)
    <3>1. sweep' = [pairs |-> sweep.pairs \ {{a, b}}, early |-> sweep.early \ {a, b}]
      BY <1>6, <2>3 DEF SweepPair
    <3> QED BY <2>2, <3>1 DEF IInv, SweepOK, EarlyHasNext
  <2>4. CASE ~Faces(tm, a, b)
    <3>1. sweep' = [sweep EXCEPT !.pairs = @ \ {{a, b}}] /\ tm' = tm
      BY <1>6, <2>4 DEF SweepPair
    <3> QED BY <2>2, <3>1 DEF IInv, SweepOK, EarlyHasNext
  <2> QED BY <2>3, <2>4
<1>7. ASSUME NEW x \in Robot, NEW told, SweepEarly(x, told) PROVE IInv'
  <2>1. Turn(tm, tm', x)
    BY <1>7, SweepEarlyTurns
  <2>2. Core(tm') /\ AllStuck(tm') /\ \A q \in Robot \ {x} : tm'.robots[q] = tm.robots[q]
    BY <2>1, TurnKeeps DEF IInv, Turn
  <2>3. sweep' = [sweep EXCEPT !.early = @ \ {x}]
    BY <1>7 DEF SweepEarly
  <2> QED BY <2>2, <2>3 DEF IInv, SweepOK, EarlyHasNext
<1> QED BY <1>1, <1>2, <1>3, <1>4, <1>5, <1>6, <1>7 DEF TrafficNext

\* The invariant holds in every behaviour of the traffic manager.
THEOREM Invariant == TrafficSpec => []IInv
  BY InitInvariant, NextInvariant, PTL DEF TrafficSpec

-----------------------------------------------------------------------------
(* Theorems: what the runs of MCTraffic check, for all values of the       *)
(* constants.                                                              *)

\* Types are kept: no operation writes an index, holder or route of another
\* kind, in whatever order callbacks and sweep steps come.
THEOREM TypeCorrect == TrafficSpec => []TypeOK
<1>1. IInv => TypeOK
  BY DEF IInv, Core, SweepOK, TypeOK
<1> QED BY <1>1, Invariant, PTL

\* The reservation table and the windows of the routes always agree, so no node
\* is in the windows of two robots, and none stays reserved for nobody.
THEOREM TablesAgree == TrafficSpec => []WindowsReserved
<1>1. IInv => WindowsReserved
  BY DEF IInv, Core, WindowsReserved
<1> QED BY <1>1, Invariant, PTL

\* A robot marked as waiting has a next node and holds only the node it stands on
\* (next_segment sets the mark, resolve_deadlock relies on it).
THEOREM WaitingCorrect == TrafficSpec => []WaitingOnNext
<1>1. IInv => WaitingOnNext
  BY DEF IInv, AllStuck, WaitingOnNext
<1> QED BY <1>1, Invariant, PTL

\* update_position, which looks for the robot's node in its window, finds it
\* once: a window never meets a node twice, however the route goes on.
THEOREM WindowsMeetNoneTwice == TrafficSpec => []NoFalsePass
<1>1. IInv => NoFalsePass
  BY DEF IInv, Core, RouteOK, NoneTwice, NoFalsePass
<1> QED BY <1>1, Invariant, PTL

\* No node stays blocked that the GUI does not show.
THEOREM BlocksAreShown == TrafficSpec => []BlockedIsAnnounced
<1>1. IInv => BlockedIsAnnounced
  BY DEF IInv, Core, Shown, BlockedIsAnnounced
<1> QED BY <1>1, Invariant, PTL

\* resolve_deadlock never reads past the end of a route.
THEOREM SweepCorrect == TrafficSpec => []EarlyHasNext
<1>1. IInv => EarlyHasNext
  BY DEF IInv
<1> QED BY <1>1, Invariant, PTL

\* An operation that serves a robot is a step of the interlocking.
LEMMA ServesHolds ==
  ASSUME NEW r \in Robot, Core(tm), Serves(tm, tm', r)
  PROVE  /\ Interlock!Hold(r)
         /\ PlaceOf'[r] = CurrentNode(tm'.robots[r])
<1> DEFINE st == tm'.robots[r]
<1>1. Core(tm') /\ OnlyFor(tm, tm', r) /\ HasRoute(st)
  BY DEF Serves
<1>2. CurrentNode(st) \in Window(st)
  BY <1>1, CurrentInWindow
<1>3. Window(st) \subseteq Node
  <2>1. st.index \in 1..Len(st.route) /\ st.reserved_end \in st.index..Len(st.route)
        /\ st.route \in Seq(Node) /\ Len(st.route) \in Nat
    BY <1>1, NodesOfRoute DEF RobotState
  <2> QED BY <2>1 DEF Window
<1>4. \A q \in Robot \ {r} : Window(st) \cap HeldNodes[q] = {}
  <2> SUFFICES ASSUME NEW q \in Robot \ {r}, NEW n \in Window(st), n \in Window(tm.robots[q])
               PROVE  FALSE
    BY DEF HeldNodes
  <2>1. tm'.robots[q] = tm.robots[q] /\ n \in Node
    BY <1>1, <1>3 DEF OnlyFor
  <2>2. tm'.reservations[n] = r /\ tm'.reservations[n] = q
    BY <1>1, <2>1 DEF Core, ReservedIsWindow
  <2> QED BY <2>2
<1>5. HeldNodes' = [HeldNodes EXCEPT ![r] = Window(st)] /\ HeldNodes'[r] = Window(st)
  BY <1>1 DEF HeldNodes, OnlyFor
<1>6. PlaceOf' = [PlaceOf EXCEPT ![r] = CurrentNode(st)] /\ PlaceOf'[r] = CurrentNode(st)
  BY <1>1 DEF PlaceOf, OnlyFor
<1> QED BY <1>2, <1>3, <1>4, <1>5, <1>6 DEF Interlock!Hold

\* A turn is a change, or invisible.
LEMMA TurnChanges ==
  ASSUME NEW r \in Robot, Core(tm), Turn(tm, tm', r)
  PROVE  Interlock!Change(r) \/ UNCHANGED <<HeldNodes, PlaceOf>>
<1>1. CASE tm'.robots = tm.robots
  BY <1>1 DEF HeldNodes, PlaceOf
<1>2. CASE Serves(tm, tm', r) /\ CurrentNode(tm'.robots[r]) \in Window(tm.robots[r])
  BY <1>2, ServesHolds DEF Interlock!Change, HeldNodes
<1> QED BY <1>1, <1>2 DEF Turn

\* Every step of the manager is a change, or invisible, or answers a route
\* request.
LEMMA StepsChange ==
  ASSUME IInv, [TrafficNext]_trafficVars
  PROVE  \/ \E r \in Robot : Interlock!Change(r)
         \/ \E r \in Robot : AnswersRequest(r) /\ Interlock!Hold(r)
         \/ UNCHANGED <<HeldNodes, PlaceOf>>
<1>1. CASE UNCHANGED trafficVars
  BY <1>1 DEF trafficVars, HeldNodes, PlaceOf
<1>2. CASE \E r \in Robot : SegmentRequest(r) \/ BlockedRequest(r) \/ Pose(r)
  BY <1>2, CallbackTurns, TurnChanges DEF IInv
<1>3. CASE Unblock \/ Timer
  BY <1>3, UnblockTurns DEF HeldNodes, PlaceOf
<1>4. CASE \E a, b \in Robot, told \in SUBSET Robot : SweepPair(a, b, told)
  BY <1>4, SweepPairTurns, TurnChanges DEF IInv
<1>5. CASE \E x \in Robot, told \in SUBSET Robot : SweepEarly(x, told)
  BY <1>5, SweepEarlyTurns, TurnChanges DEF IInv
<1>6. ASSUME NEW r \in Robot, RouteRequest(r)
      PROVE  \/ Interlock!Change(r)
             \/ AnswersRequest(r) /\ Interlock!Hold(r)
             \/ UNCHANGED <<HeldNodes, PlaceOf>>
  <2>1. CASE tm' = tm
    BY <2>1 DEF HeldNodes, PlaceOf
  <2>2. CASE /\ Serves(tm, tm', r)
             /\ CurrentNode(tm'.robots[r]) \in Node
             /\ \E goal \in Stop, laden \in BOOLEAN :
                  \E o \in OnRouteRequest(tm, r, CurrentNode(tm'.robots[r]), goal, laden) :
                    tm' = o.s
    <3>1. Interlock!Hold(r) /\ PlaceOf'[r] = CurrentNode(tm'.robots[r])
      BY <2>2, ServesHolds DEF IInv
    <3>2. CASE PlaceOf'[r] \in HeldNodes[r]
      BY <3>1, <3>2 DEF Interlock!Change
    <3>3. CASE PlaceOf'[r] \notin HeldNodes[r]
      BY <2>2, <3>1, <3>3 DEF AnswersRequest
    <3> QED BY <3>2, <3>3
  <2> QED BY <1>6, <2>1, <2>2, RouteRequestServes
<1> QED BY <1>1, <1>2, <1>3, <1>4, <1>5, <1>6 DEF TrafficNext

\* Robots get outside the nodes they hold by asking for a route only.
THEOREM DisplacedByRequest == TrafficSpec => OnlyRequestsDisplace
<1>1. IInv /\ [TrafficNext]_trafficVars
        => [\/ \E r \in Robot : Interlock!Change(r)
            \/ \E r \in Robot : AnswersRequest(r)]_<<HeldNodes, PlaceOf>>
  BY StepsChange
<1> QED BY <1>1, Invariant, PTL DEF TrafficSpec, OnlyRequestsDisplace

\* The manager implements the interlocking, for any graph and any robots.
THEOREM Refinement == TrafficSpec => IsInterlocking
<1>1. TrafficInit => Interlock!Init
  BY DEF TrafficInit, NewManager, NoState, HeldNodes, PlaceOf, Window, HasRoute,
         Interlock!Init, Interlock!NoNodes
<1>2. IInv /\ [TrafficNext]_trafficVars
        => [\E r \in Robot : Interlock!Hold(r)]_<<HeldNodes, PlaceOf>>
  <2> SUFFICES ASSUME IInv, [TrafficNext]_trafficVars
               PROVE  \/ \E r \in Robot : Interlock!Hold(r)
                      \/ UNCHANGED <<HeldNodes, PlaceOf>>
    OBVIOUS
  <2> QED BY StepsChange DEF Interlock!Change
<1> QED BY <1>1, <1>2, Invariant, PTL DEF TrafficSpec, IsInterlocking, Interlock!SpecDisplacing

=============================================================================
