------------------------------ MODULE Traffic ------------------------------
(***************************************************************************)
(* The traffic manager (traffic.py) behind its topic callbacks             *)
(* (traffic_node.py): the routes it has given to the robots, the table of  *)
(* reserved nodes, the hold that keeps a robot which gave way from taking  *)
(* its node back, and the nodes blocked by obstacles.                      *)
(*                                                                         *)
(* The node runs one callback at a time, so a callback is one step; the    *)
(* deadlock sweep of the timer is the exception: it is a loop over pairs   *)
(* of robots, taken here one iteration per step, and no other callback     *)
(* runs until it ends.                                                     *)
(*                                                                         *)
(* A callback is an operator on the manager's state s that returns the set *)
(* of its outcomes [s |-> new state, reply |-> message, ...]: there is     *)
(* more than one only where several routes are equally cheap.  Indices     *)
(* count from 1, an absent escape_end is 0 and a robot without RobotState  *)
(* has the empty route.                                                    *)
(***************************************************************************)
EXTENDS WarehouseGraph

CONSTANTS
  Robot,   \* robot ids; the smaller id yields when all else is equal
  Stop     \* the nodes where missions start and end (locations.yaml)

ASSUME RobotAssumption == Robot \subseteq (Nat \ {0})
ASSUME StopAssumption == Stop \subseteq Node

VARIABLES
  tm,      \* the TrafficManager, and the node's mirror of announced blocks
  sweep    \* what is left of the running deadlock sweep

trafficVars == <<tm, sweep>>

NoRobot == 0
NoHold == <<>>

RobotState ==
  [route : Seq(Node), index : Nat, reserved_end : Nat, laden : BOOLEAN,
   waiting : BOOLEAN, escape_end : Nat]

NoState ==
  [route |-> <<>>, index |-> 1, reserved_end |-> 0, laden |-> FALSE,
   waiting |-> FALSE, escape_end |-> 0]

Manager ==
  [robots : [Robot -> RobotState],
   reservations : [Node -> Robot \cup {NoRobot}],
   hold : [Robot -> (Robot \X Node) \cup {NoHold}],
   blocked : SUBSET Node,
   announced : SUBSET Node]

NewManager ==
  [robots |-> [r \in Robot |-> NoState],
   reservations |-> [n \in Node |-> NoRobot],
   hold |-> [r \in Robot |-> NoHold],
   blocked |-> {},
   announced |-> {}]

-----------------------------------------------------------------------------
(* Queries.                                                                *)

HasRoute(st) == st.route # <<>>
AtEnd(st) == st.index >= Len(st.route)
CurrentNode(st) == st.route[st.index]
Goal(st) == Last(st.route)
\* The node after the current one: a set, empty at the goal.
NextNode(st) == IF AtEnd(st) THEN {} ELSE {st.route[st.index + 1]}
\* The nodes still ahead, the current one included: route[index:].
Remaining(st) == {st.route[i] : i \in st.index..Len(st.route)}
\* The nodes of the reserved window.
Window(st) == {st.route[i] : i \in st.index..st.reserved_end}

\* Mutant: the owner of a node is not looked at.
FreeForAnyone(s, n, r) == n \in Node
FreeFor(s, n, r) == s.reservations[n] \in {NoRobot, r}

\* The planned routes of the other robots, which the router makes expensive.
Others(s, r) == UNION {Remaining(s.robots[q]) : q \in Robot \ {r}}

\* r gave its node to a winner that is still on its way to it.
HoldActive(s, r) ==
  /\ s.hold[r] # NoHold
  /\ LET winner == s.robots[s.hold[r][1]]
         node   == s.hold[r][2]
     IN  /\ node \in Remaining(s.robots[r])
         /\ node \in Remaining(winner)
         /\ node # CurrentNode(winner)

-----------------------------------------------------------------------------
(* Reservation and routes.                                                 *)

\* Mutant: the whole route is reserved, as before the plan went to straight runs.
ReserveToGoal(s, r) == Len(s.robots[r].route)

\* How far r may reserve: its escape node, nothing while held, else the
\* straight run it is on.
ReserveLimit(s, r) ==
  LET st == s.robots[r]
  IN  IF st.escape_end # 0 THEN st.escape_end
      ELSE IF HoldActive(s, r) THEN st.index
      ELSE RunEnd(st.route, st.index)

\* The last index reached by reserving one node after the other up to limit,
\* stopping at the first node that is blocked or belongs to another robot.
ReserveEnd(s, r, limit) ==
  LET st == s.robots[r]
  IN  Max({i \in st.reserved_end..Len(st.route) :
             \A j \in (st.reserved_end + 1)..i :
               /\ j <= limit
               /\ st.route[j] \notin s.blocked
               /\ FreeFor(s, st.route[j], r)})

ReserveForward(s, r) ==
  LET st  == s.robots[r]
      end == ReserveEnd(s, r, ReserveLimit(s, r))
      got == {st.route[j] : j \in (st.reserved_end + 1)..end}
      holdEnds == st.escape_end = 0 /\ ~HoldActive(s, r)
  IN  [s EXCEPT !.robots[r].reserved_end = end,
                !.reservations = [n \in Node |-> IF n \in got THEN r ELSE s.reservations[n]],
                !.hold[r] = IF holdEnds THEN NoHold ELSE @]

\* Mutant: the waiting mark survives a new route.
InstallRouteStillWaiting(s, r, p, laden) ==
  [s EXCEPT !.robots[r] = [route |-> p, index |-> 1, reserved_end |-> 1, laden |-> laden,
                           waiting |-> s.robots[r].waiting, escape_end |-> 0],
            !.reservations = [n \in Node |->
                                IF n = p[1] THEN r
                                ELSE IF s.reservations[n] = r THEN NoRobot
                                ELSE s.reservations[n]]]

\* Puts r at the start of the route p; the hold of an earlier route stays.
InstallRoute(s, r, p, laden) ==
  [s EXCEPT !.robots[r] = [route |-> p, index |-> 1, reserved_end |-> 1, laden |-> laden,
                           waiting |-> FALSE, escape_end |-> 0],
            !.reservations = [n \in Node |->
                                IF n = p[1] THEN r
                                ELSE IF s.reservations[n] = r THEN NoRobot
                                ELSE s.reservations[n]]]

Done(s) == [ok |-> TRUE, s |-> s]
Refused(s) == [ok |-> FALSE, s |-> s]

\* set_route: refused when there is no route or another robot has the start.
SetRoute(s, r, start, goal, laden, avoid, avoidEdges) ==
  LET routes == CheapestRoutes(start, goal, s.blocked \cup avoid, avoidEdges, Others(s, r))
  IN  IF routes = {} \/ ~FreeFor(s, start, r)
        THEN {Refused(s)}
        ELSE {Done(ReserveForward(InstallRoute(s, r, p, laden), r)) : p \in routes}

-----------------------------------------------------------------------------
(* The callbacks.  A reply names its type, and the nodes the robot reads.  *)

Wait == [type |-> "wait", nodes |-> <<>>]
RouteReply(type, s, r) == [type |-> type, nodes |-> s.robots[r].route]
Answer(s, reply) == [s |-> s, reply |-> reply]

OnRouteRequest(s, r, start, goal, laden) ==
  {Answer(o.s, IF o.ok THEN RouteReply("route", o.s, r) ELSE Wait) :
     o \in SetRoute(s, r, start, goal, laden, {}, {})}

\* next_segment: what is reserved of the straight run ahead, <<>> to wait.
NextSegment(st) ==
  SubSeq(st.route, st.index + 1, Min({st.reserved_end, RunEnd(st.route, st.index)}))

\* Mutant: re-plans from the start of the route.
DetourFromStart(s, r) ==
  LET st == s.robots[r]
  IN  {Answer(o.s, IF o.ok THEN RouteReply("reroute", o.s, r) ELSE Wait) :
         o \in SetRoute(s, r, st.route[1], Goal(st), st.laden, {}, {})}

\* Re-plans from the current node to the same goal: the answer to a robot
\* that met, or is about to meet, a blocked node that is not its goal.
Detour(s, r) ==
  LET st == s.robots[r]
  IN  {Answer(o.s, IF o.ok THEN RouteReply("reroute", o.s, r) ELSE Wait) :
         o \in SetRoute(s, r, CurrentNode(st), Goal(st), st.laden, {}, {})}

OnSegmentRequest(s, r) ==
  LET st == s.robots[r]
      s1 == ReserveForward(s, r)
      stuck == s1.robots[r].reserved_end <= st.index
      s2 == [s1 EXCEPT !.robots[r].waiting = stuck]
  IN  IF ~HasRoute(st) THEN {Answer(s, Wait)}
      ELSE IF AtEnd(st)
        THEN {Answer([s EXCEPT !.robots[r].waiting = FALSE], [type |-> "done", nodes |-> <<>>])}
      ELSE IF ~stuck
        THEN {Answer(s2, [type |-> "segment", nodes |-> NextSegment(s2.robots[r])])}
      ELSE IF NextNode(st) \subseteq s2.blocked /\ NextNode(st) # {Goal(st)}
        THEN Detour(s2, r)
        ELSE {Answer(s2, Wait)}

\* report_obstacle: blocks the node ahead for everyone, then goes around it
\* unless it is the goal.  The GUI is told of every node blocked this way.
OnBlockedRequest(s, r) ==
  LET st == s.robots[r]
      s1 == [s EXCEPT !.blocked = @ \cup NextNode(st), !.announced = @ \cup NextNode(st)]
  IN  IF ~HasRoute(st) \/ AtEnd(st) THEN {Answer(s, Wait)}
      ELSE IF NextNode(st) = {Goal(st)} THEN {Answer(s1, Wait)}
      ELSE Detour(s1, r)

\* update_position: r is within the arrival radius of n.  The last index of
\* the window with that node is passed: blocks up to it are lifted, and the
\* nodes behind it released unless the window meets them again.
PassedIndex(st, n) == {i \in (st.index + 1)..st.reserved_end : st.route[i] = n}

\* Mutant: every node behind is released, in the window or not.
AdvanceReleasingAll(s, r, i) ==
  [s EXCEPT !.robots[r].index = i,
            !.robots[r].escape_end = IF i >= @ THEN 0 ELSE @,
            !.reservations = [m \in Node |->
                IF m \in {s.robots[r].route[j] : j \in 1..(i - 1)} /\ s.reservations[m] = r
                  THEN NoRobot ELSE s.reservations[m]]]

Advance(s, r, i) ==
  LET st   == s.robots[r]
      keep == {st.route[j] : j \in i..st.reserved_end}
      past == {st.route[j] : j \in 1..(i - 1)} \ keep
  IN  [s EXCEPT !.robots[r].index = i,
                !.robots[r].escape_end = IF i >= @ THEN 0 ELSE @,
                !.reservations = [m \in Node |->
                    IF m \in past /\ s.reservations[m] = r THEN NoRobot ELSE s.reservations[m]]]

OnPose(s, r, n) ==
  LET st == s.robots[r]
      i  == Max(PassedIndex(st, n))
      unblocked == {st.route[j] : j \in (st.index + 1)..i}
  IN  IF PassedIndex(st, n) = {} THEN s
      ELSE Advance([s EXCEPT !.blocked = @ \ unblocked], r, i)

OnUnblock(s, nodes) == [s EXCEPT !.blocked = @ \ nodes]

\* Mutant: every announcement is forgotten.
ReconcileAll(s) == [s EXCEPT !.announced = {}]

\* The timer's first half: announced blocks that are gone are cleared.
Reconcile(s) == [s EXCEPT !.announced = @ \cap s.blocked]

-----------------------------------------------------------------------------
(* Giving way.                                                             *)

\* The shortest ways off the opponent's planned route, over nodes that are
\* neither blocked nor another robot's.
EscapeRoutes(s, r, opponent) ==
  LET here == CurrentNode(s.robots[r])
      ways == UNION { {p \in WalksBetween[<<here, n>>] :
                         \A i \in 2..Len(p) : p[i] \notin s.blocked /\ FreeFor(s, p[i], r)} :
                      n \in Node \ (Remaining(s.robots[opponent]) \cup {here}) }
  IN  {p \in ways : \A q \in ways : Len(p) <= Len(q)}

\* Number of nodes of the escape route; no route has more than all of them.
EscapeCost(s, r, opponent) ==
  LET ways == EscapeRoutes(s, r, opponent)
  IN  IF ways = {} THEN Cardinality(Node) + 1 ELSE Len(CHOOSE p \in ways : TRUE)

\* The robot with the cheaper escape gives way, then the empty one, then the
\* smaller id; {} when neither can.
PickYielder(s, a, b) ==
  LET Yields(r, q) ==
        LET cr == EscapeCost(s, r, q)
            cq == EscapeCost(s, q, r)
        IN  /\ cr <= Cardinality(Node)
            /\ \/ cr < cq
               \/ cr = cq /\ ~s.robots[r].laden /\ s.robots[q].laden
               \/ cr = cq /\ s.robots[r].laden = s.robots[q].laden /\ r < q
  IN  {r \in {a, b} : Yields(r, IF r = a THEN b ELSE a)}

\* The escape route, then the cheapest way on to the goal.  The robot is
\* escaping until the end of the former, and holds its node for the winner.
YieldAlong(s, r, opponent, escape) ==
  LET st    == s.robots[r]
      tails == CheapestRoutes(Last(escape), Goal(st), s.blocked, {}, Others(s, r))
      moved(tail) ==
        [InstallRoute(s, r, escape \o Tail(tail), st.laden)
           EXCEPT !.robots[r].escape_end = Len(escape),
                  !.hold[r] = <<opponent, CurrentNode(st)>>]
  IN  IF tails = {} \/ ~FreeFor(s, CurrentNode(st), r)
        THEN {Refused(s)}
        ELSE {Done(moved(tail)) : tail \in tails}

\* Mutant: the node is noted where the winner belongs.
YieldRouteForNode(s, r, opponent) ==
  UNION {YieldAlong(s, r, CurrentNode(s.robots[r]), escape) :
           escape \in EscapeRoutes(s, r, opponent)}

YieldRoute(s, r, opponent) ==
  LET escapes == EscapeRoutes(s, r, opponent)
  IN  IF escapes = {} THEN {Refused(s)}
      ELSE UNION {YieldAlong(s, r, opponent, escape) : escape \in escapes}

\* The fallback: around the opponent's current and next node, or, when the
\* opponent stands on the goal, to the goal by another edge.
Reroute(s, r, opponent) ==
  LET st    == s.robots[r]
      here  == CurrentNode(st)
      there == CurrentNode(s.robots[opponent])
  IN  IF Goal(st) = there
        THEN SetRoute(s, r, here, Goal(st), st.laden, {}, {{here, there}})
        ELSE SetRoute(s, r, here, Goal(st), st.laden,
                      {there} \cup NextNode(s.robots[opponent]), {})

IsHeadOn(s, a, b) ==
  /\ NextNode(s.robots[a]) = {CurrentNode(s.robots[b])}
  /\ NextNode(s.robots[b]) = {CurrentNode(s.robots[a])}

\* Mutant: the absent end of an escape counts as one.
EscapingAlways(st) == st.escape_end >= 0
Escaping(st) == st.escape_end # 0

\* A pair to arbitrate: face to face, neither on its way out already.
Faces(s, a, b) ==
  IsHeadOn(s, a, b) /\ ~Escaping(s.robots[a]) /\ ~Escaping(s.robots[b])

\* Outcomes of arbitrating a pair, with the robots told to reroute.
Outcome(o, r) == [s |-> o.s, rerouted |-> IF o.ok THEN {r} ELSE {}]

FallBack(s, loser, winner) == {Outcome(o, loser) : o \in Reroute(s, loser, winner)}

Arbitrate(s, a, b) ==
  LET Other(r) == IF r = a THEN b ELSE a
  IN  IF PickYielder(s, a, b) = {}
        THEN FallBack(s, Max({a, b}), Min({a, b}))
        ELSE UNION { UNION { IF o.ok THEN {Outcome(o, r)} ELSE FallBack(s, r, Other(r)) :
                             o \in YieldRoute(s, r, Other(r)) } :
                     r \in PickYielder(s, a, b) }

\* A waiting robot gives way early to the robot that has reserved its next
\* node and is coming its way, unless one of the two is escaping.
YieldsEarlyTo(s, x) ==
  LET st == s.robots[x]
  IN  {y \in Robot \ {x} :
         /\ ~Escaping(st)
         /\ s.reservations[st.route[st.index + 1]] = y
         /\ ~Escaping(s.robots[y])
         /\ CurrentNode(st) \in Remaining(s.robots[y])}

YieldEarly(s, x) ==
  IF YieldsEarlyTo(s, x) = {} THEN {[s |-> s, rerouted |-> {}]}
  ELSE UNION { {Outcome(o, x) : o \in YieldRoute(s, x, y)} : y \in YieldsEarlyTo(s, x) }

-----------------------------------------------------------------------------
(* The steps.                                                              *)

\* Mutant: every robot with a route.
RoutedRobots(s) == {r \in Robot : HasRoute(s.robots[r])}
WaitingRobots(s) == {r \in Robot : s.robots[r].waiting}
Pairs(s) ==
  {{a, b} : a \in WaitingRobots(s), b \in {r \in Robot : HasRoute(s.robots[r])}}

NoSweep == [pairs |-> {}, early |-> {}]
Idle == sweep = NoSweep

TrafficInit == tm = NewManager /\ sweep = NoSweep

RouteRequest(r) ==
  /\ Idle
  /\ \E start \in Node, goal \in Stop, laden \in BOOLEAN :
       \E o \in OnRouteRequest(tm, r, start, goal, laden) : tm' = o.s
  /\ UNCHANGED sweep

SegmentRequest(r) ==
  /\ Idle
  /\ \E o \in OnSegmentRequest(tm, r) : tm' = o.s
  /\ UNCHANGED sweep

BlockedRequest(r) ==
  /\ Idle
  /\ \E o \in OnBlockedRequest(tm, r) : tm' = o.s
  /\ UNCHANGED sweep

Pose(r) ==
  /\ Idle
  /\ \E n \in Node : tm' = OnPose(tm, r, n)
  /\ UNCHANGED sweep

Unblock ==
  /\ Idle
  /\ \E nodes \in {{n} : n \in Node} \cup {Node} : tm' = OnUnblock(tm, nodes)
  /\ UNCHANGED sweep

\* The timer: reconcile, then sweep the pairs with a waiting robot and then
\* the waiting robots themselves, in any order within each list.
StartSweep ==
  /\ Idle
  /\ sweep' = [pairs |-> {p \in Pairs(tm) : Cardinality(p) = 2}, early |-> WaitingRobots(tm)]

Timer == StartSweep /\ tm' = Reconcile(tm)

SweepPair(a, b, rerouted) ==
  /\ a < b
  /\ {a, b} \in sweep.pairs
  /\ IF Faces(tm, a, b)
       THEN /\ \E o \in Arbitrate(tm, a, b) : tm' = o.s /\ rerouted = o.rerouted
            /\ sweep' = [pairs |-> sweep.pairs \ {{a, b}}, early |-> sweep.early \ {a, b}]
       ELSE /\ rerouted = {}
            /\ sweep' = [sweep EXCEPT !.pairs = @ \ {{a, b}}]
            /\ UNCHANGED tm

SweepEarly(x, rerouted) ==
  /\ sweep.pairs = {} /\ x \in sweep.early
  /\ \E o \in YieldEarly(tm, x) : tm' = o.s /\ rerouted = o.rerouted
  /\ sweep' = [sweep EXCEPT !.early = @ \ {x}]

TrafficNext ==
  \/ \E r \in Robot : RouteRequest(r) \/ SegmentRequest(r) \/ BlockedRequest(r) \/ Pose(r)
  \/ Unblock
  \/ Timer
  \/ \E a, b \in Robot, told \in SUBSET Robot : SweepPair(a, b, told)
  \/ \E x \in Robot, told \in SUBSET Robot : SweepEarly(x, told)

TrafficSpec == TrafficInit /\ [][TrafficNext]_trafficVars

-----------------------------------------------------------------------------
(* Properties.                                                             *)

\* Every field keeps its type, under every order of requests, poses, operator
\* commands and timer steps: routes, indices, holders, holds and block lists.
TypeOK ==
  /\ tm \in Manager
  /\ sweep \in [pairs : SUBSET SUBSET Robot, early : SUBSET Robot]

\* A robot without a route has the initial state; else its reserved window is
\* a piece of the route, and starts at the current node.
WindowInRoute(s) ==
  \A r \in Robot :
    LET st == s.robots[r]
    IN  \/ st = NoState
        \/ 1 <= st.index /\ st.index <= st.reserved_end /\ st.reserved_end <= Len(st.route)

\* A node is reserved for exactly the robot whose window it is in.
ReservedIsWindow(s) ==
  \A r \in Robot, n \in Node : s.reservations[n] = r <=> n \in Window(s.robots[r])

\* The table of reservations and the windows of the routes are kept apart in
\* the code (reservations, and index..reserved_end of every RobotState), and
\* every operation updates both: no node of a window is free or another
\* robot's, and no node stays reserved once no window has it (_install_route,
\* reserve_forward, _advance).
WindowsReserved == WindowInRoute(tm) /\ ReservedIsWindow(tm)

\* A robot marked as waiting has a next node and has used up its window.
StuckIfWaiting(st) == st.waiting => ~AtEnd(st) /\ st.reserved_end = st.index

\* A robot marked as waiting is not at its end and has used up its window, however
\* its route was changed since: so it has a next node, and holds nothing but the
\* node it stands on, when the deadlock sweep picks it.  What the mark may have
\* wrong is the rest: the next node may be free again, and the sweep looks.
WaitingOnNext == \A r \in Robot : StuckIfWaiting(tm.robots[r])

\* resolve_deadlock collects the waiting robots first and reads the node after
\* each one's current node later, when it may have changed other routes: every
\* robot still to be visited has such a node (route[index + 1] exists).
EarlyHasNext == \A x \in sweep.early : ~AtEnd(tm.robots[x])

\* No node occurs twice in a window, so that update_position, which takes the
\* last index of the window with the robot's node, skips no part of the route.
NoFalsePass ==
  \A r \in Robot :
    LET st == tm.robots[r]
    IN  \A i, j \in st.index..st.reserved_end : st.route[i] = st.route[j] => i = j

\* Every blocked node is shown to the operator: the node's own list of announced
\* blocks keeps up with the manager's.  (The GUI offers to remove a block of kind
\* reroute, which no robot may ever pass; it leaves the others to heal themselves.)
BlockedIsAnnounced == tm.blocked \subseteq tm.announced

HeldNodes == [r \in Robot |-> Window(tm.robots[r])]
PlaceOf == [r \in Robot |-> IF HasRoute(tm.robots[r]) THEN CurrentNode(tm.robots[r]) ELSE 0]

\* What the windows and current nodes promise to the robots.
Interlock == INSTANCE Interlocking WITH held <- HeldNodes, at <- PlaceOf

\* The manager is an interlocking for robots that may ask for a route from any
\* node: each of its operations changes the window of one robot only, to nodes
\* that no other robot holds, the robot's own node always among them.
IsInterlocking == Interlock!SpecDisplacing

\* The step answers a route request of r from a node outside its window.
AnswersRequest(r) ==
  /\ PlaceOf'[r] \in Node \ HeldNodes[r]
  /\ \E goal \in Stop, laden \in BOOLEAN :
       \E o \in OnRouteRequest(tm, r, PlaceOf'[r], goal, laden) : tm' = o.s

\* Only a route request puts a robot at a node outside its window: poses,
\* detours, and the re-plannings of the deadlock sweep (_yield_route, _reroute)
\* leave it within the nodes it holds.
OnlyRequestsDisplace ==
  [][\/ \E r \in Robot : Interlock!Change(r)
     \/ \E r \in Robot : AnswersRequest(r)]_<<HeldNodes, PlaceOf>>

=============================================================================
