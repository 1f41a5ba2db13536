------------------------------- MODULE Travel -------------------------------
(***************************************************************************)
(* Robots driving under the traffic manager: the travel loop of every      *)
(* robot (travel.py), the topics between robot and manager, and where the  *)
(* robots really are.                                                      *)
(*                                                                         *)
(* A robot runs through an itinerary of trips, one _travel call each; its  *)
(* mission loop decides them, here they are constants.  A call may be      *)
(* given up for the next one at the four places where _travel looks at its *)
(* flags: a cancelled call at the head of either loop, a preempted one     *)
(* (the way home, while an assignment is queued) at the head of the        *)
(* segment loop and, at once, when a request for a route was not answered  *)
(* by a route.  Requests and answers carry no identifier: whatever arrives *)
(* while a robot waits is taken for the answer.  A message takes less time *)
(* than the second a robot sleeps between two attempts, than a drive, and  *)
(* than the work between two trips, and what a sweep sets off by telling a *)
(* robot of its new route is over by the next sweep, half a second later;  *)
(* nothing is assumed of messages otherwise.                               *)
(*                                                                         *)
(* A robot is at a node or on the edge between two nodes; nav2 drives it   *)
(* to the end of the segment, and AMCL publishes a pose whenever it comes  *)
(* to a node.  An obstacle stands on a node, and a robot that is stopped   *)
(* by it counts as at the node before.                                     *)
(***************************************************************************)
EXTENDS Traffic

CONSTANTS
  Home,          \* [Robot -> Node], where the robots start
  Itinerary,     \* per robot: its calls [to |-> node, laden, preempt |-> BOOLEAN]
  Cancels,       \* robots whose travel calls may be cancelled
  Loses,         \* robots whose requests and answers may be lost
  Breaks,        \* robots whose drives may fail
  Spots          \* bound: the nodes where obstacles may be put

NoNode == 0

ASSUME TravelAssumption ==
  /\ NoNode \notin Node
  /\ Home \in [Robot -> Node]
  /\ Itinerary \in [Robot -> Seq([to : Stop, laden : BOOLEAN, preempt : BOOLEAN])]
  /\ Cancels \subseteq Robot /\ Loses \subseteq Robot /\ Breaks \subseteq Robot
  /\ Spots \subseteq Node

VARIABLES
  fsm,        \* per robot: pc of _travel, current node, trips left, segment end
  request,    \* per robot: requests on /traffic/request not handled yet
  response,   \* per robot: messages on /traffic/response not received yet
  inbox,      \* per robot: _resp with its event set, or NoMessage
  pos,        \* per robot: <<n, n>> at node n, <<n, m>> on the way from n to m
  pose,       \* per robot: the last pose the manager has not handled, or NoNode
  obstacle    \* the nodes with an obstacle on them

robotVars == <<fsm, request, response, inbox>>
floorVars == <<pos, pose, obstacle>>
vars == <<tm, sweep, fsm, request, response, inbox, pos, pose, obstacle>>

NoMessage == [type |-> "none", nodes |-> <<>>]

TravelInit ==
  /\ TrafficInit
  /\ fsm = [r \in Robot |-> [pc |-> "rest", current |-> Home[r], trips |-> Itinerary[r],
                             target |-> NoNode]]
  /\ request = [r \in Robot |-> <<>>]
  /\ response = [r \in Robot |-> <<>>]
  /\ inbox = [r \in Robot |-> NoMessage]
  /\ pos = [r \in Robot |-> <<Home[r], Home[r]>>]
  /\ pose = [r \in Robot |-> NoNode]
  /\ obstacle = {}

At(r, pc) == fsm[r].pc = pc
Goto(r, pc) == fsm' = [fsm EXCEPT ![r].pc = pc]

-----------------------------------------------------------------------------
(* The travel loop.                                                        *)

\* Nothing is on its way between the robot and the manager.
Settled(r) == request[r] = <<>> /\ response[r] = <<>>

OnlyRobotMoves == UNCHANGED <<tm, sweep, request, response, inbox, floorVars>>

\* The mission loop calls _travel for the next trip.
Depart(r) ==
  /\ At(r, "rest") /\ fsm[r].trips # <<>> /\ Settled(r)
  /\ Goto(r, "route")
  /\ OnlyRobotMoves

\* time.sleep(1.0) before the next attempt.
WakeUp(r) ==
  /\ Settled(r)
  /\ \/ At(r, "routeSleep") /\ Goto(r, "route")
     \/ At(r, "segmentSleep") /\ Goto(r, "segment")
  /\ OnlyRobotMoves

\* Mutant: the event of an earlier message is left set.
AskWithoutClear(r, type, next) ==
  /\ request' = [request EXCEPT ![r] = Append(@, type)]
  /\ Goto(r, next)
  /\ UNCHANGED <<tm, sweep, inbox, response, floorVars>>

\* A request clears the event before it is published (_transact).
Ask(r, type, next) ==
  /\ request' = [request EXCEPT ![r] = Append(@, type)]
  /\ inbox' = [inbox EXCEPT ![r] = NoMessage]
  /\ Goto(r, next)
  /\ UNCHANGED <<tm, sweep, response, floorVars>>

AskRoute(r) == At(r, "route") /\ Ask(r, <<"route", fsm[r].current, Head(fsm[r].trips)>>, "routeAsked")
AskSegment(r) == At(r, "segment") /\ Ask(r, <<"segment">>, "segmentAsked")
AskAround(r) == At(r, "blocked") /\ Ask(r, <<"blocked">>, "blockedAsked")

\* Whatever came in is the answer to the request that is waiting; _transact
\* returns None when it was lost.
Received(r) == inbox[r] # NoMessage
TimedOut(r) == inbox[r] = NoMessage /\ Settled(r)
Answered(r, types) == inbox[r].type \in types /\ OnlyRobotMoves

RouteAnswered(r) ==
  /\ At(r, "routeAsked") /\ Answered(r, {"route"})
  /\ Goto(r, "segment")

\* The request for a route is refused, lost, or answered by another message.
NoRoute(r) ==
  /\ At(r, "routeAsked")
  /\ (Received(r) /\ inbox[r].type # "route") \/ TimedOut(r)

RouteRefused(r) == NoRoute(r) /\ Goto(r, "routeSleep") /\ OnlyRobotMoves

\* Mutant: the flags are looked at while driving, too.
GiveUpAnywhere(r) ==
  /\ Len(fsm[r].trips) > 1
  /\ \/ r \in Cancels /\ fsm[r].pc \in {"route", "segment", "drive"}
     \/ Head(fsm[r].trips).preempt /\ (fsm[r].pc \in {"segment", "drive"} \/ NoRoute(r))
  /\ fsm' = [fsm EXCEPT ![r].pc = "route", ![r].trips = Tail(@)]
  /\ OnlyRobotMoves

\* A cancel is seen at the head of either loop; the assignment that preempts the
\* call at the head of the segment loop and where there is no route, before the
\* sleep.  The mission loop calls _travel again, for the next trip.
GiveUp(r) ==
  /\ Len(fsm[r].trips) > 1
  /\ \/ r \in Cancels /\ fsm[r].pc \in {"route", "segment"}
     \/ Head(fsm[r].trips).preempt /\ (At(r, "segment") \/ NoRoute(r))
  /\ fsm' = [fsm EXCEPT ![r].pc = "route", ![r].trips = Tail(@)]
  /\ OnlyRobotMoves

SegmentGiven(r) ==
  /\ At(r, "segmentAsked") /\ Answered(r, {"segment"})
  /\ fsm' = [fsm EXCEPT ![r].pc = "drive", ![r].target = Last(inbox[r].nodes)]

MustWait(r) ==
  /\ At(r, "segmentAsked") /\ Answered(r, {"wait"})
  /\ Goto(r, "segmentSleep")

\* A new route: the loop goes on from its first node.
Rerouted(r) ==
  /\ fsm[r].pc \in {"segmentAsked", "blockedAsked"} /\ Answered(r, {"reroute"})
  /\ fsm' = [fsm EXCEPT ![r].pc = "segment", ![r].current = Head(inbox[r].nodes)]

NoWayAround(r) ==
  /\ At(r, "blockedAsked")
  /\ (Received(r) /\ inbox[r].type # "reroute") \/ TimedOut(r)
  /\ Goto(r, "segmentSleep") /\ OnlyRobotMoves

Arrived(r) ==
  /\ At(r, "segmentAsked") /\ Answered(r, {"done"})
  /\ fsm' = [fsm EXCEPT ![r].pc = "rest", ![r].trips = Tail(@)]

\* Without an answer, or with any other one, the call fails and the robot
\* stops in state ERROR.
Fails(r) ==
  /\ At(r, "segmentAsked")
  /\ inbox[r].type = "route" \/ TimedOut(r)
  /\ Goto(r, "failed") /\ OnlyRobotMoves

-----------------------------------------------------------------------------
(* Driving (nav2) and localisation (AMCL).                                 *)

Near(r) == pos[r][1]
Ahead(r) == pos[r][2]
AtNode(r) == Near(r) = Ahead(r)
Footprint(r) == {Near(r), Ahead(r)}

Distance(a, b) == Abs(Dx(a, b)) + Abs(Dy(a, b))

\* The node nav2 makes for: from a node a neighbour that is nearer to the target,
\* from an edge its end that is.
Heading(r, m) ==
  /\ IF AtNode(r) THEN Adjacent(Near(r), m) ELSE m \in Footprint(r)
  /\ \E n \in Footprint(r) : Distance(m, fsm[r].target) < Distance(n, fsm[r].target)

Move(r, place) ==
  /\ pos' = [pos EXCEPT ![r] = place]
  /\ pose' = IF place[1] = place[2] THEN [pose EXCEPT ![r] = place[1]] ELSE pose
  /\ UNCHANGED <<tm, sweep, fsm, request, response, inbox, obstacle>>

LeaveNode(r) ==
  /\ At(r, "drive") /\ AtNode(r)
  /\ \E m \in Node \ obstacle : Heading(r, m) /\ Move(r, <<Near(r), m>>)

EnterNode(r) ==
  /\ At(r, "drive") /\ ~AtNode(r)
  /\ \E m \in Node : Heading(r, m) /\ Move(r, <<m, m>>)

\* nav2 succeeds at the end of the segment.
SegmentDone(r) ==
  /\ At(r, "drive") /\ pos[r] = <<fsm[r].target, fsm[r].target>>
  /\ Settled(r)
  /\ fsm' = [fsm EXCEPT ![r].pc = "segment", ![r].current = fsm[r].target]
  /\ OnlyRobotMoves

\* nav2 gives up after RECOVERY_BLOCK recoveries in front of an obstacle; they
\* take seconds, so the manager has seen the last pose by then.
StoppedByObstacle(r) ==
  /\ At(r, "drive") /\ AtNode(r) /\ pose[r] = NoNode /\ Settled(r)
  /\ \E m \in obstacle : Heading(r, m)
  /\ Goto(r, "blocked")
  /\ OnlyRobotMoves

\* nav2 refuses the goal or aborts: the robot stops where it is.
DriveFails(r) ==
  /\ r \in Breaks /\ At(r, "drive")
  /\ Goto(r, "failed")
  /\ OnlyRobotMoves

-----------------------------------------------------------------------------
(* The floor.                                                              *)

PlaceObstacle(n) ==
  /\ n \in Spots \ obstacle /\ \A r \in Robot : n \notin Footprint(r)
  /\ obstacle' = obstacle \cup {n}
  /\ UNCHANGED <<tm, sweep, robotVars, pos, pose>>

RemoveObstacle(n) ==
  /\ n \in obstacle
  /\ obstacle' = obstacle \ {n}
  /\ UNCHANGED <<tm, sweep, robotVars, pos, pose>>

\* The operator lifts a block shown on the GUI once the obstacle is gone: with its
\* button if the block is of kind reroute, any other on the topic by hand.
OperatorUnblocks(n) ==
  /\ Idle /\ n \in tm.announced \ obstacle
  /\ tm' = OnUnblock(tm, {n})
  /\ UNCHANGED <<sweep, robotVars, floorVars>>

-----------------------------------------------------------------------------
(* The manager's callbacks.                                                *)

\* The answers of the manager to a request, by its type.
Outcomes(r, req) ==
  CASE req[1] = "route"   -> OnRouteRequest(tm, r, req[2], req[3].to, req[3].laden)
    [] req[1] = "segment" -> OnSegmentRequest(tm, r)
    [] req[1] = "blocked" -> OnBlockedRequest(tm, r)

HandleRequest(r) ==
  /\ Idle /\ request[r] # <<>>
  /\ \E o \in Outcomes(r, Head(request[r])) :
       /\ tm' = o.s
       /\ response' = [response EXCEPT ![r] = Append(@, o.reply)]
  /\ request' = [request EXCEPT ![r] = Tail(@)]
  /\ UNCHANGED <<sweep, fsm, inbox, floorVars>>

HandlePose(r) ==
  /\ Idle /\ pose[r] # NoNode
  /\ tm' = OnPose(tm, r, pose[r])
  /\ pose' = [pose EXCEPT ![r] = NoNode]
  /\ UNCHANGED <<sweep, robotVars, pos, obstacle>>

\* Nothing is on its way but the request or the answer that r waits for.  Only a
\* message of a sweep, which r did not ask for, ever makes it otherwise.
Calm(r) ==
  \/ Settled(r)
  \/ /\ fsm[r].pc \in {"routeAsked", "segmentAsked", "blockedAsked"} /\ ~Received(r)
     /\ Len(request[r]) + Len(response[r]) = 1

\* When the timer is due again, the robots are through with the last sweep.
Due == \A r \in Robot : Calm(r)

HandleTimer == Due /\ Timer /\ UNCHANGED <<robotVars, floorVars>>

\* The robots a sweep reroutes are told so, whether they wait for it or not.
Tell(rerouted) ==
  /\ response' = [r \in Robot |-> IF r \in rerouted
                    THEN Append(response[r], RouteReply("reroute", tm', r)) ELSE response[r]]
  /\ UNCHANGED <<fsm, request, inbox, floorVars>>

Sweep ==
  \E rerouted \in SUBSET Robot :
    /\ \/ \E a, b \in Robot : SweepPair(a, b, rerouted)
       \/ \E x \in Robot : SweepEarly(x, rerouted)
    /\ Tell(rerouted)

\* A message reaches the robot's callback: the last one overwrites the others.
Deliver(r) ==
  /\ response[r] # <<>>
  /\ inbox' = [inbox EXCEPT ![r] = Head(response[r])]
  /\ response' = [response EXCEPT ![r] = Tail(@)]
  /\ UNCHANGED <<tm, sweep, fsm, request, floorVars>>

Lose(r) ==
  /\ r \in Loses
  /\ \/ request[r] # <<>> /\ request' = [request EXCEPT ![r] = Tail(@)] /\ UNCHANGED response
     \/ response[r] # <<>> /\ response' = [response EXCEPT ![r] = Tail(@)] /\ UNCHANGED request
  /\ UNCHANGED <<tm, sweep, fsm, inbox, floorVars>>

-----------------------------------------------------------------------------

Reads(r) ==
  \/ RouteAnswered(r) \/ RouteRefused(r) \/ SegmentGiven(r) \/ MustWait(r)
  \/ Rerouted(r) \/ NoWayAround(r) \/ Arrived(r) \/ Fails(r)

Loop(r) == Depart(r) \/ WakeUp(r) \/ AskRoute(r) \/ AskSegment(r) \/ AskAround(r) \/ Reads(r)
Drive(r) == LeaveNode(r) \/ EnterNode(r) \/ SegmentDone(r) \/ StoppedByObstacle(r)

TravelNext ==
  \/ \E r \in Robot : Loop(r) \/ GiveUp(r) \/ Drive(r) \/ DriveFails(r)
  \/ \E r \in Robot : HandleRequest(r) \/ HandlePose(r) \/ Deliver(r) \/ Lose(r)
  \/ HandleTimer \/ Sweep
  \/ \E n \in Node : PlaceObstacle(n) \/ RemoveObstacle(n) \/ OperatorUnblocks(n)

\* The mission thread of a robot, its response callback, the manager's
\* callbacks and its timer keep running, and a sweep ends.  Nobody has to take
\* an obstacle away or to lift a block.
RequestTaken(r) == Idle /\ request[r] # <<>> /\ request' = [request EXCEPT ![r] = Tail(@)]
PoseTaken(r) == Idle /\ pose[r] # NoNode /\ pose' = [pose EXCEPT ![r] = NoNode]

Fairness ==
  /\ \A r \in Robot :
       /\ WF_vars(Loop(r) \/ Drive(r)) /\ WF_vars(Deliver(r))
       /\ SF_request(RequestTaken(r)) /\ SF_pose(PoseTaken(r))
  /\ WF_sweep(Due /\ StartSweep) /\ []<>Idle

TravelSpec == TravelInit /\ [][TravelNext]_vars /\ Fairness

-----------------------------------------------------------------------------
(* Properties.                                                             *)

\* No two robots are at, or on the edge to or from, the same node: the
\* reservations keep the robots apart on the floor.
Separated ==
  \A r, q \in Robot : r # q => Footprint(r) \cap Footprint(q) = {}

\* A robot with a route has reserved the node or the edge it is at, however
\* far the manager's index lags behind the robot (update_position, _advance).
FootprintReserved ==
  \A r \in Robot : HasRoute(tm.robots[r]) =>
    \A n \in Footprint(r) : tm.reservations[n] = r

\* The robots that drive under the manager are never displaced in its tables:
\* whenever a robot asks for a route, it asks from a node of its window (the
\* node it remembers, self.current, follows the manager's index), so that the
\* nodes given back by _install_route are not the ones the robot stands on.
NeverDisplaced == Interlock!Spec

\* The robots with a call that an assignment may preempt.
Preemptable == {r \in Robot : \E i \in DOMAIN Itinerary[r] : Itinerary[r][i].preempt}

\* As long as nothing is lost and no drive fails, no robot whose calls are not
\* preempted ends in ERROR by taking another message for the answer to its
\* segment request: reroutes sent by the timer cross requests and answers.  A
\* preempted robot may: such a reroute ends its call while the request for a
\* route is still open (travel.py:63-64), the next call takes that answer for
\* its own, and its own comes in for a segment (travel.py:100-102).
NeverFails == \A r \in Robot \ Preemptable : ~At(r, "failed")

\* r waits in front of a blocked node, or face to face with a robot that waits.
Stuck(r) ==
  LET robots == tm.robots
  IN  /\ robots[r].waiting
      /\ \/ NextNode(robots[r]) \cap tm.blocked # {}
         \/ \E q \in Robot \ {r} : robots[q].waiting /\ IsHeadOn(tm, r, q)

\* Once the obstacles are gone for good, no robot stays stuck although nobody
\* lifts a block: a blocked node in front of a waiting robot comes to be passed
\* and unblocks itself, and of two robots face to face the sweep gets one out of
\* the other's way, a hold or an escape notwithstanding.
NobodyStaysStuck == <>[](obstacle = {}) => \A r \in Robot : []<>~Stuck(r)

=============================================================================
