---------------------------- MODULE TravelProofs ----------------------------
(***************************************************************************)
(* Proofs about the robots driving under the traffic manager, for any      *)
(* graph, any robots and any itineraries.                                  *)
(***************************************************************************)
EXTENDS Travel, TrafficProofs

-----------------------------------------------------------------------------
(* Types.                                                                  *)

Trip == [to : Stop, laden : BOOLEAN, preempt : BOOLEAN]

Places == {"rest", "route", "routeAsked", "routeSleep", "segment", "segmentAsked",
           "segmentSleep", "drive", "blocked", "blockedAsked", "failed"}

FsmState == [pc : Places, current : Node, trips : Seq(Trip), target : Node \cup {NoNode}]

Request == {<<"segment">>, <<"blocked">>} \cup ({"route"} \X Node \X Trip)

\* The messages that name nodes name at least one.
Message ==
  {m \in [type : {"route", "reroute", "segment", "wait", "done"}, nodes : Seq(Node)] :
     m.type \in {"route", "reroute", "segment"} => m.nodes # <<>>}

\* A call of _travel that has not come to its end has a trip, and the trips left
\* are of the robot's own itinerary as to what preempts them.
OnTrip(r, g) ==
  /\ g.pc \notin {"rest", "failed"} => g.trips # <<>>
  /\ \A i \in 1..Len(g.trips) : g.trips[i].preempt => r \in Preemptable

TravelTypes ==
  /\ fsm \in [Robot -> FsmState]
  /\ \A r \in Robot : OnTrip(r, fsm[r])
  /\ request \in [Robot -> Seq(Request)]
  /\ response \in [Robot -> Seq(Message)]
  /\ inbox \in [Robot -> Message \cup {NoMessage}]
  /\ pos \in [Robot -> Node \X Node]
  /\ pose \in [Robot -> Node \cup {NoNode}]
  /\ obstacle \subseteq Spots

\* The state of the manager for a robot, as the manager's invariant has it.
Sound(st) ==
  /\ st \in RobotState
  /\ \/ st = NoState
     \/ 1 <= st.index /\ st.index <= st.reserved_end /\ st.reserved_end <= Len(st.route)
  /\ RouteOK(st)

\* All there is about one robot: what the manager knows of it, its loop, the
\* messages between the two, where it is and its last pose.
Views ==
  [st : RobotState, pc : Places, current : Node, target : Node \cup {NoNode},
   req : Seq(Request), resp : Seq(Message), in : Message \cup {NoMessage},
   near : Node, ahead : Node, pose : Node \cup {NoNode}]

View(r) ==
  [st |-> tm.robots[r], pc |-> fsm[r].pc, current |-> fsm[r].current,
   target |-> fsm[r].target, req |-> request[r], resp |-> response[r], in |-> inbox[r],
   near |-> pos[r][1], ahead |-> pos[r][2], pose |-> pose[r]]

\* Every robot's state is sound.
LEMMA CoreSound ==
  ASSUME NEW s, Core(s), NEW r \in Robot
  PROVE  Sound(s.robots[r])
  BY DEF Core, Manager, WindowInRoute, Sound

\* So views have their type.
LEMMA ViewTypes ==
  ASSUME TravelTypes, Core(tm), NEW r \in Robot
  PROVE  View(r) \in Views /\ Sound(View(r).st)
<1>1. Sound(tm.robots[r]) /\ tm.robots[r] \in RobotState
  BY CoreSound DEF Sound
<1>2. /\ fsm[r] \in FsmState /\ request[r] \in Seq(Request) /\ response[r] \in Seq(Message)
      /\ inbox[r] \in Message \cup {NoMessage}
      /\ pos[r] \in Node \X Node /\ pose[r] \in Node \cup {NoNode}
  BY DEF TravelTypes
<1>3. /\ fsm[r].pc \in Places /\ fsm[r].current \in Node /\ fsm[r].target \in Node \cup {NoNode}
      /\ pos[r][1] \in Node /\ pos[r][2] \in Node
  BY <1>2 DEF FsmState
<1> QED BY <1>1, <1>2, <1>3 DEF View, Views

-----------------------------------------------------------------------------
(* What the steps do to the robot they are for.                            *)

SettledView(v) == v.req = <<>> /\ v.resp = <<>>

SameLoop(v, w) == w.pc = v.pc /\ w.current = v.current /\ w.target = v.target
SameMail(v, w) == w.req = v.req /\ w.resp = v.resp /\ w.in = v.in
SameFloor(v, w) == w.near = v.near /\ w.ahead = v.ahead /\ w.pose = v.pose

\* Only the place in the loop changes.
Goes(v, w, pc) == w.pc = pc /\ w.current = v.current /\ w.target = v.target

\* The robot waits for a route and is not told one.
Unrouted(v) ==
  v.pc = "routeAsked" /\ v.in.type # "route" /\ (v.in = NoMessage => SettledView(v))

\* The steps that change the robot's own state only.
Thinks(x, v, w) ==
  /\ w.st = v.st /\ SameMail(v, w) /\ SameFloor(v, w)
  /\ \/ v.pc \in {"rest", "routeSleep"} /\ SettledView(v) /\ Goes(v, w, "route")
     \/ v.pc = "segmentSleep" /\ SettledView(v) /\ Goes(v, w, "segment")
     \/ x \in Cancels /\ v.pc = "route" /\ Goes(v, w, "route")
     \/ x \in Cancels \cup Preemptable /\ v.pc = "segment" /\ Goes(v, w, "route")
     \/ x \in Preemptable /\ Unrouted(v) /\ Goes(v, w, "route")
     \/ v.pc = "routeAsked" /\ v.in.type = "route" /\ Goes(v, w, "segment")
     \/ Unrouted(v) /\ Goes(v, w, "routeSleep")
     \/ /\ v.pc = "segmentAsked" /\ v.in.type = "segment"
        /\ w.pc = "drive" /\ w.current = v.current /\ w.target = Last(v.in.nodes)
     \/ v.pc = "segmentAsked" /\ v.in.type = "wait" /\ Goes(v, w, "segmentSleep")
     \/ v.pc = "blockedAsked" /\ v.in.type # "reroute" /\ Goes(v, w, "segmentSleep")
     \/ /\ v.pc \in {"segmentAsked", "blockedAsked"} /\ v.in.type = "reroute"
        /\ w.pc = "segment" /\ w.current = Head(v.in.nodes) /\ w.target = v.target
     \/ v.pc = "segmentAsked" /\ v.in.type = "done" /\ Goes(v, w, "rest")
     \/ /\ v.pc = "segmentAsked"
        /\ v.in.type = "route" \/ (v.in = NoMessage /\ SettledView(v))
        /\ Goes(v, w, "failed")
     \/ /\ v.pc = "drive" /\ v.near = v.target /\ v.ahead = v.target /\ SettledView(v)
        /\ w.pc = "segment" /\ w.current = v.target /\ w.target = v.target
     \/ /\ v.pc = "drive" /\ v.near = v.ahead /\ v.pose = NoNode /\ SettledView(v)
        /\ obstacle # {}
        /\ Goes(v, w, "blocked")
     \/ x \in Breaks /\ v.pc = "drive" /\ Goes(v, w, "failed")

\* The requests: the inbox is cleared.
Requests(v, w) ==
  /\ w.st = v.st /\ SameFloor(v, w)
  /\ w.resp = v.resp /\ w.in = NoMessage
  /\ \E q \in Request :
       /\ w.req = Append(v.req, q)
       /\ \/ v.pc = "route" /\ q[1] = "route" /\ q[2] = v.current /\ Goes(v, w, "routeAsked")
          \/ v.pc = "segment" /\ q[1] = "segment" /\ Goes(v, w, "segmentAsked")
          \/ v.pc = "blocked" /\ q[1] = "blocked" /\ Goes(v, w, "blockedAsked")

Nearer(m, n, target) == Distance(m, target) < Distance(n, target)

\* The drive, from a node onto an edge or from an edge to its end.
Rolls(v, w) ==
  /\ v.pc = "drive"
  /\ w.st = v.st /\ SameLoop(v, w) /\ SameMail(v, w)
  /\ \/ /\ v.near = v.ahead
        /\ Adjacent(v.near, w.ahead) /\ Nearer(w.ahead, v.near, v.target)
        /\ w.near = v.near /\ w.pose = v.pose
     \/ /\ v.near # v.ahead
        /\ w.near \in {v.near, v.ahead}
        /\ Nearer(w.near, v.near, v.target) \/ Nearer(w.near, v.ahead, v.target)
        /\ w.ahead = w.near /\ w.pose = w.near

\* The messages on their way: delivered, or lost.
Receives(v, w) ==
  /\ w.st = v.st /\ SameLoop(v, w) /\ SameFloor(v, w)
  /\ v.resp # <<>>
  /\ w.in = Head(v.resp) /\ w.resp = Tail(v.resp) /\ w.req = v.req

Misses(x, v, w) ==
  /\ x \in Loses
  /\ w.st = v.st /\ SameLoop(v, w) /\ SameFloor(v, w) /\ w.in = v.in
  /\ \/ v.req # <<>> /\ w.req = Tail(v.req) /\ w.resp = v.resp
     \/ v.resp # <<>> /\ w.resp = Tail(v.resp) /\ w.req = v.req

\* The manager's state st of a robot becomes u: its window grows, or it is put
\* at the start of a new route.
Grows(st, u) ==
  u.route = st.route /\ u.index = st.index /\ st.reserved_end <= u.reserved_end

Anew(u, n) == HasRoute(u) /\ u.index = 1 /\ CurrentNode(u) = n

\* The manager's answers to a request, with their messages.
AnswersRoute(st, start, u, m) ==
  \/ u = st /\ m = Wait
  \/ Anew(u, start) /\ m.type = "route" /\ m.nodes = u.route

AnswersSegment(st, u, m) ==
  \/ u = st /\ m = Wait
  \/ /\ HasRoute(st) /\ Grows(st, u)
     /\ m.type \in {"wait", "done"} \/ IsSegment(u, m)
  \/ /\ HasRoute(st) /\ st.reserved_end = st.index
     /\ Anew(u, CurrentNode(st)) /\ m.type = "reroute" /\ m.nodes = u.route

AnswersBlocked(st, u, m) ==
  \/ u = st /\ m = Wait
  \/ HasRoute(st) /\ Anew(u, CurrentNode(st)) /\ m.type = "reroute" /\ m.nodes = u.route

Served(v, w) ==
  /\ SameLoop(v, w) /\ SameFloor(v, w) /\ w.in = v.in
  /\ v.req # <<>> /\ w.req = Tail(v.req)
  /\ \E m \in Message :
       /\ w.resp = Append(v.resp, m)
       /\ \/ Head(v.req)[1] = "route" /\ AnswersRoute(v.st, Head(v.req)[2], w.st, m)
          \/ Head(v.req)[1] = "segment" /\ AnswersSegment(v.st, w.st, m)
          \/ Head(v.req)[1] = "blocked" /\ AnswersBlocked(v.st, w.st, m)

\* A pose is handled: the index comes to the node of the window it names.
Located(v, w) ==
  /\ SameLoop(v, w) /\ SameMail(v, w) /\ w.near = v.near /\ w.ahead = v.ahead
  /\ v.pose # NoNode /\ w.pose = NoNode
  /\ \/ w.st = v.st /\ PassedIndex(v.st, v.pose) = {}
     \/ /\ HasRoute(v.st)
        /\ w.st.index \in PassedIndex(v.st, v.pose)
        /\ w.st.route = v.st.route /\ w.st.reserved_end = v.st.reserved_end

\* The sweep re-plans a robot that has used up its window.
Swept(v, w) ==
  /\ SameLoop(v, w) /\ SameFloor(v, w) /\ w.req = v.req /\ w.in = v.in
  /\ HasRoute(v.st) /\ v.st.reserved_end = v.st.index /\ Anew(w.st, CurrentNode(v.st))
  /\ \E m \in Message :
       w.resp = Append(v.resp, m) /\ m.type = "reroute" /\ m.nodes = w.st.route

\* The steps the manager takes no part in.
Quiet(x, v, w) ==
  Thinks(x, v, w) \/ Requests(v, w) \/ Rolls(v, w) \/ Receives(v, w) \/ Misses(x, v, w)

Steps(x, v, w) == Quiet(x, v, w) \/ Served(v, w) \/ Located(v, w) \/ Swept(v, w)

\* Requests and poses are handled between the sweeps.
Phased(x, v, w) ==
  \/ Quiet(x, v, w)
  \/ Idle /\ (Served(v, w) \/ Located(v, w))
  \/ ~Idle /\ Swept(v, w)

\* Only robot x takes part in the step.
Only(x) == \A q \in Robot \ {x} : View(q)' = View(q)


\* A step of the robot's own state: its view changes accordingly.
LEMMA MovesOn ==
  ASSUME TravelTypes, NEW r \in Robot, OnlyRobotMoves,
         NEW g \in FsmState, OnTrip(r, g), fsm' = [fsm EXCEPT ![r] = g]
  PROVE  /\ TravelTypes' /\ Only(r)
         /\ View(r)'.pc = g.pc /\ View(r)'.current = g.current /\ View(r)'.target = g.target
         /\ View(r)'.st = View(r).st /\ SameMail(View(r), View(r)')
         /\ SameFloor(View(r), View(r)')
<1>1. fsm' \in [Robot -> FsmState] /\ fsm'[r] = g /\ \A q \in Robot \ {r} : fsm'[q] = fsm[q]
  BY DEF TravelTypes
<1>2. /\ tm' = tm /\ request' = request /\ response' = response /\ inbox' = inbox
      /\ pos' = pos /\ pose' = pose /\ obstacle' = obstacle
  BY DEF OnlyRobotMoves, floorVars
<1>3. \A q \in Robot : OnTrip(q, fsm'[q])
  BY <1>1 DEF TravelTypes
<1>4. TravelTypes'
  BY <1>1, <1>2, <1>3 DEF TravelTypes
<1>5. Only(r)
  BY <1>1, <1>2 DEF Only, View
<1>6. /\ View(r)'.pc = g.pc /\ View(r)'.current = g.current /\ View(r)'.target = g.target
      /\ View(r)'.st = View(r).st /\ SameMail(View(r), View(r)')
      /\ SameFloor(View(r), View(r)')
  BY <1>1, <1>2 DEF View, SameMail, SameFloor
<1> QED BY <1>4, <1>5, <1>6

\* Where only the place in the loop changes, the view says so.
LEMMA GoesOn ==
  ASSUME TravelTypes, NEW r \in Robot, OnlyRobotMoves, NEW pc \in Places, Goto(r, pc),
         pc \notin {"rest", "failed"} => fsm[r].trips # <<>>
  PROVE  /\ TravelTypes' /\ Only(r)
         /\ View(r)'.st = View(r).st /\ SameMail(View(r), View(r)')
         /\ SameFloor(View(r), View(r)') /\ Goes(View(r), View(r)', pc)
<1> DEFINE g == [fsm[r] EXCEPT !.pc = pc]
<1>1. fsm[r] \in FsmState /\ fsm \in [Robot -> FsmState]
  BY DEF TravelTypes
<1>2. /\ g \in FsmState /\ g.pc = pc /\ g.current = fsm[r].current /\ g.target = fsm[r].target
      /\ g.trips = fsm[r].trips
  BY <1>1 DEF FsmState
<1>3. fsm' = [fsm EXCEPT ![r] = g]
  BY <1>1 DEF Goto
<1> HIDE DEF g
<1>4. OnTrip(r, g)
  BY <1>2 DEF TravelTypes, OnTrip
<1>5. /\ TravelTypes' /\ Only(r)
      /\ View(r)'.pc = g.pc /\ View(r)'.current = g.current /\ View(r)'.target = g.target
      /\ View(r)'.st = View(r).st /\ SameMail(View(r), View(r)')
      /\ SameFloor(View(r), View(r)')
  BY <1>2, <1>3, <1>4, MovesOn
<1>6. Goes(View(r), View(r)', pc)
  BY <1>2, <1>5 DEF View, Goes
<1> QED BY <1>5, <1>6

\* The steps of the loop that change nothing but its place.
LEMMA PlaceChanges ==
  ASSUME TravelTypes, NEW r \in Robot,
         \/ Depart(r) \/ WakeUp(r) \/ RouteAnswered(r) \/ RouteRefused(r) \/ MustWait(r)
         \/ NoWayAround(r) \/ Fails(r) \/ StoppedByObstacle(r) \/ DriveFails(r)
  PROVE  TravelTypes' /\ Only(r) /\ Thinks(r, View(r), View(r)')
<1> DEFINE v == View(r)
           w == View(r)'
           Effect(pc) == /\ TravelTypes' /\ Only(r)
                         /\ w.st = v.st /\ SameMail(v, w) /\ SameFloor(v, w) /\ Goes(v, w, pc)
<1>1. /\ v.pc = fsm[r].pc /\ v.in = inbox[r] /\ v.near = pos[r][1] /\ v.ahead = pos[r][2]
      /\ v.pose = pose[r] /\ (SettledView(v) <=> Settled(r))
  BY DEF View, SettledView, Settled
<1>2. NoMessage.type = "none"
  BY DEF NoMessage
<1>3. fsm[r].pc \notin {"rest", "failed"} => fsm[r].trips # <<>>
  BY DEF TravelTypes, OnTrip
<1>4. ASSUME NEW pc \in Places, Goto(r, pc), OnlyRobotMoves,
             pc \notin {"rest", "failed"} => fsm[r].trips # <<>>
      PROVE  Effect(pc)
  BY <1>4, GoesOn
<1> HIDE DEF v, w, Effect
<1>5. CASE Depart(r)
  <2>1. Effect("route")
    BY <1>4, <1>5 DEF Depart, Places
  <2> QED BY <1>1, <1>5, <2>1 DEF Depart, At, Thinks, Effect, v, w
<1>6. CASE WakeUp(r)
  <2>1. CASE At(r, "routeSleep") /\ Goto(r, "route")
    <3>1. Effect("route")
      BY <1>3, <1>4, <1>6, <2>1 DEF WakeUp, Places, At
    <3> QED BY <1>1, <1>6, <2>1, <3>1 DEF WakeUp, At, Thinks, Effect, v, w
  <2>2. CASE At(r, "segmentSleep") /\ Goto(r, "segment")
    <3>1. Effect("segment")
      BY <1>3, <1>4, <1>6, <2>2 DEF WakeUp, Places, At
    <3> QED BY <1>1, <1>6, <2>2, <3>1 DEF WakeUp, At, Thinks, Effect, v, w
  <2> QED BY <1>6, <2>1, <2>2 DEF WakeUp
<1>7. CASE RouteAnswered(r)
  <2>1. Effect("segment")
    BY <1>3, <1>4, <1>7 DEF RouteAnswered, Answered, Places, At
  <2> QED BY <1>1, <1>7, <2>1 DEF RouteAnswered, Answered, At, Thinks, Effect, v, w
<1>8. CASE RouteRefused(r)
  <2>1. Effect("routeSleep")
    BY <1>3, <1>4, <1>8 DEF RouteRefused, NoRoute, Places, At
  <2>2. Unrouted(v)
    BY <1>1, <1>2, <1>8 DEF RouteRefused, NoRoute, TimedOut, Received, At, Unrouted
  <2> QED BY <2>1, <2>2 DEF Thinks, Effect, v, w
<1>9. CASE MustWait(r)
  <2>1. Effect("segmentSleep")
    BY <1>3, <1>4, <1>9 DEF MustWait, Answered, Places, At
  <2> QED BY <1>1, <1>9, <2>1 DEF MustWait, Answered, At, Thinks, Effect, v, w
<1>10. CASE NoWayAround(r)
  <2>1. Effect("segmentSleep")
    BY <1>3, <1>4, <1>10 DEF NoWayAround, Places, At
  <2>2. v.in.type # "reroute"
    BY <1>1, <1>2, <1>10 DEF NoWayAround, TimedOut
  <2> QED BY <1>1, <1>10, <2>1, <2>2 DEF NoWayAround, At, Thinks, Effect, v, w
<1>11. CASE Fails(r)
  <2>1. Effect("failed")
    BY <1>4, <1>11 DEF Fails, Places
  <2> QED BY <1>1, <1>11, <2>1 DEF Fails, TimedOut, At, Thinks, Effect, v, w
<1>12. CASE StoppedByObstacle(r)
  <2>1. Effect("blocked")
    BY <1>3, <1>4, <1>12 DEF StoppedByObstacle, Places, At
  <2>2. v.near = v.ahead /\ v.pose = NoNode /\ obstacle # {}
    BY <1>1, <1>12 DEF StoppedByObstacle, AtNode, Near, Ahead
  <2> QED BY <1>1, <1>12, <2>1, <2>2 DEF StoppedByObstacle, At, Thinks, Effect, v, w
<1>13. CASE DriveFails(r)
  <2>1. Effect("failed")
    BY <1>4, <1>13 DEF DriveFails, Places
  <2> QED BY <1>1, <1>13, <2>1 DEF DriveFails, At, Thinks, Effect, v, w
<1> QED BY <1>5, <1>6, <1>7, <1>8, <1>9, <1>10, <1>11, <1>12, <1>13

\* The trips left after one.
OnlyOwn(r, trips) ==
  trips \in Seq(Trip) /\ \A i \in 1..Len(trips) : trips[i].preempt => r \in Preemptable

LEMMA TripsLeft ==
  ASSUME NEW r, NEW trips, trips \in Seq(Trip), trips # <<>>,
         \A i \in 1..Len(trips) : trips[i].preempt => r \in Preemptable
  PROVE  /\ OnlyOwn(r, Tail(trips)) /\ Head(trips) = trips[1] /\ 1 \in 1..Len(trips)
         /\ Len(trips) > 1 => Tail(trips) # <<>>
<1> DEFINE rest == Tail(trips)
<1>1. /\ rest \in Seq(Trip) /\ Len(trips) \in Nat /\ Len(rest) = Len(trips) - 1
      /\ Head(trips) = trips[1] /\ 1 \in 1..Len(trips)
      /\ \A i \in 1..Len(rest) : rest[i] = trips[i + 1]
  OBVIOUS
<1> HIDE DEF rest
<1>2. \A i \in 1..Len(rest) : rest[i].preempt => r \in Preemptable
  BY <1>1
<1>3. Len(trips) > 1 => rest # <<>>
  BY <1>1
<1> QED BY <1>1, <1>2, <1>3 DEF OnlyOwn, rest

\* The steps of the loop that also change the trips or what the robot remembers.
LEMMA StateChanges ==
  ASSUME TravelTypes, NEW r \in Robot,
         GiveUp(r) \/ SegmentGiven(r) \/ Rerouted(r) \/ Arrived(r) \/ SegmentDone(r)
  PROVE  TravelTypes' /\ Only(r) /\ Thinks(r, View(r), View(r)')
<1> DEFINE v == View(r)
           w == View(r)'
           f == fsm[r]
           Effect(g) == /\ TravelTypes' /\ Only(r)
                        /\ w.pc = g.pc /\ w.current = g.current /\ w.target = g.target
                        /\ w.st = v.st /\ SameMail(v, w) /\ SameFloor(v, w)
<1>1. /\ v.pc = f.pc /\ v.current = f.current /\ v.target = f.target
      /\ v.in = inbox[r] /\ v.near = pos[r][1] /\ v.ahead = pos[r][2]
      /\ v.pose = pose[r] /\ (SettledView(v) <=> Settled(r))
  BY DEF View, SettledView, Settled
<1>2. /\ f \in FsmState /\ fsm \in [Robot -> FsmState] /\ f.pc \in Places /\ f.current \in Node
      /\ f.target \in Node \cup {NoNode} /\ f.trips \in Seq(Trip)
      /\ f.pc \notin {"rest", "failed"} => f.trips # <<>>
      /\ \A i \in 1..Len(f.trips) : f.trips[i].preempt => r \in Preemptable
  BY DEF TravelTypes, OnTrip, FsmState
<1>3. ASSUME NEW g \in FsmState, OnTrip(r, g), fsm' = [fsm EXCEPT ![r] = g], OnlyRobotMoves
      PROVE  Effect(g)
  BY <1>3, MovesOn
<1>4. inbox[r] \in Message \cup {NoMessage} /\ pos[r] \in Node \X Node
  BY DEF TravelTypes
<1>5. ASSUME inbox[r].type \in {"reroute", "segment"}
      PROVE  Head(inbox[r].nodes) \in Node /\ Last(inbox[r].nodes) \in Node
  <2>1. inbox[r] \in Message
    BY <1>4, <1>5 DEF NoMessage
  <2>2. inbox[r].nodes \in Seq(Node) /\ inbox[r].nodes # <<>>
    BY <1>5, <2>1 DEF Message
  <2> QED BY <2>2 DEF Last
<1>11. f.trips # <<>> => OnlyOwn(r, Tail(f.trips))
  BY <1>2, TripsLeft
<1> HIDE DEF v, w, Effect, f
<1>6. CASE GiveUp(r)
  <2> DEFINE g == [f EXCEPT !.pc = "route", !.trips = Tail(f.trips)]
  <2>1. OnlyOwn(r, Tail(f.trips)) /\ Tail(f.trips) # <<>> /\ Head(f.trips) = f.trips[1]
        /\ 1 \in 1..Len(f.trips)
    <3>1. f.trips \in Seq(Trip) /\ Len(f.trips) > 1
      BY <1>2, <1>6 DEF GiveUp, f
    <3> QED BY <1>2, <3>1, TripsLeft
  <2>2. /\ g \in FsmState /\ g.pc = "route" /\ g.current = f.current /\ g.target = f.target
        /\ g.trips = Tail(f.trips)
    BY <1>2, <2>1 DEF FsmState, Places, OnlyOwn
  <2>3. fsm' = [fsm EXCEPT ![r] = g]
    BY <1>2, <1>6 DEF GiveUp, f
  <2> HIDE DEF g
  <2>4. Effect(g)
    BY <1>3, <1>6, <2>1, <2>2, <2>3 DEF GiveUp, OnTrip, OnlyOwn
  <2>5. Goes(v, w, "route")
    BY <1>1, <2>2, <2>4 DEF Goes, Effect
  <2>6. \/ r \in Cancels /\ v.pc \in {"route", "segment"}
        \/ r \in Preemptable /\ (v.pc = "segment" \/ Unrouted(v))
    <3>1. NoRoute(r) => Unrouted(v)
      BY <1>1 DEF NoRoute, TimedOut, Received, At, Unrouted, NoMessage, f
    <3>2. Head(f.trips).preempt => r \in Preemptable
      BY <1>2, <2>1
    <3> QED BY <1>1, <1>6, <3>1, <3>2 DEF GiveUp, At, f
  <2> QED BY <2>4, <2>5, <2>6 DEF Thinks, Effect, v, w
<1>7. CASE SegmentGiven(r)
  <2> DEFINE g == [f EXCEPT !.pc = "drive", !.target = Last(inbox[r].nodes)]
  <2>1. Last(inbox[r].nodes) \in Node
    BY <1>5, <1>7 DEF SegmentGiven, Answered
  <2>2. /\ g \in FsmState /\ g.pc = "drive" /\ g.current = f.current
        /\ g.target = Last(inbox[r].nodes) /\ g.trips = f.trips
    BY <1>2, <2>1 DEF FsmState, Places
  <2>3. fsm' = [fsm EXCEPT ![r] = g]
    BY <1>2, <1>7 DEF SegmentGiven, f
  <2> HIDE DEF g
  <2>4. Effect(g)
    BY <1>2, <1>3, <1>7, <2>2, <2>3 DEF SegmentGiven, Answered, OnTrip, At, f
  <2> QED BY <1>1, <1>7, <2>2, <2>4 DEF SegmentGiven, Answered, At, Thinks, Effect, v, w, f
<1>8. CASE Rerouted(r)
  <2> DEFINE g == [f EXCEPT !.pc = "segment", !.current = Head(inbox[r].nodes)]
  <2>1. Head(inbox[r].nodes) \in Node
    BY <1>5, <1>8 DEF Rerouted, Answered
  <2>2. /\ g \in FsmState /\ g.pc = "segment" /\ g.target = f.target
        /\ g.current = Head(inbox[r].nodes) /\ g.trips = f.trips
    BY <1>2, <2>1 DEF FsmState, Places
  <2>3. fsm' = [fsm EXCEPT ![r] = g]
    BY <1>2, <1>8 DEF Rerouted, f
  <2> HIDE DEF g
  <2>4. Effect(g)
    BY <1>2, <1>3, <1>8, <2>2, <2>3 DEF Rerouted, Answered, OnTrip, f
  <2> QED BY <1>1, <1>8, <2>2, <2>4 DEF Rerouted, Answered, Thinks, Effect, v, w, f
<1>9. CASE Arrived(r)
  <2> DEFINE g == [f EXCEPT !.pc = "rest", !.trips = Tail(f.trips)]
  <2>1. OnlyOwn(r, Tail(f.trips))
    BY <1>2, <1>9, <1>11 DEF Arrived, At, f
  <2>2. /\ g \in FsmState /\ g.pc = "rest" /\ g.current = f.current /\ g.target = f.target
        /\ g.trips = Tail(f.trips)
    BY <1>2, <2>1 DEF FsmState, Places, OnlyOwn
  <2>3. fsm' = [fsm EXCEPT ![r] = g]
    BY <1>2, <1>9 DEF Arrived, f
  <2> HIDE DEF g
  <2>4. Effect(g)
    BY <1>3, <1>9, <2>1, <2>2, <2>3 DEF Arrived, Answered, OnTrip, OnlyOwn
  <2> QED BY <1>1, <1>9, <2>2, <2>4 DEF Arrived, Answered, At, Thinks, Goes, Effect, v, w, f
<1>10. CASE SegmentDone(r)
  <2> DEFINE g == [f EXCEPT !.pc = "segment", !.current = f.target]
  <2>1. f.target \in Node /\ pos[r][1] = f.target /\ pos[r][2] = f.target
    BY <1>4, <1>10 DEF SegmentDone, f
  <2>2. /\ g \in FsmState /\ g.pc = "segment" /\ g.current = f.target /\ g.target = f.target
        /\ g.trips = f.trips
    BY <1>2, <2>1 DEF FsmState, Places
  <2>3. fsm' = [fsm EXCEPT ![r] = g]
    BY <1>2, <1>10 DEF SegmentDone, f
  <2> HIDE DEF g
  <2>4. Effect(g)
    BY <1>2, <1>3, <1>10, <2>2, <2>3 DEF SegmentDone, OnTrip, At, f
  <2> QED BY <1>1, <1>10, <2>1, <2>2, <2>4 DEF SegmentDone, At, Thinks, Effect, v, w, f
<1> QED BY <1>6, <1>7, <1>8, <1>9, <1>10

\* A request is appended, and the inbox cleared.
LEMMA AskEffect ==
  ASSUME TravelTypes, NEW r \in Robot, NEW q \in Request, NEW next \in Places,
         Ask(r, q, next), next \notin {"rest", "failed"} => fsm[r].trips # <<>>
  PROVE  /\ TravelTypes' /\ Only(r)
         /\ View(r)'.st = View(r).st /\ SameFloor(View(r), View(r)')
         /\ View(r)'.resp = View(r).resp /\ View(r)'.in = NoMessage
         /\ View(r)'.req = Append(View(r).req, q) /\ Goes(View(r), View(r)', next)
<1> DEFINE g == [fsm[r] EXCEPT !.pc = next]
<1>1. /\ fsm[r] \in FsmState /\ fsm \in [Robot -> FsmState]
      /\ request \in [Robot -> Seq(Request)] /\ request[r] \in Seq(Request)
      /\ inbox \in [Robot -> Message \cup {NoMessage}]
  BY DEF TravelTypes
<1>2. /\ g \in FsmState /\ g.pc = next /\ g.current = fsm[r].current /\ g.target = fsm[r].target
      /\ g.trips = fsm[r].trips
  BY <1>1 DEF FsmState
<1>3. fsm' = [fsm EXCEPT ![r] = g]
  BY <1>1 DEF Ask, Goto
<1> HIDE DEF g
<1>4. fsm' \in [Robot -> FsmState] /\ fsm'[r] = g /\ \A p \in Robot \ {r} : fsm'[p] = fsm[p]
  BY <1>1, <1>2, <1>3
<1>5. Append(request[r], q) \in Seq(Request)
  BY <1>1
<1>6. /\ request' \in [Robot -> Seq(Request)] /\ request'[r] = Append(request[r], q)
      /\ \A p \in Robot \ {r} : request'[p] = request[p]
  BY <1>1, <1>5 DEF Ask
<1>7. /\ inbox' \in [Robot -> Message \cup {NoMessage}] /\ inbox'[r] = NoMessage
      /\ \A p \in Robot \ {r} : inbox'[p] = inbox[p]
  BY <1>1 DEF Ask
<1>8. /\ tm' = tm /\ response' = response /\ pos' = pos /\ pose' = pose /\ obstacle' = obstacle
  BY DEF Ask, floorVars
<1>9. \A p \in Robot : OnTrip(p, fsm'[p])
  BY <1>2, <1>4 DEF TravelTypes, OnTrip
<1>10. TravelTypes'
  BY <1>4, <1>6, <1>7, <1>8, <1>9 DEF TravelTypes
<1>11. Only(r)
  BY <1>4, <1>6, <1>7, <1>8 DEF Only, View
<1>12. /\ View(r)'.st = View(r).st /\ SameFloor(View(r), View(r)')
       /\ View(r)'.resp = View(r).resp /\ View(r)'.in = NoMessage
       /\ View(r)'.req = Append(View(r).req, q) /\ Goes(View(r), View(r)', next)
  BY <1>2, <1>4, <1>6, <1>7, <1>8 DEF View, SameFloor, Goes
<1> QED BY <1>10, <1>11, <1>12

\* The three requests.
LEMMA AskSteps ==
  ASSUME TravelTypes, NEW r \in Robot, AskRoute(r) \/ AskSegment(r) \/ AskAround(r)
  PROVE  TravelTypes' /\ Only(r) /\ Requests(View(r), View(r)')
<1> DEFINE v == View(r)
           w == View(r)'
           Effect(q, next) ==
             /\ TravelTypes' /\ Only(r)
             /\ w.st = v.st /\ SameFloor(v, w) /\ w.resp = v.resp /\ w.in = NoMessage
             /\ w.req = Append(v.req, q) /\ Goes(v, w, next)
<1>1. v.pc = fsm[r].pc /\ v.current = fsm[r].current
  BY DEF View
<1>2. /\ fsm[r].current \in Node /\ fsm[r].trips \in Seq(Trip)
      /\ fsm[r].pc \notin {"rest", "failed"} => fsm[r].trips # <<>>
  BY DEF TravelTypes, OnTrip, FsmState
<1>3. ASSUME NEW q \in Request, NEW next \in Places, Ask(r, q, next),
             next \notin {"rest", "failed"} => fsm[r].trips # <<>>
      PROVE  Effect(q, next)
  BY <1>3, AskEffect
<1> HIDE DEF v, w, Effect
<1>4. CASE AskRoute(r)
  <2> DEFINE q == <<"route", fsm[r].current, Head(fsm[r].trips)>>
  <2>1. Head(fsm[r].trips) \in Trip
    BY <1>2, <1>4 DEF AskRoute, At
  <2>2. q \in Request /\ q[1] = "route" /\ q[2] = fsm[r].current
    BY <1>2, <2>1 DEF Request
  <2>3. Effect(q, "routeAsked")
    BY <1>2, <1>3, <1>4, <2>2 DEF AskRoute, At, Places
  <2>4. v.pc = "route"
    BY <1>1, <1>4 DEF AskRoute, At
  <2> HIDE DEF q
  <2> QED BY <1>1, <2>2, <2>3, <2>4 DEF Requests, Effect, v, w
<1>5. CASE AskSegment(r)
  <2> DEFINE q == <<"segment">>
  <2>1. q \in Request /\ q[1] = "segment"
    BY DEF Request
  <2>2. Effect(q, "segmentAsked")
    BY <1>2, <1>3, <1>5, <2>1 DEF AskSegment, At, Places
  <2>3. v.pc = "segment"
    BY <1>1, <1>5 DEF AskSegment, At
  <2> HIDE DEF q
  <2> QED BY <1>1, <2>1, <2>2, <2>3 DEF Requests, Effect, v, w
<1>6. CASE AskAround(r)
  <2> DEFINE q == <<"blocked">>
  <2>1. q \in Request /\ q[1] = "blocked"
    BY DEF Request
  <2>2. Effect(q, "blockedAsked")
    BY <1>2, <1>3, <1>6, <2>1 DEF AskAround, At, Places
  <2>3. v.pc = "blocked"
    BY <1>1, <1>6 DEF AskAround, At
  <2> HIDE DEF q
  <2> QED BY <1>1, <2>1, <2>2, <2>3 DEF Requests, Effect, v, w
<1> QED BY <1>4, <1>5, <1>6

\* Driving on, onto an edge or to the node at its end.
LEMMA DriveSteps ==
  ASSUME TravelTypes, NEW r \in Robot, LeaveNode(r) \/ EnterNode(r)
  PROVE  TravelTypes' /\ Only(r) /\ Rolls(View(r), View(r)')
<1> DEFINE v == View(r)
           w == View(r)'
<1>1. /\ pos \in [Robot -> Node \X Node] /\ pose \in [Robot -> Node \cup {NoNode}]
      /\ pos[r] \in Node \X Node
  BY DEF TravelTypes
<1>2. ASSUME NEW place \in Node \X Node, Move(r, place)
      PROVE  /\ TravelTypes' /\ Only(r)
             /\ w.st = v.st /\ SameLoop(v, w) /\ SameMail(v, w)
             /\ w.near = place[1] /\ w.ahead = place[2]
             /\ w.pose = IF place[1] = place[2] THEN place[1] ELSE v.pose
  <2>1. /\ pos' \in [Robot -> Node \X Node] /\ pos'[r] = place
        /\ \A p \in Robot \ {r} : pos'[p] = pos[p]
    BY <1>1, <1>2 DEF Move
  <2>2. place[1] \in Node
    OBVIOUS
  <2>3. /\ pose' \in [Robot -> Node \cup {NoNode}]
        /\ pose'[r] = IF place[1] = place[2] THEN place[1] ELSE pose[r]
        /\ \A p \in Robot \ {r} : pose'[p] = pose[p]
    BY <1>1, <1>2, <2>2 DEF Move
  <2>4. /\ tm' = tm /\ fsm' = fsm /\ request' = request /\ response' = response
        /\ inbox' = inbox /\ obstacle' = obstacle
    BY <1>2 DEF Move
  <2>5. TravelTypes'
    BY <2>1, <2>3, <2>4 DEF TravelTypes
  <2>6. Only(r)
    BY <2>1, <2>3, <2>4 DEF Only, View
  <2>7. /\ w.st = v.st /\ SameLoop(v, w) /\ SameMail(v, w)
        /\ w.near = place[1] /\ w.ahead = place[2]
        /\ w.pose = IF place[1] = place[2] THEN place[1] ELSE v.pose
    BY <2>1, <2>3, <2>4 DEF View, SameLoop, SameMail
  <2> QED BY <2>5, <2>6, <2>7
<1>3. /\ v.pc = fsm[r].pc /\ v.near = Near(r) /\ v.ahead = Ahead(r) /\ v.target = fsm[r].target
      /\ Near(r) \in Node /\ Ahead(r) \in Node
  BY <1>1 DEF View, Near, Ahead
<1> HIDE DEF v, w
<1>4. CASE LeaveNode(r)
  <2>1. PICK m \in Node \ obstacle : Heading(r, m) /\ Move(r, <<Near(r), m>>)
    BY <1>4 DEF LeaveNode
  <2>2. Near(r) = Ahead(r) /\ fsm[r].pc = "drive"
    BY <1>4 DEF LeaveNode, AtNode, At
  <2>3. Adjacent(Near(r), m) /\ Nearer(m, Near(r), fsm[r].target)
    BY <2>1, <2>2 DEF Heading, AtNode, Footprint, Nearer
  <2>4. Near(r) # m
    BY <2>3, <1>3, GraphAssumption DEF Adjacent, Dx, Dy, Abs
  <2>5. /\ TravelTypes' /\ Only(r)
        /\ w.st = v.st /\ SameLoop(v, w) /\ SameMail(v, w)
        /\ w.near = Near(r) /\ w.ahead = m /\ w.pose = v.pose
    <3>1. <<Near(r), m>> \in Node \X Node /\ <<Near(r), m>>[1] = Near(r) /\ <<Near(r), m>>[2] = m
      BY <1>3
    <3> QED BY <1>2, <2>1, <2>4, <3>1
  <2> QED BY <1>3, <2>2, <2>3, <2>5 DEF Rolls, v, w
<1>5. CASE EnterNode(r)
  <2>1. PICK m \in Node : Heading(r, m) /\ Move(r, <<m, m>>)
    BY <1>5 DEF EnterNode
  <2>2. Near(r) # Ahead(r) /\ fsm[r].pc = "drive"
    BY <1>5 DEF EnterNode, AtNode, At
  <2>3. /\ m \in {Near(r), Ahead(r)}
        /\ Nearer(m, Near(r), fsm[r].target) \/ Nearer(m, Ahead(r), fsm[r].target)
    BY <2>1, <2>2 DEF Heading, AtNode, Footprint, Nearer
  <2>4. /\ TravelTypes' /\ Only(r)
        /\ w.st = v.st /\ SameLoop(v, w) /\ SameMail(v, w)
        /\ w.near = m /\ w.ahead = m /\ w.pose = m
    <3>1. <<m, m>> \in Node \X Node /\ <<m, m>>[1] = m /\ <<m, m>>[2] = m
      OBVIOUS
    <3> QED BY <1>2, <2>1, <3>1
  <2> QED BY <1>3, <2>2, <2>3, <2>4 DEF Rolls, v, w
<1> QED BY <1>4, <1>5

\* A message comes to the robot, or is lost.
LEMMA MessageSteps ==
  ASSUME TravelTypes, NEW r \in Robot, Deliver(r) \/ Lose(r)
  PROVE  /\ TravelTypes' /\ Only(r)
         /\ Receives(View(r), View(r)') \/ Misses(r, View(r), View(r)')
<1>1. /\ response \in [Robot -> Seq(Message)] /\ response[r] \in Seq(Message)
      /\ request \in [Robot -> Seq(Request)] /\ request[r] \in Seq(Request)
      /\ inbox \in [Robot -> Message \cup {NoMessage}]
  BY DEF TravelTypes
<1>2. tm' = tm /\ fsm' = fsm /\ pos' = pos /\ pose' = pose /\ obstacle' = obstacle
  BY DEF Deliver, Lose, floorVars
<1>3. CASE Deliver(r)
  <2>1. response[r] # <<>> /\ Head(response[r]) \in Message /\ Tail(response[r]) \in Seq(Message)
    BY <1>1, <1>3 DEF Deliver
  <2>2. /\ inbox' \in [Robot -> Message \cup {NoMessage}] /\ inbox'[r] = Head(response[r])
        /\ \A p \in Robot \ {r} : inbox'[p] = inbox[p]
    BY <1>1, <1>3, <2>1 DEF Deliver
  <2>3. /\ response' \in [Robot -> Seq(Message)] /\ response'[r] = Tail(response[r])
        /\ \A p \in Robot \ {r} : response'[p] = response[p]
    BY <1>1, <1>3, <2>1 DEF Deliver
  <2>4. request' = request
    BY <1>3 DEF Deliver
  <2>5. TravelTypes' /\ Only(r)
    BY <1>2, <2>2, <2>3, <2>4 DEF TravelTypes, Only, View
  <2>6. Receives(View(r), View(r)')
    BY <1>2, <2>1, <2>2, <2>3, <2>4 DEF Receives, View, SameLoop, SameFloor
  <2> QED BY <2>5, <2>6
<1>4. CASE Lose(r)
  <2>1. inbox' = inbox /\ r \in Loses
    BY <1>4 DEF Lose
  <2>2. CASE request[r] # <<>> /\ request' = [request EXCEPT ![r] = Tail(@)] /\ UNCHANGED response
    <3>1. Tail(request[r]) \in Seq(Request)
      BY <1>1, <2>2
    <3>2. /\ request' \in [Robot -> Seq(Request)] /\ request'[r] = Tail(request[r])
          /\ \A p \in Robot \ {r} : request'[p] = request[p]
      BY <1>1, <2>2, <3>1
    <3>3. TravelTypes' /\ Only(r)
      BY <1>2, <2>1, <2>2, <3>2 DEF TravelTypes, Only, View
    <3>4. Misses(r, View(r), View(r)')
      BY <1>2, <2>1, <2>2, <3>2 DEF Misses, View, SameLoop, SameFloor
    <3> QED BY <3>3, <3>4
  <2>3. CASE response[r] # <<>> /\ response' = [response EXCEPT ![r] = Tail(@)] /\ UNCHANGED request
    <3>1. Tail(response[r]) \in Seq(Message)
      BY <1>1, <2>3
    <3>2. /\ response' \in [Robot -> Seq(Message)] /\ response'[r] = Tail(response[r])
          /\ \A p \in Robot \ {r} : response'[p] = response[p]
      BY <1>1, <2>3, <3>1
    <3>3. TravelTypes' /\ Only(r)
      BY <1>2, <2>1, <2>3, <3>2 DEF TravelTypes, Only, View
    <3>4. Misses(r, View(r), View(r)')
      BY <1>2, <2>1, <2>3, <3>2 DEF Misses, View, SameLoop, SameFloor
    <3> QED BY <3>3, <3>4
  <2> QED BY <1>4, <2>2, <2>3 DEF Lose
<1> QED BY <1>3, <1>4

\* Obstacles, the operator and the first half of the timer touch no robot.
LEMMA NoRobotSteps ==
  ASSUME TravelTypes,
         \/ \E n \in Node : PlaceObstacle(n) \/ RemoveObstacle(n) \/ OperatorUnblocks(n)
         \/ HandleTimer
         \/ UNCHANGED vars
  PROVE  TravelTypes' /\ \A q \in Robot : View(q)' = View(q)
<1>1. /\ fsm' = fsm /\ request' = request /\ response' = response /\ inbox' = inbox
      /\ pos' = pos /\ pose' = pose
  BY DEF PlaceObstacle, RemoveObstacle, OperatorUnblocks, HandleTimer, robotVars, floorVars, vars
<1>2. obstacle' \subseteq Spots
  BY DEF PlaceObstacle, RemoveObstacle, OperatorUnblocks, HandleTimer, floorVars, vars,
         TravelTypes
<1>3. tm'.robots = tm.robots
  <2>1. CASE UNCHANGED tm
    BY <2>1
  <2>2. CASE \E n \in Node : OperatorUnblocks(n)
    BY <2>2 DEF OperatorUnblocks, OnUnblock
  <2>3. CASE HandleTimer
    BY <2>3 DEF HandleTimer, Timer, Reconcile
  <2> QED BY <2>1, <2>2, <2>3 DEF PlaceObstacle, RemoveObstacle, vars
<1> QED BY <1>1, <1>2, <1>3 DEF TravelTypes, View

\* What the manager answers to a request, and does for it.
LEMMA RequestAnswered ==
  ASSUME NEW s, Core(s), NEW r \in Robot, NEW q \in Request,
         NEW o, \/ q[1] = "route" /\ o \in OnRouteRequest(s, r, q[2], q[3].to, q[3].laden)
                \/ q[1] = "segment" /\ o \in OnSegmentRequest(s, r)
                \/ q[1] = "blocked" /\ o \in OnBlockedRequest(s, r)
  PROVE  /\ Core(o.s) /\ OnlyFor(s, o.s, r) /\ o.reply \in Message
         /\ \/ q[1] = "route" /\ AnswersRoute(s.robots[r], q[2], o.s.robots[r], o.reply)
            \/ q[1] = "segment" /\ AnswersSegment(s.robots[r], o.s.robots[r], o.reply)
            \/ q[1] = "blocked" /\ AnswersBlocked(s.robots[r], o.s.robots[r], o.reply)
<1>1. Wait \in Message /\ [type |-> "done", nodes |-> <<>>] \in Message
  BY DEF Wait, Message
<1>2. ASSUME NEW t, Serves(s, t, r), NEW type \in {"route", "reroute"}
      PROVE  /\ RouteReply(type, t, r) \in Message /\ RouteReply(type, t, r).type = type
             /\ RouteReply(type, t, r).nodes = t.robots[r].route
  <2>1. t.robots[r].route \in Seq(Node) /\ t.robots[r].route # <<>>
    BY <1>2 DEF Serves, HasRoute, Core, Manager, RobotState
  <2> QED BY <2>1 DEF RouteReply, Message
<1>3. CASE q[1] = "route" /\ o \in OnRouteRequest(s, r, q[2], q[3].to, q[3].laden)
  <2>1. q[2] \in Node /\ q[3] \in Trip
    BY <1>3 DEF Request
  <2>2. q[3].to \in Node /\ IsFlag(q[3].laden)
    BY <2>1, StopAssumption DEF Trip, IsFlag
  <2>3. PICK o1 \in SetRoute(s, r, q[2], q[3].to, q[3].laden, {}, {}) :
          o = Answer(o1.s, IF o1.ok THEN RouteReply("route", o1.s, r) ELSE Wait)
    BY <1>3 DEF OnRouteRequest
  <2>4. Placed(s, o1, r, q[2])
    BY <2>1, <2>2, SetRouteServes
  <2>5. CASE o1 = Refused(s)
    <3>1. o.s = s /\ o.reply = Wait
      BY <2>3, <2>5 DEF Refused, Answer
    <3> QED BY <1>1, <1>3, <3>1 DEF OnlyFor, AnswersRoute
  <2>6. CASE /\ o1.ok = TRUE /\ Serves(s, o1.s, r) /\ CurrentNode(o1.s.robots[r]) = q[2]
             /\ o1.s.robots[r].index = 1
    <3>1. o.s = o1.s /\ o.reply = RouteReply("route", o.s, r)
      BY <2>3, <2>6 DEF Answer
    <3>2. Serves(s, o.s, r) /\ Anew(o.s.robots[r], q[2])
      BY <2>6, <3>1 DEF Anew, Serves
    <3> QED BY <1>2, <1>3, <3>1, <3>2 DEF Serves, AnswersRoute
  <2> QED BY <2>4, <2>5, <2>6 DEF Placed
<1>4. CASE q[1] = "segment" /\ o \in OnSegmentRequest(s, r)
  <2>1. CASE o = Answer(s, Wait)
    BY <1>1, <1>4, <2>1 DEF Answer, OnlyFor, AnswersSegment
  <2>2. CASE /\ HasRoute(s.robots[r]) /\ Extended(s, o.s, r)
             /\ \/ o.reply = Wait
                \/ o.reply = [type |-> "done", nodes |-> <<>>]
                \/ IsSegment(o.s.robots[r], o.reply)
    <3>1. Core(o.s) /\ OnlyFor(s, o.s, r) /\ Grows(s.robots[r], o.s.robots[r])
      BY <2>2 DEF Extended, Serves, Grows
    <3>2. CASE o.reply = Wait \/ o.reply = [type |-> "done", nodes |-> <<>>]
      BY <1>1, <1>4, <2>2, <3>1, <3>2 DEF Wait, AnswersSegment
    <3>3. CASE IsSegment(o.s.robots[r], o.reply)
      <4>1. o.reply \in Message
        <5> DEFINE p == o.reply.nodes
        <5>1. p \in Seq(Node) /\ p # <<>> /\ o.reply = [type |-> "segment", nodes |-> p]
          BY <3>3 DEF IsSegment
        <5> HIDE DEF p
        <5> QED BY <5>1 DEF Message
      <4> QED BY <1>4, <2>2, <3>1, <3>3, <4>1 DEF AnswersSegment
    <3> QED BY <2>2, <3>2, <3>3
  <2>3. CASE /\ HasRoute(s.robots[r]) /\ Replanned(s, o.s, r)
             /\ s.robots[r].reserved_end = s.robots[r].index
             /\ o.reply = RouteReply("reroute", o.s, r)
    <3>1. Serves(s, o.s, r) /\ Anew(o.s.robots[r], CurrentNode(s.robots[r]))
      BY <2>3 DEF Replanned, Serves, Anew
    <3> QED BY <1>2, <1>4, <2>3, <3>1 DEF Serves, AnswersSegment
  <2> QED BY <1>4, <2>1, <2>2, <2>3, SegmentAnswers
<1>5. CASE q[1] = "blocked" /\ o \in OnBlockedRequest(s, r)
  <2>1. CASE Core(o.s) /\ o.s.robots = s.robots /\ o.reply = Wait
    BY <1>1, <1>5, <2>1 DEF OnlyFor, AnswersBlocked
  <2>2. CASE /\ HasRoute(s.robots[r]) /\ Replanned(s, o.s, r)
             /\ o.reply = RouteReply("reroute", o.s, r)
    <3>1. Serves(s, o.s, r) /\ Anew(o.s.robots[r], CurrentNode(s.robots[r]))
      BY <2>2 DEF Replanned, Serves, Anew
    <3> QED BY <1>2, <1>5, <2>2, <3>1 DEF Serves, AnswersBlocked
  <2> QED BY <1>5, <2>1, <2>2, BlockedAnswers
<1> QED BY <1>3, <1>4, <1>5

\* The types of the requests and what Outcomes makes of them.
LEMMA RequestKinds ==
  ASSUME NEW q \in Request
  PROVE  /\ q[1] \in {"route", "segment", "blocked"}
         /\ q[1] = "route" => q[2] \in Node /\ q[3] \in Trip
  BY DEF Request

\* A request is handled.
LEMMA RequestSteps ==
  ASSUME TravelTypes, Core(tm), NEW r \in Robot, HandleRequest(r)
  PROVE  /\ TravelTypes' /\ Only(r) /\ Served(View(r), View(r)')
         /\ RouteRequest(r) \/ SegmentRequest(r) \/ BlockedRequest(r)
<1> DEFINE q == Head(request[r])
<1>1. /\ request \in [Robot -> Seq(Request)] /\ request[r] \in Seq(Request)
      /\ response \in [Robot -> Seq(Message)] /\ response[r] \in Seq(Message)
  BY DEF TravelTypes
<1>2. request[r] # <<>> /\ q \in Request /\ Tail(request[r]) \in Seq(Request)
  BY <1>1 DEF HandleRequest
<1>3. /\ q[1] \in {"route", "segment", "blocked"}
      /\ q[1] = "route" => q[2] \in Node /\ q[3] \in Trip
  BY <1>2, RequestKinds
<1>4. PICK o \in Outcomes(r, q) :
        tm' = o.s /\ response' = [response EXCEPT ![r] = Append(@, o.reply)]
  BY DEF HandleRequest
<1>5. /\ request' = [request EXCEPT ![r] = Tail(@)] /\ Idle /\ UNCHANGED sweep
      /\ fsm' = fsm /\ inbox' = inbox /\ pos' = pos /\ pose' = pose /\ obstacle' = obstacle
  BY DEF HandleRequest, floorVars
<1> HIDE DEF q
<1>6. \/ q[1] = "route" /\ o \in OnRouteRequest(tm, r, q[2], q[3].to, q[3].laden)
      \/ q[1] = "segment" /\ o \in OnSegmentRequest(tm, r)
      \/ q[1] = "blocked" /\ o \in OnBlockedRequest(tm, r)
  BY <1>3, <1>4 DEF Outcomes
<1>7. /\ Core(o.s) /\ OnlyFor(tm, o.s, r) /\ o.reply \in Message
      /\ \/ q[1] = "route" /\ AnswersRoute(tm.robots[r], q[2], o.s.robots[r], o.reply)
         \/ q[1] = "segment" /\ AnswersSegment(tm.robots[r], o.s.robots[r], o.reply)
         \/ q[1] = "blocked" /\ AnswersBlocked(tm.robots[r], o.s.robots[r], o.reply)
  BY <1>2, <1>6, RequestAnswered
<1>8. /\ request' \in [Robot -> Seq(Request)] /\ request'[r] = Tail(request[r])
      /\ \A p \in Robot \ {r} : request'[p] = request[p]
  BY <1>1, <1>2, <1>5
<1>9. Append(response[r], o.reply) \in Seq(Message)
  BY <1>1, <1>7
<1>10. /\ response' \in [Robot -> Seq(Message)]
       /\ response'[r] = Append(response[r], o.reply)
       /\ \A p \in Robot \ {r} : response'[p] = response[p]
  BY <1>1, <1>4, <1>9
<1>11. TravelTypes'
  BY <1>5, <1>8, <1>10 DEF TravelTypes
<1>12. Only(r)
  BY <1>4, <1>5, <1>7, <1>8, <1>10 DEF Only, View, OnlyFor
<1>13. Served(View(r), View(r)')
  <2>1. /\ View(r).st = tm.robots[r] /\ View(r)'.st = o.s.robots[r]
        /\ View(r).req = request[r] /\ View(r)'.req = Tail(request[r])
        /\ View(r).resp = response[r] /\ View(r)'.resp = Append(response[r], o.reply)
        /\ View(r)'.in = View(r).in
    BY <1>4, <1>5, <1>8, <1>10 DEF View
  <2>2. SameLoop(View(r), View(r)') /\ SameFloor(View(r), View(r)')
    BY <1>5 DEF View, SameLoop, SameFloor
  <2> QED BY <1>2, <1>7, <2>1, <2>2 DEF Served, q
<1>14. RouteRequest(r) \/ SegmentRequest(r) \/ BlockedRequest(r)
  <2>1. CASE q[1] = "route" /\ o \in OnRouteRequest(tm, r, q[2], q[3].to, q[3].laden)
    <3>1. q[2] \in Node /\ q[3].to \in Stop /\ q[3].laden \in BOOLEAN
      BY <1>3, <2>1 DEF Trip
    <3> QED BY <1>4, <1>5, <2>1, <3>1 DEF RouteRequest
  <2>2. CASE q[1] = "segment" /\ o \in OnSegmentRequest(tm, r)
    BY <1>4, <1>5, <2>2 DEF SegmentRequest
  <2>3. CASE q[1] = "blocked" /\ o \in OnBlockedRequest(tm, r)
    BY <1>4, <1>5, <2>3 DEF BlockedRequest
  <2> QED BY <1>6, <2>1, <2>2, <2>3
<1> QED BY <1>11, <1>12, <1>13, <1>14

\* A pose is handled.
LEMMA PoseSteps ==
  ASSUME TravelTypes, Core(tm), NEW r \in Robot, HandlePose(r)
  PROVE  TravelTypes' /\ Only(r) /\ Located(View(r), View(r)') /\ Pose(r)
<1>1. pose \in [Robot -> Node \cup {NoNode}] /\ pose[r] \in Node
  BY DEF TravelTypes, HandlePose
<1>2. /\ pose' \in [Robot -> Node \cup {NoNode}] /\ pose'[r] = NoNode
      /\ \A p \in Robot \ {r} : pose'[p] = pose[p]
  BY <1>1 DEF HandlePose
<1>3. /\ fsm' = fsm /\ request' = request /\ response' = response /\ inbox' = inbox
      /\ pos' = pos /\ obstacle' = obstacle /\ UNCHANGED sweep
  BY DEF HandlePose, robotVars
<1>4. tm' = OnPose(tm, r, pose[r]) /\ Idle
  BY DEF HandlePose
<1>5. \/ tm' = tm /\ PassedIndex(tm.robots[r], pose[r]) = {}
      \/ /\ HasRoute(tm.robots[r])
         /\ Core(tm') /\ OnlyFor(tm, tm', r)
         /\ tm'.robots[r].index \in PassedIndex(tm.robots[r], pose[r])
         /\ tm'.robots[r].route = tm.robots[r].route
         /\ tm'.robots[r].reserved_end = tm.robots[r].reserved_end
  <2> DEFINE n == pose[r]
             t == tm'
  <2>1. n \in Node /\ Core(tm) /\ t = OnPose(tm, r, n)
    BY <1>1, <1>4
  <2> HIDE DEF n, t
  <2>2. \/ t = tm /\ PassedIndex(tm.robots[r], n) = {}
        \/ /\ HasRoute(tm.robots[r])
           /\ Core(t) /\ OnlyFor(tm, t, r)
           /\ t.robots[r].index \in PassedIndex(tm.robots[r], n)
           /\ t.robots[r].route = tm.robots[r].route
           /\ t.robots[r].reserved_end = tm.robots[r].reserved_end
    BY ONLY <2>1, PoseAdvances, r \in Robot
  <2> QED BY <2>2 DEF n, t
<1>6. TravelTypes'
  BY <1>2, <1>3 DEF TravelTypes
<1>7. Only(r)
  BY <1>2, <1>3, <1>5 DEF Only, View, OnlyFor
<1>8. Located(View(r), View(r)')
  <2>1. /\ View(r).st = tm.robots[r] /\ View(r)'.st = tm'.robots[r]
        /\ View(r).pose = pose[r] /\ View(r)'.pose = NoNode /\ pose[r] # NoNode
        /\ View(r)'.near = View(r).near /\ View(r)'.ahead = View(r).ahead
    BY <1>2, <1>3 DEF View, HandlePose
  <2>2. SameLoop(View(r), View(r)') /\ SameMail(View(r), View(r)')
    BY <1>3 DEF View, SameLoop, SameMail
  <2> QED BY <1>5, <2>1, <2>2 DEF Located
<1>9. Pose(r)
  BY <1>1, <1>3, <1>4 DEF Pose
<1> QED BY <1>6, <1>7, <1>8, <1>9

\* The node a robot is going to belongs to another one only if it has used up
\* its window.
LEMMA NextIsReserved ==
  ASSUME NEW s, Core(s), NEW r \in Robot, NEW q \in Robot \ {r}, HasRoute(s.robots[r]),
         ~AtEnd(s.robots[r]),
         s.reservations[s.robots[r].route[s.robots[r].index + 1]] = q
  PROVE  s.robots[r].reserved_end = s.robots[r].index
<1> DEFINE st == s.robots[r]
           n == st.route[st.index + 1]
<1>1. /\ st \in RobotState /\ st.index \in Nat /\ st.reserved_end \in Nat
      /\ 1 <= st.index /\ st.index <= st.reserved_end /\ st.reserved_end <= Len(st.route)
      /\ Len(st.route) \in Nat /\ st.route \in Seq(Node)
  BY NodesOfRoute DEF RobotState
<1>2. st.index + 1 <= Len(st.route)
  BY <1>1 DEF AtEnd
<1>3. n \in Node
  BY <1>1, <1>2
<1>4. ASSUME st.index + 1 <= st.reserved_end PROVE FALSE
  <2>1. n \in Window(st)
    BY <1>1, <1>4 DEF Window
  <2>2. s.reservations[n] = r
    BY <1>3, <2>1 DEF Core, ReservedIsWindow
  <2> QED BY <2>2
<1> QED BY <1>1, <1>4

\* So it has when it faces another robot.
LEMMA FacingIsUsedUp ==
  ASSUME NEW s, Core(s), NEW a \in Robot, NEW b \in Robot, a # b, Faces(s, a, b)
  PROVE  /\ s.robots[a].reserved_end = s.robots[a].index
         /\ s.robots[b].reserved_end = s.robots[b].index
<1>1. HasRoute(s.robots[a]) /\ HasRoute(s.robots[b])
  BY FacingHaveRoutes
<1>2. /\ ~AtEnd(s.robots[a]) /\ ~AtEnd(s.robots[b])
      /\ s.robots[a].route[s.robots[a].index + 1] = CurrentNode(s.robots[b])
      /\ s.robots[b].route[s.robots[b].index + 1] = CurrentNode(s.robots[a])
  BY DEF Faces, IsHeadOn, NextNode
<1>3. \A x \in {a, b} : s.reservations[CurrentNode(s.robots[x])] = x
  <2>1. \A x \in {a, b} : CurrentNode(s.robots[x]) \in Window(s.robots[x])
                          /\ CurrentNode(s.robots[x]) \in Node
    BY <1>1, CurrentInWindow, NodesOfRoute
  <2> QED BY <2>1 DEF Core, ReservedIsWindow
<1>4. s.robots[a].reserved_end = s.robots[a].index
  <2>1. b \in Robot \ {a} /\ s.reservations[s.robots[a].route[s.robots[a].index + 1]] = b
    BY <1>2, <1>3
  <2> QED BY <1>1, <1>2, <2>1, NextIsReserved
<1>5. s.robots[b].reserved_end = s.robots[b].index
  <2>1. a \in Robot \ {b} /\ s.reservations[s.robots[b].route[s.robots[b].index + 1]] = a
    BY <1>2, <1>3
  <2> QED BY <1>1, <1>2, <2>1, NextIsReserved
<1> QED BY <1>4, <1>5

\* An iteration of the sweep: nothing happens to the routes and nobody is told
\* anything, or one robot that has used up its window is re-planned where it is,
\* and told so.
SweptRobot(s, t, x, told) ==
  /\ HasRoute(s.robots[x]) /\ s.robots[x].reserved_end = s.robots[x].index
  /\ Replanned(s, t, x) /\ told = {x}

LEMMA SweepGivesWay ==
  ASSUME IInv, NEW told,
         \/ \E a, b \in Robot : SweepPair(a, b, told)
         \/ \E x \in Robot : SweepEarly(x, told)
  PROVE  \/ tm' = tm /\ told = {}
         \/ \E x \in Robot : SweptRobot(tm, tm', x, told)
<1>1. ASSUME NEW a \in Robot, NEW b \in Robot, SweepPair(a, b, told)
      PROVE  \/ tm' = tm /\ told = {}
             \/ \E x \in Robot : SweptRobot(tm, tm', x, told)
  <2>1. CASE Faces(tm, a, b)
    <3>1. a < b /\ Core(tm)
      BY <1>1 DEF SweepPair, IInv
    <3>2. a # b
      BY <3>1, RobotAssumption
    <3>3. PICK o \in Arbitrate(tm, a, b) : tm' = o.s /\ told = o.rerouted
      BY <1>1, <2>1 DEF SweepPair
    <3>4. PICK x \in {a, b} : HasRoute(tm.robots[x]) /\ GivesWay(tm, o, x)
      BY <2>1, <3>1, ArbitrateGivesWay
    <3>5. tm.robots[x].reserved_end = tm.robots[x].index
      BY <2>1, <3>1, <3>2, FacingIsUsedUp
    <3> QED BY <3>3, <3>4, <3>5 DEF GivesWay, SweptRobot
  <2>2. CASE ~Faces(tm, a, b)
    BY <1>1, <2>2 DEF SweepPair
  <2> QED BY <2>1, <2>2
<1>2. ASSUME NEW x \in Robot, SweepEarly(x, told)
      PROVE  \/ tm' = tm /\ told = {}
             \/ SweptRobot(tm, tm', x, told)
  <2>1. Core(tm) /\ tm.robots[x] \in RobotState /\ ~AtEnd(tm.robots[x])
    BY <1>2 DEF IInv, Core, Manager, EarlyHasNext, SweepEarly
  <2>2. HasRoute(tm.robots[x])
    BY <2>1 DEF HasRoute, AtEnd, RobotState
  <2>3. PICK o \in YieldEarly(tm, x) : tm' = o.s /\ told = o.rerouted
    BY <1>2 DEF SweepEarly
  <2>4. GivesWay(tm, o, x)
    BY <2>1, <2>2, YieldEarlyGivesWay
  <2>5. CASE YieldsEarlyTo(tm, x) = {}
    BY <2>3, <2>5 DEF YieldEarly
  <2>6. CASE YieldsEarlyTo(tm, x) # {}
    <3>1. PICK y \in Robot \ {x} :
            tm.reservations[tm.robots[x].route[tm.robots[x].index + 1]] = y
      BY <2>6 DEF YieldsEarlyTo
    <3>2. tm.robots[x].reserved_end = tm.robots[x].index
      BY <2>1, <2>2, <3>1, NextIsReserved
    <3> QED BY <2>2, <2>3, <2>4, <3>2 DEF GivesWay, SweptRobot
  <2> QED BY <2>5, <2>6
<1> QED BY <1>1, <1>2

\* So the sweep concerns one robot at a time, or none.
LEMMA SweepSteps ==
  ASSUME TravelTypes, IInv, Sweep
  PROVE  /\ TravelTypes'
         /\ \/ \A q \in Robot : View(q)' = View(q)
            \/ \E x \in Robot : Only(x) /\ Swept(View(x), View(x)')
         /\ TrafficNext
<1>1. PICK told \in SUBSET Robot :
        /\ \/ \E a, b \in Robot : SweepPair(a, b, told)
           \/ \E x \in Robot : SweepEarly(x, told)
        /\ Tell(told)
  BY DEF Sweep
<1>2. /\ fsm' = fsm /\ request' = request /\ inbox' = inbox
      /\ pos' = pos /\ pose' = pose /\ obstacle' = obstacle
      /\ response' = [q \in Robot |-> IF q \in told
                        THEN Append(response[q], RouteReply("reroute", tm', q)) ELSE response[q]]
  BY <1>1 DEF Tell, floorVars
<1>3. response \in [Robot -> Seq(Message)]
  BY DEF TravelTypes
<1>4. TrafficNext
  BY <1>1 DEF TrafficNext
<1>5. CASE tm' = tm /\ told = {}
  <2>1. response' = response
    BY <1>2, <1>3, <1>5
  <2> QED BY <1>2, <1>4, <1>5, <2>1 DEF TravelTypes, View
<1>6. ASSUME NEW x \in Robot, SweptRobot(tm, tm', x, told)
      PROVE  TravelTypes' /\ Only(x) /\ Swept(View(x), View(x)')
  <2> DEFINE m == RouteReply("reroute", tm', x)
             u == tm'.robots[x]
  <2>1. Core(tm') /\ OnlyFor(tm, tm', x) /\ HasRoute(u)
    BY <1>6 DEF SweptRobot, Replanned, Serves
  <2>2. u.route \in Seq(Node) /\ u.route # <<>>
    BY <2>1 DEF Core, Manager, RobotState, HasRoute
  <2>3. m \in Message /\ m.type = "reroute" /\ m.nodes = u.route
    BY <2>2 DEF RouteReply, Message
  <2>4. HasRoute(tm.robots[x]) /\ tm.robots[x].reserved_end = tm.robots[x].index
        /\ Anew(u, CurrentNode(tm.robots[x]))
    BY <1>6, <2>1 DEF SweptRobot, Replanned, Anew
  <2> HIDE DEF m, u
  <2>5. /\ response'[x] = Append(response[x], m)
        /\ \A q \in Robot \ {x} : response'[q] = response[q]
    BY <1>2, <1>6 DEF SweptRobot, m
  <2>6. response' \in [Robot -> Seq(Message)]
    <3>1. ASSUME NEW q \in Robot PROVE response'[q] \in Seq(Message)
      <4>1. response[q] \in Seq(Message)
        BY <1>3
      <4>2. Append(response[x], m) \in Seq(Message)
        BY <1>3, <2>3
      <4>3. CASE q = x
        BY <2>5, <4>2, <4>3
      <4>4. CASE q # x
        BY <2>5, <4>1, <4>4
      <4> QED BY <4>3, <4>4
    <3> QED BY <1>2, <3>1
  <2>7. TravelTypes'
    BY <1>2, <2>6 DEF TravelTypes
  <2>8. Only(x)
    BY <1>2, <2>1, <2>5 DEF Only, View, OnlyFor
  <2>9. Swept(View(x), View(x)')
    <3>1. /\ View(x).st = tm.robots[x] /\ View(x)'.st = u
          /\ View(x).resp = response[x] /\ View(x)'.resp = Append(response[x], m)
          /\ View(x)'.req = View(x).req /\ View(x)'.in = View(x).in
      BY <1>2, <2>5 DEF View, u
    <3>2. SameLoop(View(x), View(x)') /\ SameFloor(View(x), View(x)')
      BY <1>2 DEF View, SameLoop, SameFloor
    <3> QED BY <2>3, <2>4, <3>1, <3>2 DEF Swept
  <2> QED BY <2>7, <2>8, <2>9
<1> QED BY <1>1, <1>4, <1>5, <1>6, SweepGivesWay

\* Every step keeps the types and concerns one robot at most; for the manager
\* it is one of its own steps, or none.  A sweep starts when it is due.
LEMMA PhasedStep ==
  ASSUME TravelTypes, IInv, [TravelNext]_vars
  PROVE  /\ TravelTypes'
         /\ \/ \A q \in Robot : View(q)' = View(q)
            \/ \E x \in Robot : Only(x) /\ Phased(x, View(x), View(x)')
         /\ Idle' \/ ~Idle \/ (Due /\ \A q \in Robot : View(q)' = View(q))
         /\ [TrafficNext]_trafficVars
<1> DEFINE Goal1 == /\ TravelTypes'
                    /\ \/ \A q \in Robot : View(q)' = View(q)
                       \/ \E x \in Robot : Only(x) /\ Phased(x, View(x), View(x)')
           Goal2 == Idle' \/ ~Idle \/ (Due /\ \A q \in Robot : View(q)' = View(q))
<1>1. UNCHANGED sweep => Goal2
  BY DEF Idle
<1>2. CASE UNCHANGED vars
  BY <1>1, <1>2, NoRobotSteps DEF vars, trafficVars
<1>3. CASE \E r \in Robot : Loop(r) \/ GiveUp(r) \/ Drive(r) \/ DriveFails(r)
  <2>1. PICK r \in Robot : Loop(r) \/ GiveUp(r) \/ Drive(r) \/ DriveFails(r)
    BY <1>3
  <2>2. TravelTypes' /\ Only(r) /\ Quiet(r, View(r), View(r)')
    <3>1. \/ \/ Depart(r) \/ WakeUp(r) \/ RouteAnswered(r) \/ RouteRefused(r) \/ MustWait(r)
             \/ NoWayAround(r) \/ Fails(r) \/ StoppedByObstacle(r) \/ DriveFails(r)
          \/ GiveUp(r) \/ SegmentGiven(r) \/ Rerouted(r) \/ Arrived(r) \/ SegmentDone(r)
          \/ AskRoute(r) \/ AskSegment(r) \/ AskAround(r)
          \/ LeaveNode(r) \/ EnterNode(r)
      BY <2>1 DEF Loop, Reads, Drive
    <3> QED BY <3>1, PlaceChanges, StateChanges, AskSteps, DriveSteps DEF Quiet
  <2>3. UNCHANGED <<tm, sweep>>
    BY <2>1 DEF Loop, Reads, Drive, Depart, WakeUp, RouteAnswered, RouteRefused, MustWait,
                NoWayAround, Fails, StoppedByObstacle, DriveFails, GiveUp, SegmentGiven,
                Rerouted, Arrived, SegmentDone, AskRoute, AskSegment, AskAround, Ask,
                LeaveNode, EnterNode, Move, Answered, OnlyRobotMoves
  <2> QED BY <1>1, <2>2, <2>3 DEF trafficVars, Phased
<1>4. CASE \E r \in Robot : HandleRequest(r) \/ HandlePose(r) \/ Deliver(r) \/ Lose(r)
  <2>1. PICK r \in Robot : HandleRequest(r) \/ HandlePose(r) \/ Deliver(r) \/ Lose(r)
    BY <1>4
  <2>2. UNCHANGED sweep
    BY <2>1 DEF HandleRequest, HandlePose, Deliver, Lose
  <2>3. CASE HandleRequest(r)
    BY <1>1, <2>2, <2>3, RequestSteps DEF IInv, Phased, TrafficNext, HandleRequest
  <2>4. CASE HandlePose(r)
    BY <1>1, <2>2, <2>4, PoseSteps DEF IInv, Phased, TrafficNext, HandlePose
  <2>5. CASE Deliver(r) \/ Lose(r)
    BY <1>1, <2>2, <2>5, MessageSteps DEF Quiet, Phased, Deliver, Lose, trafficVars
  <2> QED BY <2>1, <2>3, <2>4, <2>5
<1>5. CASE HandleTimer
  BY <1>5, NoRobotSteps DEF HandleTimer, TrafficNext
<1>6. CASE Sweep
  <2>1. sweep.pairs # {} \/ sweep.early # {}
    BY <1>6 DEF Sweep, SweepPair, SweepEarly
  <2>2. ~Idle
    BY <2>1 DEF Idle, NoSweep
  <2> QED BY <1>6, <2>2, SweepSteps DEF Phased
<1>7. CASE \E n \in Node : PlaceObstacle(n) \/ RemoveObstacle(n) \/ OperatorUnblocks(n)
  <2>1. Goal1
    BY <1>7, NoRobotSteps
  <2>2. [TrafficNext]_trafficVars /\ UNCHANGED sweep
    BY <1>7 DEF PlaceObstacle, RemoveObstacle, OperatorUnblocks, Unblock, TrafficNext, trafficVars
  <2> QED BY <1>1, <2>1, <2>2
<1> QED BY <1>2, <1>3, <1>4, <1>5, <1>6, <1>7 DEF TravelNext

LEMMA EveryStep ==
  ASSUME TravelTypes, IInv, [TravelNext]_vars
  PROVE  /\ TravelTypes'
         /\ \/ \A q \in Robot : View(q)' = View(q)
            \/ \E x \in Robot : Only(x) /\ Steps(x, View(x), View(x)')
         /\ [TrafficNext]_trafficVars
<1>1. \A x \in Robot : Phased(x, View(x), View(x)') => Steps(x, View(x), View(x)')
  BY DEF Phased, Steps
<1> QED BY <1>1, PhasedStep

-----------------------------------------------------------------------------
(* The protocol.  Whatever comes in is taken for the answer a robot waits  *)
(* for; here is what can come in.  A robot whose call was preempted asks   *)
(* for a route again while the last answer is still to come, so that any   *)
(* number of routes may be on their way.                                   *)

Early == {"route", "routeAsked", "routeSleep"}
Stopped == Early \cup {"segment", "segmentAsked", "segmentSleep", "failed"}
Rolling == {"drive", "failed"}

\* What the requests and answers on their way are.
OnlyRoutes(v) == \A i \in 1..Len(v.req) : v.req[i][1] = "route"
Unasked(v) == \A i \in 1..Len(v.req) : v.req[i][1] # "route"
Untold(v) == \A i \in 1..Len(v.resp) : v.resp[i].type # "route"
Tells(v, types) == \A i \in 1..Len(v.resp) : v.resp[i].type \in types
NoneUnderway(v) == Unasked(v) /\ Untold(v)

\* As long as a route is on its way the robot stands.
RouteAwaited(v) == NoneUnderway(v) \/ v.pc \in Stopped

\* Before the robot has a route, only routes are asked for after one.
AskedLast(v) ==
  v.pc \in Early =>
    \A i \in 1..Len(v.req) : v.req[i][1] = "route" =>
      \A j \in i..Len(v.req) : v.req[j][1] = "route"

\* After a route only other answers to such requests come in, and what a sweep
\* sends while the robot waits for that route and nothing else.
ToldLast(v) ==
  v.pc \in Early =>
    \A i \in 1..Len(v.resp) : v.resp[i].type = "route" =>
      /\ OnlyRoutes(v)
      /\ \A j \in i..Len(v.resp) :
           /\ v.resp[j].type \in {"route", "wait", "reroute"}
           /\ v.resp[j].type = "reroute" =>
                /\ v.pc = "routeAsked" /\ v.in = NoMessage /\ v.req = <<>> /\ i = 1
                /\ \A k \in 2..Len(v.resp) : v.resp[k].type # "route"

\* So it is when the route has come in.
TakenLast(v) ==
  v.pc = "routeAsked" /\ v.in.type = "route" =>
    /\ OnlyRoutes(v) /\ Tells(v, {"route", "wait", "reroute"})
    /\ NoneUnderway(v) \/ Tells(v, {"route", "wait"})

\* A robot that has a route takes in the answers to its requests for one before
\* anything else.
RouteFirst(v) ==
  /\ v.pc = "segment" => NoneUnderway(v) \/ (OnlyRoutes(v) /\ Tells(v, {"route", "wait"}))
  /\ v.pc = "segmentAsked" =>
       /\ \A i \in 1..Len(v.req) : v.req[i][1] = "route" =>
            /\ i < Len(v.req) /\ Tells(v, {"route", "wait"})
            /\ \A j \in 1..i : v.req[j][1] = "route"
       /\ \A i \in 1..Len(v.resp) : v.resp[i].type = "route" =>
            \A j \in 1..i : v.resp[j].type \in {"route", "wait"}
       /\ NoneUnderway(v) \/ v.in.type \in {"none", "route", "wait"}

\* A robot that was not told a route has not left.
Routed(v) ==
  \/ HasRoute(v.st)
  \/ /\ v.pc \in {"rest"} \cup Early
     /\ Untold(v)
     /\ v.pc = "routeAsked" => v.in.type # "route"

\* A report of an obstacle is handled before anything the robot asks later, and
\* no route or segment given before it is on its way.
BlockAsked(v) ==
  /\ \A i \in 1..Len(v.req) : v.req[i][1] = "blocked" => i = 1 /\ v.pc \notin Rolling
  /\ v.pc = "blocked" => v.req = <<>>
  /\ v.pc = "blocked" \/ (\E i \in 1..Len(v.req) : v.req[i][1] = "blocked") =>
       /\ Untold(v) /\ \A i \in 1..Len(v.resp) : v.resp[i].type # "segment"
       /\ v.pc \in {"routeAsked", "segmentAsked"} => v.in.type # "route"
       /\ v.pc = "segmentAsked" => v.in.type # "segment"

Protocol(v) ==
  /\ RouteAwaited(v) /\ AskedLast(v) /\ ToldLast(v) /\ TakenLast(v) /\ RouteFirst(v)
  /\ Routed(v) /\ BlockAsked(v)

\* While a sweep goes on no request is handled: there is at most one route on its
\* way to a robot, the next thing that it takes in.
Sweepable(v) ==
  /\ v.pc \notin Early \/ (v.pc = "routeAsked" /\ v.in.type = "route") => Unasked(v)
  /\ \A i \in 1..Len(v.resp) : v.resp[i].type = "route" =>
       /\ i = 1 /\ v.pc \in {"routeAsked", "segmentAsked"} /\ v.in = NoMessage
       /\ Unasked(v)

\* A queue after a message was appended, or taken.
LEMMA QueueGrows ==
  ASSUME NEW S, NEW q \in Seq(S), NEW e \in S, NEW p, p = Append(q, e)
  PROVE  /\ p \in Seq(S) /\ Len(q) \in Nat /\ Len(p) = Len(q) + 1 /\ p[Len(q) + 1] = e
         /\ \A i \in 1..Len(q) : p[i] = q[i]
  OBVIOUS

LEMMA QueueShrinks ==
  ASSUME NEW S, NEW q \in Seq(S), q # <<>>, NEW p, p = Tail(q)
  PROVE  /\ p \in Seq(S) /\ Len(p) \in Nat /\ Len(q) = Len(p) + 1 /\ Head(q) = q[1]
         /\ Head(q) \in S
         /\ \A i \in 1..Len(p) : p[i] = q[i + 1]
  OBVIOUS

\* The robot's own steps keep the protocol.
LEMMA ThinksProtocol ==
  ASSUME NEW x \in Robot, NEW v \in Views, NEW w \in Views, Protocol(v), Thinks(x, v, w)
  PROVE  Protocol(w)
<1>1. w.st = v.st /\ w.req = v.req /\ w.resp = v.resp /\ w.in = v.in
  BY DEF Thinks, SameMail
<1>2. SettledView(v) => v.req = <<>> /\ Len(v.req) = 0 /\ Len(v.resp) = 0
  BY DEF SettledView
<1>3. v.req \in Seq(Request) /\ v.resp \in Seq(Message) /\ Len(v.req) \in Nat /\ Len(v.resp) \in Nat
  BY DEF Views
<1>4. NoMessage.type = "none"
  BY DEF NoMessage
<1>5. /\ NoneUnderway(w) <=> NoneUnderway(v)
      /\ OnlyRoutes(w) <=> OnlyRoutes(v)
      /\ Tells(w, {"route", "wait"}) <=> Tells(v, {"route", "wait"})
      /\ Tells(w, {"route", "wait", "reroute"}) <=> Tells(v, {"route", "wait", "reroute"})
      /\ Untold(w) <=> Untold(v)
  BY <1>1 DEF NoneUnderway, OnlyRoutes, Tells, Unasked, Untold
<1>6. SettledView(v) => NoneUnderway(v) /\ OnlyRoutes(v) /\ Tells(v, {"route", "wait"})
  BY <1>2 DEF NoneUnderway, OnlyRoutes, Tells, Unasked, Untold
<1>7. RouteAwaited(w)
  BY <1>4, <1>5, <1>6 DEF Protocol, RouteAwaited, RouteFirst, Thinks, Unrouted, Goes, Early, Stopped
<1>8. AskedLast(w)
  <2>1. ASSUME w.pc \in Early
        PROVE  v.pc \in Early \/ SettledView(v) \/ NoneUnderway(v) \/ OnlyRoutes(v)
    BY <2>1 DEF Protocol, RouteFirst, Thinks, Unrouted, Goes, Early
  <2> QED BY <1>1, <1>2, <1>3, <2>1 DEF Protocol, AskedLast, NoneUnderway, Unasked, OnlyRoutes
<1>9. ToldLast(w)
  <2> SUFFICES ASSUME w.pc \in Early, NEW i \in 1..Len(v.resp), v.resp[i].type = "route"
               PROVE  /\ OnlyRoutes(v)
                      /\ \A j \in i..Len(v.resp) : v.resp[j].type \in {"route", "wait"}
    BY <1>1, <1>5 DEF ToldLast
  <2>1. ~NoneUnderway(v) /\ ~SettledView(v)
    BY <1>6 DEF NoneUnderway, Untold
  <2>2. CASE v.pc = "segment"
    BY <1>3, <2>1, <2>2 DEF Protocol, RouteFirst, Tells
  <2>3. CASE v.pc \in Early
    <3>1. v.pc # "routeAsked" \/ v.in # NoMessage
      BY <2>1, <2>3, <1>4 DEF Thinks, Unrouted, Goes, Early
    <3> QED BY <2>3, <3>1 DEF Protocol, ToldLast
  <2>4. v.pc = "segment" \/ v.pc \in Early
    BY <2>1 DEF Thinks, Unrouted, Goes, Early
  <2> QED BY <2>2, <2>3, <2>4
<1>10. TakenLast(w)
  BY DEF TakenLast, Thinks, Unrouted, Goes
<1>11. RouteFirst(w)
  <2>1. w.pc # "segmentAsked"
    BY DEF Thinks, Goes
  <2>2. ASSUME w.pc = "segment", ~NoneUnderway(v)
        PROVE  OnlyRoutes(v) /\ Tells(v, {"route", "wait"})
    <3>1. v.pc = "routeAsked" /\ v.in.type = "route"
      <4>1. ~SettledView(v) /\ v.pc \notin {"drive", "blockedAsked"}
        BY <1>6, <2>2 DEF Protocol, RouteAwaited, Stopped, Early
      <4>2. ~(v.pc = "segmentAsked" /\ v.in.type = "reroute")
        BY <2>2 DEF Protocol, RouteFirst
      <4> QED BY <2>2, <4>1, <4>2 DEF Thinks, Goes
    <3> QED BY <2>2, <3>1 DEF Protocol, TakenLast
  <2> QED BY <1>5, <2>1, <2>2 DEF RouteFirst
<1>12. Routed(w)
  BY <1>1, <1>4, <1>5 DEF Protocol, Routed, Thinks, Unrouted, Goes, Early
<1>13. BlockAsked(w)
  <2>1. w.pc = "blocked" => SettledView(v)
    BY DEF Thinks, Goes
  <2>2. w.pc \in Rolling => SettledView(v) \/ v.pc \in Rolling
                            \/ (v.pc = "segmentAsked" /\ v.in.type \in {"segment", "route"})
    <3>1. w.pc = "failed" => \/ SettledView(v) \/ v.pc \in Rolling
                             \/ v.pc = "segmentAsked" /\ v.in.type = "route"
      BY DEF Thinks, Goes, Rolling
    <3>2. w.pc = "drive" => v.pc = "segmentAsked" /\ v.in.type = "segment"
      BY DEF Thinks, Goes
    <3> QED BY <3>1, <3>2 DEF Rolling
  <2>3. w.pc \notin {"routeAsked", "segmentAsked"}
    BY DEF Thinks, Goes
  <2> QED BY <1>1, <1>2, <1>5, <2>1, <2>2, <2>3 DEF Protocol, BlockAsked, Untold
<1> QED BY <1>7, <1>8, <1>9, <1>10, <1>11, <1>12, <1>13 DEF Protocol

\* So do its requests.
LEMMA RequestsProtocol ==
  ASSUME NEW v \in Views, NEW w \in Views, Protocol(v), Requests(v, w)
  PROVE  Protocol(w)
<1>1. PICK q \in Request :
        /\ w.req = Append(v.req, q)
        /\ \/ v.pc = "route" /\ q[1] = "route" /\ w.pc = "routeAsked"
           \/ v.pc = "segment" /\ q[1] = "segment" /\ w.pc = "segmentAsked"
           \/ v.pc = "blocked" /\ q[1] = "blocked" /\ w.pc = "blockedAsked"
  BY DEF Requests, Goes
<1>2. w.st = v.st /\ w.resp = v.resp /\ w.in.type = "none"
  BY DEF Requests, NoMessage
<1>3. v.req \in Seq(Request) /\ v.resp \in Seq(Message) /\ Len(v.req) \in Nat /\ Len(v.resp) \in Nat
  BY DEF Views
<1>4. /\ Len(w.req) = Len(v.req) + 1 /\ w.req[Len(v.req) + 1] = q
      /\ \A i \in 1..Len(v.req) : w.req[i] = v.req[i]
  BY <1>1, <1>3, QueueGrows
<1>5. v.req = <<>> => Len(v.req) = 0
  OBVIOUS
<1>6. \A i \in 1..Len(w.req) : i \in 1..Len(v.req) \/ i = Len(v.req) + 1
  BY <1>3, <1>4
<1>7. /\ Untold(w) <=> Untold(v)
      /\ Tells(w, {"route", "wait"}) <=> Tells(v, {"route", "wait"})
      /\ q[1] # "route" => (NoneUnderway(w) <=> NoneUnderway(v))
  BY <1>2, <1>3, <1>4, <1>6 DEF Untold, Tells, NoneUnderway, Unasked
<1>8. RouteAwaited(w)
  BY <1>1, <1>7 DEF Protocol, RouteAwaited, Stopped, Early
<1>9. AskedLast(w)
  BY <1>1, <1>3, <1>4, <1>6 DEF Protocol, AskedLast, Early
<1>10. ToldLast(w)
  <2> SUFFICES ASSUME w.pc \in Early, NEW i \in 1..Len(v.resp), v.resp[i].type = "route"
               PROVE  /\ OnlyRoutes(w)
                      /\ \A j \in i..Len(v.resp) : v.resp[j].type \in {"route", "wait"}
    BY <1>2 DEF ToldLast
  <2>1. v.pc = "route" /\ q[1] = "route"
    BY <1>1 DEF Early
  <2>2. /\ OnlyRoutes(v)
        /\ \A j \in i..Len(v.resp) : v.resp[j].type \in {"route", "wait"}
    BY <2>1 DEF Protocol, ToldLast, Early
  <2>3. OnlyRoutes(w)
    BY <1>4, <1>6, <2>1, <2>2 DEF OnlyRoutes
  <2> QED BY <2>2, <2>3
<1>11. TakenLast(w)
  BY <1>2 DEF TakenLast
<1>12. RouteFirst(w)
  <2>1. w.pc # "segment"
    BY <1>1
  <2>2. CASE w.pc = "segmentAsked"
    <3>1. v.pc = "segment" /\ q[1] # "route"
      BY <1>1, <2>2
    <3>2. CASE NoneUnderway(v)
      <4>1. NoneUnderway(w)
        BY <1>7, <3>1, <3>2
      <4> QED BY <2>1, <4>1 DEF RouteFirst, NoneUnderway, Unasked, Untold
    <3>3. CASE OnlyRoutes(v) /\ Tells(v, {"route", "wait"})
      <4>1. Tells(w, {"route", "wait"})
        BY <1>7, <3>3
      <4>2. ASSUME NEW i \in 1..Len(w.req), w.req[i][1] = "route"
            PROVE  i < Len(w.req) /\ \A j \in 1..i : w.req[j][1] = "route"
        BY <1>3, <1>4, <1>6, <3>1, <3>3, <4>2, SMTT(30) DEF OnlyRoutes
      <4>3. \A i \in 1..Len(w.resp) : \A j \in 1..i : w.resp[j].type \in {"route", "wait"}
        BY <1>2, <1>3, <4>1 DEF Tells
      <4> QED BY <1>2, <2>1, <4>1, <4>2, <4>3 DEF RouteFirst
    <3> QED BY <3>1, <3>2, <3>3 DEF Protocol, RouteFirst
  <2> QED BY <2>1, <2>2 DEF RouteFirst
<1>13. Routed(w)
  BY <1>1, <1>2, <1>7 DEF Protocol, Routed, Early
<1>14. BlockAsked(w)
  <2>1. w.pc \notin Rolling /\ w.pc # "blocked"
    BY <1>1 DEF Rolling
  <2>2. ASSUME NEW i \in 1..Len(w.req), w.req[i][1] = "blocked"
        PROVE  /\ i = 1 /\ Untold(v)
               /\ \A j \in 1..Len(v.resp) : v.resp[j].type # "segment"
    BY <1>1, <1>3, <1>4, <1>5, <1>6, <2>2 DEF Protocol, BlockAsked
  <2> QED BY <1>2, <1>7, <2>1, <2>2 DEF BlockAsked
<1> QED BY <1>8, <1>9, <1>10, <1>11, <1>12, <1>13, <1>14 DEF Protocol

\* So does the way of the messages.
LEMMA MessagesProtocol ==
  ASSUME NEW x \in Robot, NEW v \in Views, NEW w \in Views, Protocol(v),
         Receives(v, w) \/ Misses(x, v, w)
  PROVE  Protocol(w)
<1>1. v.req \in Seq(Request) /\ v.resp \in Seq(Message) /\ Len(v.req) \in Nat /\ Len(v.resp) \in Nat
  BY DEF Views
<1>2. w.st = v.st /\ w.pc = v.pc
  BY DEF Receives, Misses, SameLoop
<1>3. v.req = <<>> => Len(v.req) = 0
  OBVIOUS
<1>4. CASE v.resp # <<>> /\ w.resp = Tail(v.resp) /\ w.req = v.req
           /\ (w.in = Head(v.resp) \/ w.in = v.in)
  <2>1. /\ Len(w.resp) \in Nat /\ Len(v.resp) = Len(w.resp) + 1 /\ Head(v.resp) = v.resp[1]
        /\ \A i \in 1..Len(w.resp) : w.resp[i] = v.resp[i + 1]
    BY <1>1, <1>4, QueueShrinks
  <2>2. \A i \in 1..Len(w.resp) : i + 1 \in 1..Len(v.resp)
    BY <2>1
  <2>3. 1 \in 1..Len(v.resp)
    BY <2>1
  <2>4. /\ Unasked(w) <=> Unasked(v)
        /\ OnlyRoutes(w) <=> OnlyRoutes(v)
        /\ Untold(v) => Untold(w) /\ v.resp[1].type # "route"
        /\ NoneUnderway(v) => NoneUnderway(w)
        /\ Tells(v, {"route", "wait"}) =>
             Tells(w, {"route", "wait"}) /\ v.resp[1].type \in {"route", "wait"}
        /\ Tells(v, {"route", "wait", "reroute"}) =>
             Tells(w, {"route", "wait", "reroute"})
    BY <1>4, <2>1, <2>2, <2>3 DEF NoneUnderway, Unasked, Untold, OnlyRoutes, Tells
  <2>5. RouteAwaited(w)
    BY <1>2, <2>4 DEF Protocol, RouteAwaited
  <2>6. AskedLast(w)
    BY <1>2, <1>4 DEF Protocol, AskedLast
  <2>7. ToldLast(w)
    <3> SUFFICES ASSUME w.pc \in Early, NEW i \in 1..Len(w.resp), w.resp[i].type = "route"
                 PROVE  /\ OnlyRoutes(w)
                        /\ \A j \in i..Len(w.resp) : w.resp[j].type \in {"route", "wait"}
      BY DEF ToldLast
    <3>1. i + 1 \in 1..Len(v.resp) /\ v.resp[i + 1].type = "route" /\ i + 1 # 1
      BY <2>1, <2>2
    <3>2. /\ OnlyRoutes(v)
          /\ \A j \in (i + 1)..Len(v.resp) : v.resp[j].type \in {"route", "wait"}
      BY <1>2, <3>1 DEF Protocol, ToldLast
    <3>3. ASSUME NEW j \in i..Len(w.resp) PROVE w.resp[j].type \in {"route", "wait"}
      <4>1. j \in 1..Len(w.resp) /\ j + 1 \in (i + 1)..Len(v.resp)
        BY <2>1
      <4> QED BY <2>1, <3>2, <4>1
    <3> QED BY <2>4, <3>2, <3>3
  <2>8. TakenLast(w)
    <3> SUFFICES ASSUME w.pc = "routeAsked", w.in.type = "route"
                 PROVE  /\ OnlyRoutes(w) /\ Tells(w, {"route", "wait", "reroute"})
                        /\ NoneUnderway(w) \/ Tells(w, {"route", "wait"})
      BY DEF TakenLast
    <3>1. CASE v.in.type = "route"
      BY <1>2, <2>4, <3>1 DEF Protocol, TakenLast
    <3>2. CASE v.resp[1].type = "route"
      <4>1. /\ OnlyRoutes(v)
            /\ \A j \in 1..Len(v.resp) :
                 /\ v.resp[j].type \in {"route", "wait", "reroute"}
                 /\ v.resp[j].type = "reroute" =>
                      /\ v.req = <<>>
                      /\ \A k \in 2..Len(v.resp) : v.resp[k].type # "route"
        BY <1>2, <2>3, <3>2 DEF Protocol, ToldLast, Early
      <4>2. Tells(v, {"route", "wait", "reroute"})
        BY <4>1 DEF Tells
      <4>3. CASE \A j \in 1..Len(v.resp) : v.resp[j].type # "reroute"
        <5>1. Tells(v, {"route", "wait"})
          BY <4>1, <4>3 DEF Tells
        <5> QED BY <2>4, <4>1, <4>2, <5>1
      <4>4. CASE \E j \in 1..Len(v.resp) : v.resp[j].type = "reroute"
        <5>1. v.req = <<>> /\ \A k \in 2..Len(v.resp) : v.resp[k].type # "route"
          BY <4>1, <4>4
        <5>2. \A i \in 1..Len(w.resp) : i + 1 \in 2..Len(v.resp)
          BY <2>1
        <5>3. NoneUnderway(w)
          BY <1>3, <1>4, <2>1, <5>1, <5>2 DEF NoneUnderway, Unasked, Untold
        <5> QED BY <2>4, <4>1, <4>2, <5>3
      <4> QED BY <4>3, <4>4
    <3> QED BY <1>4, <2>1, <3>1, <3>2
  <2>9. RouteFirst(w)
    <3>1. CASE w.pc = "segment"
      BY <1>2, <2>4, <3>1 DEF Protocol, RouteFirst
    <3>2. CASE w.pc = "segmentAsked"
      <4>1. ASSUME NEW i \in 1..Len(w.req), w.req[i][1] = "route"
            PROVE  /\ i < Len(w.req) /\ Tells(w, {"route", "wait"})
                   /\ \A j \in 1..i : w.req[j][1] = "route"
                   /\ v.resp[1].type \in {"route", "wait"}
        BY <1>2, <1>4, <2>4, <3>2, <4>1 DEF Protocol, RouteFirst
      <4>2. ASSUME NEW i \in 1..Len(w.resp), w.resp[i].type = "route"
            PROVE  /\ \A j \in 1..i : w.resp[j].type \in {"route", "wait"}
                   /\ v.resp[1].type \in {"route", "wait"}
        <5>1. i + 1 \in 1..Len(v.resp) /\ v.resp[i + 1].type = "route"
          BY <2>1, <2>2, <4>2
        <5>2. \A j \in 1..(i + 1) : v.resp[j].type \in {"route", "wait"}
          BY <1>2, <3>2, <5>1 DEF Protocol, RouteFirst
        <5>3. ASSUME NEW j \in 1..i PROVE w.resp[j].type \in {"route", "wait"}
          <6>1. j \in 1..Len(w.resp) /\ j + 1 \in 1..(i + 1)
            BY <2>1
          <6> QED BY <2>1, <5>2, <6>1
        <5>4. v.resp[1].type \in {"route", "wait"}
          BY <2>1, <5>2
        <5> QED BY <5>3, <5>4
      <4>3. NoneUnderway(w) \/ w.in.type \in {"none", "route", "wait"}
        <5>1. NoneUnderway(w) \/ v.resp[1].type \in {"route", "wait"}
          BY <4>1, <4>2 DEF NoneUnderway, Unasked, Untold
        <5> QED BY <1>2, <1>4, <2>1, <2>4, <3>2, <5>1 DEF Protocol, RouteFirst
      <4> QED BY <3>2, <4>1, <4>2, <4>3 DEF RouteFirst
    <3> QED BY <3>1, <3>2 DEF RouteFirst
  <2>10. Routed(w)
    BY <1>2, <1>4, <2>1, <2>4 DEF Protocol, Routed
  <2>11. BlockAsked(w)
    BY <1>1, <1>2, <1>4, <2>1, <2>2, <2>3, <2>4 DEF Protocol, BlockAsked
  <2> QED BY <2>5, <2>6, <2>7, <2>8, <2>9, <2>10, <2>11 DEF Protocol
<1>5. CASE v.req # <<>> /\ w.req = Tail(v.req) /\ w.resp = v.resp /\ w.in = v.in
  <2>1. /\ Len(w.req) \in Nat /\ Len(v.req) = Len(w.req) + 1
        /\ \A i \in 1..Len(w.req) : w.req[i] = v.req[i + 1]
    BY <1>1, <1>5, QueueShrinks
  <2>2. \A i \in 1..Len(w.req) : i + 1 \in 1..Len(v.req)
    BY <2>1
  <2>3. /\ Unasked(v) => Unasked(w)
        /\ OnlyRoutes(v) => OnlyRoutes(w)
        /\ Untold(w) <=> Untold(v)
        /\ NoneUnderway(v) => NoneUnderway(w)
        /\ Tells(w, {"route", "wait"}) <=> Tells(v, {"route", "wait"})
        /\ Tells(w, {"route", "wait", "reroute"}) <=> Tells(v, {"route", "wait", "reroute"})
    BY <1>5, <2>1, <2>2 DEF NoneUnderway, Unasked, Untold, OnlyRoutes, Tells
  <2>4. RouteAwaited(w)
    BY <1>2, <2>3 DEF Protocol, RouteAwaited
  <2>5. AskedLast(w)
    <3> SUFFICES ASSUME w.pc \in Early, NEW i \in 1..Len(w.req), w.req[i][1] = "route",
                        NEW j \in i..Len(w.req)
                 PROVE  w.req[j][1] = "route"
      BY DEF AskedLast
    <3>1. /\ i + 1 \in 1..Len(v.req) /\ v.req[i + 1][1] = "route"
          /\ j + 1 \in (i + 1)..Len(v.req) /\ j \in 1..Len(w.req)
      BY <2>1, <2>2
    <3> QED BY <1>2, <2>1, <3>1 DEF Protocol, AskedLast
  <2>6. ToldLast(w)
    BY <1>2, <1>3, <1>5, <2>3 DEF Protocol, ToldLast
  <2>7. TakenLast(w)
    BY <1>2, <1>5, <2>3 DEF Protocol, TakenLast
  <2>8. RouteFirst(w)
    <3>1. CASE w.pc = "segment"
      BY <1>2, <2>3, <3>1 DEF Protocol, RouteFirst
    <3>2. CASE w.pc = "segmentAsked"
      <4>1. ASSUME NEW i \in 1..Len(w.req), w.req[i][1] = "route"
            PROVE  /\ i < Len(w.req) /\ Tells(w, {"route", "wait"})
                   /\ \A j \in 1..i : w.req[j][1] = "route"
        <5>1. i + 1 \in 1..Len(v.req) /\ v.req[i + 1][1] = "route"
          BY <2>1, <2>2, <4>1
        <5>2. /\ i + 1 < Len(v.req) /\ Tells(v, {"route", "wait"})
              /\ \A j \in 1..(i + 1) : v.req[j][1] = "route"
          BY <1>2, <3>2, <5>1 DEF Protocol, RouteFirst
        <5>3. ASSUME NEW j \in 1..i PROVE w.req[j][1] = "route"
          <6>1. j \in 1..Len(w.req) /\ j + 1 \in 1..(i + 1)
            BY <2>1
          <6> QED BY <2>1, <5>2, <6>1
        <5>4. i < Len(w.req)
          BY <2>1, <5>2
        <5> QED BY <2>3, <5>2, <5>3, <5>4
      <4>2. /\ \A i \in 1..Len(w.resp) : w.resp[i].type = "route" =>
                 \A j \in 1..i : w.resp[j].type \in {"route", "wait"}
            /\ NoneUnderway(w) \/ w.in.type \in {"none", "route", "wait"}
        BY <1>2, <1>5, <2>3, <3>2 DEF Protocol, RouteFirst
      <4> QED BY <3>2, <4>1, <4>2 DEF RouteFirst
    <3> QED BY <3>1, <3>2 DEF RouteFirst
  <2>9. Routed(w)
    BY <1>2, <1>5, <2>3 DEF Protocol, Routed
  <2>10. BlockAsked(w)
    BY <1>1, <1>2, <1>3, <1>5, <2>1, <2>2, <2>3 DEF Protocol, BlockAsked, Rolling
  <2> QED BY <2>4, <2>5, <2>6, <2>7, <2>8, <2>9, <2>10 DEF Protocol
<1> QED BY <1>4, <1>5 DEF Receives, Misses

\* So do the manager's answers.
LEMMA ServedProtocol ==
  ASSUME NEW v \in Views, NEW w \in Views, Protocol(v), Served(v, w)
  PROVE  Protocol(w)
<1>1. v.req \in Seq(Request) /\ v.resp \in Seq(Message) /\ Len(v.req) \in Nat /\ Len(v.resp) \in Nat
  BY DEF Views
<1>2. PICK m \in Message :
        /\ w.resp = Append(v.resp, m)
        /\ \/ Head(v.req)[1] = "route" /\ AnswersRoute(v.st, Head(v.req)[2], w.st, m)
           \/ Head(v.req)[1] = "segment" /\ AnswersSegment(v.st, w.st, m)
           \/ Head(v.req)[1] = "blocked" /\ AnswersBlocked(v.st, w.st, m)
  BY DEF Served
<1>3. w.pc = v.pc /\ w.in = v.in /\ v.req # <<>> /\ w.req = Tail(v.req)
  BY DEF Served, SameLoop
<1>4. /\ Len(w.req) \in Nat /\ Len(v.req) = Len(w.req) + 1 /\ Head(v.req) = v.req[1]
      /\ \A i \in 1..Len(w.req) : w.req[i] = v.req[i + 1]
      /\ w.req \in Seq(Request)
  BY <1>1, <1>3, QueueShrinks
<1>5. /\ Len(w.resp) = Len(v.resp) + 1 /\ w.resp[Len(v.resp) + 1] = m
      /\ \A i \in 1..Len(v.resp) : w.resp[i] = v.resp[i]
  BY <1>1, <1>2, QueueGrows
<1>6. 1 \in 1..Len(v.req) /\ \A i \in 1..Len(w.req) : i + 1 \in 1..Len(v.req)
  BY <1>4
<1>7. /\ m.type = "route" => v.req[1][1] = "route"
      /\ v.req[1][1] = "route" => m.type \in {"route", "wait"}
      /\ m.type = "segment" => v.req[1][1] = "segment"
      /\ m.type = "route" => HasRoute(w.st)
      /\ HasRoute(v.st) => HasRoute(w.st)
  BY <1>2, <1>4
     DEF AnswersRoute, AnswersSegment, AnswersBlocked, Wait, IsSegment, Anew, Grows, HasRoute
<1>8. \A i \in 1..Len(w.resp) : i \in 1..Len(v.resp) \/ i = Len(v.resp) + 1
  BY <1>1, <1>5
<1>9. /\ Unasked(v) => Unasked(w) /\ v.req[1][1] # "route"
      /\ OnlyRoutes(v) => OnlyRoutes(w) /\ v.req[1][1] = "route"
      /\ Untold(v) => Untold(w) \/ m.type = "route"
      /\ NoneUnderway(v) => NoneUnderway(w)
      /\ Tells(v, {"route", "wait"}) =>
           Tells(w, {"route", "wait"}) \/ m.type \notin {"route", "wait"}
      /\ Tells(v, {"route", "wait", "reroute"}) =>
           Tells(w, {"route", "wait", "reroute"}) \/ m.type \notin {"route", "wait"}
  BY <1>4, <1>5, <1>6, <1>7, <1>8 DEF NoneUnderway, Unasked, Untold, OnlyRoutes, Tells
<1>10. RouteAwaited(w)
  BY <1>3, <1>9 DEF Protocol, RouteAwaited
<1>11. AskedLast(w)
  <2> SUFFICES ASSUME w.pc \in Early, NEW i \in 1..Len(w.req), w.req[i][1] = "route",
                      NEW j \in i..Len(w.req)
               PROVE  w.req[j][1] = "route"
    BY DEF AskedLast
  <2>1. /\ i + 1 \in 1..Len(v.req) /\ v.req[i + 1][1] = "route"
        /\ j + 1 \in (i + 1)..Len(v.req) /\ j \in 1..Len(w.req)
    BY <1>4, <1>6
  <2> QED BY <1>3, <1>4, <2>1 DEF Protocol, AskedLast
<1>12. ToldLast(w)
  <2> SUFFICES ASSUME w.pc \in Early, NEW i \in 1..Len(w.resp), w.resp[i].type = "route"
               PROVE  /\ OnlyRoutes(w)
                      /\ \A j \in i..Len(w.resp) : w.resp[j].type \in {"route", "wait"}
    BY DEF ToldLast
  <2>1. CASE i \in 1..Len(v.resp)
    <3>1. /\ OnlyRoutes(v)
          /\ \A j \in i..Len(v.resp) : v.resp[j].type \in {"route", "wait"}
      BY <1>3, <1>5, <2>1 DEF Protocol, ToldLast
    <3>2. m.type \in {"route", "wait"}
      BY <1>7, <1>9, <3>1
    <3>3. ASSUME NEW j \in i..Len(w.resp) PROVE w.resp[j].type \in {"route", "wait"}
      <4>1. j \in i..Len(v.resp) \/ j = Len(v.resp) + 1
        BY <1>1, <1>5, <2>1
      <4> QED BY <1>5, <2>1, <3>1, <3>2, <4>1
    <3> QED BY <1>9, <3>1, <3>3
  <2>2. CASE i = Len(v.resp) + 1
    <3>1. m.type = "route" /\ v.req[1][1] = "route"
      BY <1>5, <1>7, <2>2
    <3>2. OnlyRoutes(v)
      BY <1>3, <1>6, <3>1 DEF Protocol, AskedLast, OnlyRoutes
    <3>3. \A j \in i..Len(w.resp) : j = i
      BY <1>1, <1>5, <2>2
    <3> QED BY <1>5, <1>9, <2>2, <3>1, <3>2, <3>3
  <2> QED BY <1>8, <2>1, <2>2
<1>13. TakenLast(w)
  <2> SUFFICES ASSUME v.pc = "routeAsked", v.in.type = "route"
               PROVE  /\ OnlyRoutes(w) /\ Tells(w, {"route", "wait", "reroute"})
                      /\ NoneUnderway(w) \/ Tells(w, {"route", "wait"})
    BY <1>3 DEF TakenLast
  <2>1. /\ OnlyRoutes(v) /\ Tells(v, {"route", "wait", "reroute"})
        /\ NoneUnderway(v) \/ Tells(v, {"route", "wait"})
    BY DEF Protocol, TakenLast
  <2> QED BY <1>7, <1>9, <2>1
<1>14. RouteFirst(w)
  <2>1. CASE w.pc = "segment"
    <3>1. NoneUnderway(v) \/ (OnlyRoutes(v) /\ Tells(v, {"route", "wait"}))
      BY <1>3, <2>1 DEF Protocol, RouteFirst
    <3>2. NoneUnderway(w) \/ (OnlyRoutes(w) /\ Tells(w, {"route", "wait"}))
      BY <1>7, <1>9, <3>1
    <3> QED BY <2>1, <3>2 DEF RouteFirst
  <2>2. CASE w.pc = "segmentAsked"
    <3>1. ASSUME NEW i \in 1..Len(w.req), w.req[i][1] = "route"
          PROVE  /\ i < Len(w.req) /\ Tells(w, {"route", "wait"})
                 /\ \A j \in 1..i : w.req[j][1] = "route"
      <4>1. i + 1 \in 1..Len(v.req) /\ v.req[i + 1][1] = "route" /\ 1 \in 1..(i + 1)
        BY <1>4, <1>6, <3>1
      <4>2. /\ i + 1 < Len(v.req) /\ Tells(v, {"route", "wait"})
            /\ \A j \in 1..(i + 1) : v.req[j][1] = "route"
        BY <1>3, <2>2, <4>1 DEF Protocol, RouteFirst
      <4>3. ASSUME NEW j \in 1..i PROVE w.req[j][1] = "route"
        <5>1. j \in 1..Len(w.req) /\ j + 1 \in 1..(i + 1)
          BY <1>4
        <5> QED BY <1>4, <4>2, <5>1
      <4>4. i < Len(w.req)
        BY <1>4, <4>2
      <4>5. Tells(w, {"route", "wait"})
        BY <1>7, <1>9, <4>1, <4>2
      <4> QED BY <4>3, <4>4, <4>5
    <3>2. ASSUME NEW i \in 1..Len(w.resp), w.resp[i].type = "route", NEW j \in 1..i
          PROVE  w.resp[j].type \in {"route", "wait"}
      <4>1. CASE i \in 1..Len(v.resp)
        <5>1. j \in 1..Len(v.resp)
          BY <1>1, <4>1
        <5> QED BY <1>3, <1>5, <2>2, <3>2, <4>1, <5>1 DEF Protocol, RouteFirst
      <4>2. CASE i = Len(v.resp) + 1
        <5>1. m.type = "route" /\ v.req[1][1] = "route"
          BY <1>5, <1>7, <3>2, <4>2
        <5>2. Tells(v, {"route", "wait"})
          BY <1>3, <1>6, <2>2, <5>1 DEF Protocol, RouteFirst
        <5>3. Tells(w, {"route", "wait"}) /\ j \in 1..Len(w.resp)
          BY <1>5, <1>9, <4>2, <5>1, <5>2
        <5> QED BY <5>3 DEF Tells
      <4> QED BY <1>8, <4>1, <4>2
    <3>3. NoneUnderway(w) \/ w.in.type \in {"none", "route", "wait"}
      BY <1>3, <1>9, <2>2 DEF Protocol, RouteFirst
    <3> QED BY <2>2, <3>1, <3>2, <3>3 DEF RouteFirst
  <2> QED BY <2>1, <2>2 DEF RouteFirst
<1>15. Routed(w)
  BY <1>3, <1>7, <1>9 DEF Protocol, Routed
<1>16. BlockAsked(w)
  <2>1. \A i \in 1..Len(w.req) : w.req[i][1] # "blocked"
    BY <1>1, <1>4, <1>6 DEF Protocol, BlockAsked
  <2>2. w.pc # "blocked"
    BY <1>3 DEF Protocol, BlockAsked
  <2> QED BY <2>1, <2>2 DEF BlockAsked
<1> QED BY <1>10, <1>11, <1>12, <1>13, <1>14, <1>15, <1>16 DEF Protocol

\* So does the sweep, with the reroutes it sends.
LEMMA SweptProtocol ==
  ASSUME NEW v \in Views, NEW w \in Views, Protocol(v), Sweepable(v), Swept(v, w)
  PROVE  Protocol(w) /\ Sweepable(w)
<1>1. v.resp \in Seq(Message) /\ Len(v.resp) \in Nat /\ v.req \in Seq(Request)
  BY DEF Views
<1>2. PICK m \in Message : w.resp = Append(v.resp, m) /\ m.type = "reroute"
  BY DEF Swept
<1>3. w.pc = v.pc /\ w.in = v.in /\ w.req = v.req /\ HasRoute(w.st)
  BY DEF Swept, SameLoop, Anew
<1>4. /\ Len(w.resp) = Len(v.resp) + 1 /\ w.resp[Len(v.resp) + 1] = m
      /\ \A i \in 1..Len(v.resp) : w.resp[i] = v.resp[i]
  BY <1>1, <1>2, QueueGrows
<1>5. \A i \in 1..Len(w.resp) : i \in 1..Len(v.resp) \/ i = Len(v.resp) + 1
  BY <1>1, <1>4
<1>6. /\ Unasked(w) <=> Unasked(v)
      /\ OnlyRoutes(w) <=> OnlyRoutes(v)
      /\ Untold(w) <=> Untold(v)
      /\ NoneUnderway(w) <=> NoneUnderway(v)
      /\ Tells(v, {"route", "wait", "reroute"}) => Tells(w, {"route", "wait", "reroute"})
  BY <1>2, <1>3, <1>4, <1>5 DEF NoneUnderway, Unasked, Untold, OnlyRoutes, Tells
<1>7. \A i \in 1..Len(w.resp) : w.resp[i].type = "route" =>
        /\ i \in 1..Len(v.resp) /\ v.resp[i].type = "route"
        /\ i = 1 /\ v.pc \in {"routeAsked", "segmentAsked"} /\ v.in = NoMessage /\ Unasked(v)
  BY <1>2, <1>4, <1>5 DEF Sweepable
<1>8. Sweepable(w)
  BY <1>3, <1>6, <1>7 DEF Sweepable
<1>9. RouteAwaited(w)
  BY <1>3, <1>6 DEF Protocol, RouteAwaited
<1>10. AskedLast(w)
  BY <1>3 DEF Protocol, AskedLast
<1>11. ToldLast(w)
  <2> SUFFICES ASSUME w.pc \in Early, NEW i \in 1..Len(w.resp), w.resp[i].type = "route"
               PROVE  /\ OnlyRoutes(w) /\ w.pc = "routeAsked" /\ w.in = NoMessage
                      /\ w.req = <<>> /\ i = 1
                      /\ \A j \in i..Len(w.resp) : w.resp[j].type \in {"route", "wait", "reroute"}
                      /\ \A k \in 2..Len(w.resp) : w.resp[k].type # "route"
    BY DEF ToldLast
  <2>1. /\ i \in 1..Len(v.resp) /\ v.resp[i].type = "route" /\ i = 1
        /\ v.pc = "routeAsked" /\ v.in = NoMessage /\ Unasked(v)
    BY <1>3, <1>7 DEF Early
  <2>2. /\ OnlyRoutes(v)
        /\ \A j \in i..Len(v.resp) : v.resp[j].type \in {"route", "wait", "reroute"}
    BY <1>3, <2>1 DEF Protocol, ToldLast
  <2>3. w.req = <<>>
    <3>1. ASSUME v.req # <<>> PROVE FALSE
      <4>1. 1 \in 1..Len(v.req)
        BY <1>1, <3>1
      <4> QED BY <2>1, <2>2, <4>1 DEF OnlyRoutes, Unasked
    <3> QED BY <1>3, <3>1
  <2>4. ASSUME NEW j \in i..Len(w.resp) PROVE w.resp[j].type \in {"route", "wait", "reroute"}
    <3>1. j \in 1..Len(w.resp) /\ (j \in i..Len(v.resp) \/ j = Len(v.resp) + 1)
      BY <1>1, <1>4, <2>1
    <3> QED BY <1>2, <1>4, <2>1, <2>2, <3>1
  <2>5. \A k \in 2..Len(w.resp) : k \in 1..Len(w.resp) /\ k # 1
    BY <1>4
  <2> QED BY <1>3, <1>6, <1>7, <2>1, <2>2, <2>3, <2>4, <2>5
<1>12. TakenLast(w)
  <2> SUFFICES ASSUME v.pc = "routeAsked", v.in.type = "route"
               PROVE  /\ OnlyRoutes(w) /\ Tells(w, {"route", "wait", "reroute"})
                      /\ NoneUnderway(w)
    BY <1>3 DEF TakenLast
  <2>1. v.in # NoMessage
    BY DEF NoMessage
  <2>2. Unasked(v) /\ Untold(v)
    BY <2>1 DEF Sweepable, Untold
  <2> QED BY <1>6, <2>2 DEF Protocol, TakenLast, NoneUnderway
<1>13. RouteFirst(w)
  <2>1. w.pc \in {"segment", "segmentAsked"} => Unasked(v)
    BY <1>3 DEF Sweepable, Early
  <2>2. w.pc = "segment" => Untold(v)
    BY <1>3 DEF Sweepable, Untold
  <2>3. CASE w.pc = "segment"
    BY <1>6, <2>1, <2>2, <2>3 DEF RouteFirst, NoneUnderway
  <2>4. CASE w.pc = "segmentAsked"
    <3>1. Unasked(w)
      BY <1>6, <2>1, <2>4
    <3>2. ASSUME NEW i \in 1..Len(w.resp), w.resp[i].type = "route", NEW j \in 1..i
          PROVE  w.resp[j].type \in {"route", "wait"}
      <4>1. i = 1 /\ j = 1
        BY <1>7, <3>2
      <4> QED BY <3>2, <4>1
    <3>3. NoneUnderway(w) \/ w.in.type \in {"none", "route", "wait"}
      BY <1>3, <1>6, <2>4 DEF Protocol, RouteFirst
    <3> QED BY <2>4, <3>1, <3>2, <3>3 DEF RouteFirst, Unasked
  <2> QED BY <2>3, <2>4 DEF RouteFirst
<1>14. Routed(w)
  BY <1>3 DEF Routed
<1>15. BlockAsked(w)
  BY <1>2, <1>3, <1>4, <1>5, <1>6 DEF Protocol, BlockAsked
<1> QED BY <1>8, <1>9, <1>10, <1>11, <1>12, <1>13, <1>14, <1>15 DEF Protocol

\* Nor do the robots change that they can be swept.
LEMMA QuietSweepable ==
  ASSUME NEW x \in Robot, NEW v \in Views, NEW w \in Views, Protocol(v), Sweepable(v),
         Quiet(x, v, w)
  PROVE  Sweepable(w)
<1>1. v.req \in Seq(Request) /\ v.resp \in Seq(Message) /\ Len(v.req) \in Nat /\ Len(v.resp) \in Nat
  BY DEF Views
<1>2. NoMessage.type = "none"
  BY DEF NoMessage
<1>3. \A i \in 1..Len(v.resp) : ~SettledView(v)
  BY DEF SettledView
<1>4. CASE Thinks(x, v, w)
  <2>1. w.req = v.req /\ w.resp = v.resp /\ w.in = v.in
    BY <1>4 DEF Thinks, SameMail
  <2>2. Unasked(w) <=> Unasked(v)
    BY <2>1 DEF Unasked
  <2>3. SettledView(v) => Unasked(v)
    BY DEF SettledView, Unasked
  <2>4. ASSUME NEW i \in 1..Len(v.resp), v.resp[i].type = "route" PROVE FALSE
    <3>1. v.pc \in {"routeAsked", "segmentAsked"} /\ v.in = NoMessage /\ ~SettledView(v)
      BY <1>3, <2>4 DEF Sweepable
    <3> QED BY <1>2, <1>4, <3>1 DEF Thinks, Unrouted
  <2>5. ASSUME w.pc \notin Early \/ (w.pc = "routeAsked" /\ w.in.type = "route")
        PROVE  Unasked(v)
    <3>1. \/ v.pc \notin Early \/ SettledView(v)
          \/ v.pc = "routeAsked" /\ v.in.type = "route"
      BY <1>4, <2>5 DEF Thinks, Unrouted, Goes, Early
    <3> QED BY <2>3, <3>1 DEF Sweepable
  <2> QED BY <2>1, <2>2, <2>4, <2>5 DEF Sweepable
<1>5. CASE Requests(v, w)
  <2>1. PICK q \in Request :
          /\ w.req = Append(v.req, q)
          /\ \/ v.pc = "route" /\ q[1] = "route" /\ w.pc = "routeAsked"
             \/ v.pc = "segment" /\ q[1] = "segment" /\ w.pc = "segmentAsked"
             \/ v.pc = "blocked" /\ q[1] = "blocked" /\ w.pc = "blockedAsked"
    BY <1>5 DEF Requests, Goes
  <2>2. w.resp = v.resp /\ w.in.type = "none"
    BY <1>5 DEF Requests, NoMessage
  <2>3. /\ Len(w.req) = Len(v.req) + 1 /\ w.req[Len(v.req) + 1] = q
        /\ \A i \in 1..Len(v.req) : w.req[i] = v.req[i]
    BY <1>1, <2>1, QueueGrows
  <2>4. \A i \in 1..Len(w.req) : i \in 1..Len(v.req) \/ i = Len(v.req) + 1
    BY <1>1, <2>3
  <2>5. \A i \in 1..Len(v.resp) : v.resp[i].type # "route"
    BY <2>1 DEF Sweepable
  <2>6. w.pc \notin Early => Unasked(w)
    <3> SUFFICES ASSUME w.pc \notin Early PROVE Unasked(w)
      OBVIOUS
    <3>1. v.pc \notin Early /\ q[1] # "route"
      BY <2>1 DEF Early
    <3>2. Unasked(v)
      BY <3>1 DEF Sweepable
    <3> QED BY <2>3, <2>4, <3>1, <3>2 DEF Unasked
  <2> QED BY <2>2, <2>5, <2>6 DEF Sweepable
<1>6. CASE Rolls(v, w)
  <2>1. w.req = v.req /\ w.resp = v.resp /\ w.in = v.in /\ w.pc = v.pc
    BY <1>6 DEF Rolls, SameLoop, SameMail
  <2> QED BY <2>1 DEF Sweepable, Unasked
<1>7. CASE v.resp # <<>> /\ w.resp = Tail(v.resp) /\ w.req = v.req /\ w.pc = v.pc
           /\ (w.in = Head(v.resp) \/ w.in = v.in)
  <2>1. /\ Len(w.resp) \in Nat /\ Len(v.resp) = Len(w.resp) + 1 /\ Head(v.resp) = v.resp[1]
        /\ \A i \in 1..Len(w.resp) : w.resp[i] = v.resp[i + 1]
    BY <1>1, <1>7, QueueShrinks
  <2>2. 1 \in 1..Len(v.resp) /\ \A i \in 1..Len(w.resp) : i + 1 \in 1..Len(v.resp) /\ i + 1 # 1
    BY <2>1
  <2>3. Untold(w)
    BY <2>1, <2>2 DEF Sweepable, Untold
  <2>4. Unasked(w) <=> Unasked(v)
    BY <1>7 DEF Unasked
  <2>5. w.in.type = "route" => Unasked(v) \/ v.in.type = "route"
    BY <1>7, <2>1, <2>2 DEF Sweepable
  <2> QED BY <1>7, <2>3, <2>4, <2>5 DEF Sweepable, Untold
<1>8. CASE v.req # <<>> /\ w.req = Tail(v.req) /\ w.resp = v.resp /\ w.in = v.in /\ w.pc = v.pc
  <2>1. /\ Len(w.req) \in Nat /\ Len(v.req) = Len(w.req) + 1
        /\ \A i \in 1..Len(w.req) : w.req[i] = v.req[i + 1]
    BY <1>1, <1>8, QueueShrinks
  <2>2. \A i \in 1..Len(w.req) : i + 1 \in 1..Len(v.req)
    BY <2>1
  <2>3. Unasked(v) => Unasked(w)
    BY <2>1, <2>2 DEF Unasked
  <2> QED BY <1>8, <2>3 DEF Sweepable
<1>9. CASE Receives(v, w)
  BY <1>7, <1>9 DEF Receives, SameLoop
<1>10. CASE Misses(x, v, w)
  BY <1>7, <1>8, <1>10 DEF Misses, SameLoop
<1> QED BY <1>4, <1>5, <1>6, <1>9, <1>10 DEF Quiet

\* Nothing is on its way but one message that the robot waits for.
CalmView(v) ==
  \/ SettledView(v)
  \/ /\ v.pc \in {"routeAsked", "segmentAsked", "blockedAsked"} /\ v.in = NoMessage
     /\ Len(v.req) + Len(v.resp) = 1

LEMMA OneOfTwo ==
  ASSUME NEW a \in Nat, NEW b \in Nat, a + b = 1 \/ b + a = 1, NEW i \in 1..a
  PROVE  i = 1 /\ a = 1 /\ b = 0
  OBVIOUS

\* Then a sweep may begin.
LEMMA CalmSweepable ==
  ASSUME NEW v \in Views, Protocol(v), CalmView(v)
  PROVE  Sweepable(v)
<1>1. Len(v.req) \in Nat /\ Len(v.resp) \in Nat
  BY DEF Views
<1>2. CASE SettledView(v)
  <2>1. Len(v.req) = 0 /\ Len(v.resp) = 0
    BY <1>2 DEF SettledView
  <2> QED BY <2>1 DEF Sweepable, Unasked
<1>3. CASE /\ v.pc \in {"routeAsked", "segmentAsked", "blockedAsked"} /\ v.in = NoMessage
           /\ Len(v.req) + Len(v.resp) = 1
  <2>1. v.in.type # "route"
    BY <1>3 DEF NoMessage
  <2>2. ASSUME v.pc \notin Early PROVE Unasked(v)
    <3> SUFFICES ASSUME NEW i \in 1..Len(v.req), v.req[i][1] = "route" PROVE FALSE
      BY DEF Unasked
    <3>1. ~NoneUnderway(v) /\ i = 1 /\ Len(v.req) = 1
      <4>1. ~Unasked(v)
        BY <2>2 DEF Unasked
      <4>2. i = 1 /\ Len(v.req) = 1
        BY <1>1, <1>3, OneOfTwo
      <4> QED BY <4>1, <4>2 DEF NoneUnderway
    <3>2. v.pc = "segmentAsked"
      BY <1>3, <2>2, <3>1 DEF Protocol, RouteAwaited, Stopped, Early
    <3> QED BY <3>1, <3>2 DEF Protocol, RouteFirst
  <2>3. ASSUME NEW i \in 1..Len(v.resp), v.resp[i].type = "route"
        PROVE  i = 1 /\ v.pc \in {"routeAsked", "segmentAsked"} /\ Unasked(v)
    <3>1. ~NoneUnderway(v) /\ i = 1 /\ Len(v.req) = 0
      <4>1. ~Untold(v)
        BY <2>3 DEF Untold
      <4>2. i = 1 /\ Len(v.req) = 0
        BY <1>1, <1>3, OneOfTwo
      <4> QED BY <4>1, <4>2 DEF NoneUnderway
    <3>2. v.pc # "blockedAsked"
      BY <3>1 DEF Protocol, RouteAwaited, Stopped, Early
    <3> QED BY <1>3, <3>1, <3>2 DEF Unasked
  <2> QED BY <1>3, <2>1, <2>2, <2>3 DEF Sweepable
<1> QED BY <1>2, <1>3 DEF CalmView

\* Every step but the sweep's keeps the protocol.
LEMMA OthersProtocol ==
  ASSUME NEW x \in Robot, NEW v \in Views, NEW w \in Views, Protocol(v),
         Quiet(x, v, w) \/ Served(v, w) \/ Located(v, w)
  PROVE  Protocol(w)
<1>1. CASE Rolls(v, w)
  <2>1. /\ w.st = v.st /\ w.req = v.req /\ w.resp = v.resp /\ w.in = v.in /\ w.pc = v.pc
    BY <1>1 DEF Rolls, SameLoop, SameMail
  <2> QED BY <2>1 DEF Protocol, RouteAwaited, AskedLast, ToldLast, TakenLast, RouteFirst, Routed,
                      BlockAsked, NoneUnderway, Unasked, Untold, OnlyRoutes, Tells
<1>2. CASE Located(v, w)
  <2>1. /\ w.req = v.req /\ w.resp = v.resp /\ w.in = v.in /\ w.pc = v.pc
        /\ HasRoute(v.st) => HasRoute(w.st)
    BY <1>2 DEF Located, SameLoop, SameMail, HasRoute
  <2> QED BY <2>1 DEF Protocol, RouteAwaited, AskedLast, ToldLast, TakenLast, RouteFirst, Routed,
                      BlockAsked, NoneUnderway, Unasked, Untold, OnlyRoutes, Tells
<1> QED BY <1>1, <1>2, ThinksProtocol, RequestsProtocol, MessagesProtocol, ServedProtocol
        DEF Quiet

-----------------------------------------------------------------------------
(* Driving.  On a straight run the next node of the route is the only one  *)
(* that is nearer to the end of the segment.                               *)

\* A distance is a number, and a node is at none from itself.
LEMMA DistanceIsNat ==
  ASSUME NEW a \in Node, NEW b \in Node
  PROVE  Distance(a, b) \in Nat /\ Distance(b, b) = 0
<1>1. Cell[a][1] \in Int /\ Cell[a][2] \in Int /\ Cell[b][1] \in Int /\ Cell[b][2] \in Int
  BY GraphAssumption
<1>2. Dx(a, b) \in Int /\ Dy(a, b) \in Int /\ Dx(b, b) = 0 /\ Dy(b, b) = 0
  BY <1>1 DEF Dx, Dy
<1>3. Abs(0) = 0 /\ \A i \in Int : Abs(i) \in Nat
  BY DEF Abs
<1>4. Abs(Dx(a, b)) \in Nat /\ Abs(Dy(a, b)) \in Nat
  BY <1>2, <1>3
<1> QED BY <1>2, <1>3, <1>4 DEF Distance

\* How far a node is to the side of a direction.
Across(dir, n) == IF dir \in {"E", "W"} THEN Cell[n][2] ELSE Cell[n][1]

Directions == {"E", "W", "N", "S"}

\* An edge does not lead to the side of its own direction.
LEMMA EdgeKeepsOn ==
  ASSUME NEW a \in Node, NEW b \in Node, Adjacent(a, b)
  PROVE  Across(Dir(a, b), b) = Across(Dir(a, b), a) /\ Dir(a, b) \in Directions
<1>1. Cell[a][1] \in Int /\ Cell[a][2] \in Int /\ Cell[b][1] \in Int /\ Cell[b][2] \in Int
  BY GraphAssumption
<1>2. CASE Dx(a, b) = 1 /\ Dy(a, b) = 0
  BY <1>1, <1>2 DEF Dir, Abs, Across, Dx, Dy, Directions
<1>3. CASE Dx(a, b) = -1 /\ Dy(a, b) = 0
  BY <1>1, <1>3 DEF Dir, Abs, Across, Dx, Dy, Directions
<1>4. CASE Dx(a, b) = 0 /\ Dy(a, b) = 1
  BY <1>1, <1>4 DEF Dir, Abs, Across, Dx, Dy, Directions
<1>5. CASE Dx(a, b) = 0 /\ Dy(a, b) = -1
  BY <1>1, <1>5 DEF Dir, Abs, Across, Dx, Dy, Directions
<1> QED BY <1>1, <1>2, <1>3, <1>4, <1>5 DEF Adjacent, Abs, Dx, Dy

\* So all nodes of a straight run lie on a line.
LEMMA StraightKeepsOn ==
  ASSUME NEW p \in Seq(Node), FollowsEdges(p), NEW i \in 1..Len(p), NEW j \in 1..Len(p),
         IsStraight(p, i, j), NEW dir, dir = Dir(p[i], p[i + 1])
  PROVE  \A k \in i..j : Across(dir, p[k]) = Across(dir, p[i])
<1>1. i \in Nat /\ j \in Nat /\ i >= 1 /\ j <= Len(p) /\ Len(p) \in Nat
  OBVIOUS
<1>2. \A k \in i..(j - 1) : Dir(p[k], p[k + 1]) = dir
  BY StraightLeadsOn
<1> DEFINE S == {m \in i..j : Across(dir, p[m]) = Across(dir, p[i])}
<1>3. CASE i <= j
  <2>1. i \in S
    BY <1>1, <1>3
  <2>2. ASSUME NEW k \in i..(j - 1), k \in S PROVE k + 1 \in S
    <3>1. /\ p[k] \in Node /\ p[k + 1] \in Node /\ Adjacent(p[k], p[k + 1])
          /\ Dir(p[k], p[k + 1]) = dir /\ k + 1 \in i..j
      BY <1>1, <1>2 DEF FollowsEdges
    <3>2. Across(dir, p[k + 1]) = Across(dir, p[k])
      BY <3>1, EdgeKeepsOn
    <3> QED BY <2>2, <3>1, <3>2
  <2>3. i \in Int /\ j \in Int
    BY <1>1
  <2> HIDE DEF S
  <2>4. \A k \in i..j : k \in S
    BY <2>1, <2>2, <2>3, Upwards
  <2> QED BY <2>4 DEF S
<1>4. CASE ~ (i <= j)
  BY <1>1, <1>4
<1> QED BY <1>3, <1>4

\* The coordinates of a node, whatever the direction.
LEMMA Coordinates ==
  ASSUME NEW dir \in Directions
  PROVE  /\ \A n \in Node : Along(dir, n) \in Int /\ Across(dir, n) \in Int
         /\ \A a, b \in Node :
              /\ Distance(a, b)
                   = Abs(Along(dir, b) - Along(dir, a)) + Abs(Across(dir, b) - Across(dir, a))
              /\ Along(dir, a) = Along(dir, b) /\ Across(dir, a) = Across(dir, b) => a = b
<1>1. \A n \in Node : Cell[n] \in Int \X Int /\ Cell[n][1] \in Int /\ Cell[n][2] \in Int
                      /\ Cell[n] = <<Cell[n][1], Cell[n][2]>>
  BY GraphAssumption
<1>2. \A n \in Node : Along(dir, n) \in Int /\ Across(dir, n) \in Int
  BY <1>1 DEF Directions, Along, Across
<1>3. ASSUME NEW a \in Node, NEW b \in Node
      PROVE  Distance(a, b)
               = Abs(Along(dir, b) - Along(dir, a)) + Abs(Across(dir, b) - Across(dir, a))
  <2>1. CASE dir = "E"
    BY <1>1, <2>1 DEF Along, Across, Distance, Dx, Dy, Abs
  <2>2. CASE dir = "W"
    BY <1>1, <2>2 DEF Along, Across, Distance, Dx, Dy, Abs
  <2>3. CASE dir = "N"
    BY <1>1, <2>3 DEF Along, Across, Distance, Dx, Dy, Abs
  <2>4. CASE dir = "S"
    BY <1>1, <2>4 DEF Along, Across, Distance, Dx, Dy, Abs
  <2> QED BY <2>1, <2>2, <2>3, <2>4 DEF Directions
<1>4. ASSUME NEW a \in Node, NEW b \in Node,
             Along(dir, a) = Along(dir, b), Across(dir, a) = Across(dir, b)
      PROVE  a = b
  <2>1. Cell[a][1] = Cell[b][1] /\ Cell[a][2] = Cell[b][2]
    BY <1>1, <1>4 DEF Along, Across, Directions
  <2> QED BY <1>1, <2>1, GraphAssumption
<1> QED BY <1>2, <1>3, <1>4

\* A neighbour that is nearer to a node straight ahead is the next one straight
\* ahead.
LEMMA NearerIsAhead ==
  ASSUME NEW dir \in Directions, NEW a \in Node, NEW b \in Node, NEW d \in Nat,
         Along(dir, b) = Along(dir, a) + d, Across(dir, b) = Across(dir, a)
  PROVE  /\ \A m \in Node : Adjacent(a, m) /\ Nearer(m, a, b) =>
              1 <= d /\ Along(dir, m) = Along(dir, a) + 1 /\ Across(dir, m) = Across(dir, a)
         /\ \A m \in Node : 1 <= d /\ Along(dir, m) = Along(dir, a) + 1
                            /\ Across(dir, m) = Across(dir, a) => Nearer(m, a, b)
         /\ \A m, n \in Node : Nearer(m, n, b) => ~Nearer(n, m, b) /\ m # n
<1>1. /\ \A n \in Node : Along(dir, n) \in Int /\ Across(dir, n) \in Int
      /\ \A m, n \in Node : Distance(m, n)
           = Abs(Along(dir, n) - Along(dir, m)) + Abs(Across(dir, n) - Across(dir, m))
  BY Coordinates
<1>2. \A m \in Node : Adjacent(a, m) => Distance(a, m) = 1
  BY DEF Adjacent, Distance
<1>3. ASSUME NEW m \in Node, Adjacent(a, m), Nearer(m, a, b)
      PROVE  1 <= d /\ Along(dir, m) = Along(dir, a) + 1 /\ Across(dir, m) = Across(dir, a)
  <2>1. /\ Distance(a, m) = Abs(Along(dir, m) - Along(dir, a)) + Abs(Across(dir, m) - Across(dir, a))
        /\ Distance(m, b) = Abs(Along(dir, b) - Along(dir, m)) + Abs(Across(dir, b) - Across(dir, m))
        /\ Distance(a, b) = Abs(Along(dir, b) - Along(dir, a)) + Abs(Across(dir, b) - Across(dir, a))
        /\ Along(dir, a) \in Int /\ Along(dir, b) \in Int /\ Along(dir, m) \in Int
        /\ Across(dir, a) \in Int /\ Across(dir, b) \in Int /\ Across(dir, m) \in Int
    BY <1>1
  <2>2. Distance(a, m) = 1 /\ Distance(m, b) < Distance(a, b)
    BY <1>2, <1>3 DEF Nearer
  <2> QED BY <2>1, <2>2 DEF Abs
<1>4. ASSUME NEW m \in Node, 1 <= d, Along(dir, m) = Along(dir, a) + 1,
             Across(dir, m) = Across(dir, a)
      PROVE  Nearer(m, a, b)
  <2>1. /\ Distance(m, b) = Abs(Along(dir, b) - Along(dir, m)) + Abs(Across(dir, b) - Across(dir, m))
        /\ Distance(a, b) = Abs(Along(dir, b) - Along(dir, a)) + Abs(Across(dir, b) - Across(dir, a))
        /\ Along(dir, a) \in Int /\ Along(dir, b) \in Int /\ Along(dir, m) \in Int
        /\ Across(dir, a) \in Int /\ Across(dir, b) \in Int /\ Across(dir, m) \in Int
    BY <1>1
  <2> QED BY <1>4, <2>1 DEF Abs, Nearer
<1>5. ASSUME NEW m \in Node, NEW n \in Node, Nearer(m, n, b)
      PROVE  ~Nearer(n, m, b) /\ m # n
  <2>1. Distance(m, b) \in Nat /\ Distance(n, b) \in Nat
    BY DistanceIsNat
  <2> QED BY <1>5, <2>1 DEF Nearer
<1> QED BY <1>3, <1>4, <1>5

\* So on a straight run nav2 can only go on along the route.
LEMMA DrivesAlongRoute ==
  ASSUME NEW p \in Seq(Node), FollowsEdges(p), NEW i \in 1..Len(p), NEW t \in 1..Len(p),
         IsStraight(p, i, t), NEW k \in i..t
  PROVE  /\ \A m \in Node : Adjacent(p[k], m) /\ Nearer(m, p[k], p[t]) => k < t /\ m = p[k + 1]
         /\ k < t => \A m \in {p[k], p[k + 1]} :
              Nearer(m, p[k], p[t]) \/ Nearer(m, p[k + 1], p[t]) => m = p[k + 1]
<1> DEFINE dir == Dir(p[i], p[i + 1])
<1>1. /\ i \in Nat /\ t \in Nat /\ k \in Nat /\ i >= 1 /\ t <= Len(p) /\ i <= k /\ k <= t
      /\ Len(p) \in Nat
  OBVIOUS
<1>2. p[k] \in Node /\ p[t] \in Node /\ p[i] \in Node /\ t - k \in Nat
      /\ k \in i..t /\ t \in i..t
  BY <1>1
<1>3. CASE i = t
  <2>1. k = t
    BY <1>1, <1>3
  <2> HIDE DEF dir
  <2>2. ~ (k < t)
    BY <1>1, <2>1
  <2>3. ASSUME NEW m \in Node, Nearer(m, p[k], p[t]) PROVE FALSE
    <3> DEFINE b == p[t]
    <3>1. b \in Node
      BY <1>2
    <3> HIDE DEF b
    <3>3. Distance(b, b) = 0 /\ Distance(m, b) \in Nat
      BY <3>1, DistanceIsNat
    <3>4. Distance(m, b) < Distance(b, b)
      BY <2>1, <2>3 DEF Nearer, b
    <3> QED BY <3>3, <3>4
  <2> QED BY <2>2, <2>3
<1>4. CASE i < t
  <2>1. Adjacent(p[i], p[i + 1]) /\ p[i + 1] \in Node
    BY <1>1, <1>4 DEF FollowsEdges
  <2>2. dir \in Directions
    BY <1>2, <2>1, EdgeKeepsOn
  <2>3. \A l \in i..t : Along(dir, p[l]) = Along(dir, p[i]) + (l - i)
    BY StraightLeadsOn
  <2>4. \A l \in i..t : Across(dir, p[l]) = Across(dir, p[i])
    BY StraightKeepsOn
  <2> HIDE DEF dir
  <2>5. /\ \A n \in Node : Along(dir, n) \in Int
        /\ \A a, b \in Node :
             Along(dir, a) = Along(dir, b) /\ Across(dir, a) = Across(dir, b) => a = b
    BY <2>2, Coordinates
  <2>6. Along(dir, p[t]) = Along(dir, p[k]) + (t - k) /\ Across(dir, p[t]) = Across(dir, p[k])
    <3>1. Along(dir, p[i]) \in Int
      BY <1>2, <2>5
    <3> QED BY <1>1, <1>2, <2>3, <2>4, <3>1
  <2>7. k < t => /\ p[k + 1] \in Node /\ Along(dir, p[k + 1]) = Along(dir, p[k]) + 1
                 /\ Across(dir, p[k + 1]) = Across(dir, p[k])
    <3> SUFFICES ASSUME k < t
                 PROVE  /\ p[k + 1] \in Node /\ Along(dir, p[k + 1]) = Along(dir, p[k]) + 1
                        /\ Across(dir, p[k + 1]) = Across(dir, p[k])
      OBVIOUS
    <3>1. k + 1 \in i..t /\ p[k + 1] \in Node /\ Along(dir, p[i]) \in Int
      BY <1>1, <1>2, <2>5
    <3> QED BY <1>1, <1>2, <2>3, <2>4, <3>1
  <2>8. /\ \A m \in Node : Adjacent(p[k], m) /\ Nearer(m, p[k], p[t]) =>
             1 <= t - k /\ Along(dir, m) = Along(dir, p[k]) + 1 /\ Across(dir, m) = Across(dir, p[k])
        /\ \A m \in Node : 1 <= t - k /\ Along(dir, m) = Along(dir, p[k]) + 1
                           /\ Across(dir, m) = Across(dir, p[k]) => Nearer(m, p[k], p[t])
        /\ \A m, n \in Node : Nearer(m, n, p[t]) => ~Nearer(n, m, p[t]) /\ m # n
    BY <1>2, <2>2, <2>6, NearerIsAhead
  <2>9. ASSUME NEW m \in Node, Adjacent(p[k], m), Nearer(m, p[k], p[t])
        PROVE  k < t /\ m = p[k + 1]
    <3>1. /\ 1 <= t - k /\ Along(dir, m) = Along(dir, p[k]) + 1
          /\ Across(dir, m) = Across(dir, p[k])
      BY <2>8, <2>9
    <3>2. k < t
      BY <1>1, <3>1
    <3> QED BY <2>5, <2>7, <3>1, <3>2
  <2>10. ASSUME k < t, NEW m \in {p[k], p[k + 1]},
                Nearer(m, p[k], p[t]) \/ Nearer(m, p[k + 1], p[t])
         PROVE  m = p[k + 1]
    <3>1. 1 <= t - k
      BY <1>1, <2>10
    <3>2. Nearer(p[k + 1], p[k], p[t]) /\ p[k + 1] \in Node
      BY <2>7, <2>8, <2>10, <3>1
    <3> QED BY <1>2, <2>8, <2>10, <3>2
  <2> QED BY <2>9, <2>10
<1> QED BY <1>1, <1>3, <1>4

-----------------------------------------------------------------------------
(* The floor.  A robot with a route is in its window, on the straight run  *)
(* ahead of the manager's index, and so is every segment it may be given.  *)

\* The robot is at the k-th node of its route or on the edge after it, and the
\* reserved straight run reaches to t.
OnRoute(v, k, t) ==
  /\ v.st.index <= k /\ k <= t /\ t <= v.st.reserved_end
  /\ IsStraight(v.st.route, v.st.index, t)
  /\ v.near = v.st.route[k]
  /\ v.ahead = v.near \/ (k < t /\ v.ahead = v.st.route[k + 1])

\* A segment may be driven from where the robot is.
Holds(v, m) ==
  m.type = "segment" =>
    \E k, t \in Nat : OnRoute(v, k, t) /\ Last(m.nodes) = v.st.route[t]

StandsStill(v) == v.pc \notin Rolling => v.near = v.ahead

InWindow(v) ==
  HasRoute(v.st) =>
    \E k, t \in Nat : OnRoute(v, k, t) /\ (v.pc = "drive" => v.target = v.st.route[t])

ReportsObstacle(v) ==
  v.pc = "blocked" \/ \E i \in 1..Len(v.req) : v.req[i][1] = "blocked"

\* The manager's index is where the last pose says, if there is none to come.
Localised(v) ==
  /\ v.pose # NoNode => v.pose = v.near
  /\ HasRoute(v.st) /\ v.pose = NoNode => v.near = CurrentNode(v.st)
  /\ ReportsObstacle(v) => v.pose = NoNode

AskedFromHere(v) ==
  \A i \in 1..Len(v.req) : v.req[i][1] = "route" => v.req[i][2] = v.near /\ v.ahead = v.near

SegmentsHold(v) ==
  /\ v.pc \in {"segment", "segmentAsked", "blocked", "blockedAsked"} =>
       \A i \in 1..Len(v.resp) : Holds(v, v.resp[i])
  /\ v.pc = "segmentAsked" => Holds(v, v.in)

Floor(v) ==
  StandsStill(v) /\ InWindow(v) /\ Localised(v) /\ AskedFromHere(v) /\ SegmentsHold(v)

\* What the soundness of the manager's state says of a robot with a route.
LEMMA SoundRoute ==
  ASSUME NEW st, Sound(st), HasRoute(st)
  PROVE  /\ st.route \in Seq(Node) /\ Len(st.route) \in Nat
         /\ st.index \in Nat /\ st.reserved_end \in Nat
         /\ 1 <= st.index /\ st.index <= st.reserved_end /\ st.reserved_end <= Len(st.route)
         /\ FollowsEdges(st.route) /\ NoneTwice(st.route, st.index, st.reserved_end)
  BY DEF Sound, HasRoute, NoState, RobotState, RouteOK

\* Where a robot is and what it may drive depend on its window and its place.
LEMMA HoldsOn ==
  ASSUME NEW v \in Views, NEW w \in Views, Sound(v.st), HasRoute(v.st),
         Grows(v.st, w.st), w.near = v.near, w.ahead = v.ahead
  PROVE  /\ \A k, t \in Nat : OnRoute(v, k, t) => OnRoute(w, k, t)
         /\ \A m \in Message \cup {NoMessage} : Holds(v, m) => Holds(w, m)
<1>1. /\ v.st.reserved_end \in Nat /\ w.st.reserved_end \in Nat
      /\ v.st.reserved_end <= w.st.reserved_end
      /\ w.st.index = v.st.index /\ w.st.route = v.st.route
  BY DEF Views, RobotState, Grows
<1>2. \A k, t \in Nat : OnRoute(v, k, t) => OnRoute(w, k, t)
  BY <1>1 DEF OnRoute
<1> QED BY <1>1, <1>2 DEF Holds

LEMMA HoldsStill ==
  ASSUME NEW v \in Views, NEW w \in Views, w.st = v.st, w.near = v.near, w.ahead = v.ahead
  PROVE  /\ \A k, t \in Nat : OnRoute(v, k, t) <=> OnRoute(w, k, t)
         /\ \A m \in Message \cup {NoMessage} : Holds(v, m) <=> Holds(w, m)
<1>1. \A k, t \in Nat : OnRoute(v, k, t) <=> OnRoute(w, k, t)
  BY DEF OnRoute
<1> QED BY <1>1 DEF Holds

\* The robot's own steps keep the floor.
LEMMA ThinksFloor ==
  ASSUME NEW x \in Robot, NEW v \in Views, NEW w \in Views, Protocol(v), Floor(v),
         Thinks(x, v, w)
  PROVE  Floor(w)
<1>1. /\ w.st = v.st /\ w.req = v.req /\ w.resp = v.resp /\ w.in = v.in
      /\ w.near = v.near /\ w.ahead = v.ahead /\ w.pose = v.pose
  BY DEF Thinks, SameMail, SameFloor
<1>2. SettledView(v) => Len(v.req) = 0 /\ Len(v.resp) = 0
  BY DEF SettledView
<1>3. /\ v.resp \in Seq(Message) /\ Len(v.resp) \in Nat
      /\ \A i \in 1..Len(v.resp) : v.resp[i] \in Message
      /\ v.in \in Message \cup {NoMessage}
  BY DEF Views
<1>4. /\ \A k, t \in Nat : OnRoute(v, k, t) <=> OnRoute(w, k, t)
      /\ \A m \in Message \cup {NoMessage} : Holds(v, m) <=> Holds(w, m)
  BY <1>1, HoldsStill
<1>5. StandsStill(w)
  <2>1. v.pc \notin Rolling \/ v.pc = "failed" \/ v.pc = "drive"
    BY DEF Rolling
  <2>2. v.pc # "failed"
    BY DEF Thinks, Unrouted
  <2>3. v.pc = "drive" => v.near = v.ahead \/ w.pc = "failed"
    BY DEF Thinks, Goes, Unrouted
  <2> QED BY <1>1, <2>1, <2>2, <2>3 DEF Floor, StandsStill, Rolling
<1>6. InWindow(w)
  <2>1. CASE /\ v.pc = "segmentAsked" /\ v.in.type = "segment"
             /\ w.pc = "drive" /\ w.target = Last(v.in.nodes)
    <3>1. Holds(v, v.in)
      BY <2>1 DEF Floor, SegmentsHold
    <3>2. PICK k \in Nat, t \in Nat : OnRoute(v, k, t) /\ Last(v.in.nodes) = v.st.route[t]
      BY <2>1, <3>1 DEF Holds
    <3>3. OnRoute(w, k, t) /\ w.target = w.st.route[t]
      BY <1>1, <1>4, <2>1, <3>2
    <3> QED BY <3>3 DEF InWindow
  <2>2. CASE w.pc # "drive"
    BY <1>1, <1>4, <2>2 DEF Floor, InWindow
  <2> QED BY <2>1, <2>2 DEF Thinks, Goes
<1>7. Localised(w)
  <2>1. ReportsObstacle(w) => ReportsObstacle(v) \/ v.pose = NoNode
    BY <1>1 DEF ReportsObstacle, Thinks, Goes
  <2> QED BY <1>1, <2>1 DEF Floor, Localised
<1>8. AskedFromHere(w)
  BY <1>1 DEF Floor, AskedFromHere
<1>9. SegmentsHold(w)
  <2>1. ASSUME w.pc \in {"segment", "segmentAsked", "blocked", "blockedAsked"},
               NEW i \in 1..Len(w.resp)
        PROVE  Holds(w, w.resp[i])
    <3>1. \/ v.pc \in {"segment", "segmentAsked", "blocked", "blockedAsked"}
          \/ SettledView(v)
          \/ v.pc = "routeAsked" /\ v.in.type = "route"
      BY <2>1 DEF Thinks, Goes
    <3>2. CASE SettledView(v)
      BY <1>1, <1>2, <2>1, <3>2
    <3>3. CASE v.pc = "routeAsked" /\ v.in.type = "route"
      BY <1>1, <1>3, <2>1, <3>3 DEF Protocol, TakenLast, Tells, Holds
    <3>4. CASE v.pc \in {"segment", "segmentAsked", "blocked", "blockedAsked"}
      BY <1>1, <1>3, <1>4, <2>1, <3>4 DEF Floor, SegmentsHold
    <3> QED BY <3>1, <3>2, <3>3, <3>4
  <2>2. w.pc # "segmentAsked"
    BY DEF Thinks, Goes
  <2> QED BY <2>1, <2>2 DEF SegmentsHold
<1> QED BY <1>5, <1>6, <1>7, <1>8, <1>9 DEF Floor

\* So do the requests, if a route is asked for from where the robot is.
LEMMA RequestsFloor ==
  ASSUME NEW v \in Views, NEW w \in Views, Floor(v), Requests(v, w),
         v.pc = "route" => v.near = v.current
  PROVE  Floor(w)
<1>1. PICK q \in Request :
        /\ w.req = Append(v.req, q)
        /\ \/ v.pc = "route" /\ q[1] = "route" /\ q[2] = v.current /\ w.pc = "routeAsked"
           \/ v.pc = "segment" /\ q[1] = "segment" /\ w.pc = "segmentAsked"
           \/ v.pc = "blocked" /\ q[1] = "blocked" /\ w.pc = "blockedAsked"
  BY DEF Requests, Goes
<1>2. /\ w.st = v.st /\ w.resp = v.resp /\ w.in.type = "none"
      /\ w.near = v.near /\ w.ahead = v.ahead /\ w.pose = v.pose
  BY DEF Requests, NoMessage, SameFloor
<1>3. /\ v.req \in Seq(Request) /\ v.resp \in Seq(Message) /\ Len(v.req) \in Nat
      /\ Len(v.resp) \in Nat /\ \A i \in 1..Len(v.resp) : v.resp[i] \in Message
  BY DEF Views
<1>4. /\ Len(w.req) = Len(v.req) + 1 /\ w.req[Len(v.req) + 1] = q
      /\ \A i \in 1..Len(v.req) : w.req[i] = v.req[i]
  BY <1>1, <1>3, QueueGrows
<1>5. /\ \A k, t \in Nat : OnRoute(v, k, t) <=> OnRoute(w, k, t)
      /\ \A m \in Message \cup {NoMessage} : Holds(v, m) <=> Holds(w, m)
  BY <1>2, HoldsStill
<1>6. StandsStill(w)
  BY <1>1, <1>2 DEF Floor, StandsStill, Rolling
<1>7. InWindow(w)
  BY <1>1, <1>2, <1>5 DEF Floor, InWindow
<1>8. Localised(w)
  <2>1. ReportsObstacle(w) => ReportsObstacle(v)
    BY <1>1, <1>3, <1>4 DEF ReportsObstacle
  <2> QED BY <1>2, <2>1 DEF Floor, Localised
<1>9. AskedFromHere(w)
  <2>1. v.pc = "route" => v.ahead = v.near
    BY DEF Floor, StandsStill, Rolling
  <2> QED BY <1>1, <1>2, <1>3, <1>4, <2>1 DEF Floor, AskedFromHere
<1>10. SegmentsHold(w)
  BY <1>1, <1>2, <1>3, <1>5 DEF Floor, SegmentsHold, Holds
<1> QED BY <1>6, <1>7, <1>8, <1>9, <1>10 DEF Floor

\* So does the way of the messages.
LEMMA MessagesFloor ==
  ASSUME NEW x \in Robot, NEW v \in Views, NEW w \in Views, Floor(v),
         Receives(v, w) \/ Misses(x, v, w)
  PROVE  Floor(w)
<1>1. /\ w.st = v.st /\ w.pc = v.pc /\ w.target = v.target
      /\ w.near = v.near /\ w.ahead = v.ahead /\ w.pose = v.pose
  BY DEF Receives, Misses, SameLoop, SameFloor
<1>2. /\ v.req \in Seq(Request) /\ v.resp \in Seq(Message) /\ Len(v.req) \in Nat
      /\ Len(v.resp) \in Nat /\ \A i \in 1..Len(v.resp) : v.resp[i] \in Message
      /\ v.in \in Message \cup {NoMessage}
  BY DEF Views
<1>3. /\ \A k, t \in Nat : OnRoute(v, k, t) <=> OnRoute(w, k, t)
      /\ \A m \in Message \cup {NoMessage} : Holds(v, m) <=> Holds(w, m)
  BY <1>1, HoldsStill
<1>4. StandsStill(w)
  BY <1>1 DEF Floor, StandsStill
<1>5. InWindow(w)
  BY <1>1, <1>3 DEF Floor, InWindow
<1>6. \A i \in 1..Len(w.req) : \E j \in 1..Len(v.req) : w.req[i] = v.req[j]
  <2>1. CASE w.req = v.req
    BY <2>1
  <2>2. CASE v.req # <<>> /\ w.req = Tail(v.req)
    <3>1. /\ Len(w.req) \in Nat /\ Len(v.req) = Len(w.req) + 1
          /\ \A i \in 1..Len(w.req) : w.req[i] = v.req[i + 1]
      BY <1>2, <2>2, QueueShrinks
    <3>2. \A i \in 1..Len(w.req) : i + 1 \in 1..Len(v.req)
      BY <3>1
    <3> QED BY <3>1, <3>2
  <2> QED BY <2>1, <2>2 DEF Receives, Misses
<1>7. /\ \A i \in 1..Len(w.resp) : \E j \in 1..Len(v.resp) : w.resp[i] = v.resp[j]
      /\ w.in = v.in \/ \E j \in 1..Len(v.resp) : w.in = v.resp[j]
  <2>1. CASE w.resp = v.resp /\ w.in = v.in
    BY <2>1
  <2>2. CASE v.resp # <<>> /\ w.resp = Tail(v.resp) /\ (w.in = Head(v.resp) \/ w.in = v.in)
    <3>1. /\ Len(w.resp) \in Nat /\ Len(v.resp) = Len(w.resp) + 1 /\ Head(v.resp) = v.resp[1]
          /\ \A i \in 1..Len(w.resp) : w.resp[i] = v.resp[i + 1]
      BY <1>2, <2>2, QueueShrinks
    <3>2. 1 \in 1..Len(v.resp) /\ \A i \in 1..Len(w.resp) : i + 1 \in 1..Len(v.resp)
      BY <3>1
    <3> QED BY <2>2, <3>1, <3>2
  <2> QED BY <2>1, <2>2 DEF Receives, Misses
<1>8. Localised(w)
  <2>1. ReportsObstacle(w) => ReportsObstacle(v)
    BY <1>1, <1>6 DEF ReportsObstacle
  <2> QED BY <1>1, <2>1 DEF Floor, Localised
<1>9. AskedFromHere(w)
  BY <1>1, <1>6 DEF Floor, AskedFromHere
<1>10. SegmentsHold(w)
  <2>1. ASSUME w.pc \in {"segment", "segmentAsked", "blocked", "blockedAsked"},
               NEW i \in 1..Len(w.resp)
        PROVE  Holds(w, w.resp[i])
    <3>1. PICK j \in 1..Len(v.resp) : w.resp[i] = v.resp[j]
      BY <1>7
    <3>2. Holds(v, v.resp[j])
      BY <1>1, <2>1 DEF Floor, SegmentsHold
    <3> QED BY <1>2, <1>3, <3>1, <3>2
  <2>2. ASSUME w.pc = "segmentAsked" PROVE Holds(w, w.in)
    <3>1. Holds(v, v.in) /\ \A j \in 1..Len(v.resp) : Holds(v, v.resp[j])
      BY <1>1, <2>2 DEF Floor, SegmentsHold
    <3>2. Holds(v, w.in) /\ w.in \in Message \cup {NoMessage}
      BY <1>2, <1>7, <3>1
    <3> QED BY <1>3, <3>2
  <2> QED BY <2>1, <2>2 DEF SegmentsHold
<1> QED BY <1>4, <1>5, <1>8, <1>9, <1>10 DEF Floor

\* So does the drive, along the route.
LEMMA RollsFloor ==
  ASSUME NEW v \in Views, NEW w \in Views, Sound(v.st), Protocol(v), Floor(v), Rolls(v, w)
  PROVE  Floor(w)
<1>1. /\ v.pc = "drive" /\ w.pc = "drive" /\ w.st = v.st /\ w.target = v.target
      /\ w.req = v.req /\ w.resp = v.resp /\ w.in = v.in
  BY DEF Rolls, SameLoop, SameMail
<1>2. HasRoute(v.st)
  BY <1>1 DEF Protocol, Routed, Early
<1>3. PICK k \in Nat, t \in Nat : OnRoute(v, k, t) /\ v.target = v.st.route[t]
  BY <1>1, <1>2 DEF Floor, InWindow
<1> DEFINE p == v.st.route
           i == v.st.index
<1>4. /\ p \in Seq(Node) /\ Len(p) \in Nat /\ i \in Nat /\ v.st.reserved_end \in Nat
      /\ 1 <= i /\ v.st.reserved_end <= Len(p) /\ FollowsEdges(p)
  BY <1>2, SoundRoute
<1>5. /\ i <= k /\ k <= t /\ t <= v.st.reserved_end /\ IsStraight(p, i, t)
      /\ v.near = p[k] /\ (v.ahead = v.near \/ (k < t /\ v.ahead = p[k + 1]))
  BY <1>3 DEF OnRoute
<1>6. v.near \in Node /\ v.ahead \in Node /\ w.near \in Node /\ w.ahead \in Node
  BY DEF Views
<1>7. /\ \A m \in Node : Adjacent(p[k], m) /\ Nearer(m, p[k], p[t]) => k < t /\ m = p[k + 1]
      /\ k < t => \A m \in {p[k], p[k + 1]} :
           Nearer(m, p[k], p[t]) \/ Nearer(m, p[k + 1], p[t]) => m = p[k + 1]
  <2>1. i \in 1..Len(p) /\ t \in 1..Len(p) /\ k \in i..t
    BY <1>4, <1>5
  <2> HIDE DEF p, i
  <2> QED BY <1>4, <1>5, <2>1, DrivesAlongRoute
<1>8. \/ /\ k < t /\ w.near = p[k] /\ w.ahead = p[k + 1] /\ w.pose = v.pose
      \/ /\ k < t /\ w.near = p[k + 1] /\ w.ahead = w.near /\ w.pose = w.near
  <2>1. CASE /\ v.near = v.ahead
             /\ Adjacent(v.near, w.ahead) /\ Nearer(w.ahead, v.near, v.target)
             /\ w.near = v.near /\ w.pose = v.pose
    BY <1>3, <1>5, <1>6, <1>7, <2>1
  <2>2. CASE /\ v.near # v.ahead
             /\ w.near \in {v.near, v.ahead}
             /\ Nearer(w.near, v.near, v.target) \/ Nearer(w.near, v.ahead, v.target)
             /\ w.ahead = w.near /\ w.pose = w.near
    BY <1>3, <1>5, <1>7, <2>2
  <2> QED BY <2>1, <2>2 DEF Rolls
<1>9. InWindow(w)
  <2>1. CASE k < t /\ w.near = p[k] /\ w.ahead = p[k + 1]
    <3>1. OnRoute(w, k, t)
      BY <1>1, <1>5, <2>1 DEF OnRoute
    <3> QED BY <1>1, <1>3, <3>1 DEF InWindow
  <2>2. CASE k < t /\ w.near = p[k + 1] /\ w.ahead = w.near
    <3>1. OnRoute(w, k + 1, t) /\ k + 1 \in Nat
      BY <1>1, <1>4, <1>5, <2>2 DEF OnRoute
    <3> QED BY <1>1, <1>3, <3>1 DEF InWindow
  <2> QED BY <1>8, <2>1, <2>2
<1>10. Localised(w)
  <2>1. ~ReportsObstacle(w)
    BY <1>1 DEF Protocol, BlockAsked, ReportsObstacle, Rolling
  <2>2. w.pose # NoNode => w.pose = w.near
    BY <1>5, <1>8 DEF Floor, Localised
  <2>3. HasRoute(w.st) /\ w.pose = NoNode => w.near = CurrentNode(w.st)
    <3>1. CASE w.near = p[k] /\ w.pose = v.pose
      BY <1>1, <1>5, <3>1 DEF Floor, Localised
    <3>2. CASE w.pose = w.near
      BY <1>6, <3>2, TravelAssumption
    <3> QED BY <1>8, <3>1, <3>2
  <2> QED BY <2>1, <2>2, <2>3 DEF Localised
<1>11. AskedFromHere(w)
  BY <1>1 DEF Protocol, RouteAwaited, NoneUnderway, Unasked, AskedFromHere, Stopped, Early
<1> QED BY <1>1, <1>9, <1>10, <1>11 DEF Floor, StandsStill, SegmentsHold, Rolling

\* So does a pose: the index comes to where the robot is.
LEMMA LocatedFloor ==
  ASSUME NEW v \in Views, NEW w \in Views, Sound(v.st), Protocol(v), Floor(v), Located(v, w)
  PROVE  Floor(w)
<1>1. /\ w.pc = v.pc /\ w.target = v.target /\ w.near = v.near /\ w.ahead = v.ahead
      /\ w.req = v.req /\ w.resp = v.resp /\ w.in = v.in
      /\ v.pose # NoNode /\ w.pose = NoNode
  BY DEF Located, SameLoop, SameMail
<1>2. v.pose = v.near /\ ~ReportsObstacle(v)
  BY <1>1 DEF Floor, Localised
<1>3. ~ReportsObstacle(w)
  BY <1>1, <1>2 DEF ReportsObstacle
<1>4. StandsStill(w) /\ AskedFromHere(w)
  BY <1>1 DEF Floor, StandsStill, AskedFromHere
<1>5. /\ \A n \in 1..Len(v.resp) : v.resp[n] \in Message
      /\ v.in \in Message \cup {NoMessage}
  BY DEF Views
<1>6. CASE ~HasRoute(v.st)
  <2>1. w.st = v.st
    BY <1>6 DEF Located
  <2>2. \A m \in Message \cup {NoMessage} : Holds(v, m) <=> Holds(w, m)
    BY <1>1, <2>1, HoldsStill
  <2>3. InWindow(w)
    BY <1>6, <2>1 DEF InWindow
  <2>4. Localised(w)
    BY <1>1, <1>3, <1>6, <2>1 DEF Localised
  <2>5. SegmentsHold(w)
    BY <1>1, <1>5, <2>2 DEF Floor, SegmentsHold
  <2> QED BY <1>4, <2>3, <2>4, <2>5 DEF Floor
<1>7. CASE HasRoute(v.st)
  <2> DEFINE p == v.st.route
             i == v.st.index
             e == v.st.reserved_end
  <2>1. /\ p \in Seq(Node) /\ Len(p) \in Nat /\ i \in Nat /\ e \in Nat
        /\ 1 <= i /\ i <= e /\ e <= Len(p) /\ NoneTwice(p, i, e)
    BY <1>7, SoundRoute
  <2>2. \A k, t \in Nat : OnRoute(v, k, t) =>
          /\ i <= k /\ k <= t /\ t <= e /\ IsStraight(p, i, t) /\ v.near = p[k]
          /\ v.ahead = v.near \/ (k < t /\ v.ahead = p[k + 1])
    BY DEF OnRoute
  <2>3. PICK a \in Nat, b \in Nat : OnRoute(v, a, b) /\ (v.pc = "drive" => v.target = p[b])
    BY <1>7 DEF Floor, InWindow
  <2>4. PICK j \in Nat : /\ w.st.index = j /\ w.st.route = p /\ w.st.reserved_end = e
                         /\ i <= j /\ j <= e /\ p[j] = v.near
    <3>1. CASE w.st = v.st /\ PassedIndex(v.st, v.pose) = {}
      <4>1. a = i
        <5>1. a \notin PassedIndex(v.st, v.pose)
          BY <3>1
        <5> QED BY <1>2, <2>1, <2>2, <2>3, <5>1 DEF PassedIndex
      <4>2. w.st.index = i /\ p[i] = v.near
        BY <2>2, <2>3, <3>1, <4>1
      <4> QED BY <2>1, <3>1, <4>2
    <3>2. CASE /\ w.st.index \in PassedIndex(v.st, v.pose)
               /\ w.st.route = v.st.route /\ w.st.reserved_end = v.st.reserved_end
      BY <1>2, <2>1, <3>2 DEF PassedIndex
    <3> QED BY <3>1, <3>2 DEF Located
  <2> HIDE DEF p, i, e
  <2>5. ASSUME NEW k \in Nat, NEW t \in Nat, OnRoute(v, k, t) PROVE OnRoute(w, k, t)
    <3>1. /\ i <= k /\ k <= t /\ t <= e /\ IsStraight(p, i, t) /\ v.near = p[k]
          /\ v.ahead = v.near \/ (k < t /\ v.ahead = p[k + 1])
      BY <2>2, <2>5
    <3>2. k = j
      <4>1. k \in i..e /\ j \in i..e /\ p[k] = p[j]
        BY <2>1, <2>4, <3>1
      <4> QED BY <2>1, <4>1 DEF NoneTwice
    <3>3. IsStraight(p, j, t)
      BY <2>1, <2>4, <3>1 DEF IsStraight
    <3> QED BY <1>1, <2>4, <3>1, <3>2, <3>3 DEF OnRoute
  <2>6. \A m \in Message \cup {NoMessage} : Holds(v, m) => Holds(w, m)
    <3>1. w.st.route = v.st.route
      BY <2>4 DEF p
    <3> QED BY <2>5, <3>1 DEF Holds
  <2>7. InWindow(w)
    <3>1. OnRoute(w, a, b)
      BY <2>3, <2>5
    <3> QED BY <1>1, <2>3, <2>4, <3>1 DEF InWindow
  <2>8. Localised(w)
    BY <1>1, <1>3, <2>4 DEF Localised, CurrentNode
  <2>9. SegmentsHold(w)
    BY <1>1, <1>5, <2>6 DEF Floor, SegmentsHold
  <2> QED BY <1>4, <2>7, <2>8, <2>9 DEF Floor
<1> QED BY <1>6, <1>7

\* A robot put at the start of a new route where it stands is on it.
LEMMA StartsHere ==
  ASSUME NEW w \in Views, Sound(w.st), Anew(w.st, w.near), w.near = w.ahead
  PROVE  HasRoute(w.st) /\ OnRoute(w, 1, 1) /\ w.near = w.st.route[1] /\ w.near = CurrentNode(w.st)
<1>1. HasRoute(w.st) /\ w.st.index = 1 /\ CurrentNode(w.st) = w.near
  BY DEF Anew
<1>2. w.st.reserved_end \in Nat /\ 1 <= w.st.reserved_end
  BY <1>1, SoundRoute
<1>3. IsStraight(w.st.route, 1, 1)
  BY DEF IsStraight
<1> QED BY <1>1, <1>2, <1>3 DEF OnRoute, CurrentNode

\* A robot that has used up its window stands at its current node, and can only
\* be told to stay there; so a new route from there is right wherever its loop is.
LEMMA UsedUpStaysRight ==
  ASSUME NEW v \in Views, NEW w \in Views, Sound(v.st), Sound(w.st), Floor(v),
         HasRoute(v.st), v.st.reserved_end = v.st.index, Anew(w.st, CurrentNode(v.st)),
         w.near = v.near, w.ahead = v.ahead, w.pc = v.pc, w.target = v.target
  PROVE  /\ InWindow(w)
         /\ w.near = w.ahead /\ w.near = CurrentNode(w.st) /\ w.near = w.st.route[1]
         /\ \A m \in Message \cup {NoMessage} : Holds(v, m) => Holds(w, m)
<1>1. v.st.index \in Nat /\ v.st.reserved_end \in Nat
  BY SoundRoute
<1>2. \A k, t \in Nat : OnRoute(v, k, t) =>
        k = v.st.index /\ t = v.st.index /\ v.near = CurrentNode(v.st) /\ v.ahead = v.near
  BY <1>1 DEF OnRoute, CurrentNode
<1>3. PICK k \in Nat, t \in Nat : OnRoute(v, k, t) /\ (v.pc = "drive" => v.target = v.st.route[t])
  BY DEF Floor, InWindow
<1>4. /\ v.near = CurrentNode(v.st) /\ v.ahead = v.near
      /\ v.pc = "drive" => v.target = v.near
  BY <1>2, <1>3 DEF CurrentNode
<1>5. OnRoute(w, 1, 1) /\ w.near = w.st.route[1] /\ w.near = CurrentNode(w.st)
  BY <1>4, StartsHere
<1>6. InWindow(w)
  BY <1>4, <1>5 DEF InWindow
<1>7. ASSUME NEW m \in Message \cup {NoMessage}, Holds(v, m) PROVE Holds(w, m)
  <2>1. CASE m.type # "segment"
    BY <2>1 DEF Holds
  <2>2. CASE m.type = "segment"
    <3>1. PICK a \in Nat, b \in Nat : OnRoute(v, a, b) /\ Last(m.nodes) = v.st.route[b]
      BY <1>7, <2>2 DEF Holds
    <3>2. Last(m.nodes) = w.st.route[1]
      BY <1>2, <1>4, <1>5, <3>1 DEF CurrentNode
    <3> QED BY <1>5, <3>2 DEF Holds
  <2> QED BY <2>1, <2>2
<1> QED BY <1>4, <1>5, <1>6, <1>7

\* A reroute sent by the sweep keeps the floor.
LEMMA SweptFloor ==
  ASSUME NEW v \in Views, NEW w \in Views, Sound(v.st), Sound(w.st), Floor(v), Swept(v, w)
  PROVE  Floor(w)
<1>1. /\ w.pc = v.pc /\ w.target = v.target /\ w.near = v.near /\ w.ahead = v.ahead
      /\ w.pose = v.pose /\ w.req = v.req /\ w.in = v.in
  BY DEF Swept, SameLoop, SameFloor
<1>2. PICK m \in Message : w.resp = Append(v.resp, m) /\ m.type = "reroute"
  BY DEF Swept
<1>3. /\ v.resp \in Seq(Message) /\ Len(v.resp) \in Nat
      /\ \A i \in 1..Len(v.resp) : v.resp[i] \in Message
      /\ v.in \in Message \cup {NoMessage}
  BY DEF Views
<1>4. /\ Len(w.resp) = Len(v.resp) + 1 /\ w.resp[Len(v.resp) + 1] = m
      /\ \A i \in 1..Len(v.resp) : w.resp[i] = v.resp[i]
  BY <1>2, <1>3, QueueGrows
<1>5. /\ InWindow(w) /\ w.near = CurrentNode(w.st)
      /\ \A n \in Message \cup {NoMessage} : Holds(v, n) => Holds(w, n)
  <2>1. /\ HasRoute(v.st) /\ v.st.reserved_end = v.st.index /\ Anew(w.st, CurrentNode(v.st))
    BY DEF Swept
  <2> QED BY <1>1, <2>1, UsedUpStaysRight
<1>6. StandsStill(w) /\ AskedFromHere(w)
  BY <1>1 DEF Floor, StandsStill, AskedFromHere
<1>7. Localised(w)
  BY <1>1, <1>5 DEF Floor, Localised, ReportsObstacle
<1>8. SegmentsHold(w)
  <2>1. ASSUME w.pc \in {"segment", "segmentAsked", "blocked", "blockedAsked"},
               NEW i \in 1..Len(w.resp)
        PROVE  Holds(w, w.resp[i])
    <3>1. CASE i \in 1..Len(v.resp)
      BY <1>1, <1>3, <1>4, <1>5, <2>1, <3>1 DEF Floor, SegmentsHold
    <3>2. CASE i = Len(v.resp) + 1
      BY <1>2, <1>4, <3>2 DEF Holds
    <3> QED BY <1>3, <1>4, <2>1, <3>1, <3>2
  <2>2. ASSUME w.pc = "segmentAsked" PROVE Holds(w, w.in)
    BY <1>1, <1>3, <1>5, <2>2 DEF Floor, SegmentsHold
  <2> QED BY <2>1, <2>2 DEF SegmentsHold
<1> QED BY <1>5, <1>6, <1>7, <1>8 DEF Floor

\* What the answer to the first request does to the floor.
Answers(v, w, m) ==
  \/ v.req[1][1] = "route" /\ AnswersRoute(v.st, v.req[1][2], w.st, m)
  \/ v.req[1][1] = "segment" /\ AnswersSegment(v.st, w.st, m)
  \/ v.req[1][1] = "blocked" /\ AnswersBlocked(v.st, w.st, m)

\* The answer leaves the robot in its window and its index right, and neither it
\* nor a segment given before is wrong.
LEMMA AnswersRight ==
  ASSUME NEW v \in Views, NEW w \in Views, Sound(v.st), Sound(w.st), Protocol(v), Floor(v),
         v.req # <<>>, NEW m \in Message, Answers(v, w, m),
         w.near = v.near, w.ahead = v.ahead, w.pc = v.pc, w.target = v.target,
         w.pose = v.pose, w.in = v.in
  PROVE  /\ InWindow(w)
         /\ HasRoute(w.st) /\ w.pose = NoNode => w.near = CurrentNode(w.st)
         /\ w.pc \in {"segment", "segmentAsked", "blocked", "blockedAsked"} =>
              Holds(w, m) /\ \A i \in 1..Len(v.resp) : Holds(w, v.resp[i])
         /\ w.pc = "segmentAsked" => Holds(w, w.in)
         /\ m.type = "reroute" => Head(m.nodes) = w.near
<1>1. /\ v.resp \in Seq(Message) /\ Len(v.resp) \in Nat
      /\ \A i \in 1..Len(v.resp) : v.resp[i] \in Message
      /\ v.in \in Message \cup {NoMessage}
      /\ v.req \in Seq(Request) /\ Len(v.req) \in Nat /\ 1 \in 1..Len(v.req)
  BY DEF Views
<1>2. ASSUME \A n \in Message \cup {NoMessage} : Holds(v, n) => Holds(w, n), Holds(w, m)
      PROVE  /\ w.pc \in {"segment", "segmentAsked", "blocked", "blockedAsked"} =>
                  Holds(w, m) /\ \A i \in 1..Len(v.resp) : Holds(w, v.resp[i])
             /\ w.pc = "segmentAsked" => Holds(w, w.in)
  BY <1>1, <1>2 DEF Floor, SegmentsHold
<1>3. CASE w.st = v.st /\ m.type \in {"wait", "done"}
  <2>1. /\ \A k, t \in Nat : OnRoute(v, k, t) <=> OnRoute(w, k, t)
        /\ \A n \in Message \cup {NoMessage} : Holds(v, n) <=> Holds(w, n)
    BY <1>3, HoldsStill
  <2>2. InWindow(w)
    BY <1>3, <2>1 DEF Floor, InWindow
  <2>3. HasRoute(w.st) /\ w.pose = NoNode => w.near = CurrentNode(w.st)
    BY <1>3 DEF Floor, Localised
  <2>4. Holds(w, m)
    BY <1>3 DEF Holds
  <2> QED BY <1>2, <1>3, <2>1, <2>2, <2>3, <2>4
<1>4. CASE v.req[1][1] = "route" /\ Anew(w.st, v.req[1][2]) /\ m.type = "route"
  <2>1. v.req[1][2] = v.near /\ v.ahead = v.near
    BY <1>1, <1>4 DEF Floor, AskedFromHere
  <2>2. ~NoneUnderway(v)
    BY <1>1, <1>4 DEF NoneUnderway, Unasked
  <2>3. v.pc \in Stopped
    BY <2>2 DEF Protocol, RouteAwaited
  <2>4. OnRoute(w, 1, 1) /\ w.near = CurrentNode(w.st)
    BY <1>4, <2>1, StartsHere
  <2>5. InWindow(w)
    BY <2>3, <2>4 DEF InWindow, Stopped, Early
  <2>6. v.pc \in {"segment", "segmentAsked"} => Tells(v, {"route", "wait"})
    BY <1>1, <1>4, <2>2 DEF Protocol, RouteFirst
  <2>7. v.pc = "segmentAsked" => v.in.type \in {"none", "route", "wait"}
    BY <2>2 DEF Protocol, RouteFirst
  <2>8. v.pc \notin {"blocked", "blockedAsked"}
    BY <2>3 DEF Stopped, Early
  <2> QED BY <1>1, <1>4, <2>4, <2>5, <2>6, <2>7, <2>8 DEF Tells, Holds
<1>5. CASE /\ HasRoute(v.st) /\ Grows(v.st, w.st)
           /\ m.type \in {"wait", "done"} \/ IsSegment(w.st, m)
  <2>1. /\ \A k, t \in Nat : OnRoute(v, k, t) => OnRoute(w, k, t)
        /\ \A n \in Message \cup {NoMessage} : Holds(v, n) => Holds(w, n)
    BY <1>5, HoldsOn
  <2>2. PICK k \in Nat, t \in Nat : OnRoute(v, k, t) /\ (v.pc = "drive" => v.target = v.st.route[t])
    BY <1>5 DEF Floor, InWindow
  <2>3. OnRoute(w, k, t) /\ w.st.route = v.st.route /\ w.st.index = v.st.index
    BY <1>5, <2>1, <2>2 DEF Grows
  <2>4. InWindow(w)
    BY <2>2, <2>3 DEF InWindow
  <2>5. HasRoute(w.st) /\ w.pose = NoNode => w.near = CurrentNode(w.st)
    BY <1>5, <2>3 DEF Floor, Localised, CurrentNode
  <2>6. w.pc \in {"segment", "segmentAsked", "blocked", "blockedAsked"} => Holds(w, m)
    <3> SUFFICES ASSUME w.pc \in {"segment", "segmentAsked", "blocked", "blockedAsked"}
                 PROVE  Holds(w, m)
      OBVIOUS
    <3>1. CASE m.type \in {"wait", "done"}
      BY <3>1 DEF Holds
    <3>2. CASE IsSegment(w.st, m)
      <4>1. PICK e \in Nat : EndsAt(w.st, e) /\ Last(m.nodes) = w.st.route[e]
        BY <3>2 DEF IsSegment
      <4>2. w.near = w.ahead
        BY DEF Floor, StandsStill, Rolling
      <4>3. /\ w.st.index <= k /\ k <= t /\ t <= w.st.reserved_end
            /\ IsStraight(w.st.route, w.st.index, t) /\ w.near = w.st.route[k]
        BY <2>3 DEF OnRoute
      <4>4. /\ w.st.index \in Nat /\ w.st.reserved_end \in Nat
            /\ IsStraight(w.st.route, w.st.index, e) /\ e <= w.st.reserved_end
            /\ \A j \in w.st.index..w.st.reserved_end :
                 IsStraight(w.st.route, w.st.index, j) => j <= e
        BY <4>1 DEF EndsAt, Views, RobotState
      <4>5. t <= e
        BY <4>3, <4>4
      <4>6. OnRoute(w, k, e)
        BY <4>2, <4>3, <4>4, <4>5 DEF OnRoute
      <4> QED BY <4>1, <4>6 DEF Holds
    <3> QED BY <1>5, <3>1, <3>2
  <2>7. /\ w.pc \in {"segment", "segmentAsked", "blocked", "blockedAsked"} =>
             \A i \in 1..Len(v.resp) : Holds(w, v.resp[i])
        /\ w.pc = "segmentAsked" => Holds(w, w.in)
    BY <1>1, <2>1 DEF Floor, SegmentsHold
  <2>8. m.type # "reroute"
    BY <1>5 DEF IsSegment
  <2> QED BY <2>4, <2>5, <2>6, <2>7, <2>8
<1>6. CASE /\ HasRoute(v.st) /\ v.st.reserved_end = v.st.index
           /\ Anew(w.st, CurrentNode(v.st)) /\ m.type = "reroute" /\ m.nodes = w.st.route
  <2>1. /\ InWindow(w) /\ w.near = CurrentNode(w.st) /\ w.near = w.st.route[1]
        /\ \A n \in Message \cup {NoMessage} : Holds(v, n) => Holds(w, n)
    BY <1>6, UsedUpStaysRight
  <2>2. Holds(w, m)
    BY <1>6 DEF Holds
  <2>3. Head(m.nodes) = w.near
    BY <1>6, <2>1 DEF Message
  <2> QED BY <1>2, <2>1, <2>2, <2>3
<1>7. CASE /\ v.req[1][1] = "blocked" /\ HasRoute(v.st)
           /\ Anew(w.st, CurrentNode(v.st)) /\ m.type = "reroute" /\ m.nodes = w.st.route
  <2>1. ReportsObstacle(v) /\ v.pc \notin Rolling
    BY <1>1, <1>7 DEF ReportsObstacle, Protocol, BlockAsked
  <2>2. v.near = CurrentNode(v.st) /\ v.near = v.ahead
    BY <1>7, <2>1 DEF Floor, Localised, StandsStill
  <2>3. OnRoute(w, 1, 1) /\ w.near = CurrentNode(w.st) /\ w.near = w.st.route[1]
    BY <1>7, <2>2, StartsHere
  <2>6. Head(m.nodes) = w.near
    BY <1>7, <2>3 DEF Message
  <2>4. InWindow(w)
    BY <2>1, <2>3 DEF InWindow, Rolling
  <2>5. /\ \A i \in 1..Len(v.resp) : v.resp[i].type # "segment"
        /\ v.pc = "segmentAsked" => v.in.type # "segment"
    BY <2>1 DEF ReportsObstacle, Protocol, BlockAsked
  <2> QED BY <1>1, <1>7, <2>3, <2>4, <2>5, <2>6 DEF Holds
<1> QED BY <1>3, <1>4, <1>5, <1>6, <1>7
        DEF Answers, AnswersRoute, AnswersSegment, AnswersBlocked, Wait

\* So the manager's answers keep the floor.
LEMMA ServedFloor ==
  ASSUME NEW v \in Views, NEW w \in Views, Sound(v.st), Sound(w.st), Protocol(v), Floor(v),
         Served(v, w)
  PROVE  Floor(w)
<1>1. /\ v.req \in Seq(Request) /\ v.resp \in Seq(Message) /\ Len(v.resp) \in Nat
      /\ w.pc = v.pc /\ w.target = v.target /\ w.near = v.near /\ w.ahead = v.ahead
      /\ w.pose = v.pose /\ w.in = v.in /\ v.req # <<>> /\ w.req = Tail(v.req)
  BY DEF Views, Served, SameLoop, SameFloor
<1>2. /\ Len(w.req) \in Nat /\ Len(v.req) = Len(w.req) + 1 /\ Head(v.req) = v.req[1]
      /\ \A i \in 1..Len(w.req) : w.req[i] = v.req[i + 1]
  BY <1>1, QueueShrinks
<1>3. \A i \in 1..Len(w.req) : i + 1 \in 1..Len(v.req)
  BY <1>2
<1>4. PICK m \in Message : w.resp = Append(v.resp, m) /\ Answers(v, w, m)
  BY <1>2 DEF Served, Answers
<1>5. /\ Len(w.resp) = Len(v.resp) + 1 /\ w.resp[Len(v.resp) + 1] = m
      /\ \A i \in 1..Len(v.resp) : w.resp[i] = v.resp[i]
  BY <1>1, <1>4, QueueGrows
<1>6. /\ InWindow(w)
      /\ HasRoute(w.st) /\ w.pose = NoNode => w.near = CurrentNode(w.st)
      /\ w.pc \in {"segment", "segmentAsked", "blocked", "blockedAsked"} =>
           Holds(w, m) /\ \A i \in 1..Len(v.resp) : Holds(w, v.resp[i])
      /\ w.pc = "segmentAsked" => Holds(w, w.in)
  BY <1>1, <1>4, AnswersRight
<1>7. StandsStill(w) /\ AskedFromHere(w)
  BY <1>1, <1>2, <1>3 DEF Floor, StandsStill, AskedFromHere
<1>8. Localised(w)
  <2>1. ReportsObstacle(w) => ReportsObstacle(v)
    BY <1>1, <1>2, <1>3 DEF ReportsObstacle
  <2> QED BY <1>1, <1>6, <2>1 DEF Floor, Localised
<1>9. SegmentsHold(w)
  <2>1. \A i \in 1..Len(w.resp) : i \in 1..Len(v.resp) \/ i = Len(v.resp) + 1
    BY <1>1, <1>5
  <2> QED BY <1>5, <1>6, <2>1 DEF SegmentsHold
<1> QED BY <1>6, <1>7, <1>8, <1>9 DEF Floor

\* Every step keeps the floor.
LEMMA StepsFloor ==
  ASSUME NEW x \in Robot, NEW v \in Views, NEW w \in Views, Sound(v.st), Sound(w.st),
         Protocol(v), Floor(v), v.pc = "route" => v.near = v.current, Steps(x, v, w)
  PROVE  Floor(w)
  BY ThinksFloor, RequestsFloor, RollsFloor, MessagesFloor, ServedFloor, LocatedFloor,
     SweptFloor DEF Steps, Quiet

-----------------------------------------------------------------------------
(* The invariant.                                                          *)

\* A robot the manager knows nothing of is where it started.
AtHome(x, v) == ~HasRoute(v.st) => v.near = Home[x] /\ v.ahead = Home[x]

LEMMA StepsFromHome ==
  ASSUME NEW x \in Robot, NEW v \in Views, NEW w \in Views, Protocol(v), AtHome(x, v),
         Steps(x, v, w)
  PROVE  AtHome(x, w)
<1>1. CASE Rolls(v, w)
  <2>1. HasRoute(v.st) /\ w.st = v.st
    BY <1>1 DEF Rolls, Protocol, Routed, Early
  <2> QED BY <2>1 DEF AtHome
<1>2. CASE Served(v, w)
  <2>1. w.near = v.near /\ w.ahead = v.ahead /\ (HasRoute(v.st) => HasRoute(w.st))
    BY <1>2 DEF Served, SameFloor, AnswersRoute, AnswersSegment, AnswersBlocked, Anew, Grows,
                HasRoute
  <2> QED BY <2>1 DEF AtHome
<1>3. CASE Located(v, w) \/ Swept(v, w)
  <2>1. w.near = v.near /\ w.ahead = v.ahead /\ (HasRoute(v.st) => HasRoute(w.st))
    BY <1>3 DEF Located, Swept, SameFloor, Anew, HasRoute
  <2> QED BY <2>1 DEF AtHome
<1>4. CASE Thinks(x, v, w) \/ Requests(v, w) \/ Receives(v, w) \/ Misses(x, v, w)
  <2>1. w.st = v.st /\ w.near = v.near /\ w.ahead = v.ahead
    BY <1>4 DEF Thinks, Requests, Receives, Misses, SameFloor
  <2> QED BY <2>1 DEF AtHome
<1> QED BY <1>1, <1>2, <1>3, <1>4 DEF Steps, Quiet

\* What holds of every robot whatever it remembers.
Orderly ==
  /\ TravelTypes /\ IInv
  /\ \A r \in Robot : Protocol(View(r)) /\ AtHome(r, View(r))
  /\ ~Idle => \A r \in Robot : Sweepable(View(r))

OnFloor == \A r \in Robot : Floor(View(r))

\* self.current is the node a robot is at when it asks for a route.
AsksFromWhereItIs ==
  \A r \in Robot : At(r, "route") => pos[r] = <<fsm[r].current, fsm[r].current>>

\* The views before and after a step.
LEMMA StepViews ==
  ASSUME TravelTypes, IInv, TravelTypes', IInv', NEW r \in Robot
  PROVE  /\ View(r) \in Views /\ Sound(View(r).st)
         /\ View(r)' \in Views /\ Sound(View(r)'.st)
<1>1. View(r) \in Views /\ Sound(View(r).st)
  BY ViewTypes DEF IInv
<1>2. Core(tm')
  BY DEF IInv
<1>3. Sound(tm'.robots[r]) /\ tm'.robots[r] \in RobotState
  BY <1>2, CoreSound DEF Sound
<1>4. /\ fsm'[r] \in FsmState /\ request'[r] \in Seq(Request) /\ response'[r] \in Seq(Message)
      /\ inbox'[r] \in Message \cup {NoMessage}
      /\ pos'[r] \in Node \X Node /\ pose'[r] \in Node \cup {NoNode}
  BY DEF TravelTypes
<1>5. /\ fsm'[r].pc \in Places /\ fsm'[r].current \in Node
      /\ fsm'[r].target \in Node \cup {NoNode}
      /\ pos'[r][1] \in Node /\ pos'[r][2] \in Node
  BY <1>4 DEF FsmState
<1>6. View(r)' \in Views /\ Sound(View(r)'.st)
  BY <1>3, <1>4, <1>5 DEF View, Views
<1> QED BY <1>1, <1>6

\* At the start every robot rests at its home.
LEMMA TravelStarts == TravelInit => Orderly /\ OnFloor
<1> SUFFICES ASSUME TravelInit PROVE Orderly /\ OnFloor
  OBVIOUS
<1>1. IInv /\ tm = NewManager
  BY InitInvariant DEF TravelInit, TrafficInit
<1>2. TravelTypes
  <2>1. \A r \in Robot : Home[r] \in Node /\ Itinerary[r] \in Seq(Trip)
    BY TravelAssumption DEF Trip
  <2>2. fsm \in [Robot -> FsmState]
    BY <2>1 DEF TravelInit, FsmState, Places
  <2>3. \A r \in Robot : OnTrip(r, fsm[r])
    BY DEF TravelInit, OnTrip, Preemptable
  <2> QED BY <2>1, <2>2, <2>3 DEF TravelInit, TravelTypes
<1>3. ASSUME NEW r \in Robot
      PROVE  Protocol(View(r)) /\ AtHome(r, View(r)) /\ Floor(View(r))
  <2> DEFINE v == View(r)
  <2>1. /\ v.st = NoState /\ v.pc = "rest" /\ v.req = <<>> /\ v.resp = <<>> /\ v.in.type = "none"
        /\ v.near = Home[r] /\ v.ahead = Home[r] /\ v.pose = NoNode
    BY <1>1 DEF TravelInit, NewManager, View, NoMessage
  <2>2. Len(v.req) = 0 /\ Len(v.resp) = 0 /\ ~HasRoute(v.st)
    BY <2>1 DEF HasRoute, NoState
  <2> HIDE DEF v
  <2>3. Protocol(v)
    BY <2>1, <2>2 DEF Protocol, RouteAwaited, AskedLast, ToldLast, TakenLast, RouteFirst, Routed,
                      BlockAsked, NoneUnderway, Unasked, Untold, Early, Stopped, Rolling
  <2>4. AtHome(r, v)
    BY <2>1 DEF AtHome
  <2>5. Floor(v)
    BY <2>1, <2>2 DEF Floor, StandsStill, InWindow, Localised, ReportsObstacle, AskedFromHere,
                      SegmentsHold
  <2> QED BY <2>3, <2>4, <2>5 DEF v
<1>4. Idle
  BY DEF TravelInit, TrafficInit, Idle
<1> QED BY <1>1, <1>2, <1>3, <1>4 DEF Orderly, OnFloor

\* When a sweep is due every robot can be swept.
LEMMA DueSweepable ==
  ASSUME TravelTypes, IInv, Due, NEW r \in Robot, Protocol(View(r))
  PROVE  Sweepable(View(r))
<1> DEFINE v == View(r)
<1>1. v \in Views
  BY ViewTypes DEF IInv
<1>2. CalmView(v)
  BY DEF Due, Calm, Settled, Received, CalmView, SettledView, View
<1> HIDE DEF v
<1>3. Protocol(v) => Sweepable(v)
  BY <1>1, <1>2, CalmSweepable
<1> QED BY <1>3 DEF v

\* Order is kept by every step.
LEMMA OrderlyNext == Orderly /\ [TravelNext]_vars => Orderly'
<1> SUFFICES ASSUME Orderly, [TravelNext]_vars PROVE Orderly'
  OBVIOUS
<1>1. TravelTypes /\ IInv
  BY DEF Orderly
<1>2. /\ TravelTypes' /\ [TrafficNext]_trafficVars
      /\ \/ \A q \in Robot : View(q)' = View(q)
         \/ \E x \in Robot : Only(x) /\ Phased(x, View(x), View(x)')
      /\ Idle' \/ ~Idle \/ (Due /\ \A q \in Robot : View(q)' = View(q))
  BY <1>1, PhasedStep
<1>3. IInv'
  BY <1>1, <1>2, NextInvariant
<1>4. ASSUME NEW r \in Robot
      PROVE  /\ Protocol(View(r)') /\ AtHome(r, View(r)')
             /\ ~Idle' => Sweepable(View(r)')
  <2> DEFINE v == View(r)
             w == View(r)'
  <2>1. v \in Views /\ w \in Views
    BY <1>1, <1>2, <1>3, StepViews
  <2>2. Protocol(v) /\ AtHome(r, v) /\ (~Idle => Sweepable(v))
    BY DEF Orderly
  <2>3. w = v \/ Phased(r, v, w)
    BY <1>2 DEF Only
  <2>4. Due => Sweepable(v)
    BY <1>1, <2>2, DueSweepable
  <2>5. Idle' \/ ~Idle \/ (Due /\ w = v)
    BY <1>2
  <2> HIDE DEF v, w
  <2>6. Protocol(w) /\ AtHome(r, w)
    <3>1. CASE w = v
      BY <2>2, <3>1
    <3>2. CASE Phased(r, v, w)
      <4>1. AtHome(r, w)
        BY <2>1, <2>2, <3>2, StepsFromHome DEF Phased, Steps
      <4>2. CASE Quiet(r, v, w) \/ Served(v, w) \/ Located(v, w)
        BY <2>1, <2>2, <4>1, <4>2, OthersProtocol
      <4>3. CASE ~Idle /\ Swept(v, w)
        BY <2>1, <2>2, <4>1, <4>3, SweptProtocol
      <4> QED BY <3>2, <4>2, <4>3 DEF Phased
    <3> QED BY <2>3, <3>1, <3>2
  <2>7. ~Idle /\ Sweepable(v) => Sweepable(w)
    BY <2>1, <2>2, <2>3, QuietSweepable, SweptProtocol DEF Phased
  <2> QED BY <2>2, <2>4, <2>5, <2>6, <2>7 DEF w
<1>5. /\ \A r \in Robot : Protocol(View(r))' /\ AtHome(r, View(r))'
      /\ (~Idle)' => \A r \in Robot : Sweepable(View(r))'
  BY <1>4
<1> QED BY <1>2, <1>3, <1>5 DEF Orderly

\* The floor is kept as long as the robots ask from where they are.
LEMMA FloorNext == Orderly /\ OnFloor /\ AsksFromWhereItIs /\ [TravelNext]_vars => OnFloor'
<1> SUFFICES ASSUME Orderly, OnFloor, AsksFromWhereItIs, [TravelNext]_vars PROVE OnFloor'
  OBVIOUS
<1>1. TravelTypes /\ IInv /\ TravelTypes' /\ IInv'
  BY OrderlyNext DEF Orderly
<1>2. \/ \A q \in Robot : View(q)' = View(q)
      \/ \E x \in Robot : Only(x) /\ Steps(x, View(x), View(x)')
  BY <1>1, EveryStep
<1>3. ASSUME NEW r \in Robot PROVE Floor(View(r)')
  <2> DEFINE v == View(r)
             w == View(r)'
  <2>1. v \in Views /\ w \in Views /\ Sound(v.st) /\ Sound(w.st)
    BY <1>1, StepViews
  <2>2. Protocol(v) /\ Floor(v)
    BY DEF Orderly, OnFloor
  <2>3. v.pc = "route" => v.near = v.current
    BY DEF AsksFromWhereItIs, At, View
  <2>4. w = v \/ Steps(r, v, w)
    BY <1>2 DEF Only
  <2> HIDE DEF v, w
  <2>5. Floor(w)
    BY <2>1, <2>2, <2>3, <2>4, StepsFloor
  <2> QED BY <2>5 DEF w
<1>4. \A r \in Robot : Floor(View(r))'
  BY <1>3
<1> QED BY <1>4 DEF OnFloor

-----------------------------------------------------------------------------
(* Theorems.                                                               *)

\* Order is kept for ever.
LEMMA OrderlyAlways == TravelSpec => []Orderly
  BY TravelStarts, OrderlyNext, PTL DEF TravelSpec

\* With robots that drive, requests that queue up, answers that cross and a
\* sweep that tells its reroutes, the manager still runs as TrafficSpec says:
\* every theorem about it holds here.
THEOREM ManagerUnderway == TravelSpec => TrafficSpec
<1>1. Orderly /\ [TravelNext]_vars => [TrafficNext]_trafficVars
  BY EveryStep DEF Orderly
<1>2. TravelInit => TrafficInit
  BY DEF TravelInit
<1> QED BY <1>1, <1>2, OrderlyAlways, PTL DEF TravelSpec, TrafficSpec

LEMMA FloorAlways == TravelSpec /\ []AsksFromWhereItIs => [](Orderly /\ OnFloor)
<1>1. Orderly /\ OnFloor /\ AsksFromWhereItIs /\ [TravelNext]_vars => Orderly' /\ OnFloor'
  BY OrderlyNext, FloorNext
<1> QED BY <1>1, TravelStarts, PTL DEF TravelSpec

\* A robot with a route is within its window.
LEMMA FootprintInWindow ==
  ASSUME Orderly, OnFloor, NEW r \in Robot, HasRoute(tm.robots[r])
  PROVE  Footprint(r) \subseteq Window(tm.robots[r]) /\ Footprint(r) \subseteq Node
<1> DEFINE v == View(r)
<1>1. v.st = tm.robots[r] /\ v.near = Near(r) /\ v.ahead = Ahead(r) /\ v \in Views /\ Sound(v.st)
  BY ViewTypes DEF View, Near, Ahead, Orderly, IInv
<1>2. Floor(v)
  BY DEF OnFloor
<1> HIDE DEF v
<1>3. PICK k \in Nat, t \in Nat : OnRoute(v, k, t)
  BY <1>1, <1>2 DEF Floor, InWindow
<1>4. v.st.index \in Nat /\ v.st.reserved_end \in Nat
  BY <1>1, SoundRoute
<1>5. v.near \in Window(v.st) /\ v.ahead \in Window(v.st)
  BY <1>3, <1>4 DEF OnRoute, Window
<1>6. v.near \in Node /\ v.ahead \in Node
  BY <1>1 DEF Views
<1> QED BY <1>1, <1>5, <1>6 DEF Footprint

\* Whatever the queues hold and however far the index lags, a robot with a route
\* has reserved the ground it is on, as long as the robots ask from where they
\* are.
THEOREM ReservedUnderfoot == TravelSpec /\ []AsksFromWhereItIs => []FootprintReserved
<1>1. Orderly /\ OnFloor => FootprintReserved
  <2> SUFFICES ASSUME Orderly, OnFloor, NEW r \in Robot, HasRoute(tm.robots[r]),
                      NEW n \in Footprint(r)
               PROVE  tm.reservations[n] = r
    BY DEF FootprintReserved
  <2>1. n \in Window(tm.robots[r]) /\ n \in Node
    BY FootprintInWindow
  <2>2. ReservedIsWindow(tm)
    BY DEF Orderly, IInv, Core
  <2> QED BY <2>1, <2>2 DEF ReservedIsWindow
<1> QED BY <1>1, FloorAlways, PTL

\* No two robots meet on the floor, if they start at homes of their own and no
\* robot is given the home of one that the manager does not know of yet.
HomesOwn == \A r, q \in Robot : Home[r] = Home[q] => r = q

HomesFree == \A r \in Robot : HasRoute(tm.robots[r]) \/ tm.reservations[Home[r]] = NoRobot

THEOREM KeptApart ==
  ASSUME HomesOwn
  PROVE  TravelSpec /\ []AsksFromWhereItIs => [](HomesFree => Separated)
<1>1. Orderly /\ OnFloor => (HomesFree => Separated)
  <2> SUFFICES ASSUME Orderly, OnFloor, HomesFree, NEW r \in Robot, NEW q \in Robot, r # q,
                      NEW n \in Footprint(r), n \in Footprint(q)
               PROVE  FALSE
    BY DEF Separated
  <2>1. ReservedIsWindow(tm) /\ r # NoRobot /\ q # NoRobot
    BY RobotAssumption DEF Orderly, IInv, Core, NoRobot
  <2>2. ASSUME NEW x \in Robot, ~HasRoute(tm.robots[x])
        PROVE  Footprint(x) = {Home[x]} /\ Home[x] \in Node /\ tm.reservations[Home[x]] = NoRobot
    <3>1. AtHome(x, View(x))
      BY DEF Orderly
    <3>2. Near(x) = Home[x] /\ Ahead(x) = Home[x]
      BY <2>2, <3>1 DEF AtHome, View, Near, Ahead
    <3> QED BY <2>2, <3>2, TravelAssumption DEF Footprint, HomesFree
  <2>3. ASSUME NEW x \in Robot, HasRoute(tm.robots[x]), NEW m \in Footprint(x)
        PROVE  m \in Node /\ tm.reservations[m] = x
    <3>1. m \in Window(tm.robots[x]) /\ m \in Node
      BY <2>3, FootprintInWindow
    <3> QED BY <2>1, <3>1 DEF ReservedIsWindow
  <2>4. CASE HasRoute(tm.robots[r]) /\ HasRoute(tm.robots[q])
    BY <2>3, <2>4
  <2>5. CASE HasRoute(tm.robots[r]) /\ ~HasRoute(tm.robots[q])
    BY <2>1, <2>2, <2>3, <2>5
  <2>6. CASE ~HasRoute(tm.robots[r]) /\ HasRoute(tm.robots[q])
    BY <2>1, <2>2, <2>3, <2>6
  <2>7. CASE ~HasRoute(tm.robots[r]) /\ ~HasRoute(tm.robots[q])
    BY <2>2, <2>7 DEF HomesOwn
  <2> QED BY <2>4, <2>5, <2>6, <2>7
<1> QED BY <1>1, FloorAlways, PTL

\* A robot with a route is put at a node of its window.
LEMMA StaysHeld ==
  ASSUME NEW x \in Robot, NEW v \in Views, NEW w \in Views, Sound(v.st), Protocol(v), Floor(v),
         HasRoute(v.st), Steps(x, v, w)
  PROVE  CurrentNode(w.st) \in Window(v.st)
<1>1. /\ v.st.index \in Nat /\ v.st.reserved_end \in Nat
      /\ 1 <= v.st.index /\ v.st.index <= v.st.reserved_end
  BY SoundRoute
<1>2. CurrentNode(v.st) \in Window(v.st)
  BY <1>1 DEF CurrentNode, Window
<1>3. v.near \in Window(v.st)
  <2>1. PICK k \in Nat, t \in Nat : OnRoute(v, k, t)
    BY DEF Floor, InWindow
  <2> QED BY <1>1, <2>1 DEF OnRoute, Window
<1>4. CASE Located(v, w)
  <2>1. CASE w.st = v.st
    BY <1>2, <2>1
  <2>2. CASE w.st.index \in PassedIndex(v.st, v.pose) /\ w.st.route = v.st.route
    BY <1>1, <2>2 DEF PassedIndex, CurrentNode, Window
  <2> QED BY <1>4, <2>1, <2>2 DEF Located
<1>5. CASE Swept(v, w)
  BY <1>2, <1>5 DEF Swept, Anew
<1>6. CASE Served(v, w)
  <2>1. /\ v.req \in Seq(Request) /\ Len(v.req) \in Nat /\ 1 \in 1..Len(v.req)
        /\ Head(v.req) = v.req[1]
    BY <1>6 DEF Views, Served
  <2>2. \/ w.st = v.st
        \/ Grows(v.st, w.st)
        \/ Anew(w.st, CurrentNode(v.st))
        \/ v.req[1][1] = "route" /\ Anew(w.st, v.req[1][2])
    BY <1>6, <2>1 DEF Served, AnswersRoute, AnswersSegment, AnswersBlocked
  <2>3. v.req[1][1] = "route" => v.req[1][2] = v.near
    BY <2>1 DEF Floor, AskedFromHere
  <2> QED BY <1>2, <1>3, <2>2, <2>3 DEF Grows, Anew, CurrentNode
<1>7. CASE Thinks(x, v, w) \/ Requests(v, w) \/ Rolls(v, w) \/ Receives(v, w) \/ Misses(x, v, w)
  <2>1. w.st = v.st
    BY <1>7 DEF Thinks, Requests, Rolls, Receives, Misses
  <2> QED BY <1>2, <2>1
<1> QED BY <1>4, <1>5, <1>6, <1>7 DEF Steps, Quiet

\* As long as they ask from where they are, robots are never displaced in the
\* manager's tables: it implements the strict interlocking.
THEOREM NotDisplaced == TravelSpec /\ []AsksFromWhereItIs => NeverDisplaced
<1>1. TravelInit => Interlock!Init
  BY DEF TravelInit, TrafficInit, NewManager, NoState, HeldNodes, PlaceOf, Window, HasRoute,
         Interlock!Init, Interlock!NoNodes
<1>2. Orderly /\ OnFloor /\ [TravelNext]_vars
        => [\E r \in Robot : Interlock!Enter(r) \/ Interlock!Change(r)]_<<HeldNodes, PlaceOf>>
  <2> SUFFICES ASSUME Orderly, OnFloor, [TravelNext]_vars
               PROVE  \/ \E r \in Robot : Interlock!Enter(r) \/ Interlock!Change(r)
                      \/ UNCHANGED <<HeldNodes, PlaceOf>>
    OBVIOUS
  <2>1. /\ TravelTypes /\ IInv /\ TravelTypes' /\ IInv'
        /\ [TrafficNext]_trafficVars
        /\ \/ \A q \in Robot : View(q)' = View(q)
           \/ \E x \in Robot : Only(x) /\ Steps(x, View(x), View(x)')
    BY EveryStep, OrderlyNext DEF Orderly
  <2>2. ASSUME NEW r \in Robot, AnswersRequest(r), Interlock!Hold(r)
        PROVE  Interlock!Enter(r)
    <3> SUFFICES ASSUME HeldNodes[r] # {} PROVE FALSE
      BY <2>2 DEF Interlock!Enter
    <3> DEFINE v == View(r)
               w == View(r)'
    <3>1. v.st = tm.robots[r] /\ w.st = tm'.robots[r]
      BY DEF View
    <3>2. v \in Views /\ Sound(v.st) /\ w \in Views /\ Sound(w.st) /\ Protocol(v) /\ Floor(v)
      BY <2>1, StepViews DEF Orderly, OnFloor
    <3>3. w = v \/ Steps(r, v, w)
      BY <2>1 DEF Only
    <3>4. HasRoute(v.st) /\ HeldNodes[r] = Window(v.st)
      <4>1. HeldNodes[r] = Window(v.st)
        BY <3>1 DEF HeldNodes
      <4>2. Window(NoState) = {}
        BY DEF Window, NoState
      <4> QED BY <3>2, <4>1, <4>2 DEF Sound, HasRoute, NoState, RobotState
    <3>5. PlaceOf'[r] \notin HeldNodes[r] /\ PlaceOf'[r] \in Node /\ PlaceOf'[r] \in HeldNodes'[r]
      BY <2>2 DEF AnswersRequest, Interlock!Hold
    <3>6. HasRoute(w.st) /\ PlaceOf'[r] = CurrentNode(w.st)
      <4>1. HeldNodes'[r] = Window(w.st)
        BY <3>1 DEF HeldNodes
      <4>2. Window(NoState) = {}
        BY DEF Window, NoState
      <4>3. HasRoute(w.st)
        BY <3>2, <3>5, <4>1, <4>2 DEF Sound, HasRoute, NoState, RobotState
      <4> QED BY <3>1, <4>3 DEF PlaceOf
    <3> HIDE DEF v, w
    <3>7. CurrentNode(w.st) \in Window(v.st)
      <4>1. CASE w = v
        <5>1. /\ v.st.index \in Nat /\ v.st.reserved_end \in Nat
              /\ v.st.index <= v.st.reserved_end
          BY <3>2, <3>4, SoundRoute
        <5> QED BY <4>1, <5>1 DEF CurrentNode, Window
      <4>2. CASE Steps(r, v, w)
        BY <3>2, <3>4, <4>2, StaysHeld
      <4> QED BY <3>3, <4>1, <4>2
    <3> QED BY <3>4, <3>5, <3>6, <3>7
  <2> QED BY <2>1, <2>2, StepsChange
<1> QED BY <1>1, <1>2, FloorAlways, PTL DEF TravelSpec, NeverDisplaced, Interlock!Spec

-----------------------------------------------------------------------------
(* Without obstacles a robot stops at the ends of its segments only, and   *)
(* remembers where it is, whatever is given up, lost or sent by the sweep. *)

\* A message that restarts the loop names the node the robot is at.
Reminds(m, n) == m.type = "reroute" => Head(m.nodes) = n

Remembers(v) ==
  /\ v.pc \notin Rolling =>
       v.current = v.near /\ \A i \in 1..Len(v.resp) : Reminds(v.resp[i], v.near)
  /\ v.pc \in {"segmentAsked", "blockedAsked"} => Reminds(v.in, v.near)

LEMMA StepsRemember ==
  ASSUME obstacle = {}, NEW x \in Robot, NEW v \in Views, NEW w \in Views,
         Sound(v.st), Sound(w.st), Protocol(v), Floor(v), Remembers(v), Steps(x, v, w)
  PROVE  Remembers(w)
<1>1. /\ v.req \in Seq(Request) /\ Len(v.req) \in Nat
      /\ v.resp \in Seq(Message) /\ Len(v.resp) \in Nat
      /\ \A i \in 1..Len(v.resp) : v.resp[i] \in Message
  BY DEF Views
<1>2. SettledView(v) => Len(v.resp) = 0
  BY DEF SettledView
<1>3. CASE Thinks(x, v, w)
  <2>1. w.resp = v.resp /\ w.in = v.in /\ w.near = v.near
    BY <1>3 DEF Thinks, SameMail, SameFloor
  <2>2. w.pc \notin {"segmentAsked", "blockedAsked"}
    BY <1>3 DEF Thinks, Goes
  <2>3. v.pc \notin Rolling \/ (w.pc = "segment" /\ w.current = v.near /\ SettledView(v))
        \/ w.pc = "failed"
    <3>1. v.pc # "failed"
      BY <1>3 DEF Thinks, Unrouted
    <3>2. v.pc = "drive" =>
            w.pc = "failed" \/ (w.pc = "segment" /\ w.current = v.near /\ SettledView(v))
      BY <1>3 DEF Thinks, Goes, Unrouted
    <3> QED BY <3>1, <3>2 DEF Rolling
  <2>4. w.pc \notin Rolling => w.current = v.near
    BY <1>3, <2>3 DEF Thinks, Goes, Remembers, Reminds, Rolling
  <2> QED BY <1>2, <2>1, <2>2, <2>3, <2>4 DEF Remembers, Rolling
<1>4. CASE Requests(v, w)
  <2>1. /\ w.resp = v.resp /\ w.in.type = "none" /\ w.near = v.near /\ w.current = v.current
        /\ v.pc \notin Rolling
    BY <1>4 DEF Requests, SameFloor, Goes, NoMessage, Rolling
  <2> QED BY <2>1 DEF Remembers, Reminds
<1>5. CASE Rolls(v, w)
  BY <1>5 DEF Rolls, SameLoop, Remembers, Rolling
<1>6. CASE Receives(v, w) \/ Misses(x, v, w)
  <2>1. w.pc = v.pc /\ w.current = v.current /\ w.near = v.near
    BY <1>6 DEF Receives, Misses, SameLoop, SameFloor
  <2>2. CASE v.resp # <<>> /\ w.resp = Tail(v.resp) /\ (w.in = Head(v.resp) \/ w.in = v.in)
    <3>1. /\ Len(w.resp) \in Nat /\ Len(v.resp) = Len(w.resp) + 1 /\ Head(v.resp) = v.resp[1]
          /\ \A i \in 1..Len(w.resp) : w.resp[i] = v.resp[i + 1]
      BY <1>1, <2>2, QueueShrinks
    <3>2. 1 \in 1..Len(v.resp) /\ \A i \in 1..Len(w.resp) : i + 1 \in 1..Len(v.resp)
      BY <3>1
    <3> QED BY <2>1, <2>2, <3>1, <3>2 DEF Remembers, Rolling
  <2>3. CASE w.resp = v.resp /\ w.in = v.in
    BY <2>1, <2>3 DEF Remembers
  <2> QED BY <1>6, <2>2, <2>3 DEF Receives, Misses
<1>7. CASE Located(v, w)
  BY <1>7 DEF Located, SameLoop, SameMail, Remembers
<1>8. CASE Served(v, w)
  <2>1. /\ w.pc = v.pc /\ w.current = v.current /\ w.target = v.target /\ w.near = v.near
        /\ w.ahead = v.ahead /\ w.pose = v.pose /\ w.in = v.in /\ v.req # <<>>
        /\ Head(v.req) = v.req[1]
    BY <1>1, <1>8 DEF Served, SameLoop, SameFloor
  <2>2. PICK m \in Message : w.resp = Append(v.resp, m) /\ Answers(v, w, m)
    BY <1>8, <2>1 DEF Served, Answers
  <2>3. /\ Len(w.resp) = Len(v.resp) + 1 /\ w.resp[Len(v.resp) + 1] = m
        /\ \A i \in 1..Len(v.resp) : w.resp[i] = v.resp[i]
    BY <1>1, <2>2, QueueGrows
  <2>4. Reminds(m, w.near)
    <3>1. m.type = "reroute" => Head(m.nodes) = w.near
      BY <2>1, <2>2, AnswersRight
    <3> QED BY <3>1 DEF Reminds
  <2>5. \A i \in 1..Len(w.resp) : i \in 1..Len(v.resp) \/ i = Len(v.resp) + 1
    BY <1>1, <2>3
  <2> QED BY <2>1, <2>3, <2>4, <2>5 DEF Remembers
<1>9. CASE Swept(v, w)
  <2>1. /\ w.pc = v.pc /\ w.current = v.current /\ w.target = v.target /\ w.near = v.near
        /\ w.ahead = v.ahead /\ w.in = v.in
    BY <1>9 DEF Swept, SameLoop, SameFloor
  <2>2. PICK m \in Message :
          w.resp = Append(v.resp, m) /\ m.type = "reroute" /\ m.nodes = w.st.route
    BY <1>9 DEF Swept
  <2>3. /\ Len(w.resp) = Len(v.resp) + 1 /\ w.resp[Len(v.resp) + 1] = m
        /\ \A i \in 1..Len(v.resp) : w.resp[i] = v.resp[i]
    BY <1>1, <2>2, QueueGrows
  <2>4. Reminds(m, w.near)
    <3>1. HasRoute(v.st) /\ v.st.reserved_end = v.st.index /\ Anew(w.st, CurrentNode(v.st))
      BY <1>9 DEF Swept
    <3>2. w.near = w.st.route[1]
      BY <2>1, <3>1, UsedUpStaysRight
    <3> QED BY <2>2, <3>2 DEF Reminds, Message
  <2>5. \A i \in 1..Len(w.resp) : i \in 1..Len(v.resp) \/ i = Len(v.resp) + 1
    BY <1>1, <2>3
  <2> QED BY <2>1, <2>3, <2>4, <2>5 DEF Remembers
<1> QED BY <1>3, <1>4, <1>5, <1>6, <1>7, <1>8, <1>9 DEF Steps, Quiet

AllRemember == \A r \in Robot : Remembers(View(r))

\* A robot that remembers where it is asks from there.
LEMMA MemoryAsks ==
  ASSUME Orderly, OnFloor, AllRemember
  PROVE  AsksFromWhereItIs
<1> SUFFICES ASSUME NEW r \in Robot, fsm[r].pc = "route"
             PROVE  pos[r] = <<fsm[r].current, fsm[r].current>>
  BY DEF AsksFromWhereItIs, At
<1> DEFINE v == View(r)
<1>1. /\ v.pc = "route" /\ v.current = fsm[r].current
      /\ v.near = pos[r][1] /\ v.ahead = pos[r][2]
  BY DEF View
<1>2. Floor(v) /\ Remembers(v)
  BY DEF OnFloor, AllRemember
<1> HIDE DEF v
<1>3. v.near = v.ahead /\ v.current = v.near
  BY <1>1, <1>2 DEF Floor, StandsStill, Remembers, Rolling
<1>4. pos[r] = <<pos[r][1], pos[r][2]>>
  <2>1. pos[r] \in Node \X Node
    BY DEF Orderly, TravelTypes
  <2> QED BY <2>1
<1>5. pos[r][1] = fsm[r].current /\ pos[r][2] = fsm[r].current
  BY <1>1, <1>3
<1> QED BY <1>4, <1>5

LEMMA MemoryNext ==
  ASSUME Spots = {}
  PROVE  Orderly /\ OnFloor /\ AllRemember /\ [TravelNext]_vars => AllRemember'
<1> SUFFICES ASSUME Orderly, OnFloor, AllRemember, [TravelNext]_vars PROVE AllRemember'
  OBVIOUS
<1>1. TravelTypes /\ IInv /\ TravelTypes' /\ IInv' /\ obstacle = {}
  BY OrderlyNext DEF Orderly, TravelTypes
<1>2. \/ \A q \in Robot : View(q)' = View(q)
      \/ \E x \in Robot : Only(x) /\ Steps(x, View(x), View(x)')
  BY <1>1, EveryStep
<1>3. ASSUME NEW r \in Robot PROVE Remembers(View(r)')
  <2> DEFINE v == View(r)
             w == View(r)'
  <2>1. v \in Views /\ w \in Views /\ Sound(v.st) /\ Sound(w.st)
    BY <1>1, StepViews
  <2>2. Protocol(v) /\ Floor(v) /\ Remembers(v)
    BY DEF Orderly, OnFloor, AllRemember
  <2>3. w = v \/ Steps(r, v, w)
    BY <1>2 DEF Only
  <2> HIDE DEF v, w
  <2>4. Remembers(w)
    BY <1>1, <2>1, <2>2, <2>3, StepsRemember
  <2> QED BY <2>4 DEF w
<1>4. \A r \in Robot : Remembers(View(r))'
  BY <1>3
<1> QED BY <1>4 DEF AllRemember

\* Without obstacles every robot asks from where it is, and so the theorems above
\* hold with nothing supposed of its memory.
LEMMA MemoryAlways ==
  ASSUME Spots = {}
  PROVE  TravelSpec => []AsksFromWhereItIs
<1>1. TravelInit => AllRemember
  <2> SUFFICES ASSUME TravelInit, NEW r \in Robot PROVE Remembers(View(r))
    BY DEF AllRemember
  <2>1. /\ View(r).pc = "rest" /\ View(r).current = Home[r] /\ View(r).near = Home[r]
        /\ View(r).resp = <<>>
    BY DEF TravelInit, View
  <2> QED BY <2>1 DEF Remembers
<1>2. Orderly /\ OnFloor /\ AllRemember => AsksFromWhereItIs
  BY MemoryAsks
<1>3. Orderly /\ OnFloor /\ AllRemember /\ [TravelNext]_vars => Orderly' /\ OnFloor' /\ AllRemember'
  BY MemoryAsks, OrderlyNext, FloorNext, MemoryNext
<1> QED BY <1>1, <1>2, <1>3, TravelStarts, PTL DEF TravelSpec

\* So without obstacles, whatever is given up, lost or aborted, a robot with a
\* route has reserved the ground it is on, and is never displaced.
THEOREM ReservedWithoutObstacles ==
  ASSUME Spots = {}
  PROVE  TravelSpec => []FootprintReserved
  BY MemoryAlways, ReservedUnderfoot, PTL

THEOREM NotDisplacedWithoutObstacles ==
  ASSUME Spots = {}
  PROVE  TravelSpec => NeverDisplaced
  BY MemoryAlways, NotDisplaced, PTL

\* Nor do two robots meet then, if they start at homes of their own.
THEOREM KeptApartWithoutObstacles ==
  ASSUME HomesOwn, Spots = {}
  PROVE  TravelSpec => [](HomesFree => Separated)
  BY MemoryAlways, KeptApart, PTL

-----------------------------------------------------------------------------
(* Failures.                                                               *)

\* Something is on its way to a robot that waits for an answer.
ToCome(v) ==
  v.pc \in {"routeAsked", "segmentAsked", "blockedAsked"} =>
    v.in # NoMessage \/ v.req # <<>> \/ v.resp # <<>>

LEMMA StepsToCome ==
  ASSUME NEW x \in Robot, x \notin Loses, NEW v \in Views, NEW w \in Views,
         ToCome(v), Steps(x, v, w)
  PROVE  ToCome(w)
<1>1. v.req \in Seq(Request) /\ v.resp \in Seq(Message)
  BY DEF Views
<1>2. CASE Thinks(x, v, w)
  BY <1>2 DEF Thinks, Goes, ToCome
<1>3. CASE Requests(v, w)
  <2>1. \E q \in Request : w.req = Append(v.req, q)
    BY <1>3 DEF Requests
  <2>2. w.req # <<>>
    BY <1>1, <2>1
  <2> QED BY <2>2 DEF ToCome
<1>4. CASE Rolls(v, w) \/ Located(v, w)
  BY <1>4 DEF Rolls, Located, SameLoop, SameMail, ToCome
<1>5. CASE Receives(v, w)
  <2>1. w.in \in Message
    BY <1>1, <1>5 DEF Receives
  <2>2. w.in # NoMessage
    BY <2>1 DEF Message, NoMessage
  <2> QED BY <2>2 DEF ToCome
<1>6. CASE Misses(x, v, w)
  BY <1>6 DEF Misses
<1>7. CASE Served(v, w) \/ Swept(v, w)
  <2>1. \E m \in Message : w.resp = Append(v.resp, m)
    BY <1>7 DEF Served, Swept
  <2>2. w.resp # <<>>
    BY <1>1, <2>1
  <2> QED BY <2>2 DEF ToCome
<1> QED BY <1>2, <1>3, <1>4, <1>5, <1>6, <1>7 DEF Steps, Quiet

\* A robot whose calls are not preempted has one route request under way at most,
\* and waits until its answer has come.
RouteWait == {"routeAsked", "routeSleep"}

RouteAsked(v) ==
  \A i \in 1..Len(v.req) : v.req[i][1] = "route" => i = Len(v.req) /\ v.pc \in RouteWait

\* There is one answer to it, and reroutes alone come after it.
RouteTold(v) ==
  /\ \A i \in 1..Len(v.resp) : v.resp[i].type = "route" =>
       /\ v.pc \in RouteWait /\ v.req = <<>>
       /\ \A j \in (i + 1)..Len(v.resp) : v.resp[j].type = "reroute"
       /\ v.pc = "routeAsked" => v.in.type # "route"
  /\ v.in.type = "route" =>
       /\ v.pc \notin {"segmentAsked", "blockedAsked"}
       /\ v.pc = "routeAsked" =>
            v.req = <<>> /\ \A i \in 1..Len(v.resp) : v.resp[i].type = "reroute"

OneRoute(v) == RouteAsked(v) /\ RouteTold(v)

\* So do its messages, delivered or lost.
LEMMA MessagesOneRoute ==
  ASSUME NEW x \in Robot, NEW v \in Views, NEW w \in Views, OneRoute(v),
         Receives(v, w) \/ Misses(x, v, w)
  PROVE  OneRoute(w)
<1>1. v.req \in Seq(Request) /\ v.resp \in Seq(Message) /\ Len(v.req) \in Nat /\ Len(v.resp) \in Nat
  BY DEF Views
<1>2. w.pc = v.pc
  BY DEF Receives, Misses, SameLoop
<1>3. CASE v.resp # <<>> /\ w.resp = Tail(v.resp) /\ w.req = v.req
           /\ (w.in = Head(v.resp) \/ w.in = v.in)
  <2>1. /\ Len(w.resp) \in Nat /\ Len(v.resp) = Len(w.resp) + 1 /\ Head(v.resp) = v.resp[1]
        /\ \A i \in 1..Len(w.resp) : w.resp[i] = v.resp[i + 1]
    BY <1>1, <1>3, QueueShrinks
  <2>2. 1 \in 1..Len(v.resp) /\ \A i \in 1..Len(w.resp) : i + 1 \in 1..Len(v.resp)
    BY <2>1
  <2>3. RouteAsked(w)
    BY <1>1, <1>2, <1>3 DEF OneRoute, RouteAsked
  <2>4. RouteTold(w)
    BY <1>1, <1>2, <1>3, <2>1, <2>2 DEF OneRoute, RouteTold, RouteWait
  <2> QED BY <2>3, <2>4 DEF OneRoute
<1>4. CASE v.req # <<>> /\ w.req = Tail(v.req) /\ w.resp = v.resp /\ w.in = v.in
  <2>1. /\ Len(w.req) \in Nat /\ Len(v.req) = Len(w.req) + 1
        /\ \A i \in 1..Len(w.req) : w.req[i] = v.req[i + 1]
    BY <1>1, <1>4, QueueShrinks
  <2>2. \A i \in 1..Len(w.req) : i + 1 \in 1..Len(v.req)
    BY <2>1
  <2>3. RouteAsked(w)
    BY <1>1, <1>2, <1>4, <2>1, <2>2 DEF OneRoute, RouteAsked
  <2>4. RouteTold(w)
    BY <1>1, <1>2, <1>4, <2>1, <2>2 DEF OneRoute, RouteTold, RouteWait
  <2> QED BY <2>3, <2>4 DEF OneRoute
<1> QED BY <1>3, <1>4 DEF Receives, Misses

\* So do the manager's answers.
LEMMA ServedOneRoute ==
  ASSUME NEW v \in Views, NEW w \in Views, OneRoute(v), Served(v, w)
  PROVE  OneRoute(w)
<1>1. v.req \in Seq(Request) /\ v.resp \in Seq(Message) /\ Len(v.req) \in Nat /\ Len(v.resp) \in Nat
  BY DEF Views
<1>2. PICK m \in Message :
        /\ w.resp = Append(v.resp, m)
        /\ m.type = "route" => Head(v.req)[1] = "route"
  BY DEF Served, AnswersRoute, AnswersSegment, AnswersBlocked, Wait, IsSegment
<1>3. w.pc = v.pc /\ w.in = v.in /\ v.req # <<>> /\ w.req = Tail(v.req)
  BY DEF Served, SameLoop
<1>4. /\ Len(w.req) \in Nat /\ Len(v.req) = Len(w.req) + 1 /\ Head(v.req) = v.req[1]
      /\ \A i \in 1..Len(w.req) : w.req[i] = v.req[i + 1]
      /\ w.req \in Seq(Request)
  BY <1>1, <1>3, QueueShrinks
<1>5. /\ Len(w.resp) = Len(v.resp) + 1 /\ w.resp[Len(v.resp) + 1] = m
      /\ \A i \in 1..Len(v.resp) : w.resp[i] = v.resp[i]
  BY <1>1, <1>2, QueueGrows
<1>6. 1 \in 1..Len(v.req) /\ \A i \in 1..Len(w.req) : i + 1 \in 1..Len(v.req)
  BY <1>4
<1>7. m.type = "route" => v.pc \in RouteWait /\ w.req = <<>>
  <2> SUFFICES ASSUME m.type = "route" PROVE v.pc \in RouteWait /\ w.req = <<>>
    OBVIOUS
  <2>1. v.pc \in RouteWait /\ Len(v.req) = 1
    BY <1>2, <1>4, <1>6 DEF OneRoute, RouteAsked
  <2>2. Len(w.req) = 0
    BY <1>4, <2>1
  <2> QED BY <1>4, <2>1, <2>2
<1>8. \A i \in 1..Len(v.resp) : v.resp[i].type # "route"
  BY <1>3 DEF OneRoute, RouteTold
<1>9. v.pc = "routeAsked" => v.in.type # "route"
  BY <1>3 DEF OneRoute, RouteTold
<1>10. RouteAsked(w)
  BY <1>3, <1>4, <1>6 DEF OneRoute, RouteAsked
<1>11. RouteTold(w)
  BY <1>1, <1>3, <1>5, <1>7, <1>8, <1>9 DEF OneRoute, RouteTold
<1> QED BY <1>10, <1>11 DEF OneRoute

\* So do all other steps.
LEMMA StepsOneRoute ==
  ASSUME NEW x \in Robot, x \notin Preemptable, NEW v \in Views, NEW w \in Views, OneRoute(v),
         Steps(x, v, w)
  PROVE  OneRoute(w)
<1>1. v.req \in Seq(Request) /\ v.resp \in Seq(Message) /\ Len(v.req) \in Nat /\ Len(v.resp) \in Nat
  BY DEF Views
<1>2. CASE Thinks(x, v, w)
  <2>1. w.st = v.st /\ w.req = v.req /\ w.resp = v.resp /\ w.in = v.in
    BY <1>2 DEF Thinks, SameMail
  <2>2. SettledView(v) => v.req = <<>> /\ Len(v.req) = 0 /\ Len(v.resp) = 0
    BY DEF SettledView
  <2>3. NoMessage.type = "none"
    BY DEF NoMessage
  <2>4. RouteAsked(w)
    BY <1>1, <1>2, <2>1, <2>2, <2>3 DEF OneRoute, RouteAsked, RouteTold, Thinks, Goes, RouteWait
  <2>5. RouteTold(w)
    BY <1>1, <1>2, <2>1, <2>2, <2>3 DEF OneRoute, RouteTold, Thinks, Goes, RouteWait
  <2> QED BY <2>4, <2>5 DEF OneRoute
<1>3. CASE Requests(v, w)
  <2>1. PICK q \in Request :
          /\ w.req = Append(v.req, q)
          /\ \/ v.pc = "route" /\ q[1] = "route" /\ w.pc = "routeAsked"
             \/ v.pc = "segment" /\ q[1] = "segment" /\ w.pc = "segmentAsked"
             \/ v.pc = "blocked" /\ q[1] = "blocked" /\ w.pc = "blockedAsked"
    BY <1>3 DEF Requests, Goes
  <2>2. w.resp = v.resp /\ w.in.type = "none"
    BY <1>3 DEF Requests, NoMessage
  <2>3. /\ Len(w.req) = Len(v.req) + 1 /\ w.req[Len(v.req) + 1] = q
        /\ \A i \in 1..Len(v.req) : w.req[i] = v.req[i]
    BY <1>1, <2>1, QueueGrows
  <2>4. RouteAsked(w)
    BY <1>1, <2>1, <2>3 DEF OneRoute, RouteAsked, RouteWait
  <2>5. RouteTold(w)
    BY <1>1, <2>1, <2>2 DEF OneRoute, RouteTold, RouteWait
  <2> QED BY <2>4, <2>5 DEF OneRoute
<1>4. CASE Rolls(v, w) \/ Located(v, w)
  <2>1. w.req = v.req /\ w.resp = v.resp /\ w.in = v.in /\ w.pc = v.pc
    BY <1>4 DEF Rolls, Located, SameLoop, SameMail
  <2> QED BY <2>1 DEF OneRoute, RouteAsked, RouteTold
<1>5. CASE Swept(v, w)
  <2>1. PICK m \in Message : w.resp = Append(v.resp, m) /\ m.type = "reroute"
    BY <1>5 DEF Swept
  <2>2. w.pc = v.pc /\ w.in = v.in /\ w.req = v.req
    BY <1>5 DEF Swept, SameLoop
  <2>3. /\ Len(w.resp) = Len(v.resp) + 1 /\ w.resp[Len(v.resp) + 1] = m
        /\ \A i \in 1..Len(v.resp) : w.resp[i] = v.resp[i]
    BY <1>1, <2>1, QueueGrows
  <2> QED BY <1>1, <2>1, <2>2, <2>3 DEF OneRoute, RouteAsked, RouteTold
<1> QED BY <1>2, <1>3, <1>4, <1>5, MessagesOneRoute, ServedOneRoute DEF Steps, Quiet

\* Then it does not fail, except by a drive that does.
LEMMA StepsFail ==
  ASSUME NEW x \in Robot, x \notin Loses \cup Breaks, NEW v \in Views, NEW w \in Views,
         OneRoute(v), ToCome(v), v.pc # "failed", Steps(x, v, w)
  PROVE  w.pc # "failed"
<1>1. CASE Thinks(x, v, w)
  <2>1. v.pc = "segmentAsked" => v.in.type # "route"
    BY DEF OneRoute, RouteTold
  <2>2. v.pc = "segmentAsked" => ~(v.in = NoMessage /\ SettledView(v))
    BY DEF ToCome, SettledView
  <2> QED BY <1>1, <2>1, <2>2 DEF Thinks, Goes
<1>2. CASE Requests(v, w)
  BY <1>2 DEF Requests, Goes
<1> QED BY <1>1, <1>2 DEF Steps, Quiet, Rolls, Receives, Misses, Served, Located, Swept, SameLoop

\* A robot that loses no message, whose drives do not fail and whose calls are not
\* preempted has not failed.
Faulty == Loses \cup Breaks \cup Preemptable

Unfailing ==
  \A r \in Robot \ Faulty : OneRoute(View(r)) /\ ToCome(View(r)) /\ ~At(r, "failed")

LEMMA UnfailingAlways == TravelSpec => []Unfailing
<1>1. TravelInit => Unfailing
  <2> SUFFICES ASSUME TravelInit, NEW r \in Robot
               PROVE  OneRoute(View(r)) /\ ToCome(View(r)) /\ ~At(r, "failed")
    BY DEF Unfailing
  <2>1. /\ View(r).pc = "rest" /\ fsm[r].pc = "rest" /\ View(r).in.type = "none"
        /\ Len(View(r).req) = 0 /\ Len(View(r).resp) = 0
    BY DEF TravelInit, View, NoMessage
  <2> QED BY <2>1 DEF OneRoute, RouteAsked, RouteTold, ToCome, At
<1>2. Orderly /\ Unfailing /\ [TravelNext]_vars => Unfailing'
  <2> SUFFICES ASSUME Orderly, Unfailing, [TravelNext]_vars PROVE Unfailing'
    OBVIOUS
  <2>1. TravelTypes /\ IInv /\ TravelTypes' /\ IInv'
    BY OrderlyNext DEF Orderly
  <2>2. \/ \A q \in Robot : View(q)' = View(q)
        \/ \E x \in Robot : Only(x) /\ Steps(x, View(x), View(x)')
    BY <2>1, EveryStep
  <2>3. ASSUME NEW r \in Robot, r \notin Faulty
        PROVE  OneRoute(View(r)') /\ ToCome(View(r)') /\ ~At(r, "failed")'
    <3> DEFINE v == View(r)
               w == View(r)'
    <3>1. v \in Views /\ w \in Views
      BY <2>1, StepViews
    <3>2. OneRoute(v) /\ ToCome(v) /\ v.pc # "failed"
      BY <2>3 DEF Unfailing, At, View
    <3>3. w = v \/ Steps(r, v, w)
      BY <2>2 DEF Only
    <3>4. w.pc = fsm'[r].pc
      BY DEF View
    <3> HIDE DEF v, w
    <3>5. OneRoute(w) /\ ToCome(w) /\ w.pc # "failed"
      BY <2>3, <3>1, <3>2, <3>3, StepsToCome, StepsOneRoute, StepsFail DEF Faulty
    <3> QED BY <3>4, <3>5 DEF w, At
  <2>4. \A r \in Robot \ Faulty : OneRoute(View(r))' /\ ToCome(View(r))' /\ ~At(r, "failed")'
    BY <2>3
  <2> QED BY <2>4 DEF Unfailing
<1> QED BY <1>1, <1>2, OrderlyAlways, PTL DEF TravelSpec

\* A robot ends in ERROR by a lost message, a failed drive or a preempted call
\* (travel.py:63-64) only: a cancelled call, a reroute that crosses a request and
\* an answer that is overwritten do not make it fail.
THEOREM OnlyFaultsFail ==
  TravelSpec => [](\A r \in Robot : At(r, "failed") => r \in Loses \cup Breaks \cup Preemptable)
<1>1. Unfailing => \A r \in Robot : At(r, "failed") => r \in Loses \cup Breaks \cup Preemptable
  BY DEF Unfailing, Faulty
<1> QED BY <1>1, UnfailingAlways, PTL

\* So where nothing is lost and no drive fails, only a robot whose calls may be
\* preempted fails.
THEOREM NoneFails ==
  ASSUME Loses = {}, Breaks = {}
  PROVE  TravelSpec => []NeverFails
<1>1. Unfailing => NeverFails
  BY DEF Unfailing, Faulty, NeverFails
<1> QED BY <1>1, UnfailingAlways, PTL

=============================================================================
