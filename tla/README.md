# Verification of the S_Mart warehouse robots

S_Mart runs a small warehouse with two mobile robots (AMR_1, AMR_2). Customers
order over a web server, a task manager turns orders and arriving goods into
transport tasks, a fleet manager hands the tasks to robots, each robot runs a
mission state machine, and a traffic manager keeps the robots apart on a graph
of 25 nodes. This directory holds a TLA+ model of that system, what the model
checker TLC says about it on small instances, and what the proof system TLAPS
proves about it for all instances.

Paths below are relative to `src/src/S_Mart/`, except `server/`, `client/` and
`firmware/`, which are directories of `src/`.

## 1. The system

| Component | State | Operations | Talks to |
|---|---|---|---|
| Node graph, router (`traffic_manager/graph.py`, `router.py`) | none beyond the call | adjacency, edge cost, direction; Dijkstra's search with blocked nodes, blocked edges and penalties | called by the traffic manager |
| Traffic manager (`traffic_manager/traffic.py`) | route, index, reserved window, laden, waiting, escape end of every robot; table of reservations; holds; blocked nodes | `set_route`, `next_segment`, `update_position`, `report_obstacle`, `unblock`, `resolve_deadlock` | called by the traffic node |
| Traffic node (`traffic_manager/traffic_node.py`) | blocks announced to the GUI | callbacks of `/traffic/request`, `/traffic/pose`, `/traffic/unblock`, a timer of 0.5 s | answers on `/traffic/response_<id>` |
| Travel loop (`robot_fsm/travel.py`) | place in the loop, last node, segment; the one slot for answers; the recoveries nav2 reports | ask for a route, for segments, drive, watch the drive, report an obstacle, give up for a cancel or an assignment | traffic node, nav2 |
| Mission loop (`robot_fsm/robot_fsm.py`, `states.py`) | state, queue of assignments, cancel flag, current mission and node | run a mission, cancel it empty or laden, chain, return home, report, publish the status | fleet manager, task manager, travel loop, work |
| Work (`robot_fsm/work.py`, `fork.py`, firmware) | lift position, last lift state | dock, lift, lower, undock | dock controller, lift |
| Localisation start-up (`robot_fsm/amcl_init.py`) | none beyond the call | turn until the particle filter has converged | AMCL |
| Fleet manager (`fleet_manager/fleet_manager_node.py`) | last status and last use of every robot; rows of `tasks`, `orders`, `locations` | assign a task, handle the four task reports | task manager, robots, database |
| Task manager (`task_manager/task_manager_node.py`) | pickup deadlines by gate; rows of `tasks`, `orders`, `locations` | create outbound, inbound and reclaim tasks, propagate cancels, expire pickups | database notifications, detectors, fleet manager, robots |
| Order server (`server/app/main.py`) | rows of `orders` and `locations` | create and cancel orders, list stock, notify web clients | database |
| Operator GUI (`smart_gui/`) | what it shows | lift a block, cancel an order, ask for a reclaim | database, traffic node, task manager |
| Pallet detectors (`ai_detector/`) | per gate: candidate and confirmed state, since when | publish inbound, placed and cleared events | task manager |
| Human detector, stop condition (`human_detector/`, `smart_bt_plugins/`) | last frame, `_hold`, time of the last detection; the gate's `hold_active_` | publish `/human_stop` ten times a second; a condition in nav2's behaviour tree halts `FollowPath` | camera, nav2 |
| Dock controller (`aruco_docking/dock_controller_node.py`) | state of the docking manoeuvre, filtered marker pose | work dock, home dock, undock as blocking services, a control step | robot FSM, base |
| ArUco estimator, web client, bringup and simulation | - | vision mathematics, pages, launch files | - |

Who runs concurrently. The traffic node is single-threaded: its callbacks and
its timer are atomic towards each other. A robot has a mission thread, which
blocks in the travel loop and in work, and callbacks for assignments, cancels,
answers and lift states that write fields the mission thread reads. The task
manager handles database notifications on a second thread. All messages are ROS
topics without acknowledgement, and most of them carry no identifier.

What is hard in it, and therefore what the properties are about:

* A robot's position is known in three places: the floor, the manager's index,
  and the robot's own `self.current`. Each lags behind the other.
* The reservation of nodes is the only thing that keeps the robots apart, and
  five operations write it together with the windows of the routes.
* Deadlocks are found and resolved by a timer that changes routes while the
  robots ask for their next segment; the answers are unsolicited messages.
* A customer may cancel at any moment of a mission: before, during and after
  the pallet is on the fork; the robot reports where it left the pallet, and
  the database believes it.
* Orders, tasks and robots are tied together by identifiers that only some of
  the messages carry.
* A docking, a fork command and a drive are calls with three ends: the answer,
  the time-out of the caller, and the state the callee is left in.
* A lift command is acknowledged by two heartbeats, MOVING and AT, which may be
  lost and which do not say what command they are about.
* The person stop is a chain of camera, recogniser, message and behaviour tree,
  in which each link fails for a while and the camera for good.

What makes each component correct: the router returns a cheapest route if there
is one; the manager's tables agree and no node belongs to two robots; the robots
stay apart, on the floor, and get where they are sent; a mission ends delivered,
cancelled or failed and its report is true; an order's status agrees with its
task and with the pallet; a docking
call that succeeds has docked, and every call ends; the fork never enters a dock
at a wrong height; a person in view stops the robot, and nobody's absence holds
it; a gate is reported empty only after it has been empty for a while. The last
one belongs to the detectors, whose debouncing is not modelled.

## 2. The modules

| Module | Models | EXTENDS |
|---|---|---|
| `WarehouseGraph` | the graph, and what the router promises: the set of cheapest routes | community modules |
| `Router` | the search itself, one popped heap entry per step | `WarehouseGraph` |
| `Interlocking` | the abstract promise of the traffic manager | - |
| `Traffic` | traffic manager and traffic node | `WarehouseGraph` |
| `Travel` | both robots' travel loops, the topics, and the floor, composed with `Traffic` | `Traffic` |
| `Mission` | one robot's mission loop, its callbacks, and the fleet as its environment | - |
| `OrderLife` | the abstract promise about an order | - |
| `Orders` | order server, task manager, fleet manager over the database, with robots, pallets, customers and gates around them | community modules |
| `DockService` | the abstract promise of the docking services to the mission | - |
| `Docking` | the dock controller: its states, its filtered pose, its services and their caller | - |
| `Handling` | the abstract promise of a pick or a place to the mission | - |
| `Work` | the sequences of a pick, a place and a home docking, the lift, and their messages, on top of `DockService` | - |
| `HumanStop` | human detector, condition node, behaviour tree, and the leg the FSM drives | - |
| `TrafficProofs` | theorems: the manager's tables, and that it implements `Interlocking` | `Traffic`, `Extrema` |
| `MissionProofs` | theorems: empty offers, true reports, declared transitions | `Mission` |
| `TravelProofs` | theorems: the ground under a robot is reserved, robots stay apart, only faults make one fail | `Travel`, `TrafficProofs` |
| `OrdersProofs` | theorems: types and locks, however long messages take; `Orders` implements `OrderLife`, pickups are timed, and the tables agree with the floor | `Orders`, `Extrema` |
| `DockingProofs` | theorems: one driver, and that the controller implements `DockService` | `Docking` |
| `WorkProofs` | theorems: arrivals, heights, and that work implements `Handling` | `Work` |
| `HumanStopProofs` | theorems: the bound within which a person stops the robot | `HumanStop` |
| `Extrema` | facts about bounded sets of numbers, `Max` and `Min`, induction stated for a set, and facts about lists | community modules |
| `MCTraffic`, `MCRouter`, `MCTravel`, `MCMission`, `MCOrders` | instances for TLC | the module they instantiate |

The composition. `Travel` puts robots on top of the full `Traffic`. `Work`
instantiates `DockService` in place of the dock controller, and `Docking` is
shown to implement it. `Work` in turn is shown to implement `Handling`, which is
what `Mission` assumes when its fork work ends or fails as a whole. `Traffic` is
shown to implement `Interlocking`, and `Orders` `OrderLife`.

### Traffic

A callback of the node is an operator on the manager's state `s` that returns
the set of its outcomes, the new state and the reply; there is more than one
outcome only where the router may choose between equally cheap routes. The
operators carry the names of the methods: `OnRouteRequest` is the branch `route`
of `_on_request` with `set_route`, `OnSegmentRequest` is `next_segment`,
`OnBlockedRequest` is `report_obstacle`, `OnPose` is `update_position`,
`Arbitrate` and `YieldEarly` are the two halves of `resolve_deadlock`. Indices
count from 1 instead of 0, `escape_end = 0` stands for `None`, and a robot
without a `RobotState` has the empty route.

The sweep of the timer is a loop over pairs of robots and then over single ones;
it is one step per iteration and no other callback runs in between (`Idle`), so
that a property can look between two iterations. Its `reroute` messages are
sent after the loop in the code and with their iteration in the model; with two
robots this makes no difference, since a sweep reroutes at most one of them.

`Traffic` alone lets every robot send any request from any node at any time;
`Travel` replaces this by the robots the repository has.

### Travel

`_travel` is a control point per robot (`route`, `routeAsked`, `segment`, ...).
Requests and answers are queues; the callback `_on_response` keeps only the
last message (`inbox`) and `_transact` clears it before it asks, so an answer to
an earlier request may be taken for the one that is awaited. A robot is at a
node or on an edge; nav2 drives it from a node to any neighbour that is nearer to
the end of the segment (on the straight run that a segment is, the next node is
the only one) and AMCL
publishes a pose when it reaches a node, which the manager handles some time
later. What a robot does after a trip is decided by its mission loop; in this
module it is a constant list of trips, and `GiveUp` is a cancel or a preemption at
one of the four places where `_travel` looks at its flags: the cancel at the head
of either loop (`travel.py:55` and `70`), the waiting assignment at the head of the
segment loop (`72`) and, without a second's sleep, when a request for a route was
not answered by a route (`63`). Only a call with `preempt`, the way home, is
preempted; `Cancels` are the robots whose calls may be cancelled.

Timing is abstracted to four assumptions, each far from its limit in the code:
messages arrive within the second of `time.sleep(1.0)` between two attempts,
within a drive over a segment of at least 0.30 m, and within the seconds of nav2
recoveries and of work between two trips (`Settled`); and when the timer is due
again, half a second after the last sweep (`traffic_node.py:51`), nothing is on its
way any more but the one request or answer a robot waits for (`Due`): what the last
sweep told a robot has arrived, and whatever the robot asked across it has been
answered. The last one is needed: were a message on its way over several sweeps,
routes of a preempted call could be answered one after another while the robot has
left on the first, and TLC finds `FootprintReserved` violated. Nothing else is assumed
of the order of events; the reroutes of a sweep may cross requests and answers.

### Mission

The mission thread is a control point; a travel call is a walk of at most two
segments with the results of `_travel`, and fork work ends or fails as a whole.
The start is that of a headless robot: `_auto_init` brings up the position
by itself (`InitSpin`, `InitDone`) while assignments may already come. The
callbacks of assignments and cancels, and the status timer, run between any
two steps. The fleet is the environment: it hands out a mission when the last
status it saw is idle, and revokes an outbound mission until it has heard
`target_done`. `item` is a history variable: where each pallet really is. Two more
are fields: a report keeps in `of` the mission it was sent in, which no message
carries but which is the one that the fleet takes for `target_done` (the last
assignment of the robot), and `books.astray` are the cancels that came when their
mission was not `Running`, or were left in the flag by a failed mission.

### Docking and DockService

`ctl` is the state of the controller with the fields its steps read: the
sub-phase of PREALIGN, whether the robot docks backwards, what is left to drive
by odometry, and which of the two estimates of the heading is used. The control
step is one action per branch of `_prealign_step`, `_approach_step`,
`_servo_step` and so on; `Stalls` and `TimesOut` are the checks in front of
them. Where the robot is, is known by class: which way it faces, in which of the
bands of the lateral tolerances it is, and how deep. A pose sets the filters to
the class of the moment, and between two poses the robot moves on, so that every
comparison of the code is made with the class of an earlier moment. Turns and
drives by odometry end in the class they aim at or in the next one. Time passes
in ticks, the unit of the time-outs; `clock` holds the two clocks of the code,
of the call and of the phase. `GiveUp` is the caller's, `_call_trigger`, and
`Travels` is the robot moved by nav2 when nobody waits for the controller. What
is modelled is the controller with `enable_prealign` at its default, true.

### Work and Handling

`fsm.todo` is the rest of the steps of a piece of work, in the order of `_work`
and `_home_dock` with the heights of `fork.py`; `fsm.seen` and `fsm.last` are
`_fork_moving_seen` and `_fork_state`. The lift is the firmware's: a command
sets the target and reports MOVING, the move reports AT, and heartbeats repeat
the state. A command is one slot, states are a queue of at most `MaxChan`. The
docking services take any course that `DockService` allows, a call without an
answer included. The pallet changes places when a lift in the dock passes from
under it to off the floor or back (`Carried`).

### HumanStop

Time is counted in ticks of the detector. `due` holds what a tick waits for: a
live camera delivers a frame, and a running gate is ticked, at least once
between two ticks of the detector (the tree runs at 100 Hz, the detector at 10
Hz). A person may be overlooked in `MaxMiss` frames in a row and `MaxLoss`
messages in a row may be lost; the subscription is best-effort. The detector is
the three branches of `_tick`, and `Restart` forgets all its memory. The tree is
the path through `smart_navigate.xml`: plan, gate, `FollowPath`, recover by
waiting, abort after `Retries`. The FSM drives one leg at a time: a `segment` is
`_nav_monitored`, which cancels its goal after `RecoveryBlock` recoveries, a
`turn` is `_nav_to`, which stops waiting after 120 s and leaves its goal alone.
The stop covers `FollowPath` and nothing else: the dock controller commands the base
itself and does not listen to `/human_stop`, so a docking or undocking robot is not
stopped for a person, and no property says so. A goal that replaces one that still
runs starts the tree anew in the model (`SendGoal`), where nav2 lets the running tree
go on to the new goal; no property depends on it.

### Orders

The variables are the tables (`orders`, `tasks`, `shelves`), the memory of the
managers (`deadlines`, `seen`, `last_used`), the messages by channel, and the
world: `robots`, and `floor`, the number of pallets at every place, which no
process of the code knows. A handler of the code is an action of the same name:
it is one transaction and its messages leave with it, as the code commits before
it publishes and sends notifications inside the transaction. `TaskRestart` is a
restart of the task manager, which forgets the pickup deadlines that run; the
orders it forgets are in `untimed`, and there is one such restart (the guard
`untimed = {}`). `OperatorCancels` is the GUI's button, which changes the table
as the server's `cancel_order` does. Notifications of
the database are one queue because the task manager listens on one connection.
A robot is what the fleet sees of `Mission`: an assignment is taken from its
queue, a cancel is obeyed at the boundary of a segment or after the pick, and
not in PLACE, whose report is `target_done` in any case; `source_arrived` only
stamps a time.

A channel in `Lagging` may take any time. The other ones are prompt: what they
carry is handled before a robot, a customer or a clock makes its next step, and
a robot is known to be busy before the next task is assigned. For topics and
notifications that is the normal case (milliseconds against seconds). For
`detection` it is not: the detector of an outbound gate waits for `clear_frames`
empty frames, 2 s, before it publishes `cleared`, and a deadline of 30 s may pass in
them. Nothing in the code enforces any of it; section 5 says what depends on it.

Choices. One product. The oldest stock, the first free shelf by name, the first
free gate and the robot that has rested longest are taken, as in the code; a time
of arrival is a rank. Batteries are
charged and robots do not fail. The customer takes a pallet only when the order
is awaiting pickup. A pallet that is set down or lifted is seen by the detector
of the gate at once, and the pallet that lies there is what `cleared` is about.

## 3. What the runs check

| Run | Question | Bounds |
|---|---|---|
| `Traffic` | do the manager's tables agree, and does it implement the interlocking, whatever is asked? | 4 nodes around the junction N9, 2 robots, at most one announced block (`OneBlock`); about 112,000 states |
| `Router` | does the search return a cheapest route for every query? | 6 nodes in two columns with the penalty edge, every start, goal, at most one blocked node, one blocked edge, two penalised nodes; about 236,000 states |
| `TravelFaults` | do they stay apart when messages are lost, calls cancelled and preempted, drives fail, and an obstacle comes? | the 9 nodes of the east wing; AMR_1 goes home, is cancelled or preempted for a trip to a gate, AMR_2 comes the other way, loses messages and fails drives; obstacle on N9, which can be bypassed from N4; about 1.5 million states |
| `TravelHeal` | do they take no message for the wrong answer, do blocks heal themselves and standoffs end? | safety and liveness, the same wing, a meeting at the gates, obstacle on N10, nobody cancelled or preempted; about 140,000 states |
| `Mission` | does a mission end, truthfully reported, whatever cancels and failures come? | two outbound missions, failures possible; about 90,000 states |
| `Orders` | do orders, tasks, stock and locks agree with the floor, and do orders end? | safety and liveness; 3 orders, 3 shelves of which 2 are full, 2 gates, 2 robots, one arrival, one restart of the task manager, the last order may be cancelled, reclaim requests may lag; about 414,000 states |
| `Docking` | does the controller keep `DockService`, drive only for a caller, and end its calls? | time-outs of 1 to 3 ticks whose sum is below the caller's 8; about 35,000 states |
| `Work` | does work end, moved and at the right heights, when messages to and from the lift are lost? | both levels, two states on their way; about 5,100 states |
| `HumanStop` | does a person stop the robot, and does nobody's absence hold it? | one missed frame and one lost message in a row, one restart; release after 3 ticks, 2 recoveries until blocked of 3 until aborted; about 268,000 states |
| `TravelStale`, `OrdersGate`, `HumanBlind` | section 5 | |

Why the bounds are enough for the cases of interest. The `Traffic` instance has
a junction with three arms, so that there are routes that share a node, routes
that meet head-on, an arm to escape into, detours that exist and that do not,
and every operation with every reply; the theorems of section 4 lift its safety
results to all instances. The east wing of `Travel` is the piece of the real map
with the single aisle N24-N19-N14-N9-N4 between the homes and the gates, the
forbidden edge and the penalty edge: there the robots must meet, and a robot can
only get out of the way into a bay. `Router` has cycles, a penalty edge and
penalised nodes, so that entries of the heap become stale. In `Orders` an order
finds no gate or no stock, a robot has an order waiting at a gate while it
carries the next one, orders expire, are cancelled before and after they are
assigned and in PLACE, and an arrival comes to a free shelf. In `Docking` every
phase may run into its own time-out, into the one of the whole docking, and to
its end, and its caller into the one of the call, in either order. In `Work` a
move starts from each of the four heights, and the state of the move before the
last may still be on its way. In `HumanStop` the release is longer than a run of
missed frames, so that a person may be overlooked without being let go, and
recoveries may end in `blocked`, in an abort (a turn), and in success. Every
action of every module fires in the passing runs.

Properties, by hazard:

* Tables. `WindowsReserved`: a node is reserved for exactly the robot whose
  window it is in. `NoFalsePass`: no node is twice in a window, so that a pose
  never skips a part of the route, escapes included. `EarlyHasNext` and
  `WaitingOnNext`: the sweep, which lists the waiting robots first and changes
  routes while it visits them, never reads past the end of a route, because a robot
  marked as waiting is not at its end and has used up its window. The mark may be out
  of date in that the next node is free again, which the sweep looks at itself
  (`traffic.py:407-408`).
  `BlockedIsAnnounced`: a block that stops robots can be seen. The GUI has a button
  to remove it if its kind is `reroute`; the other kinds heal by themselves, or by
  a message on `/traffic/unblock` sent by hand.
* Interlocking. `IsInterlocking`: each operation is a step of `Interlocking`,
  one robot's held nodes change, to nodes nobody else holds. `OnlyRequestsDisplace`:
  only a route request can move a robot, in the tables, out of its window.
  `NeverDisplaced`: the robots as programmed never do that either.
* Floor. `Separated`: the robots are never at, or on an edge to, the same node.
  `FootprintReserved`: where a robot is, it holds, however the index lags.
  A robot that has no route yet holds nothing (it stands in its home bay).
* Messages. `NeverFails`: no unsolicited reroute makes a robot fail whose calls are
  not preempted; section 5 has what happens to one that is.
* Progress. `NobodyStaysStuck`: once the obstacles are gone no robot stays in
  front of a block, or face to face with a robot that waits, although nobody
  lifts a block and holds and escapes come in between; and for the router
  `Returns`.
* Missions. `OfferedEmpty`: a robot that says it is idle has an empty fork.
  `ReportTellsWhere`: the pallet is where the fleet takes it to be: that of the order
  which a report of cancel names at its source, that of the mission that ran at its
  target after `target_done`. `CancelObeyed`: a cancel of the mission that runs, before
  its pallet is on the way to the target, ends with a report of cancel that names its
  order, unless the mission fails or another cancel overwrites the flag. Neither
  promises anything of a cancel that went astray (section 5).
  `EveryMissionEnds`: assignments are not lost.
  `DeclaredTransitions`: no interleaving leaves the declared transition table,
  which the code would only log.
* Orders. `IsOrderLife`: the status, which four handlers of two processes and
  the server write, goes the ways of `OrderLife`; a cancelled order stays so.
  `StockIsReal`, `NoPileUp`, `NeverEmptyHanded`: the tables agree with the floor.
  `ReservedByOpenTask`: the lock of a shelf is handed from task to task and never
  left behind. `AwaitingIsTimed`: an order at a gate is timed, which the header of
  the task manager names as the incident that moved the clock there; only a
  restart of the task manager breaks it. `EveryOrderEnds`: orders that were
  accepted end, and so do their tasks, unless such a restart forgot them.
* Router. `ReturnsCheapest`: lazy deletion of heap entries loses nothing.
  `SettledIsCheapest` states the invariant behind it and is kept for the proof.
* Docking. `IsDockService`: a success means that the robot is in the dock (or
  parked, or out), although every decision is taken on an older pose and the
  last stretch is driven blind. `OneDriver`: once the caller has given up, the
  controller no longer drives, so that it and nav2 never both command the base.
  `CallsEnd`: a call ends but for the one case of section 5.
* Work. `LiftAgrees`: what the FSM takes for the end of a command is not the
  state of an earlier one. `ForkFits`: the fork never runs into a pallet,
  whichever step failed before. `IsHandling`: work that ends well has moved the
  pallet. `EveryWorkEnds`: nothing that is lost makes work wait for ever.
* Person. `HaltedForPerson`: a person has stopped the robot after a bounded number
  of ticks, and keeps it stopped. `EveryLegEnds`: once nobody is in view and the
  camera works, no gate stays closed, after restarts and lost messages either.

For every property a mutant of a definition is kept beside it in the module
(comment "Mutant:"): a plausible mistake at that place of the code, which makes
the property fail under the run's configuration.

Deadlock is checked except in `Router`, whose call ends, and in `Orders`, where
nothing need happen when all orders have ended. In `HumanStop` and `Docking` the
surroundings can always move, so that it says little there: that `due` and the
clock stop nothing is what `EveryLegEnds` and `CallsEnd` show.

### Fairness

`Travel`: the mission thread of each robot, including the drive by nav2, its
answer callback and the manager's callbacks are weakly fair, since each is an
executor or a thread that runs for ever; the handlers of requests and poses are
strongly fair because they alternate with sweeps, which a single-threaded
executor serves in turn. The timer fires again and again and a sweep, a loop
over finite lists, ends. Nothing is assumed of the environment: obstacles,
operators, losses and failures need not happen. `NobodyStaysStuck` makes the
absence of obstacles an explicit hypothesis. `Mission`: the mission thread is weakly
fair, so travel and work calls return; that travel calls do is what the
liveness run of `Travel` is about, and the livelock of section 5 is its
limit. `Router`: the call runs on. `Orders`: the two managers and the robots run
on, robots publish their status every second, and deadlines pass; customers
need not order, cancel or pick up.

`Docking`: the control timer and the loop of the service are weakly fair, the
clock ticks again and again (strongly fair, since control steps come in
between); nothing is assumed of the marker or of the caller. `Work`: the mission
thread, the lift's loop and the callbacks are weakly fair, a docking that has
ended is answered and one that has not is given up; the time-out of a fork
command is strongly fair, because the wait it ends is renewed by no message and
heartbeats only interleave with it. `HumanStop`: frames, detector, tree, results
and the FSM's monitor are weakly fair; that `FollowPath` arrives, or fails in
front of an obstacle, is strongly fair, because the gate interrupts it again and
again; people, obstacles and cameras do as they like, and `EveryLegEnds` makes
the absent person and the live camera an explicit hypothesis.

## 4. What is proved

Every theorem is about the specification that the runs check, for all values of
its constants that satisfy the named assumptions. The assumptions are evaluated
by TLC in the runs, and hold for `nodes.yaml`, `locations.yaml` and the
parameters in the code.

| Component | Theorem | States | For every |
|---|---|---|---|
| Traffic | `TypeCorrect`, `TablesAgree`, `WaitingCorrect`, `SweepCorrect` | `TypeOK`, `WindowsReserved`, `WaitingOnNext`, `EarlyHasNext` | graph, set of robots, and order of requests, poses, operator commands and sweep steps |
| | `WindowsMeetNoneTwice`, `BlocksAreShown` | `NoFalsePass`, `BlockedIsAnnounced` | |
| | `DisplacedByRequest` | `OnlyRequestsDisplace` | |
| | `Refinement` | `IsInterlocking`: `Traffic` implements `Interlocking` | |
| Mission | `TypeCorrect`, `IdleIsEmpty`, `ReportsAreTrue` | `TypeOK`, `OfferedEmpty`, `ReportTellsWhere` | missions, places and cancels, with failures or without |
| | `RightNames` | a cancel that did not go astray names the mission that it ends, from the flag to the report | |
| | `OnlyDeclared` | `DeclaredTransitions` | |
| Travel | `ManagerUnderway` | `TrafficSpec`: all the above holds while robots drive | homes, itineraries, cancelled and preempted calls, losses, failed drives, obstacles |
| | `ReservedUnderfoot`, `NotDisplaced` | `FootprintReserved`, `NeverDisplaced` | the same, as long as `AsksFromWhereItIs` |
| | `KeptApart` | `Separated` | the same, with homes of their own (`HomesOwn`, `HomesFree`) |
| | `ReservedWithoutObstacles`, `NotDisplacedWithoutObstacles`, `KeptApartWithoutObstacles` | the same three | the same without obstacles (`Spots = {}`), and nothing supposed |
| | `OnlyFaultsFail`, `NoneFails` | a robot that fails may lose messages, fail drives or be preempted; `NeverFails`, where nothing is lost and no drive fails | the same, with obstacles |
| Orders | `TypeCorrect`, `NoLockLeft` | the types, `ReservedByOpenTask` | orders, shelves, gates, robots, and delay of every channel |
| | `OrdersGoTheirWay` | `IsOrderLife`: `Orders` implements `OrderLife` | orders, shelves, gates, robots, cancels, while only reclaim requests lag |
| | `NoOrderWaitsUntimed` | `AwaitingIsTimed` | the same |
| | `StockStaysReal`, `NothingPilesUp`, `NobodyComesEmpty` | `StockIsReal`, `NoPileUp`, `NeverEmptyHanded` | the same, as long as `GatesAsPromised` |
| Docking | `TypeCorrect`, `DrivenByOne` | `TypeOK`, `OneDriver` | choice of time-outs |
| | `Refinement` | `IsDockService`: `Docking` implements `DockService` | |
| Work | `TypeCorrect`, `ArrivalsAgree`, `ForkFitsDock` | `TypeOK`, `LiftAgrees`, `ForkFits` | set of levels, number of states on their way, with losses or without |
| | `Refinement` | `IsHandling`: `Work` implements `Handling` | |
| Person | `TypeCorrect`, `StopsForPerson` | `TypeOK`, `HaltedForPerson` | release time, number of misses and of losses in a row, and limits on recoveries |

The theorem `Invariant` of a module is the inductive invariant behind the others
of that module. Each invariant was first checked by TLC on the instance of the
run.

The assumptions.

* `GraphAssumption`: finitely many nodes, one per cell of the grid.
  `RobotAssumption`: robots are positive numbers, which the comparison of ids by
  `resolve_deadlock` needs. `StopAssumption`: missions end at nodes.
* `MissionAssumption`: missions are numbers, they begin and end at places, and no
  place is the one that stands for none.
* `OrdersAssumption`: orders are finitely many numbers, the lists of shelves, gates
  and robots, whose order the code uses, name each of them once, and no shelf is a
  gate. `PromptButReclaims`, a hypothesis of the theorems about the order's life:
  `Lagging` is a subset of `{"reclaim"}`. It is needed, and not for the proof's
  sake: section 5 lists the channels that break `IsOrderLife` and
  `AwaitingIsTimed` when they lag.
* `GatesAsPromised`, a hypothesis of the theorems about the stock: no two open
  outbound tasks have the same gate, which is what the comment on the choice of a
  gate says (`task_manager_node.py:582`). The code does not keep it, and
  `OrdersGate` shows what follows. What the theorems say is that this promise is all
  that is missing: wherever it is kept, the stock is real. In the run `Orders`, where
  only the last order may be cancelled, it is kept.
* `TimeoutAssumption`: the time-outs of the phases of a docking sum up to less
  than the caller's. In the code 40 + 5 + 15 + 20 s against 90 s.
* `WorkAssumption`: the rack has a first level and at most a second one.
* `HumanAssumption`: one detection suffices, and fewer frames are missed in a row
  than it takes to release. If not, a person in view is let go.

Why the properties alone do not suffice, component by component.

**Traffic.** An index is in range only because `1 <= index <= reserved_end <=
Len(route)` (`WindowInRoute`), a release is harmless only because the table agrees
with the windows (`ReservedIsWindow`), and the sweep finds the next node of a
robot only because a waiting robot is not at its end and has used up its window
(`StuckIfWaiting`), of which it depends on the robots still to be visited
(`EarlyHasNext`). `IInv` is their conjunction. The lemmas follow the code: routes
returned by the router begin where they were asked to; each of the primitives that
write the tables (`InstallRoute`, `ReserveForward`, `Advance`, the block list)
keeps `Core` and touches one robot; each callback is a `Turn` of one robot built
from them; each step is a turn. The refinement falls out of turns: a turn changes
one robot's window to nodes that, because the table has one owner per node, nobody
else holds. `NoFalsePass` adds geometry to it: a window is a straight run of the
route, on which the cell moves one further in one direction with every edge, or
an escape, which is a simple walk.

**Travel.** A robot is known in five places: the manager's state of it, its own
loop, the queues between the two, its pose and the floor. A *view* is the record
of all five, each step of `TravelNext` is one of eight kinds of change of one
robot's view (`Steps`), and all the invariants are about one view; the two robots
meet only in the manager, whose invariant comes from `TrafficProofs` through
`ManagerUnderway`. There are three layers. `Protocol` says which requests and
answers may still be on their way at each place of the loop: a route that is asked
for is asked while the robot stands and waits, and a report of an obstacle comes
from a robot that has not moved since. A call that is preempted while it asks for
its route leaves the answer behind (`travel.py:63-64`), and the next call may take
it for its own. Its own is then still to come while it asks for segments; what
comes in before that are only answers to requests of routes and at most one
reroute of a sweep (`RouteAwaited`, `ToldLast`, `TakenLast`, `RouteFirst`): while
a sweep goes on there is at most one route on its way to a robot, the next thing
it takes in (`Sweepable`). `Floor` ties a view to the ground: the robot is within
its window, on a straight run from the index on and not behind the segment it was
told to drive (`InWindow`), the index has caught up once its poses are handled
(`Localised`), and whatever segment is on its way ends on the same run
(`SegmentsHold`). That a drive stays on the route is geometry: on a straight run a
neighbour nearer to its end is the next node (`NearerIsAhead`).
`FootprintReserved` follows since the manager's table agrees with the windows, and
`Separated` from it as one node has one owner; a robot without a route is at its
home, hence the hypotheses about homes.

`Floor` is inductive only while a route is asked for from where the robot is
(`AsksFromWhereItIs`). This is no artefact: `TravelStale` is a run in which it
fails, and with it `FootprintReserved`. The third layer, `Remembers`, shows that
it never fails without obstacles, whatever is cancelled, preempted, lost or
overwritten, because the robot then stops at ends of segments only and each
reroute names the node it is at. With obstacles TLC finds it true as well when no
trip is cancelled (`TravelStale.cfg` with `Cancels = {}`); that is not proved,
because it takes more than the loop: a reroute that is lost must not have been to
the node the robot is on, which depends on the routes an escape may take.
`Unfailing` says of a robot that loses no message, whose drives do not fail and
whose calls are not preempted that whatever it waits for is on its way (`ToCome`)
and that a route comes in only where it waits for one (`OneRoute`).

**Mission.** What is reported stays true because a mission is run once: it is in
the queue, or under way, or reported (`Once`), and its pallet does not move before
it is picked (`Unmoved`) nor while it is on no fork (`Carried`). `States` ties the
declared state to the point of the program. That reports are under the right order
takes `Names`: a cancel that has not gone astray names the mission under way
(`Flagged`), so does the robot on its way back with the pallet (`Returning`), and so
does the report (`Named`).

**Orders, the locks.** `TablesOK` ties each lock to an open task with that shelf
as its source or target, for whatever message arrives and whenever it does; the
rest is types, of which the robots' queues and the rows of the tables are needed
because the handlers copy places between them.

**Orders, the life.** The status is written by the server, the task manager and
the fleet manager, each of which relies on what the others have not done
meanwhile. The invariant `LifeInv` has two layers. The board says what holds
between the tables, the robots that have work or a report on its way (`live`), and
the orders to be reclaimed: an order has one outbound task (`OneTask`), which is
pending, carried or ended according to its status (`Stage`); a robot with work
carries a task whose order is not yet at a gate (`Loads`); an order to be reclaimed
is cancelled, and at its gate (`Reclaims`); no two orders under way or waiting have
the same gate (`Apart`). It is stated over bound variables, so that there is one
lemma for each thing that happens to it: a status changes, a task is created,
assigned, done, aborted. The second layer reads the board from the state and adds
the messages and the clocks: prompt messages come one at a time (`NetOK`), a
message still says the truth when it is handled (`News`), a robot has one errand,
which it gets when it is seen idle (`RobotsOK`), whom it was told to stop for is
cancelled and its own (`MarksOK`), and a clock runs where an order waits (`Timed`).
TLC checked `LifeInv` with two orders and with three that may all be cancelled
(2.4 million states), which is more than the run of the component does.

**Orders, the stock.** The tables are written when a robot reports, and the floor
changes when it picks up or puts down, so neither tells about the other while a
robot is under way. `StockInv` puts a ledger between them. `Where` tells for each
open task where its pallet lies: at the source while the task waits or its robot
is on the way there, on a fork (`Nowhere`) while the robot carries it, at the
target once the report is on its way, at the gate while the order waits, gone once
the message that the gate is empty is on its way. `Books` says that every open task
has a locked shelf and a gate of its own, that what an order takes is in stock, and
that one pallet at most waits at the inbound gate; `Counted` that a place holds a
pallet exactly when a task's pallet lies there, or it is an unlocked shelf with a
product. The robots have the places of their task, and its pallet once they have
been at its source (`Errands`); an assigned task without a robot has brought its
pallet to a gate (`AtDoor`), from which only a waiting order's pallet goes
(`Collected`). There are a few things that can happen to a ledger: a pallet is lifted
or put down, one comes, a task is booked, assigned, settled, or taken over by a
reclaim task, and each has a lemma over bound variables. Every handler and every
move of a robot is then one of them. The promise about the gates is used in one
place only, where an order is given its gate. TLC checked `StockInv` on the instance
of the run, and up to the first breach of the promise with more cancels.

**Docking.** `OneDriver` needs that the controller is done before its caller gives
up: `Durations` bounds, state by state, how long the call and the phase have run,
and `Awaits` concludes that only a SERVO out of time outlives its caller. That a
success means docked needs the pose: the filter is set to a class of an earlier
moment and the robot has moved on since, but no longer once the class is near
enough for the hand-off (`PoseIsTrue`); from there `ByOdometry` says what is left to
drive, and `Facing` and `NotTooNear` that the marker could be seen.

**Work.** The lift's messages do not say what command they are about. `Messages`
distinguishes three stages of a command by what may be on its way: nothing has
begun (the states of before), it moves (no arrival after a move), it has arrived
(only arrivals after an arrival). `Outline` says for each step that may be next
what is left to do and where lift, robot and pallet are.

**Person.** The stop is followed from the camera to the wheels: whoever is in view
for longer than he was overlooked is held for (`Held`), what has been held for
longer than messages are lost has been heard (`Told`), and what was heard keeps
the gate closed (`HaltedForPerson`).

Only model-checked, and why:

* liveness (`NobodyStaysStuck`, `CancelObeyed`, `EveryMissionEnds`,
  `EveryOrderEnds`, `CallsEnd`, `EveryWorkEnds`, `EveryLegEnds`, `Returns`): beyond
  the prover;
* `Router`: `ReturnsCheapest`. What `WalksBetween` enumerates is defined by
  recursion; the proofs about `Traffic` use only its filter, which says that its
  members are walks between the two nodes.

## 5. Where the code and its comments disagree

Three runs end in a counterexample to something the repository says:

* `TravelStale`. `travel.py:69,73` says that a travel call is given up only at
  the boundary of a segment, on a node. It may also be given up after a drive
  that was stopped by an obstacle and answered by `wait`: `self.current` is then
  the node at which the segment began. The next route is asked for from there,
  `_install_route` releases the node the robot stands on, and the other robot
  may be sent into it. It takes an obstacle without a bypass and a cancelled trip:
  `TravelFaults`, with both kinds of fault but an obstacle that can be bypassed,
  passes.
* `HumanBlind`. `human_detector_node.py:178` says that the stop is kept when no
  frame comes, for a lost camera is dangerous. With the default camera, a topic,
  `_read_frame` returns the last frame there ever was: a camera that fails is
  noticed only before its first frame, and a robot that saw nobody then drives
  on blind.
* `OrdersGate`. `task_manager_node.py:582` says that a gate is occupied while an
  outbound task under way is bound for it. The query below it looks at the order,
  which the server cancels at once, and not at the task. A robot that is past the
  last boundary of a segment still puts the pallet at the gate, and until its
  report is handled the gate is given to the next order: two pallets, one gate.
  In `Orders`, where only the last order may be cancelled, `NoPileUp` holds. For
  every number of orders and places `NothingPilesUp` proves it as long as no two
  open outbound tasks have the same gate, which is just what the code fails to see to.

What rests on prompt messages. With `Orders.cfg` and one channel in `Lagging`
instead of `"reclaim"`, TLC finds (the middle column tells how it begins):

| Channel | What goes wrong | Violated |
|---|---|---|
| `new_task` | the status of an idle robot makes the fleet assign the task before `/new_task` arrives, which assigns it again (`_try_assign`, "pending task를 ... 할당", never looks at the status) | `NeverEmptyHanded`, `StockIsReal`, `NoPileUp`, `AwaitingIsTimed`, `IsOrderLife` |
| `status` | a robot that has an assignment still counts as idle: the same, without a late message | `NeverEmptyHanded`, `StockIsReal`, `NoPileUp` |
| `report` | `target_done` is taken for a task that was assigned after it was sent, an order awaits pickup that is still on its shelf, and is reclaimed | `NeverEmptyHanded`, `StockIsReal`, `NoPileUp` |
| `detection` | a deadline passes when the pallet is gone and `cleared` is on its way | `NeverEmptyHanded`, `StockIsReal`, `NoPileUp` |
| `notify` | an order that is cancelled before its task is created is processed again | `IsOrderLife`, `StockIsReal` |
| `cancel` | a cancel that arrives after PLACE aborts the robot's next mission, the reclaim, in the name of the order, and unlocks the shelf | `StockIsReal` |
| `reclaim` | nothing | none |

Found while modelling, without a run of its own. In traffic and travel:

* `traffic.py:73-76,139-141` says that the winner of an arbitration always gets
  ahead. The hold ends when the winner reaches the vacated node, before it has
  reserved its way on, and the loser may reserve it first. Under fair scheduling
  and without faults two robots (AMR_1 from N5 to N25, AMR_2 from N20 to N10) can
  exchange their roles for ever. Each single standoff ends (`NobodyStaysStuck`).
* A reroute by the timer that crosses a refused route is dropped
  (`travel.py:59-66`); the next route request wipes the escape while the hold
  stays, and the robot that is held stands in the winner's way until the next
  sweep.
* A call that is preempted while it asks for its route ends at once
  (`travel.py:63-64`), with the answer still on its way. If a reroute by the timer
  crosses the request of a robot in RETURNING that has an assignment, the next call
  takes the old `route` for its own, and its own comes in for a segment:
  `travel.py:100-102` return `failed`, and the robot is in ERROR with nothing lost
  and no drive failed. `NeverFails` and the theorems about failures therefore
  except the robots in `Preemptable`. It takes three calls of AMR_1 (`Empty(25)`,
  cancelled where it waits, `Returning(25)`, `Empty(10)`), one more than in
  `TravelFaults`; with them TLC finds the failure after 47 steps, and the properties
  of `TravelFaults` hold as before (3.3 million states).
* A manager that is restarted answers `wait` for ever to robots that are in the
  segment loop; a reset from ERROR keeps the robot's reservations.
* `_nav_to` gives up after 120 s (`travel.py:177`) without cancelling its goal:
  the robot may still be driven while its FSM is in ERROR. `_nav_monitored` does
  not look at the answer to its cancel.
* A cancel on the way home makes `_return_home` dock where it is, since it treats
  every result but `failed` and `preempted` as arrival.

In missions and orders:

* `robot_fsm.py:215,339` says that a report of cancel names the order of the task
  it ends. Nobody compares the order of a cancel with the running mission: one
  for an assignment that is still queued, or one left over from a mission that
  failed, aborts the running mission, under its own order. A cancel that overwrites
  another is reported in its place. `books.astray` keeps the cancels that came for
  another mission than the one under way and those that were left over;
  `ReportTellsWhere` and `CancelObeyed` go by the order in the report and hold but
  for those, and for a mission whose cancel was overwritten.
* An order without stock or without a gate is put off and never looked at again
  (`_create_outbound_task`).
* The operator's reclaim button may be used on an order that awaits pickup or is
  cancelled, and `_on_reclaim_request` looks at no status: with the button as a
  further action of `Orders`, `StockIsReal`, `NoPileUp` and `NeverEmptyHanded` are
  violated, for either kind of order.
* A fleet manager that is restarted takes every robot for idle and assigns to it
  (`_check_pending` in `__init__`): with this as a further action the same three
  properties are violated.
* `inbound_detector` promises one task for one object: an object that is
  exchanged for another within `clear_frames`, or a restart, is one task too few
  or too many. Its camera, like the human detector's, is the last frame for ever.

In docking, work and the person stop:

* The docstring of `_enter_servo` promises that SERVO is not left as LOST at
  once; a SERVO without a pose never ends at all. The FSM gives up after 90 s
  and the controller refuses every further call until it sees the marker
  (`CallsEnd` names the exception).
* The control timer is in a re-entrant callback group under a multi-threaded
  executor: two control steps may overlap. The model takes a step as atomic.
* The docstring of `_fork` says that a command of no distance also brings MOVING
  and AT. The firmware's `run_move` does nothing at the target: such a command
  ends by its time-out, and the work in ERROR. No sequence of `fork.py` sends
  one unless the fork was left at another height than 2, as it may be after a
  reset from ERROR.
* `_set_work_target_y` warns that the value is unset, 0, when the one of the
  last dock is still in force.
* The human detector publishes false when it starts, and so with a person in
  view; the robot may be let go for the ticks until the first detection, which
  is why `HaltedForPerson` counts from the restart on.

## 6. What is not modelled

Not yet: a restart of the fleet manager (it breaks `Orders` as section 5 says),
notifications that are sent while the task manager is down, batteries and
failing robots in `Orders`; the GUI's reclaim button; the deletion of accounts;
the debouncing of the gate detectors; a dock controller with `enable_prealign`
off; overlapping control steps. `Mission` and `Orders` are not composed: a
robot in `Orders` is what the fleet sees of one.

Not at all, for want of a protocol to check: vision and control mathematics, the
convergence of AMCL, the ArUco estimator, web and GUI pages, launch files and
parameters, logging. In the modelled components: `manual_go` and the other
terminal commands of the robot FSM, which a headless start does not have;
metres, radii and headings, which are grid cells, directions and classes here;
and the order of names by which the router breaks ties, for which every equally
cheap route may be returned.

## 7. Plan

Proofs that are left, in the order of what they would add to the runs:

1. `Travel`: `AsksFromWhereItIs` with obstacles, when no trip is cancelled.
2. `Router`: `SettledIsCheapest`, as far as it needs no induction over paths.

Modelling that is left: the gate detectors; a module that puts `Mission` in place
of the robots of `Orders`; restarts of the other managers.
