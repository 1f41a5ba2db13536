------------------------------- MODULE Orders -------------------------------
(***************************************************************************)
(* The life of an order: the order server, the task manager and the fleet  *)
(* manager over their common database (main.py, task_manager_node.py,      *)
(* fleet_manager_node.py), with the robots that carry the pallets, the     *)
(* customers and the gate detectors around them.                           *)
(*                                                                         *)
(* Every handler is one transaction and one step.  Between the processes   *)
(* there are database notifications and topics; a channel in Lagging may   *)
(* take any time, while whatever the others carry is handled before a      *)
(* robot, a customer or a clock makes its next step.                       *)
(*                                                                         *)
(* There is one product, so any pallet will do for any order.  All robots  *)
(* have a battery that is charged and none fails.  What a robot does is    *)
(* Mission seen from the fleet: it takes an assignment, is cancelled on    *)
(* the way, or puts the pallet down.                                       *)
(***************************************************************************)
EXTENDS Naturals, SequencesExt

CONSTANTS
  Order,      \* order ids, in the order in which they are placed
  Shelves,    \* the storage locations, in the order of their names
  Gates,      \* the outbound gates, in the order in which they are taken
  Robots,     \* the robots, in the order of ROBOT_IDS
  Stock,      \* the shelves that are full at the start
  Cancels,    \* the orders that may be cancelled
  Arrivals,   \* bound: the number of pallets that come to the inbound gate
  Lagging     \* the channels that may lag

NoOrder == 0
NoTask == 0
NoRobot == "no robot"
Inbound == "IN-1"
Shelf == ToSet(Shelves)
Gate == ToSet(Gates)
Robot == ToSet(Robots)
Place == Shelf \cup Gate \cup {Inbound}
Channel == {"notify", "new_task", "status", "report", "reclaim", "cancel", "detection"}

ASSUME OrdersAssumption ==
  /\ IsFiniteSet(Order) /\ Order \subseteq Nat \ {NoOrder}
  /\ Shelves \in Seq(Shelf) /\ Gates \in Seq(Gate) /\ Robots \in Seq(Robot)
  /\ Shelf \cap Gate = {} /\ Inbound \notin Shelf \cup Gate
  /\ IsInjective(Shelves) /\ IsInjective(Gates) /\ IsInjective(Robots) /\ NoRobot \notin Robot
  /\ Stock \subseteq Shelf /\ Cancels \subseteq Order
  /\ Arrivals \in Nat /\ Lagging \subseteq Channel

VARIABLES
  orders,     \* [Order -> status]; "none" until it is placed
  tasks,      \* the rows of tasks; the id of a task is its position
  shelves,    \* per shelf: inbound_at (0 without a product), reserved_by
  deadlines,  \* per gate: the order whose pickup time runs, or NoOrder
  untimed,    \* the orders whose pickup time a restart has forgotten
  seen,       \* per robot: the status the fleet manager has seen last
  last_used,  \* the robots, the one that has rested longest first
  net,        \* the messages on their way, by channel
  robots,     \* per robot: what it does, see below
  floor,      \* the number of pallets at every place
  arrived     \* the number of pallets that have come

vars == <<orders, tasks, shelves, deadlines, untimed, seen, last_used, net, robots, floor, arrived>>
database == <<orders, tasks, shelves>>
memory == <<deadlines, untimed, seen, last_used>>   \* of the two managers
world == <<robots, floor, arrived>>

Task(type, order, source, target) ==
  [type |-> type, status |-> "pending", robot |-> NoRobot, assigned_at |-> 0,
   order |-> order, source |-> source, target |-> target]

Waiting == [pc |-> "idle", source |-> Inbound, target |-> Inbound, loaded |-> FALSE,
            cancel |-> NoOrder, oid |-> NoOrder, queue |-> <<>>]

\* The stock at the start was brought in the order of the shelves.
Position(s) == CHOOSE i \in 1..Len(Shelves) : Shelves[i] = s

Init ==
  /\ orders = [o \in Order |-> "none"]
  /\ tasks = <<>>
  /\ shelves = [s \in Shelf |-> [inbound_at |-> IF s \in Stock THEN Position(s) ELSE 0,
                               reserved_by |-> NoTask]]
  /\ deadlines = [g \in Gate |-> NoOrder] /\ untimed = {}
  /\ seen = [r \in Robot |-> "idle"]
  /\ last_used = Robots
  /\ net = [c \in Channel |-> <<>>]
  /\ robots = [r \in Robot |-> Waiting]
  /\ floor = [p \in Place |-> IF p \in Stock THEN 1 ELSE 0]
  /\ arrived = 0

-----------------------------------------------------------------------------
(* Messages.                                                               *)

Status(r) == IF robots[r].pc = "idle" THEN "idle" ELSE "busy"

\* All messages are handled that do not lag.
Handled == \A c \in Channel \ Lagging : net[c] = <<>>

\* No robot is taken for idle that has an assignment, unless its status lags.
BusyIsKnown ==
  "status" \in Lagging \/
    \A r \in Robot : seen[r] = "idle" => robots[r].pc = "idle" /\ robots[r].queue = <<>>

\* The world may make a step.
Quiet == Handled /\ BusyIsKnown /\ ("status" \in Lagging \/ \A r \in Robot : seen[r] = Status(r))

\* A message is put on a channel, is the next one of it, and is taken off.
Send(n, channel, m) == [n EXCEPT ![channel] = Append(@, m)]
Taken(channel) == [net EXCEPT ![channel] = Tail(@)]
Received(channel, m) == net[channel] # <<>> /\ m = Head(net[channel])

-----------------------------------------------------------------------------
(* The tables.                                                             *)

Ids == 1..Len(tasks)
IsOpen(t) == tasks[t].status \in {"pending", "assigned"}

\* The latest outbound task of an order, NoTask if it has none.
OutboundTask(o) == Max({t \in Ids : tasks[t].type = "outbound" /\ tasks[t].order = o} \cup {NoTask})

\* Mutant: without the pallets to be fetched.
OccupiedGatesByOrders ==
  {tasks[t].target : t \in {u \in Ids : /\ tasks[u].type = "outbound"
                                        /\ orders[tasks[u].order] \in {"processing", "awaiting_pickup"}}}

\* The gate of an order on its way or at the gate, or of a pallet to be fetched.
OccupiedGates ==
  {tasks[t].target : t \in {u \in Ids : /\ tasks[u].type = "outbound"
                                        /\ orders[tasks[u].order] \in {"processing", "awaiting_pickup"}}}
  \cup {tasks[t].source : t \in {u \in Ids : tasks[u].type = "reclaim" /\ IsOpen(u)}}

\* The order that waits at gate g; its latest task counts.
AwaitingAt(g) ==
  LET waiting == {t \in Ids : /\ tasks[t].type = "outbound" /\ tasks[t].target = g
                              /\ orders[tasks[t].order] = "awaiting_pickup"}
  IN  IF waiting = {} THEN NoOrder ELSE tasks[Max(waiting)].order

\* The first element of seq that is in S.
FirstOf(seq, S) == seq[Min({i \in 1..Len(seq) : seq[i] \in S})]

IsFull(s) == shelves[s].inbound_at # 0
IsLocked(s) == shelves[s].reserved_by # NoTask
Filled == [inbound_at |-> 1 + Max({shelves[s].inbound_at : s \in Shelf}), reserved_by |-> NoTask]
Emptied == [inbound_at |-> 0, reserved_by |-> NoTask]
Close(ts, t, status) == [ts EXCEPT ![t].status = status]
Unreserve(s) == [shelves EXCEPT ![s].reserved_by = NoTask]
Reserve(s, t) == [shelves EXCEPT ![s].reserved_by = t]

-----------------------------------------------------------------------------
(* The order server.                                                       *)

CreateOrder(o) ==
  /\ Quiet
  /\ orders[o] = "none" /\ \A p \in Order : p < o => orders[p] # "none"
  /\ orders' = [orders EXCEPT ![o] = "pending"]
  /\ net' = Send(net, "notify", <<"new_order", o>>)
  /\ UNCHANGED <<tasks, shelves, memory, world>>

Cancelled(o) ==
  /\ Quiet
  /\ orders[o] \in {"pending", "processing"}
  /\ orders' = [orders EXCEPT ![o] = "cancelled"]
  /\ net' = Send(net, "notify", <<"order_cancelled", o>>)
  /\ UNCHANGED <<tasks, shelves, memory, world>>

CancelOrder(o) == o \in Cancels /\ Cancelled(o)

\* db_link.py: the operator's button goes the same way.
OperatorCancels(o) == o \in Cancels /\ Cancelled(o)

-----------------------------------------------------------------------------
(* The task manager.                                                       *)

\* _create_outbound_task; without stock or a free gate the order stays pending.
CreateOutbound(o) ==
  LET stock == {s \in Shelf : IsFull(s) /\ ~IsLocked(s)}
      free  == Gate \ OccupiedGates
      id    == Len(tasks) + 1
  IN  /\ Received("notify", <<"new_order", o>>)
      /\ IF stock = {} \/ free = {}
           THEN net' = Taken("notify") /\ UNCHANGED database
           ELSE LET s == CHOOSE s \in stock :
                           \A u \in stock : shelves[s].inbound_at <= shelves[u].inbound_at
                IN  /\ tasks' = Append(tasks, Task("outbound", o, s, FirstOf(Gates, free)))
                    /\ orders' = [orders EXCEPT ![o] = "processing"]
                    /\ shelves' = Reserve(s, id)
                    /\ net' = Send(Taken("notify"), "new_task", id)
      /\ UNCHANGED <<memory, world>>

\* _arm_pickup_timer
ArmPickupTimer(o) ==
  /\ Received("notify", <<"awaiting_pickup", o>>)
  /\ deadlines' = IF OutboundTask(o) = NoTask THEN deadlines
                  ELSE [deadlines EXCEPT ![tasks[OutboundTask(o)].target] = o]
  /\ net' = Taken("notify")
  /\ UNCHANGED <<database, untimed, seen, last_used, world>>

\* _on_order_cancelled: a task that waits is closed, one that runs is stopped.
OnOrderCancelled(o) ==
  LET t == OutboundTask(o)
  IN  /\ Received("notify", <<"order_cancelled", o>>)
      /\ \/ /\ t # NoTask => ~IsOpen(t)
            /\ net' = Taken("notify") /\ UNCHANGED database
         \/ /\ t # NoTask /\ tasks[t].status = "pending"
            /\ tasks' = Close(tasks, t, "cancelled")
            /\ shelves' = Unreserve(tasks[t].source)
            /\ net' = Taken("notify") /\ UNCHANGED orders
         \/ /\ t # NoTask /\ tasks[t].status = "assigned"
            /\ net' = Send(Taken("notify"), "cancel", [robot |-> tasks[t].robot, order |-> o])
            /\ UNCHANGED database
      /\ UNCHANGED <<memory, world>>

\* Mutant: the shelf is unlocked.
ReclaimUnlocked(o, n) ==
  LET t  == OutboundTask(o)
      id == Len(tasks) + 1
  IN  /\ tasks' = Append(Close(tasks, t, "cancelled"),
                         Task("reclaim", o, tasks[t].target, tasks[t].source))
      /\ shelves' = Unreserve(tasks[t].source)
      /\ net' = Send(n, "new_task", id)

\* _create_reclaim: the shelf stays locked, now for the way back.
Reclaim(o, n) ==
  LET t  == OutboundTask(o)
      id == Len(tasks) + 1
  IN  /\ tasks' = Append(Close(tasks, t, "cancelled"),
                         Task("reclaim", o, tasks[t].target, tasks[t].source))
      /\ shelves' = Reserve(tasks[t].source, id)
      /\ net' = Send(n, "new_task", id)

\* _on_reclaim_request
OnReclaimRequest(o) ==
  /\ Received("reclaim", o)
  /\ IF OutboundTask(o) = NoTask
       THEN net' = Taken("reclaim") /\ UNCHANGED <<tasks, shelves>>
       ELSE Reclaim(o, Taken("reclaim"))
  /\ UNCHANGED <<orders, memory, world>>

\* _cancel_and_reclaim: of the order that waits at the gate, whoever set the deadline.
CancelAndReclaim(g) ==
  LET o == AwaitingAt(g)
  IN  IF o = NoOrder THEN UNCHANGED <<database, net>>
      ELSE orders' = [orders EXCEPT ![o] = "cancelled"] /\ Reclaim(o, net)

\* Mutant: all deadlines are cleared with the one that passed.
CheckExpiredAll(g) ==
  /\ Quiet /\ deadlines[g] # NoOrder
  /\ deadlines' = [h \in Gate |-> NoOrder]
  /\ CancelAndReclaim(g)
  /\ UNCHANGED <<untimed, seen, last_used, world>>

\* _check_expired
CheckExpired(g) ==
  /\ Quiet /\ deadlines[g] # NoOrder
  /\ deadlines' = [deadlines EXCEPT ![g] = NoOrder]
  /\ CancelAndReclaim(g)
  /\ UNCHANGED <<untimed, seen, last_used, world>>

\* Mutant: the shelf keeps its stock.
OnClearedKeepingStock(g) ==
  LET o == AwaitingAt(g)
      t == OutboundTask(o)
  IN  /\ Received("detection", <<"cleared", g>>)
      /\ deadlines' = [deadlines EXCEPT ![g] = NoOrder]
      /\ IF o = NoOrder THEN UNCHANGED database
         ELSE /\ tasks' = Close(tasks, t, "done")
              /\ orders' = [orders EXCEPT ![o] = "delivered"]
              /\ shelves' = Unreserve(tasks[t].source)
      /\ net' = Taken("detection")
      /\ UNCHANGED <<untimed, seen, last_used, world>>

\* _on_cleared and _mark_done_and_delivered.
OnCleared(g) ==
  LET o == AwaitingAt(g)
      t == OutboundTask(o)
  IN  /\ Received("detection", <<"cleared", g>>)
      /\ deadlines' = [deadlines EXCEPT ![g] = NoOrder]
      /\ IF o = NoOrder THEN UNCHANGED database
         ELSE /\ tasks' = Close(tasks, t, "done")
              /\ orders' = [orders EXCEPT ![o] = "delivered"]
              /\ shelves' = [shelves EXCEPT ![tasks[t].source] = Emptied]
      /\ net' = Taken("detection")
      /\ UNCHANGED <<untimed, seen, last_used, world>>

\* _on_inbound and _create_inbound_task.
OnInbound ==
  LET free == {s \in Shelf : ~IsFull(s) /\ ~IsLocked(s)}
      s    == FirstOf(Shelves, free)
      id   == Len(tasks) + 1
  IN  /\ Received("detection", <<"inbound", Inbound>>)
      /\ IF free = {}
           THEN net' = Taken("detection") /\ UNCHANGED database
           ELSE /\ tasks' = Append(tasks, Task("inbound", NoOrder, Inbound, s))
                /\ shelves' = Reserve(s, id)
                /\ net' = Send(Taken("detection"), "new_task", id)
                /\ UNCHANGED orders
      /\ UNCHANGED <<memory, world>>

\* __init__ after a crash: the database has everything but the pickup deadlines
\* (bound: one restart that loses any).
TaskRestart ==
  /\ Quiet /\ untimed = {} /\ \E g \in Gate : deadlines[g] # NoOrder
  /\ untimed' = {deadlines[g] : g \in Gate} \ {NoOrder}
  /\ deadlines' = [g \in Gate |-> NoOrder]
  /\ UNCHANGED <<database, seen, last_used, net, world>>

-----------------------------------------------------------------------------
(* The fleet manager.                                                      *)

LastAssigned(S) == CHOOSE t \in S : \A u \in S : tasks[u].assigned_at <= tasks[t].assigned_at

\* _try_assign: whatever the status of the task; the robot gets the places only.
TryAssign(t, status) ==
  LET candidates == {r \in Robot : status[r] = "idle"}
      robot == FirstOf(last_used, candidates)
      now   == 1 + Max({tasks[u].assigned_at : u \in Ids})
  IN  IF candidates = {} THEN UNCHANGED <<tasks, robots>>
      ELSE /\ tasks' = [tasks EXCEPT ![t].status = "assigned", ![t].robot = robot,
                                     ![t].assigned_at = now]
           /\ robots' = [robots EXCEPT ![robot].queue =
                           Append(@, [source |-> tasks[t].source, target |-> tasks[t].target])]

OnNewTask ==
  /\ BusyIsKnown
  /\ \E t \in Ids : Received("new_task", t) /\ TryAssign(t, seen)
  /\ net' = Taken("new_task")
  /\ UNCHANGED <<orders, shelves, memory, floor, arrived>>

\* Mutant: the tasks that wait are not looked at.
OnRobotStatusOnly(r) ==
  /\ "status" \in Lagging \/ (IF Status(r) = "busy" THEN TRUE ELSE Handled /\ BusyIsKnown)
  /\ seen' = [seen EXCEPT ![r] = Status(r)]
  /\ UNCHANGED <<database, deadlines, untimed, last_used, net, world>>

\* _on_robot_status, and _check_pending: the oldest pending task.
OnRobotStatus(r) ==
  LET pending == {t \in Ids : tasks[t].status = "pending"}
  IN  /\ "status" \in Lagging \/ (IF Status(r) = "busy" THEN TRUE ELSE Handled /\ BusyIsKnown)
      /\ seen' = [seen EXCEPT ![r] = Status(r)]
      /\ IF Status(r) = "idle" /\ pending # {}
           THEN TryAssign(Min(pending), seen')
           ELSE UNCHANGED <<tasks, robots>>
      /\ UNCHANGED <<orders, shelves, deadlines, untimed, last_used, net, floor, arrived>>

\* r has just been used.
Used(r) ==
  last_used' = Append(RemoveAt(last_used, CHOOSE i \in 1..Len(last_used) : last_used[i] = r), r)

AssignedTo(r) == {t \in Ids : tasks[t].robot = r /\ tasks[t].status = "assigned"}

\* Mutant: without the look at the order.
OnTargetDoneUnlooked(r) ==
  LET t == LastAssigned(AssignedTo(r))
      o == tasks[t].order
  IN  IF AssignedTo(r) = {} THEN net' = Taken("report") /\ UNCHANGED <<database, last_used>>
      ELSE /\ Used(r)
           /\ IF tasks[t].type # "outbound"
                THEN /\ tasks' = Close(tasks, t, "done")
                     /\ shelves' = [shelves EXCEPT ![tasks[t].target] = Filled]
                     /\ net' = Taken("report") /\ UNCHANGED orders
                ELSE /\ orders' = [orders EXCEPT ![o] = "awaiting_pickup"]
                     /\ net' = Send(Taken("report"), "notify", <<"awaiting_pickup", o>>)
                     /\ UNCHANGED <<tasks, shelves>>

\* _handle_target_done: of the task of r that was assigned last.
OnTargetDone(r) ==
  LET t == LastAssigned(AssignedTo(r))
      o == tasks[t].order
  IN  IF AssignedTo(r) = {} THEN net' = Taken("report") /\ UNCHANGED <<database, last_used>>
      ELSE /\ Used(r)
           /\ \/ /\ tasks[t].type # "outbound"
                 /\ tasks' = Close(tasks, t, "done")
                 /\ shelves' = [shelves EXCEPT ![tasks[t].target] = Filled]
                 /\ net' = Taken("report") /\ UNCHANGED orders
              \/ /\ tasks[t].type = "outbound" /\ orders[o] = "cancelled"
                 /\ net' = Send(Taken("report"), "reclaim", o)
                 /\ UNCHANGED database
              \/ /\ tasks[t].type = "outbound" /\ orders[o] # "cancelled"
                 /\ orders' = [orders EXCEPT ![o] = "awaiting_pickup"]
                 /\ net' = Send(Taken("report"), "notify", <<"awaiting_pickup", o>>)
                 /\ UNCHANGED <<tasks, shelves>>

\* Mutant: the shelf stays locked.
FinishCustomerCancelLocked(r, o) ==
  LET t == OutboundTask(o)
  IN  /\ IF t = NoTask THEN UNCHANGED <<database, last_used>>
         ELSE /\ Used(r)
              /\ tasks' = Close(tasks, t, "cancelled")
              /\ UNCHANGED <<orders, shelves>>
      /\ net' = Taken("report")

\* _finish_customer_cancel: of the task of the order in the report.
FinishCustomerCancel(r, o) ==
  LET t == OutboundTask(o)
  IN  /\ IF t = NoTask THEN UNCHANGED <<database, last_used>>
         ELSE /\ Used(r)
              /\ tasks' = Close(tasks, t, "cancelled")
              /\ shelves' = Unreserve(tasks[t].source)
              /\ UNCHANGED orders
      /\ net' = Taken("report")

\* _on_task_report; source_arrived only stamps a time.
OnTaskReport ==
  /\ \E r \in Robot, o \in Order \cup {NoOrder} :
       \/ Received("report", [robot |-> r, event |-> "target_done", order |-> o]) /\ OnTargetDone(r)
       \/ Received("report", [robot |-> r, event |-> "cancelled", order |-> o]) /\ FinishCustomerCancel(r, o)
  /\ UNCHANGED <<deadlines, untimed, seen, world>>

-----------------------------------------------------------------------------
(* The robots (robot_fsm.py; module Mission).                              *)

Report(n, r, event, o) == Send(n, "report", [robot |-> r, event |-> event, order |-> o])

\* A robot after its mission, with what it has been assigned meanwhile.
Free(r) == [Waiting EXCEPT !.queue = robots[r].queue]
Does(r, pc) == robots[r].pc = pc /\ (pc # "idle" => Quiet)
Left(p) == [floor EXCEPT ![p] = IF @ > 0 THEN @ - 1 ELSE 0]
\* The detector of a gate sees it become empty.
WithCleared(n, p) == IF p \in Gate /\ floor[p] = 1 THEN Send(n, "detection", <<"cleared", p>>) ELSE n
PutDown(r, p) == floor' = IF robots[r].loaded THEN [floor EXCEPT ![p] = @ + 1] ELSE floor

TakeAssignment(r) ==
  /\ Does(r, "idle") /\ robots[r].queue # <<>>
  /\ robots' = [robots EXCEPT ![r].pc = "toSource", ![r].queue = Tail(@),
                              ![r].source = Head(robots[r].queue).source,
                              ![r].target = Head(robots[r].queue).target]
  /\ UNCHANGED <<database, memory, net, floor, arrived>>

\* _on_cancel_mission
OnCancelMission(r) ==
  /\ \E o \in Order :
       /\ Received("cancel", [robot |-> r, order |-> o])
       /\ robots' = [robots EXCEPT ![r].cancel = o]
  /\ net' = Taken("cancel")
  /\ UNCHANGED <<database, memory, floor, arrived>>

\* _cancel_aborted
AbortEmpty(r) ==
  /\ Does(r, "toSource") /\ robots[r].cancel # NoOrder
  /\ robots' = [robots EXCEPT ![r] = Free(r)]
  /\ net' = Report(net, r, "cancelled", robots[r].cancel)
  /\ UNCHANGED <<database, memory, floor, arrived>>

\* The pallet is lifted, unless the place is empty; a cancel is seen afterwards.
PickUp(r) ==
  LET p == robots[r].source
      cancelled == robots[r].cancel # NoOrder
  IN  /\ Does(r, "toSource")
      /\ robots' = [robots EXCEPT ![r].pc = IF cancelled THEN "back" ELSE "toTarget",
                                  ![r].oid = robots[r].cancel, ![r].cancel = NoOrder,
                                  ![r].loaded = floor[p] > 0]
      /\ floor' = Left(p) /\ net' = WithCleared(net, p)
      /\ UNCHANGED <<database, memory, arrived>>

TurnBack(r) ==
  /\ Does(r, "toTarget") /\ robots[r].cancel # NoOrder
  /\ robots' = [robots EXCEPT ![r].pc = "back", ![r].oid = robots[r].cancel,
                              ![r].cancel = NoOrder]
  /\ UNCHANGED <<database, memory, net, floor, arrived>>

StartPlacing(r) ==
  /\ Does(r, "toTarget")
  /\ robots' = [robots EXCEPT ![r].pc = "placing"]
  /\ UNCHANGED <<database, memory, net, floor, arrived>>

\* PLACE cannot be cancelled; a cancel that came meanwhile is dropped.
PlacePallet(r) ==
  /\ Does(r, "placing")
  /\ robots' = [robots EXCEPT ![r] = Free(r)]
  /\ PutDown(r, robots[r].target)
  /\ net' = Report(net, r, "target_done", NoOrder)
  /\ UNCHANGED <<database, memory, arrived>>

\* _cancel_return
ReturnPallet(r) ==
  /\ Does(r, "back")
  /\ robots' = [robots EXCEPT ![r] = [Free(r) EXCEPT !.cancel = robots[r].cancel]]
  /\ PutDown(r, robots[r].source)
  /\ net' = Report(net, r, "cancelled", robots[r].oid)
  /\ UNCHANGED <<database, memory, arrived>>

-----------------------------------------------------------------------------
(* Customers, suppliers and the detectors of their pallets.                *)

PickedUp(g) ==
  /\ Quiet /\ AwaitingAt(g) # NoOrder /\ floor[g] > 0
  /\ floor' = Left(g) /\ net' = WithCleared(net, g)
  /\ UNCHANGED <<database, memory, robots, arrived>>

Arrive ==
  /\ Quiet /\ arrived < Arrivals /\ floor[Inbound] = 0
  /\ floor' = [floor EXCEPT ![Inbound] = 1]
  /\ arrived' = arrived + 1
  /\ net' = Send(net, "detection", <<"inbound", Inbound>>)
  /\ UNCHANGED <<database, memory, robots>>

-----------------------------------------------------------------------------

TaskManager ==
  \/ \E o \in Order :
       CreateOutbound(o) \/ ArmPickupTimer(o) \/ OnOrderCancelled(o) \/ OnReclaimRequest(o)
  \/ \E g \in Gate : OnCleared(g)
  \/ OnInbound

FleetManager == OnNewTask \/ OnTaskReport \/ \E r \in Robot : OnRobotStatus(r)

Drive(r) ==
  \/ TakeAssignment(r) \/ OnCancelMission(r) \/ AbortEmpty(r) \/ PickUp(r)
  \/ TurnBack(r) \/ StartPlacing(r) \/ PlacePallet(r) \/ ReturnPallet(r)

Next ==
  \/ \E o \in Order : CreateOrder(o) \/ CancelOrder(o) \/ OperatorCancels(o)
  \/ TaskManager \/ TaskRestart \/ FleetManager
  \/ \E r \in Robot : Drive(r)
  \/ \E g \in Gate : CheckExpired(g) \/ PickedUp(g)
  \/ Arrive

\* The two managers and the robots run on, and time passes; customers need
\* not order, cancel or pick up anything.
Spec ==
  /\ Init /\ [][Next]_vars
  /\ WF_vars(TaskManager) /\ WF_vars(OnNewTask \/ OnTaskReport)
  /\ \A r \in Robot : WF_vars(Drive(r)) /\ WF_vars(OnRobotStatus(r))
  /\ \A g \in Gate : WF_vars(CheckExpired(g))

-----------------------------------------------------------------------------
(* Properties.                                                             *)

\* The rows keep their types, a lock names a task there is, and only a robot
\* on its way from a source has a pallet on its fork.
TypeOK ==
  /\ orders \in [Order -> {"none", "pending", "processing", "awaiting_pickup",
                           "delivered", "cancelled"}]
  /\ tasks \in Seq([type : {"outbound", "inbound", "reclaim"},
                    status : {"pending", "assigned", "done", "cancelled"},
                    robot : Robot \cup {NoRobot}, assigned_at : Nat,
                    order : Order \cup {NoOrder}, source : Place, target : Place])
  /\ shelves \in [Shelf -> [inbound_at : Nat, reserved_by : 0..Len(tasks)]]
  /\ deadlines \in [Gate -> Order \cup {NoOrder}] /\ untimed \subseteq Order
  /\ seen \in [Robot -> {"idle", "busy"}]
  /\ last_used \in Seq(Robot) /\ ToSet(last_used) = Robot
  /\ \A r \in Robot : robots[r].loaded => robots[r].pc \in {"toTarget", "placing", "back"}
  /\ floor \in [Place -> Nat]

\* The status of an order, which four handlers of two processes write, only
\* goes the ways of OrderLife.
Life == INSTANCE OrderLife WITH status <- orders
IsOrderLife == Life!Spec

\* A shelf that nobody has locked has a pallet exactly when the database says
\* so, whichever of deliveries, expiries, cancels and arrivals touched it last.
StockIsReal ==
  \A s \in Shelf : shelves[s].reserved_by = NoTask => floor[s] = (IF IsFull(s) THEN 1 ELSE 0)

\* No robot puts a pallet where one is: the choice of gates and shelves looks
\* at the tables only.
NoPileUp == \A p \in Place : floor[p] <= 1

\* No robot is sent to fetch what is not there: one that has been at the
\* source of its mission carries a pallet.
NeverEmptyHanded ==
  \A r \in Robot : robots[r].pc \in {"toTarget", "placing", "back"} => robots[r].loaded

\* No order stays at a gate for ever: its deadline runs there, or the message
\* that starts it or the one that ends it is on its way (the incident that
\* moved the clock into the task manager).  A restart forgets the deadlines that
\* run, as the module's header admits, and none that begins afterwards.
AwaitingIsTimed ==
  \A g \in Gate :
    LET o == AwaitingAt(g)
    IN  o \notin {NoOrder} \cup untimed =>
          \/ deadlines[g] = o
          \/ \E i \in 1..Len(net["notify"]) : net["notify"][i] = <<"awaiting_pickup", o>>
          \/ \E i \in 1..Len(net["detection"]) : net["detection"][i] = <<"cleared", g>>

\* No lock is left behind: a shelf is locked by a task that still runs, and
\* that takes a pallet from it or brings one.
ReservedByOpenTask ==
  \A s \in Shelf :
    LET t == shelves[s].reserved_by
    IN  t # NoTask =>
          /\ IsOpen(t)
          /\ s = IF tasks[t].type = "outbound" THEN tasks[t].source ELSE tasks[t].target

\* No order is stuck: one that was accepted is delivered or cancelled in the
\* end, and so are its tasks, unless a restart has forgotten its deadline.
EveryOrderEnds ==
  \A o \in Order :
    orders[o] = "processing" ~>
      \/ /\ orders[o] \in {"delivered", "cancelled"}
         /\ \A t \in Ids : tasks[t].order = o => ~IsOpen(t)
      \/ o \in untimed

=============================================================================
