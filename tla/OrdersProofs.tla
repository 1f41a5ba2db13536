---------------------------- MODULE OrdersProofs ----------------------------
(***************************************************************************)
(* Proofs about the orders, for any orders, shelves, gates and robots.     *)
(*                                                                         *)
(* First the types, and the locks of the shelves, however long every       *)
(* message takes.  A lock is tied to an open task of that shelf; the rest  *)
(* of the types is needed because the handlers copy places from tables to  *)
(* robots and back.                                                        *)
(*                                                                         *)
(* Then, when every channel but that of the reclaim requests is prompt:    *)
(* the status of an order follows OrderLife, and no order is left at a     *)
(* gate without a clock.  That argument has two layers.  The board is what *)
(* the tables say about the tasks together with the robots that have       *)
(* something to do, the orders to be reclaimed and the tasks nobody has    *)
(* been given; it is stated over bound variables, with one lemma for each  *)
(* thing that happens to it.  The second layer reads these from the state  *)
(* and shows that each handler does one of them.                           *)
(*                                                                         *)
(* Last, on top of that, the stock: a ledger tells from the tables, the    *)
(* robots and the messages which places hold a pallet, and the floor       *)
(* agrees with it as long as no two pallets are sent to one gate, which    *)
(* the code promises and, once an order has been cancelled on its way,     *)
(* does not keep.                                                          *)
(***************************************************************************)
EXTENDS Orders, Extrema, TLAPS, SequenceTheorems

\* The first element of a list that is in a set is in the set.
LEMMA FirstOfIsIn ==
  ASSUME NEW T, NEW seq \in Seq(T), NEW S, S # {}, S \subseteq ToSet(seq)
  PROVE  FirstOf(seq, S) \in S
  BY FirstInSet DEF FirstOf

-----------------------------------------------------------------------------
(* The tables.                                                             *)

OrderStatus ==
  {"none", "pending", "processing", "awaiting_pickup", "delivered", "cancelled"}

Row ==
  [type : {"outbound", "inbound", "reclaim"},
   status : {"pending", "assigned", "done", "cancelled"},
   robot : Robot \cup {NoRobot}, assigned_at : Nat,
   order : Order \cup {NoOrder}, source : Place, target : Place]

\* Tasks of each type go between the right places, and name an order if they
\* are of one.
RowOK(row) ==
  /\ row.type = "outbound" => row.order \in Order /\ row.source \in Shelf /\ row.target \in Gate
  /\ row.type = "inbound"  => row.order = NoOrder /\ row.target \in Shelf
  /\ row.type = "reclaim"  => row.order \in Order /\ row.target \in Shelf

\* The shelf a task takes its pallet from or brings it to.
ShelfOf(row) == IF row.type = "outbound" THEN row.source ELSE row.target

OpenRow(row) == row.status \in {"pending", "assigned"}

\* The tables of tasks and locations: a lock names an open task of the shelf.
TablesOK(ts, sh) ==
  /\ ts \in Seq(Row) /\ \A t \in 1..Len(ts) : RowOK(ts[t])
  /\ sh \in [Shelf -> [inbound_at : Nat, reserved_by : Nat]]
  /\ \A s \in Shelf :
       LET t == sh[s].reserved_by
       IN  t # NoTask => t \in 1..Len(ts) /\ OpenRow(ts[t]) /\ s = ShelfOf(ts[t])

\* The shelf of a row is a shelf.
LEMMA ShelfOfRow ==
  ASSUME NEW row \in Row, RowOK(row)
  PROVE  ShelfOf(row) \in Shelf
  BY DEF RowOK, ShelfOf, Row

\* A new task locks its shelf, which may have been locked before.
LEMMA AddedKeeps ==
  ASSUME NEW ts, NEW sh, TablesOK(ts, sh), NEW row \in Row, RowOK(row), OpenRow(row)
  PROVE  TablesOK(Append(ts, row), [sh EXCEPT ![ShelfOf(row)].reserved_by = Len(ts) + 1])
<1> DEFINE new == Append(ts, row)
           s == ShelfOf(row)
           l == [sh[s] EXCEPT !.reserved_by = Len(ts) + 1]
           sn == [sh EXCEPT ![s] = l]
<1>1. ts \in Seq(Row) /\ Len(ts) \in Nat /\ s \in Shelf
      /\ sh \in [Shelf -> [inbound_at : Nat, reserved_by : Nat]]
  BY ShelfOfRow DEF TablesOK
<1>2. new \in Seq(Row) /\ Len(new) = Len(ts) + 1 /\ new[Len(ts) + 1] = row
      /\ \A t \in 1..Len(ts) : new[t] = ts[t]
  BY <1>1
<1>3. l \in [inbound_at : Nat, reserved_by : Nat] /\ l.reserved_by = Len(ts) + 1
  BY <1>1
<1> HIDE DEF new, s, l
<1>4. /\ sn \in [Shelf -> [inbound_at : Nat, reserved_by : Nat]]
      /\ sn[s] = l /\ \A u \in Shelf : u # s => sn[u] = sh[u]
  BY <1>1, <1>3
<1> HIDE DEF sn
<1>5. \A t \in 1..Len(new) : RowOK(new[t])
  BY <1>1, <1>2 DEF TablesOK
<1>6. ASSUME NEW u \in Shelf, sn[u].reserved_by # NoTask
      PROVE  LET t == sn[u].reserved_by
             IN  t \in 1..Len(new) /\ OpenRow(new[t]) /\ u = ShelfOf(new[t])
  <2>1. CASE u = s
    BY <1>1, <1>2, <1>3, <1>4, <2>1 DEF s
  <2>2. CASE u # s
    <3>1. sn[u] = sh[u]
      BY <1>4, <2>2
    <3>2. sh[u].reserved_by \in 1..Len(ts) /\ OpenRow(ts[sh[u].reserved_by])
          /\ u = ShelfOf(ts[sh[u].reserved_by])
      BY <1>6, <3>1 DEF TablesOK
    <3>3. sh[u].reserved_by \in 1..Len(new) /\ new[sh[u].reserved_by] = ts[sh[u].reserved_by]
      BY <1>1, <1>2, <3>2
    <3> QED BY <3>1, <3>2, <3>3
  <2> QED BY <2>1, <2>2
<1>7. TablesOK(new, sn)
  BY <1>2, <1>4, <1>5, <1>6 DEF TablesOK
<1> QED BY <1>7 DEF new, sn, s, l

\* A task that is closed gives its shelf back.
LEMMA ClosedKeeps ==
  ASSUME NEW ts, NEW sh, TablesOK(ts, sh), NEW t \in 1..Len(ts),
         NEW status \in {"done", "cancelled"},
         NEW l \in [inbound_at : Nat, reserved_by : Nat], l.reserved_by = NoTask
  PROVE  TablesOK([ts EXCEPT ![t].status = status], [sh EXCEPT ![ShelfOf(ts[t])] = l])
<1> DEFINE row == [ts[t] EXCEPT !.status = status]
           new == [ts EXCEPT ![t] = row]
           s == ShelfOf(ts[t])
           sn == [sh EXCEPT ![s] = l]
<1>1. ts \in Seq(Row) /\ Len(ts) \in Nat /\ ts[t] \in Row /\ RowOK(ts[t])
      /\ sh \in [Shelf -> [inbound_at : Nat, reserved_by : Nat]]
  BY DEF TablesOK
<1>2. row \in Row /\ RowOK(row)
  BY <1>1 DEF Row, RowOK
<1>3. \A u \in Shelf : u # s => sn[u] = sh[u]
  BY <1>1
<1>4. s \in Shelf
  BY <1>1, ShelfOfRow
<1> HIDE DEF row, s
<1>5. /\ new \in Seq(Row) /\ Len(new) = Len(ts) /\ new[t] = row
      /\ \A u \in 1..Len(ts) : u # t => new[u] = ts[u]
  BY <1>1, <1>2
<1>6. sn \in [Shelf -> [inbound_at : Nat, reserved_by : Nat]] /\ sn[s] = l
  BY <1>1, <1>4
<1> HIDE DEF new, sn
<1>7. \A u \in 1..Len(new) : RowOK(new[u])
  BY <1>2, <1>5 DEF TablesOK
<1>8. ASSUME NEW u \in Shelf, sn[u].reserved_by # NoTask
      PROVE  LET k == sn[u].reserved_by
             IN  k \in 1..Len(new) /\ OpenRow(new[k]) /\ u = ShelfOf(new[k])
  <2>1. u # s /\ sn[u] = sh[u]
    BY <1>3, <1>6, <1>8
  <2>2. sh[u].reserved_by \in 1..Len(ts) /\ OpenRow(ts[sh[u].reserved_by])
        /\ u = ShelfOf(ts[sh[u].reserved_by])
    BY <1>8, <2>1 DEF TablesOK
  <2>3. sh[u].reserved_by # t
    BY <2>1, <2>2 DEF s
  <2> QED BY <1>5, <2>1, <2>2, <2>3
<1>9. TablesOK(new, sn)
  BY <1>5, <1>6, <1>7, <1>8 DEF TablesOK
<1> QED BY <1>9 DEF new, sn, s, row

\* Assigning a task, whatever its status, disturbs no lock.
LEMMA AssignedKeeps ==
  ASSUME NEW ts, NEW sh, TablesOK(ts, sh), NEW t \in 1..Len(ts), NEW r \in Robot, NEW now \in Nat
  PROVE  TablesOK([ts EXCEPT ![t].status = "assigned", ![t].robot = r, ![t].assigned_at = now], sh)
<1> DEFINE row == [ts[t] EXCEPT !.status = "assigned", !.robot = r, !.assigned_at = now]
           new == [ts EXCEPT ![t] = row]
<1>1. ts \in Seq(Row) /\ Len(ts) \in Nat /\ ts[t] \in Row /\ RowOK(ts[t])
  BY DEF TablesOK
<1>2. row \in Row /\ RowOK(row) /\ OpenRow(row) /\ ShelfOf(row) = ShelfOf(ts[t])
  BY <1>1 DEF Row, RowOK, OpenRow, ShelfOf
<1>3. [ts EXCEPT ![t].status = "assigned", ![t].robot = r, ![t].assigned_at = now] = new
  BY <1>1
<1> HIDE DEF row
<1>4. /\ new \in Seq(Row) /\ Len(new) = Len(ts) /\ new[t] = row
      /\ \A u \in 1..Len(ts) : u # t => new[u] = ts[u]
  BY <1>1, <1>2
<1> HIDE DEF new
<1>5. TablesOK(new, sh)
  BY <1>2, <1>4 DEF TablesOK
<1> QED BY <1>3, <1>5

\* A reclaim closes one task and locks the shelf for the next one.
LEMMA ReclaimedKeeps ==
  ASSUME NEW ts, NEW sh, TablesOK(ts, sh), NEW t \in 1..Len(ts), ts[t].type = "outbound",
         NEW row \in Row, RowOK(row), OpenRow(row), ShelfOf(row) = ts[t].source
  PROVE  TablesOK(Append([ts EXCEPT ![t].status = "cancelled"], row),
                  [sh EXCEPT ![ts[t].source].reserved_by = Len(ts) + 1])
<1> DEFINE s == ts[t].source
           l == [sh[s] EXCEPT !.reserved_by = NoTask]
           mid == [ts EXCEPT ![t].status = "cancelled"]
           sm == [sh EXCEPT ![s] = l]
<1>1. ts \in Seq(Row) /\ ts[t] \in Row /\ RowOK(ts[t]) /\ s \in Shelf /\ ShelfOf(ts[t]) = s
      /\ sh \in [Shelf -> [inbound_at : Nat, reserved_by : Nat]]
  BY DEF TablesOK, RowOK, ShelfOf
<1>2. l \in [inbound_at : Nat, reserved_by : Nat] /\ l.reserved_by = NoTask
      /\ l.inbound_at = sh[s].inbound_at
  BY <1>1 DEF NoTask
<1>3. TablesOK(mid, sm)
  <2>1. TablesOK(mid, [sh EXCEPT ![ShelfOf(ts[t])] = l])
    <3> HIDE DEF l
    <3> QED BY ONLY TablesOK(ts, sh), t \in 1..Len(ts), <1>2, ClosedKeeps
  <2> QED BY <1>1, <2>1
<1>4. Len(mid) = Len(ts)
  BY <1>1
<1>5. [sm EXCEPT ![s].reserved_by = Len(ts) + 1] = [sh EXCEPT ![s].reserved_by = Len(ts) + 1]
  BY <1>1
<1> HIDE DEF mid, sm, l, s
<1>6. TablesOK(Append(mid, row), [sm EXCEPT ![ShelfOf(row)].reserved_by = Len(mid) + 1])
  BY <1>3, AddedKeeps
<1> QED BY <1>4, <1>5, <1>6 DEF s, mid

-----------------------------------------------------------------------------
(* What the handlers find in the tables.                                   *)

Location == [inbound_at : Nat, reserved_by : Nat]

\* Every id is the id of a task.
LEMMA IdsAreTasks ==
  ASSUME TablesOK(tasks, shelves)
  PROVE  /\ tasks \in Seq(Row) /\ Len(tasks) \in Nat
         /\ \A t \in Ids : /\ t \in 1..Len(tasks) /\ t \in Nat /\ t # NoTask
                           /\ tasks[t] \in Row /\ RowOK(tasks[t])
                           /\ tasks[t].assigned_at \in Nat
<1>1. tasks \in Seq(Row) /\ Len(tasks) \in Nat /\ \A t \in 1..Len(tasks) : tasks[t] \in Row /\ RowOK(tasks[t])
  BY DEF TablesOK
<1>2. \A row \in Row : row.assigned_at \in Nat
  BY DEF Row
<1> QED BY <1>1, <1>2 DEF Ids, NoTask

\* The latest outbound task of an order is one of its outbound tasks.
LEMMA OutboundTaskIs ==
  ASSUME TablesOK(tasks, shelves), NEW o
  PROVE  /\ OutboundTask(o) # NoTask =>
              LET t == OutboundTask(o)
              IN  /\ t \in Ids /\ tasks[t] \in Row /\ RowOK(tasks[t])
                  /\ tasks[t].type = "outbound" /\ tasks[t].order = o
                  /\ tasks[t].source \in Shelf /\ tasks[t].target \in Gate
                  /\ ShelfOf(tasks[t]) = tasks[t].source
         /\ \A t \in Ids : tasks[t].type = "outbound" /\ tasks[t].order = o =>
              t <= OutboundTask(o)
<1> DEFINE own == {t \in Ids : tasks[t].type = "outbound" /\ tasks[t].order = o}
           S == own \cup {NoTask}
<1>1. tasks \in Seq(Row) /\ Len(tasks) \in Nat /\ \A t \in Ids : tasks[t] \in Row /\ RowOK(tasks[t])
  BY DEF TablesOK, Ids
<1>2. S \in SUBSET (0..Len(tasks)) /\ S # {}
  BY <1>1 DEF Ids, NoTask
<1>3. OutboundTask(o) = Max(S)
  BY DEF OutboundTask
<1>4. Max(S) \in S /\ \A t \in S : Max(S) >= t
  <2> HIDE DEF S
  <2>1. 0 \in Int /\ Len(tasks) \in Int
    BY <1>1
  <2> QED BY <1>2, <2>1, MaxOfBounded
<1>5. \A t \in own : t <= OutboundTask(o)
  BY <1>1, <1>3, <1>4 DEF Ids
<1>6. OutboundTask(o) # NoTask => OutboundTask(o) \in own
  BY <1>3, <1>4
<1> QED BY <1>1, <1>5, <1>6 DEF RowOK, ShelfOf

\* The order that waits at a gate waits, and has a task.
LEMMA AwaitingIs ==
  ASSUME OrdersAssumption, TablesOK(tasks, shelves), NEW g \in Gate, AwaitingAt(g) # NoOrder
  PROVE  /\ AwaitingAt(g) \in Order /\ orders[AwaitingAt(g)] = "awaiting_pickup"
         /\ OutboundTask(AwaitingAt(g)) # NoTask
         /\ \E t \in Ids : /\ tasks[t].type = "outbound" /\ tasks[t].order = AwaitingAt(g)
                           /\ tasks[t].target = g
<1> DEFINE waiting == {t \in Ids : /\ tasks[t].type = "outbound" /\ tasks[t].target = g
                                   /\ orders[tasks[t].order] = "awaiting_pickup"}
           m == Max(waiting)
<1>1. tasks \in Seq(Row) /\ Len(tasks) \in Nat /\ \A t \in Ids : tasks[t] \in Row /\ RowOK(tasks[t])
  BY DEF TablesOK, Ids
<1>2. waiting # {} /\ AwaitingAt(g) = tasks[m].order
  BY DEF AwaitingAt
<1>3. waiting \in SUBSET (0..Len(tasks))
  BY <1>1 DEF Ids
<1>4. m \in waiting
  <2> HIDE DEF waiting
  <2>1. 0 \in Int /\ Len(tasks) \in Int
    BY <1>1
  <2> QED BY <1>2, <1>3, <2>1, MaxOfBounded
<1> HIDE DEF m
<1>5. /\ m \in Ids /\ tasks[m].type = "outbound" /\ tasks[m].order \in Order
      /\ orders[tasks[m].order] = "awaiting_pickup" /\ tasks[m].target = g
  BY <1>1, <1>4 DEF RowOK
<1>6. m \in Nat \ {0} /\ AwaitingAt(g) \in Order /\ tasks[m].order = AwaitingAt(g)
  BY <1>1, <1>2, <1>5 DEF Ids
<1>7. OutboundTask(AwaitingAt(g)) # NoTask
  <2>1. m <= OutboundTask(AwaitingAt(g))
    BY <1>5, <1>6, OutboundTaskIs
  <2> QED BY <1>6, <2>1 DEF NoTask
<1> QED BY <1>2, <1>5, <1>7

\* Tasks have one that was assigned last.
LEMMA LastAssignedIs ==
  ASSUME TablesOK(tasks, shelves), NEW S \in SUBSET Ids, S # {}
  PROVE  /\ LastAssigned(S) \in S
         /\ \A u \in S : tasks[u].assigned_at <= tasks[LastAssigned(S)].assigned_at
<1> DEFINE at == [u \in Ids |-> tasks[u].assigned_at]
           T == {at[u] : u \in S}
<1>1. Len(tasks) \in Nat /\ \A u \in Ids : tasks[u].assigned_at \in Nat /\ at[u] = tasks[u].assigned_at
  BY IdsAreTasks
<1>2. PICK b \in Nat : \A u \in 1..Len(tasks) : at[u] <= b
  <2>1. \A u \in 1..Len(tasks) : at[u] \in Nat
    BY <1>1 DEF Ids
  <2> HIDE DEF at
  <2> QED BY <1>1, <2>1, NatsHaveBound
<1>3. T \in SUBSET (0..b) /\ T # {}
  <2>1. \A u \in S : at[u] \in 0..b
    <3> HIDE DEF at
    <3> QED BY <1>1, <1>2 DEF Ids
  <2> QED BY <2>1
<1>4. PICK m \in T : \A x \in T : m >= x
  <2>1. 0 \in Int /\ b \in Int
    OBVIOUS
  <2> HIDE DEF T
  <2> QED BY <1>3, <2>1, BoundedMax
<1>5. PICK t \in S : m = at[t]
  OBVIOUS
<1>6. \A u \in S : tasks[u].assigned_at <= tasks[t].assigned_at
  <2> SUFFICES ASSUME NEW u \in S PROVE tasks[u].assigned_at <= tasks[t].assigned_at
    OBVIOUS
  <2>1. at[u] \in T /\ at[u] = tasks[u].assigned_at /\ at[t] = tasks[t].assigned_at
    OBVIOUS
  <2>2. m >= at[u] /\ m \in Nat /\ at[u] \in Nat
    BY <1>3, <1>4, <2>1
  <2> HIDE DEF at
  <2> QED BY <1>5, <2>1, <2>2
<1> QED BY <1>6 DEF LastAssigned

\* The shelf that is filled last has the latest stock, and is not locked.
LEMMA FilledIsLocation ==
  ASSUME OrdersAssumption, TablesOK(tasks, shelves), NEW s \in Shelf
  PROVE  Filled \in Location /\ Filled.reserved_by = NoTask /\ Filled.inbound_at # 0
<1> DEFINE f == [i \in 1..Len(Shelves) |-> shelves[Shelves[i]].inbound_at]
           S == {shelves[u].inbound_at : u \in Shelf}
<1>1. Shelves \in Seq(Shelf) /\ Len(Shelves) \in Nat /\ Shelf = {Shelves[i] : i \in 1..Len(Shelves)}
  <2>1. Shelves \in Seq(Shelf)
    BY DEF OrdersAssumption
  <2>2. Len(Shelves) \in Nat /\ DOMAIN Shelves = 1..Len(Shelves)
    BY <2>1
  <2>3. Shelf = {Shelves[i] : i \in DOMAIN Shelves}
    BY Zenon DEF Shelf, ToSet
  <2> QED BY <2>1, <2>2, <2>3
<1>2. \A u \in Shelf : shelves[u].inbound_at \in Nat
  BY DEF TablesOK
<1>3. Len(Shelves) \in Nat \ {0} /\ (\A i \in 1..Len(Shelves) : f[i] \in Nat)
  BY <1>1, <1>2, SMTT(60)
<1>4. S = {f[i] : i \in 1..Len(Shelves)}
  BY <1>1, ZenonT(60)
<1>5. Max(S) \in Nat
  <2> HIDE DEF f, S
  <2> QED BY <1>3, <1>4, MaxOfListed
<1>6. Filled = [inbound_at |-> 1 + Max(S), reserved_by |-> NoTask]
  BY DEF Filled
<1> HIDE DEF S
<1> QED BY <1>5, <1>6 DEF Location, NoTask

\* There is a next time of assignment.
LEMMA NowIsLater ==
  ASSUME TablesOK(tasks, shelves), NEW t \in Ids
  PROVE  LET now == 1 + Max({tasks[u].assigned_at : u \in Ids})
         IN  now \in Nat /\ \A u \in Ids : tasks[u].assigned_at < now
<1> DEFINE at == [u \in Ids |-> tasks[u].assigned_at]
           S == {tasks[u].assigned_at : u \in Ids}
<1>1. Len(tasks) \in Nat \ {0} /\ \A u \in Ids : tasks[u].assigned_at \in Nat /\ at[u] = tasks[u].assigned_at
  <2>1. Len(tasks) \in Nat \ {0}
    BY IdsAreTasks DEF Ids
  <2> QED BY <2>1, IdsAreTasks
<1>2. S = {at[u] : u \in 1..Len(tasks)} /\ (\A u \in 1..Len(tasks) : at[u] \in Nat)
  BY <1>1 DEF Ids
<1>3. Max(S) \in Nat /\ \A u \in 1..Len(tasks) : at[u] <= Max(S)
  <2> HIDE DEF at, S
  <2> QED BY <1>1, <1>2, MaxOfListed
<1> HIDE DEF at, S
<1>4. 1 + Max(S) \in Nat /\ \A u \in Ids : tasks[u].assigned_at < 1 + Max(S)
  BY <1>1, <1>3 DEF Ids
<1> QED BY <1>4 DEF S

\* The oldest stock is stock.
LEMMA OldestIsStock ==
  ASSUME TablesOK(tasks, shelves), NEW stock \in SUBSET Shelf, stock # {}
  PROVE  (CHOOSE s \in stock : \A u \in stock : shelves[s].inbound_at <= shelves[u].inbound_at) \in stock
<1> DEFINE T == {shelves[s].inbound_at : s \in stock}
<1>1. T \in SUBSET Nat /\ T # {}
  BY DEF TablesOK
<1>2. Min(T) \in T /\ \A x \in T : Min(T) <= x
  <2> HIDE DEF T
  <2> QED BY <1>1, MinOfNats
<1>3. PICK s \in stock : Min(T) = shelves[s].inbound_at
  BY <1>2
<1>4. \A u \in stock : shelves[s].inbound_at <= shelves[u].inbound_at
  BY <1>2, <1>3
<1> QED BY <1>4

-----------------------------------------------------------------------------
(* Types, and the locks.                                                   *)

Errand == [source : Place, target : Place]

Pc == {"idle", "toSource", "toTarget", "placing", "back"}

RobotState ==
  [pc : Pc,
   source : Place, target : Place, loaded : BOOLEAN,
   cancel : Order \cup {NoOrder}, oid : Order \cup {NoOrder}, queue : Seq(Errand)]

Database == orders \in [Order -> OrderStatus] /\ TablesOK(tasks, shelves)

Memory ==
  /\ deadlines \in [Gate -> Order \cup {NoOrder}] /\ untimed \subseteq Order
  /\ seen \in [Robot -> {"idle", "busy"}]
  /\ last_used \in Seq(Robot) /\ ToSet(last_used) = Robot

World ==
  /\ robots \in [Robot -> RobotState]
  /\ \A r \in Robot : robots[r].loaded => robots[r].pc \in {"toTarget", "placing", "back"}
  /\ floor \in [Place -> Nat]

Types == Database /\ Memory /\ World

\* A robot that looks idle gets the task, whatever its status.
LEMMA TryAssignKeeps ==
  ASSUME OrdersAssumption, Types, NEW t \in Ids, NEW status, TryAssign(t, status),
         floor' = floor
  PROVE  TablesOK(tasks', shelves) /\ World'
<1> DEFINE candidates == {r \in Robot : status[r] = "idle"}
           robot == FirstOf(last_used, candidates)
           now == 1 + Max({tasks[u].assigned_at : u \in Ids})
           errand == [source |-> tasks[t].source, target |-> tasks[t].target]
<1>0. t \in 1..Len(tasks) /\ tasks[t] \in Row
  BY IdsAreTasks DEF Types, Database
<1>1. errand \in Errand
  BY <1>0 DEF Errand, Row
<1>2. CASE candidates = {}
  <2>1. UNCHANGED <<tasks, robots, floor>>
    BY <1>2 DEF TryAssign
  <2> QED BY <2>1 DEF Types, Database, World
<1>3. CASE candidates # {}
  <2>1. robot \in Robot
    <3>1. candidates \subseteq ToSet(last_used) /\ last_used \in Seq(Robot)
      BY DEF Types, Memory
    <3> HIDE DEF candidates
    <3>2. robot \in candidates
      BY <1>3, <3>1, FirstOfIsIn
    <3> QED BY <3>2 DEF candidates
  <2>2. now \in Nat
    BY NowIsLater DEF Types, Database
  <2>3. /\ tasks' = [tasks EXCEPT ![t].status = "assigned", ![t].robot = robot,
                                  ![t].assigned_at = now]
        /\ robots' = [robots EXCEPT ![robot].queue = Append(@, errand)]
    BY <1>3 DEF TryAssign
  <2> HIDE DEF robot, now, errand
  <2>4. TablesOK(tasks', shelves)
    BY <1>0, <2>1, <2>2, <2>3, AssignedKeeps DEF Types, Database
  <2> DEFINE q == Append(robots[robot].queue, errand)
             st == [robots[robot] EXCEPT !.queue = q]
  <2>5. robots[robot] \in RobotState
    BY <2>1 DEF Types, World
  <2>6. q \in Seq(Errand)
    BY <1>1, <2>5 DEF RobotState
  <2> HIDE DEF q
  <2>7. st \in RobotState /\ st.loaded = robots[robot].loaded /\ st.pc = robots[robot].pc
    BY <2>5, <2>6 DEF RobotState
  <2>8. robots' = [robots EXCEPT ![robot] = st]
    BY <2>3 DEF q
  <2> HIDE DEF st
  <2>9. World'
    BY <2>1, <2>7, <2>8 DEF Types, World
  <2> QED BY <2>4, <2>9
<1> QED BY <1>2, <1>3

\* Bringing a pallet back.
LEMMA ReclaimKeeps ==
  ASSUME OrdersAssumption, Types, NEW o \in Order, OutboundTask(o) # NoTask,
         NEW n, Reclaim(o, n)
  PROVE  TablesOK(tasks', shelves')
<1> DEFINE t == OutboundTask(o)
           row == Task("reclaim", o, tasks[t].target, tasks[t].source)
<1>1. /\ t \in 1..Len(tasks) /\ tasks[t].type = "outbound"
      /\ tasks[t].source \in Shelf /\ tasks[t].target \in Gate
  BY OutboundTaskIs DEF Types, Database, Ids
<1>2. row \in Row /\ RowOK(row) /\ OpenRow(row) /\ ShelfOf(row) = tasks[t].source
  <2>1. row = [type |-> "reclaim", status |-> "pending", robot |-> NoRobot, assigned_at |-> 0,
               order |-> o, source |-> tasks[t].target, target |-> tasks[t].source]
    BY DEF Task
  <2> HIDE DEF t
  <2>2. tasks[t].target \in Place /\ tasks[t].source \in Place
    BY <1>1 DEF Place
  <2> HIDE DEF row
  <2> QED BY <1>1, <2>1, <2>2 DEF Row, RowOK, OpenRow, ShelfOf
<1>3. /\ tasks' = Append([tasks EXCEPT ![t].status = "cancelled"], row)
      /\ shelves' = [shelves EXCEPT ![tasks[t].source].reserved_by = Len(tasks) + 1]
  BY DEF Reclaim, Close, Reserve
<1>4. TablesOK(tasks, shelves)
  BY DEF Types, Database
<1> HIDE DEF t, row
<1>5. TablesOK(Append([tasks EXCEPT ![t].status = "cancelled"], row),
               [shelves EXCEPT ![tasks[t].source].reserved_by = Len(tasks) + 1])
  BY <1>1, <1>2, <1>4, ReclaimedKeeps
<1> QED BY <1>3, <1>5

\* A new task.
LEMMA NewTaskKeeps ==
  ASSUME TablesOK(tasks, shelves), NEW type \in {"outbound", "inbound", "reclaim"},
         NEW o \in Order \cup {NoOrder}, NEW p \in Place, NEW q \in Place,
         RowOK(Task(type, o, p, q)), NEW s, s = ShelfOf(Task(type, o, p, q)),
         tasks' = Append(tasks, Task(type, o, p, q)),
         shelves' = Reserve(s, Len(tasks) + 1)
  PROVE  TablesOK(tasks', shelves')
<1> DEFINE row == Task(type, o, p, q)
<1>1. row \in Row /\ OpenRow(row)
  BY DEF Task, Row, OpenRow
<1>2. tasks' = Append(tasks, row) /\ RowOK(row) /\ s = ShelfOf(row)
      /\ shelves' = [shelves EXCEPT ![ShelfOf(row)].reserved_by = Len(tasks) + 1]
  BY DEF Reserve
<1> HIDE DEF row
<1>3. TablesOK(Append(tasks, row), [shelves EXCEPT ![ShelfOf(row)].reserved_by = Len(tasks) + 1])
  BY <1>1, <1>2, AddedKeeps
<1> QED BY <1>2, <1>3

\* Closing a task, with what becomes of its shelf.
LEMMA CloseKeeps ==
  ASSUME TablesOK(tasks, shelves), NEW t \in Ids, NEW status \in {"done", "cancelled"},
         NEW s, s = ShelfOf(tasks[t]), NEW l \in Location, l.reserved_by = NoTask,
         tasks' = Close(tasks, t, status), shelves' = [shelves EXCEPT ![s] = l]
  PROVE  TablesOK(tasks', shelves')
<1>1. /\ t \in 1..Len(tasks) /\ tasks' = [tasks EXCEPT ![t].status = status]
      /\ shelves' = [shelves EXCEPT ![ShelfOf(tasks[t])] = l]
  BY DEF Ids, Close
<1>2. TablesOK([tasks EXCEPT ![t].status = status], [shelves EXCEPT ![ShelfOf(tasks[t])] = l])
  BY <1>1, ClosedKeeps DEF Location
<1> QED BY <1>1, <1>2

\* What becomes of a shelf that is given back with what is on it.
LEMMA UnreservedIs ==
  ASSUME TablesOK(tasks, shelves), NEW s \in Shelf
  PROVE  LET l == [shelves[s] EXCEPT !.reserved_by = NoTask]
         IN  l \in Location /\ l.reserved_by = NoTask /\ Unreserve(s) = [shelves EXCEPT ![s] = l]
<1>1. shelves \in [Shelf -> Location]
  BY DEF TablesOK, Location
<1> QED BY <1>1 DEF Location, Unreserve, NoTask

\* The cancelled task of an order gives its shelf back.
LEMMA GivenBack ==
  ASSUME Database, NEW o, OutboundTask(o) # NoTask, UNCHANGED orders,
         tasks' = Close(tasks, OutboundTask(o), "cancelled"),
         shelves' = Unreserve(tasks[OutboundTask(o)].source)
  PROVE  Database'
<1> DEFINE t == OutboundTask(o)
           s == tasks[t].source
<1>0. orders \in [Order -> OrderStatus] /\ TablesOK(tasks, shelves)
  BY DEF Database
<1>1. t \in Ids /\ s \in Shelf /\ s = ShelfOf(tasks[t])
  BY <1>0, OutboundTaskIs
<1> HIDE DEF t
<1> DEFINE l == [shelves[s] EXCEPT !.reserved_by = NoTask]
<1>2. l \in Location /\ l.reserved_by = NoTask /\ shelves' = [shelves EXCEPT ![s] = l]
  BY <1>0, <1>1, UnreservedIs DEF t
<1> HIDE DEF l
<1>3. TablesOK(tasks', shelves')
  BY <1>0, <1>1, <1>2, CloseKeeps DEF t
<1> QED BY <1>0, <1>3 DEF Database

\* The task manager and the order server.
LEMMA TaskManagerKeeps ==
  ASSUME OrdersAssumption, Types, TaskManager
  PROVE  Database'
<1>0. /\ orders \in [Order -> OrderStatus] /\ TablesOK(tasks, shelves)
      /\ tasks \in Seq(Row) /\ Len(tasks) \in Nat
  BY DEF Types, Database, TablesOK
<1>1. ASSUME NEW o \in Order, CreateOutbound(o) PROVE Database'
  <2> DEFINE stock == {s \in Shelf : IsFull(s) /\ ~IsLocked(s)}
             free  == Gate \ OccupiedGates
             s == CHOOSE s \in stock : \A u \in stock : shelves[s].inbound_at <= shelves[u].inbound_at
             g == FirstOf(Gates, free)
  <2>1. CASE stock = {} \/ free = {}
    <3>1. UNCHANGED database
      BY <1>1, <2>1 DEF CreateOutbound
    <3> QED BY <1>0, <3>1 DEF Database, database
  <2>2. CASE stock # {} /\ free # {}
    <3>1. s \in Shelf
      <4>1. s \in stock
        <5>1. stock \in SUBSET Shelf
          OBVIOUS
        <5> HIDE DEF stock
        <5> QED BY <1>0, <2>2, <5>1, OldestIsStock
      <4> QED BY <4>1
    <3>2. g \in Gate
      <4>1. Gates \in Seq(Gate) /\ free # {} /\ free \subseteq ToSet(Gates)
        BY <2>2 DEF OrdersAssumption, Gate
      <4> HIDE DEF free
      <4> QED BY <4>1, FirstOfIsIn DEF Gate
    <3>3. /\ tasks' = Append(tasks, Task("outbound", o, s, g))
          /\ orders' = [orders EXCEPT ![o] = "processing"]
          /\ shelves' = Reserve(s, Len(tasks) + 1)
      BY <1>1, <2>2 DEF CreateOutbound
    <3> HIDE DEF s, g
    <3>4. RowOK(Task("outbound", o, s, g)) /\ s = ShelfOf(Task("outbound", o, s, g))
      BY <3>1, <3>2 DEF RowOK, ShelfOf, Task
    <3>5. s \in Place /\ g \in Place /\ o \in Order \cup {NoOrder}
      BY <3>1, <3>2 DEF Place
    <3>6. TablesOK(tasks', shelves')
      BY <1>0, <3>3, <3>4, <3>5, NewTaskKeeps
    <3> QED BY <1>0, <3>3, <3>6 DEF Database, OrderStatus
  <2> QED BY <2>1, <2>2
<1>2. ASSUME NEW o \in Order, ArmPickupTimer(o) PROVE Database'
  BY <1>0, <1>2 DEF ArmPickupTimer, Database, database
<1>3. ASSUME NEW o \in Order, OnOrderCancelled(o) PROVE Database'
  <2> DEFINE t == OutboundTask(o)
  <2>1. CASE UNCHANGED database
    BY <1>0, <2>1 DEF Database, database
  <2>2. ASSUME t # NoTask, tasks' = Close(tasks, t, "cancelled"),
               shelves' = Unreserve(tasks[t].source), UNCHANGED orders
        PROVE  Database'
    <3> QED BY <1>0, <2>2, GivenBack DEF Database
  <2> QED BY <1>3, <2>1, <2>2 DEF OnOrderCancelled
<1>4. ASSUME NEW o \in Order, OnReclaimRequest(o) PROVE Database'
  <2>1. CASE OutboundTask(o) = NoTask
    BY <1>0, <1>4, <2>1 DEF OnReclaimRequest, Database, database
  <2>2. CASE OutboundTask(o) # NoTask
    <3>1. Reclaim(o, Taken("reclaim")) /\ UNCHANGED orders
      BY <1>4, <2>2 DEF OnReclaimRequest
    <3>2. TablesOK(tasks', shelves')
      BY <2>2, <3>1, ReclaimKeeps
    <3> QED BY <1>0, <3>1, <3>2 DEF Database
  <2> QED BY <2>1, <2>2
<1>5. ASSUME NEW g \in Gate, OnCleared(g) PROVE Database'
  <2> DEFINE o == AwaitingAt(g)
             t == OutboundTask(o)
  <2>1. CASE o = NoOrder
    BY <1>0, <1>5, <2>1 DEF OnCleared, Database, database
  <2>2. CASE o # NoOrder
    <3>1. /\ tasks' = Close(tasks, t, "done")
          /\ orders' = [orders EXCEPT ![o] = "delivered"]
          /\ shelves' = [shelves EXCEPT ![tasks[t].source] = Emptied]
      BY <1>5, <2>2 DEF OnCleared
    <3>2. o \in Order /\ t # NoTask
      BY <1>0, <2>2, AwaitingIs
    <3> HIDE DEF o
    <3>3. t \in Ids /\ tasks[t].source = ShelfOf(tasks[t])
      BY <1>0, <3>2, OutboundTaskIs
    <3>4. Emptied \in Location /\ Emptied.reserved_by = NoTask
      BY DEF Emptied, Location, NoTask
    <3> HIDE DEF t
    <3>5. TablesOK(tasks', shelves')
      BY <1>0, <3>1, <3>3, <3>4, CloseKeeps
    <3> QED BY <1>0, <3>1, <3>2, <3>5 DEF Database, OrderStatus
  <2> QED BY <2>1, <2>2
<1>6. ASSUME OnInbound PROVE Database'
  <2> DEFINE free == {s \in Shelf : ~IsFull(s) /\ ~IsLocked(s)}
             s == FirstOf(Shelves, free)
  <2>1. CASE free = {}
    BY <1>0, <1>6, <2>1 DEF OnInbound, Database, database
  <2>2. CASE free # {}
    <3>1. s \in Shelf
      <4>1. Shelves \in Seq(Shelf) /\ free # {} /\ free \subseteq ToSet(Shelves) /\ free \subseteq Shelf
        BY <2>2 DEF OrdersAssumption, Shelf
      <4> HIDE DEF free
      <4> QED BY <4>1, FirstOfIsIn
    <3>2. /\ tasks' = Append(tasks, Task("inbound", NoOrder, Inbound, s))
          /\ shelves' = Reserve(s, Len(tasks) + 1) /\ UNCHANGED orders
      BY <1>6, <2>2 DEF OnInbound
    <3> HIDE DEF s
    <3>3. RowOK(Task("inbound", NoOrder, Inbound, s)) /\ s = ShelfOf(Task("inbound", NoOrder, Inbound, s))
      BY <3>1 DEF RowOK, ShelfOf, Task
    <3>4. s \in Place /\ Inbound \in Place /\ NoOrder \in Order \cup {NoOrder}
      BY <3>1 DEF Place
    <3>5. TablesOK(tasks', shelves')
      BY <1>0, <3>2, <3>3, <3>4, NewTaskKeeps
    <3> QED BY <1>0, <3>2, <3>5 DEF Database
  <2> QED BY <2>1, <2>2
<1> QED BY <1>1, <1>2, <1>3, <1>4, <1>5, <1>6 DEF TaskManager

\* The clock at a gate.
LEMMA CheckExpiredKeeps ==
  ASSUME OrdersAssumption, Types, NEW g \in Gate, CheckExpired(g)
  PROVE  Database'
<1> DEFINE o == AwaitingAt(g)
<1>0. orders \in [Order -> OrderStatus] /\ TablesOK(tasks, shelves)
  BY DEF Types, Database
<1>1. CASE o = NoOrder
  BY <1>0, <1>1 DEF CheckExpired, CancelAndReclaim, Database, database
<1>2. CASE o # NoOrder
  <2>1. orders' = [orders EXCEPT ![o] = "cancelled"] /\ Reclaim(o, net)
    BY <1>2 DEF CheckExpired, CancelAndReclaim
  <2>2. o \in Order /\ OutboundTask(o) # NoTask
    BY <1>0, <1>2, AwaitingIs
  <2> HIDE DEF o
  <2>3. TablesOK(tasks', shelves')
    BY <2>1, <2>2, ReclaimKeeps
  <2> QED BY <1>0, <2>1, <2>2, <2>3 DEF Database, OrderStatus
<1> QED BY <1>1, <1>2

\* What a report does to the tables and to the order of the robots.
LEMMA TaskReportKeeps ==
  ASSUME OrdersAssumption, Types, OnTaskReport
  PROVE  Database' /\ Memory'
<1>0. /\ orders \in [Order -> OrderStatus] /\ TablesOK(tasks, shelves)
      /\ tasks \in Seq(Row) /\ Len(tasks) \in Nat
  BY DEF Types, Database, TablesOK
<1>1. UNCHANGED <<deadlines, untimed, seen>>
  BY DEF OnTaskReport
<1>2. ASSUME NEW r \in Robot, Used(r) \/ UNCHANGED last_used PROVE Memory'
  <2>1. last_used \in Seq(Robot) /\ ToSet(last_used) = Robot
    BY DEF Types, Memory
  <2>2. CASE Used(r)
    <3> DEFINE i == CHOOSE i \in 1..Len(last_used) : last_used[i] = r
    <3>1. i \in 1..Len(last_used) /\ last_used[i] = r
      <4>1. \E k \in 1..Len(last_used) : last_used[k] = r
        BY <2>1 DEF ToSet
      <4> QED BY <4>1
    <3>2. last_used' = Append(RemoveAt(last_used, i), last_used[i])
      BY <2>2, <3>1 DEF Used
    <3> HIDE DEF i
    <3>3. last_used' \in Seq(Robot) /\ ToSet(last_used') = Robot
      BY <2>1, <3>1, <3>2, LastNowKeepsAll
    <3> QED BY <1>1, <3>3 DEF Types, Memory
  <2>3. CASE UNCHANGED last_used
    BY <1>1, <2>3 DEF Types, Memory
  <2> QED BY <1>2, <2>2, <2>3
<1>3. ASSUME NEW r \in Robot, OnTargetDone(r) PROVE Database' /\ Memory'
  <2> DEFINE t == LastAssigned(AssignedTo(r))
             o == tasks[t].order
  <2>1. CASE AssignedTo(r) = {}
    <3>1. UNCHANGED <<database, last_used>>
      BY <1>3, <2>1 DEF OnTargetDone
    <3> QED BY <1>0, <1>2, <3>1 DEF Database, database
  <2>2. CASE AssignedTo(r) # {}
    <3>1. t \in Ids /\ tasks[t] \in Row /\ RowOK(tasks[t])
      <4>1. AssignedTo(r) \in SUBSET Ids
        BY DEF AssignedTo
      <4>2. t \in Ids
        BY <1>0, <2>2, <4>1, LastAssignedIs
      <4> HIDE DEF t
      <4> QED BY <1>0, <4>2, IdsAreTasks
    <3>2. Used(r)
      BY <1>3, <2>2 DEF OnTargetDone
    <3>3. \/ /\ tasks[t].type # "outbound" /\ tasks' = Close(tasks, t, "done")
             /\ shelves' = [shelves EXCEPT ![tasks[t].target] = Filled] /\ UNCHANGED orders
          \/ UNCHANGED database
          \/ /\ tasks[t].type = "outbound" /\ orders' = [orders EXCEPT ![o] = "awaiting_pickup"]
             /\ UNCHANGED <<tasks, shelves>>
      BY <1>3, <2>2 DEF OnTargetDone
    <3> HIDE DEF t
    <3>4. ASSUME tasks[t].type # "outbound", tasks' = Close(tasks, t, "done"),
                 shelves' = [shelves EXCEPT ![tasks[t].target] = Filled], UNCHANGED orders
          PROVE  Database'
      <4>1. tasks[t].target \in Shelf /\ tasks[t].target = ShelfOf(tasks[t])
        BY <3>1, <3>4 DEF ShelfOf, RowOK, Row
      <4>2. Filled \in Location /\ Filled.reserved_by = NoTask
        BY <1>0, <4>1, FilledIsLocation
      <4>3. TablesOK(tasks', shelves')
        BY <1>0, <3>1, <3>4, <4>1, <4>2, CloseKeeps
      <4> QED BY <1>0, <3>4, <4>3 DEF Database
    <3>5. ASSUME tasks[t].type = "outbound", orders' = [orders EXCEPT ![o] = "awaiting_pickup"],
                 UNCHANGED <<tasks, shelves>>
          PROVE  Database'
      BY <1>0, <3>1, <3>5 DEF Database, RowOK, OrderStatus
    <3>6. ASSUME UNCHANGED database PROVE Database'
      BY <1>0, <3>6 DEF Database, database
    <3> QED BY <1>2, <3>2, <3>3, <3>4, <3>5, <3>6
  <2> QED BY <2>1, <2>2
<1>4. ASSUME NEW r \in Robot, NEW o \in Order \cup {NoOrder}, FinishCustomerCancel(r, o)
      PROVE  Database' /\ Memory'
  <2> DEFINE t == OutboundTask(o)
  <2>1. CASE t = NoTask
    <3>1. UNCHANGED <<database, last_used>>
      BY <1>4, <2>1 DEF FinishCustomerCancel
    <3> QED BY <1>0, <1>2, <3>1 DEF Database, database
  <2>2. CASE t # NoTask
    <3>1. /\ tasks' = Close(tasks, t, "cancelled") /\ shelves' = Unreserve(tasks[t].source)
          /\ UNCHANGED orders /\ Used(r)
      BY <1>4, <2>2 DEF FinishCustomerCancel
    <3> QED BY <1>0, <1>2, <2>2, <3>1, GivenBack DEF Database
  <2> QED BY <2>1, <2>2
<1> QED BY <1>3, <1>4 DEF OnTaskReport

\* A robot of which one thing changes.
LEMMA WithPc ==
  ASSUME NEW x \in RobotState, NEW v \in Pc
  PROVE  LET y == [x EXCEPT !.pc = v]
         IN  /\ y \in RobotState /\ y.pc = v /\ y.source = x.source /\ y.target = x.target
             /\ y.loaded = x.loaded /\ y.cancel = x.cancel /\ y.oid = x.oid /\ y.queue = x.queue
  BY DEF RobotState

LEMMA WithSource ==
  ASSUME NEW x \in RobotState, NEW v \in Place
  PROVE  LET y == [x EXCEPT !.source = v]
         IN  /\ y \in RobotState /\ y.source = v /\ y.pc = x.pc /\ y.target = x.target
             /\ y.loaded = x.loaded /\ y.cancel = x.cancel /\ y.oid = x.oid /\ y.queue = x.queue
  BY DEF RobotState

LEMMA WithTarget ==
  ASSUME NEW x \in RobotState, NEW v \in Place
  PROVE  LET y == [x EXCEPT !.target = v]
         IN  /\ y \in RobotState /\ y.target = v /\ y.pc = x.pc /\ y.source = x.source
             /\ y.loaded = x.loaded /\ y.cancel = x.cancel /\ y.oid = x.oid /\ y.queue = x.queue
  BY DEF RobotState

LEMMA WithLoaded ==
  ASSUME NEW x \in RobotState, NEW v \in BOOLEAN
  PROVE  LET y == [x EXCEPT !.loaded = v]
         IN  /\ y \in RobotState /\ y.loaded = v /\ y.pc = x.pc /\ y.source = x.source
             /\ y.target = x.target /\ y.cancel = x.cancel /\ y.oid = x.oid /\ y.queue = x.queue
  BY DEF RobotState

LEMMA WithCancel ==
  ASSUME NEW x \in RobotState, NEW v \in Order \cup {NoOrder}
  PROVE  LET y == [x EXCEPT !.cancel = v]
         IN  /\ y \in RobotState /\ y.cancel = v /\ y.pc = x.pc /\ y.source = x.source
             /\ y.target = x.target /\ y.loaded = x.loaded /\ y.oid = x.oid /\ y.queue = x.queue
  BY DEF RobotState

LEMMA WithOid ==
  ASSUME NEW x \in RobotState, NEW v \in Order \cup {NoOrder}
  PROVE  LET y == [x EXCEPT !.oid = v]
         IN  /\ y \in RobotState /\ y.oid = v /\ y.pc = x.pc /\ y.source = x.source
             /\ y.target = x.target /\ y.loaded = x.loaded /\ y.cancel = x.cancel /\ y.queue = x.queue
  BY DEF RobotState

LEMMA WithQueue ==
  ASSUME NEW x \in RobotState, NEW v \in Seq(Errand)
  PROVE  LET y == [x EXCEPT !.queue = v]
         IN  /\ y \in RobotState /\ y.queue = v /\ y.pc = x.pc /\ y.source = x.source
             /\ y.target = x.target /\ y.loaded = x.loaded /\ y.cancel = x.cancel /\ y.oid = x.oid
  BY DEF RobotState

\* A robot after its mission has forgotten all but its queue.
LEMMA FreeIs ==
  ASSUME NEW r \in Robot, robots[r] \in RobotState
  PROVE  /\ Free(r) \in RobotState /\ ~Free(r).loaded /\ Free(r).pc = "idle"
         /\ Free(r).queue = robots[r].queue /\ Free(r).cancel = NoOrder /\ Free(r).oid = NoOrder
<1>1. /\ Waiting \in RobotState /\ ~Waiting.loaded /\ Waiting.pc = "idle"
      /\ Waiting.cancel = NoOrder /\ Waiting.oid = NoOrder
  BY DEF Waiting, RobotState, Pc, Place
<1>2. robots[r].queue \in Seq(Errand)
  BY DEF RobotState
<1>3. Free(r) = [Waiting EXCEPT !.queue = robots[r].queue]
  BY Zenon DEF Free
<1> DEFINE y == [Waiting EXCEPT !.queue = robots[r].queue]
<1>4. /\ y \in RobotState /\ y.loaded = Waiting.loaded /\ y.pc = Waiting.pc
      /\ y.queue = robots[r].queue /\ y.cancel = Waiting.cancel /\ y.oid = Waiting.oid
  BY <1>1, <1>2, WithQueue, Zenon
<1> HIDE DEF y
<1>5. Free(r) = y
  BY <1>3 DEF y
<1> QED BY <1>1, <1>4, <1>5

\* What becomes of a robot that takes an assignment, ...
LEMMA AssignmentIs ==
  ASSUME World, NEW r \in Robot, TakeAssignment(r)
  PROVE  \E new \in RobotState :
           /\ robots' = [robots EXCEPT ![r] = new] /\ new.pc = "toSource" /\ new.loaded = robots[r].loaded
           /\ new.queue = Tail(robots[r].queue) /\ new.cancel = robots[r].cancel /\ new.oid = robots[r].oid
           /\ new.source = Head(robots[r].queue).source /\ new.target = Head(robots[r].queue).target
<1> DEFINE st == robots[r]
           job == Head(st.queue)
           a == [st EXCEPT !.pc = "toSource"]
           b == [a EXCEPT !.queue = Tail(st.queue)]
           c == [b EXCEPT !.source = job.source]
           new == [c EXCEPT !.target = job.target]
<1>1. robots \in [Robot -> RobotState] /\ st \in RobotState /\ st.queue # <<>> /\ "toSource" \in Pc
  BY DEF World, TakeAssignment, Pc
<1>2. job \in Errand /\ Tail(st.queue) \in Seq(Errand)
  BY <1>1 DEF RobotState
<1>3. job.source \in Place /\ job.target \in Place
  BY <1>2 DEF Errand
<1>4. robots' = [robots EXCEPT ![r].pc = "toSource", ![r].queue = Tail(@),
                               ![r].source = job.source, ![r].target = job.target]
  BY DEF TakeAssignment
<1>5. robots' = [robots EXCEPT ![r] =
                   [[[[st EXCEPT !.pc = "toSource"] EXCEPT !.queue = Tail(st.queue)]
                       EXCEPT !.source = job.source] EXCEPT !.target = job.target]]
  <2> HIDE DEF job
  <2> QED BY <1>1, <1>4 DEF RobotState
<1> HIDE DEF job
<1>6. /\ a \in RobotState /\ a.pc = "toSource" /\ a.loaded = st.loaded /\ a.cancel = st.cancel
      /\ a.oid = st.oid
  BY <1>1, WithPc, Zenon
<1> HIDE DEF a
<1>7. /\ b \in RobotState /\ b.pc = "toSource" /\ b.loaded = st.loaded /\ b.cancel = st.cancel
      /\ b.oid = st.oid /\ b.queue = Tail(st.queue)
  BY <1>2, <1>6, WithQueue, Zenon
<1> HIDE DEF b
<1>8. /\ c \in RobotState /\ c.pc = "toSource" /\ c.loaded = st.loaded /\ c.cancel = st.cancel
      /\ c.oid = st.oid /\ c.queue = Tail(st.queue) /\ c.source = job.source
  BY <1>3, <1>7, WithSource, Zenon
<1> HIDE DEF c
<1>9. /\ new \in RobotState /\ new.pc = "toSource" /\ new.loaded = st.loaded /\ new.cancel = st.cancel
      /\ new.oid = st.oid /\ new.queue = Tail(st.queue)
      /\ new.source = job.source /\ new.target = job.target
  BY <1>3, <1>8, WithTarget, Zenon
<1>10. robots' = [robots EXCEPT ![r] = new]
  BY <1>5, Zenon DEF a, b, c
<1> HIDE DEF new
<1> QED BY <1>9, <1>10 DEF job

\* ... is told to stop, ...
LEMMA StoppedIs ==
  ASSUME World, NEW r \in Robot, NEW o \in Order, robots' = [robots EXCEPT ![r].cancel = o]
  PROVE  \E new \in RobotState :
           /\ robots' = [robots EXCEPT ![r] = new] /\ new.pc = robots[r].pc
           /\ new.loaded = robots[r].loaded /\ new.queue = robots[r].queue
           /\ new.cancel = o /\ new.oid = robots[r].oid
           /\ new.source = robots[r].source /\ new.target = robots[r].target
<1> DEFINE st == robots[r]
           new == [st EXCEPT !.cancel = o]
<1>1. st \in RobotState /\ o \in Order \cup {NoOrder}
  BY DEF World
<1>2. /\ new \in RobotState /\ new.pc = st.pc /\ new.loaded = st.loaded /\ new.queue = st.queue
      /\ new.cancel = o /\ new.oid = st.oid /\ new.source = st.source /\ new.target = st.target
  BY <1>1, WithCancel, Zenon
<1>3. robots' = [robots EXCEPT ![r] = new]
  OBVIOUS
<1> HIDE DEF new
<1> QED BY <1>2, <1>3

\* ... has lifted a pallet, ...
LEMMA PickUpIs ==
  ASSUME World, NEW r \in Robot, PickUp(r)
  PROVE  \E new \in RobotState :
           /\ robots' = [robots EXCEPT ![r] = new]
           /\ new.pc = IF robots[r].cancel # NoOrder THEN "back" ELSE "toTarget"
           /\ new.queue = robots[r].queue /\ new.cancel = NoOrder /\ new.oid = robots[r].cancel
           /\ new.source = robots[r].source /\ new.target = robots[r].target
           /\ new.loaded = (floor[robots[r].source] > 0)
<1> DEFINE st == robots[r]
           pc == IF st.cancel # NoOrder THEN "back" ELSE "toTarget"
           l == floor[st.source] > 0
           order == st.cancel
           a == [st EXCEPT !.pc = pc]
           b == [a EXCEPT !.oid = order]
           c == [b EXCEPT !.cancel = NoOrder]
           new == [c EXCEPT !.loaded = l]
<1>0. robots \in [Robot -> RobotState] /\ st \in RobotState /\ NoOrder \in Order \cup {NoOrder}
      /\ st.cancel \in Order \cup {NoOrder} /\ st.source \in Place /\ floor \in [Place -> Nat]
  BY DEF World, RobotState
<1>1. robots' = [robots EXCEPT ![r].pc = pc, ![r].oid = order, ![r].cancel = NoOrder, ![r].loaded = l]
  BY DEF PickUp
<1>2. pc \in Pc /\ order \in Order \cup {NoOrder}
  BY <1>0 DEF Pc
<1>3. l \in BOOLEAN
  BY <1>0
<1> HIDE DEF l, pc, order
<1>4. robots' = [robots EXCEPT ![r] =
                   [[[[st EXCEPT !.pc = pc] EXCEPT !.oid = order] EXCEPT !.cancel = NoOrder]
                      EXCEPT !.loaded = l]]
  BY <1>0, <1>1 DEF RobotState
<1>5. a \in RobotState /\ a.pc = pc /\ a.queue = st.queue /\ a.source = st.source /\ a.target = st.target
  BY <1>0, <1>2, WithPc, Zenon
<1> HIDE DEF a
<1>6. b \in RobotState /\ b.pc = pc /\ b.queue = st.queue /\ b.oid = order
      /\ b.source = st.source /\ b.target = st.target
  BY <1>2, <1>5, WithOid, Zenon
<1> HIDE DEF b
<1>7. c \in RobotState /\ c.pc = pc /\ c.queue = st.queue /\ c.oid = order /\ c.cancel = NoOrder
      /\ c.source = st.source /\ c.target = st.target
  BY <1>0, <1>6, WithCancel, Zenon
<1> HIDE DEF c
<1>8. /\ new \in RobotState /\ new.pc = pc /\ new.queue = st.queue /\ new.oid = order
      /\ new.cancel = NoOrder /\ new.source = st.source /\ new.target = st.target /\ new.loaded = l
  BY <1>3, <1>7, WithLoaded, Zenon
<1>9. robots' = [robots EXCEPT ![r] = new]
  BY <1>4, Zenon DEF a, b, c
<1> HIDE DEF new
<1> QED BY <1>8, <1>9 DEF pc, order, l

\* ... turns back with it, ...
LEMMA TurnBackIs ==
  ASSUME World, NEW r \in Robot, TurnBack(r)
  PROVE  \E new \in RobotState :
           /\ robots' = [robots EXCEPT ![r] = new] /\ new.pc = "back"
           /\ new.queue = robots[r].queue /\ new.cancel = NoOrder /\ new.oid = robots[r].cancel
           /\ new.source = robots[r].source /\ new.target = robots[r].target
           /\ new.loaded = robots[r].loaded
<1> DEFINE st == robots[r]
           a == [st EXCEPT !.pc = "back"]
           b == [a EXCEPT !.oid = st.cancel]
           new == [b EXCEPT !.cancel = NoOrder]
<1>0. robots \in [Robot -> RobotState] /\ st \in RobotState /\ NoOrder \in Order \cup {NoOrder}
      /\ st.cancel \in Order \cup {NoOrder} /\ "back" \in Pc
  BY DEF World, RobotState, Pc
<1>1. robots' = [robots EXCEPT ![r] =
                   [[[st EXCEPT !.pc = "back"] EXCEPT !.oid = st.cancel] EXCEPT !.cancel = NoOrder]]
  BY <1>0 DEF TurnBack, RobotState
<1>2. a \in RobotState /\ a.pc = "back" /\ a.queue = st.queue
      /\ a.source = st.source /\ a.target = st.target /\ a.loaded = st.loaded
  BY <1>0, WithPc, Zenon
<1> HIDE DEF a
<1>3. b \in RobotState /\ b.pc = "back" /\ b.queue = st.queue /\ b.oid = st.cancel
      /\ b.source = st.source /\ b.target = st.target /\ b.loaded = st.loaded
  BY <1>0, <1>2, WithOid, Zenon
<1> HIDE DEF b
<1>4. /\ new \in RobotState /\ new.pc = "back" /\ new.queue = st.queue /\ new.oid = st.cancel
      /\ new.cancel = NoOrder /\ new.source = st.source /\ new.target = st.target /\ new.loaded = st.loaded
  BY <1>0, <1>3, WithCancel, Zenon
<1>5. robots' = [robots EXCEPT ![r] = new]
  BY <1>1, Zenon DEF a, b
<1> HIDE DEF new
<1> QED BY <1>4, <1>5

\* ... or begins to put it down ...
LEMMA PlacingIs ==
  ASSUME World, NEW r \in Robot, StartPlacing(r)
  PROVE  \E new \in RobotState :
           /\ robots' = [robots EXCEPT ![r] = new] /\ new.pc = "placing"
           /\ new.queue = robots[r].queue /\ new.cancel = robots[r].cancel /\ new.oid = robots[r].oid
           /\ new.source = robots[r].source /\ new.target = robots[r].target
           /\ new.loaded = robots[r].loaded
<1> DEFINE st == robots[r]
           new == [st EXCEPT !.pc = "placing"]
<1>1. st \in RobotState /\ "placing" \in Pc
  BY DEF World, Pc
<1>2. robots' = [robots EXCEPT ![r] = new]
  BY DEF StartPlacing
<1>3. /\ new \in RobotState /\ new.pc = "placing" /\ new.queue = st.queue /\ new.cancel = st.cancel
      /\ new.oid = st.oid /\ new.source = st.source /\ new.target = st.target /\ new.loaded = st.loaded
  BY <1>1, WithPc, Zenon
<1> HIDE DEF new
<1> QED BY <1>2, <1>3

\* ... and has brought it back.
LEMMA ReturnedIs ==
  ASSUME World, NEW r \in Robot, ReturnPallet(r)
  PROVE  \E new \in RobotState :
           /\ robots' = [robots EXCEPT ![r] = new] /\ new.pc = "idle" /\ ~new.loaded
           /\ new.queue = robots[r].queue /\ new.cancel = robots[r].cancel /\ new.oid = NoOrder
<1> DEFINE x == Free(r)
           new == [x EXCEPT !.cancel = robots[r].cancel]
<1>1. robots[r] \in RobotState /\ robots[r].cancel \in Order \cup {NoOrder}
  BY DEF World, RobotState
<1>2. /\ x \in RobotState /\ ~x.loaded /\ x.pc = "idle" /\ x.queue = robots[r].queue /\ x.oid = NoOrder
  BY <1>1, FreeIs
<1>3. robots' = [robots EXCEPT ![r] = new]
  BY DEF ReturnPallet
<1> HIDE DEF x
<1>4. /\ new \in RobotState /\ new.loaded = x.loaded /\ new.pc = x.pc /\ new.queue = x.queue
      /\ new.cancel = robots[r].cancel /\ new.oid = x.oid
  BY <1>1, <1>2, WithCancel, Zenon
<1> HIDE DEF new
<1> QED BY <1>2, <1>3, <1>4

\* What a robot does, whatever it has been told.
LEMMA DriveKeeps ==
  ASSUME OrdersAssumption, World, NEW r \in Robot, Drive(r)
  PROVE  World'
<1> DEFINE st == robots[r]
<1>0. /\ robots \in [Robot -> RobotState] /\ floor \in [Place -> Nat]
      /\ \A x \in Robot : robots[x].loaded => robots[x].pc \in {"toTarget", "placing", "back"}
      /\ st \in RobotState
  BY DEF World
<1>1. \* It is enough to look at the robot itself, and at one place.
      ASSUME NEW new \in RobotState, new.loaded => new.pc \in {"toTarget", "placing", "back"},
             robots' = [robots EXCEPT ![r] = new], floor' \in [Place -> Nat]
      PROVE  World'
  BY <1>0, <1>1 DEF World
<1>2. /\ st.source \in Place /\ st.target \in Place
      /\ st.loaded => st.pc \in {"toTarget", "placing", "back"}
  BY <1>0 DEF RobotState
<1>3. ASSUME NEW p \in Place, floor' = Left(p) \/ floor' = [floor EXCEPT ![p] = @ + 1] \/ floor' = floor
      PROVE  floor' \in [Place -> Nat]
  BY <1>0, <1>3, SMTT(60) DEF Left
<1>4. ASSUME TakeAssignment(r) PROVE World'
  <2>1. st.pc = "idle" /\ floor' = floor
    BY <1>4 DEF TakeAssignment, Does
  <2> QED BY <1>0, <1>1, <1>2, <1>4, <2>1, AssignmentIs
<1>5. ASSUME OnCancelMission(r) PROVE World'
  <2>1. PICK o \in Order : robots' = [robots EXCEPT ![r].cancel = o] /\ floor' = floor
    BY <1>5 DEF OnCancelMission
  <2> QED BY <1>0, <1>1, <1>2, <2>1, StoppedIs
<1>6. ASSUME AbortEmpty(r) PROVE World'
  <2>1. robots' = [robots EXCEPT ![r] = Free(r)] /\ floor' = floor
    BY <1>6 DEF AbortEmpty
  <2> QED BY <1>0, <1>1, <2>1, FreeIs
<1>7. ASSUME PickUp(r) PROVE World'
  <2>1. floor' = Left(st.source)
    BY <1>7 DEF PickUp
  <2>2. floor' \in [Place -> Nat]
    BY <1>2, <1>3, <2>1
  <2> QED BY <1>1, <1>7, <2>2, PickUpIs
<1>8. ASSUME TurnBack(r) PROVE World'
  <2>1. floor' = floor
    BY <1>8 DEF TurnBack
  <2> QED BY <1>0, <1>1, <1>8, <2>1, TurnBackIs
<1>9. ASSUME StartPlacing(r) PROVE World'
  <2>1. floor' = floor
    BY <1>9 DEF StartPlacing
  <2> QED BY <1>0, <1>1, <1>9, <2>1, PlacingIs
<1>10. ASSUME PlacePallet(r) PROVE World'
  <2>1. robots' = [robots EXCEPT ![r] = Free(r)]
    BY <1>10 DEF PlacePallet
  <2>2. floor' = floor \/ floor' = [floor EXCEPT ![st.target] = @ + 1]
    BY <1>10 DEF PlacePallet, PutDown
  <2>3. floor' \in [Place -> Nat]
    BY <1>2, <1>3, <2>2
  <2> QED BY <1>0, <1>1, <2>1, <2>3, FreeIs
<1>11. ASSUME ReturnPallet(r) PROVE World'
  <2>1. floor' = floor \/ floor' = [floor EXCEPT ![st.source] = @ + 1]
    BY <1>11 DEF ReturnPallet, PutDown
  <2>2. floor' \in [Place -> Nat]
    BY <1>2, <1>3, <2>1
  <2> QED BY <1>1, <1>11, <2>2, ReturnedIs
<1> QED BY <1>4, <1>5, <1>6, <1>7, <1>8, <1>9, <1>10, <1>11 DEF Drive

\* What the clock, the reports and the robots write about gates and robots.
LEMMA MemoryKept ==
  ASSUME OrdersAssumption, Types, [Next]_vars
  PROVE  Memory'
<1>0. /\ deadlines \in [Gate -> Order \cup {NoOrder}] /\ untimed \subseteq Order
      /\ seen \in [Robot -> {"idle", "busy"}]
      /\ last_used \in Seq(Robot) /\ ToSet(last_used) = Robot
  BY DEF Types, Memory
<1>1. ASSUME UNCHANGED memory PROVE Memory'
  BY <1>0, <1>1 DEF memory, Memory
<1>2. ASSUME NEW g \in Gate, deadlines' = [deadlines EXCEPT ![g] = NoOrder],
             UNCHANGED <<untimed, seen, last_used>>
      PROVE  Memory'
  BY <1>0, <1>2 DEF Memory
<1>3. ASSUME NEW o \in Order, ArmPickupTimer(o) PROVE Memory'
  BY <1>0, <1>3 DEF ArmPickupTimer, Memory
<1>4. ASSUME NEW g \in Gate, OnCleared(g) PROVE Memory'
  BY <1>2, <1>4 DEF OnCleared
<1>5. ASSUME TaskManager PROVE Memory'
  <2>1. ASSUME NEW o \in Order, CreateOutbound(o) \/ OnOrderCancelled(o) \/ OnReclaimRequest(o)
        PROVE  Memory'
    BY <1>1, <2>1 DEF CreateOutbound, OnOrderCancelled, OnReclaimRequest
  <2>2. ASSUME OnInbound PROVE Memory'
    BY <1>1, <2>2 DEF OnInbound
  <2> QED BY <1>3, <1>4, <1>5, <2>1, <2>2 DEF TaskManager
<1>6. ASSUME TaskRestart PROVE Memory'
  BY <1>0, <1>6 DEF TaskRestart, Memory
<1>7. ASSUME OnNewTask PROVE Memory'
  BY <1>1, <1>7 DEF OnNewTask
<1>8. ASSUME OnTaskReport PROVE Memory'
  BY <1>8, TaskReportKeeps
<1>9. ASSUME NEW r \in Robot, OnRobotStatus(r) PROVE Memory'
  BY <1>0, <1>9 DEF OnRobotStatus, Status, Memory
<1>10. ASSUME NEW r \in Robot, Drive(r) PROVE Memory'
  BY <1>1, <1>10 DEF Drive, TakeAssignment, OnCancelMission, AbortEmpty, PickUp, TurnBack,
                     StartPlacing, PlacePallet, ReturnPallet
<1>11. ASSUME NEW g \in Gate, CheckExpired(g) PROVE Memory'
  BY <1>2, <1>11 DEF CheckExpired
<1>12. ASSUME NEW g \in Gate, PickedUp(g) PROVE Memory'
  BY <1>1, <1>12 DEF PickedUp
<1>13. ASSUME Arrive PROVE Memory'
  BY <1>1, <1>13 DEF Arrive
<1>14. ASSUME NEW o \in Order, CreateOrder(o) \/ CancelOrder(o) \/ OperatorCancels(o) PROVE Memory'
  BY <1>1, <1>14 DEF CreateOrder, CancelOrder, OperatorCancels, Cancelled
<1>15. ASSUME UNCHANGED vars PROVE Memory'
  BY <1>1, <1>15 DEF vars, memory
<1> QED BY <1>5, <1>6, <1>7, <1>8, <1>9, <1>10, <1>11, <1>12, <1>13, <1>14, <1>15
        DEF Next, FleetManager

\* The tables and the robots.
LEMMA TablesAndWorldKept ==
  ASSUME OrdersAssumption, Types, [Next]_vars
  PROVE  Database' /\ World'
<1>0. orders \in [Order -> OrderStatus] /\ TablesOK(tasks, shelves)
  BY DEF Types, Database
<1>1. ASSUME UNCHANGED database PROVE Database'
  BY <1>0, <1>1 DEF database, Database
<1>2. ASSUME UNCHANGED <<robots, floor>> PROVE World'
  BY <1>2 DEF Types, World
<1>3. ASSUME NEW o \in Order, CreateOrder(o) \/ CancelOrder(o) \/ OperatorCancels(o)
      PROVE  Database' /\ World'
  <2>1. UNCHANGED <<tasks, shelves, robots, floor>>
        /\ (orders' = [orders EXCEPT ![o] = "pending"] \/ orders' = [orders EXCEPT ![o] = "cancelled"])
    BY <1>3 DEF CreateOrder, CancelOrder, OperatorCancels, Cancelled, world
  <2> QED BY <1>0, <1>2, <2>1 DEF Database, OrderStatus
<1>4. ASSUME TaskManager PROVE Database' /\ World'
  <2>1. UNCHANGED <<robots, floor>>
    BY <1>4 DEF TaskManager, CreateOutbound, ArmPickupTimer, OnOrderCancelled, OnReclaimRequest,
                OnCleared, OnInbound, world
  <2> QED BY <1>2, <1>4, <2>1, TaskManagerKeeps
<1>5. ASSUME TaskRestart PROVE Database' /\ World'
  BY <1>1, <1>2, <1>5 DEF TaskRestart, world
<1>6. ASSUME OnNewTask PROVE Database' /\ World'
  <2>1. PICK t \in Ids : TryAssign(t, seen)
    BY <1>6 DEF OnNewTask
  <2>2. orders' = orders /\ shelves' = shelves /\ floor' = floor
    BY <1>6 DEF OnNewTask
  <2>3. TablesOK(tasks', shelves) /\ World'
    BY <2>1, <2>2, TryAssignKeeps
  <2> QED BY <1>0, <2>2, <2>3 DEF Database
<1>7. ASSUME NEW r \in Robot, OnRobotStatus(r) PROVE Database' /\ World'
  <2> DEFINE pending == {t \in Ids : tasks[t].status = "pending"}
  <2>1. orders' = orders /\ shelves' = shelves /\ floor' = floor
    BY <1>7 DEF OnRobotStatus
  <2>2. CASE UNCHANGED <<tasks, robots>>
    BY <1>1, <1>2, <2>1, <2>2 DEF database
  <2>3. ASSUME pending # {}, TryAssign(Min(pending), seen') PROVE Database' /\ World'
    <3>1. Min(pending) \in Ids
      <4>1. pending \in SUBSET Nat /\ pending \subseteq Ids
        BY DEF Ids
      <4> HIDE DEF pending
      <4> QED BY <2>3, <4>1, MinOfNats
    <3> HIDE DEF pending
    <3>2. TablesOK(tasks', shelves) /\ World'
      BY <2>1, <2>3, <3>1, TryAssignKeeps
    <3> QED BY <1>0, <2>1, <3>2 DEF Database
  <2> QED BY <1>7, <2>2, <2>3 DEF OnRobotStatus
<1>8. ASSUME OnTaskReport PROVE Database' /\ World'
  <2>1. UNCHANGED <<robots, floor>>
    BY <1>8 DEF OnTaskReport, world
  <2> QED BY <1>2, <1>8, <2>1, TaskReportKeeps
<1>9. ASSUME NEW r \in Robot, Drive(r) PROVE Database' /\ World'
  <2>1. UNCHANGED database
    BY <1>9 DEF Drive, TakeAssignment, OnCancelMission, AbortEmpty, PickUp, TurnBack,
                StartPlacing, PlacePallet, ReturnPallet
  <2> QED BY <1>1, <1>9, <2>1, DriveKeeps DEF Types
<1>10. ASSUME NEW g \in Gate, CheckExpired(g) PROVE Database' /\ World'
  <2>1. UNCHANGED <<robots, floor>>
    BY <1>10 DEF CheckExpired, world
  <2> QED BY <1>2, <1>10, <2>1, CheckExpiredKeeps
<1>11. ASSUME NEW g \in Gate, PickedUp(g) PROVE Database' /\ World'
  <2>1. UNCHANGED <<database, robots>> /\ floor' = Left(g) /\ g \in Place
    BY <1>11 DEF PickedUp, Place
  <2> QED BY <1>1, <2>1 DEF Types, World, Left
<1>12. ASSUME Arrive PROVE Database' /\ World'
  <2>1. UNCHANGED <<database, robots>> /\ floor' = [floor EXCEPT ![Inbound] = 1] /\ Inbound \in Place
    BY <1>12 DEF Arrive, Place
  <2> QED BY <1>1, <2>1 DEF Types, World
<1>13. ASSUME UNCHANGED vars PROVE Database' /\ World'
  BY <1>1, <1>2, <1>13 DEF vars, database
<1> QED BY <1>3, <1>4, <1>5, <1>6, <1>7, <1>8, <1>9, <1>10, <1>11, <1>12, <1>13
        DEF Next, FleetManager

\* The stock at the start lies in a shelf with a place in the list.
LEMMA InitTypes ==
  ASSUME OrdersAssumption, Init
  PROVE  Types
<1>1. Memory
  BY DEF Init, Memory, OrdersAssumption, Robot
<1>2. Database
  <2>1. \A s \in Shelf : Position(s) \in Nat
    <3> SUFFICES ASSUME NEW s \in Shelf PROVE Position(s) \in Nat
      OBVIOUS
    <3>1. Shelves \in Seq(Shelf) /\ \E i \in 1..Len(Shelves) : Shelves[i] = s
      BY DEF OrdersAssumption, Shelf, ToSet
    <3>2. Position(s) \in 1..Len(Shelves)
      BY <3>1 DEF Position
    <3> QED BY <3>1, <3>2
  <2>2. shelves \in [Shelf -> [inbound_at : Nat, reserved_by : Nat]]
        /\ \A s \in Shelf : shelves[s].reserved_by = NoTask
    BY <2>1 DEF Init, NoTask
  <2>3. tasks \in Seq(Row) /\ Len(tasks) = 0
    BY DEF Init
  <2>4. orders \in [Order -> OrderStatus]
    BY DEF Init, OrderStatus
  <2> QED BY <2>2, <2>3, <2>4 DEF Database, TablesOK
<1>3. World
  <2>1. Waiting \in RobotState /\ ~Waiting.loaded
    BY DEF Waiting, RobotState, Pc, Place
  <2>2. floor \in [Place -> Nat]
    BY DEF Init
  <2>3. robots = [r \in Robot |-> Waiting]
    BY DEF Init
  <2> QED BY <2>1, <2>2, <2>3 DEF World
<1> QED BY <1>1, <1>2, <1>3 DEF Types

\* What holds of every state is in the type invariant and the invariant on locks.
LEMMA TypesTell ==
  ASSUME Types
  PROVE  TypeOK /\ ReservedByOpenTask
<1>1. /\ shelves \in [Shelf -> [inbound_at : Nat, reserved_by : Nat]]
      /\ tasks \in Seq(Row) /\ Len(tasks) \in Nat
      /\ \A s \in Shelf : shelves[s].reserved_by # NoTask =>
           /\ shelves[s].reserved_by \in 1..Len(tasks) /\ OpenRow(tasks[shelves[s].reserved_by])
           /\ s = ShelfOf(tasks[shelves[s].reserved_by])
  BY DEF Types, Database, TablesOK
<1>2. ReservedByOpenTask
  BY <1>1 DEF ReservedByOpenTask, OpenRow, IsOpen, ShelfOf
<1>3. \A s \in Shelf : shelves[s].reserved_by \in 0..Len(tasks)
  BY <1>1 DEF NoTask
<1>4. shelves \in [Shelf -> [inbound_at : Nat, reserved_by : 0..Len(tasks)]]
  BY <1>1, <1>3
<1>5. orders \in [Order -> OrderStatus] /\ tasks \in Seq(Row) /\ Memory /\ World
  BY DEF Types, Database, TablesOK
<1>6. TypeOK
  BY <1>4, <1>5, Zenon DEF TypeOK, OrderStatus, Row, Memory, World
<1> QED BY <1>2, <1>6

LEMMA TypesInvariant ==
  ASSUME OrdersAssumption
  PROVE  Spec => []Types
<1>1. Init => Types
  BY InitTypes
<1>2. Types /\ [Next]_vars => Types'
  BY MemoryKept, TablesAndWorldKept DEF Types
<1> QED BY <1>1, <1>2, PTL DEF Spec

\* Every table, message handler and robot keeps its types, and no handler
\* leaves an unknown task in a lock.
THEOREM TypeCorrect ==
  ASSUME OrdersAssumption
  PROVE  Spec => []TypeOK
<1>1. Types => TypeOK
  BY TypesTell
<1> QED BY <1>1, TypesInvariant, PTL

\* No lock is left behind, whatever is cancelled, expires, is reclaimed or
\* arrives, in whichever order the messages come and however long they take.
THEOREM NoLockLeft ==
  ASSUME OrdersAssumption
  PROVE  Spec => []ReservedByOpenTask
<1>1. Types => ReservedByOpenTask
  BY TypesTell
<1> QED BY <1>1, TypesInvariant, PTL

-----------------------------------------------------------------------------
(* The board: orders os, tasks ts, robots with work live, orders to be     *)
(* reclaimed rec, new tasks nt.                                            *)

RowsOK(ts) == ts \in Seq(Row) /\ \A t \in 1..Len(ts) : RowOK(ts[t])

IsOutbound(ts, t, o) == t \in 1..Len(ts) /\ ts[t].type = "outbound" /\ ts[t].order = o

Has(ts, t, r) == t \in 1..Len(ts) /\ ts[t].robot = r /\ ts[t].status = "assigned"

\* The task of r that was assigned last, and after all others.
Current(ts, t, r) ==
  Has(ts, t, r) /\ \A u \in 1..Len(ts) : Has(ts, u, r) /\ u # t => ts[u].assigned_at < ts[t].assigned_at

Carries(ts, live, t, r) == r \in live /\ Current(ts, t, r)

\* An order has one outbound task.
OneTask(ts) ==
  \A t, u \in 1..Len(ts) :
    ts[t].type = "outbound" /\ ts[u].type = "outbound" /\ ts[t].order = ts[u].order => t = u

\* How far the outbound task of an order is.
StageOf(os, ts, live, t) ==
  LET s == os[ts[t].order]
  IN  /\ s \notin {"none", "pending"}
      /\ s = "processing" => ts[t].status = "pending" \/ Carries(ts, live, t, ts[t].robot)
      /\ s = "awaiting_pickup" => ts[t].status = "assigned"
      /\ ts[t].status = "pending" => s \in {"processing", "cancelled"}

Stage(os, ts, live) == \A t \in 1..Len(ts) : ts[t].type = "outbound" => StageOf(os, ts, live, t)

\* A robot that works is at a task whose order is not yet at the gate.
Fresh(os, ts, rec, t) ==
  ts[t].type = "outbound" => os[ts[t].order] \in {"processing", "cancelled"} /\ ts[t].order \notin rec

Loads(os, ts, live, rec) ==
  \A r \in live : \E t \in 1..Len(ts) : Current(ts, t, r) /\ Fresh(os, ts, rec, t)

\* An order to be reclaimed is cancelled, and its task has ended at the gate.
Reclaims(os, ts, rec) ==
  \A o \in rec : os[o] = "cancelled" /\ \A t \in 1..Len(ts) : IsOutbound(ts, t, o) => ts[t].status = "assigned"

TaskNews(ts, nt) == \A t \in nt : t \in 1..Len(ts) /\ ts[t].status = "pending"

\* No two orders on their way or at a gate have the same gate.
Apart(os, ts) ==
  \A t, u \in 1..Len(ts) :
    /\ ts[t].type = "outbound" /\ ts[u].type = "outbound"
    /\ os[ts[t].order] \in {"processing", "awaiting_pickup"}
    /\ os[ts[u].order] \in {"processing", "awaiting_pickup"}
    /\ ts[t].target = ts[u].target
    => t = u

Board(os, ts, live, rec, nt) ==
  /\ OneTask(ts) /\ Stage(os, ts, live) /\ Loads(os, ts, live, rec) /\ Reclaims(os, ts, rec)
  /\ TaskNews(ts, nt) /\ Apart(os, ts)

\* r is at the task of o, which has been cancelled.
Stops(os, ts, live, r, o) ==
  os[o] = "cancelled" /\ \E t \in 1..Len(ts) : IsOutbound(ts, t, o) /\ Carries(ts, live, t, r)

\* The fleet is about to be told that o has been cancelled.
Called(os, ts, live, nt, o) ==
  /\ os[o] = "cancelled"
  /\ \A t \in 1..Len(ts) : IsOutbound(ts, t, o) =>
       t \notin nt /\ (ts[t].status = "assigned" => Carries(ts, live, t, ts[t].robot))

\* A stop that was under way still is, and so is the news of a cancellation.
StopsStay(os, ts, live, os2, ts2, live2) ==
  \A r \in Robot, o \in Order : Stops(os, ts, live, r, o) => Stops(os2, ts2, live2, r, o)

LEMMA CurrentIsOne ==
  ASSUME NEW ts, RowsOK(ts), NEW r, NEW t, NEW u, Current(ts, t, r), Current(ts, u, r)
  PROVE  t = u
<1>1. t \in 1..Len(ts) /\ u \in 1..Len(ts) /\ ts[t] \in Row /\ ts[u] \in Row
  BY DEF Current, Has, RowsOK
<1>2. ts[t].assigned_at \in Nat /\ ts[u].assigned_at \in Nat
  BY <1>1 DEF Row
<1>3. t # u => ts[u].assigned_at < ts[t].assigned_at /\ ts[t].assigned_at < ts[u].assigned_at
  BY <1>1 DEF Current
<1> QED BY <1>2, <1>3

\* An order's status changes in a way that its tasks, if any, do not mind.
LEMMA OrderChanged ==
  ASSUME NEW os \in [Order -> OrderStatus], NEW ts, RowsOK(ts), NEW live, NEW rec \in SUBSET Order, NEW nt,
         Board(os, ts, live, rec, nt), NEW o \in Order, NEW s,
         \/ os[o] = "none" /\ s = "pending"
         \/ os[o] \in {"pending", "processing"} /\ s = "cancelled"
  PROVE  LET os2 == [os EXCEPT ![o] = s]
         IN  /\ Board(os2, ts, live, rec, nt) /\ StopsStay(os, ts, live, os2, ts, live)
             /\ s = "cancelled" /\ nt = {} => Called(os2, ts, live, nt, o)
<1> DEFINE os2 == [os EXCEPT ![o] = s]
<1>1. os2[o] = s /\ \A p \in Order : p # o => os2[p] = os[p]
  OBVIOUS
<1>2. \A t \in 1..Len(ts) : ts[t].type = "outbound" => ts[t].order \in Order
  BY DEF RowsOK, RowOK
<1> HIDE DEF os2
<1>3. Stage(os2, ts, live)
  <2> SUFFICES ASSUME NEW t \in 1..Len(ts), ts[t].type = "outbound" PROVE StageOf(os2, ts, live, t)
    BY DEF Stage
  <2>1. StageOf(os, ts, live, t)
    BY DEF Board, Stage
  <2> QED BY <1>1, <1>2, <2>1 DEF StageOf
<1>4. Loads(os2, ts, live, rec)
  <2> SUFFICES ASSUME NEW r \in live
               PROVE  \E t \in 1..Len(ts) : Current(ts, t, r) /\ Fresh(os2, ts, rec, t)
    BY DEF Loads
  <2>1. PICK t \in 1..Len(ts) : Current(ts, t, r) /\ Fresh(os, ts, rec, t)
    BY DEF Board, Loads
  <2>2. Fresh(os2, ts, rec, t)
    BY <1>1, <1>2, <2>1 DEF Fresh
  <2> QED BY <2>1, <2>2
<1>5. Reclaims(os2, ts, rec)
  BY <1>1 DEF Board, Reclaims
<1>6. Apart(os2, ts)
  <2>1. \A t \in 1..Len(ts) : ts[t].type = "outbound" /\ os2[ts[t].order] \in {"processing", "awaiting_pickup"}
          => os[ts[t].order] \in {"processing", "awaiting_pickup"}
    BY <1>1, <1>2
  <2> QED BY <2>1 DEF Board, Apart
<1>7. StopsStay(os, ts, live, os2, ts, live)
  BY <1>1 DEF StopsStay, Stops
<1>8. ASSUME s = "cancelled", nt = {} PROVE Called(os2, ts, live, nt, o)
  <2> SUFFICES ASSUME NEW t \in 1..Len(ts), IsOutbound(ts, t, o), ts[t].status = "assigned"
               PROVE  Carries(ts, live, t, ts[t].robot)
    BY <1>1, <1>8 DEF Called
  <2>1. StageOf(os, ts, live, t)
    BY DEF Board, Stage, IsOutbound
  <2> QED BY <1>8, <2>1 DEF StageOf, IsOutbound
<1> QED BY <1>3, <1>4, <1>5, <1>6, <1>7, <1>8 DEF Board, os2

\* A task that waits is added.  If it is an outbound one, its order was pending
\* and now is on its way, to a gate of its own.
LEMMA TaskAdded ==
  ASSUME NEW os \in [Order -> OrderStatus], NEW ts, RowsOK(ts), NEW live, NEW rec \in SUBSET Order, NEW nt,
         Board(os, ts, live, rec, nt), NEW row \in Row, row.status = "pending",
         NEW os2 \in [Order -> OrderStatus],
         \/ row.type # "outbound" /\ os2 = os
         \/ /\ row.type = "outbound" /\ row.order \in Order /\ os[row.order] = "pending"
            /\ os2 = [os EXCEPT ![row.order] = "processing"]
            /\ \A t \in 1..Len(ts) :
                 ts[t].type = "outbound" /\ os[ts[t].order] \in {"processing", "awaiting_pickup"}
                   => ts[t].target # row.target
  PROVE  LET ts2 == Append(ts, row)
             nt2 == nt \cup {Len(ts) + 1}
         IN  /\ Board(os2, ts2, live, rec, nt2) /\ StopsStay(os, ts, live, os2, ts2, live)
             /\ row.type # "outbound" =>
                  \A o \in Order : Called(os, ts, live, nt, o) => Called(os2, ts2, live, nt2, o)
<1> DEFINE ts2 == Append(ts, row)
           n == Len(ts)
           nt2 == nt \cup {n + 1}
<1>1. /\ ts2 \in Seq(Row) /\ n \in Nat /\ Len(ts2) = n + 1 /\ ts2[n + 1] = row
      /\ \A t \in 1..n : ts2[t] = ts[t] /\ t \in 1..(n + 1) /\ t # n + 1
      /\ \A t \in 1..(n + 1) : t \in 1..n \/ t = n + 1
  BY DEF RowsOK
<1>2. \A t \in 1..n : ts[t].type = "outbound" => ts[t].order \in Order
  BY DEF RowsOK, RowOK
<1> HIDE DEF ts2, n
<1>3. \* The orders of the tasks there were stay as they are.
      \A t \in 1..n : ts[t].type = "outbound" => os2[ts[t].order] = os[ts[t].order]
                                              /\ (row.type = "outbound" => ts[t].order # row.order)
  <2> SUFFICES ASSUME NEW t \in 1..n, ts[t].type = "outbound"
               PROVE  os2[ts[t].order] = os[ts[t].order] /\ (row.type = "outbound" => ts[t].order # row.order)
    OBVIOUS
  <2>1. os[ts[t].order] # "pending"
    BY DEF Board, Stage, StageOf, n
  <2> QED BY <1>2, <2>1
<1>4. /\ \A t \in 1..(n + 1) : \A r : Has(ts2, t, r) <=> t \in 1..n /\ Has(ts, t, r)
      /\ \A t, r : Current(ts2, t, r) <=> Current(ts, t, r)
  <2>1. \A t \in 1..(n + 1) : \A r : Has(ts2, t, r) <=> t \in 1..n /\ Has(ts, t, r)
    BY <1>1 DEF Has, n
  <2>2. ASSUME NEW t, NEW r PROVE Current(ts2, t, r) <=> Current(ts, t, r)
    <3>1. Has(ts2, t, r) <=> Has(ts, t, r)
      BY <1>1, <2>1 DEF Has, n
    <3>2. CASE Has(ts, t, r)
      <4>1. t \in 1..n
        BY <3>2 DEF Has, n
      <4> QED BY <1>1, <2>1, <3>1, <3>2, <4>1 DEF Current, n
    <3>3. CASE ~Has(ts, t, r)
      BY <3>1, <3>3 DEF Current
    <3> QED BY <3>2, <3>3
  <2> QED BY <2>1, <2>2
<1>5. OneTask(ts2)
  BY <1>1, <1>3 DEF Board, OneTask, n
<1>6. Stage(os2, ts2, live)
  <2> SUFFICES ASSUME NEW t \in 1..Len(ts2), ts2[t].type = "outbound" PROVE StageOf(os2, ts2, live, t)
    BY DEF Stage
  <2>1. CASE t \in 1..n
    <3>1. StageOf(os, ts, live, t) /\ ts2[t] = ts[t]
      BY <1>1, <2>1 DEF Board, Stage, n
    <3> QED BY <1>3, <1>4, <2>1, <3>1 DEF StageOf, Carries
  <2>2. CASE t = n + 1
    BY <1>1, <2>2 DEF StageOf
  <2> QED BY <1>1, <2>1, <2>2
<1>7. Loads(os2, ts2, live, rec)
  <2> SUFFICES ASSUME NEW r \in live
               PROVE  \E t \in 1..Len(ts2) : Current(ts2, t, r) /\ Fresh(os2, ts2, rec, t)
    BY DEF Loads
  <2>1. PICK t \in 1..n : Current(ts, t, r) /\ Fresh(os, ts, rec, t)
    BY DEF Board, Loads, n
  <2> QED BY <1>1, <1>3, <1>4, <2>1 DEF Fresh
<1>8. Reclaims(os2, ts2, rec)
  <2> SUFFICES ASSUME NEW o \in rec
               PROVE  /\ os2[o] = "cancelled"
                      /\ \A t \in 1..Len(ts2) : IsOutbound(ts2, t, o) => ts2[t].status = "assigned"
    BY DEF Reclaims
  <2>1. os[o] = "cancelled" /\ \A t \in 1..n : IsOutbound(ts, t, o) => ts[t].status = "assigned"
    BY DEF Board, Reclaims, n
  <2>2. os2[o] = "cancelled" /\ (row.type = "outbound" => o # row.order)
    BY <2>1
  <2> QED BY <1>1, <2>1, <2>2 DEF IsOutbound, n
<1>9. TaskNews(ts2, nt2)
  BY <1>1 DEF Board, TaskNews, n
<1>10. Apart(os2, ts2)
  <2> SUFFICES ASSUME NEW t \in 1..Len(ts2), NEW u \in 1..Len(ts2),
                      ts2[t].type = "outbound", ts2[u].type = "outbound",
                      os2[ts2[t].order] \in {"processing", "awaiting_pickup"},
                      os2[ts2[u].order] \in {"processing", "awaiting_pickup"},
                      ts2[t].target = ts2[u].target
               PROVE  t = u
    BY DEF Apart
  <2>1. CASE t \in 1..n /\ u \in 1..n
    BY <1>1, <1>3, <2>1 DEF Board, Apart, n
  <2>2. CASE t = n + 1 /\ u \in 1..n
    BY <1>1, <1>3, <2>2 DEF n
  <2>3. CASE t \in 1..n /\ u = n + 1
    BY <1>1, <1>3, <2>3 DEF n
  <2> QED BY <1>1, <2>1, <2>2, <2>3
<1>11. StopsStay(os, ts, live, os2, ts2, live)
  <2> SUFFICES ASSUME NEW r \in Robot, NEW o \in Order, Stops(os, ts, live, r, o)
               PROVE  Stops(os2, ts2, live, r, o)
    BY DEF StopsStay
  <2>1. PICK t \in 1..n : IsOutbound(ts, t, o) /\ Carries(ts, live, t, r)
    BY DEF Stops, n
  <2>2. IsOutbound(ts2, t, o) /\ Carries(ts2, live, t, r)
    BY <1>1, <1>4, <2>1 DEF IsOutbound, Carries
  <2>3. os2[o] = "cancelled"
    BY DEF Stops
  <2> QED BY <1>1, <2>2, <2>3 DEF Stops
<1>12. ASSUME row.type # "outbound", NEW o \in Order, Called(os, ts, live, nt, o)
       PROVE  Called(os2, ts2, live, nt2, o)
  <2> SUFFICES ASSUME NEW t \in 1..Len(ts2), IsOutbound(ts2, t, o)
               PROVE  t \notin nt2 /\ (ts2[t].status = "assigned" => Carries(ts2, live, t, ts2[t].robot))
    BY <1>12 DEF Called
  <2>1. t \in 1..n /\ IsOutbound(ts, t, o) /\ t # n + 1 /\ ts2[t] = ts[t]
    BY <1>1, <1>12 DEF IsOutbound, n
  <2> QED BY <1>4, <1>12, <2>1 DEF Called, Carries, n
<1> QED BY <1>5, <1>6, <1>7, <1>8, <1>9, <1>10, <1>11, <1>12 DEF Board, ts2, n

\* A task is closed that no robot is at, or whose robots have ended with it.
\* If it is an outbound one, its order was at the gate or has been cancelled.
LEMMA TaskClosed ==
  ASSUME NEW os \in [Order -> OrderStatus], NEW ts, RowsOK(ts), NEW live, NEW rec \in SUBSET Order, NEW nt,
         Board(os, ts, live, rec, nt), NEW t \in 1..Len(ts), t \notin nt,
         NEW status \in {"done", "cancelled"}, NEW live2 \in SUBSET live, NEW rec2 \in SUBSET rec,
         \A r \in live2 : ~Current(ts, t, r), \A r \in live \ live2 : Current(ts, t, r),
         NEW os2 \in [Order -> OrderStatus],
         ts[t].type = "outbound" => ts[t].order \notin rec2,
         \/ os2 = os /\ (ts[t].type = "outbound" => os[ts[t].order] = "cancelled")
         \/ /\ ts[t].type = "outbound" /\ os[ts[t].order] = "awaiting_pickup"
            /\ \E s \in {"cancelled", "delivered"} : os2 = [os EXCEPT ![ts[t].order] = s]
  PROVE  LET ts2 == [ts EXCEPT ![t].status = status]
         IN  /\ RowsOK(ts2) /\ Len(ts2) = Len(ts) /\ Board(os2, ts2, live2, rec2, nt)
             /\ \A r \in Robot, o \in Order :
                  r \notin live \ live2 /\ Stops(os, ts, live, r, o) => Stops(os2, ts2, live2, r, o)
             /\ live2 = live =>
                  \A o \in Order : Called(os, ts, live, nt, o) => Called(os2, ts2, live2, nt, o)
<1> DEFINE row == [ts[t] EXCEPT !.status = status]
           ts2 == [ts EXCEPT ![t] = row]
           n == Len(ts)
<1>1. ts \in Seq(Row) /\ n \in Nat /\ ts[t] \in Row /\ t \in 1..n /\ RowOK(ts[t])
  BY DEF RowsOK
<1>2. /\ row \in Row /\ row.status = status /\ row.type = ts[t].type /\ row.order = ts[t].order
      /\ row.robot = ts[t].robot /\ row.target = ts[t].target /\ RowOK(row)
  BY <1>1 DEF Row, RowOK
<1> HIDE DEF row
<1>3. /\ ts2 \in Seq(Row) /\ Len(ts2) = n /\ ts2[t] = row
      /\ \A u \in 1..n : u # t => ts2[u] = ts[u]
  BY <1>1, <1>2
<1> HIDE DEF ts2, n
<1>4. RowsOK(ts2)
  BY <1>2, <1>3 DEF RowsOK, n
<1>5. \A u \in 1..n : ts2[u].type = ts[u].type /\ ts2[u].order = ts[u].order
                    /\ ts2[u].robot = ts[u].robot /\ ts2[u].target = ts[u].target
  BY <1>2, <1>3
<1>6. \A u \in 1..n : ts[u].type = "outbound" => ts[u].order \in Order
  BY DEF RowsOK, RowOK, n
<1>7. \* The orders of the other tasks stay as they are.
      \A u \in 1..n : ts[u].type = "outbound" /\ u # t => os2[ts[u].order] = os[ts[u].order]
  <2> SUFFICES ASSUME NEW u \in 1..n, ts[u].type = "outbound", u # t
               PROVE  os2[ts[u].order] = os[ts[u].order]
    OBVIOUS
  <2>1. ts[t].type = "outbound" => ts[u].order # ts[t].order
    BY <1>1 DEF Board, OneTask, n
  <2> QED BY <1>6, <2>1
<1>8. \A p \in Order : os[p] = "cancelled" => os2[p] = "cancelled"
  OBVIOUS
<1>9. \A u, r : Current(ts, u, r) /\ u # t => Current(ts2, u, r)
  <2> SUFFICES ASSUME NEW u, NEW r, Current(ts, u, r), u # t PROVE Current(ts2, u, r)
    OBVIOUS
  <2>1. u \in 1..n /\ Has(ts, u, r) /\ ts2[u] = ts[u]
    BY <1>3 DEF Current, Has, n
  <2>2. \A v \in 1..n : Has(ts2, v, r) => Has(ts, v, r) /\ v # t
    BY <1>2, <1>3 DEF Has, n
  <2>3. \A v \in 1..n : Has(ts2, v, r) /\ v # u => ts2[v].assigned_at < ts2[u].assigned_at
    BY <1>3, <2>1, <2>2 DEF Current, n
  <2>4. Has(ts2, u, r)
    BY <1>3, <2>1 DEF Has, n
  <2> QED BY <1>3, <2>3, <2>4 DEF Current
<1>10. OneTask(ts2)
  BY <1>3, <1>5 DEF Board, OneTask, n
<1>11. Stage(os2, ts2, live2)
  <2> SUFFICES ASSUME NEW u \in 1..n, ts2[u].type = "outbound" PROVE StageOf(os2, ts2, live2, u)
    BY <1>3 DEF Stage
  <2>0. StageOf(os, ts, live, u) /\ ts[u].type = "outbound"
    BY <1>5 DEF Board, Stage, n
  <2>1. CASE u = t
    <3>1. os2[ts[t].order] \in {"cancelled", "delivered"}
      BY <1>6, <2>0, <2>1
    <3> QED BY <1>2, <1>3, <2>1, <3>1 DEF StageOf
  <2>2. CASE u # t
    <3>1. ts2[u] = ts[u] /\ os2[ts[u].order] = os[ts[u].order]
      BY <1>3, <1>7, <2>0, <2>2
    <3>2. Carries(ts, live, u, ts[u].robot) => Carries(ts2, live2, u, ts[u].robot)
      <4> SUFFICES ASSUME Carries(ts, live, u, ts[u].robot) PROVE Carries(ts2, live2, u, ts[u].robot)
        OBVIOUS
      <4>1. ts[u].robot \in live2
        <5> SUFFICES ASSUME ts[u].robot \notin live2 PROVE FALSE
          OBVIOUS
        <5>1. Current(ts, t, ts[u].robot) /\ Current(ts, u, ts[u].robot)
          BY DEF Carries
        <5> QED BY <2>2, <5>1, CurrentIsOne
      <4> QED BY <1>9, <2>2, <4>1 DEF Carries
    <3> QED BY <2>0, <3>1, <3>2 DEF StageOf
  <2> QED BY <2>1, <2>2
<1>12. Loads(os2, ts2, live2, rec2)
  <2> SUFFICES ASSUME NEW r \in live2
               PROVE  \E u \in 1..n : Current(ts2, u, r) /\ Fresh(os2, ts2, rec2, u)
    BY <1>3 DEF Loads
  <2>1. PICK u \in 1..n : Current(ts, u, r) /\ Fresh(os, ts, rec, u)
    BY DEF Board, Loads, n
  <2>2. u # t
    BY <2>1
  <2> QED BY <1>3, <1>7, <1>9, <2>1, <2>2 DEF Fresh
<1>13. Reclaims(os2, ts2, rec2)
  <2> SUFFICES ASSUME NEW o \in rec2
               PROVE  /\ os2[o] = "cancelled"
                      /\ \A u \in 1..n : IsOutbound(ts2, u, o) => ts2[u].status = "assigned"
    BY <1>3 DEF Reclaims
  <2>1. os[o] = "cancelled" /\ \A u \in 1..n : IsOutbound(ts, u, o) => ts[u].status = "assigned"
    BY DEF Board, Reclaims, n
  <2>2. os2[o] = "cancelled"
    BY <1>8, <2>1
  <2> QED BY <1>3, <1>5, <2>1, <2>2 DEF IsOutbound, n
<1>14. TaskNews(ts2, nt)
  BY <1>3 DEF Board, TaskNews, n
<1>15. Apart(os2, ts2)
  <2>1. \A u \in 1..n : ts[u].type = "outbound" /\ os2[ts[u].order] \in {"processing", "awaiting_pickup"}
          => os[ts[u].order] \in {"processing", "awaiting_pickup"}
    BY <1>6
  <2> QED BY <1>3, <1>5, <2>1 DEF Board, Apart, n
<1>16. ASSUME NEW r \in Robot, NEW o \in Order, r \notin live \ live2, Stops(os, ts, live, r, o)
       PROVE  Stops(os2, ts2, live2, r, o)
  <2>1. PICK u \in 1..n : IsOutbound(ts, u, o) /\ r \in live /\ Current(ts, u, r)
    BY <1>16 DEF Stops, Carries, n
  <2>2. r \in live2 /\ u # t
    BY <1>16, <2>1
  <2>3. IsOutbound(ts2, u, o) /\ Carries(ts2, live2, u, r)
    BY <1>3, <1>9, <2>1, <2>2 DEF IsOutbound, Carries, n
  <2>4. os2[o] = "cancelled"
    BY <1>8, <1>16 DEF Stops
  <2> QED BY <1>3, <2>3, <2>4 DEF Stops
<1>17. ASSUME live2 = live, NEW o \in Order, Called(os, ts, live, nt, o)
       PROVE  Called(os2, ts2, live2, nt, o)
  <2> SUFFICES ASSUME NEW u \in 1..n, IsOutbound(ts2, u, o)
               PROVE  u \notin nt /\ (ts2[u].status = "assigned" => Carries(ts2, live2, u, ts2[u].robot))
    BY <1>3, <1>8, <1>17 DEF Called
  <2>1. IsOutbound(ts, u, o)
    BY <1>5 DEF IsOutbound, n
  <2>2. u \notin nt /\ (ts[u].status = "assigned" => Carries(ts, live, u, ts[u].robot))
    BY <1>17, <2>1 DEF Called, n
  <2> QED BY <1>2, <1>3, <1>9, <1>17, <2>2 DEF Carries
<1>18. [ts EXCEPT ![t].status = status] = ts2
  BY DEF ts2, row
<1> QED BY <1>3, <1>4, <1>10, <1>11, <1>12, <1>13, <1>14, <1>15, <1>16, <1>17, <1>18 DEF Board, n

\* A task that waits is given to a robot that has nothing to do.
LEMMA TaskAssigned ==
  ASSUME NEW os \in [Order -> OrderStatus], NEW ts, RowsOK(ts), NEW live, NEW rec \in SUBSET Order, NEW nt,
         Board(os, ts, live, rec, nt), NEW t \in 1..Len(ts), ts[t].status = "pending",
         NEW r \in Robot, r \notin live, NEW now \in Nat,
         \A u \in 1..Len(ts) : ts[u].assigned_at < now
  PROVE  LET ts2 == [ts EXCEPT ![t].status = "assigned", ![t].robot = r, ![t].assigned_at = now]
             live2 == live \cup {r}
             nt2 == nt \ {t}
         IN  /\ Board(os, ts2, live2, rec, nt2) /\ StopsStay(os, ts, live, os, ts2, live2)
             /\ t \in nt =>
                  \A o \in Order : Called(os, ts, live, nt, o) => Called(os, ts2, live2, nt2, o)
<1> DEFINE row == [ts[t] EXCEPT !.status = "assigned", !.robot = r, !.assigned_at = now]
           ts2 == [ts EXCEPT ![t] = row]
           n == Len(ts)
           live2 == live \cup {r}
           nt2 == nt \ {t}
<1>1. ts \in Seq(Row) /\ n \in Nat /\ ts[t] \in Row /\ t \in 1..n
  BY DEF RowsOK
<1>2. /\ row \in Row /\ row.status = "assigned" /\ row.type = ts[t].type /\ row.order = ts[t].order
      /\ row.robot = r /\ row.target = ts[t].target /\ row.assigned_at = now
  BY <1>1 DEF Row
<1> HIDE DEF row
<1>3. /\ ts2 \in Seq(Row) /\ Len(ts2) = n /\ ts2[t] = row
      /\ \A u \in 1..n : u # t => ts2[u] = ts[u]
  BY <1>1, <1>2
<1> HIDE DEF ts2, n
<1>4. \A u \in 1..n : ts2[u].type = ts[u].type /\ ts2[u].order = ts[u].order
                    /\ ts2[u].target = ts[u].target
  BY <1>2, <1>3
<1>5. \A u, q : Current(ts, u, q) /\ q # r => Current(ts2, u, q) /\ u # t
  <2> SUFFICES ASSUME NEW u, NEW q, Current(ts, u, q), q # r PROVE Current(ts2, u, q) /\ u # t
    OBVIOUS
  <2>1. u \in 1..n /\ u # t /\ Has(ts, u, q) /\ ts2[u] = ts[u]
    BY <1>3 DEF Current, Has, n
  <2>2. \A v \in 1..n : Has(ts2, v, q) => Has(ts, v, q) /\ v # t
    BY <1>2, <1>3 DEF Has, n
  <2>3. \A v \in 1..n : Has(ts2, v, q) /\ v # u => ts2[v].assigned_at < ts2[u].assigned_at
    BY <1>3, <2>1, <2>2 DEF Current, n
  <2>4. Has(ts2, u, q)
    BY <1>3, <2>1 DEF Has, n
  <2> QED BY <1>3, <2>1, <2>3, <2>4 DEF Current
<1>6. Current(ts2, t, r)
  <2>1. Has(ts2, t, r)
    BY <1>1, <1>2, <1>3 DEF Has, n
  <2>2. \A v \in 1..n : v # t => ts2[v].assigned_at < ts2[t].assigned_at
    BY <1>1, <1>2, <1>3 DEF n
  <2> QED BY <1>3, <2>1, <2>2 DEF Current
<1>7. \A u, q : Carries(ts, live, u, q) => Carries(ts2, live2, u, q) /\ u # t
  BY <1>5 DEF Carries
<1>8. \* The order of an outbound task that waits is on its way or cancelled.
      ts[t].type = "outbound" => os[ts[t].order] \in {"processing", "cancelled"} /\ ts[t].order \notin rec
  BY <1>1 DEF Board, Stage, StageOf, Reclaims, IsOutbound, n
<1>9. OneTask(ts2)
  BY <1>3, <1>4 DEF Board, OneTask, n
<1>10. Stage(os, ts2, live2)
  <2> SUFFICES ASSUME NEW u \in 1..n, ts2[u].type = "outbound" PROVE StageOf(os, ts2, live2, u)
    BY <1>3 DEF Stage
  <2>0. StageOf(os, ts, live, u) /\ ts[u].type = "outbound"
    BY <1>4 DEF Board, Stage, n
  <2>1. CASE u = t
    <3>1. Carries(ts2, live2, t, r)
      BY <1>6 DEF Carries
    <3> QED BY <1>2, <1>3, <1>8, <2>0, <2>1, <3>1 DEF StageOf
  <2>2. CASE u # t
    <3>1. ts2[u] = ts[u]
      BY <1>3, <2>2
    <3> QED BY <1>7, <2>0, <3>1 DEF StageOf
  <2> QED BY <2>1, <2>2
<1>11. Loads(os, ts2, live2, rec)
  <2> SUFFICES ASSUME NEW q \in live2
               PROVE  \E u \in 1..n : Current(ts2, u, q) /\ Fresh(os, ts2, rec, u)
    BY <1>3 DEF Loads
  <2>1. CASE q = r
    BY <1>1, <1>2, <1>3, <1>6, <1>8, <2>1 DEF Fresh
  <2>2. CASE q # r
    <3>1. PICK u \in 1..n : Current(ts, u, q) /\ Fresh(os, ts, rec, u)
      BY <2>2 DEF Board, Loads, n
    <3> QED BY <1>3, <1>5, <2>2, <3>1 DEF Fresh
  <2> QED BY <2>1, <2>2
<1>12. Reclaims(os, ts2, rec)
  BY <1>2, <1>3, <1>4 DEF Board, Reclaims, IsOutbound, n
<1>13. TaskNews(ts2, nt2)
  BY <1>3 DEF Board, TaskNews, n
<1>14. Apart(os, ts2)
  BY <1>3, <1>4 DEF Board, Apart, n
<1>15. StopsStay(os, ts, live, os, ts2, live2)
  <2> SUFFICES ASSUME NEW q \in Robot, NEW o \in Order, Stops(os, ts, live, q, o)
               PROVE  Stops(os, ts2, live2, q, o)
    BY DEF StopsStay
  <2>1. PICK u \in 1..n : IsOutbound(ts, u, o) /\ Carries(ts, live, u, q)
    BY DEF Stops, n
  <2>2. IsOutbound(ts2, u, o) /\ Carries(ts2, live2, u, q)
    BY <1>3, <1>4, <1>7, <2>1 DEF IsOutbound, n
  <2> QED BY <1>3, <2>2 DEF Stops
<1>16. ASSUME t \in nt, NEW o \in Order, Called(os, ts, live, nt, o)
       PROVE  Called(os, ts2, live2, nt2, o)
  <2> SUFFICES ASSUME NEW u \in 1..n, IsOutbound(ts2, u, o)
               PROVE  u \notin nt2 /\ (ts2[u].status = "assigned" => Carries(ts2, live2, u, ts2[u].robot))
    BY <1>3, <1>16 DEF Called
  <2>1. IsOutbound(ts, u, o)
    BY <1>4 DEF IsOutbound, n
  <2>2. u \notin nt /\ (ts[u].status = "assigned" => Carries(ts, live, u, ts[u].robot))
    BY <1>16, <2>1 DEF Called, n
  <2> QED BY <1>3, <1>7, <1>16, <2>2
<1>17. [ts EXCEPT ![t].status = "assigned", ![t].robot = r, ![t].assigned_at = now] = ts2
  BY <1>1 DEF ts2, row
<1> QED BY <1>9, <1>10, <1>11, <1>12, <1>13, <1>14, <1>15, <1>16, <1>17 DEF Board

\* A robot has ended an outbound task, which waits from now on, or is to be
\* brought back.
LEMMA TaskAtGate ==
  ASSUME NEW os \in [Order -> OrderStatus], NEW ts, RowsOK(ts), NEW live, NEW rec \in SUBSET Order, NEW nt,
         Board(os, ts, live, rec, nt), NEW r \in live, NEW t \in 1..Len(ts), Current(ts, t, r),
         ts[t].type = "outbound", NEW os2 \in [Order -> OrderStatus], NEW rec2 \in SUBSET Order,
         \/ /\ os[ts[t].order] = "processing" /\ os2 = [os EXCEPT ![ts[t].order] = "awaiting_pickup"]
            /\ rec2 = rec
         \/ os[ts[t].order] = "cancelled" /\ os2 = os /\ rec2 = rec \cup {ts[t].order}
  PROVE  LET live2 == live \ {r}
         IN  /\ Board(os2, ts, live2, rec2, nt)
             /\ \A q \in Robot, o \in Order :
                  q # r /\ Stops(os, ts, live, q, o) => Stops(os2, ts, live2, q, o)
<1> DEFINE live2 == live \ {r}
           n == Len(ts)
           p == ts[t].order
<1>1. p \in Order /\ t \in 1..n /\ ts[t].status = "assigned"
  BY DEF RowsOK, RowOK, Current, Has
<1>2. \A u \in 1..n : ts[u].type = "outbound" => ts[u].order \in Order
  BY DEF RowsOK, RowOK
<1>3. \A u \in 1..n : ts[u].type = "outbound" /\ u # t => ts[u].order # p
  BY <1>1 DEF Board, OneTask
<1>4. \A u : Current(ts, u, r) => u = t
  BY CurrentIsOne
<1>5. \A u, q : Current(ts, u, q) /\ q # r => u # t
  BY DEF Current, Has
<1> HIDE DEF n
<1>6. Stage(os2, ts, live2)
  <2> SUFFICES ASSUME NEW u \in 1..n, ts[u].type = "outbound" PROVE StageOf(os2, ts, live2, u)
    BY DEF Stage, n
  <2>0. StageOf(os, ts, live, u)
    BY DEF Board, Stage, n
  <2>1. CASE u = t
    <3>1. os2[p] \in {"awaiting_pickup", "cancelled"}
      BY <1>1
    <3> QED BY <1>1, <2>1, <3>1 DEF StageOf
  <2>2. CASE u # t
    <3>1. os2[ts[u].order] = os[ts[u].order]
      BY <1>1, <1>2, <1>3, <2>2
    <3>2. Carries(ts, live, u, ts[u].robot) => Carries(ts, live2, u, ts[u].robot)
      BY <1>4, <2>2 DEF Carries
    <3> QED BY <2>0, <3>1, <3>2 DEF StageOf
  <2> QED BY <2>1, <2>2
<1>7. Loads(os2, ts, live2, rec2)
  <2> SUFFICES ASSUME NEW q \in live2
               PROVE  \E u \in 1..n : Current(ts, u, q) /\ Fresh(os2, ts, rec2, u)
    BY DEF Loads, n
  <2>1. PICK u \in 1..n : Current(ts, u, q) /\ Fresh(os, ts, rec, u)
    BY DEF Board, Loads, n
  <2>2. u # t
    BY <1>5, <2>1
  <2>3. ts[u].type = "outbound" => os2[ts[u].order] = os[ts[u].order] /\ ts[u].order # p
    BY <1>1, <1>2, <1>3, <2>2
  <2> QED BY <2>1, <2>3 DEF Fresh
<1>8. Reclaims(os2, ts, rec2)
  <2> SUFFICES ASSUME NEW o \in rec2
               PROVE  /\ os2[o] = "cancelled"
                      /\ \A u \in 1..n : IsOutbound(ts, u, o) => ts[u].status = "assigned"
    BY DEF Reclaims, n
  <2>1. CASE o \in rec
    <3>1. os[o] = "cancelled" /\ \A u \in 1..n : IsOutbound(ts, u, o) => ts[u].status = "assigned"
      BY <2>1 DEF Board, Reclaims, n
    <3> QED BY <3>1
  <2>2. CASE o \notin rec
    <3>1. o = p /\ os2[o] = "cancelled"
      BY <2>2
    <3> QED BY <1>1, <1>3, <3>1 DEF IsOutbound
  <2> QED BY <2>1, <2>2
<1>9. Apart(os2, ts)
  <2>1. \A u \in 1..n : ts[u].type = "outbound" /\ os2[ts[u].order] \in {"processing", "awaiting_pickup"}
          => os[ts[u].order] \in {"processing", "awaiting_pickup"}
    BY <1>2
  <2> QED BY <2>1 DEF Board, Apart, n
<1>10. ASSUME NEW q \in Robot, NEW o \in Order, q # r, Stops(os, ts, live, q, o)
       PROVE  Stops(os2, ts, live2, q, o)
  <2>1. os2[o] = "cancelled"
    BY <1>10 DEF Stops
  <2> QED BY <1>10, <2>1 DEF Stops, Carries
<1> QED BY <1>6, <1>7, <1>8, <1>9, <1>10 DEF Board

-----------------------------------------------------------------------------
(* Channels.  Between two steps of the world at most one message is on its *)
(* way, except for new tasks and reclaim requests, which form queues.      *)

PromptButReclaims == Lagging \subseteq {"reclaim"}

Single == {"notify", "report", "cancel", "detection"}

Message ==
  ({"new_order", "awaiting_pickup", "order_cancelled"} \X Order)
  \cup ({"cleared", "inbound"} \X Place) \cup Nat
  \cup [robot : Robot, order : Order]
  \cup [robot : Robot, event : {"target_done", "cancelled"}, order : Order \cup {NoOrder}]

Nets == [Channel -> Seq(Message)]

Clear(n) == \A c \in Single : n[c] = <<>>
Only(n, c, m) == n[c] = <<m>> /\ \A d \in Single \ {c} : n[d] = <<>>
Prompt(n) == Clear(n) \/ \E c \in Single, m \in Message : Only(n, c, m)

LEMMA ChannelsAre == Single \subseteq Channel /\ "new_task" \in Channel \ Single /\ "reclaim" \in Channel \ Single
  BY DEF Single, Channel

\* A message is put on a channel when nothing else is on its way.
LEMMA PutOnly ==
  ASSUME NEW n \in Nets, Clear(n), NEW c \in Single, NEW m \in Message
  PROVE  LET n2 == Send(n, c, m)
         IN  /\ n2 \in Nets /\ Only(n2, c, m) /\ Prompt(n2)
             /\ n2["new_task"] = n["new_task"] /\ n2["reclaim"] = n["reclaim"]
<1> DEFINE n2 == [n EXCEPT ![c] = Append(n[c], m)]
<1>1. c \in Channel /\ n[c] \in Seq(Message) /\ n[c] = <<>>
  BY ChannelsAre DEF Nets, Clear
<1>2. Append(n[c], m) \in Seq(Message) /\ Append(n[c], m) = <<m>>
  BY <1>1
<1>3. n2 \in Nets /\ n2[c] = <<m>> /\ \A d \in Channel : d # c => n2[d] = n[d]
  BY <1>1, <1>2 DEF Nets
<1> HIDE DEF n2
<1>4. Only(n2, c, m) /\ n2["new_task"] = n["new_task"] /\ n2["reclaim"] = n["reclaim"]
  BY <1>3, ChannelsAre DEF Only, Clear
<1> QED BY <1>3, <1>4 DEF Prompt, Send, n2

\* The message on its way is the only one, and nothing is when it is taken.
LEMMA TakeOnly ==
  ASSUME NEW n \in Nets, Prompt(n), NEW c \in Single, n[c] # <<>>
  PROVE  LET n2 == [n EXCEPT ![c] = Tail(@)]
         IN  /\ n2 \in Nets /\ Clear(n2) /\ Prompt(n2) /\ Only(n, c, Head(n[c])) /\ Head(n[c]) \in Message
             /\ n2["new_task"] = n["new_task"] /\ n2["reclaim"] = n["reclaim"]
<1> DEFINE n2 == [n EXCEPT ![c] = Tail(n[c])]
<1>1. PICK d \in Single, m \in Message : Only(n, d, m)
  BY DEF Prompt, Clear
<1>2. c = d
  BY <1>1 DEF Only
<1>3. n[c] = <<m>> /\ c \in Channel
  BY <1>1, <1>2, ChannelsAre DEF Only
<1>4. Head(<<m>>) = m /\ Tail(<<m>>) = <<>>
  OBVIOUS
<1>5. Head(n[c]) = m /\ Tail(n[c]) = <<>>
  BY <1>3, <1>4, Zenon
<1>6. n2 \in Nets /\ n2[c] = <<>> /\ \A e \in Channel : e # c => n2[e] = n[e]
  BY <1>3, <1>5 DEF Nets
<1> HIDE DEF n2
<1>7. Clear(n2) /\ n2["new_task"] = n["new_task"] /\ n2["reclaim"] = n["reclaim"]
  BY <1>1, <1>2, <1>3, <1>6, ChannelsAre DEF Only, Clear
<1> QED BY <1>1, <1>2, <1>3, <1>5, <1>6, <1>7 DEF Prompt, n2

\* The queues.
LEMMA PutQueue ==
  ASSUME NEW n \in Nets, Prompt(n), NEW c \in {"new_task", "reclaim"}, NEW m \in Message
  PROVE  LET n2 == Send(n, c, m)
         IN  /\ n2 \in Nets /\ Prompt(n2) /\ n2[c] = Append(n[c], m)
             /\ \A d \in Channel : d # c => n2[d] = n[d]
             /\ \A d \in Single : n2[d] = n[d]
             /\ Clear(n) => Clear(n2)
<1> DEFINE n2 == [n EXCEPT ![c] = Append(n[c], m)]
<1>1. c \in Channel /\ n[c] \in Seq(Message) /\ c \notin Single
  BY ChannelsAre DEF Nets
<1>2. n2 \in Nets /\ n2[c] = Append(n[c], m) /\ \A d \in Channel : d # c => n2[d] = n[d]
  BY <1>1 DEF Nets
<1> HIDE DEF n2
<1>3. \A d \in Single : n2[d] = n[d]
  BY <1>1, <1>2, ChannelsAre
<1>4. Prompt(n2) /\ (Clear(n) => Clear(n2))
  BY <1>3 DEF Prompt, Clear, Only
<1> QED BY <1>2, <1>3, <1>4 DEF Send, n2

LEMMA TakeQueue ==
  ASSUME NEW n \in Nets, Prompt(n), NEW c \in {"new_task", "reclaim"}, n[c] # <<>>
  PROVE  LET n2 == [n EXCEPT ![c] = Tail(@)]
         IN  /\ n2 \in Nets /\ Prompt(n2) /\ n2[c] = Tail(n[c])
             /\ \A d \in Channel : d # c => n2[d] = n[d]
             /\ \A d \in Single : n2[d] = n[d]
<1> DEFINE n2 == [n EXCEPT ![c] = Tail(n[c])]
<1>1. c \in Channel /\ n[c] \in Seq(Message) /\ c \notin Single /\ Tail(n[c]) \in Seq(Message)
  BY ChannelsAre DEF Nets
<1>2. n2 \in Nets /\ n2[c] = Tail(n[c]) /\ \A d \in Channel : d # c => n2[d] = n[d]
  BY <1>1 DEF Nets
<1> HIDE DEF n2
<1>3. \A d \in Single : n2[d] = n[d]
  BY <1>1, <1>2, ChannelsAre
<1>4. Prompt(n2)
  BY <1>3 DEF Prompt, Clear, Only
<1> QED BY <1>2, <1>3, <1>4 DEF n2

-----------------------------------------------------------------------------
(* The state: robots rs, messages n, clocks dl at the gates but for the      *)
(* orders un, and the status st the fleet has seen of each robot.            *)

Reports(n, r) == n["report"] # <<>> /\ Head(n["report"]).robot = r

Works(x) == x.queue # <<>> \/ x.pc # "idle"

\* The robots with something to do, or to say.
LiveIn(rs, n) == {r \in Robot : Works(rs[r]) \/ Reports(n, r)}

\* Robot x, seen with a status: it has one errand at a time, which it gets when
\* it is seen idle, and says so once it is done.
RobotOK(x, status, reporting) ==
  /\ Len(x.queue) <= 1
  /\ x.queue # <<>> => status = "idle" /\ x.pc = "idle" /\ ~reporting
  /\ x.pc # "idle" => ~reporting
  /\ reporting => status = "busy" /\ x.cancel = NoOrder
  /\ x.oid # NoOrder <=> x.pc = "back"
  /\ x.cancel # NoOrder => x.pc # "back"

RobotsOK(rs, st, n) == \A r \in Robot : RobotOK(rs[r], st[r], Reports(n, r))

\* An order that a robot has been told to stop is one to stop.
MarksOK(os, ts, live, rs) ==
  \A r \in Robot, o \in Order : rs[r].cancel = o \/ rs[r].oid = o => Stops(os, ts, live, r, o)

\* What a message says is still so when it arrives.
MessageOK(c, m, os, ts, live, nt, rs) ==
  \/ /\ c = "notify"
     /\ \E o \in Order :
          \/ m = <<"new_order", o>> /\ os[o] = "pending"
          \/ m = <<"awaiting_pickup", o>> /\ os[o] = "awaiting_pickup"
          \/ /\ m = <<"order_cancelled", o>> /\ Called(os, ts, live, nt, o)
             /\ \A r \in Robot : rs[r].oid # o
  \/ /\ c = "cancel"
     /\ \E r \in Robot, o \in Order :
          m = [robot |-> r, order |-> o] /\ Stops(os, ts, live, r, o) /\ rs[r].pc # "back"
  \/ /\ c = "report"
     /\ \E r \in Robot :
          \/ m = [robot |-> r, event |-> "target_done", order |-> NoOrder]
          \/ \E o \in Order : /\ m = [robot |-> r, event |-> "cancelled", order |-> o]
                              /\ Stops(os, ts, live, r, o)
  \/ c = "detection"

News(n, os, ts, live, nt, rs) ==
  \A c \in Single : n[c] # <<>> => MessageOK(c, Head(n[c]), os, ts, live, nt, rs)

\* An order at a gate has its clock there, or the message that starts it is
\* on its way, unless a restart has forgotten it.
Arrived(n, o) == n["notify"] # <<>> /\ Head(n["notify"]) = <<"awaiting_pickup", o>>

Timed(os, ts, dl, un, n) ==
  \A t \in 1..Len(ts) :
    ts[t].type = "outbound" /\ os[ts[t].order] = "awaiting_pickup" /\ ts[t].order \notin un
      => dl[ts[t].target] = ts[t].order \/ Arrived(n, ts[t].order)

NetOK(n) ==
  /\ n \in Nets /\ Prompt(n)
  /\ Distinct(n["new_task"]) /\ Distinct(n["reclaim"]) /\ Items(n["reclaim"]) \subseteq Order

Agree(os, ts, dl, un, st, n, rs) ==
  /\ NetOK(n)
  /\ Board(os, ts, LiveIn(rs, n), Items(n["reclaim"]), Items(n["new_task"]))
  /\ RobotsOK(rs, st, n)
  /\ MarksOK(os, ts, LiveIn(rs, n), rs)
  /\ News(n, os, ts, LiveIn(rs, n), Items(n["new_task"]), rs)
  /\ Timed(os, ts, dl, un, n)

Agreed == Agree(orders, tasks, deadlines, untimed, seen, net, robots)

LifeInv == Types /\ Agreed

Live == LiveIn(robots, net)
New == Items(net["new_task"])
Returns == Items(net["reclaim"])

\* What the invariant says of the state.
LEMMA StateIs ==
  ASSUME LifeInv
  PROVE  /\ orders \in [Order -> OrderStatus] /\ TablesOK(tasks, shelves) /\ RowsOK(tasks)
         /\ Len(tasks) \in Nat /\ Ids = 1..Len(tasks)
         /\ robots \in [Robot -> RobotState] /\ seen \in [Robot -> {"idle", "busy"}]
         /\ NetOK(net) /\ net \in Nets /\ Prompt(net) /\ Returns \in SUBSET Order
         /\ Board(orders, tasks, Live, Returns, New) /\ Live \in SUBSET Robot
         /\ RobotsOK(robots, seen, net) /\ MarksOK(orders, tasks, Live, robots)
         /\ News(net, orders, tasks, Live, New, robots)
         /\ Timed(orders, tasks, deadlines, untimed, net)
<1>1. Types /\ Agreed
  BY DEF LifeInv
<1>2. /\ orders \in [Order -> OrderStatus] /\ TablesOK(tasks, shelves) /\ RowsOK(tasks)
      /\ Len(tasks) \in Nat /\ Ids = 1..Len(tasks)
      /\ robots \in [Robot -> RobotState] /\ seen \in [Robot -> {"idle", "busy"}]
  BY <1>1 DEF Types, Database, TablesOK, Memory, World, RowsOK, Ids
<1>3. /\ NetOK(net) /\ net \in Nets /\ Prompt(net) /\ Returns \in SUBSET Order
      /\ Board(orders, tasks, Live, Returns, New)
      /\ RobotsOK(robots, seen, net) /\ MarksOK(orders, tasks, Live, robots)
      /\ News(net, orders, tasks, Live, New, robots)
      /\ Timed(orders, tasks, deadlines, untimed, net)
  BY <1>1 DEF Agreed, Agree, NetOK, Live, New, Returns
<1>4. Live \in SUBSET Robot
  BY DEF Live, LiveIn
<1> QED BY <1>2, <1>3, <1>4

\* When the world may make a step, no channel but that of the reclaim
\* requests holds a message.
LEMMA HandledIs ==
  ASSUME PromptButReclaims, Handled
  PROVE  Clear(net) /\ net["new_task"] = <<>> /\ New = {} /\ \A o : ~Arrived(net, o)
<1>1. \A c \in Channel \ {"reclaim"} : net[c] = <<>>
  BY DEF PromptButReclaims, Handled
<1>2. Clear(net) /\ net["new_task"] = <<>> /\ net["notify"] = <<>>
  BY <1>1, ChannelsAre DEF Clear, Single
<1>3. New = {}
  BY <1>2 DEF New, Items
<1> QED BY <1>2, <1>3 DEF Arrived

LEMMA QuietIs ==
  ASSUME PromptButReclaims, Quiet
  PROVE  /\ Handled /\ \A r \in Robot : seen[r] = Status(r)
         /\ \A r \in Robot : seen[r] = "idle" => robots[r].pc = "idle" /\ robots[r].queue = <<>>
  BY DEF PromptButReclaims, Quiet, BusyIsKnown

\* News.
LEMMA NoNews ==
  ASSUME NEW n, Clear(n), NEW os, NEW ts, NEW live, NEW nt, NEW rs
  PROVE  News(n, os, ts, live, nt, rs)
  BY DEF News, Clear

LEMMA OneNews ==
  ASSUME NEW n, NEW c \in Single, NEW m, Only(n, c, m), NEW os, NEW ts, NEW live, NEW nt, NEW rs,
         MessageOK(c, m, os, ts, live, nt, rs)
  PROVE  News(n, os, ts, live, nt, rs)
<1>1. Head(<<m>>) = m
  OBVIOUS
<1>2. SUFFICES ASSUME NEW d \in Single, n[d] # <<>> PROVE MessageOK(d, Head(n[d]), os, ts, live, nt, rs)
  BY Zenon DEF News
<1>3. d = c /\ n[d] = <<m>>
  BY <1>2 DEF Only
<1> QED BY <1>1, <1>3, Zenon

\* A message stays true while its order does, and the robots' marks.
LEMMA NewsKept ==
  ASSUME NEW n, NEW n2, \A c \in Single : n2[c] = n[c],
         NEW os, NEW ts, NEW live, NEW nt, NEW rs, News(n, os, ts, live, nt, rs),
         NEW ts2, NEW live2, NEW nt2, NEW rs2,
         StopsStay(os, ts, live, os, ts2, live2),
         \A o \in Order : Called(os, ts, live, nt, o) => Called(os, ts2, live2, nt2, o),
         \A r \in Robot : rs2[r].oid = rs[r].oid /\ (rs[r].pc # "back" => rs2[r].pc # "back")
  PROVE  News(n2, os, ts2, live2, nt2, rs2)
<1> SUFFICES ASSUME NEW c \in Single, n2[c] # <<>>
             PROVE  MessageOK(c, Head(n2[c]), os, ts2, live2, nt2, rs2)
  BY Zenon DEF News
<1>1. n2[c] = n[c]
  OBVIOUS
<1> DEFINE m == Head(n[c])
<1>2. MessageOK(c, m, os, ts, live, nt, rs)
  BY <1>1 DEF News
<1>3. Head(n2[c]) = m
  BY <1>1
<1> HIDE DEF m
<1>4. MessageOK(c, m, os, ts2, live2, nt2, rs2)
  BY <1>2, ZenonT(60) DEF MessageOK, StopsStay
<1> QED BY <1>3, <1>4

\* The clocks stay true while no order comes to a gate.
LEMMA TimedKept ==
  ASSUME NEW os, NEW ts, NEW dl, NEW un, NEW n, Timed(os, ts, dl, un, n),
         NEW os2, NEW ts2, NEW n2,
         \A t \in 1..Len(ts2) :
           ts2[t].type = "outbound" /\ os2[ts2[t].order] = "awaiting_pickup" =>
             /\ t \in 1..Len(ts) /\ ts[t].type = "outbound" /\ ts2[t].order = ts[t].order
             /\ ts2[t].target = ts[t].target /\ os[ts[t].order] = "awaiting_pickup",
         \A o : Arrived(n, o) => Arrived(n2, o)
  PROVE  Timed(os2, ts2, dl, un, n2)
<1> SUFFICES ASSUME NEW t \in 1..Len(ts2), ts2[t].type = "outbound",
                    os2[ts2[t].order] = "awaiting_pickup", ts2[t].order \notin un
             PROVE  dl[ts2[t].target] = ts2[t].order \/ Arrived(n2, ts2[t].order)
  BY DEF Timed
<1>1. /\ t \in 1..Len(ts) /\ ts[t].type = "outbound" /\ ts2[t].order = ts[t].order
      /\ ts2[t].target = ts[t].target /\ os[ts[t].order] = "awaiting_pickup"
  OBVIOUS
<1>2. dl[ts[t].target] = ts[t].order \/ Arrived(n, ts[t].order)
  BY <1>1 DEF Timed
<1> QED BY <1>1, <1>2

\* A handler that touches neither the robots nor their reports.
LEMMA StillAgree ==
  ASSUME LifeInv, NEW os2, NEW ts2, NEW dl2, NEW un2, NEW n2, NEW nt, NEW rec,
         NetOK(n2), n2["report"] = net["report"],
         nt = Items(n2["new_task"]), rec = Items(n2["reclaim"]),
         Board(os2, ts2, Live, rec, nt), StopsStay(orders, tasks, Live, os2, ts2, Live),
         News(n2, os2, ts2, Live, nt, robots), Timed(os2, ts2, dl2, un2, n2),
         orders' = os2, tasks' = ts2, deadlines' = dl2, untimed' = un2, net' = n2,
         seen' = seen, robots' = robots
  PROVE  Agreed'
<1>1. RobotsOK(robots, seen, net) /\ MarksOK(orders, tasks, Live, robots)
  BY StateIs
<1>2. LiveIn(robots, n2) = Live /\ \A r \in Robot : Reports(n2, r) = Reports(net, r)
  BY DEF LiveIn, Live, Reports
<1>3. RobotsOK(robots, seen, n2)
  BY <1>1, <1>2, Zenon DEF RobotsOK
<1>4. MarksOK(os2, ts2, Live, robots)
  BY <1>1 DEF MarksOK, StopsStay
<1>5. Agree(os2, ts2, dl2, un2, seen, n2, robots)
  BY <1>2, <1>3, <1>4, Zenon DEF Agree
<1> QED BY <1>5, Zenon DEF Agreed
-----------------------------------------------------------------------------
(* The order server.                                                       *)

\* A robot that has turned back with a pallet, or is stopped, is at an order
\* that has been cancelled.
LEMMA MarkedIsCancelled ==
  ASSUME LifeInv, NEW r \in Robot, NEW o \in Order, robots[r].oid = o \/ robots[r].cancel = o
  PROVE  orders[o] = "cancelled"
  BY StateIs DEF MarksOK, Stops

\* An order changes with a message to the task manager.
LEMMA OrderTold ==
  ASSUME OrdersAssumption, PromptButReclaims, LifeInv, Quiet, NEW o \in Order, NEW s, NEW news,
         \/ orders[o] = "none" /\ s = "pending" /\ news = "new_order"
         \/ orders[o] \in {"pending", "processing"} /\ s = "cancelled" /\ news = "order_cancelled",
         orders' = [orders EXCEPT ![o] = s], net' = Send(net, "notify", <<news, o>>),
         UNCHANGED <<tasks, memory, robots>>
  PROVE  Agreed'
<1> DEFINE os2 == [orders EXCEPT ![o] = s]
           m == <<news, o>>
           n2 == Send(net, "notify", m)
<1>0. /\ orders \in [Order -> OrderStatus] /\ RowsOK(tasks) /\ Returns \in SUBSET Order
      /\ NetOK(net) /\ net \in Nets /\ Board(orders, tasks, Live, Returns, New)
      /\ Timed(orders, tasks, deadlines, untimed, net)
  BY StateIs
<1>1. /\ Clear(net) /\ New = {} /\ \A p : ~Arrived(net, p)
  BY QuietIs, HandledIs
<1>2. m \in Message /\ "notify" \in Single
  BY DEF Message, Single
<1>3. /\ n2 \in Nets /\ Only(n2, "notify", m) /\ Prompt(n2)
      /\ n2["new_task"] = net["new_task"] /\ n2["reclaim"] = net["reclaim"]
  BY ONLY <1>0, <1>1, <1>2, PutOnly
<1>4. /\ Board(os2, tasks, Live, Returns, New) /\ StopsStay(orders, tasks, Live, os2, tasks, Live)
      /\ s = "cancelled" /\ New = {} => Called(os2, tasks, Live, New, o)
  BY <1>0, OrderChanged
<1>5. os2[o] = s /\ \A p \in Order : p # o => os2[p] = orders[p]
  BY <1>0
<1> HIDE DEF os2, m, n2
<1>6. NetOK(n2) /\ n2["report"] = net["report"]
  BY <1>0, <1>1, <1>3 DEF NetOK, Only, Clear, Single
<1>7. MessageOK("notify", m, os2, tasks, Live, New, robots)
  <2>1. CASE s = "pending"
    BY <1>5, <2>1 DEF MessageOK, m
  <2>2. CASE s = "cancelled"
    <3>1. \A r \in Robot : robots[r].oid # o
      BY <2>2, MarkedIsCancelled
    <3> QED BY <1>1, <1>4, <2>2, <3>1 DEF MessageOK, m
  <2> QED BY <2>1, <2>2
<1>8. News(n2, os2, tasks, Live, New, robots)
  BY <1>2, <1>3, <1>7, OneNews
<1>9. Timed(os2, tasks, deadlines, untimed, n2)
  <2>1. \A t \in 1..Len(tasks) : tasks[t].type = "outbound" => tasks[t].order \in Order
    BY <1>0 DEF RowsOK, RowOK
  <2>2. \A t \in 1..Len(tasks) :
          tasks[t].type = "outbound" /\ os2[tasks[t].order] = "awaiting_pickup"
            => orders[tasks[t].order] = "awaiting_pickup"
    BY <1>5, <2>1
  <2> QED BY <1>0, <1>1, <2>2, TimedKept, SMTT(60)
<1>10. /\ orders' = os2 /\ tasks' = tasks /\ deadlines' = deadlines /\ untimed' = untimed
       /\ net' = n2 /\ seen' = seen /\ robots' = robots
  BY DEF os2, n2, m, memory
<1> QED BY <1>3, <1>4, <1>6, <1>8, <1>9, <1>10, StillAgree DEF New, Returns

LEMMA OrderServerAgrees ==
  ASSUME OrdersAssumption, PromptButReclaims, LifeInv,
         NEW o \in Order, CreateOrder(o) \/ CancelOrder(o) \/ OperatorCancels(o)
  PROVE  Agreed'
<1>1. CASE CreateOrder(o)
  <2>1. /\ Quiet /\ orders[o] = "none" /\ orders' = [orders EXCEPT ![o] = "pending"]
        /\ net' = Send(net, "notify", <<"new_order", o>>) /\ UNCHANGED <<tasks, memory, robots>>
    BY <1>1 DEF CreateOrder, world
  <2> QED BY <2>1, OrderTold
<1>2. CASE Cancelled(o)
  <2>1. /\ Quiet /\ orders[o] \in {"pending", "processing"}
        /\ orders' = [orders EXCEPT ![o] = "cancelled"]
        /\ net' = Send(net, "notify", <<"order_cancelled", o>>) /\ UNCHANGED <<tasks, memory, robots>>
    BY <1>2 DEF Cancelled, world
  <2> QED BY <2>1, OrderTold
<1> QED BY <1>1, <1>2 DEF CancelOrder, OperatorCancels

-----------------------------------------------------------------------------
(* The task manager.                                                       *)

\* The message that is received is the only one, and nothing is left of it.
LEMMA ReceivedIs ==
  ASSUME LifeInv, NEW c \in Single, NEW m, Received(c, m)
  PROVE  /\ Taken(c) \in Nets /\ Clear(Taken(c)) /\ Prompt(Taken(c)) /\ NetOK(Taken(c))
         /\ Only(net, c, m)
         /\ Taken(c)["new_task"] = net["new_task"] /\ Taken(c)["reclaim"] = net["reclaim"]
         /\ MessageOK(c, m, orders, tasks, Live, New, robots)
         /\ c # "report" => Taken(c)["report"] = net["report"]
<1>1. net \in Nets /\ Prompt(net) /\ NetOK(net) /\ News(net, orders, tasks, Live, New, robots)
  BY StateIs
<1>2. net[c] # <<>> /\ Head(net[c]) = m
  BY DEF Received
<1>3. /\ Taken(c) \in Nets /\ Clear(Taken(c)) /\ Prompt(Taken(c)) /\ Only(net, c, m)
      /\ Taken(c)["new_task"] = net["new_task"] /\ Taken(c)["reclaim"] = net["reclaim"]
  BY <1>1, <1>2, TakeOnly DEF Taken
<1>4. NetOK(Taken(c))
  BY <1>1, <1>3 DEF NetOK
<1>5. MessageOK(c, m, orders, tasks, Live, New, robots)
  BY <1>1, <1>2 DEF News
<1>6. c # "report" => Taken(c)["report"] = net["report"]
  BY <1>3 DEF Clear, Only, Single
<1> QED BY <1>3, <1>4, <1>5, <1>6

\* A new task is queued for the fleet manager.
LEMMA QueuedIs ==
  ASSUME NEW n, NetOK(n), NEW id \in Nat, id \notin Items(n["new_task"])
  PROVE  LET n2 == Send(n, "new_task", id)
         IN  /\ NetOK(n2) /\ \A c \in Channel : c # "new_task" => n2[c] = n[c]
             /\ Items(n2["new_task"]) = Items(n["new_task"]) \cup {id}
             /\ Clear(n) => Clear(n2)
             /\ \A c \in Single : n2[c] = n[c]
<1> DEFINE n2 == Send(n, "new_task", id)
<1>1. n \in Nets /\ Prompt(n) /\ id \in Message /\ n["new_task"] \in Seq(Message)
  BY ChannelsAre DEF NetOK, Message, Nets
<1>2. /\ n2 \in Nets /\ Prompt(n2) /\ n2["new_task"] = Append(n["new_task"], id)
      /\ \A d \in Channel : d # "new_task" => n2[d] = n[d]
      /\ \A d \in Single : n2[d] = n[d]
      /\ Clear(n) => Clear(n2)
  <2>1. "new_task" \in {"new_task", "reclaim"}
    OBVIOUS
  <2> QED BY ONLY <1>1, <2>1, PutQueue
<1>3. /\ Items(n2["new_task"]) = Items(n["new_task"]) \cup {id}
      /\ Distinct(n["new_task"]) => Distinct(n2["new_task"])
  <2> HIDE DEF n2
  <2>1. Items(Append(n["new_task"], id)) = Items(n["new_task"]) \cup {id}
        /\ (Distinct(n["new_task"]) => Distinct(Append(n["new_task"], id)))
    BY ONLY <1>1, id \notin Items(n["new_task"]), ItemsAppend
  <2> QED BY <1>2, <2>1
<1> HIDE DEF n2
<1>4. n2["reclaim"] = n["reclaim"]
  BY <1>2, ChannelsAre
<1>5. NetOK(n2)
  BY <1>2, <1>3, <1>4 DEF NetOK
<1> QED BY <1>2, <1>3, <1>5 DEF n2

\* The task ids that are new are ids of tasks, so the next id is none of them.
LEMMA NextIdIsNew ==
  ASSUME LifeInv
  PROVE  Len(tasks) + 1 \in Nat /\ Len(tasks) + 1 \notin New
  BY StateIs DEF Board, TaskNews

\* A handler that leaves the tables alone.
LEMMA TablesLeft ==
  ASSUME LifeInv, NEW n2, NetOK(n2), Items(n2["new_task"]) = New, Items(n2["reclaim"]) = Returns,
         n2["report"] = net["report"], News(n2, orders, tasks, Live, New, robots),
         \A p : ~Arrived(net, p),
         net' = n2, UNCHANGED <<database, memory, robots>>
  PROVE  Agreed'
<1>1. Board(orders, tasks, Live, Returns, New) /\ Timed(orders, tasks, deadlines, untimed, net)
  BY StateIs
<1>2. StopsStay(orders, tasks, Live, orders, tasks, Live)
  BY DEF StopsStay
<1>3. Timed(orders, tasks, deadlines, untimed, n2)
  BY <1>1, TimedKept
<1>4. /\ orders' = orders /\ tasks' = tasks /\ deadlines' = deadlines /\ untimed' = untimed
      /\ net' = n2 /\ seen' = seen /\ robots' = robots
  BY DEF database, memory
<1> QED BY <1>1, <1>2, <1>3, <1>4, StillAgree

LEMMA OnlyTaken ==
  ASSUME LifeInv, NEW c \in Single, NEW m, Received(c, m), c # "report", \A p : ~Arrived(net, p),
         net' = Taken(c), UNCHANGED <<database, memory, robots>>
  PROVE  Agreed'
<1> DEFINE n2 == Taken(c)
<1>1. /\ NetOK(n2) /\ Items(n2["new_task"]) = New /\ Items(n2["reclaim"]) = Returns
      /\ n2["report"] = net["report"] /\ News(n2, orders, tasks, Live, New, robots)
  BY ReceivedIs, NoNews DEF New, Returns
<1>2. net' = n2
  OBVIOUS
<1> HIDE DEF n2
<1> QED BY <1>1, <1>2, TablesLeft

\* A message on the order's channel is of one of three kinds.
LEMMA NotifyIs ==
  ASSUME NEW m, NEW os, NEW ts, NEW live, NEW nt, NEW rs, MessageOK("notify", m, os, ts, live, nt, rs)
  PROVE  /\ \A o : m = <<"new_order", o>> => o \in Order /\ os[o] = "pending"
         /\ \A o : m = <<"awaiting_pickup", o>> => o \in Order /\ os[o] = "awaiting_pickup"
         /\ \A o : m = <<"order_cancelled", o>> =>
              o \in Order /\ Called(os, ts, live, nt, o) /\ \A r \in Robot : rs[r].oid # o
<1>1. PICK p \in Order :
          \/ m = <<"new_order", p>> /\ os[p] = "pending"
          \/ m = <<"awaiting_pickup", p>> /\ os[p] = "awaiting_pickup"
          \/ /\ m = <<"order_cancelled", p>> /\ Called(os, ts, live, nt, p)
             /\ \A r \in Robot : rs[r].oid # p
  BY DEF MessageOK
<1> QED BY <1>1

\* Only the message that an order is at the gate starts a clock.
LEMMA OtherNotify ==
  ASSUME NEW n, NEW c \in Single, NEW m, Only(n, c, m), c # "notify" \/ \A p : m # <<"awaiting_pickup", p>>
  PROVE  \A p : ~Arrived(n, p)
<1>1. Head(<<m>>) = m /\ "notify" \in Single
  BY DEF Single
<1>2. CASE c = "notify"
  <2>1. Head(n["notify"]) = m
    BY <1>1, <1>2 DEF Only
  <2> QED BY <1>2, <2>1 DEF Arrived
<1>3. CASE c # "notify"
  BY <1>1, <1>3 DEF Only, Arrived
<1> QED BY <1>2, <1>3

\* A handler that creates a task, and queues it.
LEMMA TaskQueued ==
  ASSUME LifeInv, NEW c \in Single, NEW m, Received(c, m), c # "report", \A p : ~Arrived(net, p),
         NEW row \in Row, row.status = "pending", NEW os2 \in [Order -> OrderStatus],
         \/ row.type # "outbound" /\ os2 = orders
         \/ /\ row.type = "outbound" /\ row.order \in Order /\ orders[row.order] = "pending"
            /\ os2 = [orders EXCEPT ![row.order] = "processing"]
            /\ \A t \in 1..Len(tasks) :
                 tasks[t].type = "outbound" /\ orders[tasks[t].order] \in {"processing", "awaiting_pickup"}
                   => tasks[t].target # row.target,
         tasks' = Append(tasks, row), orders' = os2,
         net' = Send(Taken(c), "new_task", Len(tasks) + 1), UNCHANGED <<memory, robots>>
  PROVE  Agreed'
<1> DEFINE ts2 == Append(tasks, row)
           n2 == Send(Taken(c), "new_task", Len(tasks) + 1)
           nt == New \cup {Len(tasks) + 1}
<1>0. /\ orders \in [Order -> OrderStatus] /\ RowsOK(tasks) /\ Returns \in SUBSET Order
      /\ Board(orders, tasks, Live, Returns, New) /\ Len(tasks) \in Nat
      /\ Timed(orders, tasks, deadlines, untimed, net)
  BY StateIs
<1>1. /\ NetOK(Taken(c)) /\ Clear(Taken(c)) /\ Taken(c)["new_task"] = net["new_task"]
      /\ Taken(c)["reclaim"] = net["reclaim"] /\ Taken(c)["report"] = net["report"]
  BY ReceivedIs
<1>2. /\ NetOK(n2) /\ n2["reclaim"] = net["reclaim"] /\ n2["report"] = net["report"]
      /\ Items(n2["new_task"]) = nt /\ Clear(n2)
  <2> DEFINE n == Taken(c)
  <2>1. Len(tasks) + 1 \in Nat /\ Len(tasks) + 1 \notin Items(n["new_task"])
    BY <1>1, NextIdIsNew DEF New
  <2>2. NetOK(n) /\ Clear(n)
    BY <1>1
  <2>3. "reclaim" \in Channel /\ "report" \in Channel /\ Items(n["new_task"]) = New
    BY <1>1 DEF Channel, New
  <2> HIDE DEF n
  <2>4. /\ NetOK(n2) /\ \A d \in Channel : d # "new_task" => n2[d] = n[d]
        /\ Items(n2["new_task"]) = nt /\ Clear(n2)
    BY <2>1, <2>2, <2>3, QueuedIs DEF n
  <2> QED BY <1>1, <2>3, <2>4 DEF n
<1>3. Board(os2, ts2, Live, Returns, nt) /\ StopsStay(orders, tasks, Live, os2, ts2, Live)
  BY <1>0, TaskAdded
<1>4. /\ \A t \in 1..Len(tasks) : ts2[t] = tasks[t] /\ (tasks[t].type = "outbound" => tasks[t].order \in Order)
      /\ ts2[Len(tasks) + 1] = row /\ Len(ts2) = Len(tasks) + 1
  BY <1>0 DEF RowsOK, RowOK
<1>5. \A t \in 1..Len(ts2) :
        ts2[t].type = "outbound" /\ os2[ts2[t].order] = "awaiting_pickup" =>
          /\ t \in 1..Len(tasks) /\ tasks[t].type = "outbound" /\ ts2[t].order = tasks[t].order
          /\ ts2[t].target = tasks[t].target /\ orders[tasks[t].order] = "awaiting_pickup"
  <2> HIDE DEF ts2
  <2> SUFFICES ASSUME NEW t \in 1..Len(ts2), ts2[t].type = "outbound", os2[ts2[t].order] = "awaiting_pickup"
               PROVE  /\ t \in 1..Len(tasks) /\ ts2[t] = tasks[t]
                      /\ orders[tasks[t].order] = "awaiting_pickup"
    BY <1>4
  <2>1. t # Len(tasks) + 1
    BY <1>0, <1>4
  <2>2. t \in 1..Len(tasks)
    BY <1>0, <1>4, <2>1
  <2> QED BY <1>0, <1>4, <2>2
<1>6. Timed(os2, ts2, deadlines, untimed, n2)
  <2> HIDE DEF ts2, n2
  <2> QED BY <1>0, <1>5, TimedKept
<1>7. News(n2, os2, ts2, Live, nt, robots)
  BY <1>2, NoNews
<1>8. /\ orders' = os2 /\ tasks' = ts2 /\ deadlines' = deadlines /\ untimed' = untimed
      /\ net' = n2 /\ seen' = seen /\ robots' = robots
  BY DEF memory
<1> HIDE DEF ts2, n2, nt
<1> QED BY <1>2, <1>3, <1>6, <1>7, <1>8, StillAgree DEF Returns

\* The outbound task of an order is the only one it has.
LEMMA OutboundTaskIsIt ==
  ASSUME LifeInv, NEW o, NEW t \in Ids, tasks[t].type = "outbound", tasks[t].order = o
  PROVE  OutboundTask(o) = t /\ OutboundTask(o) # NoTask
<1>1. TablesOK(tasks, shelves) /\ OneTask(tasks) /\ Ids = 1..Len(tasks) /\ Len(tasks) \in Nat
  BY StateIs DEF Board
<1>2. t <= OutboundTask(o) /\ t \in Nat /\ t # 0
  BY <1>1, OutboundTaskIs
<1>3. OutboundTask(o) # NoTask
  <2>1. OutboundTask(o) = NoTask => FALSE
    BY <1>1, <1>2 DEF NoTask
  <2> QED BY <2>1
<1>4. /\ OutboundTask(o) \in Ids /\ tasks[OutboundTask(o)].type = "outbound"
      /\ tasks[OutboundTask(o)].order = o
  BY <1>1, <1>3, OutboundTaskIs
<1> QED BY <1>1, <1>3, <1>4 DEF OneTask

LEMMA CreateOutboundAgrees ==
  ASSUME OrdersAssumption, LifeInv, NEW o \in Order, CreateOutbound(o)
  PROVE  Agreed'
<1> DEFINE stock == {s \in Shelf : IsFull(s) /\ ~IsLocked(s)}
           free  == Gate \ OccupiedGates
           s == CHOOSE s \in stock : \A u \in stock : shelves[s].inbound_at <= shelves[u].inbound_at
           g == FirstOf(Gates, free)
           m == <<"new_order", o>>
<1>0. TablesOK(tasks, shelves) /\ orders \in [Order -> OrderStatus] /\ Ids = 1..Len(tasks)
  BY StateIs
<1>1. Received("notify", m) /\ "notify" \in Single /\ UNCHANGED <<memory, robots>>
  BY DEF CreateOutbound, Single, world
<1>2. /\ Only(net, "notify", m) /\ orders[o] = "pending"
      /\ \A p : ~Arrived(net, p)
  <2>1. Only(net, "notify", m) /\ MessageOK("notify", m, orders, tasks, Live, New, robots)
    BY <1>1, ReceivedIs
  <2>2. \A p : m # <<"awaiting_pickup", p>>
    OBVIOUS
  <2>3. orders[o] = "pending"
    BY <2>1, NotifyIs
  <2> HIDE DEF m
  <2> QED BY <1>1, <2>1, <2>2, <2>3, OtherNotify
<1>3. CASE stock = {} \/ free = {}
  <2>1. net' = Taken("notify") /\ UNCHANGED database
    BY <1>3 DEF CreateOutbound
  <2> HIDE DEF m
  <2> QED BY <1>1, <1>2, <2>1, OnlyTaken
<1>4. CASE stock # {} /\ free # {}
  <2>1. s \in Shelf
    <3>1. stock \in SUBSET Shelf
      OBVIOUS
    <3> HIDE DEF stock
    <3>2. s \in stock
      BY <1>0, <1>4, <3>1, OldestIsStock
    <3> QED BY <3>1, <3>2
  <2>2. g \in free
    <3>1. Gates \in Seq(Gate) /\ free # {} /\ free \subseteq ToSet(Gates)
      BY <1>4 DEF OrdersAssumption, Gate
    <3> HIDE DEF free
    <3> QED BY <3>1, FirstOfIsIn
  <2> DEFINE row == Task("outbound", o, s, g)
             os2 == [orders EXCEPT ![o] = "processing"]
  <2>3. /\ tasks' = Append(tasks, row) /\ orders' = os2
        /\ net' = Send(Taken("notify"), "new_task", Len(tasks) + 1)
    BY <1>4 DEF CreateOutbound
  <2>4. g \in Gate
    BY <2>2
  <2>5. \A t \in 1..Len(tasks) :
          tasks[t].type = "outbound" /\ orders[tasks[t].order] \in {"processing", "awaiting_pickup"}
            => tasks[t].target # g
    <3>1. g \notin OccupiedGates
      BY <2>2
    <3> HIDE DEF g
    <3>2. g \notin {tasks[t].target : t \in {u \in Ids :
            /\ tasks[u].type = "outbound" /\ orders[tasks[u].order] \in {"processing", "awaiting_pickup"}}}
      BY <3>1 DEF OccupiedGates
    <3> QED BY <1>0, <3>2
  <2> HIDE DEF s, g
  <2>6. row \in Row /\ row.status = "pending" /\ row.type = "outbound" /\ row.order = o /\ row.target = g
    BY <2>1, <2>4 DEF Task, Row, Place
  <2>7. os2 \in [Order -> OrderStatus]
    BY <1>0 DEF OrderStatus
  <2>8. os2 = [orders EXCEPT ![row.order] = "processing"] /\ row.order \in Order /\ orders[row.order] = "pending"
    BY <1>2, <2>6
  <2>9. \A t \in 1..Len(tasks) :
          tasks[t].type = "outbound" /\ orders[tasks[t].order] \in {"processing", "awaiting_pickup"}
            => tasks[t].target # row.target
    BY <2>5, <2>6
  <2> HIDE DEF m, row, os2
  <2> QED BY <1>1, <1>2, <2>3, <2>6, <2>7, <2>8, <2>9, TaskQueued
<1> QED BY <1>3, <1>4

LEMMA OnInboundAgrees ==
  ASSUME OrdersAssumption, LifeInv, OnInbound
  PROVE  Agreed'
<1> DEFINE free == {s \in Shelf : ~IsFull(s) /\ ~IsLocked(s)}
           s == FirstOf(Shelves, free)
           m == <<"inbound", Inbound>>
<1>1. Received("detection", m) /\ "detection" \in Single /\ UNCHANGED <<memory, robots>>
  BY DEF OnInbound, Single, world
<1>2. \A p : ~Arrived(net, p)
  <2>1. Only(net, "detection", m)
    BY <1>1, ReceivedIs
  <2> HIDE DEF m
  <2> QED BY <1>1, <2>1, OtherNotify
<1>3. CASE free = {}
  <2>1. net' = Taken("detection") /\ UNCHANGED database
    BY <1>3 DEF OnInbound
  <2> HIDE DEF m
  <2> QED BY <1>1, <1>2, <2>1, OnlyTaken
<1>4. CASE free # {}
  <2>1. s \in Shelf
    <3>1. Shelves \in Seq(Shelf) /\ free # {} /\ free \subseteq ToSet(Shelves) /\ free \subseteq Shelf
      BY <1>4 DEF OrdersAssumption, Shelf
    <3> HIDE DEF free
    <3> QED BY <3>1, FirstOfIsIn
  <2> DEFINE row == Task("inbound", NoOrder, Inbound, s)
  <2>2. /\ tasks' = Append(tasks, row) /\ orders' = orders
        /\ net' = Send(Taken("detection"), "new_task", Len(tasks) + 1)
    BY <1>4 DEF OnInbound
  <2> HIDE DEF s
  <2>3. row \in Row /\ row.status = "pending" /\ row.type # "outbound"
    BY <2>1 DEF Task, Row, Place
  <2>4. orders \in [Order -> OrderStatus]
    BY StateIs
  <2> HIDE DEF m, row
  <2> QED BY <1>1, <1>2, <2>2, <2>3, <2>4, TaskQueued
<1> QED BY <1>3, <1>4

\* Closing a row changes nothing else of the table.
LEMMA ClosedIs ==
  ASSUME NEW ts, RowsOK(ts), NEW t \in 1..Len(ts), NEW status
  PROVE  LET ts2 == Close(ts, t, status)
         IN  /\ Len(ts2) = Len(ts) /\ ts2 = [ts EXCEPT ![t].status = status]
             /\ \A u \in 1..Len(ts) : /\ ts2[u].type = ts[u].type /\ ts2[u].order = ts[u].order
                                      /\ ts2[u].target = ts[u].target
<1> DEFINE row == [ts[t] EXCEPT !.status = status]
           ts2 == [ts EXCEPT ![t] = row]
<1>1. ts \in Seq(Row) /\ ts[t] \in Row /\ Len(ts) \in Nat
  BY DEF RowsOK
<1>2. row.type = ts[t].type /\ row.order = ts[t].order /\ row.target = ts[t].target
  BY <1>1 DEF Row
<1>3. Close(ts, t, status) = ts2
  BY DEF Close
<1>4. Close(ts, t, status) = [ts EXCEPT ![t].status = status]
  BY DEF Close
<1> HIDE DEF row
<1>5. Len(ts2) = Len(ts) /\ \A u \in 1..Len(ts) : ts2[u] = IF u = t THEN row ELSE ts[u]
  BY <1>1
<1> HIDE DEF ts2
<1>6. \A u \in 1..Len(ts) : /\ ts2[u].type = ts[u].type /\ ts2[u].order = ts[u].order
                            /\ ts2[u].target = ts[u].target
  BY <1>2, <1>5
<1> QED BY <1>3, <1>4, <1>5, <1>6

\* The pallet of an order is to be brought back from the gate: its task ends
\* and another begins.
LEMMA ReclaimedBoard ==
  ASSUME LifeInv, NEW o \in Order, NEW t \in Ids, tasks[t].type = "outbound", tasks[t].order = o,
         t \notin New, \A r \in Live : ~Current(tasks, t, r),
         NEW rec \in SUBSET Returns, o \notin rec,
         NEW os2 \in [Order -> OrderStatus],
         \/ os2 = orders /\ orders[o] = "cancelled"
         \/ os2 = [orders EXCEPT ![o] = "cancelled"] /\ orders[o] = "awaiting_pickup"
  PROVE  LET ts2 == Append(Close(tasks, t, "cancelled"),
                           Task("reclaim", o, tasks[t].target, tasks[t].source))
             nt == New \cup {Len(tasks) + 1}
         IN  /\ Board(os2, ts2, Live, rec, nt) /\ StopsStay(orders, tasks, Live, os2, ts2, Live)
             /\ \A p \in Order : Called(orders, tasks, Live, New, p) => Called(os2, ts2, Live, nt, p)
             /\ \A u \in 1..Len(ts2) : ts2[u].type = "outbound" =>
                  /\ u \in 1..Len(tasks) /\ tasks[u].type = "outbound"
                  /\ ts2[u].order = tasks[u].order /\ ts2[u].target = tasks[u].target
<1> DEFINE mid == Close(tasks, t, "cancelled")
           row == Task("reclaim", o, tasks[t].target, tasks[t].source)
           ts2 == Append(mid, row)
           nt == New \cup {Len(tasks) + 1}
<1>0. /\ orders \in [Order -> OrderStatus] /\ RowsOK(tasks) /\ Returns \in SUBSET Order
      /\ Board(orders, tasks, Live, Returns, New) /\ Len(tasks) \in Nat /\ Ids = 1..Len(tasks)
  BY StateIs
<1>1. /\ Len(mid) = Len(tasks) /\ mid = [tasks EXCEPT ![t].status = "cancelled"]
      /\ \A u \in 1..Len(tasks) : /\ mid[u].type = tasks[u].type /\ mid[u].order = tasks[u].order
                                  /\ mid[u].target = tasks[u].target
  BY <1>0, ClosedIs
<1>2. row \in Row /\ row.status = "pending" /\ row.type # "outbound"
  <2>1. tasks[t] \in Row
    BY <1>0 DEF RowsOK
  <2>2. tasks[t].target \in Place /\ tasks[t].source \in Place
    BY <2>1 DEF Row
  <2> QED BY <2>2 DEF Task, Row
<1> HIDE DEF mid, row
<1>3. /\ RowsOK(mid) /\ Board(os2, mid, Live, rec, New)
      /\ \A r \in Robot, p \in Order : Stops(orders, tasks, Live, r, p) => Stops(os2, mid, Live, r, p)
      /\ \A p \in Order : Called(orders, tasks, Live, New, p) => Called(os2, mid, Live, New, p)
  <2> DEFINE ended == [tasks EXCEPT ![t].status = "cancelled"]
  <2>1. Live \in SUBSET Live /\ "cancelled" \in {"done", "cancelled"} /\ t \in 1..Len(tasks)
    BY <1>0
  <2>2. tasks[t].type = "outbound" => tasks[t].order \notin rec
    OBVIOUS
  <2>3. \/ os2 = orders /\ (tasks[t].type = "outbound" => orders[tasks[t].order] = "cancelled")
        \/ /\ tasks[t].type = "outbound" /\ orders[tasks[t].order] = "awaiting_pickup"
           /\ \E s \in {"cancelled", "delivered"} : os2 = [orders EXCEPT ![tasks[t].order] = s]
    OBVIOUS
  <2>4. /\ RowsOK(ended) /\ Board(os2, ended, Live, rec, New)
        /\ \A r \in Robot, p \in Order :
             r \notin Live \ Live /\ Stops(orders, tasks, Live, r, p) => Stops(os2, ended, Live, r, p)
        /\ \A p \in Order : Called(orders, tasks, Live, New, p) => Called(os2, ended, Live, New, p)
    <3>1. /\ os2 \in [Order -> OrderStatus] /\ rec \in SUBSET Returns /\ t \notin New
          /\ (\A r \in Live : ~Current(tasks, t, r)) /\ (\A r \in Live \ Live : Current(tasks, t, r))
      OBVIOUS
    <3> QED BY ONLY <1>0, <2>1, <2>2, <2>3, <3>1, TaskClosed
  <2>5. mid = ended
    BY <1>1
  <2> HIDE DEF ended
  <2> QED BY <2>4, <2>5
<1>4. rec \in SUBSET Order
  BY <1>0
<1>5. /\ Board(os2, ts2, Live, rec, nt) /\ StopsStay(os2, mid, Live, os2, ts2, Live)
      /\ \A p \in Order : Called(os2, mid, Live, New, p) => Called(os2, ts2, Live, nt, p)
  BY <1>1, <1>2, <1>3, <1>4, TaskAdded
<1>6. StopsStay(orders, tasks, Live, os2, ts2, Live)
  BY <1>3, <1>5 DEF StopsStay
<1>7. \A u \in 1..Len(ts2) : ts2[u].type = "outbound" =>
        /\ u \in 1..Len(tasks) /\ tasks[u].type = "outbound"
        /\ ts2[u].order = tasks[u].order /\ ts2[u].target = tasks[u].target
  <2>1. Len(ts2) = Len(tasks) + 1 /\ ts2[Len(tasks) + 1] = row
        /\ \A u \in 1..Len(tasks) : ts2[u] = mid[u]
    BY <1>0, <1>1, <1>2, <1>3 DEF RowsOK
  <2> HIDE DEF ts2
  <2> SUFFICES ASSUME NEW u \in 1..Len(ts2), ts2[u].type = "outbound"
               PROVE  u \in 1..Len(tasks)
    BY <1>1, <2>1
  <2> QED BY <1>0, <1>2, <2>1
<1> QED BY <1>3, <1>5, <1>6, <1>7 DEF mid, row

\* An order whose task has ended at the gate is no robot's.
LEMMA AtGateIsNoRobots ==
  ASSUME LifeInv, NEW t \in Ids, tasks[t].type = "outbound",
         orders[tasks[t].order] = "awaiting_pickup" \/ tasks[t].order \in Returns
  PROVE  t \notin New /\ \A r \in Live : ~Current(tasks, t, r)
<1>0. Board(orders, tasks, Live, Returns, New) /\ Ids = 1..Len(tasks) /\ RowsOK(tasks)
  BY StateIs
<1>1. tasks[t].status = "assigned"
  BY <1>0 DEF Board, Stage, StageOf, Reclaims, IsOutbound
<1>2. t \notin New
  BY <1>0, <1>1 DEF Board, TaskNews
<1>3. ASSUME NEW r \in Live, Current(tasks, t, r) PROVE FALSE
  <2>1. PICK u \in 1..Len(tasks) : Current(tasks, u, r) /\ Fresh(orders, tasks, Returns, u)
    BY <1>0 DEF Board, Loads
  <2>2. u = t
    BY <1>0, <1>3, <2>1, CurrentIsOne
  <2> QED BY <2>1, <2>2 DEF Fresh
<1> QED BY <1>2, <1>3

LEMMA OnReclaimRequestAgrees ==
  ASSUME OrdersAssumption, LifeInv, NEW o \in Order, OnReclaimRequest(o)
  PROVE  Agreed'
<1> DEFINE t == OutboundTask(o)
           n == Taken("reclaim")
           rec == Returns \ {o}
<1>0. /\ orders \in [Order -> OrderStatus] /\ RowsOK(tasks) /\ Returns \in SUBSET Order
      /\ Board(orders, tasks, Live, Returns, New) /\ Len(tasks) \in Nat /\ Ids = 1..Len(tasks)
      /\ Timed(orders, tasks, deadlines, untimed, net) /\ NetOK(net) /\ TablesOK(tasks, shelves)
      /\ News(net, orders, tasks, Live, New, robots)
  BY StateIs
<1>1. /\ NetOK(n) /\ Items(n["reclaim"]) = rec /\ n["new_task"] = net["new_task"]
      /\ n["report"] = net["report"] /\ o \in Returns
      /\ \A c \in Single : n[c] = net[c]
  <2>1. /\ net["reclaim"] # <<>> /\ Head(net["reclaim"]) = o /\ net \in Nets /\ Prompt(net)
        /\ Distinct(net["reclaim"]) /\ Distinct(net["new_task"]) /\ net["reclaim"] \in Seq(Message)
    BY <1>0, ChannelsAre DEF OnReclaimRequest, Received, NetOK, Nets
  <2>2. /\ Items(Tail(net["reclaim"])) = Returns \ {o} /\ Distinct(Tail(net["reclaim"])) /\ o \in Returns
    BY <2>1, ItemsTail DEF Returns
  <2>3. /\ n \in Nets /\ Prompt(n) /\ n["reclaim"] = Tail(net["reclaim"])
        /\ \A d \in Channel : d # "reclaim" => n[d] = net[d]
        /\ \A d \in Single : n[d] = net[d]
    BY <2>1, TakeQueue DEF Taken
  <2> HIDE DEF n
  <2>4. "new_task" \in Channel /\ "report" \in Channel
    BY DEF Channel
  <2> QED BY <1>0, <2>1, <2>2, <2>3, <2>4 DEF NetOK
<1>2. \A p : Arrived(net, p) = Arrived(n, p)
  BY <1>1 DEF Arrived, Single
<1>3. orders[o] = "cancelled"
  BY <1>0, <1>1 DEF Board, Reclaims
<1>4. rec \in SUBSET Returns /\ o \notin rec
  OBVIOUS
<1>5. UNCHANGED <<orders, memory, robots>>
  BY DEF OnReclaimRequest, world
<1> HIDE DEF n, rec
<1>6. CASE t = NoTask
  <2>1. net' = n /\ UNCHANGED tasks
    BY <1>6 DEF OnReclaimRequest, n
  <2>2. Board(orders, tasks, Live, rec, New)
    BY <1>0, <1>4 DEF Board, Loads, Fresh, Reclaims
  <2>3. StopsStay(orders, tasks, Live, orders, tasks, Live)
    BY DEF StopsStay
  <2>4. News(n, orders, tasks, Live, New, robots)
    BY <1>0, <1>1, <2>3, NewsKept
  <2>5. Timed(orders, tasks, deadlines, untimed, n)
    BY <1>0, <1>2, TimedKept
  <2>6. /\ orders' = orders /\ tasks' = tasks /\ deadlines' = deadlines /\ untimed' = untimed
        /\ net' = n /\ seen' = seen /\ robots' = robots
    BY <1>5, <2>1 DEF memory
  <2> QED BY <1>1, <2>2, <2>3, <2>4, <2>5, <2>6, StillAgree DEF New
<1>7. CASE t # NoTask
  <2> DEFINE ts2 == Append(Close(tasks, t, "cancelled"), Task("reclaim", o, tasks[t].target, tasks[t].source))
             n2 == Send(n, "new_task", Len(tasks) + 1)
             nt == New \cup {Len(tasks) + 1}
  <2>1. net' = n2 /\ tasks' = ts2
    BY <1>7 DEF OnReclaimRequest, Reclaim, n
  <2>2. t \in Ids /\ tasks[t].type = "outbound" /\ tasks[t].order = o
    BY <1>0, <1>7, OutboundTaskIs
  <2> HIDE DEF t
  <2>3. t \notin New /\ \A r \in Live : ~Current(tasks, t, r)
    BY <1>1, <2>2, AtGateIsNoRobots
  <2>4. /\ Board(orders, ts2, Live, rec, nt) /\ StopsStay(orders, tasks, Live, orders, ts2, Live)
        /\ \A p \in Order : Called(orders, tasks, Live, New, p) => Called(orders, ts2, Live, nt, p)
        /\ \A u \in 1..Len(ts2) : ts2[u].type = "outbound" =>
             /\ u \in 1..Len(tasks) /\ tasks[u].type = "outbound"
             /\ ts2[u].order = tasks[u].order /\ ts2[u].target = tasks[u].target
    BY <1>0, <1>3, <1>4, <2>2, <2>3, ReclaimedBoard
  <2>5. /\ NetOK(n2) /\ n2["reclaim"] = n["reclaim"] /\ n2["report"] = net["report"]
        /\ Items(n2["new_task"]) = nt /\ \A c \in Single : n2[c] = net[c]
    <3>1. Len(tasks) + 1 \in Nat /\ Len(tasks) + 1 \notin Items(n["new_task"])
      BY <1>1, NextIdIsNew DEF New
    <3>2. "reclaim" \in Channel /\ "report" \in Channel /\ Items(n["new_task"]) = New
      BY <1>1 DEF Channel, New
    <3>3. /\ NetOK(n2) /\ \A d \in Channel : d # "new_task" => n2[d] = n[d]
          /\ Items(n2["new_task"]) = nt /\ \A c \in Single : n2[c] = n[c]
      BY <1>1, <3>1, <3>2, QueuedIs
    <3> HIDE DEF n2
    <3> QED BY <1>1, <3>2, <3>3
  <2> HIDE DEF ts2, n2, nt
  <2>6. News(n2, orders, ts2, Live, nt, robots)
    BY <1>0, <2>4, <2>5, NewsKept
  <2>7. \A p : Arrived(net, p) => Arrived(n2, p)
    BY <2>5 DEF Arrived, Single
  <2>8. Timed(orders, ts2, deadlines, untimed, n2)
    BY <1>0, <2>4, <2>7, TimedKept
  <2>9. /\ orders' = orders /\ tasks' = ts2 /\ deadlines' = deadlines /\ untimed' = untimed
        /\ net' = n2 /\ seen' = seen /\ robots' = robots
    BY <1>5, <2>1 DEF memory
  <2> QED BY <1>1, <2>4, <2>5, <2>6, <2>8, <2>9, StillAgree
<1> QED BY <1>6, <1>7

\* The order that waits at a gate is the one whose task leads there.
LEMMA AwaitingIsIt ==
  ASSUME OrdersAssumption, LifeInv, NEW g \in Gate, NEW t \in Ids, tasks[t].type = "outbound",
         tasks[t].target = g, orders[tasks[t].order] = "awaiting_pickup"
  PROVE  AwaitingAt(g) = tasks[t].order /\ AwaitingAt(g) # NoOrder
<1> DEFINE waiting == {u \in Ids : /\ tasks[u].type = "outbound" /\ tasks[u].target = g
                                   /\ orders[tasks[u].order] = "awaiting_pickup"}
<1>0. /\ RowsOK(tasks) /\ Ids = 1..Len(tasks) /\ Len(tasks) \in Nat /\ Apart(orders, tasks)
  BY StateIs DEF Board
<1>1. t \in waiting
  OBVIOUS
<1>2. AwaitingAt(g) = tasks[Max(waiting)].order
  BY <1>1 DEF AwaitingAt
<1>3. Max(waiting) \in waiting
  <2>1. waiting # {} /\ waiting \in SUBSET (0..Len(tasks)) /\ 0 \in Int /\ Len(tasks) \in Int
    BY <1>0, <1>1
  <2> HIDE DEF waiting
  <2> QED BY <2>1, MaxOfBounded
<1> DEFINE m == Max(waiting)
<1>4. m \in Ids /\ tasks[m].type = "outbound" /\ tasks[m].target = g /\ orders[tasks[m].order] = "awaiting_pickup"
  BY <1>3
<1> HIDE DEF m
<1>5. m = t
  BY <1>0, <1>4 DEF Apart
<1>6. tasks[t].order \in Order
  BY <1>0 DEF RowsOK, RowOK
<1> QED BY <1>2, <1>5, <1>6 DEF m, OrdersAssumption, NoOrder

\* A clock is stopped at a gate where no order waits any more.
LEMMA TimedCleared ==
  ASSUME OrdersAssumption, LifeInv, NEW g \in Gate, \A p : ~Arrived(net, p),
         NEW os2, NEW ts2, NEW n2,
         \A t \in 1..Len(ts2) :
           ts2[t].type = "outbound" /\ os2[ts2[t].order] = "awaiting_pickup" =>
             /\ t \in 1..Len(tasks) /\ tasks[t].type = "outbound" /\ ts2[t].order = tasks[t].order
             /\ ts2[t].target = tasks[t].target /\ orders[tasks[t].order] = "awaiting_pickup"
             /\ tasks[t].order # AwaitingAt(g)
  PROVE  Timed(os2, ts2, [deadlines EXCEPT ![g] = NoOrder], untimed, n2)
<1> DEFINE dl2 == [deadlines EXCEPT ![g] = NoOrder]
<1>0. /\ Timed(orders, tasks, deadlines, untimed, net) /\ RowsOK(tasks) /\ Ids = 1..Len(tasks)
  BY StateIs
<1>1. \A h \in Gate : h # g => dl2[h] = deadlines[h]
  BY DEF LifeInv, Types, Memory
<1> HIDE DEF dl2
<1>2. SUFFICES ASSUME NEW t \in 1..Len(ts2), ts2[t].type = "outbound",
                      os2[ts2[t].order] = "awaiting_pickup", ts2[t].order \notin untimed
               PROVE  dl2[ts2[t].target] = ts2[t].order
  BY DEF Timed, dl2
<1>3. /\ t \in 1..Len(tasks) /\ tasks[t].type = "outbound" /\ ts2[t].order = tasks[t].order
      /\ ts2[t].target = tasks[t].target /\ orders[tasks[t].order] = "awaiting_pickup"
      /\ tasks[t].order # AwaitingAt(g)
  BY <1>2
<1>4. tasks[t].target # g
  BY <1>0, <1>3, AwaitingIsIt
<1>5. deadlines[tasks[t].target] = tasks[t].order
  BY <1>0, <1>2, <1>3 DEF Timed
<1>6. tasks[t].target \in Gate
  BY <1>0, <1>3 DEF RowsOK, RowOK
<1> QED BY <1>1, <1>3, <1>4, <1>5, <1>6

LEMMA ArmPickupTimerAgrees ==
  ASSUME OrdersAssumption, LifeInv, NEW o \in Order, ArmPickupTimer(o)
  PROVE  Agreed'
<1> DEFINE own == OutboundTask(o)
           m == <<"awaiting_pickup", o>>
           n2 == Taken("notify")
           dl2 == IF own = NoTask THEN deadlines ELSE [deadlines EXCEPT ![tasks[own].target] = o]
<1>0. /\ RowsOK(tasks) /\ Ids = 1..Len(tasks) /\ TablesOK(tasks, shelves)
      /\ Board(orders, tasks, Live, Returns, New) /\ Timed(orders, tasks, deadlines, untimed, net)
  BY StateIs
<1>1. Received("notify", m) /\ "notify" \in Single
  BY DEF ArmPickupTimer, Single
<1>2. /\ NetOK(n2) /\ Clear(n2) /\ n2["new_task"] = net["new_task"] /\ n2["reclaim"] = net["reclaim"]
      /\ n2["report"] = net["report"] /\ Only(net, "notify", m)
      /\ MessageOK("notify", m, orders, tasks, Live, New, robots)
  <2>1. "notify" # "report"
    OBVIOUS
  <2> HIDE DEF m
  <2> QED BY <1>1, <2>1, ReceivedIs
<1>3. orders[o] = "awaiting_pickup"
  BY <1>2, NotifyIs
<1>4. \A p : Arrived(net, p) => p = o
  <2>1. Head(<<m>>) = m
    OBVIOUS
  <2>2. \A p : m = <<"awaiting_pickup", p>> => p = o
    OBVIOUS
  <2> QED BY <1>2, <2>1, <2>2 DEF Only, Arrived
<1>5. /\ orders' = orders /\ tasks' = tasks /\ deadlines' = dl2 /\ untimed' = untimed
      /\ net' = n2 /\ seen' = seen /\ robots' = robots
  BY DEF ArmPickupTimer, database, world
<1>6. Timed(orders, tasks, dl2, untimed, n2)
  <2> HIDE DEF dl2
  <2> SUFFICES ASSUME NEW t \in 1..Len(tasks), tasks[t].type = "outbound",
                      orders[tasks[t].order] = "awaiting_pickup", tasks[t].order \notin untimed
               PROVE  dl2[tasks[t].target] = tasks[t].order
    BY DEF Timed
  <2>1. deadlines \in [Gate -> Order \cup {NoOrder}] /\ tasks[t].target \in Gate
    BY <1>0 DEF LifeInv, Types, Memory, RowsOK, RowOK
  <2>2. CASE tasks[t].order = o
    <3>1. own = t /\ own # NoTask
      BY <1>0, <2>2, OutboundTaskIsIt
    <3> QED BY <2>1, <2>2, <3>1 DEF dl2
  <2>3. CASE tasks[t].order # o
    <3>1. deadlines[tasks[t].target] = tasks[t].order
      BY <1>0, <1>4, <2>3 DEF Timed
    <3>2. CASE own = NoTask
      BY <3>1, <3>2 DEF dl2
    <3>3. CASE own # NoTask
      <4>1. own \in 1..Len(tasks) /\ tasks[own].type = "outbound" /\ tasks[own].order = o
        BY <1>0, <3>3, OutboundTaskIs
      <4> HIDE DEF own
      <4>2. tasks[own].target # tasks[t].target
        BY <1>0, <1>3, <2>3, <4>1 DEF Board, Apart
      <4>3. dl2 = [deadlines EXCEPT ![tasks[own].target] = o]
        BY <3>3 DEF dl2
      <4> QED BY <2>1, <3>1, <4>2, <4>3
    <3> QED BY <3>2, <3>3
  <2> QED BY <2>2, <2>3
<1>7. News(n2, orders, tasks, Live, New, robots)
  BY <1>2, NoNews
<1>8. StopsStay(orders, tasks, Live, orders, tasks, Live)
  BY DEF StopsStay
<1> HIDE DEF dl2, n2
<1> QED BY <1>0, <1>2, <1>5, <1>6, <1>7, <1>8, StillAgree DEF New, Returns

LEMMA OnClearedAgrees ==
  ASSUME OrdersAssumption, LifeInv, NEW g \in Gate, OnCleared(g)
  PROVE  Agreed'
<1> DEFINE o == AwaitingAt(g)
           m == <<"cleared", g>>
           n2 == Taken("detection")
           dl2 == [deadlines EXCEPT ![g] = NoOrder]
<1>0. /\ orders \in [Order -> OrderStatus] /\ RowsOK(tasks) /\ Ids = 1..Len(tasks) /\ TablesOK(tasks, shelves)
      /\ Board(orders, tasks, Live, Returns, New) /\ Returns \in SUBSET Order
  BY StateIs
<1>1. Received("detection", m) /\ "detection" \in Single /\ "detection" # "report"
  BY DEF OnCleared, Single
<1> HIDE DEF m
<1>2. /\ NetOK(n2) /\ Clear(n2) /\ n2["new_task"] = net["new_task"] /\ n2["reclaim"] = net["reclaim"]
      /\ n2["report"] = net["report"] /\ Only(net, "detection", m)
  BY <1>1, ReceivedIs
<1>3. \A p : ~Arrived(net, p)
  BY <1>1, <1>2, OtherNotify
<1>4. net' = n2 /\ deadlines' = dl2 /\ untimed' = untimed /\ seen' = seen /\ robots' = robots
  BY DEF OnCleared, world
<1> HIDE DEF n2
<1>5. CASE o = NoOrder
  <2>1. orders' = orders /\ tasks' = tasks
    BY <1>5 DEF OnCleared, database
  <2>2. \A t \in 1..Len(tasks) :
          tasks[t].type = "outbound" /\ orders[tasks[t].order] = "awaiting_pickup"
            => tasks[t].order # AwaitingAt(g)
    BY <1>0, <1>5 DEF RowsOK, RowOK, OrdersAssumption, NoOrder
  <2>3. Timed(orders, tasks, dl2, untimed, n2)
    BY <1>3, <2>2, TimedCleared
  <2>4. News(n2, orders, tasks, Live, New, robots)
    BY <1>2, NoNews
  <2>5. StopsStay(orders, tasks, Live, orders, tasks, Live)
    BY DEF StopsStay
  <2> HIDE DEF dl2
  <2> QED BY <1>0, <1>2, <1>4, <2>1, <2>3, <2>4, <2>5, StillAgree DEF New, Returns
<1>6. CASE o # NoOrder
  <2> DEFINE t == OutboundTask(o)
             os2 == [orders EXCEPT ![o] = "delivered"]
             ts2 == Close(tasks, t, "done")
  <2>1. orders' = os2 /\ tasks' = ts2
    BY <1>6 DEF OnCleared
  <2>2. o \in Order /\ orders[o] = "awaiting_pickup" /\ t # NoTask
    BY <1>0, <1>6, AwaitingIs
  <2>3. t \in Ids /\ tasks[t].type = "outbound" /\ tasks[t].order = o
    BY <1>0, <2>2, OutboundTaskIs
  <2> HIDE DEF t, o
  <2>4. t \notin New /\ \A r \in Live : ~Current(tasks, t, r)
    BY <2>2, <2>3, AtGateIsNoRobots
  <2>5. o \notin Returns
    BY <1>0, <2>2 DEF Board, Reclaims
  <2>6. os2 \in [Order -> OrderStatus] /\ os2[o] = "delivered" /\ \A p \in Order : p # o => os2[p] = orders[p]
    BY <1>0, <2>2 DEF OrderStatus
  <2>7. /\ Len(ts2) = Len(tasks) /\ ts2 = [tasks EXCEPT ![t].status = "done"]
        /\ \A u \in 1..Len(tasks) : /\ ts2[u].type = tasks[u].type /\ ts2[u].order = tasks[u].order
                                    /\ ts2[u].target = tasks[u].target
    BY <1>0, <2>3, ClosedIs
  <2>8. Board(os2, ts2, Live, Returns, New) /\ StopsStay(orders, tasks, Live, os2, ts2, Live)
    <3> DEFINE ended == [tasks EXCEPT ![t].status = "done"]
    <3>1. /\ t \in 1..Len(tasks) /\ t \notin New /\ "done" \in {"done", "cancelled"}
          /\ Live \in SUBSET Live /\ Returns \in SUBSET Returns
          /\ (\A r \in Live : ~Current(tasks, t, r)) /\ (\A r \in Live \ Live : Current(tasks, t, r))
          /\ tasks[t].type = "outbound" /\ tasks[t].order \notin Returns
          /\ orders[tasks[t].order] = "awaiting_pickup"
      BY <1>0, <2>2, <2>3, <2>4, <2>5
    <3>2. \E s \in {"cancelled", "delivered"} : os2 = [orders EXCEPT ![tasks[t].order] = s]
      BY <2>3
    <3> HIDE DEF os2
    <3>3. /\ Board(os2, ended, Live, Returns, New)
          /\ \A r \in Robot, p \in Order :
               r \notin Live \ Live /\ Stops(orders, tasks, Live, r, p) => Stops(os2, ended, Live, r, p)
      BY ONLY <1>0, <2>6, <3>1, <3>2, TaskClosed
    <3>4. ts2 = ended
      BY <2>7
    <3> HIDE DEF ended, ts2
    <3> QED BY <3>3, <3>4 DEF StopsStay
  <2> HIDE DEF ts2, os2
  <2>9. Timed(os2, ts2, dl2, untimed, n2)
    <3>1. \A u \in 1..Len(ts2) :
            ts2[u].type = "outbound" /\ os2[ts2[u].order] = "awaiting_pickup" =>
              /\ u \in 1..Len(tasks) /\ tasks[u].type = "outbound" /\ ts2[u].order = tasks[u].order
              /\ ts2[u].target = tasks[u].target /\ orders[tasks[u].order] = "awaiting_pickup"
              /\ tasks[u].order # AwaitingAt(g)
      <4>1. \A u \in 1..Len(tasks) : tasks[u].type = "outbound" => tasks[u].order \in Order
        BY <1>0 DEF RowsOK, RowOK
      <4> QED BY <2>6, <2>7, <4>1 DEF o
    <3> QED BY <1>3, <3>1, TimedCleared
  <2>10. News(n2, os2, ts2, Live, New, robots)
    BY <1>2, NoNews
  <2> HIDE DEF dl2
  <2> QED BY <1>2, <1>4, <2>1, <2>8, <2>9, <2>10, StillAgree DEF New, Returns
<1> QED BY <1>5, <1>6

LEMMA CheckExpiredAgrees ==
  ASSUME OrdersAssumption, PromptButReclaims, LifeInv, NEW g \in Gate, CheckExpired(g)
  PROVE  Agreed'
<1> DEFINE o == AwaitingAt(g)
           dl2 == [deadlines EXCEPT ![g] = NoOrder]
<1>0. /\ orders \in [Order -> OrderStatus] /\ RowsOK(tasks) /\ Ids = 1..Len(tasks) /\ TablesOK(tasks, shelves)
      /\ Board(orders, tasks, Live, Returns, New) /\ Returns \in SUBSET Order /\ NetOK(net)
  BY StateIs
<1>1. Clear(net) /\ New = {} /\ \A p : ~Arrived(net, p)
  BY QuietIs, HandledIs DEF CheckExpired
<1>2. deadlines' = dl2 /\ untimed' = untimed /\ seen' = seen /\ robots' = robots
  BY DEF CheckExpired, world
<1>3. CASE o = NoOrder
  <2>1. orders' = orders /\ tasks' = tasks /\ net' = net
    BY <1>3 DEF CheckExpired, CancelAndReclaim, database
  <2>2. \A t \in 1..Len(tasks) :
          tasks[t].type = "outbound" /\ orders[tasks[t].order] = "awaiting_pickup"
            => tasks[t].order # AwaitingAt(g)
    BY <1>0, <1>3 DEF RowsOK, RowOK, OrdersAssumption, NoOrder
  <2>3. Timed(orders, tasks, dl2, untimed, net)
    BY <1>1, <2>2, TimedCleared
  <2>4. News(net, orders, tasks, Live, New, robots)
    BY <1>1, NoNews
  <2>5. StopsStay(orders, tasks, Live, orders, tasks, Live)
    BY DEF StopsStay
  <2> HIDE DEF dl2
  <2> QED BY <1>0, <1>2, <2>1, <2>3, <2>4, <2>5, StillAgree DEF New, Returns
<1>4. CASE o # NoOrder
  <2> DEFINE t == OutboundTask(o)
             os2 == [orders EXCEPT ![o] = "cancelled"]
             ts2 == Append(Close(tasks, t, "cancelled"), Task("reclaim", o, tasks[t].target, tasks[t].source))
             n2 == Send(net, "new_task", Len(tasks) + 1)
             nt == New \cup {Len(tasks) + 1}
  <2>1. orders' = os2 /\ tasks' = ts2 /\ net' = n2
    BY <1>4 DEF CheckExpired, CancelAndReclaim, Reclaim
  <2>2. o \in Order /\ orders[o] = "awaiting_pickup" /\ t # NoTask
    BY <1>0, <1>4, AwaitingIs
  <2>3. t \in Ids /\ tasks[t].type = "outbound" /\ tasks[t].order = o
    BY <1>0, <2>2, OutboundTaskIs
  <2> HIDE DEF t, o
  <2>4. t \notin New /\ \A r \in Live : ~Current(tasks, t, r)
    BY <2>2, <2>3, AtGateIsNoRobots
  <2>5. o \notin Returns
    BY <1>0, <2>2 DEF Board, Reclaims
  <2>6. os2 \in [Order -> OrderStatus] /\ os2[o] = "cancelled" /\ \A p \in Order : p # o => os2[p] = orders[p]
    BY <1>0, <2>2 DEF OrderStatus
  <2>7. Returns \in SUBSET Returns
    OBVIOUS
  <2>8. /\ Board(os2, ts2, Live, Returns, nt) /\ StopsStay(orders, tasks, Live, os2, ts2, Live)
        /\ \A u \in 1..Len(ts2) : ts2[u].type = "outbound" =>
             /\ u \in 1..Len(tasks) /\ tasks[u].type = "outbound"
             /\ ts2[u].order = tasks[u].order /\ ts2[u].target = tasks[u].target
    BY ONLY LifeInv, <2>2, <2>3, <2>4, <2>5, <2>6, <2>7, ReclaimedBoard
  <2>9. /\ NetOK(n2) /\ n2["reclaim"] = net["reclaim"] /\ n2["report"] = net["report"]
        /\ Items(n2["new_task"]) = nt /\ Clear(n2)
    <3>1. Len(tasks) + 1 \in Nat /\ Len(tasks) + 1 \notin Items(net["new_task"])
      BY NextIdIsNew DEF New
    <3>2. "reclaim" \in Channel /\ "report" \in Channel /\ Items(net["new_task"]) = New
      BY DEF Channel, New
    <3>3. /\ NetOK(n2) /\ \A d \in Channel : d # "new_task" => n2[d] = net[d]
          /\ Items(n2["new_task"]) = nt /\ Clear(n2)
      BY <1>0, <1>1, <3>1, <3>2, QueuedIs
    <3> HIDE DEF n2
    <3> QED BY <3>2, <3>3
  <2> HIDE DEF ts2, os2, n2, nt
  <2>10. Timed(os2, ts2, dl2, untimed, n2)
    <3>1. \A u \in 1..Len(ts2) :
            ts2[u].type = "outbound" /\ os2[ts2[u].order] = "awaiting_pickup" =>
              /\ u \in 1..Len(tasks) /\ tasks[u].type = "outbound" /\ ts2[u].order = tasks[u].order
              /\ ts2[u].target = tasks[u].target /\ orders[tasks[u].order] = "awaiting_pickup"
              /\ tasks[u].order # AwaitingAt(g)
      <4>1. \A u \in 1..Len(tasks) : tasks[u].type = "outbound" => tasks[u].order \in Order
        BY <1>0 DEF RowsOK, RowOK
      <4> QED BY <2>6, <2>8, <4>1 DEF o
    <3> QED BY <1>1, <3>1, TimedCleared
  <2>11. News(n2, os2, ts2, Live, nt, robots)
    BY <2>9, NoNews
  <2> HIDE DEF dl2
  <2> QED BY <1>2, <2>1, <2>8, <2>9, <2>10, <2>11, StillAgree DEF Returns
<1> QED BY <1>3, <1>4

LEMMA TaskRestartAgrees ==
  ASSUME OrdersAssumption, PromptButReclaims, LifeInv, TaskRestart
  PROVE  Agreed'
<1> DEFINE un2 == {deadlines[g] : g \in Gate} \ {NoOrder}
           dl2 == [g \in Gate |-> NoOrder]
<1>0. /\ RowsOK(tasks) /\ Board(orders, tasks, Live, Returns, New) /\ NetOK(net)
      /\ Timed(orders, tasks, deadlines, untimed, net)
  BY StateIs
<1>1. Clear(net) /\ \A p : ~Arrived(net, p)
  BY QuietIs, HandledIs DEF TaskRestart
<1>2. /\ orders' = orders /\ tasks' = tasks /\ deadlines' = dl2 /\ untimed' = un2 /\ untimed = {}
      /\ net' = net /\ seen' = seen /\ robots' = robots
  BY DEF TaskRestart, database, world
<1>3. Timed(orders, tasks, dl2, un2, net)
  <2> SUFFICES ASSUME NEW t \in 1..Len(tasks), tasks[t].type = "outbound",
                      orders[tasks[t].order] = "awaiting_pickup"
               PROVE  tasks[t].order \in un2
    BY DEF Timed
  <2>1. tasks[t].order \in Order /\ tasks[t].target \in Gate
    BY <1>0 DEF RowsOK, RowOK
  <2>2. deadlines[tasks[t].target] = tasks[t].order
    BY <1>0, <1>1, <1>2 DEF Timed
  <2>3. tasks[t].order # NoOrder
    BY <2>1 DEF OrdersAssumption
  <2> QED BY <2>1, <2>2, <2>3
<1>4. News(net, orders, tasks, Live, New, robots)
  BY <1>1, NoNews
<1>5. StopsStay(orders, tasks, Live, orders, tasks, Live)
  BY DEF StopsStay
<1> HIDE DEF dl2, un2
<1> QED BY <1>0, <1>2, <1>3, <1>4, <1>5, StillAgree DEF New, Returns

\* The news that an order has been cancelled ends its task, or stops its robot.
LEMMA OnOrderCancelledAgrees ==
  ASSUME OrdersAssumption, LifeInv, NEW o \in Order, OnOrderCancelled(o)
  PROVE  Agreed'
<1> DEFINE t == OutboundTask(o)
           m == <<"order_cancelled", o>>
           n == Taken("notify")
<1>0. /\ orders \in [Order -> OrderStatus] /\ RowsOK(tasks) /\ Ids = 1..Len(tasks) /\ TablesOK(tasks, shelves)
      /\ Board(orders, tasks, Live, Returns, New) /\ Returns \in SUBSET Order
      /\ Timed(orders, tasks, deadlines, untimed, net) /\ MarksOK(orders, tasks, Live, robots)
      /\ RobotsOK(robots, seen, net)
  BY StateIs
<1>1. Received("notify", m) /\ "notify" \in Single /\ "notify" # "report" /\ UNCHANGED <<memory, robots>>
  BY DEF OnOrderCancelled, Single, world
<1>2. /\ NetOK(n) /\ Clear(n) /\ n["new_task"] = net["new_task"] /\ n["reclaim"] = net["reclaim"]
      /\ n["report"] = net["report"] /\ Only(net, "notify", m)
      /\ MessageOK("notify", m, orders, tasks, Live, New, robots)
  <2> HIDE DEF m
  <2> QED BY <1>1, ReceivedIs
<1>3. orders[o] = "cancelled" /\ Called(orders, tasks, Live, New, o) /\ \A r \in Robot : robots[r].oid # o
  BY <1>2, NotifyIs DEF Called
<1>4. \A p : ~Arrived(net, p)
  <2>1. \A p : m # <<"awaiting_pickup", p>>
    OBVIOUS
  <2> HIDE DEF m
  <2> QED BY <1>1, <1>2, <2>1, OtherNotify
<1> HIDE DEF m
<1>5. CASE net' = Taken("notify") /\ UNCHANGED database
  BY <1>1, <1>4, <1>5, OnlyTaken
<1>6. ASSUME t # NoTask
      PROVE  t \in Ids /\ tasks[t].type = "outbound" /\ tasks[t].order = o
  BY <1>0, <1>6, OutboundTaskIs
<1> HIDE DEF t
<1>7. ASSUME t # NoTask, tasks[t].status = "pending", tasks' = Close(tasks, t, "cancelled"),
             net' = Taken("notify"), UNCHANGED orders
      PROVE  Agreed'
  <2> DEFINE ts2 == Close(tasks, t, "cancelled")
             ended == [tasks EXCEPT ![t].status = "cancelled"]
  <2>1. t \in 1..Len(tasks) /\ t \notin New /\ tasks[t].type = "outbound" /\ tasks[t].order = o
    BY <1>0, <1>3, <1>6, <1>7 DEF Called, IsOutbound
  <2>2. o \notin Returns
    BY <1>0, <1>7, <2>1 DEF Board, Reclaims, IsOutbound
  <2>3. \A r \in Live : ~Current(tasks, t, r)
    BY <1>7 DEF Current, Has
  <2>4. /\ Len(ts2) = Len(tasks) /\ ts2 = ended
        /\ \A u \in 1..Len(tasks) : /\ ts2[u].type = tasks[u].type /\ ts2[u].order = tasks[u].order
                                    /\ ts2[u].target = tasks[u].target
    BY <1>0, <2>1, ClosedIs
  <2>5. Board(orders, ts2, Live, Returns, New) /\ StopsStay(orders, tasks, Live, orders, ts2, Live)
    <3>1. /\ Live \in SUBSET Live /\ Returns \in SUBSET Returns /\ "cancelled" \in {"done", "cancelled"}
          /\ (\A r \in Live \ Live : Current(tasks, t, r)) /\ tasks[t].order \notin Returns
          /\ orders[tasks[t].order] = "cancelled"
      BY <1>3, <2>1, <2>2
    <3>2. /\ Board(orders, ended, Live, Returns, New)
          /\ \A r \in Robot, p \in Order :
               r \notin Live \ Live /\ Stops(orders, tasks, Live, r, p) => Stops(orders, ended, Live, r, p)
      BY ONLY <1>0, <2>1, <2>3, <3>1, TaskClosed
    <3> HIDE DEF ended, ts2
    <3> QED BY <2>4, <3>2 DEF StopsStay
  <2> HIDE DEF ts2, ended
  <2>6. Timed(orders, ts2, deadlines, untimed, n)
    <3> HIDE DEF n
    <3> QED BY <1>0, <1>4, <2>4, TimedKept
  <2>7. News(n, orders, ts2, Live, New, robots)
    BY <1>2, NoNews
  <2>8. /\ orders' = orders /\ tasks' = ts2 /\ deadlines' = deadlines /\ untimed' = untimed
        /\ net' = n /\ seen' = seen /\ robots' = robots
    BY <1>1, <1>7 DEF memory, ts2
  <2> HIDE DEF n
  <2> QED BY <1>2, <2>5, <2>6, <2>7, <2>8, StillAgree DEF New, Returns
<1>8. ASSUME t # NoTask, tasks[t].status = "assigned",
             net' = Send(Taken("notify"), "cancel", [robot |-> tasks[t].robot, order |-> o]),
             UNCHANGED database
      PROVE  Agreed'
  <2> DEFINE r == tasks[t].robot
             c == [robot |-> r, order |-> o]
             n2 == Send(n, "cancel", c)
  <2>1. t \in 1..Len(tasks) /\ IsOutbound(tasks, t, o) /\ Carries(tasks, Live, t, r)
    BY <1>0, <1>3, <1>6, <1>8 DEF Called, IsOutbound
  <2>2. r \in Robot /\ Stops(orders, tasks, Live, r, o)
    BY <1>0, <1>3, <2>1, StateIs DEF Stops, Carries
  <2> HIDE DEF r
  <2>3. robots[r].pc # "back"
    <3> SUFFICES ASSUME robots[r].pc = "back" PROVE FALSE
      OBVIOUS
    <3>1. robots[r].oid # NoOrder /\ robots[r].oid \in Order \cup {NoOrder}
      BY <1>0, <2>2, StateIs DEF RobotsOK, RobotOK, RobotState
    <3>2. PICK p \in Order : robots[r].oid = p
      BY <3>1
    <3>3. PICK u \in 1..Len(tasks) : IsOutbound(tasks, u, p) /\ Current(tasks, u, r)
      BY <1>0, <2>2, <3>2 DEF MarksOK, Stops, Carries
    <3>4. u = t
      BY <1>0, <2>1, <3>3, CurrentIsOne DEF Carries
    <3> QED BY <1>3, <2>1, <2>2, <3>2, <3>3, <3>4 DEF IsOutbound
  <2>4. c \in Message /\ "cancel" \in Single
    BY <2>2 DEF Message, Single
  <2>5. MessageOK("cancel", c, orders, tasks, Live, New, robots)
    BY <2>2, <2>3 DEF MessageOK
  <2> HIDE DEF c
  <2>6. /\ n2 \in Nets /\ Only(n2, "cancel", c) /\ Prompt(n2)
        /\ n2["new_task"] = n["new_task"] /\ n2["reclaim"] = n["reclaim"]
    <3>1. n \in Nets /\ Clear(n)
      BY <1>2 DEF NetOK
    <3> HIDE DEF n
    <3> QED BY <2>4, <3>1, PutOnly
  <2> HIDE DEF n2, n
  <2>7. NetOK(n2) /\ n2["report"] = net["report"]
    BY <1>2, <2>6 DEF NetOK, Only, Clear, Single
  <2>8. News(n2, orders, tasks, Live, New, robots)
    BY <2>4, <2>5, <2>6, OneNews
  <2>9. net' = n2
    BY <1>8 DEF n2, n, c, r
  <2> QED BY <1>1, <1>2, <1>4, <1>8, <2>6, <2>7, <2>8, <2>9, TablesLeft DEF New, Returns
<1> QED BY <1>5, <1>7, <1>8 DEF OnOrderCancelled, t

-----------------------------------------------------------------------------
(* The fleet manager.                                                      *)

\* Assigning a row changes neither its type, its order nor its target.
LEMMA AssignedIs ==
  ASSUME NEW ts, RowsOK(ts), NEW t \in 1..Len(ts), NEW r, NEW now
  PROVE  LET ts2 == [ts EXCEPT ![t].status = "assigned", ![t].robot = r, ![t].assigned_at = now]
         IN  /\ Len(ts2) = Len(ts)
             /\ \A u \in 1..Len(ts) : /\ ts2[u].type = ts[u].type /\ ts2[u].order = ts[u].order
                                      /\ ts2[u].target = ts[u].target
<1> DEFINE row == [ts[t] EXCEPT !.status = "assigned", !.robot = r, !.assigned_at = now]
           new == [ts EXCEPT ![t] = row]
<1>1. ts \in Seq(Row) /\ Len(ts) \in Nat /\ ts[t] \in Row
  BY DEF RowsOK
<1>2. row.type = ts[t].type /\ row.order = ts[t].order /\ row.target = ts[t].target
  BY <1>1 DEF Row
<1>3. [ts EXCEPT ![t].status = "assigned", ![t].robot = r, ![t].assigned_at = now] = new
  BY <1>1
<1> HIDE DEF row
<1>4. Len(new) = Len(ts) /\ \A u \in 1..Len(ts) : new[u] = IF u = t THEN row ELSE ts[u]
  BY <1>1
<1> HIDE DEF new
<1>5. /\ Len(new) = Len(ts)
      /\ \A u \in 1..Len(ts) : /\ new[u].type = ts[u].type /\ new[u].order = ts[u].order
                               /\ new[u].target = ts[u].target
  BY <1>2, <1>4
<1> QED BY <1>3, <1>5

\* The fleet manager sees a status, and has taken what it read.
LEMMA SeenAgrees ==
  ASSUME LifeInv, NEW st2, RobotsOK(robots, st2, net), NEW n2, NetOK(n2), n2["reclaim"] = net["reclaim"],
         \A c \in Single : n2[c] = net[c], Items(n2["new_task"]) \subseteq New,
         net' = n2, seen' = st2, UNCHANGED <<orders, tasks, deadlines, untimed, robots>>
  PROVE  Agreed'
<1> DEFINE nt == Items(n2["new_task"])
<1>0. /\ Board(orders, tasks, Live, Returns, New) /\ Timed(orders, tasks, deadlines, untimed, net)
      /\ MarksOK(orders, tasks, Live, robots) /\ News(net, orders, tasks, Live, New, robots)
  BY StateIs
<1>1. n2["report"] = net["report"] /\ n2["notify"] = net["notify"]
  BY DEF Single
<1>2. LiveIn(robots, n2) = Live /\ \A r \in Robot : Reports(n2, r) = Reports(net, r)
  BY <1>1 DEF LiveIn, Live, Reports
<1>3. RobotsOK(robots, st2, n2)
  BY <1>2, Zenon DEF RobotsOK
<1> HIDE DEF nt
<1>4. nt \subseteq New
  BY DEF nt
<1>5. Board(orders, tasks, Live, Returns, nt)
  BY <1>0, <1>4 DEF Board, TaskNews
<1>6. \A o \in Order : Called(orders, tasks, Live, New, o) => Called(orders, tasks, Live, nt, o)
  BY <1>4 DEF Called
<1>7. News(n2, orders, tasks, Live, nt, robots)
  <2>1. StopsStay(orders, tasks, Live, orders, tasks, Live)
    BY DEF StopsStay
  <2> QED BY <1>0, <1>6, <2>1, NewsKept
<1>8. Timed(orders, tasks, deadlines, untimed, n2)
  BY <1>0, <1>1, TimedKept DEF Arrived
<1>9. Agree(orders, tasks, deadlines, untimed, st2, n2, robots)
  BY <1>0, <1>2, <1>3, <1>5, <1>7, <1>8, Zenon DEF Agree, Returns, nt
<1> QED BY <1>9, Zenon DEF Agreed

\* A robot that gets an errand.
LEMMA WithErrand ==
  ASSUME NEW rs \in [Robot -> RobotState], NEW r \in Robot, rs[r].queue = <<>>, NEW errand \in Errand
  PROVE  LET rs2 == [rs EXCEPT ![r].queue = Append(@, errand)]
         IN  /\ \A q \in Robot : q # r => rs2[q] = rs[q]
             /\ rs2[r].queue # <<>> /\ Len(rs2[r].queue) = 1 /\ rs2[r].pc = rs[r].pc
             /\ rs2[r].cancel = rs[r].cancel /\ rs2[r].oid = rs[r].oid /\ rs2[r].queue[1] = errand
<1> DEFINE q2 == Append(rs[r].queue, errand)
           st == [rs[r] EXCEPT !.queue = q2]
           rs2 == [rs EXCEPT ![r] = st]
<1>1. q2 \in Seq(Errand) /\ Len(q2) = 1 /\ q2 # <<>> /\ q2[1] = errand /\ rs[r] \in RobotState
  BY DEF RobotState
<1> HIDE DEF q2
<1>2. st.queue = q2 /\ st.pc = rs[r].pc /\ st.cancel = rs[r].cancel /\ st.oid = rs[r].oid
  BY <1>1, WithQueue, Zenon
<1>3. [rs EXCEPT ![r].queue = Append(@, errand)] = rs2
  BY DEF q2
<1> HIDE DEF st
<1>4. rs2[r] = st /\ \A q \in Robot : q # r => rs2[q] = rs[q]
  OBVIOUS
<1> HIDE DEF rs2
<1> QED BY <1>1, <1>2, <1>3, <1>4

\* A robot that is taken for idle has nothing to do, and nothing to say.
Resting(st) ==
  \A q \in Robot : st[q] = "idle" => robots[q].pc = "idle" /\ robots[q].queue = <<>> /\ ~Reports(net, q)

\* A task is given to a robot that is idle, or stays where it is.
LEMMA AssignedAgrees ==
  ASSUME OrdersAssumption, LifeInv, NEW t \in Ids, tasks[t].status = "pending",
         NEW st2, RobotsOK(robots, st2, net),
         Resting(st2),
         TryAssign(t, st2),
         NEW n2, NetOK(n2), n2["reclaim"] = net["reclaim"], \A c \in Single : n2[c] = net[c],
         Items(n2["new_task"]) = New \ {t}, t \in New \/ Clear(net),
         net' = n2, seen' = st2, UNCHANGED <<orders, deadlines, untimed>>
  PROVE  Agreed'
<1> DEFINE candidates == {r \in Robot : st2[r] = "idle"}
           r == FirstOf(last_used, candidates)
           now == 1 + Max({tasks[u].assigned_at : u \in Ids})
           errand == [source |-> tasks[t].source, target |-> tasks[t].target]
           nt == New \ {t}
<1>0. /\ orders \in [Order -> OrderStatus] /\ RowsOK(tasks) /\ Ids = 1..Len(tasks) /\ TablesOK(tasks, shelves)
      /\ Board(orders, tasks, Live, Returns, New) /\ Returns \in SUBSET Order
      /\ Timed(orders, tasks, deadlines, untimed, net) /\ MarksOK(orders, tasks, Live, robots)
      /\ News(net, orders, tasks, Live, New, robots) /\ robots \in [Robot -> RobotState]
  BY StateIs
<1>1. CASE candidates = {}
  <2>1. UNCHANGED <<tasks, robots>>
    BY <1>1 DEF TryAssign
  <2> QED BY <2>1, SeenAgrees
<1>2. CASE candidates # {}
  <2>1. r \in Robot /\ st2[r] = "idle"
    <3>1. candidates \subseteq ToSet(last_used) /\ last_used \in Seq(Robot)
      BY DEF LifeInv, Types, Memory
    <3>2. r \in candidates
      <4> HIDE DEF candidates
      <4> QED BY <1>2, <3>1, FirstOfIsIn
    <3> QED BY <3>2
  <2>2. now \in Nat /\ \A u \in 1..Len(tasks) : tasks[u].assigned_at < now
    BY <1>0, NowIsLater
  <2> DEFINE ts2 == [tasks EXCEPT ![t].status = "assigned", ![t].robot = r, ![t].assigned_at = now]
             rs2 == [robots EXCEPT ![r].queue = Append(@, errand)]
             live2 == Live \cup {r}
  <2>3. tasks' = ts2 /\ robots' = rs2
    BY <1>2 DEF TryAssign
  <2> HIDE DEF r, now, candidates
  <2>4. robots[r].pc = "idle" /\ robots[r].queue = <<>> /\ ~Reports(net, r)
    BY <2>1 DEF Resting
  <2>5. r \notin Live
    BY <2>4 DEF Live, LiveIn, Works
  <2>6. errand \in Errand
    <3>1. tasks[t] \in Row
      BY <1>0 DEF RowsOK
    <3> QED BY <3>1 DEF Errand, Row
  <2> HIDE DEF errand
  <2>7. /\ \A q \in Robot : q # r => rs2[q] = robots[q]
        /\ rs2[r].queue # <<>> /\ Len(rs2[r].queue) = 1 /\ rs2[r].pc = robots[r].pc
        /\ rs2[r].cancel = robots[r].cancel /\ rs2[r].oid = robots[r].oid
    BY <1>0, <2>1, <2>4, <2>6, WithErrand
  <2>8. /\ Len(ts2) = Len(tasks)
        /\ \A u \in 1..Len(tasks) : /\ ts2[u].type = tasks[u].type /\ ts2[u].order = tasks[u].order
                                    /\ ts2[u].target = tasks[u].target
    BY <1>0, AssignedIs
  <2>9. /\ Board(orders, ts2, live2, Returns, nt) /\ StopsStay(orders, tasks, Live, orders, ts2, live2)
        /\ t \in New =>
             \A o \in Order : Called(orders, tasks, Live, New, o) => Called(orders, ts2, live2, nt, o)
    <3>1. t \in 1..Len(tasks) /\ tasks[t].status = "pending"
      BY <1>0
    <3> QED BY ONLY <1>0, <2>1, <2>2, <2>5, <3>1, TaskAssigned
  <2> HIDE DEF ts2, rs2, nt
  <2>10. n2["report"] = net["report"] /\ n2["notify"] = net["notify"]
    BY DEF Single
  <2>11. \A q \in Robot : Reports(n2, q) = Reports(net, q)
    BY <2>10 DEF Reports
  <2>12. LiveIn(rs2, n2) = live2
    BY <2>1, <2>7, <2>11 DEF LiveIn, Live, Works
  <2>13. RobotsOK(rs2, st2, n2)
    <3> SUFFICES ASSUME NEW q \in Robot PROVE RobotOK(rs2[q], st2[q], Reports(n2, q))
      BY DEF RobotsOK
    <3>1. RobotOK(robots[q], st2[q], Reports(net, q))
      BY DEF RobotsOK
    <3>2. CASE q = r
      <4>1. RobotOK(robots[r], st2[r], Reports(net, r))
        BY <3>1, <3>2
      <4>2. ~Reports(n2, r)
        BY <2>1, <2>4, <2>11
      <4>3. RobotOK(rs2[r], st2[r], Reports(n2, r))
        BY <2>1, <2>4, <2>7, <4>1, <4>2 DEF RobotOK
      <4> QED BY <3>2, <4>3
    <3>3. CASE q # r
      BY <2>7, <2>11, <3>1, <3>3, Zenon
    <3> QED BY <3>2, <3>3
  <2>14. MarksOK(orders, ts2, live2, rs2)
    <3>1. \A q \in Robot : rs2[q].cancel = robots[q].cancel /\ rs2[q].oid = robots[q].oid /\ rs2[q].pc = robots[q].pc
      BY <2>7
    <3> QED BY <1>0, <2>9, <3>1 DEF MarksOK, StopsStay
  <2>15. News(n2, orders, ts2, live2, nt, rs2)
    <3>1. \A q \in Robot : rs2[q].oid = robots[q].oid /\ (robots[q].pc # "back" => rs2[q].pc # "back")
      BY <2>7
    <3>2. CASE t \in New
      <4>1. \A o \in Order : Called(orders, tasks, Live, New, o) => Called(orders, ts2, live2, nt, o)
        BY <2>9, <3>2
      <4>2. /\ \A c \in Single : n2[c] = net[c]
            /\ News(net, orders, tasks, Live, New, robots)
            /\ StopsStay(orders, tasks, Live, orders, ts2, live2)
        BY <1>0, <2>9
      <4> HIDE DEF live2
      <4> QED BY ONLY <3>1, <4>1, <4>2, NewsKept
    <3>3. CASE Clear(net)
      <4>1. Clear(n2)
        BY <3>3 DEF Clear
      <4> QED BY <4>1, NoNews
    <3> QED BY <3>2, <3>3
  <2>16. Timed(orders, ts2, deadlines, untimed, n2)
    <3>1. \A u \in 1..Len(ts2) :
            ts2[u].type = "outbound" /\ orders[ts2[u].order] = "awaiting_pickup" =>
              /\ u \in 1..Len(tasks) /\ tasks[u].type = "outbound" /\ ts2[u].order = tasks[u].order
              /\ ts2[u].target = tasks[u].target /\ orders[tasks[u].order] = "awaiting_pickup"
      BY <2>8
    <3>2. \A o : Arrived(net, o) => Arrived(n2, o)
      BY <2>10 DEF Arrived
    <3> QED BY <1>0, <3>1, <3>2, TimedKept, SMTT(60)
  <2>17. Agree(orders, ts2, deadlines, untimed, st2, n2, rs2)
    BY <2>9, <2>12, <2>13, <2>14, <2>15, <2>16, Zenon DEF Agree, Returns, nt
  <2> QED BY <2>3, <2>17, Zenon DEF Agreed
<1> QED BY <1>1, <1>2

\* A new task waits, and is the next message.
LEMMA NewTaskIs ==
  ASSUME PromptButReclaims, LifeInv, OnNewTask
  PROVE  /\ \E t \in Ids : t \in New /\ tasks[t].status = "pending"
                           /\ Received("new_task", t) /\ TryAssign(t, seen)
         /\ Resting(seen)
<1>0. /\ Ids = 1..Len(tasks) /\ Board(orders, tasks, Live, Returns, New)
      /\ NetOK(net) /\ net \in Nets /\ RobotsOK(robots, seen, net)
  BY StateIs
<1>1. PICK t \in Ids : Received("new_task", t) /\ TryAssign(t, seen)
  BY DEF OnNewTask
<1>2. net["new_task"] # <<>> /\ Head(net["new_task"]) = t /\ net["new_task"] \in Seq(Message)
  BY <1>0, <1>1, ChannelsAre DEF Received, Nets
<1>3. t \in New
  BY <1>0, <1>2, ItemsTail DEF New, NetOK
<1>4. tasks[t].status = "pending"
  BY <1>0, <1>3 DEF Board, TaskNews
<1>5. \A r \in Robot : seen[r] = "idle" => robots[r].pc = "idle" /\ robots[r].queue = <<>>
  BY DEF OnNewTask, BusyIsKnown, PromptButReclaims
<1> QED BY <1>0, <1>1, <1>3, <1>4, <1>5 DEF RobotsOK, RobotOK, Resting

\* So is the task that an idle robot gets.
LEMMA OldTaskIs ==
  ASSUME PromptButReclaims, LifeInv, NEW r \in Robot, OnRobotStatus(r)
  PROVE  /\ UNCHANGED <<tasks, robots>> \/ \E t \in Ids : tasks[t].status = "pending" /\ TryAssign(t, seen')
         /\ RobotsOK(robots, seen', net)
         /\ UNCHANGED <<tasks, robots>> \/ (Clear(net) /\ New = {} /\ Resting(seen'))
<1> DEFINE pending == {t \in Ids : tasks[t].status = "pending"}
           st2 == [seen EXCEPT ![r] = Status(r)]
<1>0. Ids = 1..Len(tasks) /\ RobotsOK(robots, seen, net) /\ seen \in [Robot -> {"idle", "busy"}]
  BY StateIs
<1>1. seen' = st2 /\ (Status(r) # "busy" => Handled /\ BusyIsKnown)
  BY DEF OnRobotStatus, PromptButReclaims
<1>2. Status(r) = IF robots[r].pc = "idle" THEN "idle" ELSE "busy"
  BY DEF Status
<1>3. st2[r] = Status(r) /\ \A q \in Robot : q # r => st2[q] = seen[q]
  BY <1>0
<1> HIDE DEF st2
<1>4. ASSUME Status(r) = "idle"
      PROVE  /\ Clear(net) /\ New = {} /\ \A q \in Robot : ~Reports(net, q)
             /\ \A q \in Robot : seen[q] = "idle" => robots[q].pc = "idle" /\ robots[q].queue = <<>>
  <2>1. Clear(net) /\ New = {}
    BY <1>1, <1>4, HandledIs
  <2>2. \A q \in Robot : ~Reports(net, q)
    BY <2>1 DEF Clear, Single, Reports
  <2> QED BY <1>1, <1>4, <2>1, <2>2 DEF BusyIsKnown, PromptButReclaims
<1>5. RobotsOK(robots, st2, net)
  <2> SUFFICES ASSUME NEW q \in Robot PROVE RobotOK(robots[q], st2[q], Reports(net, q))
    BY DEF RobotsOK
  <2>1. RobotOK(robots[q], seen[q], Reports(net, q))
    BY <1>0 DEF RobotsOK
  <2>2. CASE q # r
    BY <1>3, <2>1, <2>2, Zenon
  <2>3. CASE q = r /\ Status(r) = "busy"
    BY <1>2, <1>3, <2>1, <2>3 DEF RobotOK
  <2>4. CASE q = r /\ Status(r) = "idle"
    BY <1>2, <1>3, <1>4, <2>1, <2>4 DEF RobotOK
  <2> QED BY <1>2, <2>2, <2>3, <2>4
<1>6. \/ UNCHANGED <<tasks, robots>>
      \/ Status(r) = "idle" /\ pending # {} /\ TryAssign(Min(pending), seen')
  BY DEF OnRobotStatus
<1>7. pending # {} => Min(pending) \in pending
  <2>1. pending \in SUBSET Nat
    BY <1>0
  <2> HIDE DEF pending
  <2> QED BY <2>1, MinOfNats
<1>8. ASSUME Status(r) = "idle" PROVE Resting(st2)
  <2> SUFFICES ASSUME NEW q \in Robot, st2[q] = "idle"
               PROVE  robots[q].pc = "idle" /\ robots[q].queue = <<>>
    BY <1>4, <1>8 DEF Resting
  <2>1. CASE seen[q] = "idle"
    BY <1>4, <1>8, <2>1
  <2>2. CASE seen[q] # "idle"
    BY <1>0, <1>2, <1>3, <2>2 DEF RobotsOK, RobotOK
  <2> QED BY <2>1, <2>2
<1> QED BY <1>1, <1>4, <1>5, <1>6, <1>7, <1>8

LEMMA OnNewTaskAgrees ==
  ASSUME OrdersAssumption, PromptButReclaims, LifeInv, OnNewTask
  PROVE  Agreed'
<1> DEFINE n2 == Taken("new_task")
<1>0. NetOK(net) /\ net \in Nets /\ Prompt(net) /\ RobotsOK(robots, seen, net)
  BY StateIs
<1>1. PICK t \in Ids : t \in New /\ tasks[t].status = "pending"
                      /\ Received("new_task", t) /\ TryAssign(t, seen)
  BY NewTaskIs
<1>2. net["new_task"] # <<>> /\ Head(net["new_task"]) = t /\ net["new_task"] \in Seq(Message)
  BY <1>0, <1>1, ChannelsAre DEF Received, Nets
<1>3. Items(Tail(net["new_task"])) = New \ {t} /\ Distinct(Tail(net["new_task"]))
  BY <1>0, <1>2, ItemsTail DEF New, NetOK
<1>4. /\ n2 \in Nets /\ Prompt(n2) /\ n2["new_task"] = Tail(net["new_task"])
      /\ \A d \in Channel : d # "new_task" => n2[d] = net[d]
      /\ \A d \in Single : n2[d] = net[d]
  BY <1>0, <1>2, TakeQueue DEF Taken
<1> HIDE DEF n2
<1>5. n2["reclaim"] = net["reclaim"] /\ NetOK(n2)
  BY <1>0, <1>3, <1>4, ChannelsAre DEF NetOK
<1>6. net' = n2 /\ seen' = seen /\ UNCHANGED <<orders, deadlines, untimed>>
  BY DEF OnNewTask, n2, memory
<1> QED BY <1>0, <1>1, <1>3, <1>4, <1>5, <1>6, AssignedAgrees, NewTaskIs

LEMMA OnRobotStatusAgrees ==
  ASSUME OrdersAssumption, PromptButReclaims, LifeInv, NEW r \in Robot, OnRobotStatus(r)
  PROVE  Agreed'
<1>0. NetOK(net) /\ net' = net /\ UNCHANGED <<orders, deadlines, untimed>> /\ RobotsOK(robots, seen', net)
  BY StateIs, OldTaskIs DEF OnRobotStatus
<1>1. CASE UNCHANGED <<tasks, robots>>
  BY <1>0, <1>1, SeenAgrees DEF New
<1>2. CASE ~UNCHANGED <<tasks, robots>>
  <2>1. PICK t \in Ids : tasks[t].status = "pending" /\ TryAssign(t, seen') /\ Resting(seen')
    BY <1>2, OldTaskIs
  <2>2. Items(net["new_task"]) = New \ {t} /\ Clear(net)
    BY <1>2, OldTaskIs DEF New
  <2> QED BY <1>0, <2>1, <2>2, AssignedAgrees
<1> QED BY <1>1, <1>2

\* A robot that reports has nothing else to do, and is told nothing.
LEMMA ReportIs ==
  ASSUME OrdersAssumption, LifeInv, NEW r \in Robot, NEW e, NEW o,
         Received("report", [robot |-> r, event |-> e, order |-> o])
  PROVE  LET n == Taken("report")
         IN  /\ r \in Live /\ LiveIn(robots, n) = Live \ {r} /\ RobotsOK(robots, seen, n)
             /\ \A p \in Order : robots[r].cancel # p /\ robots[r].oid # p
             /\ NetOK(n) /\ Clear(n) /\ n["new_task"] = net["new_task"] /\ n["reclaim"] = net["reclaim"]
             /\ \A p : ~Arrived(net, p)
             /\ e = "cancelled" => o \in Order /\ Stops(orders, tasks, Live, r, o)
<1> DEFINE m == [robot |-> r, event |-> e, order |-> o]
           n == Taken("report")
<1>0. RobotsOK(robots, seen, net) /\ robots \in [Robot -> RobotState]
  BY StateIs
<1>1. Received("report", m) /\ "report" \in Single /\ m.robot = r /\ m.event = e /\ m.order = o
  BY DEF Single
<1>2. /\ NetOK(n) /\ Clear(n) /\ n["new_task"] = net["new_task"] /\ n["reclaim"] = net["reclaim"]
      /\ Only(net, "report", m) /\ MessageOK("report", m, orders, tasks, Live, New, robots)
  <2> HIDE DEF m
  <2> QED BY <1>1, ReceivedIs
<1>3. e = "cancelled" => o \in Order /\ Stops(orders, tasks, Live, r, o)
  <2>1. PICK q \in Robot :
          \/ m = [robot |-> q, event |-> "target_done", order |-> NoOrder]
          \/ \E p \in Order : /\ m = [robot |-> q, event |-> "cancelled", order |-> p]
                              /\ Stops(orders, tasks, Live, q, p)
    BY <1>2 DEF MessageOK
  <2>2. ASSUME m = [robot |-> q, event |-> "target_done", order |-> NoOrder] PROVE e = "target_done"
    BY <1>1, <2>2
  <2>3. ASSUME NEW p \in Order, m = [robot |-> q, event |-> "cancelled", order |-> p],
               Stops(orders, tasks, Live, q, p)
        PROVE  o \in Order /\ Stops(orders, tasks, Live, r, o)
    <3>1. r = q /\ o = p
      BY <1>1, <2>3
    <3> QED BY <2>3, <3>1
  <2> QED BY <2>1, <2>2, <2>3
<1>4. net["report"] # <<>> /\ Head(net["report"]) = m
  BY <1>1 DEF Received
<1> HIDE DEF m
<1>5. Reports(net, r) /\ \A q \in Robot : Reports(net, q) => q = r
  BY <1>1, <1>4 DEF Reports
<1>6. n["report"] = <<>>
  BY <1>2 DEF Clear, Single
<1> HIDE DEF n
<1>7. \A q \in Robot : ~Reports(n, q)
  BY <1>6 DEF Reports
<1>8. RobotOK(robots[r], seen[r], Reports(net, r))
  BY <1>0 DEF RobotsOK
<1>9. ~Works(robots[r]) /\ robots[r].cancel = NoOrder /\ robots[r].oid = NoOrder
  <2>1. robots[r].oid \in Order \cup {NoOrder}
    BY <1>0 DEF RobotState
  <2> QED BY <1>5, <1>8, <2>1 DEF Works, RobotOK
<1>10. r \in Live /\ LiveIn(robots, n) = Live \ {r}
  BY <1>5, <1>7, <1>9 DEF Live, LiveIn
<1>11. RobotsOK(robots, seen, n)
  BY <1>0, <1>7 DEF RobotsOK, RobotOK
<1>12. \A p \in Order : robots[r].cancel # p /\ robots[r].oid # p
  BY <1>9 DEF OrdersAssumption
<1>13. \A p : ~Arrived(net, p)
  <2>1. "report" # "notify"
    OBVIOUS
  <2> QED BY <1>1, <1>2, <2>1, OtherNotify
<1> QED BY <1>2, <1>3, <1>10, <1>11, <1>12, <1>13 DEF n

\* A handler of a report: the robot has nothing to do any more.
LEMMA ReportedAgrees ==
  ASSUME OrdersAssumption, LifeInv, NEW r \in Robot, NEW e, NEW o,
         Received("report", [robot |-> r, event |-> e, order |-> o]),
         NEW os2, NEW ts2, NEW n2, NEW nt, NEW rec,
         NetOK(n2), n2["report"] = <<>>, nt = Items(n2["new_task"]), rec = Items(n2["reclaim"]),
         Board(os2, ts2, Live \ {r}, rec, nt),
         \A q \in Robot, p \in Order :
           q # r /\ Stops(orders, tasks, Live, q, p) => Stops(os2, ts2, Live \ {r}, q, p),
         News(n2, os2, ts2, Live \ {r}, nt, robots), Timed(os2, ts2, deadlines, untimed, n2),
         orders' = os2, tasks' = ts2, net' = n2, UNCHANGED <<deadlines, untimed, seen, robots>>
  PROVE  Agreed'
<1> DEFINE n == Taken("report")
<1>1. /\ LiveIn(robots, n) = Live \ {r} /\ RobotsOK(robots, seen, n) /\ Clear(n)
      /\ \A p \in Order : robots[r].cancel # p /\ robots[r].oid # p
  BY ReportIs
<1>2. n["report"] = <<>>
  BY <1>1 DEF Clear, Single
<1> HIDE DEF n
<1>3. \A q \in Robot : Reports(n2, q) = Reports(n, q)
  BY <1>2 DEF Reports
<1>4. LiveIn(robots, n2) = Live \ {r}
  BY <1>1, <1>3 DEF LiveIn
<1>5. RobotsOK(robots, seen, n2)
  BY <1>1, <1>3, Zenon DEF RobotsOK
<1>6. MarksOK(os2, ts2, Live \ {r}, robots)
  <2>1. MarksOK(orders, tasks, Live, robots)
    BY StateIs
  <2> QED BY <1>1, <2>1 DEF MarksOK
<1>7. Agree(os2, ts2, deadlines, untimed, seen, n2, robots)
  BY <1>4, <1>5, <1>6, Zenon DEF Agree
<1> QED BY <1>7, Zenon DEF Agreed

\* A robot that reports has a task, its current one.
LEMMA ReporterHasTask ==
  ASSUME LifeInv, NEW r \in Live
  PROVE  /\ AssignedTo(r) # {}
         /\ LET t == LastAssigned(AssignedTo(r))
            IN  t \in Ids /\ Current(tasks, t, r) /\ Fresh(orders, tasks, Returns, t)
<1> DEFINE t == LastAssigned(AssignedTo(r))
<1>0. /\ Ids = 1..Len(tasks) /\ TablesOK(tasks, shelves) /\ Board(orders, tasks, Live, Returns, New)
      /\ RowsOK(tasks)
  BY StateIs
<1>1. PICK u \in 1..Len(tasks) : Current(tasks, u, r) /\ Fresh(orders, tasks, Returns, u)
  BY <1>0 DEF Board, Loads
<1>2. u \in AssignedTo(r) /\ AssignedTo(r) \in SUBSET Ids
  BY <1>0, <1>1 DEF AssignedTo, Current, Has
<1>3. t \in AssignedTo(r) /\ tasks[u].assigned_at <= tasks[t].assigned_at
  BY <1>0, <1>2, LastAssignedIs
<1> HIDE DEF t
<1>4. t = u
  <2>1. t \in 1..Len(tasks) /\ Has(tasks, t, r)
    BY <1>0, <1>2, <1>3 DEF AssignedTo, Has
  <2>2. tasks[t].assigned_at \in Nat /\ tasks[u].assigned_at \in Nat
    BY <1>0, <2>1, IdsAreTasks
  <2> QED BY <1>1, <1>3, <2>1, <2>2 DEF Current
<1> QED BY <1>0, <1>1, <1>2, <1>4 DEF t

\* The robot's task ends with its report.
LEMMA EndedAgrees ==
  ASSUME OrdersAssumption, LifeInv, NEW r \in Robot, NEW e, NEW o,
         Received("report", [robot |-> r, event |-> e, order |-> o]),
         NEW t \in Ids, Current(tasks, t, r), NEW status \in {"done", "cancelled"},
         tasks[t].type = "outbound" => /\ tasks[t].order \notin Returns
                                       /\ orders[tasks[t].order] = "cancelled",
         tasks' = Close(tasks, t, status), net' = Taken("report"),
         UNCHANGED <<orders, deadlines, untimed, seen, robots>>
  PROVE  Agreed'
<1> DEFINE n == Taken("report")
           ts2 == Close(tasks, t, status)
           ended == [tasks EXCEPT ![t].status = status]
           live2 == Live \ {r}
<1>0. /\ orders \in [Order -> OrderStatus] /\ RowsOK(tasks) /\ Ids = 1..Len(tasks)
      /\ Board(orders, tasks, Live, Returns, New) /\ Returns \in SUBSET Order
      /\ Timed(orders, tasks, deadlines, untimed, net)
  BY StateIs
<1>1. /\ r \in Live /\ NetOK(n) /\ Clear(n) /\ n["new_task"] = net["new_task"]
      /\ n["reclaim"] = net["reclaim"] /\ \A p : ~Arrived(net, p)
  BY ReportIs
<1>2. /\ Len(ts2) = Len(tasks) /\ ts2 = ended
      /\ \A u \in 1..Len(tasks) : /\ ts2[u].type = tasks[u].type /\ ts2[u].order = tasks[u].order
                                  /\ ts2[u].target = tasks[u].target
  BY <1>0, ClosedIs
<1>3. /\ t \in 1..Len(tasks) /\ t \notin New /\ status \in {"done", "cancelled"}
      /\ live2 \in SUBSET Live /\ Returns \in SUBSET Returns
      /\ (\A q \in live2 : ~Current(tasks, t, q)) /\ (\A q \in Live \ live2 : Current(tasks, t, q))
      /\ (tasks[t].type = "outbound" => tasks[t].order \notin Returns)
  <2>1. tasks[t].robot = r /\ tasks[t].status = "assigned"
    BY DEF Current, Has
  <2>2. t \notin New
    BY <1>0, <2>1 DEF Board, TaskNews
  <2> QED BY <1>0, <2>1, <2>2 DEF Current, Has
<1>4. orders = orders /\ (tasks[t].type = "outbound" => orders[tasks[t].order] = "cancelled")
  OBVIOUS
<1>5. /\ Board(orders, ended, live2, Returns, New)
      /\ \A q \in Robot, p \in Order :
           q \notin Live \ live2 /\ Stops(orders, tasks, Live, q, p) => Stops(orders, ended, live2, q, p)
  <2> HIDE DEF live2
  <2> QED BY ONLY <1>0, <1>3, <1>4, TaskClosed
<1> HIDE DEF ts2, ended
<1>6. /\ Board(orders, ts2, live2, Returns, New)
      /\ \A q \in Robot, p \in Order :
           q # r /\ Stops(orders, tasks, Live, q, p) => Stops(orders, ts2, live2, q, p)
  BY <1>2, <1>5
<1>7. Timed(orders, ts2, deadlines, untimed, n)
  <2> HIDE DEF n
  <2> QED BY <1>0, <1>1, <1>2, TimedKept, SMTT(60)
<1>8. News(n, orders, ts2, live2, New, robots)
  BY <1>1, NoNews
<1>9. n["report"] = <<>>
  BY <1>1 DEF Clear, Single
<1>10. orders' = orders /\ tasks' = ts2 /\ net' = n
  BY DEF ts2
<1> HIDE DEF n
<1> QED BY <1>1, <1>6, <1>7, <1>8, <1>9, <1>10, ReportedAgrees DEF New, Returns

LEMMA FinishCustomerCancelAgrees ==
  ASSUME OrdersAssumption, LifeInv, NEW r \in Robot, NEW o,
         Received("report", [robot |-> r, event |-> "cancelled", order |-> o]),
         FinishCustomerCancel(r, o), UNCHANGED <<deadlines, untimed, seen, world>>
  PROVE  Agreed'
<1> DEFINE t == OutboundTask(o)
<1>0. Ids = 1..Len(tasks) /\ RowsOK(tasks)
  BY StateIs
<1>1. r \in Live /\ o \in Order /\ Stops(orders, tasks, Live, r, o)
  BY ReportIs
<1>2. PICK u \in 1..Len(tasks) : IsOutbound(tasks, u, o) /\ Current(tasks, u, r)
  BY <1>1 DEF Stops, Carries
<1>3. t = u /\ t # NoTask
  BY <1>0, <1>2, OutboundTaskIsIt DEF IsOutbound
<1>4. t \in Ids /\ Current(tasks, t, r) /\ tasks[t].type = "outbound" /\ tasks[t].order = o
  BY <1>0, <1>2, <1>3 DEF IsOutbound
<1>5. o \notin Returns /\ orders[o] = "cancelled"
  <2>1. Current(tasks, LastAssigned(AssignedTo(r)), r) /\ Fresh(orders, tasks, Returns, LastAssigned(AssignedTo(r)))
    BY <1>1, ReporterHasTask
  <2>2. LastAssigned(AssignedTo(r)) = t
    BY <1>0, <1>4, <2>1, CurrentIsOne
  <2>3. Fresh(orders, tasks, Returns, t)
    BY <2>1, <2>2
  <2> QED BY <1>1, <1>4, <2>3 DEF Fresh, Stops
<1>6. /\ tasks' = Close(tasks, t, "cancelled") /\ net' = Taken("report")
      /\ UNCHANGED <<orders, deadlines, untimed, seen, robots>>
  BY <1>3 DEF FinishCustomerCancel, world
<1> HIDE DEF t
<1> QED BY <1>4, <1>5, <1>6, EndedAgrees

LEMMA OnTargetDoneAgrees ==
  ASSUME OrdersAssumption, LifeInv, NEW r \in Robot, NEW x,
         Received("report", [robot |-> r, event |-> "target_done", order |-> x]),
         OnTargetDone(r), UNCHANGED <<deadlines, untimed, seen, world>>
  PROVE  Agreed'
<1> DEFINE t == LastAssigned(AssignedTo(r))
           o == tasks[t].order
           n == Taken("report")
           live2 == Live \ {r}
<1>0. /\ orders \in [Order -> OrderStatus] /\ RowsOK(tasks) /\ Ids = 1..Len(tasks)
      /\ Board(orders, tasks, Live, Returns, New) /\ Returns \in SUBSET Order
      /\ Timed(orders, tasks, deadlines, untimed, net)
  BY StateIs
<1>1. /\ r \in Live /\ NetOK(n) /\ Clear(n) /\ n["new_task"] = net["new_task"]
      /\ n["reclaim"] = net["reclaim"] /\ \A p : ~Arrived(net, p)
  BY ReportIs
<1>2. AssignedTo(r) # {} /\ t \in Ids /\ Current(tasks, t, r) /\ Fresh(orders, tasks, Returns, t)
  BY <1>1, ReporterHasTask
<1>3. seen' = seen /\ robots' = robots /\ UNCHANGED <<deadlines, untimed>>
  BY DEF world
<1>4. \/ /\ tasks[t].type # "outbound" /\ tasks' = Close(tasks, t, "done")
         /\ net' = n /\ UNCHANGED orders
      \/ /\ tasks[t].type = "outbound" /\ orders[o] = "cancelled"
         /\ net' = Send(n, "reclaim", o) /\ UNCHANGED <<orders, tasks>>
      \/ /\ tasks[t].type = "outbound" /\ orders[o] # "cancelled"
         /\ orders' = [orders EXCEPT ![o] = "awaiting_pickup"]
         /\ net' = Send(n, "notify", <<"awaiting_pickup", o>>) /\ UNCHANGED tasks
  BY <1>2 DEF OnTargetDone, database
<1> HIDE DEF t
<1>5. ASSUME tasks[t].type # "outbound", tasks' = Close(tasks, t, "done"), net' = n, UNCHANGED orders
      PROVE  Agreed'
  <2>1. "done" \in {"done", "cancelled"}
    OBVIOUS
  <2> QED BY <1>2, <1>3, <1>5, <2>1, EndedAgrees
<1>6. ASSUME tasks[t].type = "outbound"
      PROVE  /\ o \in Order /\ orders[o] \in {"processing", "cancelled"} /\ o \notin Returns
             /\ t \in 1..Len(tasks)
  BY <1>0, <1>2, <1>6 DEF Fresh, RowsOK, RowOK
<1>7. ASSUME tasks[t].type = "outbound", orders[o] = "cancelled",
             net' = Send(n, "reclaim", o), UNCHANGED <<orders, tasks>>
      PROVE  Agreed'
  <2> DEFINE n2 == Send(n, "reclaim", o)
             rec == Returns \cup {o}
  <2>1. o \in Order /\ o \notin Returns /\ t \in 1..Len(tasks)
    BY <1>6, <1>7
  <2>2. /\ NetOK(n2) /\ Items(n2["reclaim"]) = rec /\ n2["new_task"] = net["new_task"]
        /\ Clear(n2) /\ n2["report"] = <<>>
    <3>1. n \in Nets /\ Prompt(n) /\ Clear(n) /\ n["reclaim"] \in Seq(Message)
      BY <1>1, ChannelsAre DEF NetOK, Nets
    <3>2. o \in Message /\ "reclaim" \in {"new_task", "reclaim"}
      BY <2>1 DEF OrdersAssumption, Message
    <3> HIDE DEF n, o
    <3>3. /\ n2 \in Nets /\ Prompt(n2) /\ n2["reclaim"] = Append(n["reclaim"], o)
          /\ \A d \in Channel : d # "reclaim" => n2[d] = n[d]
          /\ Clear(n2)
      BY ONLY <3>1, <3>2, PutQueue
    <3> HIDE DEF n2
    <3>4. n2["new_task"] = net["new_task"]
      BY <1>1, <3>3 DEF Channel
    <3>5. Items(n2["reclaim"]) = rec /\ Distinct(n2["reclaim"])
      <4>1. Items(n["reclaim"]) = Returns /\ Distinct(n["reclaim"])
        BY <1>1 DEF Returns, NetOK
      <4> QED BY <2>1, <3>1, <3>2, <3>3, <4>1, ItemsAppend
    <3>6. Distinct(n2["new_task"])
      BY <1>1, <3>4 DEF NetOK
    <3>7. rec \subseteq Order
      BY <1>0, <2>1
    <3>8. n2["report"] = <<>>
      BY <3>3 DEF Clear, Single
    <3> QED BY <3>3, <3>4, <3>5, <3>6, <3>7, <3>8 DEF NetOK
  <2>3. /\ Board(orders, tasks, live2, rec, New)
        /\ \A q \in Robot, p \in Order :
             q # r /\ Stops(orders, tasks, Live, q, p) => Stops(orders, tasks, live2, q, p)
    <3>1. /\ tasks[t].type = "outbound" /\ rec \in SUBSET Order
          /\ orders[tasks[t].order] = "cancelled" /\ orders = orders /\ rec = Returns \cup {tasks[t].order}
      BY <1>0, <1>7, <2>1
    <3> HIDE DEF rec, o, n2, n
    <3> QED BY ONLY <1>0, <1>1, <1>2, <2>1, <3>1, TaskAtGate
  <2> HIDE DEF n2, rec, n
  <2>4. News(n2, orders, tasks, live2, New, robots)
    BY <2>2, NoNews
  <2>5. Timed(orders, tasks, deadlines, untimed, n2)
    <3> HIDE DEF o
    <3> QED BY <1>0, <1>1, TimedKept
  <2>6. orders' = orders /\ tasks' = tasks /\ net' = n2
    BY <1>7 DEF n2
  <2> HIDE DEF o
  <2> QED BY <1>3, <2>2, <2>3, <2>4, <2>5, <2>6, ReportedAgrees DEF New
<1>8. ASSUME tasks[t].type = "outbound", orders[o] # "cancelled",
             orders' = [orders EXCEPT ![o] = "awaiting_pickup"],
             net' = Send(n, "notify", <<"awaiting_pickup", o>>), UNCHANGED tasks
      PROVE  Agreed'
  <2> DEFINE m == <<"awaiting_pickup", o>>
             n2 == Send(n, "notify", m)
             os2 == [orders EXCEPT ![o] = "awaiting_pickup"]
  <2>1. o \in Order /\ o \notin Returns /\ t \in 1..Len(tasks) /\ orders[o] = "processing"
    BY <1>6, <1>8
  <2>2. m \in Message /\ "notify" \in Single
    BY <2>1 DEF Message, Single
  <2>3. os2 \in [Order -> OrderStatus] /\ os2[o] = "awaiting_pickup" /\ \A p \in Order : p # o => os2[p] = orders[p]
    BY <1>0, <2>1 DEF OrderStatus
  <2>4. /\ n2 \in Nets /\ Only(n2, "notify", m) /\ Prompt(n2)
        /\ n2["new_task"] = n["new_task"] /\ n2["reclaim"] = n["reclaim"]
    <3>1. n \in Nets /\ Clear(n)
      BY <1>1 DEF NetOK
    <3> HIDE DEF n, m
    <3> QED BY ONLY <2>2, <3>1, PutOnly
  <2>5. /\ Board(os2, tasks, live2, Returns, New)
        /\ \A q \in Robot, p \in Order :
             q # r /\ Stops(orders, tasks, Live, q, p) => Stops(os2, tasks, live2, q, p)
    <3>1. /\ tasks[t].type = "outbound" /\ Returns = Returns
          /\ orders[tasks[t].order] = "processing" /\ os2 = [orders EXCEPT ![tasks[t].order] = "awaiting_pickup"]
      BY <1>8, <2>1
    <3> HIDE DEF os2, o, n2, n, m
    <3> QED BY ONLY <1>0, <1>1, <1>2, <2>1, <2>3, <3>1, TaskAtGate
  <2> HIDE DEF os2, n2, n
  <2>6. NetOK(n2) /\ n2["report"] = <<>>
    BY <1>1, <2>4 DEF NetOK, Only, Single
  <2>7. MessageOK("notify", m, os2, tasks, live2, New, robots)
    BY <2>1, <2>3 DEF MessageOK
  <2>8. Arrived(n2, o)
    <3>1. Head(<<m>>) = m /\ <<m>> # <<>>
      OBVIOUS
    <3> QED BY <2>4, <3>1 DEF Only, Arrived
  <2> HIDE DEF m
  <2>9. News(n2, os2, tasks, live2, New, robots)
    BY <2>2, <2>4, <2>7, OneNews
  <2>10. Timed(os2, tasks, deadlines, untimed, n2)
    <3> SUFFICES ASSUME NEW u \in 1..Len(tasks), tasks[u].type = "outbound",
                        os2[tasks[u].order] = "awaiting_pickup", tasks[u].order \notin untimed
                 PROVE  deadlines[tasks[u].target] = tasks[u].order \/ Arrived(n2, tasks[u].order)
      BY DEF Timed
    <3>1. tasks[u].order \in Order
      BY <1>0 DEF RowsOK, RowOK
    <3>2. CASE tasks[u].order = o
      BY <2>8, <3>2
    <3>3. CASE tasks[u].order # o
      <4> HIDE DEF o
      <4> QED BY <1>0, <1>1, <2>3, <3>1, <3>3 DEF Timed
    <3> QED BY <3>2, <3>3
  <2>11. orders' = os2 /\ tasks' = tasks /\ net' = n2
    BY <1>8 DEF os2, n2, n, m
  <2>12. New = Items(n2["new_task"]) /\ Returns = Items(n2["reclaim"])
    BY <1>1, <2>4 DEF New, Returns
  <2> HIDE DEF o
  <2> QED BY <1>3, <2>5, <2>6, <2>9, <2>10, <2>11, <2>12, ReportedAgrees
<1> QED BY <1>4, <1>5, <1>7, <1>8

LEMMA OnTaskReportAgrees ==
  ASSUME OrdersAssumption, LifeInv, OnTaskReport
  PROVE  Agreed'
<1>1. UNCHANGED <<deadlines, untimed, seen, world>>
  BY DEF OnTaskReport
<1>2. PICK r \in Robot, o \in Order \cup {NoOrder} :
        \/ Received("report", [robot |-> r, event |-> "target_done", order |-> o]) /\ OnTargetDone(r)
        \/ Received("report", [robot |-> r, event |-> "cancelled", order |-> o]) /\ FinishCustomerCancel(r, o)
  BY DEF OnTaskReport
<1> QED BY <1>1, <1>2, OnTargetDoneAgrees, FinishCustomerCancelAgrees

-----------------------------------------------------------------------------
(* The robots, and the customers at the gates.                             *)

\* A robot that stays at its task, or reports that it has ended.
LEMMA Driven ==
  ASSUME LifeInv, NEW r \in Live, NEW new \in RobotState, NEW n2, NetOK(n2),
         n2["new_task"] = net["new_task"], n2["reclaim"] = net["reclaim"],
         Works(new) \/ Reports(n2, r), RobotOK(new, seen[r], Reports(n2, r)),
         \A q \in Robot : q # r => (Reports(n2, q) <=> Reports(net, q)),
         \A o \in Order : new.cancel = o \/ new.oid = o => Stops(orders, tasks, Live, r, o),
         News(n2, orders, tasks, Live, New, [robots EXCEPT ![r] = new]),
         \A p : Arrived(net, p) => Arrived(n2, p),
         robots' = [robots EXCEPT ![r] = new], net' = n2, UNCHANGED <<database, memory>>
  PROVE  Agreed'
<1> DEFINE rs2 == [robots EXCEPT ![r] = new]
<1>0. /\ Board(orders, tasks, Live, Returns, New) /\ RobotsOK(robots, seen, net) /\ r \in Robot
      /\ MarksOK(orders, tasks, Live, robots) /\ Timed(orders, tasks, deadlines, untimed, net)
      /\ robots \in [Robot -> RobotState]
  BY StateIs
<1>1. rs2[r] = new /\ \A q \in Robot : q # r => rs2[q] = robots[q]
  BY <1>0
<1>2. /\ robots' = rs2 /\ net' = n2 /\ orders' = orders /\ tasks' = tasks
      /\ deadlines' = deadlines /\ untimed' = untimed /\ seen' = seen
  BY DEF database, memory
<1>3. News(n2, orders, tasks, Live, New, rs2)
  OBVIOUS
<1> HIDE DEF rs2
<1>4. LiveIn(rs2, n2) = Live
  <2>1. \A q \in Robot : q # r => (Works(rs2[q]) \/ Reports(n2, q) <=> Works(robots[q]) \/ Reports(net, q))
    BY <1>1
  <2>2. Works(rs2[r]) \/ Reports(n2, r)
    BY <1>1
  <2> QED BY <1>0, <2>1, <2>2 DEF LiveIn, Live
<1>5. RobotsOK(rs2, seen, n2)
  <2> SUFFICES ASSUME NEW q \in Robot PROVE RobotOK(rs2[q], seen[q], Reports(n2, q))
    BY DEF RobotsOK
  <2>1. CASE q = r
    BY <1>1, <2>1
  <2>2. CASE q # r
    <3>1. RobotOK(robots[q], seen[q], Reports(net, q)) /\ rs2[q] = robots[q]
      BY <1>0, <1>1, <2>2 DEF RobotsOK
    <3>2. Reports(n2, q) <=> Reports(net, q)
      BY <2>2
    <3> QED BY <3>1, <3>2 DEF RobotOK
  <2> QED BY <2>1, <2>2
<1>6. MarksOK(orders, tasks, Live, rs2)
  BY <1>0, <1>1 DEF MarksOK
<1>7. Timed(orders, tasks, deadlines, untimed, n2)
  BY <1>0, TimedKept
<1>8. Agree(orders, tasks, deadlines, untimed, seen, n2, rs2)
  BY <1>0, <1>3, <1>4, <1>5, <1>6, <1>7, Zenon DEF Agree, New, Returns
<1> QED BY <1>2, <1>8, Zenon DEF Agreed

\* A robot on its way moves when nothing but reclaim requests is under way.
LEMMA DrivingIs ==
  ASSUME OrdersAssumption, PromptButReclaims, LifeInv, NEW r \in Robot, Quiet, robots[r].pc # "idle"
  PROVE  /\ r \in Live /\ robots[r] \in RobotState /\ NetOK(net) /\ net \in Nets /\ Clear(net)
         /\ seen[r] = "busy" /\ robots[r].queue = <<>>
         /\ (\A p : ~Arrived(net, p)) /\ (\A q \in Robot : ~Reports(net, q))
         /\ robots[r].oid # NoOrder <=> robots[r].pc = "back"
         /\ robots[r].cancel # NoOrder => robots[r].pc # "back"
         /\ \A o \in Order : robots[r].cancel = o \/ robots[r].oid = o => Stops(orders, tasks, Live, r, o)
<1>1. /\ robots \in [Robot -> RobotState] /\ RobotsOK(robots, seen, net) /\ NetOK(net) /\ net \in Nets
      /\ MarksOK(orders, tasks, Live, robots)
  BY StateIs
<1>2. seen[r] = "busy"
  BY QuietIs DEF Status
<1>3. Clear(net) /\ \A p : ~Arrived(net, p)
  BY QuietIs, HandledIs
<1>4. \A q \in Robot : ~Reports(net, q)
  BY <1>3 DEF Clear, Single, Reports
<1>5. r \in Live
  BY DEF Live, LiveIn, Works
<1>6. /\ robots[r].queue = <<>> /\ (robots[r].oid # NoOrder <=> robots[r].pc = "back")
      /\ (robots[r].cancel # NoOrder => robots[r].pc # "back")
  BY <1>1, <1>2 DEF RobotsOK, RobotOK
<1>7. \A o \in Order : robots[r].cancel = o \/ robots[r].oid = o => Stops(orders, tasks, Live, r, o)
  BY <1>1 DEF MarksOK
<1> QED BY <1>1, <1>2, <1>3, <1>4, <1>5, <1>6, <1>7

\* It goes on, and a detector may see a gate become empty; ...
LEMMA DrivenOn ==
  ASSUME OrdersAssumption, PromptButReclaims, LifeInv, NEW r \in Robot, Quiet, robots[r].pc # "idle",
         NEW new \in RobotState, new.pc # "idle", new.queue = robots[r].queue,
         new.oid # NoOrder <=> new.pc = "back", new.cancel # NoOrder => new.pc # "back",
         \A o \in Order : new.cancel = o \/ new.oid = o => robots[r].cancel = o \/ robots[r].oid = o,
         NEW p \in Place, robots' = [robots EXCEPT ![r] = new], net' \in {net, WithCleared(net, p)},
         UNCHANGED <<database, memory>>
  PROVE  Agreed'
<1>1. /\ r \in Live /\ NetOK(net) /\ net \in Nets /\ Clear(net) /\ seen[r] = "busy"
      /\ robots[r].queue = <<>> /\ (\A q : ~Arrived(net, q)) /\ (\A q \in Robot : ~Reports(net, q))
      /\ \A o \in Order : robots[r].cancel = o \/ robots[r].oid = o => Stops(orders, tasks, Live, r, o)
  BY DrivingIs
<1> DEFINE m == <<"cleared", p>>
           n3 == Send(net, "detection", m)
<1>2. net' = net \/ net' = n3
  BY DEF WithCleared
<1>3. m \in Message /\ "detection" \in Single
  BY DEF Message, Single
<1>4. /\ n3 \in Nets /\ Only(n3, "detection", m) /\ Prompt(n3)
      /\ n3["new_task"] = net["new_task"] /\ n3["reclaim"] = net["reclaim"]
  BY ONLY <1>1, <1>3, PutOnly
<1> HIDE DEF m, n3
<1>5. NetOK(n3)
  BY <1>1, <1>4 DEF NetOK
<1>6. n3["report"] = <<>>
  BY <1>4 DEF Only, Single
<1>7. \A q \in Robot : ~Reports(n3, q)
  BY <1>6 DEF Reports
<1>8. Works(new) /\ \A b \in {FALSE} : RobotOK(new, seen[r], b)
  BY <1>1 DEF Works, RobotOK
<1>9. ASSUME NEW n2, n2 = net \/ n2 = n3
      PROVE  /\ NetOK(n2) /\ n2["new_task"] = net["new_task"] /\ n2["reclaim"] = net["reclaim"]
             /\ (\A q \in Robot : ~Reports(n2, q))
             /\ News(n2, orders, tasks, Live, New, [robots EXCEPT ![r] = new])
  <2>1. CASE n2 = net
    BY <1>1, <2>1, NoNews
  <2>2. CASE n2 = n3
    <3>1. \A os, ts, live, nt, rs : MessageOK("detection", m, os, ts, live, nt, rs)
      BY DEF MessageOK
    <3>2. News(n3, orders, tasks, Live, New, [robots EXCEPT ![r] = new])
      BY <1>3, <1>4, <3>1, OneNews
    <3> QED BY <1>4, <1>5, <1>7, <2>2, <3>2
  <2> QED BY <1>9, <2>1, <2>2
<1>10. PICK n2 : net' = n2 /\ (n2 = net \/ n2 = n3)
  BY <1>2
<1>11. RobotOK(new, seen[r], Reports(n2, r))
  <2>1. ~Reports(n2, r)
    BY <1>9, <1>10
  <2> QED BY <1>1, <2>1 DEF RobotOK
<1> QED BY <1>1, <1>8, <1>9, <1>10, <1>11, Driven

\* ... or it is done, and says so.
LEMMA CameHome ==
  ASSUME OrdersAssumption, PromptButReclaims, LifeInv, NEW r \in Robot, Quiet, robots[r].pc # "idle",
         NEW new \in RobotState, new.pc = "idle", new.queue = robots[r].queue,
         new.oid = NoOrder, new.cancel = NoOrder, NEW e, NEW o \in Order \cup {NoOrder},
         \/ e = "target_done" /\ o = NoOrder
         \/ e = "cancelled" /\ o # NoOrder /\ (robots[r].cancel = o \/ robots[r].oid = o),
         robots' = [robots EXCEPT ![r] = new], net' = Report(net, r, e, o), UNCHANGED <<database, memory>>
  PROVE  Agreed'
<1>1. /\ r \in Live /\ NetOK(net) /\ net \in Nets /\ Clear(net) /\ seen[r] = "busy"
      /\ robots[r].queue = <<>> /\ (\A q : ~Arrived(net, q)) /\ (\A q \in Robot : ~Reports(net, q))
      /\ \A p \in Order : robots[r].cancel = p \/ robots[r].oid = p => Stops(orders, tasks, Live, r, p)
  BY DrivingIs
<1> DEFINE m == [robot |-> r, event |-> e, order |-> o]
           n2 == Send(net, "report", m)
           rs2 == [robots EXCEPT ![r] = new]
<1>2. net' = n2
  BY DEF Report
<1>3. m \in Message /\ "report" \in Single /\ m.robot = r
  BY DEF Message, Single
<1>4. MessageOK("report", m, orders, tasks, Live, New, rs2)
  <2>1. CASE e = "target_done" /\ o = NoOrder
    BY <2>1 DEF MessageOK
  <2>2. CASE e = "cancelled" /\ o \in Order /\ Stops(orders, tasks, Live, r, o)
    BY <2>2 DEF MessageOK
  <2> QED BY <1>1, <2>1, <2>2
<1> HIDE DEF m, rs2
<1>5. /\ n2 \in Nets /\ Only(n2, "report", m) /\ Prompt(n2)
      /\ n2["new_task"] = net["new_task"] /\ n2["reclaim"] = net["reclaim"]
  BY ONLY <1>1, <1>3, PutOnly
<1> HIDE DEF n2
<1>6. NetOK(n2)
  BY <1>1, <1>5 DEF NetOK
<1>7. n2["report"] # <<>> /\ Head(n2["report"]) = m
  <2>1. n2["report"] = <<m>> /\ <<m>> # <<>> /\ Head(<<m>>) = m
    BY <1>5 DEF Only
  <2> QED BY <2>1
<1>8. Reports(n2, r) /\ \A q \in Robot : q # r => ~Reports(n2, q)
  BY <1>3, <1>7 DEF Reports
<1>9. RobotOK(new, seen[r], Reports(n2, r))
  BY <1>1, <1>8 DEF RobotOK
<1>10. News(n2, orders, tasks, Live, New, [robots EXCEPT ![r] = new])
  BY <1>3, <1>4, <1>5, OneNews DEF rs2
<1>11. \A p \in Order : new.cancel # p /\ new.oid # p
  BY DEF OrdersAssumption
<1> QED BY <1>1, <1>2, <1>5, <1>6, <1>8, <1>9, <1>10, <1>11, Driven

\* A robot takes its errand, ...
LEMMA TakeAssignmentAgrees ==
  ASSUME OrdersAssumption, LifeInv, NEW r \in Robot, TakeAssignment(r)
  PROVE  Agreed'
<1>0. /\ RobotsOK(robots, seen, net) /\ NetOK(net) /\ MarksOK(orders, tasks, Live, robots)
      /\ News(net, orders, tasks, Live, New, robots) /\ robots \in [Robot -> RobotState] /\ World
  BY StateIs DEF LifeInv, Types
<1>1. /\ robots[r].pc = "idle" /\ robots[r].queue # <<>> /\ net' = net
      /\ UNCHANGED <<database, memory>>
  BY DEF TakeAssignment, Does
<1>2. r \in Live
  BY <1>1 DEF Live, LiveIn, Works
<1>3. PICK new \in RobotState :
        /\ robots' = [robots EXCEPT ![r] = new] /\ new.pc = "toSource"
        /\ new.queue = Tail(robots[r].queue) /\ new.cancel = robots[r].cancel /\ new.oid = robots[r].oid
  BY <1>0, AssignmentIs
<1>4. RobotOK(robots[r], seen[r], Reports(net, r))
  BY <1>0 DEF RobotsOK
<1>5. new.queue = <<>>
  <2>1. robots[r].queue \in Seq(Errand) /\ Len(robots[r].queue) <= 1
    BY <1>0, <1>4 DEF RobotState, RobotOK
  <2> QED BY <1>1, <1>3, <2>1
<1>6. Works(new) /\ RobotOK(new, seen[r], Reports(net, r))
  <2>1. ~Reports(net, r) /\ robots[r].oid = NoOrder
    BY <1>1, <1>4 DEF RobotOK
  <2> QED BY <1>3, <1>4, <1>5, <2>1 DEF Works, RobotOK
<1>7. \A o \in Order : new.cancel = o \/ new.oid = o => Stops(orders, tasks, Live, r, o)
  BY <1>0, <1>3 DEF MarksOK
<1>8. News(net, orders, tasks, Live, New, [robots EXCEPT ![r] = new])
  <2> DEFINE rs2 == [robots EXCEPT ![r] = new]
  <2>1. \A q \in Robot : rs2[q].oid = robots[q].oid /\ (robots[q].pc # "back" => rs2[q].pc # "back")
    BY <1>0, <1>3
  <2> HIDE DEF rs2
  <2>2. ASSUME NEW c, NEW m, MessageOK(c, m, orders, tasks, Live, New, robots)
        PROVE  MessageOK(c, m, orders, tasks, Live, New, rs2)
    BY <2>1, <2>2, ZenonT(60) DEF MessageOK
  <2>4. News(net, orders, tasks, Live, New, rs2)
    BY <1>0, <2>2, Zenon DEF News
  <2> QED BY <2>4 DEF rs2
<1> QED BY <1>0, <1>1, <1>2, <1>3, <1>6, <1>7, <1>8, Driven

\* ... is told that its order has been cancelled, ...
LEMMA OnCancelMissionAgrees ==
  ASSUME OrdersAssumption, LifeInv, NEW r \in Robot, OnCancelMission(r)
  PROVE  Agreed'
<1> DEFINE n2 == Taken("cancel")
<1>0. /\ RobotsOK(robots, seen, net) /\ MarksOK(orders, tasks, Live, robots)
      /\ robots \in [Robot -> RobotState] /\ World
  BY StateIs DEF LifeInv, Types
<1>1. PICK o \in Order : /\ Received("cancel", [robot |-> r, order |-> o])
                         /\ robots' = [robots EXCEPT ![r].cancel = o]
  BY DEF OnCancelMission
<1>2. net' = n2 /\ UNCHANGED <<database, memory>>
  BY DEF OnCancelMission
<1> DEFINE m == [robot |-> r, order |-> o]
<1>3. Received("cancel", m) /\ "cancel" \in Single /\ m.robot = r /\ m.order = o
  BY <1>1 DEF Single
<1>4. Stops(orders, tasks, Live, r, o) /\ robots[r].pc # "back"
  <2>1. MessageOK("cancel", m, orders, tasks, Live, New, robots)
    <3> HIDE DEF m
    <3> QED BY <1>3, ReceivedIs
  <2>2. PICK q \in Robot, p \in Order :
          m = [robot |-> q, order |-> p] /\ Stops(orders, tasks, Live, q, p) /\ robots[q].pc # "back"
    BY <2>1 DEF MessageOK
  <2>3. q = r /\ p = o
    BY <1>3, <2>2
  <2> QED BY <2>2, <2>3
<1> HIDE DEF m
<1>5. /\ NetOK(n2) /\ Clear(n2) /\ n2["new_task"] = net["new_task"] /\ n2["reclaim"] = net["reclaim"]
      /\ n2["report"] = net["report"] /\ Only(net, "cancel", m)
  BY <1>3, ReceivedIs
<1> HIDE DEF n2
<1>6. \A p : ~Arrived(net, p)
  <2>1. "cancel" # "notify"
    OBVIOUS
  <2> QED BY <1>3, <1>5, <2>1, OtherNotify
<1>7. /\ \A q \in Robot : ~Reports(net, q)
      /\ \A q \in Robot : ~Reports(n2, q)
  BY <1>5 DEF Clear, Single, Reports
<1>8. r \in Live
  BY <1>4 DEF Stops, Carries
<1>9. Works(robots[r])
  BY <1>7, <1>8 DEF Live, LiveIn
<1>10. PICK new \in RobotState :
         /\ robots' = [robots EXCEPT ![r] = new] /\ new.pc = robots[r].pc
         /\ new.queue = robots[r].queue /\ new.cancel = o /\ new.oid = robots[r].oid
  <2>1. World /\ robots' = [robots EXCEPT ![r].cancel = o]
    BY <1>0, <1>1
  <2>2. \E new \in RobotState :
           /\ robots' = [robots EXCEPT ![r] = new] /\ new.pc = robots[r].pc
           /\ new.loaded = robots[r].loaded /\ new.queue = robots[r].queue
           /\ new.cancel = o /\ new.oid = robots[r].oid
           /\ new.source = robots[r].source /\ new.target = robots[r].target
    BY <2>1, StoppedIs
  <2> QED BY <2>2, Zenon
<1>11. Works(new) /\ RobotOK(new, seen[r], Reports(n2, r))
  <2>1. RobotOK(robots[r], seen[r], Reports(net, r)) /\ ~Reports(n2, r) /\ ~Reports(net, r)
    BY <1>0, <1>7 DEF RobotsOK
  <2> QED BY <1>4, <1>9, <1>10, <2>1 DEF Works, RobotOK
<1>12. \A p \in Order : new.cancel = p \/ new.oid = p => Stops(orders, tasks, Live, r, p)
  BY <1>0, <1>4, <1>10 DEF MarksOK
<1>13. News(n2, orders, tasks, Live, New, [robots EXCEPT ![r] = new])
  BY <1>5, NoNews
<1> QED BY <1>2, <1>5, <1>6, <1>7, <1>8, <1>10, <1>11, <1>12, <1>13, Driven

\* ... does what it was sent for, and says so when it is done.
LEMMA DriveAgrees ==
  ASSUME OrdersAssumption, PromptButReclaims, LifeInv, NEW r \in Robot, Drive(r)
  PROVE  Agreed'
<1>0. World /\ robots[r] \in RobotState /\ robots[r].source \in Place /\ robots[r].cancel \in Order \cup {NoOrder}
      /\ robots[r].oid \in Order \cup {NoOrder}
  BY DEF LifeInv, Types, World, RobotState
<1>1. ASSUME NEW pc, Does(r, pc), pc # "idle"
      PROVE  /\ Quiet /\ robots[r].pc = pc /\ robots[r].pc # "idle"
             /\ (robots[r].oid # NoOrder <=> robots[r].pc = "back")
             /\ (robots[r].cancel # NoOrder => robots[r].pc # "back")
  BY <1>1, DrivingIs DEF Does
<1>2. CASE AbortEmpty(r)
  <2>1. /\ Does(r, "toSource") /\ robots[r].cancel # NoOrder /\ robots' = [robots EXCEPT ![r] = Free(r)]
        /\ net' = Report(net, r, "cancelled", robots[r].cancel) /\ UNCHANGED <<database, memory>>
    BY <1>2 DEF AbortEmpty
  <2>2. /\ Free(r) \in RobotState /\ Free(r).pc = "idle" /\ Free(r).queue = robots[r].queue
        /\ Free(r).cancel = NoOrder /\ Free(r).oid = NoOrder
    BY <1>0, FreeIs
  <2>3. Quiet /\ robots[r].pc # "idle"
    BY <1>1, <2>1
  <2> QED BY <1>0, <2>1, <2>2, <2>3, CameHome
<1>3. CASE PickUp(r)
  <2>1. /\ Does(r, "toSource") /\ net' = WithCleared(net, robots[r].source)
        /\ UNCHANGED <<database, memory>>
    BY <1>3 DEF PickUp
  <2>2. PICK new \in RobotState :
          /\ robots' = [robots EXCEPT ![r] = new]
          /\ new.pc = IF robots[r].cancel # NoOrder THEN "back" ELSE "toTarget"
          /\ new.queue = robots[r].queue /\ new.cancel = NoOrder /\ new.oid = robots[r].cancel
    BY <1>0, <1>3, PickUpIs
  <2>3. /\ Quiet /\ robots[r].pc # "idle" /\ new.pc # "idle" /\ (new.oid # NoOrder <=> new.pc = "back")
        /\ new.cancel = NoOrder
    BY <1>1, <2>1, <2>2
  <2>4. \A o \in Order : new.cancel = o \/ new.oid = o => robots[r].cancel = o \/ robots[r].oid = o
    BY <2>2 DEF OrdersAssumption
  <2> QED BY <1>0, <2>1, <2>2, <2>3, <2>4, DrivenOn
<1>4. CASE TurnBack(r)
  <2>1. /\ Does(r, "toTarget") /\ robots[r].cancel # NoOrder /\ net' = net
        /\ UNCHANGED <<database, memory>>
    BY <1>4 DEF TurnBack
  <2>2. PICK new \in RobotState :
          /\ robots' = [robots EXCEPT ![r] = new] /\ new.pc = "back"
          /\ new.queue = robots[r].queue /\ new.cancel = NoOrder /\ new.oid = robots[r].cancel
    BY <1>0, <1>4, TurnBackIs
  <2>3. Quiet /\ robots[r].pc # "idle"
    BY <1>1, <2>1
  <2>4. \A o \in Order : new.cancel = o \/ new.oid = o => robots[r].cancel = o \/ robots[r].oid = o
    BY <2>2 DEF OrdersAssumption
  <2>5. new.pc # "idle" /\ (new.oid # NoOrder <=> new.pc = "back")
    BY <2>1, <2>2
  <2> QED BY <1>0, <2>1, <2>2, <2>3, <2>4, <2>5, DrivenOn
<1>5. CASE StartPlacing(r)
  <2>1. Does(r, "toTarget") /\ net' = net /\ UNCHANGED <<database, memory>>
    BY <1>5 DEF StartPlacing
  <2>2. PICK new \in RobotState :
          /\ robots' = [robots EXCEPT ![r] = new] /\ new.pc = "placing"
          /\ new.queue = robots[r].queue /\ new.cancel = robots[r].cancel /\ new.oid = robots[r].oid
    BY <1>0, <1>5, PlacingIs
  <2>3. /\ Quiet /\ robots[r].pc # "idle" /\ new.pc # "idle" /\ (new.oid # NoOrder <=> new.pc = "back")
        /\ new.pc # "back"
    BY <1>1, <2>1, <2>2
  <2>4. \A o \in Order : new.cancel = o \/ new.oid = o => robots[r].cancel = o \/ robots[r].oid = o
    BY <2>2
  <2> QED BY <1>0, <2>1, <2>2, <2>3, <2>4, DrivenOn
<1>6. CASE PlacePallet(r)
  <2>1. /\ Does(r, "placing") /\ robots' = [robots EXCEPT ![r] = Free(r)]
        /\ net' = Report(net, r, "target_done", NoOrder) /\ UNCHANGED <<database, memory>>
    BY <1>6 DEF PlacePallet
  <2>2. /\ Free(r) \in RobotState /\ Free(r).pc = "idle" /\ Free(r).queue = robots[r].queue
        /\ Free(r).cancel = NoOrder /\ Free(r).oid = NoOrder
    BY <1>0, FreeIs
  <2>3. Quiet /\ robots[r].pc # "idle"
    BY <1>1, <2>1
  <2> QED BY <2>1, <2>2, <2>3, CameHome
<1>7. CASE ReturnPallet(r)
  <2>1. /\ Does(r, "back") /\ net' = Report(net, r, "cancelled", robots[r].oid)
        /\ UNCHANGED <<database, memory>>
    BY <1>7 DEF ReturnPallet
  <2>2. PICK new \in RobotState :
          /\ robots' = [robots EXCEPT ![r] = new] /\ new.pc = "idle"
          /\ new.queue = robots[r].queue /\ new.cancel = robots[r].cancel /\ new.oid = NoOrder
    BY <1>0, <1>7, ReturnedIs
  <2>3. Quiet /\ robots[r].pc # "idle" /\ robots[r].oid # NoOrder /\ robots[r].cancel = NoOrder
    BY <1>1, <2>1
  <2> QED BY <1>0, <2>1, <2>2, <2>3, CameHome
<1> QED BY <1>2, <1>3, <1>4, <1>5, <1>6, <1>7, TakeAssignmentAgrees, OnCancelMissionAgrees DEF Drive

\* A detector sees a pallet come or go.
LEMMA DetectedAgrees ==
  ASSUME OrdersAssumption, PromptButReclaims, LifeInv, Quiet,
         NEW kind \in {"cleared", "inbound"}, NEW p \in Place,
         net' = net \/ net' = Send(net, "detection", <<kind, p>>), UNCHANGED <<database, memory, robots>>
  PROVE  Agreed'
<1> DEFINE m == <<kind, p>>
           n3 == Send(net, "detection", m)
<1>0. NetOK(net) /\ net \in Nets
  BY StateIs
<1>1. Clear(net) /\ \A q : ~Arrived(net, q)
  BY QuietIs, HandledIs
<1>2. m \in Message /\ "detection" \in Single
  BY DEF Message, Single
<1>3. /\ n3 \in Nets /\ Only(n3, "detection", m) /\ Prompt(n3)
      /\ n3["new_task"] = net["new_task"] /\ n3["reclaim"] = net["reclaim"]
  BY ONLY <1>0, <1>1, <1>2, PutOnly
<1>4. net' = net \/ net' = n3
  OBVIOUS
<1> HIDE DEF m, n3
<1>5. CASE net' = net
  BY <1>0, <1>1, <1>5, NoNews, TablesLeft DEF New, Returns
<1>6. CASE net' = n3
  <2>1. NetOK(n3) /\ n3["report"] = net["report"]
    BY <1>0, <1>1, <1>3 DEF NetOK, Only, Clear, Single
  <2>2. MessageOK("detection", m, orders, tasks, Live, New, robots)
    BY DEF MessageOK
  <2>3. News(n3, orders, tasks, Live, New, robots)
    BY <1>2, <1>3, <2>2, OneNews
  <2> QED BY <1>1, <1>3, <1>6, <2>1, <2>3, TablesLeft DEF New, Returns
<1> QED BY <1>4, <1>5, <1>6

LEMMA CustomersAgree ==
  ASSUME OrdersAssumption, PromptButReclaims, LifeInv, Arrive \/ \E g \in Gate : PickedUp(g)
  PROVE  Agreed'
<1>1. CASE Arrive
  <2>1. /\ Quiet /\ net' = Send(net, "detection", <<"inbound", Inbound>>) /\ Inbound \in Place
        /\ UNCHANGED <<database, memory, robots>>
    BY <1>1 DEF Arrive, Place
  <2> QED BY <2>1, DetectedAgrees
<1>2. ASSUME NEW g \in Gate, PickedUp(g) PROVE Agreed'
  <2>1. /\ Quiet /\ (net' = net \/ net' = Send(net, "detection", <<"cleared", g>>)) /\ g \in Place
        /\ UNCHANGED <<database, memory, robots>>
    BY <1>2 DEF PickedUp, WithCleared, Place
  <2> QED BY <2>1, DetectedAgrees
<1> QED BY <1>1, <1>2

-----------------------------------------------------------------------------
(* The invariant.                                                          *)

LEMMA InitAgrees ==
  ASSUME OrdersAssumption, Init
  PROVE  Agreed
<1>1. /\ tasks = <<>> /\ net = [c \in Channel |-> <<>>] /\ robots = [r \in Robot |-> Waiting]
  BY DEF Init
<1>2. /\ \A c \in Channel : net[c] = <<>>
      /\ \A r \in Robot : robots[r] = Waiting
      /\ Len(tasks) = 0
  BY <1>1
<1>3. /\ Clear(net) /\ net["new_task"] = <<>> /\ net["reclaim"] = <<>> /\ net["report"] = <<>>
  BY <1>2, ChannelsAre DEF Clear, Single
<1>4. NetOK(net) /\ Items(net["reclaim"]) = {} /\ Items(net["new_task"]) = {}
  <2>1. net \in Nets
    BY <1>1 DEF Nets
  <2>2. Items(<<>>) = {} /\ Distinct(<<>>)
    BY DEF Items, Distinct
  <2> QED BY <1>3, <2>1, <2>2 DEF NetOK, Prompt
<1>5. \A r \in Robot : ~Reports(net, r)
  BY <1>3 DEF Reports
<1>6. /\ Waiting.pc = "idle" /\ Waiting.queue = <<>> /\ Waiting.cancel = NoOrder /\ Waiting.oid = NoOrder
  BY DEF Waiting
<1>7. LiveIn(robots, net) = {}
  BY <1>2, <1>5, <1>6 DEF LiveIn, Works
<1>8. RobotsOK(robots, seen, net)
  BY <1>2, <1>5, <1>6 DEF RobotsOK, RobotOK
<1>9. MarksOK(orders, tasks, {}, robots)
  BY <1>2, <1>6 DEF MarksOK, OrdersAssumption
<1>10. Board(orders, tasks, {}, {}, {})
  BY <1>2 DEF Board, OneTask, Stage, Loads, Reclaims, TaskNews, Apart
<1>11. Timed(orders, tasks, deadlines, untimed, net)
  BY <1>2 DEF Timed
<1>12. News(net, orders, tasks, {}, {}, robots)
  BY <1>3, NoNews
<1> QED BY <1>4, <1>7, <1>8, <1>9, <1>10, <1>11, <1>12, Zenon DEF Agreed, Agree

\* Every step keeps the books, the messages and the robots in agreement.
LEMMA NextAgrees ==
  ASSUME OrdersAssumption, PromptButReclaims, LifeInv, [Next]_vars
  PROVE  Agreed'
<1>1. CASE \E o \in Order : CreateOrder(o) \/ CancelOrder(o) \/ OperatorCancels(o)
  BY <1>1, OrderServerAgrees
<1>2. CASE TaskManager
  BY <1>2, CreateOutboundAgrees, ArmPickupTimerAgrees, OnOrderCancelledAgrees,
     OnReclaimRequestAgrees, OnClearedAgrees, OnInboundAgrees DEF TaskManager
<1>3. CASE TaskRestart
  BY <1>3, TaskRestartAgrees
<1>4. CASE FleetManager
  BY <1>4, OnNewTaskAgrees, OnTaskReportAgrees, OnRobotStatusAgrees DEF FleetManager
<1>5. CASE \E r \in Robot : Drive(r)
  BY <1>5, DriveAgrees
<1>6. CASE \E g \in Gate : CheckExpired(g)
  BY <1>6, CheckExpiredAgrees
<1>7. CASE Arrive \/ \E g \in Gate : PickedUp(g)
  BY <1>7, CustomersAgree
<1>8. CASE UNCHANGED vars
  <2>1. /\ UNCHANGED <<orders, tasks, deadlines, untimed, seen, net, robots>>
        /\ Agree(orders, tasks, deadlines, untimed, seen, net, robots)
    BY <1>8 DEF vars, LifeInv, Agreed
  <2> QED BY <2>1, Zenon DEF Agreed
<1> QED BY <1>1, <1>2, <1>3, <1>4, <1>5, <1>6, <1>7, <1>8 DEF Next

LEMMA LifeInvariant ==
  ASSUME OrdersAssumption, PromptButReclaims
  PROVE  Spec => []LifeInv
<1>1. Init => LifeInv
  BY InitTypes, InitAgrees DEF LifeInv
<1>2. LifeInv /\ [Next]_vars => LifeInv'
  <2>1. ASSUME LifeInv, [Next]_vars PROVE Types' /\ Agreed'
    <3>1. Types
      BY <2>1 DEF LifeInv
    <3>2. Types'
      BY <2>1, <3>1, MemoryKept, TablesAndWorldKept DEF Types
    <3> QED BY <2>1, <3>2, NextAgrees
  <2> QED BY <2>1 DEF LifeInv
<1> QED BY <1>1, <1>2, PTL DEF Spec

-----------------------------------------------------------------------------
(* The promises.                                                           *)

\* An order goes one of the ways of OrderLife.
LEMMA OrderGoes ==
  ASSUME NEW o \in Order, NEW s,
         \/ orders[o] = "none" /\ s = "pending"
         \/ orders[o] = "pending" /\ s = "processing"
         \/ orders[o] = "processing" /\ s = "awaiting_pickup"
         \/ orders[o] = "awaiting_pickup" /\ s \in {"delivered", "cancelled"}
         \/ orders[o] \in {"pending", "processing"} /\ s = "cancelled",
         orders' = [orders EXCEPT ![o] = s]
  PROVE  Life!Next
<1>1. Life!Place(o) \/ Life!Accept(o) \/ Life!Ready(o) \/ Life!Deliver(o) \/ Life!Cancel(o) \/ Life!Expire(o)
  BY DEF Life!Place, Life!Accept, Life!Ready, Life!Deliver, Life!Cancel, Life!Expire, Life!Become
<1> QED BY <1>1 DEF Life!Next

\* Every step of the three processes is one step of an order, or none.
LEMMA StepOfOrder ==
  ASSUME OrdersAssumption, PromptButReclaims, LifeInv, [Next]_vars
  PROVE  [Life!Next]_orders
<1>0. TablesOK(tasks, shelves) /\ orders \in [Order -> OrderStatus]
  BY StateIs
<1>1. ASSUME NEW o \in Order, CreateOrder(o) \/ CancelOrder(o) \/ OperatorCancels(o) PROVE Life!Next
  <2>1. CASE CreateOrder(o)
    BY <2>1, OrderGoes DEF CreateOrder
  <2>2. CASE Cancelled(o)
    BY <2>2, OrderGoes DEF Cancelled
  <2> QED BY <1>1, <2>1, <2>2 DEF CancelOrder, OperatorCancels
<1>2. ASSUME NEW o \in Order, CreateOutbound(o) PROVE [Life!Next]_orders
  <2> DEFINE m == <<"new_order", o>>
  <2>1. Received("notify", m) /\ "notify" \in Single
    BY <1>2 DEF CreateOutbound, Single
  <2>2. orders[o] = "pending"
    <3>1. MessageOK("notify", m, orders, tasks, Live, New, robots)
      <4> HIDE DEF m
      <4> QED BY <2>1, ReceivedIs
    <3> QED BY <3>1, NotifyIs
  <2>3. orders' = orders \/ orders' = [orders EXCEPT ![o] = "processing"]
    BY <1>2 DEF CreateOutbound, database
  <2> QED BY <2>2, <2>3, OrderGoes
<1>3. ASSUME NEW g \in Gate,
             \/ orders' = orders
             \/ /\ AwaitingAt(g) # NoOrder
                /\ \E s \in {"delivered", "cancelled"} : orders' = [orders EXCEPT ![AwaitingAt(g)] = s]
      PROVE  [Life!Next]_orders
  <2>1. CASE orders' = orders
    BY <2>1
  <2>2. ASSUME NEW s \in {"delivered", "cancelled"}, AwaitingAt(g) # NoOrder,
               orders' = [orders EXCEPT ![AwaitingAt(g)] = s]
        PROVE  Life!Next
    <3>1. AwaitingAt(g) \in Order /\ orders[AwaitingAt(g)] = "awaiting_pickup"
      BY <1>0, <2>2, AwaitingIs
    <3> QED BY <2>2, <3>1, OrderGoes
  <2> QED BY <1>3, <2>1, <2>2
<1>4. ASSUME NEW g \in Gate, OnCleared(g) PROVE [Life!Next]_orders
  <2>1. \/ orders' = orders
        \/ AwaitingAt(g) # NoOrder /\ orders' = [orders EXCEPT ![AwaitingAt(g)] = "delivered"]
    BY <1>4 DEF OnCleared, database
  <2> QED BY <1>3, <2>1
<1>5. ASSUME NEW g \in Gate, CheckExpired(g) PROVE [Life!Next]_orders
  <2>1. \/ orders' = orders
        \/ AwaitingAt(g) # NoOrder /\ orders' = [orders EXCEPT ![AwaitingAt(g)] = "cancelled"]
    BY <1>5 DEF CheckExpired, CancelAndReclaim, database
  <2> QED BY <1>3, <2>1
<1>6. ASSUME OnTaskReport PROVE [Life!Next]_orders
  <2>1. ASSUME NEW r \in Robot, NEW e, NEW p,
               Received("report", [robot |-> r, event |-> e, order |-> p]), OnTargetDone(r)
        PROVE  [Life!Next]_orders
    <3> DEFINE t == LastAssigned(AssignedTo(r))
               o == tasks[t].order
    <3>1. r \in Live
      BY <2>1, ReportIs
    <3>2. AssignedTo(r) # {} /\ t \in Ids /\ Fresh(orders, tasks, Returns, t)
      BY <3>1, ReporterHasTask
    <3>3. \/ orders' = orders
          \/ /\ tasks[t].type = "outbound" /\ orders[o] # "cancelled"
             /\ orders' = [orders EXCEPT ![o] = "awaiting_pickup"]
      BY <2>1, <3>2 DEF OnTargetDone, database
    <3> HIDE DEF t
    <3>4. tasks[t].type = "outbound" => o \in Order
      BY <1>0, <3>2 DEF TablesOK, RowOK, Ids
    <3>5. tasks[t].type = "outbound" => orders[o] \in {"processing", "cancelled"}
      BY <3>2 DEF Fresh
    <3> QED BY <3>3, <3>4, <3>5, OrderGoes
  <2>2. ASSUME NEW r, NEW o, FinishCustomerCancel(r, o) PROVE orders' = orders
    BY <2>2 DEF FinishCustomerCancel, database
  <2> QED BY <1>6, <2>1, <2>2 DEF OnTaskReport
<1>7. ASSUME NEW o \in Order, ArmPickupTimer(o) \/ OnOrderCancelled(o) \/ OnReclaimRequest(o)
      PROVE  orders' = orders
  BY <1>7 DEF ArmPickupTimer, OnOrderCancelled, OnReclaimRequest, database
<1>8. ASSUME OnInbound \/ TaskRestart \/ OnNewTask \/ Arrive PROVE orders' = orders
  BY <1>8 DEF OnInbound, TaskRestart, OnNewTask, Arrive, database
<1>9. ASSUME NEW r \in Robot, OnRobotStatus(r) \/ Drive(r) PROVE orders' = orders
  BY <1>9 DEF OnRobotStatus, Drive, TakeAssignment, OnCancelMission, AbortEmpty, PickUp, TurnBack,
              StartPlacing, PlacePallet, ReturnPallet, database
<1>10. ASSUME (\E g \in Gate : PickedUp(g)) \/ UNCHANGED vars PROVE orders' = orders
  BY <1>10 DEF PickedUp, vars, database
<1> QED BY <1>1, <1>2, <1>4, <1>5, <1>6, <1>7, <1>8, <1>9, <1>10
        DEF Next, TaskManager, FleetManager

\* The status of an order goes the ways of OrderLife and no others, whoever
\* orders, cancels or picks up what and whenever a pickup time passes, if the
\* processes handle what they are told before a robot, a customer or a clock
\* moves on.  Reclaim requests may take any time.
THEOREM OrdersGoTheirWay ==
  ASSUME OrdersAssumption, PromptButReclaims
  PROVE  Spec => IsOrderLife
<1>1. Init => Life!Init
  BY DEF Init, Life!Init
<1>2. LifeInv /\ [Next]_vars => [Life!Next]_orders
  BY StepOfOrder
<1> QED BY <1>1, <1>2, LifeInvariant, PTL DEF Spec, IsOrderLife, Life!Spec

\* No order waits at a gate without a clock: what starts the clock and what
\* stops it come from two processes, and both find the order by its gate.
THEOREM NoOrderWaitsUntimed ==
  ASSUME OrdersAssumption, PromptButReclaims
  PROVE  Spec => []AwaitingIsTimed
<1>1. ASSUME LifeInv PROVE AwaitingIsTimed
  <2>0. /\ TablesOK(tasks, shelves) /\ Ids = 1..Len(tasks) /\ net \in Nets
        /\ Timed(orders, tasks, deadlines, untimed, net)
    BY <1>1, StateIs
  <2> SUFFICES ASSUME NEW g \in Gate, AwaitingAt(g) \notin {NoOrder} \cup untimed,
                      deadlines[g] # AwaitingAt(g)
               PROVE  \E i \in 1..Len(net["notify"]) : net["notify"][i] = <<"awaiting_pickup", AwaitingAt(g)>>
    BY DEF AwaitingIsTimed
  <2> DEFINE o == AwaitingAt(g)
  <2>1. /\ orders[o] = "awaiting_pickup"
        /\ \E t \in Ids : tasks[t].type = "outbound" /\ tasks[t].order = o /\ tasks[t].target = g
    BY <2>0, AwaitingIs
  <2> HIDE DEF o
  <2>2. Arrived(net, o)
    BY <2>0, <2>1 DEF Timed, o
  <2>3. net["notify"] \in Seq(Message)
    BY <2>0, ChannelsAre DEF Nets, Single
  <2>4. 1 \in 1..Len(net["notify"]) /\ net["notify"][1] = <<"awaiting_pickup", o>>
    BY <2>2, <2>3 DEF Arrived
  <2> QED BY <2>4 DEF o
<1> QED BY <1>1, LifeInvariant, PTL

-----------------------------------------------------------------------------
(* The stock.  The tables of tasks and locations say which places hold a   *)
(* pallet, if one knows how far the robot of each task is: this is the     *)
(* ledger, and the floor agrees with it.                                   *)

\* Two pallets are not sent to one gate: what the comment on the choice of the
\* gate (task_manager_node.py, _occupied_gates) promises.
GatesAsPromised ==
  \A t, u \in Ids :
    /\ tasks[t].type = "outbound" /\ tasks[u].type = "outbound" /\ IsOpen(t) /\ IsOpen(u)
    /\ tasks[t].target = tasks[u].target
    => t = u

Nowhere == CHOOSE p : p \notin Place

\* The gate a task comes from or goes to, or the inbound gate.
DoorOf(row) == IF row.type = "outbound" THEN row.target ELSE row.source

\* A robot that has been at its source, and has not put down what it took.
Fetched == {"toTarget", "placing", "back"}

\* What the messages under way say of pallets: r has brought one, one has left
\* gate g, one has come.
Brought(n, r) ==
  n["report"] # <<>> /\ Head(n["report"]).robot = r /\ Head(n["report"]).event = "target_done"
Emptying(n, g) == n["detection"] # <<>> /\ Head(n["detection"]) = <<"cleared", g>>
Coming(n) == n["detection"] # <<>> /\ Head(n["detection"]) = <<"inbound", Inbound>>

\* Where the pallet of a task lies.
Where(ts, live, rs, n, t) ==
  LET row == ts[t]
      r   == row.robot
  IN  IF ~OpenRow(row) THEN Nowhere
      ELSE IF row.status = "pending" THEN row.source
      ELSE IF Carries(ts, live, t, r)
        THEN IF rs[r].pc \in Fetched THEN Nowhere
             ELSE IF Brought(n, r) THEN row.target ELSE row.source
      ELSE IF Emptying(n, row.target) THEN Nowhere ELSE row.target

Map(ts, live, rs, n) == [t \in 1..Len(ts) |-> Where(ts, live, rs, n, t)]

\* The pallets of the tasks ts are at the places wh: every open task has a shelf
\* and a door of its own, and at most one pallet at the inbound gate has a task.
Books(ts, sh, wh, coming) ==
  /\ \A t \in 1..Len(ts) : /\ ts[t].type = "reclaim" => ts[t].source \in Gate
                           /\ ts[t].type = "inbound" => ts[t].source = Inbound
                           /\ ~OpenRow(ts[t]) => wh[t] = Nowhere
  /\ \A t \in 1..Len(ts) : OpenRow(ts[t]) =>
       /\ sh[ShelfOf(ts[t])].reserved_by = t
       /\ wh[t] \in {ts[t].source, ts[t].target, Nowhere}
       /\ ts[t].type = "outbound" => sh[ts[t].source].inbound_at # 0
  /\ \A t, u \in 1..Len(ts) :
       OpenRow(ts[t]) /\ OpenRow(ts[u]) /\ DoorOf(ts[t]) \in Gate /\ DoorOf(ts[t]) = DoorOf(ts[u]) => t = u
  /\ \A t, u \in 1..Len(ts) : wh[t] = Inbound /\ wh[u] = Inbound => t = u
  /\ coming => \A t \in 1..Len(ts) : wh[t] # Inbound

\* The tables say that there is a pallet at p.
Holds(ts, sh, wh, p) ==
  \/ \E t \in 1..Len(ts) : wh[t] = p
  \/ p \in Shelf /\ sh[p].reserved_by = NoTask /\ sh[p].inbound_at # 0

\* A pallet at the inbound gate may have been forgotten for lack of a free shelf.
Counted(ts, sh, fl, wh, coming) ==
  /\ \A p \in Shelf \cup Gate : fl[p] = IF Holds(ts, sh, wh, p) THEN 1 ELSE 0
  /\ fl[Inbound] <= 1
  /\ coming \/ Holds(ts, sh, wh, Inbound) => fl[Inbound] = 1

Ledger(ts, sh, fl, wh, coming) == Books(ts, sh, wh, coming) /\ Counted(ts, sh, fl, wh, coming)

\* A robot has been given the places of its task, and has its pallet if it has
\* been there.
ErrandOK(x, row) ==
  /\ \A i \in 1..Len(x.queue) : x.queue[i] = [source |-> row.source, target |-> row.target]
  /\ x.pc # "idle" => x.source = row.source /\ x.target = row.target
  /\ x.pc \in Fetched => x.loaded

Errands(ts, live, rs) ==
  \A r \in live : \A t \in 1..Len(ts) : Current(ts, t, r) => ErrandOK(rs[r], ts[t])

\* A task that has been given and is no robot's has brought its pallet to a gate.
AtDoor(os, ts, live, rec) ==
  \A t \in 1..Len(ts) : ts[t].status = "assigned" /\ ~Carries(ts, live, t, ts[t].robot) =>
     ts[t].type = "outbound" /\ (os[ts[t].order] = "awaiting_pickup" \/ ts[t].order \in rec)

\* Only a pallet that waits for its customer leaves an outbound task's gate.
Collected(os, ts, n) ==
  \A g \in Gate : Emptying(n, g) =>
    \A t \in 1..Len(ts) : ts[t].type = "outbound" /\ OpenRow(ts[t]) /\ ts[t].target = g
      => os[ts[t].order] = "awaiting_pickup"

Accounts(os, ts, sh, fl, rs, n) ==
  /\ Ledger(ts, sh, fl, Map(ts, LiveIn(rs, n), rs, n), Coming(n))
  /\ Errands(ts, LiveIn(rs, n), rs)
  /\ AtDoor(os, ts, LiveIn(rs, n), Items(n["reclaim"]))
  /\ Collected(os, ts, n)

StockInv == Accounts(orders, tasks, shelves, floor, robots, net)

LEMMA NowhereIs == Nowhere \notin Place
  BY NoSetContainsEverything DEF Nowhere

LEMMA PlacesAre ==
  ASSUME OrdersAssumption
  PROVE  /\ Shelf \cap Gate = {} /\ Inbound \notin Shelf /\ Inbound \notin Gate
         /\ Shelf \subseteq Place /\ Gate \subseteq Place /\ Inbound \in Place
         /\ Nowhere \notin Shelf /\ Nowhere \notin Gate /\ Nowhere # Inbound
         /\ \A p \in Place : p \in Shelf \cup Gate \/ p = Inbound
  BY NowhereIs DEF OrdersAssumption, Place

\* A pallet of a task lies in the task's shelf or at its door, and is no other's.
LEMMA OwnPlace ==
  ASSUME OrdersAssumption, NEW ts, NEW sh, NEW wh, NEW coming, TablesOK(ts, sh),
         Books(ts, sh, wh, coming), NEW t \in 1..Len(ts), wh[t] \in Place
  PROVE  /\ OpenRow(ts[t])
         /\ wh[t] \in Shelf => wh[t] = ShelfOf(ts[t]) /\ sh[wh[t]].reserved_by = t
         /\ wh[t] \in Gate => wh[t] = DoorOf(ts[t])
         /\ \A u \in 1..Len(ts) : wh[u] = wh[t] => u = t
<1>0. ASSUME NEW u \in 1..Len(ts), wh[u] \in Place
      PROVE  /\ OpenRow(ts[u])
             /\ wh[u] \in Shelf => wh[u] = ShelfOf(ts[u]) /\ sh[wh[u]].reserved_by = u
             /\ wh[u] \in Gate => wh[u] = DoorOf(ts[u])
  <2>1. OpenRow(ts[u])
    BY <1>0, NowhereIs DEF Books
  <2>2. /\ ts[u] \in Row /\ RowOK(ts[u])
        /\ ts[u].type = "reclaim" => ts[u].source \in Gate
        /\ ts[u].type = "inbound" => ts[u].source = Inbound
    BY DEF TablesOK, Books
  <2>3. wh[u] \in {ts[u].source, ts[u].target} /\ sh[ShelfOf(ts[u])].reserved_by = u
    BY <1>0, <2>1, NowhereIs DEF Books
  <2>4. ts[u].type \in {"outbound", "inbound", "reclaim"}
    BY <2>2 DEF Row
  <2> QED BY <2>1, <2>2, <2>3, <2>4, PlacesAre DEF RowOK, ShelfOf, DoorOf
<1>1. ASSUME NEW u \in 1..Len(ts), wh[u] = wh[t]
      PROVE  u = t
  <2>1. CASE wh[t] \in Shelf
    BY <1>0, <1>1, <2>1
  <2>2. CASE wh[t] \in Gate
    <3>1. OpenRow(ts[u]) /\ OpenRow(ts[t]) /\ DoorOf(ts[u]) \in Gate /\ DoorOf(ts[u]) = DoorOf(ts[t])
      BY <1>0, <1>1, <2>2
    <3> QED BY <3>1 DEF Books
  <2>3. CASE wh[t] = Inbound
    BY <1>1, <2>3 DEF Books
  <2> QED BY <2>1, <2>2, <2>3, PlacesAre
<1> QED BY <1>0, <1>1

\* A pallet of a task is taken away: by its robot, or by the customer.
LEMMA LedgerLifted ==
  ASSUME OrdersAssumption, NEW ts, NEW sh, NEW fl \in [Place -> Nat], NEW wh, NEW coming, TablesOK(ts, sh),
         Ledger(ts, sh, fl, wh, coming), NEW t \in 1..Len(ts), wh[t] \in Place,
         NEW wh2, wh2[t] = Nowhere, \A u \in 1..Len(ts) : u # t => wh2[u] = wh[u]
  PROVE  Ledger(ts, sh, [fl EXCEPT ![wh[t]] = 0], wh2, coming)
<1> DEFINE p == wh[t]
           fl2 == [fl EXCEPT ![p] = 0]
<1>1. /\ p \in Shelf => sh[p].reserved_by = t
      /\ \A u \in 1..Len(ts) : wh[u] = p => u = t
  BY OwnPlace DEF Ledger
<1>2. /\ fl2[p] = 0 /\ \A q \in Place : q # p => fl2[q] = fl[q]
  OBVIOUS
<1>3. t # NoTask
  BY DEF NoTask
<1>4. \A u \in 1..Len(ts) : wh2[u] = IF u = t THEN Nowhere ELSE wh[u]
  OBVIOUS
<1>5. p \in Place
  OBVIOUS
<1> HIDE DEF p, fl2
<1>6. \A q \in Place : Holds(ts, sh, wh2, q) <=> Holds(ts, sh, wh, q) /\ q # p
  <2> TAKE q \in Place
  <2>1. (\E u \in 1..Len(ts) : wh2[u] = q) <=> (\E u \in 1..Len(ts) : wh[u] = q /\ u # t)
    BY <1>4, NowhereIs
  <2>2. (\E u \in 1..Len(ts) : wh[u] = q /\ u # t) <=> (\E u \in 1..Len(ts) : wh[u] = q) /\ q # p
    BY <1>1 DEF p
  <2>3. q = p => ~(q \in Shelf /\ sh[q].reserved_by = NoTask /\ sh[q].inbound_at # 0)
    BY <1>1, <1>3
  <2> QED BY <2>1, <2>2, <2>3 DEF Holds
<1>7. Books(ts, sh, wh2, coming)
  <2>1. \A u \in 1..Len(ts) : wh2[u] = Inbound => wh[u] = Inbound
    BY <1>4, PlacesAre
  <2>2. \A u \in 1..Len(ts) : wh2[u] = wh[u] \/ wh2[u] = Nowhere
    BY <1>4
  <2>3. Books(ts, sh, wh, coming)
    BY DEF Ledger
  <2> HIDE DEF p
  <2> QED BY ONLY <2>1, <2>2, <2>3 DEF Books
<1>8. Counted(ts, sh, fl2, wh2, coming)
  <2>1. coming => p # Inbound
    BY DEF p, Ledger, Books
  <2> QED BY <1>2, <1>5, <1>6, <2>1, PlacesAre DEF Ledger, Counted
<1> QED BY <1>7, <1>8 DEF Ledger, fl2, p

\* The places between which a task runs.
Ends(row) == {row.source, row.target}

\* Its robot puts it down, in the shelf or at the door of the task.
LEMMA LedgerPut ==
  ASSUME OrdersAssumption, NEW ts, NEW sh, NEW fl \in [Place -> Nat], NEW wh, NEW coming, TablesOK(ts, sh),
         Ledger(ts, sh, fl, wh, coming), NEW t \in 1..Len(ts), OpenRow(ts[t]), wh[t] = Nowhere,
         NEW p \in Ends(ts[t]), p # Inbound,
         NEW wh2, wh2[t] = p, \A u \in 1..Len(ts) : u # t => wh2[u] = wh[u],
         NEW fl2, fl2 = [fl EXCEPT ![p] = @ + 1]
  PROVE  Ledger(ts, sh, fl2, wh2, coming)
<1>0. Len(ts) \in Nat /\ t # NoTask
  BY DEF NoTask, TablesOK
<1>1. ts[t] \in Row /\ RowOK(ts[t]) /\ p \in Shelf \cup Gate
  <2>1. ts[t] \in Row /\ RowOK(ts[t])
    BY DEF TablesOK
  <2>2. p \in Place
    BY <2>1 DEF Row, Ends
  <2> QED BY <2>1, <2>2, PlacesAre
<1>2. /\ ts[t].type = "reclaim" => ts[t].source \in Gate
      /\ ts[t].type = "inbound" => ts[t].source = Inbound
      /\ sh[ShelfOf(ts[t])].reserved_by = t
  BY DEF Ledger, Books
<1>3. (p \in Shelf => p = ShelfOf(ts[t])) /\ (p \in Gate => p = DoorOf(ts[t]))
  BY <1>1, <1>2, PlacesAre DEF RowOK, ShelfOf, DoorOf, Row, Ends
<1>4. ~Holds(ts, sh, wh, p)
  <2>1. ~(p \in Shelf /\ sh[p].reserved_by = NoTask /\ sh[p].inbound_at # 0)
    BY <1>0, <1>2, <1>3
  <2>2. ASSUME NEW u \in 1..Len(ts), wh[u] = p
        PROVE  FALSE
    <3>0. p \in Place /\ u # t
      BY <1>1, <2>2, PlacesAre
    <3>1. /\ OpenRow(ts[u])
          /\ p \in Shelf => sh[p].reserved_by = u
          /\ p \in Gate => p = DoorOf(ts[u])
      BY <2>2, <3>0, OwnPlace DEF Ledger
    <3>2. CASE p \in Shelf
      BY <1>2, <1>3, <3>0, <3>1, <3>2
    <3>3. CASE p \in Gate
      BY <1>3, <3>0, <3>1, <3>3, PlacesAre DEF Ledger, Books
    <3> QED BY <1>1, <3>2, <3>3
  <2> QED BY <2>1, <2>2 DEF Holds
<1>5. fl[p] = 0
  BY <1>1, <1>4 DEF Ledger, Counted
<1>6. fl2[p] = 1 /\ \A q \in Place : q # p => fl2[q] = fl[q]
  BY <1>1, <1>5, PlacesAre
<1>7. \A u \in 1..Len(ts) : wh2[u] = IF u = t THEN p ELSE wh[u]
  OBVIOUS
<1>8. \A q \in Place : Holds(ts, sh, wh2, q) <=> Holds(ts, sh, wh, q) \/ q = p
  <2> TAKE q \in Place
  <2>1. (\E u \in 1..Len(ts) : wh2[u] = q) <=> (\E u \in 1..Len(ts) : wh[u] = q) \/ q = p
    BY <1>7, NowhereIs
  <2> QED BY <2>1 DEF Holds
<1>9. Books(ts, sh, wh2, coming)
  BY <1>7, PlacesAre, ZenonT(60) DEF Ledger, Books, Ends
<1>10. Counted(ts, sh, fl2, wh2, coming)
  BY <1>1, <1>6, <1>8, PlacesAre DEF Ledger, Counted
<1> QED BY <1>9, <1>10 DEF Ledger

\* A pallet comes to the inbound gate.
LEMMA LedgerCame ==
  ASSUME OrdersAssumption, NEW ts, NEW sh, NEW fl \in [Place -> Nat], NEW wh, TablesOK(ts, sh),
         Ledger(ts, sh, fl, wh, FALSE), fl[Inbound] = 0
  PROVE  Ledger(ts, sh, [fl EXCEPT ![Inbound] = 1], wh, TRUE)
<1> DEFINE fl2 == [fl EXCEPT ![Inbound] = 1]
<1>1. fl2[Inbound] = 1 /\ \A q \in Place : q # Inbound => fl2[q] = fl[q]
  BY PlacesAre
<1>2. ~Holds(ts, sh, wh, Inbound)
  BY DEF Ledger, Counted
<1> HIDE DEF fl2
<1>3. Books(ts, sh, wh, TRUE)
  BY <1>2 DEF Ledger, Books, Holds
<1>4. Counted(ts, sh, fl2, wh, TRUE)
  BY <1>1, PlacesAre DEF Ledger, Counted
<1> QED BY <1>3, <1>4 DEF Ledger, fl2

\* A row that is closed keeps its places, type, order and robot.
LEMMA ClosedRow ==
  ASSUME NEW ts, RowsOK(ts), NEW t \in 1..Len(ts), NEW status \in {"done", "cancelled"}
  PROVE  LET ts2 == Close(ts, t, status)
         IN  /\ Len(ts2) = Len(ts) /\ \A u \in 1..Len(ts) : u # t => ts2[u] = ts[u]
             /\ ts2[t].status = status /\ ~OpenRow(ts2[t])
             /\ ts2[t].type = ts[t].type /\ ts2[t].order = ts[t].order /\ ts2[t].robot = ts[t].robot
             /\ ts2[t].source = ts[t].source /\ ts2[t].target = ts[t].target
             /\ ShelfOf(ts2[t]) = ShelfOf(ts[t]) /\ DoorOf(ts2[t]) = DoorOf(ts[t])
             /\ ts2[t].assigned_at = ts[t].assigned_at
<1> DEFINE row == [ts[t] EXCEPT !.status = status]
           new == [ts EXCEPT ![t] = row]
<1>1. ts \in Seq(Row) /\ Len(ts) \in Nat /\ ts[t] \in Row
  BY DEF RowsOK
<1>2. /\ row.status = status /\ ~OpenRow(row)
      /\ row.type = ts[t].type /\ row.order = ts[t].order /\ row.robot = ts[t].robot
      /\ row.source = ts[t].source /\ row.target = ts[t].target
      /\ ShelfOf(row) = ShelfOf(ts[t]) /\ DoorOf(row) = DoorOf(ts[t])
      /\ row.assigned_at = ts[t].assigned_at
  BY <1>1 DEF Row, OpenRow, ShelfOf, DoorOf
<1> HIDE DEF row
<1>3. Len(new) = Len(ts) /\ new[t] = row /\ \A u \in 1..Len(ts) : u # t => new[u] = ts[u]
  BY <1>1
<1> HIDE DEF new
<1>4. /\ Len(new) = Len(ts) /\ \A u \in 1..Len(ts) : u # t => new[u] = ts[u]
      /\ new[t].status = status /\ ~OpenRow(new[t])
      /\ new[t].type = ts[t].type /\ new[t].order = ts[t].order /\ new[t].robot = ts[t].robot
      /\ new[t].source = ts[t].source /\ new[t].target = ts[t].target
      /\ ShelfOf(new[t]) = ShelfOf(ts[t]) /\ DoorOf(new[t]) = DoorOf(ts[t])
      /\ new[t].assigned_at = ts[t].assigned_at
  BY <1>2, <1>3
<1> QED BY <1>4 DEF new, row, Close

\* A row that is added is the last one.
LEMMA AddedRow ==
  ASSUME NEW ts, RowsOK(ts), NEW row \in Row
  PROVE  LET ts2 == Append(ts, row)
         IN  /\ Len(ts2) = Len(ts) + 1 /\ ts2[Len(ts) + 1] = row /\ \A u \in 1..Len(ts) : ts2[u] = ts[u]
             /\ Len(ts) \in Nat /\ \A u \in 1..Len(ts2) : u \in 1..Len(ts) \/ u = Len(ts) + 1
  BY DEF RowsOK

\* What a new task is for: what is in a shelf, to a gate where no other task
\* begins or ends, or what has come.
Bookable(ts, sh, row, s, coming, coming2) ==
  \/ /\ row.type = "outbound" /\ sh[s].inbound_at # 0 /\ (coming2 => coming)
     /\ \A u \in 1..Len(ts) : OpenRow(ts[u]) => DoorOf(ts[u]) # row.target
  \/ /\ row.type = "inbound" /\ row.source = Inbound /\ sh[s].inbound_at = 0
     /\ coming /\ ~coming2

\* A task is booked.
LEMMA LedgerBooked ==
  ASSUME OrdersAssumption, NEW ts, NEW sh, NEW fl \in [Place -> Nat], NEW wh, NEW coming, TablesOK(ts, sh),
         Ledger(ts, sh, fl, wh, coming),
         NEW row \in Row, RowOK(row), row.status = "pending", NEW s, s = ShelfOf(row),
         sh[s].reserved_by = NoTask, NEW coming2, Bookable(ts, sh, row, s, coming, coming2),
         NEW wh2, wh2[Len(ts) + 1] = row.source, \A u \in 1..Len(ts) : wh2[u] = wh[u]
  PROVE  Ledger(Append(ts, row), [sh EXCEPT ![s].reserved_by = Len(ts) + 1], fl, wh2, coming2)
<1> DEFINE id == Len(ts) + 1
           ts2 == Append(ts, row)
           l == [sh[s] EXCEPT !.reserved_by = id]
           sh2 == [sh EXCEPT ![s] = l]
<1> USE DEF Bookable
<1>0. RowsOK(ts) /\ sh \in [Shelf -> Location] /\ s \in Shelf /\ Len(ts) \in Nat
  BY ShelfOfRow DEF TablesOK, RowsOK, Location
<1>1. /\ Len(ts2) = id /\ ts2[id] = row /\ \A u \in 1..Len(ts) : ts2[u] = ts[u]
      /\ \A u \in 1..Len(ts2) : u \in 1..Len(ts) \/ u = id
  BY <1>0, AddedRow
<1>2. l.reserved_by = id /\ l.inbound_at = sh[s].inbound_at /\ id # NoTask /\ id \notin 1..Len(ts)
      /\ id \in 1..id /\ 1..Len(ts) \subseteq 1..id
  BY <1>0 DEF Location, NoTask
<1>3. sh2[s] = l /\ \A q \in Shelf : q # s => sh2[q] = sh[q]
  <2> HIDE DEF l
  <2> QED BY <1>0
<1>4. ASSUME NEW u \in 1..Len(ts), OpenRow(ts[u])
      PROVE  ShelfOf(ts[u]) \in Shelf /\ ShelfOf(ts[u]) # s
  BY <1>0, <1>4, ShelfOfRow DEF RowsOK, Ledger, Books, NoTask, TablesOK
<1>5. OpenRow(row) /\ row.source \in Place /\ row.source # Nowhere
  BY NowhereIs DEF OpenRow, Row
<1> HIDE DEF ts2, l, sh2, id
<1>6. \A q \in Place : Holds(ts2, sh2, wh2, q) <=> Holds(ts, sh, wh, q) \/ (row.type = "inbound" /\ q = Inbound)
  <2> TAKE q \in Place
  <2>1. (\E u \in 1..Len(ts2) : wh2[u] = q) <=> (\E u \in 1..Len(ts) : wh[u] = q) \/ q = row.source
    BY <1>1, <1>2 DEF id
  <2>2. CASE q # s
    <3>1. q \in Shelf => sh2[q] = sh[q]
      BY <1>3, <2>2
    <3>2. q = row.source <=> (row.type = "inbound" /\ q = Inbound)
      BY <2>2 DEF ShelfOf
    <3> QED BY <2>1, <3>1, <3>2 DEF Holds
  <2>3. CASE q = s
    <3>1. sh2[q].reserved_by # NoTask /\ q \in Shelf /\ q # Inbound
      BY <1>0, <1>2, <1>3, <2>3, PlacesAre
    <3>2. CASE row.type = "outbound"
      <4>1. q = row.source /\ Holds(ts, sh, wh, q)
        BY <1>0, <2>3, <3>2 DEF ShelfOf, Holds
      <4> QED BY <2>1, <3>2, <4>1 DEF Holds
    <3>3. CASE row.type = "inbound"
      <4>1. q # row.source /\ sh[q].inbound_at = 0
        BY <2>3, <3>1, <3>3
      <4> QED BY <2>1, <3>1, <4>1 DEF Holds
    <3> QED BY <3>2, <3>3
  <2> QED BY <2>2, <2>3
<1>7. Books(ts2, sh2, wh2, coming2)
  <2>1. ASSUME NEW u \in 1..Len(ts2)
        PROVE  /\ ts2[u].type = "reclaim" => ts2[u].source \in Gate
               /\ ts2[u].type = "inbound" => ts2[u].source = Inbound
               /\ ~OpenRow(ts2[u]) => wh2[u] = Nowhere
    <3>1. CASE u \in 1..Len(ts)
      BY <1>1, <3>1 DEF Ledger, Books
    <3>2. CASE u = id
      BY <1>1, <1>5, <3>2
    <3> QED BY <1>1, <3>1, <3>2
  <2>2. ASSUME NEW u \in 1..Len(ts2), OpenRow(ts2[u])
        PROVE  /\ sh2[ShelfOf(ts2[u])].reserved_by = u
               /\ wh2[u] \in {ts2[u].source, ts2[u].target, Nowhere}
               /\ ts2[u].type = "outbound" => sh2[ts2[u].source].inbound_at # 0
    <3>1. CASE u \in 1..Len(ts)
      <4>1. /\ sh[ShelfOf(ts[u])].reserved_by = u /\ wh[u] \in {ts[u].source, ts[u].target, Nowhere}
            /\ ts[u].type = "outbound" => sh[ts[u].source].inbound_at # 0
        BY <1>1, <2>2, <3>1 DEF Ledger, Books
      <4>2. ts2[u] = ts[u] /\ sh2[ShelfOf(ts[u])] = sh[ShelfOf(ts[u])]
        BY <1>1, <1>3, <1>4, <2>2, <3>1
      <4> QED BY <3>1, <4>1, <4>2 DEF ShelfOf
    <3>2. CASE u = id
      BY <1>1, <1>2, <1>3, <3>2 DEF ShelfOf, id
    <3> QED BY <1>1, <3>1, <3>2
  <2>3. ASSUME NEW u \in 1..Len(ts2), NEW v \in 1..Len(ts2), OpenRow(ts2[u]), OpenRow(ts2[v]),
               DoorOf(ts2[u]) \in Gate, DoorOf(ts2[u]) = DoorOf(ts2[v])
        PROVE  u = v
    <3>1. ASSUME NEW k \in 1..Len(ts), OpenRow(ts[k]), DoorOf(ts[k]) \in Gate PROVE DoorOf(ts[k]) # DoorOf(row)
      BY <3>1, PlacesAre DEF DoorOf
    <3>2. CASE u \in 1..Len(ts) /\ v \in 1..Len(ts)
      BY <1>1, <2>3, <3>2 DEF Ledger, Books
    <3> QED BY <1>1, <2>3, <3>1, <3>2
  <2>4. ASSUME NEW u \in 1..Len(ts2), NEW v \in 1..Len(ts2), wh2[u] = Inbound, wh2[v] = Inbound
        PROVE  u = v
    <3>1. row.source = Inbound => \A k \in 1..Len(ts) : wh[k] # Inbound
      BY PlacesAre DEF Ledger, Books, RowOK
    <3> QED BY <1>1, <2>4, <3>1, SMTT(60) DEF Ledger, Books, id
  <2>5. coming2 => \A u \in 1..Len(ts2) : wh2[u] # Inbound
    <3>1. coming2 => coming /\ row.source # Inbound
      BY PlacesAre DEF RowOK
    <3>2. coming => \A u \in 1..Len(ts) : wh[u] # Inbound
      BY DEF Ledger, Books
    <3> QED BY <1>1, <3>1, <3>2 DEF id
  <2> QED BY <2>1, <2>2, <2>3, <2>4, <2>5 DEF Books
<1>8. Counted(ts2, sh2, fl, wh2, coming2)
  BY <1>6, PlacesAre DEF Ledger, Counted
<1> QED BY <1>7, <1>8 DEF Ledger, ts2, sh2, l, id

\* A task is closed, and its shelf unlocked with what is in it.
LEMMA LedgerSettled ==
  ASSUME OrdersAssumption, NEW ts, NEW sh, NEW fl \in [Place -> Nat], NEW wh, NEW coming, TablesOK(ts, sh),
         Ledger(ts, sh, fl, wh, coming), NEW t \in 1..Len(ts), OpenRow(ts[t]),
         NEW status \in {"done", "cancelled"}, NEW s, s = ShelfOf(ts[t]), wh[t] \in {s, Nowhere},
         NEW l \in Location, l.reserved_by = NoTask, wh[t] = s <=> l.inbound_at # 0,
         NEW wh2, wh2[t] = Nowhere, \A u \in 1..Len(ts) : u # t => wh2[u] = wh[u]
  PROVE  Ledger(Close(ts, t, status), [sh EXCEPT ![s] = l], fl, wh2, coming)
<1> DEFINE ts2 == Close(ts, t, status)
           sh2 == [sh EXCEPT ![s] = l]
<1>0. RowsOK(ts) /\ sh \in [Shelf -> Location] /\ s \in Shelf /\ s \in Place /\ s # Inbound
  BY ShelfOfRow, PlacesAre DEF TablesOK, RowsOK, Location
<1>1. /\ Len(ts2) = Len(ts) /\ \A u \in 1..Len(ts) : u # t => ts2[u] = ts[u]
      /\ ~OpenRow(ts2[t]) /\ ts2[t].type = ts[t].type /\ ts2[t].source = ts[t].source
  <2>1. RowsOK(ts) /\ t \in 1..Len(ts) /\ status \in {"done", "cancelled"}
    BY <1>0
  <2> QED BY ONLY <2>1, ClosedRow
<1>2. sh2[s] = l /\ \A q \in Shelf : q # s => sh2[q] = sh[q]
  BY <1>0
<1>3. sh[s].reserved_by = t /\ t # NoTask
  BY DEF Ledger, Books, NoTask
<1>4. ASSUME NEW u \in 1..Len(ts), OpenRow(ts[u]), u # t
      PROVE  ShelfOf(ts[u]) \in Shelf /\ ShelfOf(ts[u]) # s
  BY <1>0, <1>3, <1>4, ShelfOfRow DEF RowsOK, Ledger, Books, TablesOK
<1> HIDE DEF ts2, sh2
<1>5. ASSUME NEW u \in 1..Len(ts), wh[u] = s
      PROVE  u = t
  <2>1. Books(ts, sh, wh, coming) /\ wh[u] \in Place
    BY <1>0, <1>5 DEF Ledger
  <2>2. sh[wh[u]].reserved_by = u
    BY <1>0, <1>5, <2>1, OwnPlace
  <2> QED BY <1>3, <1>5, <2>2
<1>6. \A q \in Place : Holds(ts2, sh2, wh2, q) <=> Holds(ts, sh, wh, q)
  <2> TAKE q \in Place
  <2>1. CASE q # s
    <3>1. q \in Shelf => sh2[q] = sh[q]
      BY <1>2, <2>1
    <3>2. (\E u \in 1..Len(ts2) : wh2[u] = q) <=> (\E u \in 1..Len(ts) : wh[u] = q)
      BY <1>1, <2>1, NowhereIs
    <3> QED BY <3>1, <3>2 DEF Holds
  <2>2. CASE q = s
    <3>1. ~ \E u \in 1..Len(ts2) : wh2[u] = s
      BY <1>0, <1>1, <1>5, NowhereIs
    <3>2. (\E u \in 1..Len(ts) : wh[u] = s) <=> wh[t] = s
      BY <1>5
    <3> QED BY <1>0, <1>2, <1>3, <2>2, <3>1, <3>2 DEF Holds
  <2> QED BY <2>1, <2>2
<1>7. Books(ts2, sh2, wh2, coming)
  <2>1. ASSUME NEW u \in 1..Len(ts2)
        PROVE  /\ ts2[u].type = "reclaim" => ts2[u].source \in Gate
               /\ ts2[u].type = "inbound" => ts2[u].source = Inbound
               /\ ~OpenRow(ts2[u]) => wh2[u] = Nowhere
    <3>1. u \in 1..Len(ts)
      BY <1>1
    <3>2. /\ ts[u].type = "reclaim" => ts[u].source \in Gate
          /\ ts[u].type = "inbound" => ts[u].source = Inbound
          /\ ~OpenRow(ts[u]) => wh[u] = Nowhere
      BY <3>1 DEF Ledger, Books
    <3>3. CASE u = t
      BY <1>1, <3>2, <3>3
    <3>4. CASE u # t
      <4>1. ts2[u] = ts[u] /\ wh2[u] = wh[u]
        BY <1>1, <3>1, <3>4
      <4> QED BY <3>2, <4>1
    <3> QED BY <3>3, <3>4
  <2>2. ASSUME NEW u \in 1..Len(ts2), OpenRow(ts2[u])
        PROVE  /\ sh2[ShelfOf(ts2[u])].reserved_by = u
               /\ wh2[u] \in {ts2[u].source, ts2[u].target, Nowhere}
               /\ ts2[u].type = "outbound" => sh2[ts2[u].source].inbound_at # 0
    <3>1. u \in 1..Len(ts) /\ u # t /\ ts2[u] = ts[u] /\ wh2[u] = wh[u]
      BY <1>1, <2>2
    <3>2. /\ sh[ShelfOf(ts[u])].reserved_by = u /\ wh[u] \in {ts[u].source, ts[u].target, Nowhere}
          /\ ts[u].type = "outbound" => sh[ts[u].source].inbound_at # 0
      BY <2>2, <3>1 DEF Ledger, Books
    <3>3. sh2[ShelfOf(ts[u])] = sh[ShelfOf(ts[u])]
      BY <1>2, <1>4, <2>2, <3>1
    <3> QED BY <3>1, <3>2, <3>3 DEF ShelfOf
  <2>3. ASSUME NEW u \in 1..Len(ts2), NEW v \in 1..Len(ts2), OpenRow(ts2[u]), OpenRow(ts2[v]),
               DoorOf(ts2[u]) \in Gate, DoorOf(ts2[u]) = DoorOf(ts2[v])
        PROVE  u = v
    <3>1. u \in 1..Len(ts) /\ v \in 1..Len(ts) /\ ts2[u] = ts[u] /\ ts2[v] = ts[v]
      BY <1>1, <2>3
    <3> QED BY <2>3, <3>1 DEF Ledger, Books
  <2>4. \A u \in 1..Len(ts2) : wh2[u] = Inbound => wh[u] = Inbound
    BY <1>1, PlacesAre
  <2> QED BY <1>1, <2>1, <2>2, <2>3, <2>4, ZenonT(60) DEF Ledger, Books
<1>8. Counted(ts2, sh2, fl, wh2, coming)
  BY <1>6, PlacesAre DEF Ledger, Counted
<1> QED BY <1>7, <1>8 DEF Ledger, ts2, sh2

\* A pallet at a gate is to be brought back: one task ends, and another, which
\* has the same pallet, the same shelf and the same door, begins.
LEMMA LedgerRehomed ==
  ASSUME OrdersAssumption, NEW ts, NEW sh, NEW fl \in [Place -> Nat], NEW wh, NEW coming, TablesOK(ts, sh),
         Ledger(ts, sh, fl, wh, coming), NEW t \in 1..Len(ts), OpenRow(ts[t]), ts[t].type = "outbound",
         wh[t] = ts[t].target, NEW row \in Row, row.type = "reclaim", row.status = "pending",
         row.source = ts[t].target, row.target = ts[t].source,
         NEW wh2, wh2[t] = Nowhere, wh2[Len(ts) + 1] = wh[t], \A u \in 1..Len(ts) : u # t => wh2[u] = wh[u]
  PROVE  Ledger(Append(Close(ts, t, "cancelled"), row),
                [sh EXCEPT ![ts[t].source].reserved_by = Len(ts) + 1], fl, wh2, coming)
<1> DEFINE id == Len(ts) + 1
           mid == Close(ts, t, "cancelled")
           ts2 == Append(mid, row)
           s == ts[t].source
           l == [sh[s] EXCEPT !.reserved_by = id]
           sh2 == [sh EXCEPT ![s] = l]
<1>0. /\ RowsOK(ts) /\ sh \in [Shelf -> Location] /\ s \in Shelf /\ s = ShelfOf(ts[t]) /\ Len(ts) \in Nat
      /\ ts[t].target \in Gate
  BY DEF TablesOK, RowsOK, RowOK, Location, ShelfOf
<1>1. /\ Len(mid) = Len(ts) /\ \A u \in 1..Len(ts) : u # t => mid[u] = ts[u]
      /\ ~OpenRow(mid[t]) /\ mid[t].type = "outbound"
  <2>1. RowsOK(ts) /\ t \in 1..Len(ts) /\ "cancelled" \in {"done", "cancelled"}
    BY <1>0
  <2>2. /\ Len(mid) = Len(ts) /\ \A u \in 1..Len(ts) : u # t => mid[u] = ts[u]
        /\ ~OpenRow(mid[t]) /\ mid[t].type = ts[t].type
    BY ONLY <2>1, ClosedRow
  <2> QED BY <2>2
<1>2. l.reserved_by = id /\ l.inbound_at = sh[s].inbound_at /\ id # NoTask /\ id \notin 1..Len(ts) /\ id # t
      /\ id \in 1..id /\ 1..Len(ts) \subseteq 1..id
  BY <1>0 DEF Location, NoTask
<1>3. sh2[s] = l /\ \A q \in Shelf : q # s => sh2[q] = sh[q]
  <2> HIDE DEF l
  <2> QED BY <1>0
<1>4. sh[s].reserved_by = t /\ t # NoTask
  BY <1>0 DEF Ledger, Books, NoTask
<1>5. mid \in Seq(Row)
  <2>0. ts \in Seq(Row) /\ ts[t] \in Row
    BY <1>0 DEF RowsOK
  <2>1. [ts[t] EXCEPT !.status = "cancelled"] \in Row
    BY <2>0 DEF Row
  <2> QED BY <2>0, <2>1 DEF Close
<1> HIDE DEF mid
<1>6. /\ Len(ts2) = id /\ ts2[id] = row /\ ts2[t] = mid[t] /\ \A u \in 1..Len(ts) : u # t => ts2[u] = ts[u]
      /\ \A u \in 1..Len(ts2) : u = t \/ (u \in 1..Len(ts) /\ u # t) \/ u = id
  <2>1. Len(mid) = Len(ts) /\ t \in 1..Len(ts)
    BY <1>1
  <2>2. Len(ts2) = Len(mid) + 1 /\ ts2[Len(mid) + 1] = row /\ \A u \in 1..Len(mid) : ts2[u] = mid[u]
    BY <1>5
  <2> HIDE DEF ts2
  <2>3. Len(ts2) = id /\ ts2[id] = row /\ ts2[t] = mid[t] /\ \A u \in 1..Len(ts) : u # t => ts2[u] = ts[u]
    BY <1>1, <2>1, <2>2
  <2>4. \A u \in 1..Len(ts2) : u = t \/ (u \in 1..Len(ts) /\ u # t) \/ u = id
    <3>1. id = Len(ts) + 1 /\ Len(ts) \in Nat
      BY <1>0
    <3> HIDE DEF id
    <3> QED BY <2>3, <3>1
  <2> QED BY <2>3, <2>4
<1>7. /\ OpenRow(row) /\ ShelfOf(row) = s /\ DoorOf(row) = DoorOf(ts[t]) /\ DoorOf(row) = wh[t]
      /\ wh[t] \in Gate /\ wh[t] # Inbound /\ wh[t] # Nowhere
  BY <1>0, PlacesAre DEF OpenRow, ShelfOf, DoorOf
<1> HIDE DEF ts2, l, sh2, id
<1>8. ASSUME NEW u \in 1..Len(ts), OpenRow(ts[u]), u # t
      PROVE  ShelfOf(ts[u]) \in Shelf /\ ShelfOf(ts[u]) # s
  BY <1>0, <1>4, <1>8, ShelfOfRow DEF RowsOK, Ledger, Books, TablesOK
<1>9. \A q \in Place : Holds(ts2, sh2, wh2, q) <=> Holds(ts, sh, wh, q)
  <2> TAKE q \in Place
  <2>1. (\E u \in 1..Len(ts2) : wh2[u] = q) <=> (\E u \in 1..Len(ts) : wh[u] = q)
    <3>1. ASSUME NEW u \in 1..Len(ts2), wh2[u] = q PROVE \E v \in 1..Len(ts) : wh[v] = q
      BY <1>6, <3>1, NowhereIs DEF id
    <3>2. ASSUME NEW v \in 1..Len(ts), wh[v] = q PROVE \E u \in 1..Len(ts2) : wh2[u] = q
      <4>1. CASE v = t
        BY <1>2, <1>6, <3>2, <4>1 DEF id
      <4>2. CASE v # t
        BY <1>2, <1>6, <3>2, <4>2
      <4> QED BY <4>1, <4>2
    <3> QED BY <3>1, <3>2
  <2>2. (q \in Shelf /\ sh2[q].reserved_by = NoTask /\ sh2[q].inbound_at # 0)
          <=> (q \in Shelf /\ sh[q].reserved_by = NoTask /\ sh[q].inbound_at # 0)
    BY <1>2, <1>3, <1>4
  <2> QED BY <2>1, <2>2 DEF Holds
<1>10. Books(ts2, sh2, wh2, coming)
  <2>1. ASSUME NEW u \in 1..Len(ts2)
        PROVE  /\ ts2[u].type = "reclaim" => ts2[u].source \in Gate
               /\ ts2[u].type = "inbound" => ts2[u].source = Inbound
               /\ ~OpenRow(ts2[u]) => wh2[u] = Nowhere
    <3>1. CASE u \in 1..Len(ts) /\ u # t
      BY <1>6, <3>1 DEF Ledger, Books
    <3>2. CASE u = id
      BY <1>6, <1>7, <3>2
    <3>3. CASE u = t
      BY <1>1, <1>6, <3>3
    <3> QED BY <1>6, <3>1, <3>2, <3>3
  <2>2. ASSUME NEW u \in 1..Len(ts2), OpenRow(ts2[u])
        PROVE  /\ sh2[ShelfOf(ts2[u])].reserved_by = u
               /\ wh2[u] \in {ts2[u].source, ts2[u].target, Nowhere}
               /\ ts2[u].type = "outbound" => sh2[ts2[u].source].inbound_at # 0
    <3>1. CASE u \in 1..Len(ts) /\ u # t
      <4>1. /\ sh[ShelfOf(ts[u])].reserved_by = u /\ wh[u] \in {ts[u].source, ts[u].target, Nowhere}
            /\ ts[u].type = "outbound" => sh[ts[u].source].inbound_at # 0
        BY <1>6, <2>2, <3>1 DEF Ledger, Books
      <4>2. ts2[u] = ts[u] /\ sh2[ShelfOf(ts[u])] = sh[ShelfOf(ts[u])]
        BY <1>3, <1>6, <1>8, <2>2, <3>1
      <4> QED BY <3>1, <4>1, <4>2 DEF ShelfOf
    <3>2. CASE u = id
      BY <1>2, <1>3, <1>6, <1>7, <3>2 DEF id
    <3> QED BY <1>1, <1>6, <2>2, <3>1, <3>2
  <2>3. ASSUME NEW u \in 1..Len(ts2), NEW v \in 1..Len(ts2), OpenRow(ts2[u]), OpenRow(ts2[v]),
               DoorOf(ts2[u]) \in Gate, DoorOf(ts2[u]) = DoorOf(ts2[v])
        PROVE  u = v
    <3>1. ASSUME NEW k \in 1..Len(ts), OpenRow(ts[k]), k # t PROVE DoorOf(ts[k]) # DoorOf(row)
      <4>1. DoorOf(ts[t]) \in Gate /\ DoorOf(ts[t]) = DoorOf(row)
        BY <1>7
      <4>2. \A x, y \in 1..Len(ts) :
              OpenRow(ts[x]) /\ OpenRow(ts[y]) /\ DoorOf(ts[x]) \in Gate /\ DoorOf(ts[x]) = DoorOf(ts[y]) => x = y
        BY DEF Ledger, Books
      <4> QED BY <3>1, <4>1, <4>2
    <3>2. CASE u \in 1..Len(ts) /\ v \in 1..Len(ts) /\ u # t /\ v # t
      BY <1>6, <2>3, <3>2 DEF Ledger, Books
    <3> QED BY <1>1, <1>6, <2>3, <3>1, <3>2
  <2>4. \A u \in 1..Len(ts2) : wh2[u] = Inbound => u \in 1..Len(ts) /\ wh[u] = Inbound
    <3>1. wh2[id] = wh[t] /\ wh2[t] = Nowhere /\ Nowhere # Inbound
      BY PlacesAre DEF id
    <3> QED BY <1>6, <1>7, <3>1
  <2>5. /\ \A u, v \in 1..Len(ts) : wh[u] = Inbound /\ wh[v] = Inbound => u = v
        /\ coming => \A u \in 1..Len(ts) : wh[u] # Inbound
    BY DEF Ledger, Books
  <2>6. \A u, v \in 1..Len(ts2) : wh2[u] = Inbound /\ wh2[v] = Inbound => u = v
    BY <2>4, <2>5
  <2>7. coming => \A u \in 1..Len(ts2) : wh2[u] # Inbound
    BY <2>4, <2>5
  <2> QED BY <2>1, <2>2, <2>3, <2>6, <2>7 DEF Books
<1>11. Counted(ts2, sh2, fl, wh2, coming)
  BY <1>9, PlacesAre DEF Ledger, Counted
<1> QED BY <1>10, <1>11 DEF Ledger, ts2, mid, sh2, l, s, id

-----------------------------------------------------------------------------
(* The state and the ledger.                                               *)

Pallets == Map(tasks, Live, robots, net)

\* What the invariant says of the stock.
LEMMA StockIs ==
  ASSUME LifeInv, StockInv
  PROVE  /\ Ledger(tasks, shelves, floor, Pallets, Coming(net)) /\ floor \in [Place -> Nat]
         /\ Errands(tasks, Live, robots) /\ AtDoor(orders, tasks, Live, Returns) /\ Collected(orders, tasks, net)
         /\ \A t \in Ids : Pallets[t] = Where(tasks, Live, robots, net, t)
<1>1. /\ Ledger(tasks, shelves, floor, Map(tasks, Live, robots, net), Coming(net))
      /\ Errands(tasks, Live, robots) /\ AtDoor(orders, tasks, Live, Returns) /\ Collected(orders, tasks, net)
  BY DEF StockInv, Accounts, Live, Returns
<1>2. floor \in [Place -> Nat]
  BY DEF LifeInv, Types, World
<1>3. \A t \in Ids : Map(tasks, Live, robots, net)[t] = Where(tasks, Live, robots, net, t)
  BY DEF Map, Ids
<1> QED BY <1>1, <1>2, <1>3 DEF Pallets

\* A pallet stays where it is while its task and its robot do what they did.
LEMMA WhereKept ==
  ASSUME NEW ts, NEW live, NEW rs, NEW n, NEW ts2, NEW live2, NEW rs2, NEW n2, NEW t, ts2[t] = ts[t],
         ts[t].status = "assigned" =>
           LET r == ts[t].robot
           IN  /\ Carries(ts2, live2, t, r) <=> Carries(ts, live, t, r)
               /\ Carries(ts, live, t, r) => /\ rs2[r].pc \in Fetched <=> rs[r].pc \in Fetched
                                             /\ Brought(n2, r) <=> Brought(n, r)
               /\ ~Carries(ts, live, t, r) => (Emptying(n2, ts[t].target) <=> Emptying(n, ts[t].target))
  PROVE  Where(ts2, live2, rs2, n2, t) = Where(ts, live, rs, n, t)
<1> DEFINE r == ts[t].robot
<1>1. CASE ts[t].status = "assigned"
  <2>1. CASE Carries(ts, live, t, r)
    BY <1>1, <2>1 DEF Where, OpenRow
  <2>2. CASE ~Carries(ts, live, t, r)
    BY <1>1, <2>2 DEF Where, OpenRow
  <2> QED BY <2>1, <2>2
<1>2. CASE ts[t].status # "assigned"
  BY <1>2 DEF Where, OpenRow
<1> QED BY <1>1, <1>2

\* Where the pallet of a task is, by how far the task is.
LEMMA WhereIs ==
  ASSUME NEW ts, NEW live, NEW rs, NEW n, NEW t
  PROVE  /\ ~OpenRow(ts[t]) => Where(ts, live, rs, n, t) = Nowhere
         /\ ts[t].status = "pending" => Where(ts, live, rs, n, t) = ts[t].source
         /\ \A r : Carries(ts, live, t, r) =>
              Where(ts, live, rs, n, t) = IF rs[r].pc \in Fetched THEN Nowhere
                                          ELSE IF Brought(n, r) THEN ts[t].target ELSE ts[t].source
         /\ ts[t].status = "assigned" /\ ~Carries(ts, live, t, ts[t].robot) =>
              Where(ts, live, rs, n, t) = IF Emptying(n, ts[t].target) THEN Nowhere ELSE ts[t].target
<1>1. \A r : Carries(ts, live, t, r) => ts[t].robot = r /\ ts[t].status = "assigned"
  BY DEF Carries, Current, Has
<1>2. ~OpenRow(ts[t]) => Where(ts, live, rs, n, t) = Nowhere
  BY DEF Where
<1>3. ts[t].status = "pending" => Where(ts, live, rs, n, t) = ts[t].source
  BY DEF Where, OpenRow
<1>4. ASSUME NEW r, Carries(ts, live, t, r)
      PROVE  Where(ts, live, rs, n, t) = IF rs[r].pc \in Fetched THEN Nowhere
                                         ELSE IF Brought(n, r) THEN ts[t].target ELSE ts[t].source
  <2>1. ts[t].robot = r /\ ts[t].status = "assigned"
    BY <1>1, <1>4
  <2> QED BY <1>4, <2>1 DEF Where, OpenRow
<1>5. ts[t].status = "assigned" /\ ~Carries(ts, live, t, ts[t].robot) =>
        Where(ts, live, rs, n, t) = IF Emptying(n, ts[t].target) THEN Nowhere ELSE ts[t].target
  BY DEF Where, OpenRow
<1> QED BY <1>2, <1>3, <1>4, <1>5

\* A robot's current task is the same while those it has are.
LEMMA CurrentKept ==
  ASSUME NEW ts, NEW ts2, NEW r, \A u : Has(ts2, u, r) <=> Has(ts, u, r),
         \A u : Has(ts, u, r) => ts2[u].assigned_at = ts[u].assigned_at
  PROVE  \A t : Current(ts2, t, r) <=> Current(ts, t, r)
<1> SUFFICES ASSUME NEW t PROVE Current(ts2, t, r) <=> Current(ts, t, r)
  OBVIOUS
<1>1. ASSUME Current(ts, t, r) PROVE Current(ts2, t, r)
  <2>1. Has(ts2, t, r) /\ Has(ts, t, r)
    BY <1>1 DEF Current
  <2>2. ASSUME NEW u \in 1..Len(ts2), Has(ts2, u, r), u # t
        PROVE  ts2[u].assigned_at < ts2[t].assigned_at
    <3>1. Has(ts, u, r) /\ u \in 1..Len(ts)
      BY <2>2 DEF Has
    <3> QED BY <1>1, <2>1, <2>2, <3>1 DEF Current
  <2> QED BY <2>1, <2>2 DEF Current
<1>2. ASSUME Current(ts2, t, r) PROVE Current(ts, t, r)
  <2>1. Has(ts2, t, r) /\ Has(ts, t, r)
    BY <1>2 DEF Current
  <2>2. ASSUME NEW u \in 1..Len(ts), Has(ts, u, r), u # t
        PROVE  ts[u].assigned_at < ts[t].assigned_at
    <3>1. Has(ts2, u, r) /\ u \in 1..Len(ts2)
      BY <2>2 DEF Has
    <3> QED BY <1>2, <2>1, <2>2, <3>1 DEF Current
  <2> QED BY <2>1, <2>2 DEF Current
<1> QED BY <1>1, <1>2

\* A task that is added is nobody's yet.
LEMMA CarriesAppended ==
  ASSUME NEW ts, RowsOK(ts), NEW live, NEW row \in Row, row.status = "pending"
  PROVE  \A t, r : Carries(Append(ts, row), live, t, r) <=> Carries(ts, live, t, r)
<1> DEFINE ts2 == Append(ts, row)
<1>1. /\ Len(ts2) = Len(ts) + 1 /\ ts2[Len(ts) + 1] = row /\ \A u \in 1..Len(ts) : ts2[u] = ts[u]
      /\ Len(ts) \in Nat /\ \A u \in 1..Len(ts2) : u \in 1..Len(ts) \/ u = Len(ts) + 1
  BY AddedRow
<1> HIDE DEF ts2
<1>2. 1..Len(ts) \subseteq 1..Len(ts2)
  BY <1>1
<1>3. ASSUME NEW u, NEW r PROVE Has(ts2, u, r) <=> Has(ts, u, r)
  BY <1>1, <1>2 DEF Has
<1>4. ASSUME NEW u, NEW r, Has(ts, u, r) PROVE ts2[u].assigned_at = ts[u].assigned_at
  BY <1>1, <1>4 DEF Has
<1>5. ASSUME NEW r PROVE \A t : Current(ts2, t, r) <=> Current(ts, t, r)
  BY <1>3, <1>4, CurrentKept
<1>6. \A t, r : Carries(ts2, live, t, r) <=> Carries(ts, live, t, r)
  BY <1>5 DEF Carries
<1> QED BY <1>6 DEF ts2

\* A table in which a row is closed is one.
LEMMA ClosedRows ==
  ASSUME NEW ts, RowsOK(ts), NEW t \in 1..Len(ts), NEW status \in {"done", "cancelled"}
  PROVE  RowsOK(Close(ts, t, status))
<1>1. ts \in Seq(Row) /\ ts[t] \in Row /\ RowOK(ts[t])
  BY DEF RowsOK
<1> DEFINE row == [ts[t] EXCEPT !.status = status]
           new == [ts EXCEPT ![t] = row]
<1>2. row \in Row /\ RowOK(row)
  BY <1>1 DEF Row, RowOK
<1> HIDE DEF row
<1>3. new \in Seq(Row) /\ Len(new) = Len(ts) /\ new[t] = row /\ \A u \in 1..Len(ts) : u # t => new[u] = ts[u]
  BY <1>1, <1>2
<1> HIDE DEF new
<1>4. RowsOK(new)
  BY <1>2, <1>3 DEF RowsOK
<1> QED BY <1>4 DEF new, row, Close

\* A task that is closed, which no robot has that goes on, leaves the others to
\* their robots.
LEMMA CarriesClosed ==
  ASSUME NEW ts, RowsOK(ts), NEW live, \A r \in live : \E u : Current(ts, u, r),
         NEW t \in 1..Len(ts), NEW status \in {"done", "cancelled"}, NEW live2 \in SUBSET live,
         \A r \in live2 : ~Current(ts, t, r), \A r \in live \ live2 : Current(ts, t, r)
  PROVE  \A u, r : u # t => (Carries(Close(ts, t, status), live2, u, r) <=> Carries(ts, live, u, r))
<1> DEFINE ts2 == Close(ts, t, status)
<1>1. /\ Len(ts2) = Len(ts) /\ \A u \in 1..Len(ts) : u # t => ts2[u] = ts[u]
      /\ ~OpenRow(ts2[t])
  BY ClosedRow
<1>2. RowsOK(ts2)
  BY ClosedRows
<1> HIDE DEF ts2
<1>3. \A u, r : Has(ts2, u, r) <=> Has(ts, u, r) /\ u # t
  BY <1>1 DEF Has, OpenRow
<1>4. ASSUME NEW u, NEW r, u # t, Current(ts, u, r) PROVE Current(ts2, u, r)
  <2>1. Has(ts2, u, r) /\ Has(ts, u, r) /\ ts2[u] = ts[u]
    BY <1>1, <1>3, <1>4 DEF Current, Has
  <2>2. ASSUME NEW v \in 1..Len(ts2), Has(ts2, v, r), v # u PROVE ts2[v].assigned_at < ts2[u].assigned_at
    <3>1. Has(ts, v, r) /\ v # t /\ v \in 1..Len(ts) /\ ts2[v] = ts[v]
      BY <1>1, <1>3, <2>2 DEF Has
    <3> QED BY <1>4, <2>1, <2>2, <3>1 DEF Current
  <2> QED BY <2>1, <2>2 DEF Current
<1>5. ASSUME NEW u, NEW r, u # t, Carries(ts2, live2, u, r) PROVE Carries(ts, live, u, r)
  <2>1. r \in live2 /\ r \in live /\ Current(ts2, u, r)
    BY <1>5 DEF Carries
  <2>2. PICK v : Current(ts, v, r)
    BY <2>1
  <2>3. v # t
    BY <2>1, <2>2
  <2>4. Current(ts2, v, r)
    BY <1>4, <2>2, <2>3
  <2>5. u = v
    BY <1>2, <2>1, <2>4, CurrentIsOne
  <2> QED BY <2>1, <2>2, <2>5 DEF Carries
<1>6. ASSUME NEW u, NEW r, u # t, Carries(ts, live, u, r) PROVE Carries(ts2, live2, u, r)
  <2>1. r \in live /\ Current(ts, u, r)
    BY <1>6 DEF Carries
  <2>2. r \in live2
    BY <1>6, <2>1, CurrentIsOne
  <2> QED BY <1>4, <1>6, <2>1, <2>2 DEF Carries
<1>7. \A u, r : u # t => (Carries(ts2, live2, u, r) <=> Carries(ts, live, u, r))
  BY <1>5, <1>6
<1> QED BY <1>7 DEF ts2

\* The rows when task t is given to r.
Given(ts, t, r, now) == [ts EXCEPT ![t].status = "assigned", ![t].robot = r, ![t].assigned_at = now]

LEMMA GivenIs ==
  ASSUME NEW ts, RowsOK(ts), NEW t \in 1..Len(ts), NEW r, NEW now
  PROVE  LET ts2 == Given(ts, t, r, now)
         IN  /\ Len(ts2) = Len(ts) /\ \A u \in 1..Len(ts) : u # t => ts2[u] = ts[u]
             /\ ts2[t].status = "assigned" /\ ts2[t].robot = r /\ ts2[t].assigned_at = now
             /\ ts2[t].type = ts[t].type /\ ts2[t].order = ts[t].order
             /\ ts2[t].source = ts[t].source /\ ts2[t].target = ts[t].target
<1> DEFINE row == [ts[t] EXCEPT !.status = "assigned", !.robot = r, !.assigned_at = now]
           new == [ts EXCEPT ![t] = row]
<1>0. ts \in Seq(Row) /\ Len(ts) \in Nat /\ ts[t] \in Row
  BY DEF RowsOK
<1>1. /\ row.status = "assigned" /\ row.robot = r /\ row.assigned_at = now
      /\ row.type = ts[t].type /\ row.order = ts[t].order
      /\ row.source = ts[t].source /\ row.target = ts[t].target
  BY <1>0 DEF Row
<1>2. Given(ts, t, r, now) = new
  BY <1>0 DEF Given
<1> HIDE DEF row
<1>3. Len(new) = Len(ts) /\ new[t] = row /\ \A u \in 1..Len(ts) : u # t => new[u] = ts[u]
  BY <1>0
<1> HIDE DEF new
<1> QED BY <1>1, <1>2, <1>3

\* A task that waits is given to a robot that has nothing to do: it has the
\* task, and no other has.
LEMMA CarriesAssigned ==
  ASSUME NEW ts, RowsOK(ts), NEW live, NEW t \in 1..Len(ts), ts[t].status = "pending",
         NEW r, r \notin live, NEW now \in Nat, \A u \in 1..Len(ts) : ts[u].assigned_at < now
  PROVE  \A u, q : Carries(Given(ts, t, r, now), live \cup {r}, u, q)
                     <=> Carries(ts, live, u, q) \/ (u = t /\ q = r)
<1> DEFINE new == Given(ts, t, r, now)
           live2 == live \cup {r}
<1>0. ts \in Seq(Row) /\ Len(ts) \in Nat /\ ts[t] \in Row
  BY DEF RowsOK
<1>1. /\ Len(new) = Len(ts) /\ \A u \in 1..Len(ts) : u # t => new[u] = ts[u]
      /\ new[t].status = "assigned" /\ new[t].robot = r /\ new[t].assigned_at = now
  BY GivenIs
<1> HIDE DEF new
<1>4. \A u, q : Has(new, u, q) <=> (u = t /\ q = r) \/ (u # t /\ Has(ts, u, q))
  BY <1>1 DEF Has
<1>5. \A q : ~Has(ts, t, q)
  BY DEF Has
<1>6. \A u \in 1..Len(ts) : u # t => new[u].assigned_at = ts[u].assigned_at
  BY <1>1
<1>7. ASSUME NEW q, q # r PROVE \A u : Current(new, u, q) <=> Current(ts, u, q)
  <2>1. \A u : Has(new, u, q) <=> Has(ts, u, q)
    BY <1>4, <1>5, <1>7
  <2>2. \A u : Has(ts, u, q) => new[u].assigned_at = ts[u].assigned_at
    BY <1>5, <1>6 DEF Has
  <2> QED BY <2>1, <2>2, CurrentKept
<1>8. ASSUME NEW u PROVE Current(new, u, r) <=> u = t
  <2>1. ASSUME NEW v \in 1..Len(new), v # t PROVE new[v].assigned_at < new[t].assigned_at
    BY <1>1, <1>6, <2>1
  <2>2. Current(new, t, r)
    BY <1>4, <2>1 DEF Current
  <2>3. ASSUME Current(new, u, r), u # t PROVE FALSE
    <3>1. u \in 1..Len(ts) /\ t \in 1..Len(new) /\ Has(new, t, r)
      BY <1>1, <1>4, <2>3 DEF Current, Has
    <3>2. new[t].assigned_at < new[u].assigned_at
      BY <2>3, <3>1 DEF Current
    <3>3. new[t].assigned_at = now /\ new[u].assigned_at = ts[u].assigned_at /\ ts[u].assigned_at < now
      BY <1>1, <1>6, <2>3, <3>1
    <3>4. ts[u] \in Row
      BY <1>0, <3>1
    <3>5. ts[u].assigned_at \in Nat
      BY <3>4 DEF Row
    <3> QED BY <3>2, <3>3, <3>5
  <2> QED BY <2>2, <2>3
<1>9. \A u, q : Carries(new, live2, u, q) <=> Carries(ts, live, u, q) \/ (u = t /\ q = r)
  <2> SUFFICES ASSUME NEW u, NEW q
               PROVE  Carries(new, live2, u, q) <=> Carries(ts, live, u, q) \/ (u = t /\ q = r)
    OBVIOUS
  <2>1. CASE q = r
    BY <1>8, <2>1 DEF Carries
  <2>2. CASE q # r
    BY <1>7, <2>2 DEF Carries
  <2> QED BY <2>1, <2>2
<1> QED BY <1>9 DEF new, live2

LEMMA MapIs ==
  ASSUME NEW ts, NEW live, NEW rs, NEW n
  PROVE  \A t \in 1..Len(ts) : Map(ts, live, rs, n)[t] = Where(ts, live, rs, n, t)
  BY DEF Map

LEMMA MapKept ==
  ASSUME NEW ts, NEW live, NEW rs, NEW n, NEW live2, NEW rs2, NEW n2,
         \A t \in 1..Len(ts) : Where(ts, live2, rs2, n2, t) = Where(ts, live, rs, n, t)
  PROVE  Map(ts, live2, rs2, n2) = Map(ts, live, rs, n)
  BY DEF Map

\* A pallet at the inbound gate may be forgotten.
LEMMA LedgerForgets ==
  ASSUME NEW ts, NEW sh, NEW fl, NEW wh, NEW coming, Ledger(ts, sh, fl, wh, coming), NEW coming2, coming2 => coming
  PROVE  Ledger(ts, sh, fl, wh, coming2)
<1>1. Books(ts, sh, wh, coming2)
  BY DEF Ledger, Books
<1>2. Counted(ts, sh, fl, wh, coming2)
  BY DEF Ledger, Counted
<1> QED BY <1>1, <1>2 DEF Ledger

\* A handler that moves nothing.
LEMMA NothingMoves ==
  ASSUME LifeInv, StockInv, UNCHANGED <<tasks, shelves, floor>>,
         \A r \in Robot : /\ robots'[r].pc = robots[r].pc /\ robots'[r].queue = robots[r].queue
                          /\ robots'[r].source = robots[r].source /\ robots'[r].target = robots[r].target
                          /\ robots'[r].loaded = robots[r].loaded,
         net'["report"] = net["report"], Coming(net') => Coming(net),
         \A g \in Gate : Emptying(net', g) => Emptying(net, g),
         \A t \in Ids : tasks[t].status = "assigned" /\ ~Carries(tasks, Live, t, tasks[t].robot) =>
                          (Emptying(net', tasks[t].target) <=> Emptying(net, tasks[t].target)),
         \A t \in Ids : tasks[t].type = "outbound" =>
           /\ orders[tasks[t].order] = "awaiting_pickup" => orders'[tasks[t].order] = "awaiting_pickup"
           /\ tasks[t].order \in Returns => tasks[t].order \in Items(net'["reclaim"])
  PROVE  StockInv'
<1> DEFINE live2 == LiveIn(robots', net')
<1>0. /\ Ledger(tasks, shelves, floor, Pallets, Coming(net))
      /\ Errands(tasks, Live, robots) /\ AtDoor(orders, tasks, Live, Returns) /\ Collected(orders, tasks, net)
      /\ Ids = 1..Len(tasks)
  BY StockIs, StateIs
<1>1. \A r : /\ Reports(net', r) <=> Reports(net, r)
             /\ Brought(net', r) <=> Brought(net, r)
  BY DEF Reports, Brought
<1>2. live2 = Live
  BY <1>1 DEF Live, LiveIn, Works
<1> HIDE DEF live2
<1>3. \A r \in Live : r \in Robot
  BY DEF Live, LiveIn
<1>4. Map(tasks, live2, robots', net') = Pallets
  <2>1. ASSUME NEW t \in 1..Len(tasks)
        PROVE  Where(tasks, live2, robots', net', t) = Where(tasks, Live, robots, net, t)
    <3> DEFINE r == tasks[t].robot
    <3>1. Carries(tasks, Live, t, r) => r \in Robot
      BY <1>3 DEF Carries
    <3> QED BY <1>0, <1>1, <1>2, <3>1, WhereKept
  <2> QED BY <2>1, MapKept DEF Pallets
<1>5. Ledger(tasks, shelves, floor, Map(tasks, live2, robots', net'), Coming(net'))
  BY <1>0, <1>4, LedgerForgets
<1>6. Errands(tasks, live2, robots')
  <2>1. \A r \in Robot : \A row : ErrandOK(robots[r], row) => ErrandOK(robots'[r], row)
    BY DEF ErrandOK
  <2> QED BY <1>0, <1>2, <1>3, <2>1 DEF Errands
<1>7. AtDoor(orders', tasks, live2, Items(net'["reclaim"]))
  BY <1>0, <1>2 DEF AtDoor
<1>8. Collected(orders', tasks, net')
  BY <1>0 DEF Collected
<1> QED BY <1>5, <1>6, <1>7, <1>8 DEF StockInv, Accounts, live2

\* A handler that only tells somebody something.
LEMMA OnlyTold ==
  ASSUME LifeInv, StockInv, UNCHANGED <<tasks, shelves, floor>>,
         \A r \in Robot : /\ robots'[r].pc = robots[r].pc /\ robots'[r].queue = robots[r].queue
                          /\ robots'[r].source = robots[r].source /\ robots'[r].target = robots[r].target
                          /\ robots'[r].loaded = robots[r].loaded,
         net'["report"] = net["report"], net'["detection"] = net["detection"],
         \A t \in Ids : tasks[t].type = "outbound" =>
           /\ orders[tasks[t].order] = "awaiting_pickup" => orders'[tasks[t].order] = "awaiting_pickup"
           /\ tasks[t].order \in Returns => tasks[t].order \in Items(net'["reclaim"])
  PROVE  StockInv'
<1>1. Coming(net') <=> Coming(net)
  BY DEF Coming
<1>2. \A g : Emptying(net', g) <=> Emptying(net, g)
  BY DEF Emptying
<1> QED BY <1>1, <1>2, NothingMoves

\* The books are about tasks that are open, whoever has them.
LEMMA LedgerAssigned ==
  ASSUME NEW ts, NEW sh, NEW fl, NEW wh, NEW coming, Ledger(ts, sh, fl, wh, coming), NEW ts2, Len(ts2) = Len(ts),
         \A t \in 1..Len(ts) :
           /\ ts2[t].type = ts[t].type /\ ts2[t].source = ts[t].source /\ ts2[t].target = ts[t].target
           /\ OpenRow(ts2[t]) <=> OpenRow(ts[t]),
         NEW wh2, \A t \in 1..Len(ts) : wh2[t] = wh[t]
  PROVE  Ledger(ts2, sh, fl, wh2, coming)
<1>1. \A t \in 1..Len(ts) : ShelfOf(ts2[t]) = ShelfOf(ts[t]) /\ DoorOf(ts2[t]) = DoorOf(ts[t])
  BY DEF ShelfOf, DoorOf
<1>2. Books(ts2, sh, wh2, coming)
  <2>1. ASSUME NEW t \in 1..Len(ts2)
        PROVE  /\ ts2[t].type = "reclaim" => ts2[t].source \in Gate
               /\ ts2[t].type = "inbound" => ts2[t].source = Inbound
               /\ ~OpenRow(ts2[t]) => wh2[t] = Nowhere
    BY DEF Ledger, Books
  <2>2. ASSUME NEW t \in 1..Len(ts2), OpenRow(ts2[t])
        PROVE  /\ sh[ShelfOf(ts2[t])].reserved_by = t
               /\ wh2[t] \in {ts2[t].source, ts2[t].target, Nowhere}
               /\ ts2[t].type = "outbound" => sh[ts2[t].source].inbound_at # 0
    BY <1>1, <2>2 DEF Ledger, Books
  <2>3. ASSUME NEW t \in 1..Len(ts2), NEW u \in 1..Len(ts2), OpenRow(ts2[t]), OpenRow(ts2[u]),
               DoorOf(ts2[t]) \in Gate, DoorOf(ts2[t]) = DoorOf(ts2[u])
        PROVE  t = u
    BY <1>1, <2>3 DEF Ledger, Books
  <2>4. /\ \A t, u \in 1..Len(ts2) : wh2[t] = Inbound /\ wh2[u] = Inbound => t = u
        /\ coming => \A t \in 1..Len(ts2) : wh2[t] # Inbound
    BY DEF Ledger, Books
  <2> QED BY <2>1, <2>2, <2>3, <2>4 DEF Books
<1>3. Counted(ts2, sh, fl, wh2, coming)
  <2>1. \A p : Holds(ts2, sh, wh2, p) <=> Holds(ts, sh, wh, p)
    BY DEF Holds
  <2> QED BY <2>1 DEF Ledger, Counted
<1> QED BY <1>2, <1>3 DEF Ledger

\* The robot of a task has its places.
LEMMA ErrandIs ==
  ASSUME LifeInv, StockInv, NEW r \in Live
  PROVE  \E t \in Ids : /\ Current(tasks, t, r) /\ ErrandOK(robots[r], tasks[t]) /\ Carries(tasks, Live, t, r)
                        /\ tasks[t] \in Row /\ RowOK(tasks[t]) /\ OpenRow(tasks[t]) /\ tasks[t].robot = r
                        /\ \A u : Carries(tasks, Live, u, r) => u = t
<1>0. /\ RowsOK(tasks) /\ Ids = 1..Len(tasks) /\ Board(orders, tasks, Live, Returns, New)
      /\ Errands(tasks, Live, robots)
  BY StateIs, StockIs
<1>1. PICK t \in 1..Len(tasks) : Current(tasks, t, r)
  BY <1>0 DEF Board, Loads
<1>2. ErrandOK(robots[r], tasks[t])
  BY <1>0, <1>1 DEF Errands
<1>3. tasks[t].robot = r /\ tasks[t].status = "assigned" /\ tasks[t] \in Row /\ RowOK(tasks[t])
  BY <1>0, <1>1 DEF Current, Has, RowsOK
<1>4. \A u : Carries(tasks, Live, u, r) => u = t
  BY <1>0, <1>1, CurrentIsOne DEF Carries
<1> QED BY <1>0, <1>1, <1>2, <1>3, <1>4 DEF Carries, OpenRow

\* Every robot with something to do has a task.
LEMMA AllHaveTasks ==
  ASSUME LifeInv
  PROVE  \A r \in Live : \E u : Current(tasks, u, r)
  BY StateIs DEF Board, Loads

-----------------------------------------------------------------------------
(* Orders, messages and clocks move no pallet.                             *)

LEMMA Elsewhere ==
  ASSUME NEW n \in Nets, NEW c, NEW d \in Channel, d # c
  PROVE  /\ \A m : Send(n, c, m)[d] = n[d]
         /\ [n EXCEPT ![c] = Tail(@)][d] = n[d]
  BY DEF Send, Nets

LEMMA TakenElsewhere ==
  ASSUME LifeInv, NEW c, NEW d \in Channel, d # c
  PROVE  /\ Taken(c)[d] = net[d]
         /\ \A m : Send(net, c, m)[d] = net[d]
  BY StateIs, Elsewhere DEF Taken

LEMMA OrderServerMoves ==
  ASSUME LifeInv, StockInv, NEW o \in Order, CreateOrder(o) \/ CancelOrder(o) \/ OperatorCancels(o)
  PROVE  StockInv'
<1>0. orders \in [Order -> OrderStatus] /\ Ids = 1..Len(tasks) /\ RowsOK(tasks)
  BY StateIs
<1>1. PICK m, s : /\ net' = Send(net, "notify", m) /\ orders' = [orders EXCEPT ![o] = s]
                  /\ orders[o] # "awaiting_pickup"
  <2>1. CASE CreateOrder(o)
    BY <2>1 DEF CreateOrder
  <2>2. CASE CancelOrder(o) \/ OperatorCancels(o)
    BY <2>2 DEF CancelOrder, OperatorCancels, Cancelled
  <2> QED BY <2>1, <2>2
<1>2. UNCHANGED <<tasks, shelves, floor, robots>>
  BY DEF CreateOrder, CancelOrder, OperatorCancels, Cancelled, world
<1>3. net'["report"] = net["report"] /\ net'["detection"] = net["detection"] /\ net'["reclaim"] = net["reclaim"]
  <2>1. {"report", "detection", "reclaim"} \subseteq Channel
    BY DEF Channel
  <2> QED BY <1>1, <2>1, TakenElsewhere
<1>4. \A p \in Order : orders[p] = "awaiting_pickup" => orders'[p] = "awaiting_pickup"
  BY <1>0, <1>1
<1>5. \A t \in Ids : tasks[t].type = "outbound" => tasks[t].order \in Order
  BY <1>0 DEF RowsOK, RowOK
<1> QED BY <1>2, <1>3, <1>4, <1>5, OnlyTold DEF Returns

\* A message of the order's channel is taken, and at most the fleet told.
LEMMA NotifyMovesNothing ==
  ASSUME LifeInv, StockInv, UNCHANGED <<orders, tasks, shelves, floor, robots>>,
         \/ net' = Taken("notify")
         \/ \E m : net' = Send(Taken("notify"), "cancel", m)
  PROVE  StockInv'
<1>1. {"report", "detection", "reclaim"} \subseteq Channel
  BY DEF Channel
<1>2. \A d \in {"report", "detection", "reclaim"} : net'[d] = net[d]
  <2> SUFFICES ASSUME NEW d \in {"report", "detection", "reclaim"} PROVE net'[d] = net[d]
    OBVIOUS
  <2>0. Taken("notify")[d] = net[d] /\ net \in Nets
    BY <1>1, TakenElsewhere, StateIs
  <2>1. CASE net' = Taken("notify")
    BY <2>0, <2>1
  <2>2. ASSUME NEW m, net' = Send(Taken("notify"), "cancel", m) PROVE net'[d] = net[d]
    <3>1. DOMAIN Taken("notify") = Channel
      BY <2>0 DEF Taken, Nets
    <3>2. Send(Taken("notify"), "cancel", m)[d] = Taken("notify")[d]
      BY <1>1, <3>1 DEF Send
    <3> QED BY <2>0, <2>2, <3>2
  <2> QED BY <2>1, <2>2
<1> QED BY <1>2, OnlyTold DEF Returns

LEMMA ArmPickupTimerMoves ==
  ASSUME LifeInv, StockInv, NEW o \in Order, ArmPickupTimer(o)
  PROVE  StockInv'
  BY NotifyMovesNothing DEF ArmPickupTimer, database, world

LEMMA TaskRestartMoves ==
  ASSUME LifeInv, StockInv, TaskRestart
  PROVE  StockInv'
<1>1. UNCHANGED <<orders, tasks, shelves, net, robots, floor>>
  BY DEF TaskRestart, database, world
<1> QED BY <1>1, OnlyTold DEF Returns

LEMMA OnCancelMissionMoves ==
  ASSUME LifeInv, StockInv, NEW r \in Robot, OnCancelMission(r)
  PROVE  StockInv'
<1>0. World
  BY DEF LifeInv, Types
<1>1. PICK o \in Order : robots' = [robots EXCEPT ![r].cancel = o]
  BY DEF OnCancelMission
<1>2. UNCHANGED <<orders, tasks, shelves, floor>> /\ net' = Taken("cancel")
  BY DEF OnCancelMission, database
<1>3. {"report", "detection", "reclaim"} \subseteq Channel
  BY DEF Channel
<1>4. \A d \in {"report", "detection", "reclaim"} : net'[d] = net[d]
  BY <1>2, <1>3, TakenElsewhere
<1>5. PICK new \in RobotState :
        /\ robots' = [robots EXCEPT ![r] = new] /\ new.pc = robots[r].pc
        /\ new.loaded = robots[r].loaded /\ new.queue = robots[r].queue
        /\ new.cancel = o /\ new.oid = robots[r].oid
        /\ new.source = robots[r].source /\ new.target = robots[r].target
  <2>1. \E new \in RobotState :
          /\ robots' = [robots EXCEPT ![r] = new] /\ new.pc = robots[r].pc
          /\ new.loaded = robots[r].loaded /\ new.queue = robots[r].queue
          /\ new.cancel = o /\ new.oid = robots[r].oid
          /\ new.source = robots[r].source /\ new.target = robots[r].target
    BY <1>0, <1>1, StoppedIs
  <2> QED BY <2>1, Zenon
<1>6. \A q \in Robot : /\ robots'[q].pc = robots[q].pc /\ robots'[q].queue = robots[q].queue
                       /\ robots'[q].source = robots[q].source /\ robots'[q].target = robots[q].target
                       /\ robots'[q].loaded = robots[q].loaded
  <2>1. robots'[r] = new /\ \A q \in Robot : q # r => robots'[q] = robots[q]
    BY <1>0, <1>5 DEF World
  <2> QED BY <1>5, <2>1
<1> QED BY <1>2, <1>4, <1>6, OnlyTold DEF Returns

-----------------------------------------------------------------------------
(* What becomes of the pallet of a task.                                   *)

\* No detector has anything to say.
LEMMA NoDetection ==
  ASSUME NEW n, n["detection"] = <<>>
  PROVE  ~Coming(n) /\ \A g : ~Emptying(n, g)
  BY DEF Coming, Emptying

LEMMA NoReport ==
  ASSUME NEW n, n["report"] = <<>>
  PROVE  \A r : ~Brought(n, r) /\ ~Reports(n, r)
  BY DEF Brought, Reports

\* A message of another channel is the only one.
LEMMA OnlyOne ==
  ASSUME LifeInv, NEW c \in Single, NEW m, Received(c, m)
  PROVE  \A d \in Single : d # c => net[d] = <<>>
<1>1. Only(net, c, m)
  BY ReceivedIs
<1> QED BY <1>1 DEF Only

\* A task of an order at a gate is in no robot's hands: its pallet is there,
\* unless it has just been taken away.
LEMMA AtGateIs ==
  ASSUME LifeInv, StockInv, NEW t \in Ids, tasks[t].type = "outbound",
         orders[tasks[t].order] = "awaiting_pickup" \/ tasks[t].order \in Returns
  PROVE  /\ tasks[t].status = "assigned" /\ OpenRow(tasks[t]) /\ t \notin New
         /\ \A r : ~Carries(tasks, Live, t, r)
         /\ \A r \in Live : ~Current(tasks, t, r)
         /\ Pallets[t] = IF Emptying(net, tasks[t].target) THEN Nowhere ELSE tasks[t].target
<1>0. Ids = 1..Len(tasks) /\ Board(orders, tasks, Live, Returns, New)
  BY StateIs
<1>1. t \notin New /\ \A r \in Live : ~Current(tasks, t, r)
  BY AtGateIsNoRobots
<1>2. tasks[t].status = "assigned"
  <2>1. CASE orders[tasks[t].order] = "awaiting_pickup"
    BY <1>0, <2>1 DEF Board, Stage, StageOf
  <2>2. CASE tasks[t].order \in Returns
    BY <1>0, <2>2 DEF Board, Reclaims, IsOutbound
  <2> QED BY <2>1, <2>2
<1>3. \A r : ~Carries(tasks, Live, t, r)
  BY <1>1 DEF Carries
<1>4. Pallets[t] = IF Emptying(net, tasks[t].target) THEN Nowhere ELSE tasks[t].target
  BY <1>2, <1>3, StockIs, WhereIs
<1> QED BY <1>1, <1>2, <1>3, <1>4 DEF OpenRow

\* A task is closed, and its shelf unlocked with what is in it.
LEMMA SettledMoves ==
  ASSUME OrdersAssumption, LifeInv, StockInv, NEW t \in Ids, OpenRow(tasks[t]), NEW status \in {"done", "cancelled"},
         tasks' = Close(tasks, t, status), UNCHANGED <<robots, floor>>,
         NEW l \in Location, l.reserved_by = NoTask, shelves' = [shelves EXCEPT ![ShelfOf(tasks[t])] = l],
         Pallets[t] \in {ShelfOf(tasks[t]), Nowhere}, Pallets[t] = ShelfOf(tasks[t]) <=> l.inbound_at # 0,
         NEW live2 \in SUBSET Live, live2 = LiveIn(robots, net'),
         \A r \in live2 : ~Current(tasks, t, r), \A r \in Live \ live2 : Current(tasks, t, r),
         Coming(net') => Coming(net), \A g \in Gate : Emptying(net', g) => Emptying(net, g),
         \A u \in Ids : \A r : u # t /\ Carries(tasks, Live, u, r) => (Brought(net', r) <=> Brought(net, r)),
         \A u \in Ids : u # t /\ tasks[u].status = "assigned" /\ ~Carries(tasks, Live, u, tasks[u].robot) =>
                          (Emptying(net', tasks[u].target) <=> Emptying(net, tasks[u].target)),
         \A u \in Ids : u # t /\ tasks[u].type = "outbound" =>
           /\ orders[tasks[u].order] = "awaiting_pickup" => orders'[tasks[u].order] = "awaiting_pickup"
           /\ tasks[u].order \in Returns => tasks[u].order \in Items(net'["reclaim"])
  PROVE  StockInv'
<1> DEFINE ts2 == Close(tasks, t, status)
           s == ShelfOf(tasks[t])
           sh2 == [shelves EXCEPT ![s] = l]
           wh2 == Map(ts2, live2, robots, net')
<1>0. /\ Ledger(tasks, shelves, floor, Pallets, Coming(net)) /\ floor \in [Place -> Nat]
      /\ Errands(tasks, Live, robots) /\ AtDoor(orders, tasks, Live, Returns) /\ Collected(orders, tasks, net)
      /\ Ids = 1..Len(tasks) /\ RowsOK(tasks) /\ TablesOK(tasks, shelves)
      /\ \A u \in Ids : Pallets[u] = Where(tasks, Live, robots, net, u)
  BY StockIs, StateIs
<1>1. /\ Len(ts2) = Len(tasks) /\ \A u \in 1..Len(tasks) : u # t => ts2[u] = tasks[u]
      /\ ~OpenRow(ts2[t])
  BY <1>0, ClosedRow
<1>2. \A u, r : u # t => (Carries(ts2, live2, u, r) <=> Carries(tasks, Live, u, r))
  BY <1>0, AllHaveTasks, CarriesClosed
<1> HIDE DEF ts2
<1>3. wh2[t] = Nowhere
  <2>1. Where(ts2, live2, robots, net', t) = Nowhere
    BY <1>1, WhereIs
  <2>2. t \in 1..Len(ts2)
    BY <1>0, <1>1
  <2> QED BY <2>1, <2>2, MapIs
<1>4. ASSUME NEW u \in 1..Len(tasks), u # t PROVE wh2[u] = Pallets[u]
  <2> DEFINE r == tasks[u].robot
  <2>1. Where(ts2, live2, robots, net', u) = Where(tasks, Live, robots, net, u)
    <3>1. ts2[u] = tasks[u] /\ u \in Ids
      BY <1>0, <1>1, <1>4
    <3>2. Carries(ts2, live2, u, r) <=> Carries(tasks, Live, u, r)
      BY <1>2, <1>4
    <3>3. Carries(tasks, Live, u, r) => (Brought(net', r) <=> Brought(net, r))
      BY <1>4, <3>1
    <3>4. tasks[u].status = "assigned" /\ ~Carries(tasks, Live, u, r) =>
            (Emptying(net', tasks[u].target) <=> Emptying(net, tasks[u].target))
      BY <1>4, <3>1
    <3> QED BY <3>1, <3>2, <3>3, <3>4, WhereKept
  <2> QED BY <1>0, <1>1, <2>1, MapIs
<1> HIDE DEF wh2
<1>5. Ledger(ts2, sh2, floor, wh2, Coming(net'))
  <2>1. t \in 1..Len(tasks) /\ s = ShelfOf(tasks[t]) /\ \A u \in 1..Len(tasks) : u # t => wh2[u] = Pallets[u]
    BY <1>0, <1>4
  <2> HIDE DEF s
  <2>2. Ledger(ts2, sh2, floor, wh2, Coming(net))
    BY <1>0, <1>3, <2>1, LedgerSettled DEF ts2, s
  <2> QED BY <2>2, LedgerForgets
<1>6. Errands(ts2, live2, robots)
  <2> SUFFICES ASSUME NEW r \in live2, NEW u \in 1..Len(ts2), Current(ts2, u, r) PROVE ErrandOK(robots[r], ts2[u])
    BY DEF Errands
  <2>1. u # t
    BY <1>1 DEF Current, Has, OpenRow
  <2>2. Carries(tasks, Live, u, r)
    BY <1>2, <2>1 DEF Carries
  <2> QED BY <1>0, <1>1, <2>1, <2>2 DEF Errands, Carries
<1>7. AtDoor(orders', ts2, live2, Items(net'["reclaim"]))
  <2> SUFFICES ASSUME NEW u \in 1..Len(ts2), ts2[u].status = "assigned", ~Carries(ts2, live2, u, ts2[u].robot)
               PROVE  ts2[u].type = "outbound"
                      /\ (orders'[ts2[u].order] = "awaiting_pickup" \/ ts2[u].order \in Items(net'["reclaim"]))
    BY DEF AtDoor
  <2>1. u # t /\ ts2[u] = tasks[u]
    BY <1>1 DEF OpenRow
  <2>2. ~Carries(tasks, Live, u, tasks[u].robot)
    BY <1>2, <2>1
  <2> QED BY <1>0, <1>1, <2>1, <2>2 DEF AtDoor
<1>8. Collected(orders', ts2, net')
  BY <1>0, <1>1 DEF Collected
<1>9. /\ tasks' = ts2 /\ shelves' = sh2 /\ robots' = robots /\ floor' = floor
      /\ LiveIn(robots', net') = live2
  BY DEF ts2
<1> QED BY <1>5, <1>6, <1>7, <1>8, <1>9 DEF StockInv, Accounts, wh2

\* A pallet at a gate is to be brought back.
LEMMA RehomedMoves ==
  ASSUME OrdersAssumption, LifeInv, StockInv, NEW t \in Ids, tasks[t].type = "outbound",
         orders[tasks[t].order] = "awaiting_pickup" \/ tasks[t].order \in Returns,
         ~Emptying(net, tasks[t].target), NEW o \in Order,
         tasks' = Append(Close(tasks, t, "cancelled"), Task("reclaim", o, tasks[t].target, tasks[t].source)),
         shelves' = Reserve(tasks[t].source, Len(tasks) + 1), UNCHANGED <<robots, floor>>,
         net'["report"] = net["report"], net'["detection"] = net["detection"],
         \A u \in Ids : u # t /\ tasks[u].type = "outbound" =>
           /\ orders[tasks[u].order] = "awaiting_pickup" => orders'[tasks[u].order] = "awaiting_pickup"
           /\ tasks[u].order \in Returns => tasks[u].order \in Items(net'["reclaim"])
  PROVE  StockInv'
<1> DEFINE mid == Close(tasks, t, "cancelled")
           row == Task("reclaim", o, tasks[t].target, tasks[t].source)
           ts2 == Append(mid, row)
           sh2 == [shelves EXCEPT ![tasks[t].source].reserved_by = Len(tasks) + 1]
           id == Len(tasks) + 1
           wh2 == Map(ts2, Live, robots, net')
<1>0. /\ Ledger(tasks, shelves, floor, Pallets, Coming(net)) /\ floor \in [Place -> Nat]
      /\ Errands(tasks, Live, robots) /\ AtDoor(orders, tasks, Live, Returns) /\ Collected(orders, tasks, net)
      /\ Ids = 1..Len(tasks) /\ RowsOK(tasks) /\ TablesOK(tasks, shelves)
      /\ \A u \in Ids : Pallets[u] = Where(tasks, Live, robots, net, u)
  BY StockIs, StateIs
<1>1. /\ OpenRow(tasks[t]) /\ (\A r \in Live : ~Current(tasks, t, r))
      /\ Pallets[t] = tasks[t].target
  BY AtGateIs
<1>2. /\ row \in Row /\ row.type = "reclaim" /\ row.status = "pending"
      /\ row.source = tasks[t].target /\ row.target = tasks[t].source
  <2>1. tasks[t] \in Row
    BY <1>0 DEF RowsOK
  <2>2. tasks[t].source \in Place /\ tasks[t].target \in Place
    BY <2>1 DEF Row
  <2> QED BY <2>2 DEF Task, Row
<1> HIDE DEF row
<1>3. /\ Len(mid) = Len(tasks) /\ \A u \in 1..Len(tasks) : u # t => mid[u] = tasks[u]
      /\ ~OpenRow(mid[t])
  BY <1>0, ClosedRow
<1>4. RowsOK(mid)
  BY <1>0, ClosedRows
<1>5. \A u, r : u # t => (Carries(mid, Live, u, r) <=> Carries(tasks, Live, u, r))
  <2>1. Live \in SUBSET Live /\ \A r \in Live \ Live : Current(tasks, t, r)
    OBVIOUS
  <2> QED BY <1>0, <1>1, <2>1, AllHaveTasks, CarriesClosed
<1> HIDE DEF mid
<1>6. /\ Len(ts2) = id /\ ts2[id] = row /\ ts2[t] = mid[t] /\ id # t
      /\ \A u \in 1..Len(tasks) : u # t => ts2[u] = tasks[u]
      /\ \A u \in 1..Len(ts2) : u = t \/ (u \in 1..Len(tasks) /\ u # t) \/ u = id
      /\ id \in 1..Len(ts2) /\ 1..Len(tasks) \subseteq 1..Len(ts2)
  <2>1. /\ Len(ts2) = Len(mid) + 1 /\ ts2[Len(mid) + 1] = row /\ \A u \in 1..Len(mid) : ts2[u] = mid[u]
        /\ Len(mid) \in Nat /\ \A u \in 1..Len(ts2) : u \in 1..Len(mid) \/ u = Len(mid) + 1
    BY <1>2, <1>4, AddedRow
  <2>2. Len(mid) = Len(tasks) /\ Len(tasks) \in Nat /\ t \in 1..Len(tasks)
    BY <1>0, <1>3, <2>1
  <2> HIDE DEF ts2
  <2>3. Len(ts2) = id /\ ts2[id] = row /\ ts2[t] = mid[t]
    BY <2>1, <2>2
  <2>4. \A u \in 1..Len(tasks) : u # t => ts2[u] = tasks[u]
    BY <1>3, <2>1, <2>2
  <2>5. \A u \in 1..Len(ts2) : u = t \/ (u \in 1..Len(tasks) /\ u # t) \/ u = id
    BY <2>1, <2>2
  <2>6. id \in 1..id /\ 1..Len(tasks) \subseteq 1..id /\ id # t
    BY <2>2
  <2> QED BY <2>3, <2>4, <2>5, <2>6
<1>7. \A u, r : u # t => (Carries(ts2, Live, u, r) <=> Carries(tasks, Live, u, r))
  BY <1>2, <1>4, <1>5, CarriesAppended
<1> HIDE DEF ts2, id
<1>8. LiveIn(robots, net') = Live
  BY DEF LiveIn, Live, Reports
<1>9. /\ Coming(net') <=> Coming(net)
      /\ \A g : Emptying(net', g) <=> Emptying(net, g)
      /\ \A r : Brought(net', r) <=> Brought(net, r)
  BY DEF Coming, Emptying, Brought
<1>10. /\ wh2[t] = Nowhere /\ wh2[id] = tasks[t].target
       /\ \A u \in 1..Len(tasks) : u # t => wh2[u] = Pallets[u]
  <2>0. t \in 1..Len(ts2) /\ id \in 1..Len(ts2)
    BY <1>0, <1>6
  <2>1. wh2[t] = Nowhere
    <3>1. Where(ts2, Live, robots, net', t) = Nowhere
      BY <1>3, <1>6, WhereIs, SMTT(60)
    <3> QED BY <2>0, <3>1, MapIs
  <2>2. wh2[id] = tasks[t].target
    <3>1. Where(ts2, Live, robots, net', id) = tasks[t].target
      BY <1>2, <1>6, WhereIs
    <3> QED BY <2>0, <3>1, MapIs
  <2>3. ASSUME NEW u \in 1..Len(tasks), u # t PROVE wh2[u] = Pallets[u]
    <3>1. Where(ts2, Live, robots, net', u) = Where(tasks, Live, robots, net, u)
      BY <1>6, <1>7, <1>9, <2>3, WhereKept
    <3> QED BY <1>0, <1>6, <2>3, <3>1, MapIs
  <2> QED BY <2>1, <2>2, <2>3
<1> HIDE DEF wh2, sh2
<1>11. Ledger(ts2, sh2, floor, wh2, Coming(net'))
  <2>1. t \in 1..Len(tasks) /\ wh2[id] = Pallets[t] /\ (Coming(net') <=> Coming(net))
    BY <1>0, <1>1, <1>9, <1>10
  <2>2. Ledger(ts2, sh2, floor, wh2, Coming(net))
    BY <1>0, <1>1, <1>2, <1>10, <2>1, LedgerRehomed, ZenonT(60) DEF ts2, mid, sh2, id
  <2> QED BY <2>1, <2>2, LedgerForgets
<1>12. Errands(ts2, Live, robots)
  <2> SUFFICES ASSUME NEW r \in Live, NEW u \in 1..Len(ts2), Current(ts2, u, r) PROVE ErrandOK(robots[r], ts2[u])
    BY DEF Errands
  <2>1. u # t /\ u # id
    BY <1>2, <1>3, <1>6 DEF Current, Has, OpenRow
  <2>2. Carries(tasks, Live, u, r)
    BY <1>7, <2>1 DEF Carries
  <2> QED BY <1>0, <1>6, <2>1, <2>2 DEF Errands, Carries
<1>13. AtDoor(orders', ts2, Live, Items(net'["reclaim"]))
  <2> SUFFICES ASSUME NEW u \in 1..Len(ts2), ts2[u].status = "assigned", ~Carries(ts2, Live, u, ts2[u].robot)
               PROVE  ts2[u].type = "outbound"
                      /\ (orders'[ts2[u].order] = "awaiting_pickup" \/ ts2[u].order \in Items(net'["reclaim"]))
    BY DEF AtDoor
  <2>1. u # t /\ u # id
    BY <1>2, <1>3, <1>6 DEF OpenRow
  <2>2. u \in 1..Len(tasks) /\ ts2[u] = tasks[u]
    BY <1>6, <2>1
  <2>3. ~Carries(tasks, Live, u, tasks[u].robot)
    BY <1>7, <2>1, <2>2
  <2> QED BY <1>0, <2>1, <2>2, <2>3 DEF AtDoor
<1>14. Collected(orders', ts2, net')
  <2> SUFFICES ASSUME NEW g \in Gate, Emptying(net', g), NEW u \in 1..Len(ts2), ts2[u].type = "outbound",
                      OpenRow(ts2[u]), ts2[u].target = g
               PROVE  orders'[ts2[u].order] = "awaiting_pickup"
    BY DEF Collected
  <2>1. u # t /\ u # id
    BY <1>2, <1>3, <1>6
  <2>2. u \in 1..Len(tasks) /\ ts2[u] = tasks[u]
    BY <1>6, <2>1
  <2> QED BY <1>0, <1>9, <2>1, <2>2 DEF Collected
<1>15. /\ tasks' = ts2 /\ shelves' = sh2 /\ robots' = robots /\ floor' = floor
       /\ LiveIn(robots', net') = Live
  BY <1>8 DEF ts2, mid, row, sh2, Reserve
<1> QED BY <1>11, <1>12, <1>13, <1>14, <1>15 DEF StockInv, Accounts, wh2, Returns

-----------------------------------------------------------------------------
(* The task manager.                                                       *)

\* What the ledger says of an outbound task that is open.
LEMMA OutboundIs ==
  ASSUME LifeInv, StockInv, NEW t \in Ids, tasks[t].type = "outbound", OpenRow(tasks[t])
  PROVE  /\ tasks[t] \in Row /\ RowOK(tasks[t])
         /\ tasks[t].source \in Shelf /\ tasks[t].target \in Gate /\ tasks[t].order \in Order
         /\ ShelfOf(tasks[t]) = tasks[t].source /\ DoorOf(tasks[t]) = tasks[t].target
         /\ shelves[tasks[t].source].inbound_at # 0
<1>1. /\ Ledger(tasks, shelves, floor, Pallets, Coming(net)) /\ Ids = 1..Len(tasks) /\ RowsOK(tasks)
  BY StockIs, StateIs
<1>2. tasks[t] \in Row /\ RowOK(tasks[t])
  BY <1>1 DEF RowsOK
<1>3. shelves[tasks[t].source].inbound_at # 0
  BY <1>1 DEF Ledger, Books
<1> QED BY <1>2, <1>3 DEF RowOK, ShelfOf, DoorOf

LEMMA OnOrderCancelledMoves ==
  ASSUME OrdersAssumption, LifeInv, StockInv, NEW o \in Order, OnOrderCancelled(o)
  PROVE  StockInv'
<1> DEFINE t == OutboundTask(o)
           s == tasks[t].source
           l == [shelves[s] EXCEPT !.reserved_by = NoTask]
<1>0. /\ TablesOK(tasks, shelves) /\ Received("notify", <<"order_cancelled", o>>)
      /\ UNCHANGED <<robots, floor>>
  BY StateIs DEF OnOrderCancelled, world
<1>1. CASE net' = Taken("notify") /\ UNCHANGED database
  BY <1>0, <1>1, NotifyMovesNothing DEF database
<1>2. CASE /\ net' = Send(Taken("notify"), "cancel", [robot |-> tasks[t].robot, order |-> o])
           /\ UNCHANGED database
  BY <1>0, <1>2, NotifyMovesNothing DEF database
<1>3. CASE /\ t # NoTask /\ tasks[t].status = "pending" /\ tasks' = Close(tasks, t, "cancelled")
           /\ shelves' = Unreserve(tasks[t].source) /\ net' = Taken("notify") /\ UNCHANGED orders
  <2>1. t \in Ids /\ tasks[t].type = "outbound" /\ tasks[t].order = o /\ OpenRow(tasks[t])
    BY <1>0, <1>3, OutboundTaskIs DEF OpenRow
  <2>2. /\ s \in Shelf /\ ShelfOf(tasks[t]) = s /\ shelves[s].inbound_at # 0
    BY <2>1, OutboundIs
  <2>3. Pallets[t] = s
    BY <1>3, <2>1, StockIs, WhereIs
  <2>4. l \in Location /\ l.reserved_by = NoTask /\ shelves' = [shelves EXCEPT ![s] = l]
    BY <1>0, <1>3, <2>2, UnreservedIs
  <2>5. l.inbound_at # 0
    <3>1. shelves[s] \in [inbound_at : Nat, reserved_by : Nat]
      BY <1>0, <2>2 DEF TablesOK
    <3> QED BY <2>2, <3>1
  <2>6. \A d \in {"report", "detection", "reclaim"} : net'[d] = net[d]
    <3>1. {"report", "detection", "reclaim"} \subseteq Channel
      BY DEF Channel
    <3> QED BY <1>3, <3>1, TakenElsewhere
  <2>7. LiveIn(robots', net') = Live
    BY <1>0, <2>6 DEF LiveIn, Live, Reports
  <2>8. \A r : ~Current(tasks, t, r)
    BY <1>3 DEF Current, Has
  <2>9. /\ Coming(net') => Coming(net)
        /\ \A g : Emptying(net', g) <=> Emptying(net, g)
        /\ \A r : Brought(net', r) <=> Brought(net, r)
    BY <2>6 DEF Coming, Emptying, Brought
  <2> HIDE DEF t, s, l
  <2>10. /\ tasks' = Close(tasks, t, "cancelled") /\ shelves' = [shelves EXCEPT ![ShelfOf(tasks[t])] = l]
         /\ Pallets[t] \in {ShelfOf(tasks[t]), Nowhere} /\ (Pallets[t] = ShelfOf(tasks[t]) <=> l.inbound_at # 0)
    BY <1>3, <2>2, <2>3, <2>4, <2>5
  <2>11. Live \in SUBSET Live /\ "cancelled" \in {"done", "cancelled"}
    OBVIOUS
  <2> QED BY <1>0, <1>3, <2>1, <2>4, <2>6, <2>7, <2>8, <2>9, <2>10, <2>11, SettledMoves DEF Returns
<1> QED BY <1>1, <1>2, <1>3 DEF OnOrderCancelled

LEMMA OnReclaimRequestMoves ==
  ASSUME OrdersAssumption, LifeInv, StockInv, NEW o \in Order, OnReclaimRequest(o)
  PROVE  StockInv'
<1> DEFINE t == OutboundTask(o)
           n2 == Taken("reclaim")
<1>0. /\ TablesOK(tasks, shelves) /\ Received("reclaim", o) /\ UNCHANGED <<orders, robots, floor>>
      /\ NetOK(net) /\ net \in Nets /\ Board(orders, tasks, Live, Returns, New) /\ Ids = 1..Len(tasks)
  BY StateIs DEF OnReclaimRequest, world
<1>1. o \in Returns /\ Items(n2["reclaim"]) = Returns \ {o}
  <2>1. net["reclaim"] \in Seq(Message) /\ net["reclaim"] # <<>> /\ o = Head(net["reclaim"])
    BY <1>0, ChannelsAre DEF Nets, Received
  <2>2. n2["reclaim"] = Tail(net["reclaim"])
    BY <1>0, ChannelsAre DEF Taken, Nets
  <2> QED BY <1>0, <2>1, <2>2, ItemsTail DEF NetOK, Returns
<1>2. \A d \in {"report", "detection"} : n2[d] = net[d]
  <2>1. {"report", "detection"} \subseteq Channel
    BY DEF Channel
  <2> QED BY <2>1, TakenElsewhere
<1>3. CASE t = NoTask
  <2>1. net' = n2 /\ UNCHANGED <<tasks, shelves>>
    BY <1>3 DEF OnReclaimRequest
  <2>2. \A u \in Ids : tasks[u].type = "outbound" => tasks[u].order # o
    BY <1>3, OutboundTaskIsIt
  <2> HIDE DEF n2
  <2> QED BY <1>0, <1>1, <1>2, <2>1, <2>2, OnlyTold
<1>4. CASE t # NoTask
  <2>1. /\ t \in Ids /\ tasks[t].type = "outbound" /\ tasks[t].order = o
        /\ tasks[t].target \in Gate
    BY <1>0, <1>4, OutboundTaskIs
  <2>2. Reclaim(o, n2)
    BY <1>4 DEF OnReclaimRequest
  <2>3. /\ tasks' = Append(Close(tasks, t, "cancelled"), Task("reclaim", o, tasks[t].target, tasks[t].source))
        /\ shelves' = Reserve(tasks[t].source, Len(tasks) + 1)
        /\ net' = Send(n2, "new_task", Len(tasks) + 1)
    BY <2>2 DEF Reclaim
  <2>4. orders[o] = "cancelled"
    BY <1>0, <1>1 DEF Board, Reclaims
  <2>5. ~Emptying(net, tasks[t].target)
    <3>1. OpenRow(tasks[t])
      BY <1>1, <2>1, AtGateIs
    <3> QED BY <1>0, <2>1, <2>4, <3>1, StockIs DEF Collected
  <2>6. \A d \in {"report", "detection", "reclaim"} : net'[d] = n2[d]
    <3>1. n2 \in Nets /\ {"report", "detection", "reclaim"} \subseteq Channel
      <4>1. net["reclaim"] # <<>> /\ Prompt(net) /\ "reclaim" \in {"new_task", "reclaim"}
        BY <1>0 DEF Received, NetOK
      <4>2. n2 \in Nets
        BY <1>0, <4>1, TakeQueue DEF Taken
      <4> QED BY <4>2 DEF Channel
    <3> HIDE DEF n2
    <3> QED BY <2>3, <3>1, Elsewhere
  <2>7. \A u \in Ids : u # t /\ tasks[u].type = "outbound" => tasks[u].order # o
    BY <2>1, OutboundTaskIsIt
  <2> HIDE DEF t, n2
  <2> QED BY <1>0, <1>1, <1>2, <2>1, <2>3, <2>5, <2>6, <2>7, RehomedMoves
<1> QED BY <1>3, <1>4

LEMMA CheckExpiredMoves ==
  ASSUME OrdersAssumption, PromptButReclaims, LifeInv, StockInv, NEW g \in Gate, CheckExpired(g)
  PROVE  StockInv'
<1> DEFINE o == AwaitingAt(g)
           t == OutboundTask(o)
<1>0. /\ TablesOK(tasks, shelves) /\ CancelAndReclaim(g) /\ Quiet /\ UNCHANGED <<robots, floor>>
      /\ orders \in [Order -> OrderStatus] /\ net \in Nets /\ RowsOK(tasks) /\ Ids = 1..Len(tasks)
  BY StateIs DEF CheckExpired, world
<1>1. CASE o = NoOrder
  <2>1. UNCHANGED <<orders, tasks, shelves, net>>
    BY <1>0, <1>1 DEF CancelAndReclaim, database
  <2> QED BY <1>0, <2>1, OnlyTold DEF Returns
<1>2. CASE o # NoOrder
  <2>1. orders' = [orders EXCEPT ![o] = "cancelled"] /\ Reclaim(o, net)
    BY <1>0, <1>2 DEF CancelAndReclaim
  <2>2. o \in Order /\ orders[o] = "awaiting_pickup" /\ t # NoTask
    BY <1>0, <1>2, AwaitingIs
  <2>3. t \in Ids /\ tasks[t].type = "outbound" /\ tasks[t].order = o
    BY <1>0, <2>2, OutboundTaskIs
  <2>4. /\ tasks' = Append(Close(tasks, t, "cancelled"), Task("reclaim", o, tasks[t].target, tasks[t].source))
        /\ shelves' = Reserve(tasks[t].source, Len(tasks) + 1)
        /\ net' = Send(net, "new_task", Len(tasks) + 1)
    BY <2>1 DEF Reclaim
  <2>5. ~Emptying(net, tasks[t].target)
    <3>1. net["detection"] = <<>>
      BY <1>0, QuietIs, HandledIs DEF Clear, Single
    <3> QED BY <3>1, NoDetection
  <2>6. \A d \in {"report", "detection", "reclaim"} : net'[d] = net[d]
    <3>1. {"report", "detection", "reclaim"} \subseteq Channel
      BY DEF Channel
    <3> QED BY <2>4, <3>1, TakenElsewhere
  <2>7. \A u \in Ids : u # t /\ tasks[u].type = "outbound" => tasks[u].order # o /\ tasks[u].order \in Order
    BY <1>0, <2>3, OutboundTaskIsIt DEF RowsOK, RowOK
  <2>8. \A p \in Order : p # o => orders'[p] = orders[p]
    BY <1>0, <2>1
  <2> HIDE DEF t, o
  <2> QED BY <1>0, <2>2, <2>3, <2>4, <2>5, <2>6, <2>7, <2>8, RehomedMoves, ZenonT(60) DEF Returns
<1> QED BY <1>1, <1>2

\* A pallet leaves the gate of the order that waits there.
LEMMA OnClearedMoves ==
  ASSUME OrdersAssumption, LifeInv, StockInv, NEW g \in Gate, OnCleared(g)
  PROVE  StockInv'
<1> DEFINE o == AwaitingAt(g)
           t == OutboundTask(o)
<1>0. /\ TablesOK(tasks, shelves) /\ net' = Taken("detection") /\ UNCHANGED <<robots, floor>>
      /\ Received("detection", <<"cleared", g>>)
      /\ orders \in [Order -> OrderStatus] /\ RowsOK(tasks) /\ Ids = 1..Len(tasks)
  BY StateIs DEF OnCleared, world
<1>1. /\ \A h : Emptying(net, h) <=> h = g
      /\ ~Coming(net)
  BY <1>0 DEF Emptying, Coming, Received
<1>2. net'["detection"] = <<>> /\ net'["report"] = net["report"] /\ net'["reclaim"] = net["reclaim"]
  <2>1. "detection" \in Single
    BY DEF Single
  <2>2. Clear(Taken("detection"))
    BY <1>0, <2>1, ReceivedIs
  <2>3. {"report", "reclaim"} \subseteq Channel
    BY DEF Channel
  <2> QED BY <1>0, <2>1, <2>2, <2>3, TakenElsewhere DEF Clear
<1>3. ~Coming(net') /\ \A h : ~Emptying(net', h)
  BY <1>2, NoDetection
<1>4. ASSUME NEW u \in Ids, tasks[u].status = "assigned", ~Carries(tasks, Live, u, tasks[u].robot),
             Emptying(net, tasks[u].target)
      PROVE  tasks[u].type = "outbound" /\ tasks[u].order = o /\ o # NoOrder
  <2>1. tasks[u].type = "outbound" /\ tasks[u].target = g /\ OpenRow(tasks[u])
    BY <1>0, <1>1, <1>4, StockIs DEF AtDoor, OpenRow
  <2>2. orders[tasks[u].order] = "awaiting_pickup"
    BY <1>0, <1>1, <2>1, StockIs DEF Collected
  <2> QED BY <2>1, <2>2, AwaitingIsIt
<1>5. CASE o = NoOrder
  <2>1. UNCHANGED <<orders, tasks, shelves>>
    BY <1>5 DEF OnCleared, database
  <2>2. \A u \in Ids : tasks[u].status = "assigned" /\ ~Carries(tasks, Live, u, tasks[u].robot) =>
          (Emptying(net', tasks[u].target) <=> Emptying(net, tasks[u].target))
    BY <1>3, <1>4, <1>5
  <2> QED BY <1>0, <1>2, <1>3, <2>1, <2>2, NothingMoves DEF Returns
<1>6. CASE o # NoOrder
  <2>1. /\ tasks' = Close(tasks, t, "done") /\ orders' = [orders EXCEPT ![o] = "delivered"]
        /\ shelves' = [shelves EXCEPT ![tasks[t].source] = Emptied]
    BY <1>6 DEF OnCleared
  <2>2. o \in Order /\ orders[o] = "awaiting_pickup"
    BY <1>0, <1>6, AwaitingIs
  <2>3. t \in Ids /\ tasks[t].type = "outbound" /\ tasks[t].order = o /\ tasks[t].target = g
    <3>1. PICK u \in Ids : tasks[u].type = "outbound" /\ tasks[u].order = o /\ tasks[u].target = g
      BY <1>0, <1>6, AwaitingIs
    <3>2. t = u
      BY <3>1, OutboundTaskIsIt
    <3> QED BY <3>1, <3>2
  <2>4. /\ OpenRow(tasks[t]) /\ (\A r \in Live : ~Current(tasks, t, r)) /\ Pallets[t] = Nowhere
    BY <1>1, <2>2, <2>3, AtGateIs
  <2>5. ShelfOf(tasks[t]) = tasks[t].source /\ ShelfOf(tasks[t]) # Nowhere
    BY <2>3, <2>4, OutboundIs, PlacesAre
  <2>6. Emptied \in Location /\ Emptied.reserved_by = NoTask /\ Emptied.inbound_at = 0
    BY DEF Emptied, Location, NoTask
  <2>7. \A u \in Ids : u # t /\ tasks[u].type = "outbound" => tasks[u].order # o /\ tasks[u].order \in Order
    BY <1>0, <2>3, OutboundTaskIsIt DEF RowsOK, RowOK
  <2>8. \A p \in Order : p # o => orders'[p] = orders[p]
    BY <1>0, <2>1
  <2>9. \A u \in Ids : u # t /\ tasks[u].status = "assigned" /\ ~Carries(tasks, Live, u, tasks[u].robot) =>
          (Emptying(net', tasks[u].target) <=> Emptying(net, tasks[u].target))
    BY <1>3, <1>4, <2>7
  <2>10. LiveIn(robots', net') = Live
    BY <1>0, <1>2 DEF LiveIn, Live, Reports
  <2>11. \A r : Brought(net', r) <=> Brought(net, r)
    BY <1>2 DEF Brought
  <2>12. Live \in SUBSET Live /\ "done" \in {"done", "cancelled"}
    OBVIOUS
  <2>13. \A u \in Ids : u # t /\ tasks[u].type = "outbound" =>
           /\ orders[tasks[u].order] = "awaiting_pickup" => orders'[tasks[u].order] = "awaiting_pickup"
           /\ tasks[u].order \in Returns => tasks[u].order \in Items(net'["reclaim"])
    BY <1>2, <2>7, <2>8 DEF Returns
  <2> HIDE DEF t, o
  <2>14. /\ shelves' = [shelves EXCEPT ![ShelfOf(tasks[t])] = Emptied]
         /\ Pallets[t] \in {ShelfOf(tasks[t]), Nowhere}
         /\ (Pallets[t] = ShelfOf(tasks[t]) <=> Emptied.inbound_at # 0)
    BY <2>1, <2>4, <2>5, <2>6
  <2> QED BY <1>0, <1>3, <2>1, <2>3, <2>4, <2>6, <2>9, <2>10, <2>11, <2>12, <2>13, <2>14, SettledMoves
<1> QED BY <1>5, <1>6

\* A task is booked, for what is in a shelf or has come.
LEMMA BookedMoves ==
  ASSUME OrdersAssumption, LifeInv, StockInv, NEW row \in Row, RowOK(row), row.status = "pending",
         NEW s, s = ShelfOf(row), shelves[s].reserved_by = NoTask,
         tasks' = Append(tasks, row), shelves' = Reserve(s, Len(tasks) + 1), UNCHANGED <<robots, floor>>,
         Bookable(tasks, shelves, row, s, Coming(net), Coming(net')),
         net'["report"] = net["report"], net'["reclaim"] = net["reclaim"],
         \A g : ~Emptying(net, g) /\ ~Emptying(net', g),
         \A u \in Ids : tasks[u].type = "outbound" /\ orders[tasks[u].order] = "awaiting_pickup" =>
                          orders'[tasks[u].order] = "awaiting_pickup"
  PROVE  StockInv'
<1> DEFINE ts2 == Append(tasks, row)
           id == Len(tasks) + 1
           sh2 == [shelves EXCEPT ![s].reserved_by = id]
           wh2 == Map(ts2, Live, robots, net')
<1>0. /\ Ledger(tasks, shelves, floor, Pallets, Coming(net)) /\ floor \in [Place -> Nat]
      /\ Errands(tasks, Live, robots) /\ AtDoor(orders, tasks, Live, Returns)
      /\ Ids = 1..Len(tasks) /\ RowsOK(tasks) /\ TablesOK(tasks, shelves)
      /\ \A u \in Ids : Pallets[u] = Where(tasks, Live, robots, net, u)
  BY StockIs, StateIs
<1>1. /\ Len(ts2) = id /\ ts2[id] = row /\ \A u \in 1..Len(tasks) : ts2[u] = tasks[u]
      /\ Len(tasks) \in Nat /\ \A u \in 1..Len(ts2) : u \in 1..Len(tasks) \/ u = id
  BY <1>0, AddedRow
<1>2. \A u, r : Carries(ts2, Live, u, r) <=> Carries(tasks, Live, u, r)
  BY <1>0, CarriesAppended
<1>3. id \in 1..Len(ts2) /\ 1..Len(tasks) \subseteq 1..Len(ts2)
  BY <1>1
<1> HIDE DEF ts2, id
<1>4. LiveIn(robots', net') = Live /\ \A r : Brought(net', r) <=> Brought(net, r)
  BY DEF LiveIn, Live, Reports, Brought
<1>5. wh2[id] = row.source
  <2>1. Where(ts2, Live, robots, net', id) = row.source
    BY <1>1, WhereIs
  <2> QED BY <1>3, <2>1, MapIs
<1>6. ASSUME NEW u \in 1..Len(tasks) PROVE wh2[u] = Pallets[u]
  <2>1. Where(ts2, Live, robots, net', u) = Where(tasks, Live, robots, net, u)
    BY <1>1, <1>2, <1>4, WhereKept
  <2> QED BY <1>0, <1>3, <2>1, MapIs
<1> HIDE DEF wh2, sh2
<1>7. Ledger(ts2, sh2, floor, wh2, Coming(net'))
  <2>1. wh2[Len(tasks) + 1] = row.source
    BY <1>5 DEF id
  <2>2. \A u \in 1..Len(tasks) : wh2[u] = Pallets[u]
    BY <1>6
  <2>3. /\ OrdersAssumption /\ Bookable(tasks, shelves, row, s, Coming(net), Coming(net'))
        /\ floor \in [Place -> Nat] /\ TablesOK(tasks, shelves)
        /\ Ledger(tasks, shelves, floor, Pallets, Coming(net))
        /\ row \in Row /\ RowOK(row) /\ row.status = "pending" /\ s = ShelfOf(row)
        /\ shelves[s].reserved_by = NoTask
    BY <1>0
  <2>4. Ledger(Append(tasks, row), [shelves EXCEPT ![s].reserved_by = Len(tasks) + 1], floor, wh2, Coming(net'))
    BY ONLY <2>1, <2>2, <2>3, LedgerBooked
  <2> QED BY <2>4 DEF ts2, sh2, id
<1>8. Errands(ts2, Live, robots)
  <2> SUFFICES ASSUME NEW r \in Live, NEW u \in 1..Len(ts2), Current(ts2, u, r) PROVE ErrandOK(robots[r], ts2[u])
    BY DEF Errands
  <2>1. u \in 1..Len(tasks)
    BY <1>1 DEF Current, Has
  <2>2. Carries(tasks, Live, u, r)
    BY <1>2 DEF Carries
  <2> QED BY <1>0, <1>1, <2>1, <2>2 DEF Errands, Carries
<1>9. AtDoor(orders', ts2, Live, Items(net'["reclaim"]))
  <2> SUFFICES ASSUME NEW u \in 1..Len(ts2), ts2[u].status = "assigned", ~Carries(ts2, Live, u, ts2[u].robot)
               PROVE  ts2[u].type = "outbound"
                      /\ (orders'[ts2[u].order] = "awaiting_pickup" \/ ts2[u].order \in Items(net'["reclaim"]))
    BY DEF AtDoor
  <2>1. u \in 1..Len(tasks) /\ ts2[u] = tasks[u]
    BY <1>1
  <2>2. ~Carries(tasks, Live, u, tasks[u].robot)
    BY <1>2, <2>1
  <2> QED BY <1>0, <2>1, <2>2 DEF AtDoor, Returns
<1>10. Collected(orders', ts2, net')
  BY DEF Collected
<1>11. /\ tasks' = ts2 /\ shelves' = sh2 /\ robots' = robots /\ floor' = floor
  BY DEF ts2, sh2, id, Reserve
<1> QED BY <1>4, <1>7, <1>8, <1>9, <1>10, <1>11 DEF StockInv, Accounts, wh2

\* A pallet has come, and gets a shelf if one is free.
LEMMA OnInboundMoves ==
  ASSUME OrdersAssumption, LifeInv, StockInv, OnInbound
  PROVE  StockInv'
<1> DEFINE free == {s \in Shelf : ~IsFull(s) /\ ~IsLocked(s)}
           s == FirstOf(Shelves, free)
           id == Len(tasks) + 1
           row == Task("inbound", NoOrder, Inbound, s)
<1>0. /\ Received("detection", <<"inbound", Inbound>>) /\ UNCHANGED <<orders, robots, floor>>
      /\ net \in Nets /\ NetOK(net)
  BY StateIs DEF OnInbound, world, database
<1>1. Coming(net) /\ \A g : ~Emptying(net, g)
  BY <1>0 DEF Emptying, Coming, Received
<1>2. /\ Taken("detection")["detection"] = <<>> /\ Taken("detection") \in Nets
      /\ \A d \in {"report", "reclaim"} : Taken("detection")[d] = net[d]
  <2>1. "detection" \in Single
    BY DEF Single
  <2>2. Clear(Taken("detection")) /\ Taken("detection") \in Nets
    BY <1>0, <2>1, ReceivedIs
  <2>3. {"report", "reclaim"} \subseteq Channel
    BY DEF Channel
  <2> QED BY <2>1, <2>2, <2>3, TakenElsewhere DEF Clear
<1>3. CASE free = {}
  <2>1. net' = Taken("detection") /\ UNCHANGED <<tasks, shelves>>
    BY <1>3 DEF OnInbound, database
  <2>2. ~Coming(net') /\ \A h : ~Emptying(net', h)
    BY <1>2, <2>1, NoDetection
  <2> QED BY <1>0, <1>1, <1>2, <2>1, <2>2, NothingMoves DEF Returns
<1>4. CASE free # {}
  <2>1. s \in free
    <3>1. free \subseteq ToSet(Shelves) /\ Shelves \in Seq(Shelf)
      BY DEF OrdersAssumption, Shelf
    <3> HIDE DEF free
    <3> QED BY <1>4, <3>1, FirstOfIsIn
  <2>2. /\ tasks' = Append(tasks, row) /\ shelves' = Reserve(s, id)
        /\ net' = Send(Taken("detection"), "new_task", id)
    BY <1>4 DEF OnInbound
  <2>3. s \in Shelf /\ shelves[s].inbound_at = 0 /\ shelves[s].reserved_by = NoTask
    BY <2>1 DEF IsFull, IsLocked
  <2> HIDE DEF s, free
  <2>4. /\ row \in Row /\ RowOK(row) /\ row.status = "pending" /\ s = ShelfOf(row)
        /\ row.type = "inbound" /\ row.source = Inbound
    BY <2>3, PlacesAre DEF Task, Row, RowOK, ShelfOf
  <2> HIDE DEF row
  <2>5. \A d \in {"report", "reclaim", "detection"} : net'[d] = Taken("detection")[d]
    <3>1. {"report", "reclaim", "detection"} \subseteq Channel
      BY DEF Channel
    <3> QED BY <1>2, <2>2, <3>1, Elsewhere
  <2>6. ~Coming(net') /\ \A h : ~Emptying(net', h)
    BY <1>2, <2>5, NoDetection
  <2>7. Bookable(tasks, shelves, row, s, Coming(net), Coming(net'))
    BY <1>1, <2>3, <2>4, <2>6 DEF Bookable
  <2> QED BY <1>0, <1>1, <1>2, <2>2, <2>3, <2>4, <2>5, <2>6, <2>7, BookedMoves
<1> QED BY <1>3, <1>4

\* An order gets what has been in stock longest, and a gate of its own.
LEMMA CreateOutboundMoves ==
  ASSUME OrdersAssumption, LifeInv, StockInv, NEW o \in Order, CreateOutbound(o), GatesAsPromised'
  PROVE  StockInv'
<1> DEFINE stock == {s \in Shelf : IsFull(s) /\ ~IsLocked(s)}
           free == Gate \ OccupiedGates
           s == CHOOSE s \in stock : \A u \in stock : shelves[s].inbound_at <= shelves[u].inbound_at
           g == FirstOf(Gates, free)
           id == Len(tasks) + 1
           row == Task("outbound", o, s, g)
<1>0. /\ Received("notify", <<"new_order", o>>) /\ UNCHANGED <<robots, floor>>
      /\ orders \in [Order -> OrderStatus] /\ RowsOK(tasks) /\ TablesOK(tasks, shelves) /\ Ids = 1..Len(tasks)
      /\ Ledger(tasks, shelves, floor, Pallets, Coming(net))
  BY StateIs, StockIs DEF CreateOutbound, world
<1>1. CASE stock = {} \/ free = {}
  <2>1. net' = Taken("notify") /\ UNCHANGED <<orders, tasks, shelves>>
    BY <1>1 DEF CreateOutbound, database
  <2> QED BY <1>0, <2>1, NotifyMovesNothing
<1>2. CASE stock # {} /\ free # {}
  <2>1. /\ tasks' = Append(tasks, row) /\ shelves' = Reserve(s, id)
        /\ orders' = [orders EXCEPT ![o] = "processing"] /\ net' = Send(Taken("notify"), "new_task", id)
    BY <1>2 DEF CreateOutbound
  <2>2. s \in stock
    <3> HIDE DEF stock
    <3>1. stock \in SUBSET Shelf
      BY DEF stock
    <3> QED BY <1>0, <1>2, <3>1, OldestIsStock
  <2>3. g \in free
    <3>1. free \subseteq ToSet(Gates) /\ Gates \in Seq(Gate)
      BY DEF OrdersAssumption, Gate
    <3> HIDE DEF free
    <3> QED BY <1>2, <3>1, FirstOfIsIn
  <2>4. s \in Shelf /\ shelves[s].inbound_at # 0 /\ shelves[s].reserved_by = NoTask
    BY <2>2 DEF IsFull, IsLocked
  <2>5. g \in Gate /\ g \notin OccupiedGates
    BY <2>3
  <2> HIDE DEF s, g, stock, free
  <2>6. /\ row \in Row /\ RowOK(row) /\ row.status = "pending" /\ s = ShelfOf(row)
        /\ row.type = "outbound" /\ row.target = g
    BY <2>4, <2>5, PlacesAre DEF Task, Row, RowOK, ShelfOf
  <2> HIDE DEF row
  <2>7. \A d \in Single : d # "notify" => net[d] = <<>>
    <3>1. "notify" \in Single
      BY DEF Single
    <3> QED BY <1>0, <3>1, OnlyOne
  <2>8. net'["report"] = net["report"] /\ net'["reclaim"] = net["reclaim"] /\ net'["detection"] = net["detection"]
    <3>1. Taken("notify") \in Nets
      <4>1. "notify" \in Single
        BY DEF Single
      <4> QED BY <1>0, <4>1, ReceivedIs
    <3>2. {"report", "reclaim", "detection"} \subseteq Channel
      BY DEF Channel
    <3>3. \A d \in {"report", "reclaim", "detection"} : net'[d] = Taken("notify")[d]
      BY <2>1, <3>1, <3>2, Elsewhere
    <3>4. \A d \in {"report", "reclaim", "detection"} : Taken("notify")[d] = net[d]
      BY <3>2, TakenElsewhere
    <3> QED BY <3>3, <3>4
  <2>9. /\ ~Coming(net') /\ \A h : ~Emptying(net, h) /\ ~Emptying(net', h)
    <3>1. net["detection"] = <<>>
      BY <2>7 DEF Single
    <3> QED BY <2>8, <3>1, NoDetection
  <2>10. ASSUME NEW u \in Ids, OpenRow(tasks[u]), DoorOf(tasks[u]) = g
         PROVE  FALSE
    <3>0. u \in 1..Len(tasks) /\ tasks[u] \in Row
      BY <1>0 DEF RowsOK
    <3>1. CASE tasks[u].type = "outbound"
      <4>1. /\ Len(tasks') = id /\ tasks'[id] = row /\ tasks'[u] = tasks[u] /\ Len(tasks) \in Nat
        BY <1>0, <2>1, <2>6, AddedRow
      <4>2. u \in 1..Len(tasks') /\ id \in 1..Len(tasks') /\ u # id
        BY <3>0, <4>1
      <4>3. tasks[u].target = row.target
        BY <2>6, <2>10, <3>1 DEF DoorOf
      <4> QED BY <2>6, <2>10, <3>1, <4>1, <4>2, <4>3 DEF GatesAsPromised, Ids, IsOpen, OpenRow
    <3>2. CASE tasks[u].type = "reclaim"
      <4>1. g = tasks[u].source
        BY <2>10, <3>2 DEF DoorOf
      <4> QED BY <2>5, <2>10, <3>2, <4>1 DEF OccupiedGates, IsOpen, OpenRow
    <3>3. CASE tasks[u].type = "inbound"
      <4>1. g = Inbound
        BY <1>0, <2>10, <3>0, <3>3 DEF DoorOf, Ledger, Books
      <4> QED BY <2>5, <4>1, PlacesAre
    <3> QED BY <3>0, <3>1, <3>2, <3>3 DEF Row
  <2>11. orders[o] = "pending"
    <3>1. MessageOK("notify", <<"new_order", o>>, orders, tasks, Live, New, robots)
      <4>1. "notify" \in Single
        BY DEF Single
      <4> QED BY <1>0, <4>1, ReceivedIs
    <3> QED BY <3>1, NotifyIs
  <2>12. \A u \in Ids : tasks[u].type = "outbound" /\ orders[tasks[u].order] = "awaiting_pickup" =>
           orders'[tasks[u].order] = "awaiting_pickup"
    <3>1. \A u \in Ids : tasks[u].type = "outbound" => tasks[u].order \in Order
      BY <1>0 DEF RowsOK, RowOK
    <3> QED BY <1>0, <2>1, <2>11, <3>1
  <2>13. Bookable(tasks, shelves, row, s, Coming(net), Coming(net'))
    BY <1>0, <2>4, <2>6, <2>9, <2>10 DEF Bookable
  <2> QED BY <1>0, <2>1, <2>4, <2>6, <2>8, <2>9, <2>12, <2>13, BookedMoves
<1> QED BY <1>1, <1>2

-----------------------------------------------------------------------------
(* The fleet manager.                                                      *)

\* A task is given to a robot that is idle: its pallet waits at the source.
LEMMA AssignedMoves ==
  ASSUME OrdersAssumption, LifeInv, StockInv, NEW t \in Ids, tasks[t].status = "pending",
         NEW st2, Resting(st2),
         TryAssign(t, st2), net'["report"] = net["report"], net'["detection"] = net["detection"],
         net'["reclaim"] = net["reclaim"], UNCHANGED <<orders, shelves, floor>>
  PROVE  StockInv'
<1> DEFINE candidates == {r \in Robot : st2[r] = "idle"}
           r == FirstOf(last_used, candidates)
           now == 1 + Max({tasks[u].assigned_at : u \in Ids})
           errand == [source |-> tasks[t].source, target |-> tasks[t].target]
           ts2 == [tasks EXCEPT ![t].status = "assigned", ![t].robot = r, ![t].assigned_at = now]
           rs2 == [robots EXCEPT ![r].queue = Append(@, errand)]
           live2 == Live \cup {r}
           wh2 == Map(ts2, live2, rs2, net')
<1>0. /\ RowsOK(tasks) /\ Ids = 1..Len(tasks) /\ TablesOK(tasks, shelves) /\ robots \in [Robot -> RobotState]
      /\ Ledger(tasks, shelves, floor, Pallets, Coming(net))
      /\ Errands(tasks, Live, robots) /\ AtDoor(orders, tasks, Live, Returns) /\ Collected(orders, tasks, net)
      /\ \A u \in Ids : Pallets[u] = Where(tasks, Live, robots, net, u)
  BY StateIs, StockIs
<1>1. CASE candidates = {}
  <2>1. UNCHANGED <<tasks, robots>>
    BY <1>1 DEF TryAssign
  <2> QED BY <2>1, OnlyTold DEF Returns
<1>2. CASE candidates # {}
  <2>1. r \in Robot /\ st2[r] = "idle"
    <3>1. candidates \subseteq ToSet(last_used) /\ last_used \in Seq(Robot)
      BY DEF LifeInv, Types, Memory
    <3>2. r \in candidates
      <4> HIDE DEF candidates
      <4> QED BY <1>2, <3>1, FirstOfIsIn
    <3> QED BY <3>2
  <2>2. now \in Nat /\ \A u \in 1..Len(tasks) : tasks[u].assigned_at < now
    BY <1>0, NowIsLater
  <2>3. tasks' = ts2 /\ robots' = rs2
    BY <1>2 DEF TryAssign
  <2> HIDE DEF r, now, candidates
  <2>4. robots[r].pc = "idle" /\ robots[r].queue = <<>> /\ ~Reports(net, r)
    BY <2>1 DEF Resting
  <2>5. r \notin Live
    BY <2>4 DEF Live, LiveIn, Works
  <2>6. errand \in Errand /\ errand.source = tasks[t].source /\ errand.target = tasks[t].target
    <3>1. tasks[t] \in Row
      BY <1>0 DEF RowsOK
    <3> QED BY <3>1 DEF Errand, Row
  <2>7. errand = [source |-> tasks[t].source, target |-> tasks[t].target]
    OBVIOUS
  <2> HIDE DEF errand
  <2>8. /\ \A q \in Robot : q # r => rs2[q] = robots[q]
        /\ rs2[r].queue # <<>> /\ Len(rs2[r].queue) = 1 /\ rs2[r].pc = robots[r].pc
        /\ rs2[r].queue[1] = errand
    BY <1>0, <2>1, <2>4, <2>6, WithErrand
  <2>9. /\ Len(ts2) = Len(tasks) /\ \A u \in 1..Len(tasks) : u # t => ts2[u] = tasks[u]
        /\ ts2[t].status = "assigned" /\ ts2[t].robot = r
        /\ ts2[t].type = tasks[t].type /\ ts2[t].order = tasks[t].order
        /\ ts2[t].source = tasks[t].source /\ ts2[t].target = tasks[t].target
        /\ \A u, q : Carries(ts2, live2, u, q) <=> Carries(tasks, Live, u, q) \/ (u = t /\ q = r)
    <3>1. t \in 1..Len(tasks) /\ tasks[t].status = "pending"
      BY <1>0
    <3>2. RowsOK(tasks)
      BY <1>0
    <3>3. now \in Nat
      BY <2>2
    <3>4. \A u \in 1..Len(tasks) : tasks[u].assigned_at < now
      BY <2>2
    <3>5. \A u, q : Carries(Given(tasks, t, r, now), Live \cup {r}, u, q)
                     <=> Carries(tasks, Live, u, q) \/ (u = t /\ q = r)
      BY ONLY <3>1, <3>2, <3>3, <3>4, <2>5, CarriesAssigned
    <3>6. LET tsx == Given(tasks, t, r, now)
          IN  /\ Len(tsx) = Len(tasks) /\ \A u \in 1..Len(tasks) : u # t => tsx[u] = tasks[u]
              /\ tsx[t].status = "assigned" /\ tsx[t].robot = r
              /\ tsx[t].type = tasks[t].type /\ tsx[t].order = tasks[t].order
              /\ tsx[t].source = tasks[t].source /\ tsx[t].target = tasks[t].target
      BY ONLY <3>1, <3>2, GivenIs
    <3> QED BY <3>5, <3>6 DEF Given
  <2> HIDE DEF ts2, rs2
  <2>10. /\ \A q : Reports(net', q) <=> Reports(net, q)
         /\ \A q : Brought(net', q) <=> Brought(net, q)
         /\ \A g : Emptying(net', g) <=> Emptying(net, g)
         /\ Coming(net') <=> Coming(net)
    BY DEF Reports, Brought, Emptying, Coming
  <2>11. LiveIn(rs2, net') = live2
    BY <2>1, <2>8, <2>10 DEF LiveIn, Live, Works
  <2>12. \A u : ~Carries(tasks, Live, u, r)
    BY <2>5 DEF Carries
  <2> HIDE DEF live2
  <2>13. wh2[t] = Pallets[t]
    <3>1. Carries(ts2, live2, t, r)
      BY <2>9
    <3>2. rs2[r].pc \notin Fetched /\ ~Brought(net', r)
      BY <2>4, <2>8, <2>10 DEF Fetched, Reports, Brought
    <3>3. Where(ts2, live2, rs2, net', t) = tasks[t].source
      BY <2>9, <3>1, <3>2, WhereIs
    <3>4. Where(tasks, Live, robots, net, t) = tasks[t].source
      BY WhereIs
    <3>5. wh2[t] = Where(ts2, live2, rs2, net', t)
      BY <1>0, <2>9, MapIs
    <3> QED BY <1>0, <3>3, <3>4, <3>5
  <2>14. ASSUME NEW u \in 1..Len(tasks), u # t PROVE wh2[u] = Pallets[u]
    <3>1. \A q : Carries(tasks, Live, u, q) => rs2[q] = robots[q]
      BY <2>8, <2>12 DEF Carries, Live, LiveIn
    <3>2. Where(ts2, live2, rs2, net', u) = Where(tasks, Live, robots, net, u)
      BY <2>9, <2>10, <2>14, <3>1, WhereKept
    <3>3. wh2[u] = Where(ts2, live2, rs2, net', u)
      BY <1>0, <2>9, MapIs
    <3> QED BY <1>0, <3>2, <3>3
  <2>15. \A u \in 1..Len(tasks) : wh2[u] = Pallets[u]
    BY <2>13, <2>14
  <2> HIDE DEF wh2
  <2>16. Ledger(ts2, shelves, floor, wh2, Coming(net'))
    <3>1. OpenRow(ts2[t]) /\ OpenRow(tasks[t])
      BY <2>9 DEF OpenRow
    <3>2. \A u \in 1..Len(tasks) :
            /\ ts2[u].type = tasks[u].type /\ ts2[u].source = tasks[u].source /\ ts2[u].target = tasks[u].target
            /\ OpenRow(ts2[u]) <=> OpenRow(tasks[u])
      BY <2>9, <3>1
    <3>3. Ledger(ts2, shelves, floor, wh2, Coming(net))
      BY ONLY <1>0, <2>9, <2>15, <3>2, LedgerAssigned, ZenonT(60)
    <3> QED BY <2>10, <3>3, LedgerForgets
  <2>17. Errands(ts2, live2, rs2)
    <3> SUFFICES ASSUME NEW q \in live2, NEW u \in 1..Len(ts2), Current(ts2, u, q) PROVE ErrandOK(rs2[q], ts2[u])
      BY DEF Errands
    <3>1. Carries(ts2, live2, u, q)
      BY DEF Carries
    <3>2. CASE u = t
      <4>1. q = r
        BY <2>9, <3>1, <3>2 DEF Carries, Current, Has
      <4>2. \A i \in 1..Len(rs2[r].queue) : i = 1
        BY <2>8
      <4>3. rs2[r].pc = "idle"
        BY <2>4, <2>8
      <4> QED BY <2>7, <2>8, <2>9, <3>2, <4>1, <4>2, <4>3 DEF ErrandOK, Fetched
    <3>3. CASE u # t
      <4>1. Carries(tasks, Live, u, q) /\ q # r
        BY <2>9, <2>12, <3>1, <3>3
      <4>2. rs2[q] = robots[q] /\ ts2[u] = tasks[u] /\ u \in 1..Len(tasks)
        BY <2>8, <2>9, <3>3, <4>1 DEF Carries, Live, LiveIn
      <4> QED BY <1>0, <4>1, <4>2 DEF Errands, Carries
    <3> QED BY <3>2, <3>3
  <2>18. AtDoor(orders, ts2, live2, Returns)
    <3> SUFFICES ASSUME NEW u \in 1..Len(ts2), ts2[u].status = "assigned", ~Carries(ts2, live2, u, ts2[u].robot)
                 PROVE  ts2[u].type = "outbound"
                        /\ (orders[ts2[u].order] = "awaiting_pickup" \/ ts2[u].order \in Returns)
      BY DEF AtDoor
    <3>1. u # t
      BY <2>9
    <3>2. ~Carries(tasks, Live, u, tasks[u].robot) /\ ts2[u] = tasks[u]
      BY <2>9, <3>1
    <3> QED BY <1>0, <2>9, <3>2 DEF AtDoor
  <2>19. Collected(orders, ts2, net')
    <3>1. OpenRow(tasks[t])
      BY DEF OpenRow
    <3> SUFFICES ASSUME NEW g \in Gate, Emptying(net', g), NEW u \in 1..Len(ts2), ts2[u].type = "outbound",
                        OpenRow(ts2[u]), ts2[u].target = g
                 PROVE  orders[ts2[u].order] = "awaiting_pickup"
      BY DEF Collected
    <3>2. /\ tasks[u].type = "outbound" /\ OpenRow(tasks[u]) /\ tasks[u].target = g
          /\ tasks[u].order = ts2[u].order /\ u \in 1..Len(tasks)
      BY <2>9, <3>1
    <3> QED BY <1>0, <2>10, <3>2 DEF Collected
  <2>20. LiveIn(robots', net') = live2 /\ Items(net'["reclaim"]) = Returns
    BY <2>3, <2>11 DEF Returns
  <2> QED BY <2>3, <2>16, <2>17, <2>18, <2>19, <2>20 DEF StockInv, Accounts, wh2
<1> QED BY <1>1, <1>2

LEMMA OnNewTaskMoves ==
  ASSUME OrdersAssumption, PromptButReclaims, LifeInv, StockInv, OnNewTask
  PROVE  StockInv'
<1>1. PICK t \in Ids : tasks[t].status = "pending" /\ TryAssign(t, seen)
  BY NewTaskIs
<1>2. \A d \in {"report", "detection", "reclaim"} : net'[d] = net[d]
  <2>1. {"report", "detection", "reclaim"} \subseteq Channel
    BY DEF Channel
  <2> QED BY <2>1, TakenElsewhere DEF OnNewTask
<1>3. UNCHANGED <<orders, shelves, floor>>
  BY DEF OnNewTask
<1> QED BY <1>1, <1>2, <1>3, AssignedMoves, NewTaskIs

LEMMA OnRobotStatusMoves ==
  ASSUME OrdersAssumption, PromptButReclaims, LifeInv, StockInv, NEW r \in Robot, OnRobotStatus(r)
  PROVE  StockInv'
<1>0. UNCHANGED <<orders, shelves, net, floor>>
  BY DEF OnRobotStatus
<1>1. CASE UNCHANGED <<tasks, robots>>
  BY <1>0, <1>1, OnlyTold DEF Returns
<1>2. CASE ~UNCHANGED <<tasks, robots>>
  <2>1. PICK t \in Ids : tasks[t].status = "pending" /\ TryAssign(t, seen') /\ Resting(seen')
    BY <1>2, OldTaskIs
  <2> QED BY <1>0, <2>1, AssignedMoves
<1> QED BY <1>1, <1>2

\* A robot that reports has nothing to do any more, and its task's pallet is
\* where it says.
LEMMA ReporterIs ==
  ASSUME OrdersAssumption, LifeInv, StockInv, NEW r \in Robot, NEW e, NEW o,
         Received("report", [robot |-> r, event |-> e, order |-> o])
  PROVE  LET t == LastAssigned(AssignedTo(r))
             n == Taken("report")
         IN  /\ AssignedTo(r) # {} /\ t \in Ids /\ Current(tasks, t, r) /\ Carries(tasks, Live, t, r)
             /\ Fresh(orders, tasks, Returns, t)
             /\ OpenRow(tasks[t]) /\ tasks[t] \in Row /\ RowOK(tasks[t]) /\ tasks[t].robot = r
             /\ \A u : Carries(tasks, Live, u, r) => u = t
             /\ Pallets[t] = IF e = "target_done" THEN tasks[t].target ELSE tasks[t].source
             /\ \A q : q # r => ~Brought(net, q)
             /\ net["detection"] = <<>> /\ n["detection"] = <<>> /\ n["report"] = <<>> /\ n["reclaim"] = net["reclaim"]
             /\ n \in Nets /\ r \in Live
             /\ \A q \in Robot : q # r /\ Works(robots[q]) <=> q \in Live \ {r}
<1> DEFINE t == LastAssigned(AssignedTo(r))
           n == Taken("report")
           m == [robot |-> r, event |-> e, order |-> o]
<1>0. RowsOK(tasks) /\ Ids = 1..Len(tasks) /\ RobotsOK(robots, seen, net)
      /\ \A u \in Ids : Pallets[u] = Where(tasks, Live, robots, net, u)
  BY StateIs, StockIs
<1>1. /\ r \in Live /\ NetOK(n) /\ Clear(n) /\ n["reclaim"] = net["reclaim"] /\ LiveIn(robots, n) = Live \ {r}
  BY ReportIs
<1>2. AssignedTo(r) # {} /\ t \in Ids /\ Current(tasks, t, r) /\ Fresh(orders, tasks, Returns, t)
  BY <1>1, ReporterHasTask
<1>3. Received("report", m) /\ m.robot = r /\ m.event = e
  OBVIOUS
<1> HIDE DEF m
<1>4. net["report"] # <<>> /\ Head(net["report"]) = m
  BY <1>3 DEF Received
<1>5. net["detection"] = <<>> /\ n["detection"] = <<>> /\ n["report"] = <<>>
  <2>1. "report" \in Single /\ "detection" \in Single /\ "detection" # "report"
    BY DEF Single
  <2>2. net["detection"] = <<>>
    BY <1>3, <2>1, OnlyOne
  <2> QED BY <1>1, <2>1, <2>2 DEF Clear
<1> HIDE DEF t, n
<1>6. \A q : q # r => ~Brought(net, q)
  BY <1>3, <1>4 DEF Brought
<1>7. Brought(net, r) <=> e = "target_done"
  BY <1>3, <1>4 DEF Brought
<1>8. robots[r].pc = "idle"
  BY <1>0, <1>3, <1>4 DEF RobotsOK, RobotOK, Reports
<1>9. Carries(tasks, Live, t, r) /\ \A u : Carries(tasks, Live, u, r) => u = t
  BY <1>0, <1>1, <1>2, CurrentIsOne DEF Carries
<1>10. Pallets[t] = IF e = "target_done" THEN tasks[t].target ELSE tasks[t].source
  <2>1. robots[r].pc \notin Fetched
    BY <1>8 DEF Fetched
  <2>2. Where(tasks, Live, robots, net, t) = IF Brought(net, r) THEN tasks[t].target ELSE tasks[t].source
    BY <1>9, <2>1, WhereIs
  <2> QED BY <1>0, <1>2, <1>7, <2>2
<1>11. tasks[t] \in Row /\ RowOK(tasks[t]) /\ tasks[t].robot = r /\ OpenRow(tasks[t])
  BY <1>0, <1>2 DEF RowsOK, Current, Has, OpenRow
<1>12. n \in Nets
  BY <1>1 DEF NetOK
<1>13. \A q \in Robot : q # r /\ Works(robots[q]) <=> q \in Live \ {r}
  BY <1>3, <1>4 DEF Live, LiveIn, Reports
<1> QED BY <1>1, <1>2, <1>5, <1>6, <1>9, <1>10, <1>11, <1>12, <1>13 DEF t, n

\* The task of a report ends, and its shelf is unlocked with what is in it.
LEMMA EndedMoves ==
  ASSUME OrdersAssumption, LifeInv, StockInv, NEW r \in Robot, NEW e, NEW o,
         Received("report", [robot |-> r, event |-> e, order |-> o]),
         NEW t, t = LastAssigned(AssignedTo(r)), NEW status \in {"done", "cancelled"},
         tasks' = Close(tasks, t, status), UNCHANGED <<orders, robots, floor>>, net' = Taken("report"),
         NEW l \in Location, l.reserved_by = NoTask, l.inbound_at # 0,
         shelves' = [shelves EXCEPT ![ShelfOf(tasks[t])] = l], Pallets[t] = ShelfOf(tasks[t])
  PROVE  StockInv'
<1>1. /\ t \in Ids /\ Current(tasks, t, r) /\ Carries(tasks, Live, t, r) /\ OpenRow(tasks[t])
      /\ \A u : Carries(tasks, Live, u, r) => u = t
      /\ \A q : q # r => ~Brought(net, q)
      /\ net["detection"] = <<>> /\ net'["detection"] = <<>> /\ net'["report"] = <<>>
      /\ net'["reclaim"] = net["reclaim"] /\ r \in Live
      /\ \A q \in Robot : q # r /\ Works(robots[q]) <=> q \in Live \ {r}
  BY ReporterIs
<1> DEFINE live2 == Live \ {r}
<1>2. live2 = LiveIn(robots, net') /\ live2 \in SUBSET Live
  <2>1. Live \in SUBSET Robot
    BY DEF Live, LiveIn
  <2>2. \A q \in Robot : q \in LiveIn(robots', net') <=> q # r /\ Works(robots[q])
    <3>1. \A q \in Robot : q # r /\ Works(robots[q]) <=> Works(robots[q])
      <4>1. ~Works(robots[r])
        <5>1. Reports(net, r)
          BY DEF Received, Reports
        <5>2. RobotOK(robots[r], seen[r], Reports(net, r))
          BY StateIs DEF RobotsOK
        <5> QED BY <5>1, <5>2 DEF RobotOK, Works
      <4> QED BY <4>1
    <3>2. \A q \in Robot : ~Reports(net', q)
      BY <1>1, NoReport
    <3> QED BY <3>1, <3>2 DEF LiveIn
  <2> QED BY <1>1, <2>1, <2>2 DEF LiveIn
<1>3. (\A q \in live2 : ~Current(tasks, t, q)) /\ (\A q \in Live \ live2 : Current(tasks, t, q))
  BY <1>1 DEF Current, Has
<1>4. /\ ~Coming(net') /\ (\A g : ~Emptying(net', g)) /\ \A g : ~Emptying(net, g)
  BY <1>1, NoDetection
<1>5. \A u \in Ids : \A q : u # t /\ Carries(tasks, Live, u, q) => (Brought(net', q) <=> Brought(net, q))
  <2>1. \A q : ~Brought(net', q)
    BY <1>1, NoReport
  <2> QED BY <1>1, <2>1
<1>6. Pallets[t] \in {ShelfOf(tasks[t]), Nowhere} /\ (Pallets[t] = ShelfOf(tasks[t]) <=> l.inbound_at # 0)
  OBVIOUS
<1>7. \A u \in Ids : u # t /\ tasks[u].type = "outbound" =>
        /\ orders[tasks[u].order] = "awaiting_pickup" => orders'[tasks[u].order] = "awaiting_pickup"
        /\ tasks[u].order \in Returns => tasks[u].order \in Items(net'["reclaim"])
  BY <1>1 DEF Returns
<1> HIDE DEF live2
<1> QED BY <1>1, <1>2, <1>3, <1>4, <1>5, <1>6, <1>7, SettledMoves

\* The pallet of an order has come to its gate.
LEMMA GatedMoves ==
  ASSUME OrdersAssumption, LifeInv, StockInv, NEW r \in Robot, NEW o,
         Received("report", [robot |-> r, event |-> "target_done", order |-> o]),
         NEW t, t = LastAssigned(AssignedTo(r)), tasks[t].type = "outbound",
         UNCHANGED <<tasks, shelves, robots, floor>>, net'["report"] = <<>>, net'["detection"] = <<>>,
         \A u \in Ids : tasks[u].type = "outbound" =>
           /\ orders[tasks[u].order] = "awaiting_pickup" => orders'[tasks[u].order] = "awaiting_pickup"
           /\ tasks[u].order \in Returns => tasks[u].order \in Items(net'["reclaim"]),
         orders'[tasks[t].order] = "awaiting_pickup" \/ tasks[t].order \in Items(net'["reclaim"])
  PROVE  StockInv'
<1> DEFINE live2 == Live \ {r}
<1>0. /\ Ledger(tasks, shelves, floor, Pallets, Coming(net))
      /\ Errands(tasks, Live, robots) /\ AtDoor(orders, tasks, Live, Returns)
      /\ Ids = 1..Len(tasks) /\ \A u \in Ids : Pallets[u] = Where(tasks, Live, robots, net, u)
  BY StateIs, StockIs
<1>1. /\ t \in Ids /\ Current(tasks, t, r) /\ Carries(tasks, Live, t, r)
      /\ tasks[t].robot = r /\ \A u : Carries(tasks, Live, u, r) => u = t
      /\ Pallets[t] = tasks[t].target
      /\ \A q : q # r => ~Brought(net, q)
      /\ net["detection"] = <<>> /\ r \in Live
      /\ \A q \in Robot : q # r /\ Works(robots[q]) <=> q \in Live \ {r}
  BY ReporterIs
<1>2. /\ ~Coming(net') /\ (\A g : ~Emptying(net', g)) /\ \A g : ~Emptying(net, g)
      /\ \A q : ~Brought(net', q) /\ ~Reports(net', q)
  BY <1>1, NoDetection, NoReport
<1>3. LiveIn(robots, net') = live2
  <2>1. ~Works(robots[r])
    <3>1. Reports(net, r)
      BY DEF Received, Reports
    <3>2. RobotOK(robots[r], seen[r], Reports(net, r))
      BY StateIs DEF RobotsOK
    <3> QED BY <3>1, <3>2 DEF RobotOK, Works
  <2>2. Live \in SUBSET Robot
    BY DEF Live, LiveIn
  <2> QED BY <1>1, <1>2, <2>1, <2>2 DEF LiveIn
<1>4. \A u, q : Carries(tasks, live2, u, q) <=> Carries(tasks, Live, u, q) /\ q # r
  BY DEF Carries
<1> HIDE DEF live2
<1>5. Map(tasks, live2, robots, net') = Pallets
  <2>1. Where(tasks, live2, robots, net', t) = Where(tasks, Live, robots, net, t)
    <3>1. tasks[t].status = "assigned" /\ ~Carries(tasks, live2, t, tasks[t].robot)
      BY <1>1, <1>4 DEF Current, Has
    <3>2. Where(tasks, live2, robots, net', t) = tasks[t].target
      BY <1>2, <3>1, WhereIs
    <3> QED BY <1>0, <1>1, <3>2
  <2>2. ASSUME NEW u \in 1..Len(tasks), u # t
        PROVE  Where(tasks, live2, robots, net', u) = Where(tasks, Live, robots, net, u)
    BY <1>1, <1>2, <1>4, <2>2, WhereKept
  <2>3. \A u \in 1..Len(tasks) : Where(tasks, live2, robots, net', u) = Where(tasks, Live, robots, net, u)
    BY <2>1, <2>2
  <2> QED BY <2>3, MapKept DEF Pallets
<1>6. Ledger(tasks, shelves, floor, Map(tasks, live2, robots, net'), Coming(net'))
  BY <1>0, <1>2, <1>5, LedgerForgets
<1>7. Errands(tasks, live2, robots)
  BY <1>0 DEF Errands, live2
<1>8. AtDoor(orders', tasks, live2, Items(net'["reclaim"]))
  <2> SUFFICES ASSUME NEW u \in 1..Len(tasks), tasks[u].status = "assigned", ~Carries(tasks, live2, u, tasks[u].robot)
               PROVE  tasks[u].type = "outbound"
                      /\ (orders'[tasks[u].order] = "awaiting_pickup" \/ tasks[u].order \in Items(net'["reclaim"]))
    BY DEF AtDoor
  <2>1. CASE u = t
    BY <2>1
  <2>2. CASE u # t
    <3>1. ~Carries(tasks, Live, u, tasks[u].robot)
      BY <1>1, <1>4, <2>2
    <3> QED BY <1>0, <3>1 DEF AtDoor
  <2> QED BY <2>1, <2>2
<1>9. Collected(orders', tasks, net')
  BY <1>2 DEF Collected
<1> QED BY <1>3, <1>6, <1>7, <1>8, <1>9 DEF StockInv, Accounts

LEMMA OnTargetDoneMoves ==
  ASSUME OrdersAssumption, LifeInv, StockInv, NEW r \in Robot, NEW x,
         Received("report", [robot |-> r, event |-> "target_done", order |-> x]),
         OnTargetDone(r), UNCHANGED world
  PROVE  StockInv'
<1> DEFINE t == LastAssigned(AssignedTo(r))
           o == tasks[t].order
           n == Taken("report")
<1>0. /\ orders \in [Order -> OrderStatus] /\ RowsOK(tasks) /\ Ids = 1..Len(tasks) /\ TablesOK(tasks, shelves)
      /\ UNCHANGED <<robots, floor>>
  BY StateIs DEF world
<1>1. /\ AssignedTo(r) # {} /\ t \in Ids /\ Fresh(orders, tasks, Returns, t)
      /\ tasks[t] \in Row /\ RowOK(tasks[t]) /\ Pallets[t] = tasks[t].target
      /\ n["detection"] = <<>> /\ n["report"] = <<>> /\ n["reclaim"] = net["reclaim"] /\ n \in Nets
  BY ReporterIs
<1>2. \A c, m : c \in {"reclaim", "notify"} =>
        Send(n, c, m)["report"] = <<>> /\ Send(n, c, m)["detection"] = <<>>
  <2>1. {"report", "detection"} \subseteq Channel
    BY DEF Channel
  <2>2. \A c, d, m : d \in Channel /\ d # c => Send(n, c, m)[d] = n[d]
    <3> HIDE DEF n
    <3> QED BY <1>1, Elsewhere
  <2> HIDE DEF n
  <2> QED BY <1>1, <2>1, <2>2
<1>3. \A u \in Ids : tasks[u].type = "outbound" => tasks[u].order \in Order
  BY <1>0 DEF RowsOK, RowOK
<1>4. CASE /\ tasks[t].type # "outbound" /\ tasks' = Close(tasks, t, "done") /\ net' = n /\ UNCHANGED orders
           /\ shelves' = [shelves EXCEPT ![tasks[t].target] = Filled]
  <2>1. ShelfOf(tasks[t]) = tasks[t].target /\ ShelfOf(tasks[t]) \in Shelf
    <3> DEFINE row == tasks[t]
    <3>1. row \in Row /\ RowOK(row) /\ row.type # "outbound"
      BY <1>1, <1>4
    <3> HIDE DEF row
    <3>2. ShelfOf(row) = row.target /\ ShelfOf(row) \in Shelf
      BY <3>1 DEF ShelfOf, RowOK, Row
    <3> QED BY <3>2 DEF row
  <2>2. Filled \in Location /\ Filled.reserved_by = NoTask /\ Filled.inbound_at # 0
    BY <1>0, <2>1, FilledIsLocation
  <2>3. t = LastAssigned(AssignedTo(r)) /\ "done" \in {"done", "cancelled"} /\ net' = Taken("report")
    BY <1>4
  <2>4. /\ tasks' = Close(tasks, t, "done") /\ shelves' = [shelves EXCEPT ![ShelfOf(tasks[t])] = Filled]
        /\ Pallets[t] = ShelfOf(tasks[t]) /\ UNCHANGED orders
    BY <1>1, <1>4, <2>1
  <2> HIDE DEF t, n
  <2> QED BY <1>0, <2>2, <2>3, <2>4, EndedMoves
<1>5. CASE tasks[t].type = "outbound" /\ net' = Send(n, "reclaim", o) /\ UNCHANGED database
  <2>1. o \in Order
    BY <1>1, <1>3, <1>5
  <2>2. Items(net'["reclaim"]) = Returns \cup {o}
    <3>1. n["reclaim"] \in Seq(Message) /\ o \in Message
      BY <1>1, <2>1, ChannelsAre DEF Nets, OrdersAssumption, Message
    <3>2. net'["reclaim"] = Append(n["reclaim"], o)
      <4>1. "reclaim" \in Channel
        BY DEF Channel
      <4> HIDE DEF n, o
      <4> QED BY <1>1, <1>5, <4>1 DEF Send, Nets
    <3> HIDE DEF n, o
    <3> QED BY <1>1, <3>1, <3>2, ItemsAppend DEF Returns
  <2>3. net'["report"] = <<>> /\ net'["detection"] = <<>>
    BY <1>2, <1>5
  <2>4. t = LastAssigned(AssignedTo(r)) /\ UNCHANGED <<orders, tasks, shelves, robots, floor>>
    BY <1>0, <1>5 DEF database
  <2>5. tasks[t].order \in Items(net'["reclaim"]) /\ Returns \subseteq Items(net'["reclaim"])
    BY <2>2
  <2> HIDE DEF t, n, o
  <2> QED BY <1>5, <2>3, <2>4, <2>5, GatedMoves
<1>6. CASE /\ tasks[t].type = "outbound" /\ orders' = [orders EXCEPT ![o] = "awaiting_pickup"]
           /\ net' = Send(n, "notify", <<"awaiting_pickup", o>>) /\ UNCHANGED <<tasks, shelves>>
  <2>1. o \in Order /\ orders'[o] = "awaiting_pickup"
        /\ \A p \in Order : orders[p] = "awaiting_pickup" => orders'[p] = "awaiting_pickup"
    BY <1>0, <1>1, <1>3, <1>6
  <2>2. net'["reclaim"] = net["reclaim"]
    <3>1. "reclaim" \in Channel
      BY DEF Channel
    <3> HIDE DEF n, o
    <3> QED BY <1>1, <1>6, <3>1, Elsewhere
  <2>3. net'["report"] = <<>> /\ net'["detection"] = <<>>
    BY <1>2, <1>6
  <2>4. t = LastAssigned(AssignedTo(r)) /\ UNCHANGED <<tasks, shelves, robots, floor>>
    BY <1>0, <1>6
  <2>5. orders'[tasks[t].order] = "awaiting_pickup"
    BY <2>1
  <2>6. \A u \in Ids : tasks[u].type = "outbound" =>
           /\ orders[tasks[u].order] = "awaiting_pickup" => orders'[tasks[u].order] = "awaiting_pickup"
           /\ tasks[u].order \in Returns => tasks[u].order \in Items(net'["reclaim"])
    BY <1>3, <2>1, <2>2 DEF Returns
  <2> HIDE DEF t, n, o
  <2> QED BY <1>6, <2>3, <2>4, <2>5, <2>6, GatedMoves
<1> QED BY <1>1, <1>4, <1>5, <1>6 DEF OnTargetDone

LEMMA FinishCustomerCancelMoves ==
  ASSUME OrdersAssumption, LifeInv, StockInv, NEW r \in Robot, NEW o,
         Received("report", [robot |-> r, event |-> "cancelled", order |-> o]),
         FinishCustomerCancel(r, o), UNCHANGED world
  PROVE  StockInv'
<1> DEFINE t == OutboundTask(o)
           s == tasks[t].source
           l == [shelves[s] EXCEPT !.reserved_by = NoTask]
<1>0. Ids = 1..Len(tasks) /\ RowsOK(tasks) /\ TablesOK(tasks, shelves) /\ UNCHANGED <<robots, floor>>
  BY StateIs DEF world
<1>1. r \in Live /\ o \in Order /\ Stops(orders, tasks, Live, r, o)
  BY ReportIs
<1>2. PICK u \in 1..Len(tasks) : IsOutbound(tasks, u, o) /\ Current(tasks, u, r) /\ Carries(tasks, Live, u, r)
  BY <1>1 DEF Stops, Carries
<1>3. t = u /\ t # NoTask
  BY <1>0, <1>2, OutboundTaskIsIt DEF IsOutbound
<1>4. t = LastAssigned(AssignedTo(r)) /\ OpenRow(tasks[t]) /\ Pallets[t] = s /\ t \in Ids
      /\ tasks[t].type = "outbound"
  BY <1>0, <1>2, <1>3, ReporterIs DEF IsOutbound
<1>5. /\ s \in Shelf /\ ShelfOf(tasks[t]) = s /\ shelves[s].inbound_at # 0
  BY <1>4, OutboundIs
<1>6. /\ tasks' = Close(tasks, t, "cancelled") /\ net' = Taken("report") /\ UNCHANGED orders
      /\ shelves' = Unreserve(s)
  BY <1>3 DEF FinishCustomerCancel
<1>7. l \in Location /\ l.reserved_by = NoTask /\ shelves' = [shelves EXCEPT ![s] = l]
  BY <1>0, <1>5, <1>6, UnreservedIs
<1>8. l.inbound_at # 0
  <2>1. shelves[s] \in [inbound_at : Nat, reserved_by : Nat]
    BY <1>0, <1>5 DEF TablesOK
  <2> QED BY <1>5, <2>1
<1>9. "cancelled" \in {"done", "cancelled"}
  OBVIOUS
<1> HIDE DEF t, s, l
<1>10. shelves' = [shelves EXCEPT ![ShelfOf(tasks[t])] = l] /\ Pallets[t] = ShelfOf(tasks[t])
  BY <1>4, <1>5, <1>7
<1> QED BY <1>0, <1>4, <1>6, <1>7, <1>8, <1>9, <1>10, EndedMoves

LEMMA OnTaskReportMoves ==
  ASSUME OrdersAssumption, LifeInv, StockInv, OnTaskReport
  PROVE  StockInv'
<1>1. UNCHANGED world
  BY DEF OnTaskReport
<1>2. PICK r \in Robot, o \in Order \cup {NoOrder} :
        \/ Received("report", [robot |-> r, event |-> "target_done", order |-> o]) /\ OnTargetDone(r)
        \/ Received("report", [robot |-> r, event |-> "cancelled", order |-> o]) /\ FinishCustomerCancel(r, o)
  BY DEF OnTaskReport
<1> QED BY <1>1, <1>2, OnTargetDoneMoves, FinishCustomerCancelMoves

-----------------------------------------------------------------------------
(* The robots on their way.                                                *)

\* A robot makes a step, with the task it has.
LEMMA DriveMoves ==
  ASSUME LifeInv, StockInv, NEW r \in Live, NEW new \in RobotState, NEW n2,
         Works(new) \/ Reports(n2, r), \A q \in Robot : q # r => (Reports(n2, q) <=> Reports(net, q)),
         n2["reclaim"] = net["reclaim"],
         \A row : ErrandOK(robots[r], row) => ErrandOK(new, row),
         robots' = [robots EXCEPT ![r] = new], net' = n2, UNCHANGED database,
         Ledger(tasks, shelves, floor', Map(tasks, Live, [robots EXCEPT ![r] = new], n2), Coming(n2)),
         Collected(orders, tasks, n2)
  PROVE  StockInv'
<1> DEFINE rs2 == [robots EXCEPT ![r] = new]
<1>0. /\ robots \in [Robot -> RobotState] /\ Live \in SUBSET Robot
      /\ Errands(tasks, Live, robots) /\ AtDoor(orders, tasks, Live, Returns)
      /\ UNCHANGED <<orders, tasks, shelves>>
  BY StateIs, StockIs DEF database
<1>1. rs2[r] = new /\ \A q \in Robot : q # r => rs2[q] = robots[q]
  BY <1>0
<1>2. robots' = rs2 /\ Ledger(tasks, shelves, floor', Map(tasks, Live, rs2, n2), Coming(n2))
  OBVIOUS
<1> HIDE DEF rs2
<1>3. LiveIn(rs2, n2) = Live
  <2>1. \A q \in Robot : q # r => (Works(rs2[q]) \/ Reports(n2, q) <=> Works(robots[q]) \/ Reports(net, q))
    BY <1>1
  <2>2. Works(rs2[r]) \/ Reports(n2, r)
    BY <1>1
  <2> QED BY <1>0, <2>1, <2>2 DEF LiveIn, Live
<1>4. Errands(tasks, Live, rs2)
  <2>1. \A q \in Live : \A row : ErrandOK(robots[q], row) => ErrandOK(rs2[q], row)
    BY <1>0, <1>1
  <2> QED BY <1>0, <2>1 DEF Errands
<1>5. AtDoor(orders, tasks, Live, Items(n2["reclaim"]))
  BY <1>0 DEF Returns
<1>6. /\ Ledger(tasks', shelves', floor', Map(tasks', LiveIn(robots', net'), robots', net'), Coming(net'))
      /\ Errands(tasks', LiveIn(robots', net'), robots')
      /\ AtDoor(orders', tasks', LiveIn(robots', net'), Items(net'["reclaim"]))
      /\ Collected(orders', tasks', net')
  BY <1>0, <1>2, <1>3, <1>4, <1>5
<1> QED BY <1>6 DEF StockInv, Accounts

\* The pallets of the other tasks stay where they are.
LEMMA OthersStay ==
  ASSUME LifeInv, NEW r \in Live, NEW rs2, \A q \in Robot : q # r => rs2[q] = robots[q],
         NEW n2, \A q \in Robot : q # r => (Brought(n2, q) <=> Brought(net, q)),
         \A t \in Ids : tasks[t].status = "assigned" /\ ~Carries(tasks, Live, t, tasks[t].robot) =>
           (Emptying(n2, tasks[t].target) <=> Emptying(net, tasks[t].target))
  PROVE  \A t \in Ids : ~Carries(tasks, Live, t, r) => Map(tasks, Live, rs2, n2)[t] = Pallets[t]
<1> SUFFICES ASSUME NEW t \in Ids, ~Carries(tasks, Live, t, r)
             PROVE  Map(tasks, Live, rs2, n2)[t] = Pallets[t]
  OBVIOUS
<1> DEFINE q == tasks[t].robot
<1>0. Live \in SUBSET Robot /\ t \in 1..Len(tasks)
  BY StateIs
<1>1. \A p \in Robot : p # r => rs2[p] = robots[p]
  OBVIOUS
<1>2. Carries(tasks, Live, t, q) => q \in Robot /\ q # r
  BY <1>0 DEF Carries
<1>3. Where(tasks, Live, rs2, n2, t) = Where(tasks, Live, robots, net, t)
  BY <1>1, <1>2, WhereKept
<1>4. Map(tasks, Live, rs2, n2)[t] = Where(tasks, Live, rs2, n2, t)
  BY <1>0, MapIs
<1>5. Pallets[t] = Where(tasks, Live, robots, net, t)
  BY <1>0, MapIs DEF Pallets
<1> QED BY <1>3, <1>4, <1>5

\* A step in which the robot keeps its pallet, or has none.
LEMMA NoPalletMoves ==
  ASSUME LifeInv, StockInv, NEW r \in Live, NEW new \in RobotState, NEW n2,
         Works(new) \/ Reports(n2, r), \A q \in Robot : q # r => (Reports(n2, q) <=> Reports(net, q)),
         n2["reclaim"] = net["reclaim"], n2["detection"] = net["detection"],
         \A row : ErrandOK(robots[r], row) => ErrandOK(new, row),
         new.pc \in Fetched <=> robots[r].pc \in Fetched,
         \A q \in Robot : Brought(n2, q) <=> Brought(net, q),
         robots' = [robots EXCEPT ![r] = new], net' = n2, UNCHANGED <<database, floor>>
  PROVE  StockInv'
<1> DEFINE rs2 == [robots EXCEPT ![r] = new]
<1>0. /\ robots \in [Robot -> RobotState] /\ Live \in SUBSET Robot
      /\ Ledger(tasks, shelves, floor, Pallets, Coming(net)) /\ Collected(orders, tasks, net)
  BY StateIs, StockIs
<1>1. rs2[r] = new /\ \A q \in Robot : q # r => rs2[q] = robots[q]
  BY <1>0
<1> HIDE DEF rs2
<1>2. (\A g : Emptying(n2, g) <=> Emptying(net, g)) /\ Coming(n2) = Coming(net)
  BY DEF Emptying, Coming
<1>3. Map(tasks, Live, rs2, n2) = Pallets
  <2>1. ASSUME NEW t \in 1..Len(tasks)
        PROVE  Where(tasks, Live, rs2, n2, t) = Where(tasks, Live, robots, net, t)
    <3> DEFINE q == tasks[t].robot
    <3>1. Carries(tasks, Live, t, q) => q \in Robot
      BY <1>0 DEF Carries
    <3>2. q \in Robot => (rs2[q].pc \in Fetched <=> robots[q].pc \in Fetched)
      BY <1>1
    <3> QED BY <1>2, <3>1, <3>2, WhereKept
  <2> QED BY <2>1, MapKept DEF Pallets
<1>4. Ledger(tasks, shelves, floor', Map(tasks, Live, rs2, n2), Coming(n2))
  BY <1>0, <1>2, <1>3
<1>5. Collected(orders, tasks, n2)
  BY <1>0, <1>2 DEF Collected
<1> QED BY <1>4, <1>5, DriveMoves DEF rs2

LEMMA TakeAssignmentMoves ==
  ASSUME LifeInv, StockInv, NEW r \in Robot, TakeAssignment(r)
  PROVE  StockInv'
<1>0. World /\ RobotsOK(robots, seen, net)
  BY StateIs DEF LifeInv, Types
<1>1. /\ robots[r].pc = "idle" /\ robots[r].queue # <<>> /\ net' = net /\ UNCHANGED <<database, floor>>
  BY DEF TakeAssignment, Does
<1>2. r \in Live
  BY <1>1 DEF Live, LiveIn, Works
<1>3. PICK new \in RobotState :
        /\ robots' = [robots EXCEPT ![r] = new] /\ new.pc = "toSource"
        /\ new.queue = Tail(robots[r].queue)
        /\ new.source = Head(robots[r].queue).source /\ new.target = Head(robots[r].queue).target
  <2>1. \E new \in RobotState :
          /\ robots' = [robots EXCEPT ![r] = new] /\ new.pc = "toSource"
          /\ new.queue = Tail(robots[r].queue)
          /\ new.source = Head(robots[r].queue).source /\ new.target = Head(robots[r].queue).target
    BY <1>0, AssignmentIs
  <2> QED BY <2>1, Zenon
<1>4. robots[r].queue \in Seq(Errand) /\ Len(robots[r].queue) <= 1
  BY <1>0 DEF World, RobotState, RobotsOK, RobotOK
<1>5. Len(robots[r].queue) = 1 /\ new.queue = <<>> /\ Head(robots[r].queue) = robots[r].queue[1]
  BY <1>1, <1>3, <1>4, OneElement
<1>6. ASSUME NEW row, ErrandOK(robots[r], row)
      PROVE  ErrandOK(new, row)
  <2>1. robots[r].queue[1] = [source |-> row.source, target |-> row.target]
    BY <1>5, <1>6 DEF ErrandOK
  <2>2. new.source = row.source /\ new.target = row.target
    BY <1>3, <1>5, <2>1
  <2>3. Len(new.queue) = 0 /\ new.pc \notin Fetched
    BY <1>3, <1>5 DEF Fetched
  <2> QED BY <2>2, <2>3 DEF ErrandOK
<1>7. new.pc \notin Fetched /\ robots[r].pc \notin Fetched /\ Works(new)
  BY <1>1, <1>3 DEF Fetched, Works
<1> QED BY <1>1, <1>2, <1>3, <1>6, <1>7, NoPalletMoves

\* A robot on its way does another thing.
LEMMA TurnsMove ==
  ASSUME OrdersAssumption, PromptButReclaims, LifeInv, StockInv, NEW r \in Robot, Quiet,
         robots[r].pc \in Fetched, NEW new \in RobotState, new.pc \in Fetched,
         new.queue = robots[r].queue, new.source = robots[r].source, new.target = robots[r].target,
         new.loaded = robots[r].loaded,
         robots' = [robots EXCEPT ![r] = new], UNCHANGED <<database, net, floor>>
  PROVE  StockInv'
<1>1. robots[r].pc # "idle" /\ new.pc # "idle"
  BY DEF Fetched
<1>2. r \in Live
  BY <1>1, DrivingIs
<1>3. \A row : ErrandOK(robots[r], row) => ErrandOK(new, row)
  BY <1>1 DEF ErrandOK
<1>4. Works(new)
  BY <1>1 DEF Works
<1> QED BY <1>2, <1>3, <1>4, NoPalletMoves

LEMMA TurnBackMoves ==
  ASSUME OrdersAssumption, PromptButReclaims, LifeInv, StockInv, NEW r \in Robot, TurnBack(r)
  PROVE  StockInv'
<1>1. World /\ Quiet /\ robots[r].pc \in Fetched /\ UNCHANGED <<database, net, floor>>
  BY DEF LifeInv, Types, TurnBack, Does, Fetched
<1>2. PICK new \in RobotState :
        /\ robots' = [robots EXCEPT ![r] = new] /\ new.pc = "back" /\ new.queue = robots[r].queue
        /\ new.source = robots[r].source /\ new.target = robots[r].target /\ new.loaded = robots[r].loaded
  <2>1. \E new \in RobotState :
          /\ robots' = [robots EXCEPT ![r] = new] /\ new.pc = "back" /\ new.queue = robots[r].queue
          /\ new.source = robots[r].source /\ new.target = robots[r].target /\ new.loaded = robots[r].loaded
    BY <1>1, TurnBackIs
  <2> QED BY <2>1, Zenon
<1>3. new.pc \in Fetched
  BY <1>2 DEF Fetched
<1> QED BY <1>1, <1>2, <1>3, TurnsMove

LEMMA StartPlacingMoves ==
  ASSUME OrdersAssumption, PromptButReclaims, LifeInv, StockInv, NEW r \in Robot, StartPlacing(r)
  PROVE  StockInv'
<1>1. World /\ Quiet /\ robots[r].pc \in Fetched /\ UNCHANGED <<database, net, floor>>
  BY DEF LifeInv, Types, StartPlacing, Does, Fetched
<1>2. PICK new \in RobotState :
        /\ robots' = [robots EXCEPT ![r] = new] /\ new.pc = "placing" /\ new.queue = robots[r].queue
        /\ new.source = robots[r].source /\ new.target = robots[r].target /\ new.loaded = robots[r].loaded
  <2>1. \E new \in RobotState :
          /\ robots' = [robots EXCEPT ![r] = new] /\ new.pc = "placing" /\ new.queue = robots[r].queue
          /\ new.source = robots[r].source /\ new.target = robots[r].target /\ new.loaded = robots[r].loaded
    BY <1>1, PlacingIs
  <2> QED BY <2>1, Zenon
<1>3. new.pc \in Fetched
  BY <1>2 DEF Fetched
<1> QED BY <1>1, <1>2, <1>3, TurnsMove

\* A robot that is done says so: the others have nothing to say.
LEMMA SaysIs ==
  ASSUME OrdersAssumption, PromptButReclaims, LifeInv, NEW r \in Robot, Quiet, NEW e,
         NEW o \in Order \cup {NoOrder}, e \in {"target_done", "cancelled"}
  PROVE  LET n2 == Report(net, r, e, o)
         IN  /\ n2["reclaim"] = net["reclaim"] /\ n2["detection"] = <<>> /\ net["detection"] = <<>>
             /\ \A q \in Robot : ~Reports(net, q) /\ ~Brought(net, q)
             /\ \A q \in Robot : (Reports(n2, q) <=> q = r) /\ (Brought(n2, q) <=> q = r /\ e = "target_done")
<1> DEFINE m == [robot |-> r, event |-> e, order |-> o]
           n2 == Send(net, "report", m)
<1>1. Clear(net) /\ net \in Nets
  BY QuietIs, HandledIs, StateIs
<1>2. Report(net, r, e, o) = n2
  BY DEF Report
<1>3. m \in Message /\ "report" \in Single /\ m.robot = r /\ m.event = e
  BY DEF Message, Single
<1> HIDE DEF m
<1>4. Only(n2, "report", m) /\ n2["reclaim"] = net["reclaim"]
  BY ONLY <1>1, <1>3, PutOnly
<1> HIDE DEF n2
<1>5. n2["report"] # <<>> /\ Head(n2["report"]) = m
  <2>1. n2["report"] = <<m>> /\ <<m>> # <<>> /\ Head(<<m>>) = m
    BY <1>4 DEF Only
  <2> QED BY <2>1
<1>6. n2["detection"] = <<>> /\ net["detection"] = <<>> /\ net["report"] = <<>>
  BY <1>1, <1>4 DEF Only, Clear, Single
<1>7. \A q \in Robot : (Reports(n2, q) <=> q = r) /\ (Brought(n2, q) <=> q = r /\ e = "target_done")
  BY <1>3, <1>5 DEF Reports, Brought
<1>8. \A q \in Robot : ~Reports(net, q) /\ ~Brought(net, q)
  BY <1>6 DEF Reports, Brought
<1> QED BY <1>2, <1>4, <1>6, <1>7, <1>8

LEMMA AbortEmptyMoves ==
  ASSUME OrdersAssumption, PromptButReclaims, LifeInv, StockInv, NEW r \in Robot, AbortEmpty(r)
  PROVE  StockInv'
<1> DEFINE new == Free(r)
           n2 == Report(net, r, "cancelled", robots[r].cancel)
<1>1. /\ Quiet /\ robots[r].pc = "toSource" /\ robots' = [robots EXCEPT ![r] = new] /\ net' = n2
      /\ UNCHANGED <<database, floor>>
  BY DEF AbortEmpty, Does
<1>2. r \in Live /\ robots[r] \in RobotState /\ robots[r].queue = <<>>
  BY <1>1, DrivingIs
<1>3. new \in RobotState /\ new.pc = "idle" /\ new.queue = <<>>
  BY <1>2, FreeIs
<1>4. /\ n2["reclaim"] = net["reclaim"] /\ n2["detection"] = net["detection"] /\ Reports(n2, r)
      /\ \A q \in Robot : q # r => (Reports(n2, q) <=> Reports(net, q))
      /\ \A q \in Robot : Brought(n2, q) <=> Brought(net, q)
  <2>1. robots[r].cancel \in Order \cup {NoOrder}
    BY <1>2 DEF RobotState
  <2>2. "cancelled" \in {"target_done", "cancelled"} /\ "cancelled" # "target_done"
    OBVIOUS
  <2>3. /\ n2["reclaim"] = net["reclaim"] /\ n2["detection"] = <<>> /\ net["detection"] = <<>>
        /\ \A q \in Robot : ~Reports(net, q) /\ ~Brought(net, q)
        /\ \A q \in Robot : (Reports(n2, q) <=> q = r) /\ (Brought(n2, q) <=> q = r /\ "cancelled" = "target_done")
    BY <1>1, <2>1, <2>2, SaysIs, ZenonT(60)
  <2> HIDE DEF n2
  <2> QED BY <2>2, <2>3
<1> HIDE DEF new, n2
<1>5. \A row : ErrandOK(new, row)
  <2>1. Len(new.queue) = 0
    BY <1>3
  <2> QED BY <1>3, <2>1 DEF ErrandOK, Fetched
<1>6. new.pc \notin Fetched /\ robots[r].pc \notin Fetched
  BY <1>1, <1>3 DEF Fetched
<1> QED BY <1>1, <1>2, <1>3, <1>4, <1>5, <1>6, NoPalletMoves

-----------------------------------------------------------------------------
(* A pallet is taken up, or put down.                                      *)

\* A detector sees its gate become empty, when nobody has anything to say.
LEMMA ClearedIs ==
  ASSUME LifeInv, Clear(net), NEW p \in Place
  PROVE  LET n2 == WithCleared(net, p)
         IN  /\ n2["reclaim"] = net["reclaim"] /\ n2["new_task"] = net["new_task"]
             /\ n2["report"] = <<>> /\ net["report"] = <<>> /\ ~Coming(n2) /\ ~Coming(net)
             /\ \A g : ~Emptying(net, g) /\ (Emptying(n2, g) <=> g = p /\ p \in Gate /\ floor[p] = 1)
<1> DEFINE m == <<"cleared", p>>
           n3 == Send(net, "detection", m)
           n2 == WithCleared(net, p)
<1>0. net \in Nets
  BY StateIs
<1>1. m \in Message /\ "detection" \in Single
  BY DEF Message, Single
<1>2. m # <<"inbound", Inbound>> /\ \A g : m = <<"cleared", g>> <=> g = p
  OBVIOUS
<1>3. Only(n3, "detection", m) /\ n3["reclaim"] = net["reclaim"] /\ n3["new_task"] = net["new_task"]
  <2> HIDE DEF m
  <2> QED BY ONLY <1>0, <1>1, PutOnly, Clear(net)
<1>4. n2 = IF p \in Gate /\ floor[p] = 1 THEN n3 ELSE net
  BY DEF WithCleared
<1> HIDE DEF m, n3
<1>5. n3["detection"] # <<>> /\ Head(n3["detection"]) = m /\ n3["report"] = <<>>
  <2>1. n3["detection"] = <<m>> /\ <<m>> # <<>> /\ Head(<<m>>) = m
    BY <1>3 DEF Only
  <2> QED BY <1>3, <2>1 DEF Only, Single
<1>6. net["detection"] = <<>> /\ net["report"] = <<>>
  BY DEF Clear, Single
<1>7. /\ ~Coming(n3) /\ ~Coming(net) /\ \A g : ~Emptying(net, g) /\ (Emptying(n3, g) <=> g = p)
  BY <1>2, <1>5, <1>6 DEF Coming, Emptying
<1> HIDE DEF n2
<1>8. CASE p \in Gate /\ floor[p] = 1
  BY <1>3, <1>4, <1>5, <1>6, <1>7, <1>8 DEF n2
<1>9. CASE ~(p \in Gate /\ floor[p] = 1)
  BY <1>4, <1>6, <1>7, <1>9 DEF n2
<1> QED BY <1>8, <1>9

\* A robot at the source of its task finds its pallet there.
LEMMA PickUpMoves ==
  ASSUME OrdersAssumption, PromptButReclaims, LifeInv, StockInv, NEW r \in Robot, PickUp(r)
  PROVE  StockInv'
<1> DEFINE p == robots[r].source
           n2 == WithCleared(net, p)
<1>0. /\ World /\ Ids = 1..Len(tasks) /\ TablesOK(tasks, shelves)
      /\ Ledger(tasks, shelves, floor, Pallets, Coming(net)) /\ floor \in [Place -> Nat]
      /\ AtDoor(orders, tasks, Live, Returns)
      /\ \A t \in Ids : Pallets[t] = Where(tasks, Live, robots, net, t)
  BY StateIs, StockIs DEF LifeInv, Types
<1>1. /\ Quiet /\ robots[r].pc = "toSource" /\ floor' = Left(p) /\ net' = n2 /\ UNCHANGED database
  BY DEF PickUp, Does
<1>2. r \in Live /\ Clear(net)
  BY <1>1, DrivingIs
<1>3. PICK t \in Ids :
        /\ ErrandOK(robots[r], tasks[t]) /\ Carries(tasks, Live, t, r)
        /\ tasks[t] \in Row /\ RowOK(tasks[t]) /\ OpenRow(tasks[t])
        /\ \A u : Carries(tasks, Live, u, r) => u = t
  <2>1. \E t \in Ids :
          /\ ErrandOK(robots[r], tasks[t]) /\ Carries(tasks, Live, t, r)
          /\ tasks[t] \in Row /\ RowOK(tasks[t]) /\ OpenRow(tasks[t])
          /\ \A u : Carries(tasks, Live, u, r) => u = t
    BY <1>2, ErrandIs
  <2> QED BY <2>1, Zenon
<1>4. p = tasks[t].source /\ p \in Place
  BY <1>1, <1>3 DEF ErrandOK, Row
<1>5. /\ n2["reclaim"] = net["reclaim"] /\ n2["report"] = <<>> /\ net["report"] = <<>> /\ ~Coming(n2)
      /\ ~Coming(net)
      /\ \A g : ~Emptying(net, g) /\ (Emptying(n2, g) => g = p /\ p \in Gate)
  BY <1>2, <1>4, ClearedIs
<1>6. Pallets[t] = p
  <2>1. robots[r].pc \notin Fetched /\ ~Brought(net, r)
    BY <1>1, <1>5 DEF Fetched, Brought
  <2> QED BY <1>0, <1>3, <1>4, <2>1, WhereIs
<1>7. floor[p] = 1
  <2>1. Holds(tasks, shelves, Pallets, p)
    BY <1>0, <1>6 DEF Holds
  <2>2. Counted(tasks, shelves, floor, Pallets, Coming(net))
    BY <1>0 DEF Ledger
  <2> HIDE DEF p
  <2> QED BY <1>4, <2>1, <2>2, PlacesAre DEF Counted
<1>8. floor' = [floor EXCEPT ![p] = 0]
  BY <1>1, <1>7 DEF Left
<1>9. PICK new \in RobotState :
        /\ robots' = [robots EXCEPT ![r] = new] /\ new.pc \in {"back", "toTarget"}
        /\ new.queue = robots[r].queue
        /\ new.source = robots[r].source /\ new.target = robots[r].target /\ new.loaded = (floor[p] > 0)
  <2>1. \E new \in RobotState :
          /\ robots' = [robots EXCEPT ![r] = new]
          /\ new.pc = IF robots[r].cancel # NoOrder THEN "back" ELSE "toTarget"
          /\ new.queue = robots[r].queue /\ new.cancel = NoOrder /\ new.oid = robots[r].cancel
          /\ new.source = robots[r].source /\ new.target = robots[r].target /\ new.loaded = (floor[p] > 0)
    BY <1>0, PickUpIs
  <2>2. PICK new \in RobotState :
          /\ robots' = [robots EXCEPT ![r] = new]
          /\ new.pc = IF robots[r].cancel # NoOrder THEN "back" ELSE "toTarget"
          /\ new.queue = robots[r].queue /\ new.cancel = NoOrder /\ new.oid = robots[r].cancel
          /\ new.source = robots[r].source /\ new.target = robots[r].target /\ new.loaded = (floor[p] > 0)
    BY <2>1, Zenon
  <2>3. new.pc \in {"back", "toTarget"}
    BY <2>2
  <2> QED BY <2>2, <2>3
<1> HIDE DEF p, n2
<1>10. new.loaded
  <2>1. floor[p] > 0
    BY <1>7
  <2> QED BY <1>9, <2>1, Zenon
<1>11. \A row : ErrandOK(robots[r], row) => ErrandOK(new, row)
  <2>1. robots[r].pc # "idle"
    BY <1>1
  <2> QED BY <1>9, <1>10, <2>1 DEF ErrandOK
<1>12. Works(new)
  BY <1>9 DEF Works
<1>13. \A q \in Robot : /\ Reports(n2, q) <=> Reports(net, q)
                        /\ Brought(n2, q) <=> Brought(net, q)
  BY <1>5, NoReport
<1> DEFINE rs2 == [robots EXCEPT ![r] = new]
           wh2 == Map(tasks, Live, rs2, n2)
<1> HIDE DEF rs2
<1>14. p \in Gate => \A u \in Ids : tasks[u].type = "outbound" /\ OpenRow(tasks[u]) => tasks[u].target # p
  <2> SUFFICES ASSUME p \in Gate, NEW u \in Ids, tasks[u].type = "outbound", OpenRow(tasks[u]), tasks[u].target = p
               PROVE  FALSE
    OBVIOUS
  <2>1. tasks[t].type # "outbound"
    BY <1>3, <1>4, PlacesAre DEF RowOK
  <2>2. DoorOf(tasks[t]) = p /\ DoorOf(tasks[u]) = p
    BY <1>4, <2>1 DEF DoorOf
  <2>3. t = u
    BY <1>0, <1>3, <2>2 DEF Ledger, Books
  <2> QED BY <2>1, <2>3
<1>15. wh2[t] = Nowhere
  <2>1. rs2[r].pc \in Fetched
    <3>1. rs2[r] = new
      BY <1>0 DEF World, rs2
    <3> QED BY <1>9, <3>1 DEF Fetched
  <2>2. Where(tasks, Live, rs2, n2, t) = Nowhere
    BY <1>3, <2>1, WhereIs
  <2>3. Map(tasks, Live, rs2, n2)[t] = Where(tasks, Live, rs2, n2, t)
    BY <1>0, <1>3, MapIs
  <2> QED BY <2>2, <2>3
<1>16. \A u \in Ids : u # t => wh2[u] = Pallets[u]
  <2>1. \A u \in Ids : u # t => ~Carries(tasks, Live, u, r)
    BY <1>3
  <2>2. ASSUME NEW u \in Ids, tasks[u].status = "assigned", ~Carries(tasks, Live, u, tasks[u].robot)
        PROVE  Emptying(n2, tasks[u].target) <=> Emptying(net, tasks[u].target)
    <3>1. tasks[u].type = "outbound" /\ OpenRow(tasks[u])
      BY <1>0, <2>2 DEF AtDoor, OpenRow
    <3> QED BY <1>5, <1>14, <3>1
  <2> HIDE DEF wh2
  <2>3. \A u \in Ids : ~Carries(tasks, Live, u, r) =>
          Map(tasks, Live, rs2, n2)[u] = Pallets[u]
    <3>1. \A q \in Robot : q # r => rs2[q] = robots[q]
      BY <1>0 DEF World, rs2
    <3> QED BY <1>2, <1>13, <2>2, <3>1, OthersStay
  <2> QED BY <2>1, <2>3 DEF wh2
<1>17. Ledger(tasks, shelves, floor', wh2, Coming(n2))
  <2>1. Pallets[t] \in Place /\ \A u \in 1..Len(tasks) : u # t => wh2[u] = Pallets[u]
    BY <1>0, <1>4, <1>6, <1>16
  <2>2. t \in 1..Len(tasks) /\ Coming(n2) = Coming(net)
    BY <1>0, <1>3, <1>5 DEF Coming
  <2> HIDE DEF wh2
  <2>3. Ledger(tasks, shelves, [floor EXCEPT ![Pallets[t]] = 0], wh2, Coming(net))
    BY <1>0, <1>15, <2>1, <2>2, LedgerLifted
  <2> QED BY <1>6, <1>8, <2>2, <2>3
<1>18. Collected(orders, tasks, n2)
  <2> SUFFICES ASSUME NEW g \in Gate, Emptying(n2, g), NEW u \in 1..Len(tasks), tasks[u].type = "outbound",
                      OpenRow(tasks[u]), tasks[u].target = g
               PROVE  FALSE
    BY DEF Collected
  <2> QED BY <1>0, <1>5, <1>14
<1> HIDE DEF wh2
<1>19. Ledger(tasks, shelves, floor', Map(tasks, Live, [robots EXCEPT ![r] = new], n2), Coming(n2))
  BY <1>17 DEF wh2, rs2
<1> QED BY <1>1, <1>2, <1>5, <1>9, <1>11, <1>12, <1>13, <1>18, <1>19, DriveMoves

\* A robot puts its pallet down, at one end of its task.
LEMMA PutDownMoves ==
  ASSUME OrdersAssumption, PromptButReclaims, LifeInv, StockInv, NEW r \in Robot, Quiet,
         robots[r].pc \in Fetched, NEW t \in Ids, Carries(tasks, Live, t, r), ErrandOK(robots[r], tasks[t]),
         \A u : Carries(tasks, Live, u, r) => u = t,
         NEW new \in RobotState, new.pc = "idle", new.queue = <<>>,
         NEW e, NEW o \in Order \cup {NoOrder}, NEW p \in Shelf \cup Gate,
         \/ e = "target_done" /\ p = tasks[t].target
         \/ e = "cancelled" /\ p = tasks[t].source,
         PutDown(r, p), robots' = [robots EXCEPT ![r] = new], net' = Report(net, r, e, o), UNCHANGED database
  PROVE  StockInv'
<1> DEFINE n2 == Report(net, r, e, o)
           rs2 == [robots EXCEPT ![r] = new]
           wh2 == Map(tasks, Live, rs2, n2)
<1>0. /\ World /\ Ids = 1..Len(tasks) /\ TablesOK(tasks, shelves)
      /\ Ledger(tasks, shelves, floor, Pallets, Coming(net)) /\ floor \in [Place -> Nat]
      /\ \A u \in Ids : Pallets[u] = Where(tasks, Live, robots, net, u)
  BY StateIs, StockIs DEF LifeInv, Types
<1>1. r \in Live /\ tasks[t].status = "assigned"
  BY DEF Carries, Current, Has
<1>2. floor' = [floor EXCEPT ![p] = @ + 1]
  BY DEF PutDown, ErrandOK
<1>3. /\ n2["reclaim"] = net["reclaim"] /\ n2["detection"] = <<>> /\ net["detection"] = <<>>
      /\ \A q \in Robot : ~Reports(net, q) /\ ~Brought(net, q)
      /\ \A q \in Robot : (Reports(n2, q) <=> q = r) /\ (Brought(n2, q) <=> q = r /\ e = "target_done")
  BY SaysIs
<1> HIDE DEF n2
<1>4. Coming(n2) = FALSE /\ Coming(net) = FALSE /\ \A g : ~Emptying(n2, g) /\ ~Emptying(net, g)
  BY <1>3, NoDetection
<1>5. Pallets[t] = Nowhere
  BY <1>0, WhereIs
<1>6. rs2[r] = new /\ \A q \in Robot : q # r => rs2[q] = robots[q]
  BY <1>0 DEF World
<1> HIDE DEF rs2
<1>7. wh2[t] = p
  <2>1. rs2[r].pc \notin Fetched
    BY <1>6 DEF Fetched
  <2>2. Where(tasks, Live, rs2, n2, t) = IF Brought(n2, r) THEN tasks[t].target ELSE tasks[t].source
    BY <2>1, WhereIs
  <2>3. Where(tasks, Live, rs2, n2, t) = p
    BY <1>3, <2>2
  <2>4. wh2[t] = Where(tasks, Live, rs2, n2, t)
    BY <1>0, MapIs
  <2> QED BY <2>3, <2>4
<1>8. \A u \in Ids : u # t => wh2[u] = Pallets[u]
  <2>1. \A u \in Ids : u # t => ~Carries(tasks, Live, u, r)
    OBVIOUS
  <2>2. \A q \in Robot : q # r => (Brought(n2, q) <=> Brought(net, q))
    BY <1>3
  <2> HIDE DEF wh2
  <2>3. \A u \in Ids : tasks[u].status = "assigned" /\ ~Carries(tasks, Live, u, tasks[u].robot) =>
          (Emptying(n2, tasks[u].target) <=> Emptying(net, tasks[u].target))
    BY <1>4
  <2>4. \A u \in Ids : ~Carries(tasks, Live, u, r) =>
          Map(tasks, Live, rs2, n2)[u] = Pallets[u]
    BY ONLY LifeInv, <1>1, <1>6, <2>2, <2>3, OthersStay
  <2> QED BY <2>1, <2>4 DEF wh2
<1> HIDE DEF wh2
<1>9. Ledger(tasks, shelves, floor', wh2, Coming(n2))
  <2>1. t \in 1..Len(tasks) /\ OpenRow(tasks[t]) /\ p \in Ends(tasks[t]) /\ p # Inbound
    BY <1>0, <1>1, PlacesAre DEF OpenRow, Ends
  <2>2. \A u \in 1..Len(tasks) : u # t => wh2[u] = Pallets[u]
    BY <1>0, <1>8
  <2>3. Ledger(tasks, shelves, floor', wh2, Coming(net))
    <3>1. /\ floor \in [Place -> Nat] /\ TablesOK(tasks, shelves)
          /\ Ledger(tasks, shelves, floor, Pallets, Coming(net))
      BY <1>0
    <3> QED BY ONLY OrdersAssumption, <1>2, <1>5, <1>7, <2>1, <2>2, <3>1, LedgerPut, ZenonT(60)
  <2> QED BY <1>2, <1>4, <2>3
<1>10. Collected(orders, tasks, n2)
  BY <1>4 DEF Collected
<1>11. \A row : ErrandOK(new, row)
  <2>1. Len(new.queue) = 0
    OBVIOUS
  <2> QED BY <2>1 DEF ErrandOK, Fetched
<1>12. Ledger(tasks, shelves, floor', Map(tasks, Live, [robots EXCEPT ![r] = new], n2), Coming(n2))
  BY <1>9 DEF wh2, rs2
<1>13. Reports(n2, r) /\ \A q \in Robot : q # r => (Reports(n2, q) <=> Reports(net, q))
  BY <1>3
<1>14. net' = n2
  BY DEF n2
<1> QED BY <1>1, <1>3, <1>10, <1>11, <1>12, <1>13, <1>14, DriveMoves

LEMMA PlacePalletMoves ==
  ASSUME OrdersAssumption, PromptButReclaims, LifeInv, StockInv, NEW r \in Robot, PlacePallet(r)
  PROVE  StockInv'
<1>1. /\ Quiet /\ robots[r].pc = "placing" /\ robots' = [robots EXCEPT ![r] = Free(r)]
      /\ PutDown(r, robots[r].target) /\ net' = Report(net, r, "target_done", NoOrder) /\ UNCHANGED database
  BY DEF PlacePallet, Does
<1>2. r \in Live /\ robots[r] \in RobotState /\ robots[r].queue = <<>>
  BY <1>1, DrivingIs
<1>3. PICK t \in Ids :
        /\ ErrandOK(robots[r], tasks[t]) /\ Carries(tasks, Live, t, r)
        /\ tasks[t] \in Row /\ RowOK(tasks[t]) /\ \A u : Carries(tasks, Live, u, r) => u = t
  <2>1. \E t \in Ids :
          /\ ErrandOK(robots[r], tasks[t]) /\ Carries(tasks, Live, t, r)
          /\ tasks[t] \in Row /\ RowOK(tasks[t]) /\ \A u : Carries(tasks, Live, u, r) => u = t
    BY <1>2, ErrandIs
  <2> QED BY <2>1, Zenon
<1>4. robots[r].target = tasks[t].target /\ robots[r].pc \in Fetched
  BY <1>1, <1>3 DEF ErrandOK, Fetched
<1>5. tasks[t].target \in Shelf \cup Gate
  BY <1>3 DEF Row, RowOK
<1> DEFINE new == Free(r)
           p == tasks[t].target
           e == "target_done"
<1>6. new \in RobotState /\ new.pc = "idle" /\ new.queue = <<>>
  BY <1>2, FreeIs
<1>7. /\ e = "target_done" /\ p = tasks[t].target /\ p \in Shelf \cup Gate /\ PutDown(r, p)
      /\ robots' = [robots EXCEPT ![r] = new] /\ net' = Report(net, r, e, NoOrder)
  BY <1>1, <1>4, <1>5
<1>8. NoOrder \in Order \cup {NoOrder} /\ Quiet /\ UNCHANGED database
  BY <1>1
<1> HIDE DEF new, p, e
<1> QED BY <1>3, <1>4, <1>6, <1>7, <1>8, PutDownMoves

\* A pallet is taken back to the shelf of an order that has been cancelled.
LEMMA ReturnPalletMoves ==
  ASSUME OrdersAssumption, PromptButReclaims, LifeInv, StockInv, NEW r \in Robot, ReturnPallet(r)
  PROVE  StockInv'
<1>0. World
  BY DEF LifeInv, Types
<1>1. /\ Quiet /\ robots[r].pc = "back"
      /\ PutDown(r, robots[r].source) /\ net' = Report(net, r, "cancelled", robots[r].oid)
      /\ UNCHANGED database
  BY DEF ReturnPallet, Does
<1>2. r \in Live /\ robots[r] \in RobotState /\ robots[r].queue = <<>> /\ robots[r].oid # NoOrder
      /\ \A o \in Order : robots[r].cancel = o \/ robots[r].oid = o => Stops(orders, tasks, Live, r, o)
  BY <1>1, DrivingIs
<1>3. PICK t \in Ids :
        /\ ErrandOK(robots[r], tasks[t]) /\ Carries(tasks, Live, t, r)
        /\ tasks[t] \in Row /\ RowOK(tasks[t]) /\ \A u : Carries(tasks, Live, u, r) => u = t
  <2>1. \E t \in Ids :
          /\ ErrandOK(robots[r], tasks[t]) /\ Carries(tasks, Live, t, r)
          /\ tasks[t] \in Row /\ RowOK(tasks[t]) /\ \A u : Carries(tasks, Live, u, r) => u = t
    BY <1>2, ErrandIs
  <2> QED BY <2>1, Zenon
<1>4. robots[r].source = tasks[t].source /\ robots[r].pc \in Fetched
  BY <1>1, <1>3 DEF ErrandOK, Fetched
<1> DEFINE o == robots[r].oid
<1>5. tasks[t].source \in Shelf /\ o \in Order \cup {NoOrder}
  <2>1. o \in Order
    BY <1>2 DEF RobotState
  <2>2. PICK u \in 1..Len(tasks) : IsOutbound(tasks, u, o) /\ Carries(tasks, Live, u, r)
    BY <1>2, <2>1 DEF Stops
  <2>3. u = t
    BY <1>3, <2>2
  <2> QED BY <1>3, <2>1, <2>2, <2>3 DEF IsOutbound, RowOK
<1>6. PICK new \in RobotState :
        robots' = [robots EXCEPT ![r] = new] /\ new.pc = "idle" /\ new.queue = robots[r].queue
  <2>1. \E new \in RobotState :
          robots' = [robots EXCEPT ![r] = new] /\ new.pc = "idle" /\ new.queue = robots[r].queue
    BY <1>0, ReturnedIs
  <2> QED BY <2>1, Zenon
<1> DEFINE p == tasks[t].source
           e == "cancelled"
<1>7. /\ e = "cancelled" /\ p = tasks[t].source /\ p \in Shelf \cup Gate /\ PutDown(r, p)
      /\ net' = Report(net, r, e, o) /\ new.queue = <<>>
  BY <1>1, <1>2, <1>4, <1>5, <1>6
<1> HIDE DEF p, e, o
<1> QED BY <1>1, <1>3, <1>4, <1>5, <1>6, <1>7, PutDownMoves

-----------------------------------------------------------------------------
(* Customers and suppliers, and all steps together.                        *)

\* No robot does anything.
LEMMA OthersMove ==
  ASSUME LifeInv, StockInv, NEW n2, n2["report"] = net["report"], n2["reclaim"] = net["reclaim"],
         UNCHANGED <<database, robots>>, net' = n2,
         Ledger(tasks, shelves, floor', Map(tasks, Live, robots, n2), Coming(n2)),
         Collected(orders, tasks, n2)
  PROVE  StockInv'
<1>1. /\ Errands(tasks, Live, robots) /\ AtDoor(orders, tasks, Live, Items(n2["reclaim"]))
      /\ UNCHANGED <<orders, tasks, shelves, robots>>
  BY StockIs DEF database, Returns
<1>2. LiveIn(robots, n2) = Live
  BY DEF Live, LiveIn, Reports
<1>3. /\ Ledger(tasks', shelves', floor', Map(tasks', LiveIn(robots', net'), robots', net'), Coming(net'))
      /\ Errands(tasks', LiveIn(robots', net'), robots')
      /\ AtDoor(orders', tasks', LiveIn(robots', net'), Items(net'["reclaim"]))
      /\ Collected(orders', tasks', net')
  BY <1>1, <1>2
<1> QED BY <1>3 DEF StockInv, Accounts

LEMMA PickedUpMoves ==
  ASSUME OrdersAssumption, PromptButReclaims, LifeInv, StockInv, NEW g \in Gate, PickedUp(g)
  PROVE  StockInv'
<1> DEFINE n2 == WithCleared(net, g)
           wh2 == Map(tasks, Live, robots, n2)
<1>0. /\ Ids = 1..Len(tasks) /\ TablesOK(tasks, shelves)
      /\ Ledger(tasks, shelves, floor, Pallets, Coming(net)) /\ floor \in [Place -> Nat]
      /\ AtDoor(orders, tasks, Live, Returns)
  BY StateIs, StockIs
<1>1. /\ Clear(net) /\ AwaitingAt(g) # NoOrder /\ floor' = Left(g) /\ net' = n2
      /\ UNCHANGED <<database, robots>>
  BY QuietIs, HandledIs DEF PickedUp
<1>2. /\ orders[AwaitingAt(g)] = "awaiting_pickup"
      /\ \E t \in Ids : /\ tasks[t].type = "outbound" /\ tasks[t].order = AwaitingAt(g)
                        /\ tasks[t].target = g
  BY <1>0, <1>1, AwaitingIs
<1>3. PICK t \in Ids : tasks[t].type = "outbound" /\ tasks[t].target = g /\ orders[tasks[t].order] = "awaiting_pickup"
  BY <1>2
<1>4. g \in Place
  BY PlacesAre
<1>5. /\ n2["reclaim"] = net["reclaim"] /\ n2["report"] = <<>> /\ net["report"] = <<>>
      /\ Coming(n2) = FALSE /\ Coming(net) = FALSE
      /\ \A h : ~Emptying(net, h) /\ (Emptying(n2, h) <=> h = g /\ floor[g] = 1)
  BY <1>1, <1>4, ClearedIs
<1>6. /\ tasks[t].status = "assigned" /\ OpenRow(tasks[t]) /\ Pallets[t] = g
      /\ \A r : ~Carries(tasks, Live, t, r)
  BY <1>3, <1>5, AtGateIs
<1>7. floor[g] = 1
  <2>1. Holds(tasks, shelves, Pallets, g)
    BY <1>0, <1>6 DEF Holds
  <2> QED BY <1>0, <2>1 DEF Ledger, Counted
<1>8. floor' = [floor EXCEPT ![g] = 0] /\ \A h : Emptying(n2, h) <=> h = g
  BY <1>1, <1>5, <1>7 DEF Left
<1> HIDE DEF n2
<1>9. \A u \in Ids : tasks[u].type = "outbound" /\ OpenRow(tasks[u]) /\ tasks[u].target = g => u = t
  <2> SUFFICES ASSUME NEW u \in Ids, tasks[u].type = "outbound", OpenRow(tasks[u]), tasks[u].target = g
               PROVE  u = t
    OBVIOUS
  <2>1. DoorOf(tasks[u]) = g /\ DoorOf(tasks[t]) = g
    BY <1>3 DEF DoorOf
  <2> QED BY <1>0, <1>6, <2>1 DEF Ledger, Books
<1>10. wh2[t] = Nowhere
  <2>1. Where(tasks, Live, robots, n2, t) = Nowhere
    BY <1>3, <1>6, <1>8, WhereIs
  <2> QED BY <1>0, <2>1, MapIs
<1>11. \A u \in 1..Len(tasks) : u # t => wh2[u] = Pallets[u]
  <2> SUFFICES ASSUME NEW u \in 1..Len(tasks), u # t PROVE wh2[u] = Pallets[u]
    OBVIOUS
  <2>1. ASSUME tasks[u].status = "assigned", ~Carries(tasks, Live, u, tasks[u].robot)
        PROVE  Emptying(n2, tasks[u].target) <=> Emptying(net, tasks[u].target)
    <3>1. tasks[u].type = "outbound" /\ OpenRow(tasks[u])
      BY <1>0, <2>1 DEF AtDoor, OpenRow
    <3>2. tasks[u].target # g
      BY <1>0, <1>9, <3>1
    <3> QED BY <1>5, <1>8, <3>2
  <2>2. \A r : Brought(n2, r) <=> Brought(net, r)
    BY <1>5 DEF Brought
  <2>3. Where(tasks, Live, robots, n2, u) = Where(tasks, Live, robots, net, u)
    BY <2>1, <2>2, WhereKept
  <2> QED BY <2>3, MapIs DEF Pallets
<1> HIDE DEF wh2
<1>12. Ledger(tasks, shelves, floor', wh2, Coming(n2))
  <2>1. t \in 1..Len(tasks) /\ Pallets[t] \in Place
    BY <1>0, <1>4, <1>6
  <2>2. Ledger(tasks, shelves, [floor EXCEPT ![Pallets[t]] = 0], wh2, Coming(net))
    BY <1>0, <1>10, <1>11, <2>1, LedgerLifted
  <2> QED BY <1>5, <1>6, <1>8, <2>2
<1>13. Collected(orders, tasks, n2)
  <2> SUFFICES ASSUME NEW h \in Gate, Emptying(n2, h), NEW u \in 1..Len(tasks), tasks[u].type = "outbound",
                      OpenRow(tasks[u]), tasks[u].target = h
               PROVE  orders[tasks[u].order] = "awaiting_pickup"
    BY DEF Collected
  <2>1. u = t
    BY <1>0, <1>8, <1>9
  <2> QED BY <1>3, <2>1
<1>14. Ledger(tasks, shelves, floor', Map(tasks, Live, robots, n2), Coming(n2))
  BY <1>12 DEF wh2
<1>15. n2["report"] = net["report"] /\ n2["reclaim"] = net["reclaim"]
  BY <1>5
<1> QED BY <1>1, <1>13, <1>14, <1>15, OthersMove

LEMMA ArriveMoves ==
  ASSUME OrdersAssumption, PromptButReclaims, LifeInv, StockInv, Arrive
  PROVE  StockInv'
<1> DEFINE m == <<"inbound", Inbound>>
           n2 == Send(net, "detection", m)
<1>0. /\ net \in Nets /\ TablesOK(tasks, shelves) /\ floor \in [Place -> Nat]
      /\ Ledger(tasks, shelves, floor, Pallets, Coming(net))
  BY StateIs, StockIs
<1>1. /\ Clear(net) /\ floor[Inbound] = 0 /\ floor' = [floor EXCEPT ![Inbound] = 1] /\ net' = n2
      /\ UNCHANGED <<database, robots>>
  BY QuietIs, HandledIs DEF Arrive
<1>2. m \in Message /\ "detection" \in Single
  BY DEF Message, Single, Place
<1>3. \A g : m # <<"cleared", g>>
  OBVIOUS
<1>4. Only(n2, "detection", m) /\ n2["reclaim"] = net["reclaim"]
  <2> HIDE DEF m
  <2> QED BY ONLY <1>0, <1>1, <1>2, PutOnly
<1> HIDE DEF n2
<1>5. n2["detection"] # <<>> /\ Head(n2["detection"]) = m /\ n2["report"] = <<>>
  <2> HIDE DEF m
  <2>1. n2["detection"] = <<m>> /\ <<m>> # <<>> /\ Head(<<m>>) = m
    BY <1>4 DEF Only
  <2> QED BY <1>4, <2>1 DEF Only, Single
<1>6. net["detection"] = <<>> /\ net["report"] = <<>>
  BY <1>1 DEF Clear, Single
<1>7. Coming(net) = FALSE /\ Coming(n2) = TRUE /\ \A g : ~Emptying(net, g) /\ ~Emptying(n2, g)
  BY <1>3, <1>5, <1>6 DEF Coming, Emptying
<1>8. Map(tasks, Live, robots, n2) = Pallets
  <2>1. ASSUME NEW t \in 1..Len(tasks)
        PROVE  Where(tasks, Live, robots, n2, t) = Where(tasks, Live, robots, net, t)
    <3>1. \A r : Brought(n2, r) <=> Brought(net, r)
      BY <1>5, <1>6 DEF Brought
    <3> QED BY <1>7, <3>1, WhereKept
  <2> QED BY <2>1, MapKept DEF Pallets
<1>9. Ledger(tasks, shelves, floor', Map(tasks, Live, robots, n2), Coming(n2))
  <2>1. Ledger(tasks, shelves, floor, Pallets, FALSE)
    BY <1>0, <1>7
  <2>2. Ledger(tasks, shelves, [floor EXCEPT ![Inbound] = 1], Pallets, TRUE)
    BY <1>0, <1>1, <2>1, LedgerCame
  <2> QED BY <1>1, <1>7, <1>8, <2>2
<1>10. Collected(orders, tasks, n2)
  BY <1>7 DEF Collected
<1>11. n2["report"] = net["report"]
  BY <1>5, <1>6
<1> QED BY <1>1, <1>4, <1>9, <1>10, <1>11, OthersMove

LEMMA InitStock ==
  ASSUME OrdersAssumption, Init
  PROVE  StockInv
<1> DEFINE live == LiveIn(robots, net)
           wh == Map(tasks, live, robots, net)
<1>1. Len(tasks) = 0 /\ net["detection"] = <<>>
  <2>1. "detection" \in Channel
    BY DEF Channel
  <2> QED BY <2>1 DEF Init
<1>2. \A s \in Shelf : s \in Stock <=> shelves[s].reserved_by = NoTask /\ shelves[s].inbound_at # 0
  <2> SUFFICES ASSUME NEW s \in Shelf
               PROVE  s \in Stock <=> shelves[s].reserved_by = NoTask /\ shelves[s].inbound_at # 0
    OBVIOUS
  <2>1. Shelves \in Seq(Shelf) /\ \E i \in 1..Len(Shelves) : Shelves[i] = s
    BY DEF OrdersAssumption, Shelf, ToSet
  <2>2. Position(s) \in 1..Len(Shelves) /\ Len(Shelves) \in Nat
    BY <2>1 DEF Position
  <2>3. Position(s) # 0
    BY <2>2
  <2>4. shelves[s] = [inbound_at |-> IF s \in Stock THEN Position(s) ELSE 0, reserved_by |-> NoTask]
    BY DEF Init
  <2> QED BY <2>3, <2>4
<1>3. \A p \in Place : floor[p] = IF p \in Stock THEN 1 ELSE 0
  BY DEF Init
<1>4. Stock \subseteq Shelf
  BY DEF OrdersAssumption
<1>5. ~Coming(net) /\ \A g : ~Emptying(net, g)
  BY <1>1, NoDetection
<1> HIDE DEF live, wh
<1>6. \A p \in Place : Holds(tasks, shelves, wh, p) <=> p \in Stock
  BY <1>1, <1>2, <1>4 DEF Holds
<1>7. Counted(tasks, shelves, floor, wh, Coming(net))
  BY <1>3, <1>4, <1>5, <1>6, PlacesAre DEF Counted
<1>8. Books(tasks, shelves, wh, Coming(net))
  BY <1>1, <1>5 DEF Books
<1>9. Errands(tasks, live, robots) /\ AtDoor(orders, tasks, live, Items(net["reclaim"])) /\ Collected(orders, tasks, net)
  BY <1>1, <1>5 DEF Errands, AtDoor, Collected
<1> QED BY <1>7, <1>8, <1>9 DEF StockInv, Accounts, Ledger, live, wh

\* The ledger is kept, as long as no two pallets are sent to one gate.
LEMMA NextMoves ==
  ASSUME OrdersAssumption, PromptButReclaims, LifeInv, StockInv, [Next]_vars, GatesAsPromised'
  PROVE  StockInv'
<1>1. CASE \E o \in Order : CreateOrder(o) \/ CancelOrder(o) \/ OperatorCancels(o)
  BY <1>1, OrderServerMoves
<1>2. CASE TaskManager
  BY <1>2, CreateOutboundMoves, ArmPickupTimerMoves, OnOrderCancelledMoves,
     OnReclaimRequestMoves, OnClearedMoves, OnInboundMoves DEF TaskManager
<1>3. CASE TaskRestart
  BY <1>3, TaskRestartMoves
<1>4. CASE FleetManager
  BY <1>4, OnNewTaskMoves, OnTaskReportMoves, OnRobotStatusMoves DEF FleetManager
<1>5. CASE \E r \in Robot : Drive(r)
  BY <1>5, TakeAssignmentMoves, OnCancelMissionMoves, AbortEmptyMoves, PickUpMoves, TurnBackMoves,
     StartPlacingMoves, PlacePalletMoves, ReturnPalletMoves DEF Drive
<1>6. CASE \E g \in Gate : CheckExpired(g)
  BY <1>6, CheckExpiredMoves
<1>7. CASE Arrive \/ \E g \in Gate : PickedUp(g)
  BY <1>7, ArriveMoves, PickedUpMoves
<1>8. CASE UNCHANGED vars
  <2>1. /\ UNCHANGED <<orders, tasks, shelves, floor, robots, net>>
        /\ Accounts(orders, tasks, shelves, floor, robots, net)
    BY <1>8 DEF vars, StockInv
  <2> QED BY <2>1, Zenon DEF StockInv
<1> QED BY <1>1, <1>2, <1>3, <1>4, <1>5, <1>6, <1>7, <1>8 DEF Next

LEMMA StockInvariant ==
  ASSUME OrdersAssumption, PromptButReclaims
  PROVE  Spec /\ []GatesAsPromised => []StockInv
<1>1. Init => StockInv
  BY InitStock
<1>2. LifeInv /\ StockInv /\ [Next]_vars /\ GatesAsPromised' => StockInv'
  BY NextMoves
<1> QED BY <1>1, <1>2, LifeInvariant, PTL DEF Spec

\* What the ledger says of the floor, and of the robots.
LEMMA LedgerTells ==
  ASSUME OrdersAssumption, LifeInv, StockInv
  PROVE  StockIsReal /\ NoPileUp /\ NeverEmptyHanded
<1>0. /\ TablesOK(tasks, shelves) /\ Ids = 1..Len(tasks) /\ robots \in [Robot -> RobotState]
      /\ Ledger(tasks, shelves, floor, Pallets, Coming(net)) /\ floor \in [Place -> Nat]
  BY StateIs, StockIs
<1>1. Counted(tasks, shelves, floor, Pallets, Coming(net)) /\ Books(tasks, shelves, Pallets, Coming(net))
  BY <1>0 DEF Ledger
<1>2. NoPileUp
  <2>1. \A p \in Shelf \cup Gate : floor[p] = 1 \/ floor[p] = 0
    BY <1>1 DEF Counted
  <2>2. floor[Inbound] <= 1
    BY <1>1 DEF Counted
  <2> QED BY <2>1, <2>2, PlacesAre DEF NoPileUp
<1>3. StockIsReal
  <2> SUFFICES ASSUME NEW s \in Shelf, shelves[s].reserved_by = NoTask
               PROVE  floor[s] = IF IsFull(s) THEN 1 ELSE 0
    BY DEF StockIsReal
  <2>1. \A t \in 1..Len(tasks) : Pallets[t] # s
    <3> SUFFICES ASSUME NEW t \in 1..Len(tasks), Pallets[t] = s PROVE FALSE
      OBVIOUS
    <3>1. shelves[s].reserved_by = t
      BY <1>0, <1>1, PlacesAre, OwnPlace
    <3> QED BY <3>1 DEF NoTask
  <2>2. Holds(tasks, shelves, Pallets, s) <=> IsFull(s)
    BY <2>1 DEF Holds, IsFull
  <2> QED BY <1>1, <2>2 DEF Counted
<1>4. NeverEmptyHanded
  <2> SUFFICES ASSUME NEW r \in Robot, robots[r].pc \in {"toTarget", "placing", "back"}
               PROVE  robots[r].loaded
    BY DEF NeverEmptyHanded
  <2>1. r \in Live
    BY DEF Live, LiveIn, Works
  <2>2. \E t \in Ids : ErrandOK(robots[r], tasks[t])
    BY <2>1, ErrandIs
  <2> QED BY <2>2 DEF ErrandOK, Fetched
<1> QED BY <1>2, <1>3, <1>4

-----------------------------------------------------------------------------
(* The theorems about the stock.                                           *)

\* As long as the promise about the gates is kept, an unlocked shelf has a
\* pallet exactly when the database says so, whichever of deliveries, expiries,
\* cancels, reclaims and arrivals touched it last.
THEOREM StockStaysReal ==
  ASSUME OrdersAssumption, PromptButReclaims
  PROVE  Spec /\ []GatesAsPromised => []StockIsReal
<1>1. LifeInv /\ StockInv => StockIsReal
  BY LedgerTells
<1> QED BY <1>1, StockInvariant, LifeInvariant, PTL

\* As long as the promise about the gates is kept, no robot puts a pallet down
\* where one is, though it looks at the tables only, and not at the floor.
THEOREM NothingPilesUp ==
  ASSUME OrdersAssumption, PromptButReclaims
  PROVE  Spec /\ []GatesAsPromised => []NoPileUp
<1>1. LifeInv /\ StockInv => NoPileUp
  BY LedgerTells
<1> QED BY <1>1, StockInvariant, LifeInvariant, PTL

\* As long as the promise about the gates is kept, no robot is sent to fetch
\* what is not there.
THEOREM NobodyComesEmpty ==
  ASSUME OrdersAssumption, PromptButReclaims
  PROVE  Spec /\ []GatesAsPromised => []NeverEmptyHanded
<1>1. LifeInv /\ StockInv => NeverEmptyHanded
  BY LedgerTells
<1> QED BY <1>1, StockInvariant, LifeInvariant, PTL

=============================================================================
