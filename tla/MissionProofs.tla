----------------------------- MODULE MissionProofs -----------------------------
(***************************************************************************)
(* Proofs about the mission loop, for any missions, places and customers   *)
(* who cancel, and with everything failing or not: the types, that a robot *)
(* is offered empty, that its reports tell where the pallets are, and that *)
(* it takes no undeclared transition.                                      *)
(*                                                                         *)
(* The reports tell the truth because a mission is run once: it is in the  *)
(* queue, then under way, then reported, and what was reported is not      *)
(* touched again; and because the flag of a cancel, unless the cancel went *)
(* astray, names the mission that is under way, up to the report.          *)
(***************************************************************************)
EXTENDS Mission, TLAPS

-----------------------------------------------------------------------------
(* The invariant.                                                          *)

\* The state that goes with each point of the mission thread.
StateAt(pc) ==
  CASE pc = "toSource" -> {"TO_SOURCE"}
    [] pc = "pick" -> {"PICK"}
    [] pc \in {"toTarget", "back"} -> {"TO_TARGET"}
    [] pc \in {"place", "putBack"} -> {"PLACE"}
    [] pc = "chain" -> {"IDLE"}
    [] pc \in {"return", "dock"} -> {"RETURNING"}
    [] pc = "loop" -> {"IDLE", "MANUAL", "ERROR"}

States ==
  /\ fsm.state \in StateAt(fsm.pc)
  /\ fsm.state = "MANUAL" => fsm.current = NoPlace

\* A pallet is on the fork while its mission carries it, or after a failure.
Carrying == {"toTarget", "place", "back", "putBack"}
Carried ==
  \A m \in Mission : item[m] = "fork" =>
    (fsm.mission = m /\ fsm.pc \in Carrying) \/ fsm.state = "ERROR"

\* A mission is run once: it is in the queue, then under way, then reported.
Queued(m) == \E i \in 1..Len(queue) : queue[i] = m
UnderWay(m) == fsm.mission = m /\ fsm.pc \in {"toSource", "pick"} \cup Carrying
Final == CancelEvents \cup {"target_done"}
Ended(m) == \E i \in 1..Len(reports) : reports[i].of = m /\ reports[i].event \in Final

Once ==
  /\ \A i, j \in 1..Len(queue) : queue[i] = queue[j] => i = j
  /\ \A m \in Mission :
       /\ Queued(m) \/ UnderWay(m) \/ Ended(m) => m \in books.assigned
       /\ Queued(m) => ~UnderWay(m) /\ ~Ended(m)
       /\ UnderWay(m) => ~Ended(m)

\* Until it is picked its pallet stands at the source.
Fetching(m) == fsm.mission = m /\ fsm.pc \in {"toSource", "pick"}
Unmoved ==
  \A m \in Mission : m \notin books.assigned \/ Queued(m) \/ Fetching(m) => item[m] = "source"

\* The pallet of the mission that was run is where the report of its end tells.
OwnReports ==
  \A i \in 1..Len(reports) :
    /\ reports[i].event = "target_done" => item[reports[i].of] = "target"
    /\ reports[i].event \in CancelEvents => item[reports[i].of] = "source"

IInv == TypeOK /\ States /\ Carried /\ Once /\ Unmoved /\ OwnReports

\* The order of a cancel that did not go astray is the mission's, in the flag, on the
\* way back and in the report.
Flagged == cancel # NoMission /\ cancel \notin books.astray => Running(cancel)
Returning ==
  fsm.pc \in {"back", "putBack"} /\ fsm.oid \notin books.astray => fsm.oid = fsm.mission
Named ==
  \A i \in 1..Len(reports) :
    reports[i].event \in CancelEvents /\ reports[i].order \notin books.astray
      => reports[i].order = reports[i].of

Names == Flagged /\ Returning /\ Named

-----------------------------------------------------------------------------
(* Types and fields.                                                       *)

Fsm == [state : State, pc : Control, mission : Mission \cup {NoMission},
        oid : Mission \cup {NoMission}, current : Place \cup {NoPlace}]
Items == [Mission -> {"source", "fork", "target", "aside"}]
Books == [seen : {"idle", "busy", "error"}, assigned : SUBSET Mission,
          revoked : SUBSET Mission, heard : Nat, astray : SUBSET Mission]

\* A mission runs only when the robot knows where it is.
Located == fsm.pc # "loop" => fsm.mission # NoMission /\ fsm.current # NoPlace

LEMMA Types ==
  TypeOK <=> /\ fsm \in Fsm /\ Located
             /\ queue \in Seq(Mission) /\ cancel \in Mission \cup {NoMission}
             /\ item \in Items /\ reports \in Seq(TaskReport)
             /\ books \in Books /\ books.heard <= Len(reports)
<1>1. reports \in Seq(TaskReport) => Len(reports) \in Nat
  OBVIOUS
<1>2. ASSUME reports \in Seq(TaskReport)
      PROVE  books \in [seen : {"idle", "busy", "error"}, assigned : SUBSET Mission,
                        revoked : SUBSET Mission, heard : 0..Len(reports),
                        astray : SUBSET Mission]
               <=> books \in Books /\ books.heard <= Len(reports)
  BY <1>1, <1>2 DEF Books
<1> QED BY <1>2 DEF TypeOK, Fsm, Located, Items

LEMMA GoOnFields ==
  ASSUME fsm \in Fsm, NEW state \in State, NEW pc \in Control, GoOn(state, pc)
  PROVE  /\ fsm' \in Fsm /\ fsm'.state = state /\ fsm'.pc = pc
         /\ fsm'.mission = fsm.mission /\ fsm'.oid = fsm.oid /\ fsm'.current = fsm.current
<1>1. fsm' = [fsm EXCEPT !.state = state, !.pc = pc]
  BY DEF GoOn
<1>2. ASSUME NEW f \in Fsm, NEW s \in State, NEW p \in Control
      PROVE  [f EXCEPT !.state = s, !.pc = p] \in Fsm
  BY <1>2 DEF Fsm
<1>3. fsm' \in Fsm
  BY <1>1, <1>2, Zenon
<1> QED BY <1>1, <1>3 DEF Fsm

LEMMA Points ==
  /\ {"loop", "toSource", "pick", "toTarget", "place", "back", "putBack", "chain", "return",
      "dock"} = Control
  /\ {"IDLE", "TO_SOURCE", "PICK", "TO_TARGET", "PLACE", "RETURNING", "MANUAL", "ERROR"} = State
  BY DEF Control, State

LEMMA Initial == Init => IInv
<1> SUFFICES ASSUME Init PROVE IInv
  OBVIOUS
<1>1. fsm = [state |-> "IDLE", pc |-> "loop", mission |-> NoMission, oid |-> NoMission,
             current |-> NoPlace] /\ queue = <<>> /\ cancel = NoMission
      /\ item = [m \in Mission |-> "source"] /\ reports = <<>>
      /\ books = [seen |-> "idle", assigned |-> {}, revoked |-> {}, heard |-> 0, astray |-> {}]
  BY DEF Init
<1>2. fsm \in Fsm /\ Located /\ States
  BY <1>1 DEF Fsm, Located, State, Control, States, StateAt
<1>3. books \in Books /\ books.heard <= Len(reports)
  BY <1>1 DEF Books
<1>4. item \in Items /\ Carried
  BY <1>1 DEF Items, Carried
<1>5. Once /\ Unmoved /\ OwnReports
  BY <1>1 DEF Once, Queued, UnderWay, Ended, Carrying, Unmoved, OwnReports
<1>6. TypeOK
  BY <1>1, <1>2, <1>3, <1>4, Types
<1> QED BY <1>2, <1>4, <1>5, <1>6 DEF IInv

-----------------------------------------------------------------------------
(* What the steps have in common.                                          *)

\* What is reported of its end stays where it is.
LEMMA EndedStays ==
  ASSUME IInv, NEW i \in 1..Len(reports), reports[i].event \in Final
  PROVE  LET m == reports[i].of
         IN  /\ m \in Mission /\ Ended(m) /\ ~UnderWay(m) /\ ~Queued(m) /\ item[m] # "fork"
<1>1. reports \in Seq(TaskReport)
  BY Types DEF IInv
<1>2. reports[i] \in TaskReport
  BY <1>1
<1>3. reports[i].of \in Mission /\ Ended(reports[i].of)
  BY <1>2 DEF TaskReport, Ended
<1>4. item[reports[i].of] # "fork"
  BY DEF IInv, OwnReports, Final
<1> QED BY <1>3, <1>4 DEF IInv, Once

\* A step that neither begins nor reports a mission moves only its pallet, or one
\* that is on the fork.
LEMMA StepsKeep ==
  ASSUME IInv, fsm' \in Fsm, Located', States', Carried',
         UNCHANGED <<queue, reports>>, cancel' \in Mission \cup {NoMission},
         books' \in Books, books'.heard <= Len(reports), books'.assigned = books.assigned,
         item' \in Items,
         \A m \in Mission : item'[m] # item[m] => UnderWay(m) \/ item[m] = "fork",
         \A m \in Mission : UnderWay(m)' => UnderWay(m),
         \A m \in Mission : Fetching(m)' => Fetching(m) /\ item'[m] = item[m]
  PROVE  IInv'
<1>1. queue' = queue /\ reports' = reports
  OBVIOUS
<1>2. TypeOK'
  <2>1. queue \in Seq(Mission) /\ reports \in Seq(TaskReport)
    BY Types DEF IInv
  <2> QED BY <1>1, <2>1 DEF TypeOK, Fsm, Located, Items, Books
<1>3. Once'
  BY <1>1 DEF IInv, Once, Queued, Ended
<1>4. OwnReports'
  <2> SUFFICES ASSUME NEW i \in 1..Len(reports), reports[i].event \in Final
               PROVE  item'[reports[i].of] = item[reports[i].of]
    BY <1>1 DEF IInv, OwnReports, Final
  <2> QED BY EndedStays
<1>5. Unmoved'
  <2> SUFFICES ASSUME NEW m \in Mission, (m \notin books.assigned \/ Queued(m) \/ Fetching(m))'
               PROVE  item'[m] = "source"
    BY DEF Unmoved
  <2>1. m \notin books.assigned \/ Queued(m) \/ Fetching(m)
    BY <1>1 DEF Queued
  <2>2. item[m] = "source"
    BY <2>1 DEF IInv, Unmoved
  <2>3. CASE Fetching(m)'
    BY <2>2, <2>3
  <2>4. CASE ~Fetching(m)'
    <3>1. ~UnderWay(m)
      BY <1>1, <2>4 DEF IInv, Once, Queued
    <3> QED BY <2>2, <3>1
  <2> QED BY <2>3, <2>4
<1> QED BY <1>2, <1>3, <1>4, <1>5 DEF IInv

\* A mission begins when it is the first of the queue.
LEMMA QueueTail ==
  ASSUME TypeOK, queue # <<>>
  PROVE  /\ Head(queue) \in Mission /\ Head(queue) = queue[1] /\ Tail(queue) \in Seq(Mission)
         /\ Len(queue) \in Nat /\ Len(queue) >= 1
         /\ Len(Tail(queue)) \in Nat /\ Len(Tail(queue)) = Len(queue) - 1
         /\ \A i \in 1..Len(Tail(queue)) : /\ Tail(queue)[i] = queue[i + 1]
                                           /\ i + 1 \in 1..Len(queue) /\ i + 1 # 1
<1>1. queue \in Seq(Mission)
  BY Types
<1> QED BY <1>1

LEMMA QueueShorter ==
  ASSUME IInv, queue # <<>>, queue' = Tail(queue)
  PROVE  /\ \A i, j \in 1..Len(queue') : queue'[i] = queue'[j] => i = j
         /\ \A m \in Mission : Queued(m)' => Queued(m) /\ m # Head(queue)
         /\ Queued(Head(queue)) /\ Head(queue) \in Mission /\ queue' \in Seq(Mission)
<1> DEFINE t == Tail(queue)
<1>1. /\ Head(queue) \in Mission /\ Head(queue) = queue[1] /\ t \in Seq(Mission)
      /\ Len(queue) \in Nat /\ Len(queue) >= 1 /\ Len(t) \in Nat /\ Len(t) = Len(queue) - 1
      /\ \A i \in 1..Len(t) : t[i] = queue[i + 1] /\ i + 1 \in 1..Len(queue) /\ i + 1 # 1
  BY QueueTail DEF IInv
<1>2. \A i, j \in 1..Len(queue) : queue[i] = queue[j] => i = j
  BY DEF IInv, Once
<1>3. 1 \in 1..Len(queue)
  BY <1>1
<1> HIDE DEF t
<1>4. \A i, j \in 1..Len(t) : t[i] = t[j] => i = j
  BY <1>1, <1>2
<1>5. \A i \in 1..Len(t) : t[i] # Head(queue) /\ \E j \in 1..Len(queue) : queue[j] = t[i]
  BY <1>1, <1>2, <1>3
<1>6. Queued(Head(queue))
  BY <1>1, <1>3 DEF Queued
<1> QED BY <1>1, <1>4, <1>5, <1>6 DEF Queued, t

LEMMA StartKeeps ==
  ASSUME IInv, Start, fsm.current # NoPlace, fsm.state # "ERROR",
         fsm.pc \notin Carrying
  PROVE  IInv'
<1>1. /\ queue # <<>> /\ queue' = Tail(queue)
      /\ fsm' = [fsm EXCEPT !.state = "TO_SOURCE", !.pc = "toSource", !.mission = Head(queue)]
      /\ cancel' = cancel /\ item' = item /\ reports' = reports /\ books' = books
  BY DEF Start
<1>2. fsm \in Fsm /\ TypeOK
  BY Types DEF IInv
<1>3. /\ \A i, j \in 1..Len(queue') : queue'[i] = queue'[j] => i = j
      /\ \A m \in Mission : Queued(m)' => Queued(m) /\ m # Head(queue)
      /\ Queued(Head(queue)) /\ Head(queue) \in Mission /\ queue' \in Seq(Mission)
  BY <1>1, QueueShorter
<1>4. fsm' \in Fsm
  <2>1. ASSUME NEW f \in Fsm, NEW s \in State, NEW p \in Control, NEW m \in Mission
        PROVE  [f EXCEPT !.state = s, !.pc = p, !.mission = m] \in Fsm
    BY <2>1 DEF Fsm
  <2>2. "TO_SOURCE" \in State /\ "toSource" \in Control
    BY DEF State, Control
  <2> QED BY <1>1, <1>2, <1>3, <2>1, <2>2, Zenon
<1>5. /\ fsm'.state = "TO_SOURCE" /\ fsm'.pc = "toSource" /\ fsm'.mission = Head(queue)
      /\ fsm'.current = fsm.current
  BY <1>1, <1>2 DEF Fsm
<1>6. Located' /\ States'
  <2>1. Head(queue) # NoMission
    BY <1>3, MissionAssumption
  <2> QED BY <1>5, <2>1 DEF Located, States, StateAt
<1>7. TypeOK'
  BY <1>1, <1>2, <1>3, <1>4, <1>6 DEF TypeOK, Fsm, Located
<1>8. Carried'
  BY <1>1 DEF IInv, Carried
<1>9. Once'
  BY <1>1, <1>3, <1>5 DEF IInv, Once, UnderWay, Carrying, Ended
<1>10. OwnReports'
  BY <1>1 DEF IInv, OwnReports
<1>11. Unmoved'
  BY <1>1, <1>3, <1>5 DEF IInv, Unmoved, Fetching
<1> QED BY <1>6, <1>7, <1>8, <1>9, <1>10, <1>11 DEF IInv

\* A report about the mission that is under way.
LEMMA ReportKeeps ==
  ASSUME IInv, UnderWay(fsm.mission), fsm.mission \in Mission,
         NEW event \in CancelEvents \cup {"source_arrived", "target_done"},
         NEW order \in Mission \cup {NoMission},
         reports' = Append(reports, [event |-> event, order |-> order, of |-> fsm.mission]),
         fsm' \in Fsm, Located', States', Carried', queue' = queue,
         cancel' \in Mission \cup {NoMission}, books' \in Books,
         books'.heard = books.heard, books'.assigned = books.assigned,
         item' \in Items, \A m \in Mission \ {fsm.mission} : item'[m] = item[m],
         event = "target_done" => item'[fsm.mission] = "target",
         event \in CancelEvents => item'[fsm.mission] = "source",
         \A m \in Mission : UnderWay(m)' => UnderWay(m) /\ event \notin Final,
         fsm'.pc \notin {"toSource", "pick"}
  PROVE  IInv'
<1> DEFINE r == [event |-> event, order |-> order, of |-> fsm.mission]
<1>1. r \in TaskReport /\ r.event = event /\ r.of = fsm.mission
  BY DEF TaskReport
<1>2. queue \in Seq(Mission) /\ reports \in Seq(TaskReport) /\ books.heard <= Len(reports)
      /\ books.heard \in Nat
  BY Types DEF IInv, Books
<1> HIDE DEF r
<1>3. /\ reports' \in Seq(TaskReport) /\ Len(reports) \in Nat /\ Len(reports') \in Nat
      /\ Len(reports') >= Len(reports)
      /\ \A i \in 1..Len(reports) : i \in 1..Len(reports') /\ reports'[i] = reports[i]
      /\ \A i \in 1..Len(reports') : \/ i \in 1..Len(reports) /\ reports'[i] = reports[i]
                                     \/ reports'[i] = r
  <2>1. reports' = Append(reports, r)
    BY DEF r
  <2> QED BY <1>1, <1>2, <2>1
<1>4. TypeOK'
  <2>1. books'.heard <= Len(reports')
    BY <1>2, <1>3
  <2> QED BY <1>2, <1>3, <2>1 DEF TypeOK, Fsm, Located, Items, Books
<1>5. \A m \in Mission : Ended(m)' => Ended(m) \/ (m = fsm.mission /\ event \in Final)
  BY <1>1, <1>3 DEF Ended
<1>6. Once'
  <2>1. \A m \in Mission : Queued(m)' <=> Queued(m)
    BY DEF Queued
  <2> QED BY <1>5, <2>1 DEF IInv, Once
<1>7. OwnReports'
  <2> SUFFICES ASSUME NEW i \in 1..Len(reports')
               PROVE  /\ reports'[i].event = "target_done" => item'[reports'[i].of] = "target"
                      /\ reports'[i].event \in CancelEvents => item'[reports'[i].of] = "source"
    BY DEF OwnReports
  <2>1. CASE reports'[i] = r
    BY <1>1, <2>1
  <2>2. CASE i \in 1..Len(reports) /\ reports'[i] = reports[i] /\ reports[i].event \in Final
    <3>1. reports[i].of \in Mission \ {fsm.mission}
      BY <2>2, EndedStays
    <3> QED BY <2>2, <3>1 DEF IInv, OwnReports
  <2> QED BY <1>3, <2>1, <2>2 DEF Final
<1>8. Unmoved'
  <2>1. \A m \in Mission : m \notin books.assigned \/ Queued(m) => m # fsm.mission
    BY DEF IInv, Once
  <2>2. \A m \in Mission : Queued(m)' <=> Queued(m)
    BY DEF Queued
  <2> QED BY <2>1, <2>2 DEF IInv, Unmoved, Fetching
<1> QED BY <1>4, <1>6, <1>7, <1>8 DEF IInv

-----------------------------------------------------------------------------
(* The fleet, the callbacks and the operator.                              *)

LEMMA OnAssignmentKeeps == ASSUME IInv, NEW m \in Mission, OnAssignment(m) PROVE IInv'
<1>1. /\ m \notin books.assigned /\ queue' = Append(queue, m)
      /\ books' = [books EXCEPT !.assigned = @ \cup {m}]
      /\ fsm' = fsm /\ cancel' = cancel /\ item' = item /\ reports' = reports
  BY DEF OnAssignment
<1>2. TypeOK /\ queue \in Seq(Mission) /\ books \in Books
  BY Types DEF IInv
<1>3. /\ queue' \in Seq(Mission)
      /\ Len(queue) \in Nat /\ Len(queue') = Len(queue) + 1
      /\ \A i \in 1..Len(queue') : \/ i \in 1..Len(queue) /\ queue'[i] = queue[i]
                                   \/ i = Len(queue) + 1 /\ queue'[i] = m
  BY <1>1, <1>2
<1>4. books' \in Books /\ books'.assigned = books.assigned \cup {m} /\ books'.heard = books.heard
  BY <1>1, <1>2 DEF Books
<1>5. TypeOK'
  BY <1>1, <1>2, <1>3, <1>4 DEF TypeOK, Books
<1>6. States' /\ Carried' /\ OwnReports'
  BY <1>1 DEF IInv, States, Carried, OwnReports
<1>7. ~Queued(m) /\ ~UnderWay(m) /\ ~Ended(m)
  BY <1>1 DEF IInv, Once
<1>8. \A i, j \in 1..Len(queue') : queue'[i] = queue'[j] => i = j
  <2>1. \A i, j \in 1..Len(queue) : queue[i] = queue[j] => i = j
    BY DEF IInv, Once
  <2>2. \A i \in 1..Len(queue) : queue[i] # m
    BY <1>7 DEF Queued
  <2> QED BY <1>3, <2>1, <2>2
<1>9. \A n \in Mission : Queued(n)' => Queued(n) \/ n = m
  BY <1>3 DEF Queued
<1>10. \A n \in Mission : (UnderWay(n)' <=> UnderWay(n)) /\ (Ended(n)' <=> Ended(n))
  BY <1>1 DEF UnderWay, Ended
<1>11. Once'
  BY <1>4, <1>7, <1>8, <1>9, <1>10 DEF IInv, Once
<1>12. Unmoved'
  BY <1>1, <1>4, <1>9 DEF IInv, Unmoved, Fetching
<1> QED BY <1>5, <1>6, <1>11, <1>12 DEF IInv

\* The callbacks that leave the mission thread and its queue alone.
LEMMA BooksKeep ==
  IInv /\ (PublishStatus \/ FleetHears \/ \E m \in Mission : OnCancelMission(m)) => IInv'
<1> SUFFICES ASSUME IInv, PublishStatus \/ FleetHears \/ \E m \in Mission : OnCancelMission(m)
             PROVE  IInv'
  OBVIOUS
<1>1. /\ fsm' = fsm /\ item' = item /\ queue' = queue /\ reports' = reports
      /\ cancel' \in Mission \cup {NoMission}
  BY Types DEF IInv, PublishStatus, FleetHears, OnCancelMission
<1>2. /\ fsm \in Fsm /\ Located /\ item \in Items /\ books \in Books
      /\ books.heard <= Len(reports) /\ reports \in Seq(TaskReport)
  BY Types DEF IInv
<1>3. Len(reports) \in Nat
  BY <1>2
<1>4. books' \in Books /\ books'.heard <= Len(reports) /\ books'.assigned = books.assigned
  <2>1. CASE PublishStatus
    BY <1>2, <2>1 DEF PublishStatus, Books, ExtStatus
  <2>2. CASE FleetHears
    BY <1>2, <1>3, <2>2 DEF FleetHears, Books
  <2>3. CASE \E m \in Mission : OnCancelMission(m)
    <3>1. PICK m \in Mission : OnCancelMission(m)
      BY <2>3
    <3>2. PICK lost \in {{}, {m}} :
            books' = [books EXCEPT !.revoked = @ \cup {m}, !.astray = @ \cup lost]
      <4>1. books.astray \cup {} = books.astray
        OBVIOUS
      <4> QED BY <3>1, <4>1 DEF OnCancelMission
    <3> QED BY <1>2, <3>2 DEF Books
  <2> QED BY <2>1, <2>2, <2>3
<1>5. /\ States' /\ Carried' /\ Located'
      /\ \A m \in Mission : (UnderWay(m)' => UnderWay(m)) /\ (Fetching(m)' => Fetching(m))
  BY <1>1, <1>2 DEF IInv, States, Carried, Located, UnderWay, Fetching
<1> QED BY <1>1, <1>2, <1>4, <1>5, StepsKeep

\* An assignment that comes before the robot knows where it is.
LEMMA DropKeeps == IInv /\ DropMission => IInv'
<1> SUFFICES ASSUME IInv, DropMission PROVE IInv'
  OBVIOUS
<1>1. /\ queue # <<>> /\ queue' = Tail(queue) /\ fsm' = fsm /\ cancel' = cancel /\ item' = item
      /\ reports' = reports /\ books' = books
  BY DEF DropMission
<1>2. /\ \A i, j \in 1..Len(queue') : queue'[i] = queue'[j] => i = j
      /\ \A m \in Mission : Queued(m)' => Queued(m) /\ m # Head(queue)
      /\ queue' \in Seq(Mission)
  BY <1>1, QueueShorter
<1>3. TypeOK' /\ States' /\ Carried' /\ OwnReports'
  BY <1>1, <1>2 DEF IInv, TypeOK, States, Carried, OwnReports
<1>4. \A m \in Mission : (UnderWay(m)' <=> UnderWay(m)) /\ (Ended(m)' <=> Ended(m))
  BY <1>1 DEF UnderWay, Ended
<1>5. Once' /\ Unmoved'
  BY <1>1, <1>2, <1>4 DEF IInv, Once, Unmoved, Fetching
<1> QED BY <1>3, <1>5 DEF IInv

\* The books and the queue stay as they are.
Untouched == UNCHANGED <<queue, reports, books>>

LEMMA UntouchedBooks ==
  ASSUME IInv, Untouched
  PROVE  /\ UNCHANGED <<queue, reports>> /\ books' \in Books /\ books'.heard <= Len(reports)
         /\ books'.assigned = books.assigned
<1>1. books \in Books /\ books.heard <= Len(reports)
  BY Types DEF IInv
<1> QED BY <1>1 DEF Untouched

LEMMA StartUpKeeps == IInv /\ (InitSpin \/ InitDone) => IInv'
<1> SUFFICES ASSUME IInv, InitSpin \/ InitDone PROVE IInv'
  OBVIOUS
<1>1. /\ Untouched /\ cancel' = cancel /\ item' = item /\ fsm.current = NoPlace
      /\ fsm.state \in {"IDLE", "MANUAL"}
  BY DEF InitSpin, InitDone, Untouched
<1>2. /\ fsm \in Fsm /\ Located /\ item \in Items /\ cancel \in Mission \cup {NoMission}
  BY Types DEF IInv
<1>3. fsm.pc = "loop"
  BY <1>1, <1>2 DEF Located
<1>4. /\ fsm' \in Fsm /\ fsm'.mission = fsm.mission /\ fsm'.pc = "loop"
      /\ \/ fsm'.state = "MANUAL" /\ fsm'.current = NoPlace
         \/ fsm'.state = "IDLE"
  <2>1. CASE InitSpin
    <3>1. fsm' = [fsm EXCEPT !.state = "MANUAL"] /\ "MANUAL" \in State
      BY <2>1 DEF InitSpin, State
    <3> QED BY <1>1, <1>2, <1>3, <3>1 DEF Fsm
  <2>2. CASE InitDone
    <3>1. fsm' = [fsm EXCEPT !.state = "IDLE", !.current = Home] /\ "IDLE" \in State
          /\ Home \in Place
      BY <2>2, MissionAssumption DEF InitDone, State
    <3>2. ASSUME NEW f \in Fsm, NEW s \in State, NEW n \in Place
          PROVE  [f EXCEPT !.state = s, !.current = n] \in Fsm
      BY <3>2 DEF Fsm
    <3>3. fsm' \in Fsm
      BY <1>2, <3>1, <3>2, Zenon
    <3> QED BY <1>2, <1>3, <3>1, <3>3 DEF Fsm
  <2> QED BY <2>1, <2>2
<1>5. States' /\ Located' /\ \A m \in Mission : ~UnderWay(m)' /\ ~Fetching(m)'
  BY <1>4 DEF States, StateAt, Located, UnderWay, Carrying, Fetching
<1>6. Carried'
  BY <1>1, <1>3 DEF IInv, Carried, Carrying
<1> QED BY <1>1, <1>2, <1>4, <1>5, <1>6, UntouchedBooks, StepsKeep

LEMMA ResetKeeps == IInv /\ Reset => IInv'
<1> SUFFICES ASSUME IInv, Reset PROVE IInv'
  OBVIOUS
<1>1. /\ Untouched /\ cancel' = cancel /\ fsm.state = "ERROR"
      /\ fsm' = [fsm EXCEPT !.state = "IDLE"]
      /\ item' = [m \in Mission |-> IF item[m] = "fork" THEN "aside" ELSE item[m]]
  BY DEF Reset, Untouched
<1>2. /\ fsm \in Fsm /\ Located /\ item \in Items /\ cancel \in Mission \cup {NoMission}
  BY Types DEF IInv
<1>3. fsm.pc = "loop"
  BY <1>1, <1>2 DEF IInv, States, StateAt, Fsm, Control
<1>4. fsm' \in Fsm /\ fsm'.pc = "loop" /\ fsm'.state = "IDLE" /\ fsm'.mission = fsm.mission
  BY <1>1, <1>2, <1>3 DEF Fsm, State
<1>5. item' \in Items /\ \A m \in Mission : item'[m] # "fork" /\ (item'[m] # item[m] => item[m] = "fork")
  BY <1>1, <1>2 DEF Items
<1>6. States' /\ Located' /\ Carried' /\ \A m \in Mission : ~UnderWay(m)' /\ ~Fetching(m)'
  BY <1>4, <1>5 DEF States, StateAt, Located, UnderWay, Carrying, Carried, Fetching
<1> QED BY <1>1, <1>2, <1>4, <1>5, <1>6, UntouchedBooks, StepsKeep

-----------------------------------------------------------------------------
(* The mission thread.                                                     *)

Working == {"toSource", "pick"} \cup Carrying

LEMMA KnowsMission ==
  ASSUME IInv, fsm.pc # "loop"
  PROVE  /\ fsm.mission \in Mission /\ fsm.current # NoPlace
         /\ fsm.pc \in Working => UnderWay(fsm.mission)
  BY Types DEF IInv, Located, Fsm, UnderWay, Working

\* From one point to the next, with nothing else to see.
LEMMA GoOnKeeps ==
  ASSUME IInv, NEW state \in State, NEW pc \in Control, GoOn(state, pc), Untouched,
         UNCHANGED <<item, cancel>>,
         fsm.pc # "loop", state \in StateAt(pc), state # "MANUAL",
         fsm.pc \in Carrying => pc \in Carrying, pc \in Working => fsm.pc \in Working,
         pc \in {"toSource", "pick"} => fsm.pc \in {"toSource", "pick"}
  PROVE  IInv'
<1>1. /\ fsm \in Fsm /\ item \in Items /\ cancel \in Mission \cup {NoMission} /\ Located
  BY Types DEF IInv
<1>2. /\ fsm' \in Fsm /\ fsm'.state = state /\ fsm'.pc = pc
      /\ fsm'.mission = fsm.mission /\ fsm'.current = fsm.current
  BY <1>1, GoOnFields
<1>3. Located' /\ States'
  BY <1>1, <1>2 DEF Located, States
<1>4. fsm.state # "ERROR"
  BY <1>1 DEF IInv, States, StateAt, Fsm, Control
<1>5. Carried'
  BY <1>2, <1>4 DEF IInv, Carried
<1>6. \A m \in Mission : (UnderWay(m)' => UnderWay(m)) /\ (Fetching(m)' => Fetching(m))
  BY <1>2 DEF UnderWay, Working, Fetching
<1> QED BY <1>1, <1>2, <1>3, <1>5, <1>6, UntouchedBooks, StepsKeep

LEMMA QuietKeeps ==
  IInv /\ (AtSource \/ AtTarget \/ BackAtSource \/ GoHome \/ EndReturn \/ HomeDocked) => IInv'
<1> SUFFICES ASSUME IInv,
                    AtSource \/ AtTarget \/ BackAtSource \/ GoHome \/ EndReturn \/ HomeDocked
             PROVE  IInv'
  OBVIOUS
<1>1. Untouched /\ UNCHANGED <<item, cancel>>
  BY DEF AtSource, AtTarget, BackAtSource, GoHome, EndReturn, HomeDocked, Quietly, Untouched
<1>2. CASE AtSource
  <2>1. GoOn("PICK", "pick") /\ fsm.pc = "toSource"
    BY <1>2 DEF AtSource, Arrived
  <2> QED BY <1>1, <2>1, GoOnKeeps, Points DEF StateAt, Carrying, Working
<1>3. CASE AtTarget
  <2>1. GoOn("PLACE", "place") /\ fsm.pc = "toTarget"
    BY <1>3 DEF AtTarget, Arrived
  <2> QED BY <1>1, <2>1, GoOnKeeps, Points DEF StateAt, Carrying, Working
<1>4. CASE BackAtSource
  <2>1. GoOn("PLACE", "putBack") /\ fsm.pc = "back"
    BY <1>4 DEF BackAtSource, Arrived
  <2> QED BY <1>1, <2>1, GoOnKeeps, Points DEF StateAt, Carrying, Working
<1>5. CASE GoHome
  <2>1. (GoOn("IDLE", "loop") \/ GoOn("RETURNING", "return")) /\ fsm.pc = "chain"
    BY <1>5 DEF GoHome
  <2>2. CASE GoOn("IDLE", "loop")
    BY <1>1, <2>1, <2>2, GoOnKeeps, Points DEF StateAt, Carrying, Working
  <2>3. CASE GoOn("RETURNING", "return")
    BY <1>1, <2>1, <2>3, GoOnKeeps, Points DEF StateAt, Carrying, Working
  <2> QED BY <2>1, <2>2, <2>3
<1>6. CASE EndReturn
  <2>1. GoOn("RETURNING", "dock") /\ fsm.pc = "return"
    BY <1>6 DEF EndReturn, Arrived, Cancelled
  <2> QED BY <1>1, <2>1, GoOnKeeps, Points DEF StateAt, Carrying, Working
<1>7. CASE HomeDocked
  <2>1. GoOn("IDLE", "loop") /\ fsm.pc = "dock"
    BY <1>7 DEF HomeDocked
  <2> QED BY <1>1, <2>1, GoOnKeeps, Points DEF StateAt, Carrying, Working
<1> QED BY <1>2, <1>3, <1>4, <1>5, <1>6, <1>7

LEMMA SegmentKeeps == IInv /\ Segment => IInv'
<1> SUFFICES ASSUME IInv, Segment PROVE IInv'
  OBVIOUS
<1>1. /\ fsm \in Fsm /\ item \in Items /\ cancel \in Mission \cup {NoMission} /\ Located
      /\ Untouched /\ item' = item /\ cancel' = cancel /\ fsm.pc \in Driving
  BY Types DEF IInv, Segment, Untouched
<1>2. fsm.mission \in Mission
  BY <1>1, KnowsMission DEF Driving
<1>3. Destination \in Place /\ Aisle \in Place /\ NoPlace \notin Place
  BY <1>2, MissionAssumption DEF Destination
<1>4. PICK n \in Place : fsm' = [fsm EXCEPT !.current = n]
  BY <1>3 DEF Segment
<1>5. /\ fsm' \in Fsm /\ fsm'.state = fsm.state /\ fsm'.pc = fsm.pc
      /\ fsm'.mission = fsm.mission /\ fsm'.current = n
  BY <1>1, <1>4 DEF Fsm
<1>6. /\ Located' /\ Carried'
      /\ \A m \in Mission : (UnderWay(m)' => UnderWay(m)) /\ (Fetching(m)' => Fetching(m))
  BY <1>1, <1>3, <1>5 DEF IInv, Located, Carried, UnderWay, Fetching
<1>7. fsm.state # "MANUAL"
  BY <1>1 DEF IInv, States, StateAt, Driving
<1>8. States'
  BY <1>5, <1>7 DEF IInv, States
<1> QED BY <1>1, <1>5, <1>6, <1>8, UntouchedBooks, StepsKeep

LEMMA StartsKeep == IInv /\ (TakeMission \/ Chain \/ Preempted) => IInv'
<1> SUFFICES ASSUME IInv, TakeMission \/ Chain \/ Preempted PROVE IInv'
  OBVIOUS
<1>1. Start /\ fsm.current # NoPlace /\ fsm.pc \in {"loop", "chain", "return"}
  BY KnowsMission DEF TakeMission, Chain, Preempted
<1>2. fsm.state # "ERROR"
  BY DEF TakeMission, Chain, Preempted, IInv, States, StateAt
<1> QED BY <1>1, <1>2, StartKeeps DEF Carrying

LEMMA TurnsKeep == IInv /\ (PickThenTurnBack \/ CancelReturn) => IInv'
<1> SUFFICES ASSUME IInv, PickThenTurnBack \/ CancelReturn PROVE IInv'
  OBVIOUS
<1>1. /\ fsm \in Fsm /\ item \in Items /\ cancel \in Mission \cup {NoMission} /\ Located
  BY Types DEF IInv
<1>2. /\ fsm' = [fsm EXCEPT !.state = "TO_TARGET", !.pc = "back", !.oid = cancel]
      /\ cancel' = NoMission /\ Untouched /\ fsm.pc \in {"pick", "toTarget"}
  BY DEF PickThenTurnBack, CancelReturn, Cancelled, TurnBack, Untouched
<1>3. fsm.mission \in Mission /\ UnderWay(fsm.mission)
  BY <1>2, KnowsMission DEF Working, Carrying
<1>4. fsm' \in Fsm
  <2>1. ASSUME NEW f \in Fsm, NEW s \in State, NEW p \in Control, NEW o \in Mission \cup {NoMission}
        PROVE  [f EXCEPT !.state = s, !.pc = p, !.oid = o] \in Fsm
    BY <2>1 DEF Fsm
  <2>2. "TO_TARGET" \in State /\ "back" \in Control
    BY DEF State, Control
  <2> QED BY <1>1, <1>2, <2>1, <2>2, Zenon
<1>5. /\ fsm'.state = "TO_TARGET" /\ fsm'.pc = "back" /\ fsm'.mission = fsm.mission
      /\ fsm'.current = fsm.current
  BY <1>1, <1>2 DEF Fsm
<1>6. item' = item \/ item' = [item EXCEPT ![fsm.mission] = "fork"]
  BY DEF PickThenTurnBack, CancelReturn, Picked
<1>7. item' \in Items /\ \A m \in Mission \ {fsm.mission} : item'[m] = item[m]
  BY <1>1, <1>3, <1>6 DEF Items
<1>8. fsm.state # "ERROR"
  BY <1>2 DEF IInv, States, StateAt
<1>9. Carried'
  BY <1>2, <1>5, <1>7, <1>8 DEF IInv, Carried, Carrying
<1>10. /\ Located' /\ States'
       /\ \A m \in Mission : (UnderWay(m)' => UnderWay(m)) /\ ~Fetching(m)'
  BY <1>1, <1>2, <1>3, <1>5 DEF Located, States, StateAt, UnderWay, Fetching
<1>11. \A m \in Mission : item'[m] # item[m] => UnderWay(m)
  BY <1>3, <1>7
<1>12. cancel' \in Mission \cup {NoMission}
  BY <1>2
<1> QED BY <1>4, <1>7, <1>9, <1>10, <1>11, <1>12, <1>2, UntouchedBooks, StepsKeep

LEMMA FailuresKeep == IInv /\ (TravelFails \/ WorkFails) => IInv'
<1> SUFFICES ASSUME IInv, TravelFails \/ WorkFails PROVE IInv'
  OBVIOUS
<1>1. /\ fsm \in Fsm /\ item \in Items /\ cancel \in Mission \cup {NoMission} /\ Located
  BY Types DEF IInv
<1>2. /\ GoOn("ERROR", "loop") /\ cancel' = cancel /\ UNCHANGED <<queue, reports>>
      /\ books' = [books EXCEPT !.astray = @ \cup ({cancel} \ {NoMission})]
  BY DEF TravelFails, WorkFails, MissionFails
<1>3. /\ fsm' \in Fsm /\ fsm'.state = "ERROR" /\ fsm'.pc = "loop" /\ fsm'.mission = fsm.mission
  BY <1>1, <1>2, GoOnFields, Points
<1>4. item' \in Items /\ \A m \in Mission : item'[m] # item[m] => UnderWay(m)
  <2>1. CASE TravelFails
    BY <1>1, <2>1 DEF TravelFails
  <2>2. CASE WorkFails
    <3>1. fsm.mission \in Mission /\ UnderWay(fsm.mission)
      BY <2>2, KnowsMission DEF WorkFails, Working, Carrying
    <3>2. PICK where \in {"fork", "target", "source"} : item' = [item EXCEPT ![fsm.mission] = where]
      BY <2>2 DEF WorkFails
    <3> QED BY <1>1, <3>1, <3>2 DEF Items
  <2> QED BY <2>1, <2>2
<1>5. /\ Located' /\ States' /\ Carried'
      /\ \A m \in Mission : ~UnderWay(m)' /\ ~Fetching(m)'
  BY <1>3 DEF Located, States, StateAt, Carried, UnderWay, Carrying, Fetching
<1>6. books' \in Books /\ books'.heard <= Len(reports) /\ books'.assigned = books.assigned
  <2>1. books \in Books /\ books.heard <= Len(reports)
    BY Types DEF IInv
  <2> QED BY <1>1, <1>2, <2>1 DEF Books
<1> QED BY <1>1, <1>2, <1>3, <1>4, <1>5, <1>6, StepsKeep

\* What is seen of a robot that ends a mission.
LEMMA SeenIdle ==
  ASSUME IInv, books' = [books EXCEPT !.seen = "idle"]
  PROVE  /\ books' \in Books /\ books'.heard = books.heard /\ books'.assigned = books.assigned
<1>1. books \in Books
  BY Types DEF IInv
<1> QED BY <1>1 DEF Books

\* A mission that ends with a report.
LEMMA EndKeeps ==
  ASSUME IInv, GoOn("IDLE", "chain"), fsm.pc \in Working,
         NEW event \in Final, NEW order \in Mission \cup {NoMission}, Report(event, order),
         NEW where \in {"source", "target"}, item' = [item EXCEPT ![fsm.mission] = where],
         event = "target_done" => where = "target", event \in CancelEvents => where = "source",
         queue' = queue, cancel' \in Mission \cup {NoMission},
         books' = [books EXCEPT !.seen = "idle"]
  PROVE  IInv'
<1>1. /\ fsm \in Fsm /\ item \in Items /\ Located
  BY Types DEF IInv
<1>2. fsm.pc # "loop"
  BY DEF Working, Carrying
<1>3. fsm.mission \in Mission /\ UnderWay(fsm.mission)
  BY <1>2, KnowsMission
<1>4. /\ fsm' \in Fsm /\ fsm'.state = "IDLE" /\ fsm'.pc = "chain"
      /\ fsm'.mission = fsm.mission /\ fsm'.current = fsm.current
  BY <1>1, GoOnFields, Points
<1>5. /\ item' \in Items /\ item'[fsm.mission] = where
      /\ \A m \in Mission \ {fsm.mission} : item'[m] = item[m]
  BY <1>1, <1>3 DEF Items
<1>6. fsm.state # "ERROR"
  BY <1>1, <1>2 DEF IInv, States, StateAt, Fsm, Control
<1>7. Carried'
  BY <1>4, <1>5, <1>6 DEF IInv, Carried
<1>8. Located' /\ States'
  BY <1>1, <1>2, <1>4 DEF Located, States, StateAt
<1>9. \A m \in Mission : UnderWay(m)' => UnderWay(m) /\ event \notin Final
  BY <1>4 DEF UnderWay, Carrying
<1>10. reports' = Append(reports, [event |-> event, order |-> order, of |-> fsm.mission])
  BY DEF Report
<1>11. event \in CancelEvents \cup {"source_arrived", "target_done"}
  BY DEF Final
<1>12. /\ books' \in Books /\ books'.heard = books.heard /\ books'.assigned = books.assigned
  BY SeenIdle
<1> QED BY <1>3, <1>4, <1>5, <1>7, <1>8, <1>9, <1>10, <1>11, <1>12, ReportKeeps

LEMMA EndsKeep == IInv /\ (CancelAborted \/ PlaceDone \/ CancelReturned) => IInv'
<1> SUFFICES ASSUME IInv, CancelAborted \/ PlaceDone \/ CancelReturned PROVE IInv'
  OBVIOUS
<1>1. /\ fsm \in Fsm /\ item \in Items /\ cancel \in Mission \cup {NoMission}
  BY Types DEF IInv
<1>2. CASE CancelAborted
  <2>1. /\ fsm.pc = "toSource" /\ GoOn("IDLE", "chain") /\ Report("cancel_aborted", cancel)
        /\ cancel' = NoMission /\ queue' = queue /\ item' = item
        /\ books' = [books EXCEPT !.seen = "idle"]
    BY <1>2 DEF CancelAborted, Cancelled
  <2>2. fsm.mission \in Mission
    BY <2>1, KnowsMission
  <2>3. item[fsm.mission] = "source"
    BY <2>1, <2>2 DEF IInv, Unmoved, Fetching
  <2>4. item' = [item EXCEPT ![fsm.mission] = "source"]
    BY <1>1, <2>1, <2>2, <2>3 DEF Items
  <2> QED BY <1>1, <2>1, <2>4, EndKeeps DEF Final, CancelEvents, Working
<1>3. CASE PlaceDone
  <2>1. /\ fsm.pc = "place" /\ GoOn("IDLE", "chain") /\ Report("target_done", NoMission)
        /\ cancel' = NoMission /\ queue' = queue
        /\ item' = [item EXCEPT ![fsm.mission] = "target"]
        /\ books' = [books EXCEPT !.seen = "idle"]
    BY <1>3 DEF PlaceDone
  <2> QED BY <2>1, EndKeeps DEF Final, CancelEvents, Working, Carrying
<1>4. CASE CancelReturned
  <2>1. /\ fsm.pc = "putBack" /\ GoOn("IDLE", "chain") /\ Report("cancel_returned", fsm.oid)
        /\ cancel' = cancel /\ queue' = queue
        /\ item' = [item EXCEPT ![fsm.mission] = "source"]
        /\ books' = [books EXCEPT !.seen = "idle"] /\ fsm.oid \in Mission \cup {NoMission}
    BY <1>1, <1>4 DEF CancelReturned, Fsm
  <2> QED BY <1>1, <2>1, EndKeeps DEF Final, CancelEvents, Working, Carrying
<1> QED BY <1>2, <1>3, <1>4

\* The pallet is on the fork, and the fleet is told.
LEMMA PickKeeps == IInv /\ PickThenGo => IInv'
<1> SUFFICES ASSUME IInv, PickThenGo PROVE IInv'
  OBVIOUS
<1>1. /\ fsm \in Fsm /\ item \in Items /\ cancel \in Mission \cup {NoMission}
      /\ books \in Books /\ Located
  BY Types DEF IInv
<1>2. /\ fsm.pc = "pick" /\ item' = [item EXCEPT ![fsm.mission] = "fork"]
      /\ reports' = Append(reports, [event |-> "source_arrived", order |-> NoMission,
                                     of |-> fsm.mission])
      /\ GoOn("TO_TARGET", "toTarget") /\ queue' = queue /\ cancel' = cancel /\ books' = books
  BY DEF PickThenGo, Picked, Report
<1>3. fsm.mission \in Mission /\ UnderWay(fsm.mission)
  BY <1>2, KnowsMission DEF Working
<1>4. /\ fsm' \in Fsm /\ fsm'.state = "TO_TARGET" /\ fsm'.pc = "toTarget"
      /\ fsm'.mission = fsm.mission /\ fsm'.current = fsm.current
  BY <1>1, <1>2, GoOnFields, Points
<1>5. item' \in Items /\ \A m \in Mission \ {fsm.mission} : item'[m] = item[m]
  BY <1>1, <1>2, <1>3 DEF Items
<1>6. Carried'
  BY <1>2, <1>4, <1>5 DEF IInv, Carried, Carrying, States, StateAt
<1>7. Located' /\ States'
  BY <1>1, <1>2, <1>4 DEF Located, States, StateAt
<1>8. \A m \in Mission : UnderWay(m)' => UnderWay(m) /\ "source_arrived" \notin Final
  BY <1>3, <1>4 DEF UnderWay, Final, CancelEvents
<1>9. "source_arrived" \notin CancelEvents
  BY DEF CancelEvents
<1> QED BY <1>1, <1>2, <1>3, <1>4, <1>5, <1>6, <1>7, <1>8, <1>9, ReportKeeps

LEMMA StuttersKeep == IInv /\ UNCHANGED vars => IInv'
  BY DEF vars, IInv, TypeOK, States, Carried, Once, Queued, UnderWay, Ended, Unmoved, Fetching,
         OwnReports

LEMMA Inductive == IInv /\ [Next]_vars => IInv'
<1> SUFFICES ASSUME IInv, [Next]_vars PROVE IInv'
  OBVIOUS
<1>1. CASE MissionThread
  BY <1>1, DropKeeps, StartsKeep, SegmentKeeps, QuietKeeps, EndsKeep, TurnsKeep, PickKeeps,
     FailuresKeep DEF MissionThread
<1>2. CASE InitSpin \/ InitDone \/ Reset
  BY <1>2, StartUpKeeps, ResetKeeps
<1>3. CASE PublishStatus \/ FleetHears \/ \E m \in Mission : OnCancelMission(m)
  BY <1>3, BooksKeep
<1>4. CASE \E m \in Mission : OnAssignment(m)
  BY <1>4, OnAssignmentKeeps
<1> QED BY <1>1, <1>2, <1>3, <1>4, StuttersKeep DEF Next

-----------------------------------------------------------------------------
(* The names of the orders.                                                *)

LEMMA InitialNames == Init => Names
  BY DEF Init, Names, Flagged, Returning, Named

\* A step that reports nothing and forgets no cancel that went astray.
LEMMA NamesStay ==
  ASSUME Names, reports' = reports, books.astray \subseteq books'.astray, Flagged', Returning'
  PROVE  Names'
  BY DEF Names, Named

\* A step of the thread that leaves the flag and the books alone.
LEMMA GoOnNames ==
  ASSUME IInv, Names, NEW state \in State, NEW pc \in Control, GoOn(state, pc),
         UNCHANGED <<cancel, books, reports>>,
         fsm.pc \in {"toSource", "pick", "toTarget", "place"}
           => pc \in {"toSource", "pick", "toTarget", "place"},
         pc \in {"back", "putBack"} => fsm.pc \in {"back", "putBack"}
  PROVE  Names'
<1>1. fsm \in Fsm
  BY Types DEF IInv
<1>2. fsm'.pc = pc /\ fsm'.mission = fsm.mission /\ fsm'.oid = fsm.oid
  BY <1>1, GoOnFields
<1>3. Flagged' /\ Returning'
  BY <1>2 DEF Names, Flagged, Returning, Running
<1> QED BY <1>3, NamesStay

\* A report about the mission that is under way, which names it or is no cancel.
LEMMA ReportNames ==
  ASSUME IInv, Names, NEW event, NEW order, Report(event, order),
         books'.astray = books.astray, Flagged', Returning',
         event \in CancelEvents /\ order \notin books.astray => order = fsm.mission
  PROVE  Names'
<1> DEFINE r == [event |-> event, order |-> order, of |-> fsm.mission]
<1>1. reports \in Seq(TaskReport) /\ reports' = Append(reports, r)
  BY Types DEF IInv, Report
<1>2. r.event = event /\ r.order = order /\ r.of = fsm.mission
  OBVIOUS
<1> HIDE DEF r
<1>3. \A i \in 1..Len(reports') : \/ i \in 1..Len(reports) /\ reports'[i] = reports[i]
                                  \/ reports'[i] = r
  BY <1>1
<1>4. Named'
  BY <1>2, <1>3 DEF Names, Named
<1> QED BY <1>4 DEF Names

LEMMA ThreadNames == ASSUME IInv, Names, MissionThread PROVE Names'
<1>1. /\ fsm \in Fsm /\ cancel \in Mission \cup {NoMission} /\ books \in Books
  BY Types DEF IInv
<1>2. CASE DropMission
  BY <1>2 DEF DropMission, Names, Flagged, Returning, Named, Running
<1>3. CASE TakeMission \/ Chain \/ Preempted
  <2>1. /\ UNCHANGED <<cancel, books, reports>> /\ fsm.pc \in {"loop", "chain", "return"}
        /\ fsm'.pc = "toSource"
    BY <1>1, <1>3 DEF TakeMission, Chain, Preempted, Start, Fsm
  <2>2. Flagged' /\ Returning'
    BY <2>1 DEF Names, Flagged, Returning, Running
  <2> QED BY <2>1, <2>2, NamesStay
<1>4. CASE Segment
  <2>1. /\ UNCHANGED <<cancel, books, reports>> /\ fsm'.pc = fsm.pc
        /\ fsm'.mission = fsm.mission /\ fsm'.oid = fsm.oid
    BY <1>1, <1>4 DEF Segment, Fsm
  <2>2. Flagged' /\ Returning'
    BY <2>1 DEF Names, Flagged, Returning, Running
  <2> QED BY <2>1, <2>2, NamesStay
<1>5. CASE AtSource \/ AtTarget \/ BackAtSource \/ GoHome \/ EndReturn \/ HomeDocked
  <2>1. UNCHANGED <<cancel, books, reports>>
    BY <1>5 DEF AtSource, AtTarget, BackAtSource, GoHome, EndReturn, HomeDocked, Quietly
  <2>2. \/ fsm.pc = "toSource" /\ GoOn("PICK", "pick")
        \/ fsm.pc = "toTarget" /\ GoOn("PLACE", "place")
        \/ fsm.pc = "back" /\ GoOn("PLACE", "putBack")
        \/ fsm.pc \in {"chain", "dock"} /\ GoOn("IDLE", "loop")
        \/ fsm.pc = "chain" /\ GoOn("RETURNING", "return")
        \/ fsm.pc = "return" /\ GoOn("RETURNING", "dock")
    BY <1>5 DEF AtSource, AtTarget, BackAtSource, GoHome, EndReturn, HomeDocked, Arrived, Cancelled
  <2> QED BY <2>1, <2>2, GoOnNames, Points
<1>6. CASE PickThenTurnBack \/ CancelReturn
  <2>1. /\ cancel # NoMission /\ cancel' = NoMission /\ UNCHANGED <<books, reports>>
        /\ fsm'.oid = cancel /\ fsm'.mission = fsm.mission
    BY <1>1, <1>6 DEF PickThenTurnBack, CancelReturn, Cancelled, TurnBack, Fsm
  <2>2. Flagged' /\ Returning'
    BY <2>1 DEF Names, Flagged, Returning, Running
  <2> QED BY <2>1, <2>2, NamesStay
<1>7. CASE PickThenGo
  <2>1. /\ GoOn("TO_TARGET", "toTarget") /\ fsm.pc = "pick" /\ cancel = NoMission
        /\ UNCHANGED <<cancel, books>> /\ Report("source_arrived", NoMission)
    BY <1>7 DEF PickThenGo
  <2>2. fsm'.pc = "toTarget"
    BY <1>1, <2>1, GoOnFields, Points
  <2>3. Flagged' /\ Returning'
    BY <2>1, <2>2 DEF Flagged, Returning
  <2> QED BY <2>1, <2>3, ReportNames DEF CancelEvents
<1>8. CASE CancelAborted \/ PlaceDone
  <2>1. /\ GoOn("IDLE", "chain") /\ cancel' = NoMission
        /\ books' = [books EXCEPT !.seen = "idle"]
        /\ \/ cancel # NoMission /\ Report("cancel_aborted", cancel)
           \/ Report("target_done", NoMission)
    BY <1>8 DEF CancelAborted, PlaceDone, Cancelled
  <2>2. fsm'.pc = "chain" /\ books'.astray = books.astray
    BY <1>1, <2>1, GoOnFields, Points DEF Books
  <2>3. Flagged' /\ Returning'
    BY <2>1, <2>2 DEF Flagged, Returning
  <2>4. cancel # NoMission /\ cancel \notin books.astray => cancel = fsm.mission
    BY DEF Names, Flagged, Running
  <2> QED BY <2>1, <2>2, <2>3, <2>4, ReportNames DEF CancelEvents
<1>9. CASE CancelReturned
  <2>1. /\ GoOn("IDLE", "chain") /\ cancel' = cancel /\ fsm.pc = "putBack"
        /\ books' = [books EXCEPT !.seen = "idle"] /\ Report("cancel_returned", fsm.oid)
    BY <1>9 DEF CancelReturned
  <2>2. fsm'.pc = "chain" /\ books'.astray = books.astray
    BY <1>1, <2>1, GoOnFields, Points DEF Books
  <2>3. Flagged' /\ Returning'
    BY <2>1, <2>2 DEF Names, Flagged, Returning, Running
  <2>4. fsm.oid \notin books.astray => fsm.oid = fsm.mission
    BY <2>1 DEF Names, Returning
  <2> QED BY <2>1, <2>2, <2>3, <2>4, ReportNames
<1>10. CASE TravelFails \/ WorkFails
  <2>1. /\ GoOn("ERROR", "loop") /\ cancel' = cancel /\ reports' = reports
        /\ books' = [books EXCEPT !.astray = @ \cup ({cancel} \ {NoMission})]
    BY <1>10 DEF TravelFails, WorkFails, MissionFails
  <2>2. fsm'.pc = "loop" /\ books'.astray = books.astray \cup ({cancel} \ {NoMission})
    BY <1>1, <2>1, GoOnFields, Points DEF Books
  <2>3. Flagged' /\ Returning'
    BY <2>1, <2>2 DEF Flagged, Returning
  <2> QED BY <2>1, <2>2, <2>3, NamesStay
<1> QED BY <1>2, <1>3, <1>4, <1>5, <1>6, <1>7, <1>8, <1>9, <1>10 DEF MissionThread

LEMMA NamesKept == IInv /\ Names /\ [Next]_vars => Names'
<1> SUFFICES ASSUME IInv, Names, [Next]_vars PROVE Names'
  OBVIOUS
<1>1. fsm \in Fsm /\ books \in Books
  BY Types DEF IInv
<1>2. CASE InitSpin \/ InitDone \/ Reset
  <2>1. /\ UNCHANGED <<cancel, books, reports>> /\ fsm'.pc = fsm.pc
        /\ fsm'.mission = fsm.mission /\ fsm'.oid = fsm.oid
    BY <1>1, <1>2 DEF InitSpin, InitDone, Reset, Fsm
  <2>2. Flagged' /\ Returning'
    BY <2>1 DEF Names, Flagged, Returning, Running
  <2> QED BY <2>1, <2>2, NamesStay
<1>3. CASE PublishStatus \/ FleetHears \/ \E m \in Mission : OnAssignment(m)
  <2>1. /\ UNCHANGED <<fsm, cancel, reports>> /\ books'.astray = books.astray
    BY <1>1, <1>3 DEF PublishStatus, FleetHears, OnAssignment, Books
  <2>2. Flagged' /\ Returning'
    BY <2>1 DEF Names, Flagged, Returning, Running
  <2> QED BY <2>1, <2>2, NamesStay
<1>4. CASE \E m \in Mission : OnCancelMission(m)
  <2>1. PICK m \in Mission : OnCancelMission(m)
    BY <1>4
  <2>2. /\ fsm' = fsm /\ reports' = reports /\ cancel' = m
        /\ books'.astray = IF Running(m) THEN books.astray ELSE books.astray \cup {m}
    BY <1>1, <2>1 DEF OnCancelMission, Books
  <2>3. Flagged' /\ Returning'
    BY <2>2 DEF Names, Flagged, Returning, Running
  <2> QED BY <2>2, <2>3, NamesStay
<1>5. CASE UNCHANGED vars
  BY <1>5 DEF vars, Names, Flagged, Returning, Named, Running
<1> QED BY <1>2, <1>3, <1>4, <1>5, ThreadNames DEF Next

-----------------------------------------------------------------------------
(* The transitions.                                                        *)

Declared == fsm'.state # fsm.state => fsm'.state \in Transitions[fsm.state]

LEMMA Listed ==
  /\ Transitions["IDLE"] = {"TO_SOURCE", "RETURNING", "MANUAL"}
  /\ Transitions["TO_SOURCE"] = {"PICK", "IDLE", "ERROR"}
  /\ Transitions["PICK"] = {"TO_TARGET", "ERROR"}
  /\ Transitions["TO_TARGET"] = {"PLACE", "ERROR"}
  /\ Transitions["PLACE"] = {"IDLE", "ERROR"}
  /\ Transitions["RETURNING"] = {"IDLE", "TO_SOURCE", "ERROR"}
  /\ Transitions["MANUAL"] = {"IDLE", "ERROR"}
  /\ Transitions["ERROR"] = {"IDLE", "MANUAL"}
  BY DEF Transitions, State

\* A step that goes on from one point of the thread to the next.
LEMMA GoOnDeclared ==
  ASSUME IInv, NEW state \in State, NEW pc \in Control, GoOn(state, pc),
         \A s \in StateAt(fsm.pc) : state = s \/ state \in Transitions[s]
  PROVE  Declared
<1>1. fsm \in Fsm
  BY Types DEF IInv
<1>2. fsm'.state = state
  BY <1>1, GoOnFields
<1> QED BY <1>2 DEF IInv, States, Declared

LEMMA StartDeclared == ASSUME IInv, TakeMission \/ Chain \/ Preempted PROVE Declared
<1>1. fsm \in Fsm
  BY Types DEF IInv
<1>2. fsm'.state = "TO_SOURCE"
  BY <1>1 DEF TakeMission, Chain, Preempted, Start, Fsm
<1>3. fsm.state \in {"IDLE", "RETURNING"}
  BY DEF IInv, States, StateAt, TakeMission, Chain, Preempted
<1> QED BY <1>2, <1>3, Listed DEF Declared

LEMMA ThreadDeclared == ASSUME IInv, MissionThread PROVE Declared
<1>1. fsm \in Fsm
  BY Types DEF IInv
<1>2. CASE TakeMission \/ Chain \/ Preempted
  BY <1>2, StartDeclared
<1>3. CASE DropMission \/ Segment
  BY <1>1, <1>3 DEF DropMission, Segment, Declared, Fsm
<1>4. CASE AtSource
  <2>1. GoOn("PICK", "pick") /\ fsm.pc = "toSource"
    BY <1>4 DEF AtSource, Arrived
  <2> QED BY <2>1, GoOnDeclared, Listed, Points DEF StateAt
<1>5. CASE AtTarget \/ BackAtSource
  <2>1. fsm.pc \in {"toTarget", "back"} /\ (GoOn("PLACE", "place") \/ GoOn("PLACE", "putBack"))
    BY <1>5 DEF AtTarget, BackAtSource, Arrived
  <2>2. \A s \in StateAt(fsm.pc) : "PLACE" \in Transitions[s]
    BY <2>1, Listed DEF StateAt
  <2> QED BY <2>1, <2>2, GoOnDeclared, Points
<1>6. CASE GoHome
  <2>1. fsm.pc = "chain" /\ (GoOn("IDLE", "loop") \/ GoOn("RETURNING", "return"))
    BY <1>6 DEF GoHome
  <2>2. \A s \in StateAt(fsm.pc) : s = "IDLE" /\ "RETURNING" \in Transitions[s]
    BY <2>1, Listed DEF StateAt
  <2> QED BY <2>1, <2>2, GoOnDeclared, Points
<1>7. CASE EndReturn \/ HomeDocked
  <2>1. fsm.pc \in {"return", "dock"} /\ (GoOn("RETURNING", "dock") \/ GoOn("IDLE", "loop"))
    BY <1>7 DEF EndReturn, HomeDocked, Arrived, Cancelled
  <2>2. \A s \in StateAt(fsm.pc) : s = "RETURNING" /\ "IDLE" \in Transitions[s]
    BY <2>1, Listed DEF StateAt
  <2> QED BY <2>1, <2>2, GoOnDeclared, Points
<1>8. CASE CancelAborted \/ PlaceDone \/ CancelReturned
  <2>1. fsm.pc \in {"toSource", "place", "putBack"} /\ GoOn("IDLE", "chain")
    BY <1>8 DEF CancelAborted, PlaceDone, CancelReturned, Cancelled
  <2>2. \A s \in StateAt(fsm.pc) : "IDLE" \in Transitions[s]
    BY <2>1, Listed DEF StateAt
  <2> QED BY <2>1, <2>2, GoOnDeclared, Points
<1>9. CASE PickThenTurnBack \/ CancelReturn
  <2>1. fsm.pc \in {"pick", "toTarget"} /\ fsm'.state = "TO_TARGET"
    BY <1>1, <1>9 DEF PickThenTurnBack, CancelReturn, TurnBack, Cancelled, Fsm
  <2> QED BY <2>1, Listed DEF IInv, States, StateAt, Declared
<1>10. CASE PickThenGo
  <2>1. fsm.pc = "pick" /\ GoOn("TO_TARGET", "toTarget")
    BY <1>10 DEF PickThenGo
  <2>2. \A s \in StateAt(fsm.pc) : "TO_TARGET" \in Transitions[s]
    BY <2>1, Listed DEF StateAt
  <2> QED BY <2>1, <2>2, GoOnDeclared, Points
<1>11. CASE TravelFails \/ WorkFails
  <2>1. /\ GoOn("ERROR", "loop")
        /\ fsm.pc \in {"toSource", "toTarget", "back", "return", "pick", "place", "putBack"}
    BY <1>11 DEF TravelFails, WorkFails, MissionFails, Driving
  <2>2. \A s \in StateAt(fsm.pc) : "ERROR" \in Transitions[s]
    BY <2>1, Listed DEF StateAt
  <2> QED BY <2>1, <2>2, GoOnDeclared, Points
<1> QED BY <1>2, <1>3, <1>4, <1>5, <1>6, <1>7, <1>8, <1>9, <1>10, <1>11 DEF MissionThread

LEMMA StepsDeclared == ASSUME IInv, [Next]_vars PROVE Declared
<1>1. fsm \in Fsm
  BY Types DEF IInv
<1>2. CASE InitSpin \/ InitDone \/ Reset
  <2>1. \/ fsm.state = "IDLE" /\ fsm'.state = "MANUAL"
        \/ fsm.state \in {"MANUAL", "ERROR"} /\ fsm'.state = "IDLE"
    BY <1>1, <1>2 DEF InitSpin, InitDone, Reset, Fsm
  <2> QED BY <2>1, Listed DEF Declared
<1>3. CASE PublishStatus \/ FleetHears \/ \E m \in Mission : OnAssignment(m) \/ OnCancelMission(m)
  BY <1>3 DEF PublishStatus, FleetHears, OnAssignment, OnCancelMission, Declared
<1>4. CASE UNCHANGED vars
  BY <1>4 DEF vars, Declared
<1> QED BY <1>2, <1>3, <1>4, ThreadDeclared DEF Next

-----------------------------------------------------------------------------
(* The theorems.                                                           *)

\* A mission is run once, and its pallet is where its point of the thread has it.
THEOREM Invariant == Spec => []IInv
<1> QED BY Initial, Inductive, PTL DEF Spec

\* Every variable keeps its type, and a mission runs only when the robot knows where
\* it is, whatever the callbacks do while the mission thread runs.
THEOREM TypeCorrect == Spec => []TypeOK
<1>1. IInv => TypeOK
  BY DEF IInv
<1> QED BY <1>1, Invariant, PTL

\* A robot that publishes idle has nothing on its fork, at whatever step the status
\* timer fires (states.external_status, robot_fsm._publish_status).
THEOREM IdleIsEmpty == Spec => []OfferedEmpty
<1>1. IInv => OfferedEmpty
  <2> SUFFICES ASSUME IInv, ExtStatus(fsm.state) = "idle", NEW m \in Mission, item[m] = "fork"
               PROVE  FALSE
    BY DEF OfferedEmpty
  <2>1. fsm.state \in {"IDLE", "RETURNING"}
    BY DEF ExtStatus
  <2>2. fsm.pc \in Carrying
    BY <2>1 DEF IInv, Carried
  <2> QED BY <2>1, <2>2 DEF IInv, States, StateAt, Carrying
<1> QED BY <1>1, Invariant, PTL

\* A cancel that did not go astray is reported under the order of the mission that it
\* ended (robot_fsm._on_cancel_mission, _cancel_aborted, _cancel_return).
THEOREM RightNames == Spec => []Names
<1> QED BY Initial, InitialNames, Inductive, NamesKept, PTL DEF Spec

\* The pallet of a mission reported done is at its target, of an order reported
\* cancelled at its source, whenever the cancels come and whatever is run afterwards,
\* unless the cancel went astray.
THEOREM ReportsAreTrue == Spec => []ReportTellsWhere
<1>1. IInv /\ Names => ReportTellsWhere
  BY DEF IInv, OwnReports, Names, Named, ReportTellsWhere
<1> QED BY <1>1, Invariant, RightNames, PTL

\* No step takes the state machine through a transition that states.TRANSITIONS
\* does not list (robot_fsm._set_state).
THEOREM OnlyDeclared == Spec => DeclaredTransitions
<1>1. IInv /\ [Next]_vars => [fsm'.state # fsm.state => fsm'.state \in Transitions[fsm.state]]_fsm
  BY StepsDeclared DEF Declared
<1> QED BY <1>1, Invariant, PTL DEF Spec, DeclaredTransitions

=============================================================================
