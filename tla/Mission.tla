------------------------------ MODULE Mission ------------------------------
(***************************************************************************)
(* The mission loop of one robot (robot_fsm.py, states.py): the thread     *)
(* that takes assignments from a queue, carries a pallet from its source   *)
(* to its target and goes home when nothing else is to do, and the         *)
(* callbacks that fill the queue and set the flag of a customer's cancel   *)
(* while it runs.                                                          *)
(*                                                                         *)
(* A travel call is a walk of one or two segments; it ends as 'done',      *)
(* 'failed', and, where the travel loop looks at its flags, 'cancelled' or *)
(* 'preempted' (travel.py; how it gets along with other robots is the      *)
(* subject of module Travel).  Fork and docking work ends or fails.        *)
(*                                                                         *)
(* The fleet is external: it hands out a mission when the last status it   *)
(* has seen is idle, and may revoke an outbound mission until it has heard *)
(* that the pallet was delivered.                                          *)
(***************************************************************************)
EXTENDS Naturals, SequencesExt

CONSTANTS
  Mission,    \* the missions handed out, one assignment each
  Outbound,   \* those that serve an order, which its customer may cancel
  Place,      \* the nodes a robot stops at
  Home,       \* the home of this robot
  Aisle,      \* a node between any two others
  Source,     \* [Mission -> Place]
  Target,     \* [Mission -> Place]
  MayFail     \* whether driving, docking and the fork may fail

NoMission == 0
NoPlace == "none"

ASSUME MissionAssumption ==
  /\ Mission \subseteq Nat \ {NoMission}
  /\ Outbound \subseteq Mission
  /\ {Home, Aisle} \subseteq Place /\ NoPlace \notin Place
  /\ Source \in [Mission -> Place] /\ Target \in [Mission -> Place]
  /\ MayFail \in BOOLEAN

VARIABLES
  fsm,        \* state, control point, mission, order of an obeyed cancel, current node
  queue,      \* assignments received and not taken
  cancel,     \* _cancel_order_id
  item,       \* per mission, where its pallet is
  reports,    \* all task_reports so far, each with the mission it was sent in
  books       \* the fleet's side: status seen, missions handed out and revoked, number
              \* of reports heard, and, as history, the cancels that went astray: they
              \* came while their mission was not running, or were left over from a
              \* failure

vars == <<fsm, queue, cancel, item, reports, books>>

State == {"IDLE", "TO_SOURCE", "PICK", "TO_TARGET", "PLACE", "RETURNING", "MANUAL", "ERROR"}

Transitions ==
  [s \in State |->
     CASE s = "IDLE"      -> {"TO_SOURCE", "RETURNING", "MANUAL"}
       [] s = "TO_SOURCE" -> {"PICK", "IDLE", "ERROR"}
       [] s = "PICK"      -> {"TO_TARGET", "ERROR"}
       [] s = "TO_TARGET" -> {"PLACE", "ERROR"}
       [] s = "PLACE"     -> {"IDLE", "ERROR"}
       [] s = "RETURNING" -> {"IDLE", "TO_SOURCE", "ERROR"}
       [] s = "MANUAL"    -> {"IDLE", "ERROR"}
       [] s = "ERROR"     -> {"IDLE", "MANUAL"}]

ExtStatus(s) ==
  IF s = "ERROR" THEN "error" ELSE IF s \in {"IDLE", "RETURNING"} THEN "idle" ELSE "busy"

Control ==
  {"loop", "toSource", "pick", "toTarget", "place", "back", "putBack", "chain", "return", "dock"}

Init ==
  /\ fsm = [state |-> "IDLE", pc |-> "loop", mission |-> NoMission, oid |-> NoMission,
            current |-> NoPlace]
  /\ queue = <<>> /\ cancel = NoMission
  /\ item = [m \in Mission |-> "source"]
  /\ reports = <<>>
  /\ books = [seen |-> "idle", assigned |-> {}, revoked |-> {}, heard |-> 0, astray |-> {}]

-----------------------------------------------------------------------------
(* The fleet and the callbacks.                                            *)

\* _publish_status: by the 1 Hz timer.
PublishStatus ==
  /\ books' = [books EXCEPT !.seen = ExtStatus(fsm.state)]
  /\ UNCHANGED <<fsm, queue, cancel, item, reports>>

OnAssignment(m) ==
  /\ m \in Mission \ books.assigned /\ books.seen = "idle"
  /\ queue' = Append(queue, m)
  /\ books' = [books EXCEPT !.assigned = @ \cup {m}]
  /\ UNCHANGED <<fsm, cancel, item, reports>>

HeardOf(m) == \E i \in 1..books.heard : reports[i].event = "target_done" /\ reports[i].of = m

\* The mission of the order is under way, and not on its way back.
Running(m) == fsm.mission = m /\ fsm.pc \in {"toSource", "pick", "toTarget", "place"}

\* The robot does not compare the order with its mission.
OnCancelMission(m) ==
  /\ m \in (books.assigned \cap Outbound) \ books.revoked /\ ~HeardOf(m)
  /\ cancel' = m
  /\ books' = [books EXCEPT !.revoked = @ \cup {m},
                            !.astray = IF Running(m) THEN @ ELSE @ \cup {m}]
  /\ UNCHANGED <<fsm, queue, item, reports>>

FleetHears ==
  /\ books.heard < Len(reports)
  /\ books' = [books EXCEPT !.heard = @ + 1]
  /\ UNCHANGED <<fsm, queue, cancel, item, reports>>

-----------------------------------------------------------------------------
(* Start-up, and the operator's reset.                                     *)

\* _auto_init: the robot turns to localise itself, then knows where it is.
InitSpin ==
  /\ fsm.current = NoPlace /\ fsm.state = "IDLE"
  /\ fsm' = [fsm EXCEPT !.state = "MANUAL"]
  /\ UNCHANGED <<queue, cancel, item, reports, books>>

InitDone ==
  /\ fsm.current = NoPlace /\ fsm.state = "MANUAL"
  /\ fsm' = [fsm EXCEPT !.state = "IDLE", !.current = Home]
  /\ UNCHANGED <<queue, cancel, item, reports, books>>

\* The operator puts the robot right, takes a pallet off the fork and resets.
Reset ==
  /\ fsm.state = "ERROR"
  /\ fsm' = [fsm EXCEPT !.state = "IDLE"]
  /\ item' = [m \in Mission |-> IF item[m] = "fork" THEN "aside" ELSE item[m]]
  /\ UNCHANGED <<queue, cancel, reports, books>>

-----------------------------------------------------------------------------
(* Driving: one travel call.                                               *)

Driving == {"toSource", "toTarget", "back", "return"}

Destination ==
  CASE fsm.pc = "return" -> Home
    [] fsm.pc = "toTarget" -> Target[fsm.mission]
    [] OTHER -> Source[fsm.mission]

Segment ==
  /\ fsm.pc \in Driving /\ fsm.current # Destination
  /\ \E n \in {Destination, Aisle} \ {fsm.current} : fsm' = [fsm EXCEPT !.current = n]
  /\ UNCHANGED <<queue, cancel, item, reports, books>>

\* The results of the call.  A cancel that comes after the flag was looked at
\* for the last time does not keep the call from ending as 'done'.
Arrived(pc) == fsm.pc = pc /\ fsm.current = Destination
Cancelled(pc) == fsm.pc = pc /\ cancel # NoMission

-----------------------------------------------------------------------------
(* The mission.                                                            *)

GoOn(state, pc) == fsm' = [fsm EXCEPT !.state = state, !.pc = pc]

\* _report, with the order it names, if any; an event of fleet interest.
Report(event, order) ==
  reports' = Append(reports, [event |-> event, order |-> order, of |-> fsm.mission])

Quietly == UNCHANGED <<queue, cancel, item, reports, books>>

\* _run_mission begins: with the first assignment of the queue.
Start ==
  /\ queue # <<>>
  /\ fsm' = [fsm EXCEPT !.state = "TO_SOURCE", !.pc = "toSource", !.mission = Head(queue)]
  /\ queue' = Tail(queue)
  /\ UNCHANGED <<cancel, item, reports, books>>

\* An assignment that comes before the robot knows where it is gets lost.
DropMission ==
  /\ fsm.pc = "loop" /\ fsm.state # "ERROR" /\ fsm.current = NoPlace /\ queue # <<>>
  /\ queue' = Tail(queue)
  /\ UNCHANGED <<fsm, cancel, item, reports, books>>

\* Mutant: the position is not looked at.
TakeAtOnce == fsm.pc = "loop" /\ fsm.state # "ERROR" /\ Start

TakeMission ==
  fsm.pc = "loop" /\ fsm.state # "ERROR" /\ fsm.current # NoPlace /\ Start

\* Mutant: the flag is cleared on arrival.
AtSourceClearing ==
  /\ Arrived("toSource") /\ GoOn("PICK", "pick")
  /\ cancel' = NoMission /\ UNCHANGED <<queue, item, reports, books>>

AtSource == Arrived("toSource") /\ GoOn("PICK", "pick") /\ Quietly

\* Mutant: the way home begins at once.
CancelAbortedHomewards ==
  /\ Cancelled("toSource")
  /\ GoOn("RETURNING", "return")
  /\ cancel' = NoMission
  /\ Report("cancel_aborted", cancel)
  /\ UNCHANGED <<queue, item, books>>

\* _cancel_aborted: nothing was picked up.
CancelAborted ==
  /\ Cancelled("toSource")
  /\ GoOn("IDLE", "chain")
  /\ cancel' = NoMission
  /\ Report("cancel_aborted", cancel)
  /\ books' = [books EXCEPT !.seen = "idle"]
  /\ UNCHANGED <<queue, item>>

\* _cancel_return begins: the flag is consumed, the robot turns back.
TurnBack ==
  /\ fsm' = [fsm EXCEPT !.state = "TO_TARGET", !.pc = "back", !.oid = cancel]
  /\ cancel' = NoMission
  /\ UNCHANGED <<queue, reports, books>>

Picked == item' = [item EXCEPT ![fsm.mission] = "fork"]

PickThenTurnBack ==
  /\ fsm.pc = "pick" /\ cancel # NoMission
  /\ Picked /\ TurnBack

PickThenGo ==
  /\ fsm.pc = "pick" /\ cancel = NoMission
  /\ Picked
  /\ Report("source_arrived", NoMission)
  /\ GoOn("TO_TARGET", "toTarget")
  /\ UNCHANGED <<queue, cancel, books>>

AtTarget == Arrived("toTarget") /\ GoOn("PLACE", "place") /\ Quietly

\* Mutant: a loaded robot gives up like an empty one.
CancelReturnAborting ==
  /\ Cancelled("toTarget") /\ GoOn("IDLE", "chain")
  /\ cancel' = NoMission /\ UNCHANGED <<queue, item, reports, books>>

CancelReturn == Cancelled("toTarget") /\ TurnBack /\ UNCHANGED item

\* Mutant: the flag outlives the mission.
PlaceDoneKeepingCancel ==
  /\ fsm.pc = "place"
  /\ item' = [item EXCEPT ![fsm.mission] = "target"]
  /\ Report("target_done", NoMission)
  /\ GoOn("IDLE", "chain")
  /\ books' = [books EXCEPT !.seen = "idle"]
  /\ UNCHANGED <<queue, cancel>>

\* A cancel during PLACE is dropped, the fleet has the pallet reclaimed.
PlaceDone ==
  /\ fsm.pc = "place"
  /\ item' = [item EXCEPT ![fsm.mission] = "target"]
  /\ cancel' = NoMission
  /\ Report("target_done", NoMission)
  /\ GoOn("IDLE", "chain")
  /\ books' = [books EXCEPT !.seen = "idle"]
  /\ UNCHANGED queue

BackAtSource == Arrived("back") /\ GoOn("PLACE", "putBack") /\ Quietly

CancelReturned ==
  /\ fsm.pc = "putBack"
  /\ item' = [item EXCEPT ![fsm.mission] = "source"]
  /\ Report("cancel_returned", fsm.oid)
  /\ GoOn("IDLE", "chain")
  /\ books' = [books EXCEPT !.seen = "idle"]
  /\ UNCHANGED <<queue, cancel>>

\* The mission is over: for CHAIN_WAIT the robot waits for the next one.
Chain == fsm.pc = "chain" /\ Start

GoHome ==
  /\ fsm.pc = "chain" /\ queue = <<>>
  /\ IF fsm.current = Home THEN GoOn("IDLE", "loop") ELSE GoOn("RETURNING", "return")
  /\ Quietly

\* Mutant: the assignment is taken and not returned.
PreemptedDropping ==
  /\ fsm.pc = "return" /\ queue # <<>> /\ GoOn("RETURNING", "loop")
  /\ queue' = Tail(queue) /\ UNCHANGED <<cancel, item, reports, books>>

\* _return_home: given up for an assignment; every other end but 'failed' is
\* followed by docking.
Preempted == fsm.pc = "return" /\ Start

EndReturn == (Arrived("return") \/ Cancelled("return")) /\ GoOn("RETURNING", "dock") /\ Quietly

HomeDocked == fsm.pc = "dock" /\ GoOn("IDLE", "loop") /\ Quietly

\* _set_error: any travel call or work of a mission fails, and a travel call
\* that takes a pallet back is cancelled once more.  The flag stays as it is.
MissionFails ==
  /\ GoOn("ERROR", "loop")
  /\ books' = [books EXCEPT !.astray = @ \cup ({cancel} \ {NoMission})]
  /\ UNCHANGED <<queue, cancel, reports>>

TravelFails ==
  /\ fsm.pc \in Driving /\ (MayFail \/ Cancelled("back"))
  /\ MissionFails /\ UNCHANGED item

WorkFails ==
  /\ fsm.pc \in {"pick", "place", "putBack"} /\ MayFail
  /\ MissionFails
  /\ \E where \in {"fork", IF fsm.pc = "place" THEN "target" ELSE "source"} :
       item' = [item EXCEPT ![fsm.mission] = where]

-----------------------------------------------------------------------------

MissionThread ==
  \/ DropMission \/ TakeMission \/ Segment \/ AtSource \/ CancelAborted
  \/ PickThenTurnBack \/ PickThenGo \/ AtTarget \/ CancelReturn \/ PlaceDone
  \/ BackAtSource \/ CancelReturned \/ Chain \/ GoHome \/ Preempted \/ EndReturn
  \/ HomeDocked \/ TravelFails \/ WorkFails

Next ==
  \/ MissionThread \/ InitSpin \/ InitDone \/ Reset
  \/ PublishStatus \/ FleetHears
  \/ \E m \in Mission : OnAssignment(m) \/ OnCancelMission(m)

\* The mission thread runs on, and the travel calls it makes return.
Spec == Init /\ [][Next]_vars /\ WF_vars(MissionThread)

-----------------------------------------------------------------------------
(* Properties.                                                             *)

CancelEvents == {"cancel_aborted", "cancel_returned"}

TaskReport == [event : CancelEvents \cup {"source_arrived", "target_done"},
            order : Mission \cup {NoMission}, of : Mission]

\* The fleet has been told that the order of m was cancelled.
CancelReported(m) ==
  \E i \in 1..Len(reports) : reports[i].order = m /\ reports[i].event \in CancelEvents

\* The run of m has come to an end, under whatever order it was reported.
Ends(m) ==
  \E i \in 1..Len(reports) :
    reports[i].of = m /\ reports[i].event \in CancelEvents \cup {"target_done"}

\* Every field keeps its type, whatever the callbacks do while the mission
\* thread runs; a mission runs only when the robot knows where it is.
TypeOK ==
  /\ fsm \in [state : State, pc : Control, mission : Mission \cup {NoMission},
              oid : Mission \cup {NoMission}, current : Place \cup {NoPlace}]
  /\ fsm.pc # "loop" => fsm.mission # NoMission /\ fsm.current # NoPlace
  /\ queue \in Seq(Mission) /\ cancel \in Mission \cup {NoMission}
  /\ item \in [Mission -> {"source", "fork", "target", "aside"}]
  /\ reports \in Seq(TaskReport)
  /\ books \in [seen : {"idle", "busy", "error"}, assigned : SUBSET Mission,
                revoked : SUBSET Mission, heard : 0..Len(reports),
                astray : SUBSET Mission]

\* No cancel, preemption, failure or reset takes the robot through a
\* transition that states.TRANSITIONS does not list: _set_state would only log it.
DeclaredTransitions ==
  [][fsm'.state # fsm.state => fsm'.state \in Transitions[fsm.state]]_fsm

\* A robot that publishes idle, at whatever step the status timer fires, has
\* nothing on its fork: the next mission drives empty to its source.
OfferedEmpty ==
  ExtStatus(fsm.state) = "idle" => \A m \in Mission : item[m] # "fork"

\* The pallet is where the fleet takes it to be from the report.  A report of
\* cancel names an order, and the fleet finds the task by it
\* (_finish_customer_cancel leaves the stock of its source alone): the pallet of
\* that order is at its source, and stays there.  target_done names none, and
\* the fleet takes it for the last assignment of the robot, the mission that
\* ran: its pallet is at the target.  A cancel that went astray is excepted: it
\* aborts whatever mission runs next, in the name of one that has ended or is
\* still to be run (_on_cancel_mission compares nothing).
ReportTellsWhere ==
  \A i \in 1..Len(reports) :
    LET r == reports[i]
    IN  /\ r.event = "target_done" => item[r.of] = "target"
        /\ r.event \in CancelEvents /\ r.order \notin books.astray => item[r.order] = "source"

\* Every assignment in the queue of a robot that knows where it is is carried
\* out, cancelled or failed: none is lost on the way home or while chaining.
EveryMissionEnds ==
  \A m \in Mission :
    (m \in ToSet(queue) /\ fsm.current # NoPlace) ~> (Ends(m) \/ fsm.state = "ERROR")

\* A customer's cancel of the mission that runs, if it comes before the pallet is
\* on its way to the target, ends with a report of cancel that names its order:
\* unless the mission fails, or the cancel of another order overwrites the flag.
\* A cancel of a mission that is still in the queue is promised nothing.
CancelObeyed ==
  \A m \in Outbound :
    (cancel = m /\ fsm.mission = m /\ fsm.pc \in {"toSource", "pick"})
      ~> (CancelReported(m) \/ fsm.state = "ERROR" \/ cancel \notin {NoMission, m})
=============================================================================
