------------------------------- MODULE HumanStop -------------------------------
(***************************************************************************)
(* The person stop: the human detector (human_detector_node.py) looks at   *)
(* the robot's camera ten times a second and publishes /human_stop; the    *)
(* HumanStopCondition of nav2's behaviour tree (smart_navigate.xml) closes *)
(* the gate in front of FollowPath while the last message says so; the     *)
(* robot's FSM drives one leg at a time and watches the recoveries         *)
(* (travel.py, _nav_monitored and _nav_to).  FollowPath alone is gated:    *)
(* the dock controller drives the base itself and does not listen to       *)
(* /human_stop.                                                            *)
(*                                                                         *)
(* Time is counted in detector ticks.  A live camera delivers a frame and  *)
(* a running gate is ticked at least once between two of them (the tree is *)
(* ticked at 100 Hz), which is what `due' stands for.  The recogniser may  *)
(* overlook a person, and a message may be lost: the subscription has the  *)
(* system's default, best-effort, QoS.                                     *)
(***************************************************************************)
EXTENDS Integers

CONSTANTS
  AssertFrames,   \* detections in a row that stop the robot (code: 1)
  Release,        \* ticks without a detection that let it go (2 s: 20)
  MaxMiss,        \* frames in a row in which a person is overlooked
  MaxLoss,        \* messages in a row that are lost
  RecoveryBlock,  \* recoveries the FSM takes for a blocked way (code: 4)
  Retries,        \* recoveries the tree makes before it aborts (code: 6)
  MaxRestarts     \* restarts of the detector

ASSUME HumanAssumption ==
  /\ {AssertFrames, Release, RecoveryBlock, Retries} \subseteq Nat \ {0}
  /\ {MaxMiss, MaxLoss, MaxRestarts} \subseteq Nat
  /\ AssertFrames = 1 /\ MaxMiss < Release

VARIABLES
  person, solid,  \* somebody is in view; something else stands in the way
  live,           \* the camera delivers frames
  frame,          \* _sub_frame: the last frame there was
  hold, lastSeen, \* the detector: _hold, ticks since _last_seen
  queue,          \* /human_stop: the last message that was delivered
  gate,           \* hold_active_ of the condition node
  tree,           \* where the behaviour tree is
  recoveries,     \* number_of_recoveries of the current goal
  leg,            \* the FSM: the leg it drives, or none
  misses, losses, restarts,  \* the budgets of the faults
  due,            \* what comes before the next detector tick
  inView, dark    \* ticks a person has been before the camera; ticks without one

world == <<person, solid, live>>
detector == <<hold, lastSeen, misses>>
nav2 == <<gate, tree, recoveries>>
vars == <<world, frame, detector, queue, nav2, leg, losses, restarts, due,
          inView, dark>>

None == "none"              \* no message, no frame, no leg
Never == Release + 1        \* _last_seen is None
InViewMax == MaxMiss + AssertFrames + MaxLoss
DarkMax == 2
Trees == {"idle", "plan", "gate", "follow", "wait", "succeeded", "aborted"}
\* A segment is watched by _nav_monitored; the turn to the dock is a _nav_to.
Legs == {"segment", "turn"}

Capped(n, max) == IF n < max THEN n ELSE max

Init == /\ person \in BOOLEAN /\ solid = FALSE /\ live = TRUE
        /\ frame = None /\ hold = FALSE /\ lastSeen = Never
        /\ queue = "go"        \* published when the node starts
        /\ gate = FALSE /\ tree = "idle" /\ recoveries = 0 /\ leg = None
        /\ misses = 0 /\ losses = 0 /\ restarts = 0
        /\ due = {"frame", "bt"} /\ inView = 0 /\ dark = 0

-----------------------------------------------------------------------------
(***************************************************************************)
(* The surroundings.                                                       *)
(***************************************************************************)
PersonMoves == /\ person' = ~person
               /\ inView' = 0
               /\ UNCHANGED <<solid, live, frame, detector, queue, nav2, leg,
                              losses, restarts, due, dark>>

WayChanges == /\ solid' = ~solid
              /\ UNCHANGED <<person, live, frame, detector, queue, nav2, leg,
                             losses, restarts, due, inView, dark>>

CameraFails == /\ live
               /\ live' = FALSE /\ inView' = 0
               /\ UNCHANGED <<person, solid, frame, detector, queue, nav2, leg,
                              losses, restarts, due, dark>>

CameraReturns == /\ ~live
                 /\ live' = TRUE /\ dark' = 0
                 /\ UNCHANGED <<person, solid, frame, detector, queue, nav2,
                                leg, losses, restarts, due, inView>>

\* _on_compressed, _on_image: the last frame is kept.
OnImage == /\ live
           /\ frame' = IF person THEN "person" ELSE "empty"
           /\ due' = due \ {"frame"}
           /\ UNCHANGED <<world, detector, queue, nav2, leg, losses, restarts,
                          inView, dark>>

-----------------------------------------------------------------------------
(***************************************************************************)
(* The detector.                                                           *)
(***************************************************************************)
Delivered(value) == /\ queue' = IF value THEN "stop" ELSE "go"
                    /\ losses' = 0
Lost == losses < MaxLoss /\ losses' = losses + 1 /\ queue' = queue

\* Mutant: the hold is published only when it changes.
PublishOnChange(value) == IF value = hold THEN queue' = queue /\ losses' = losses
                                          ELSE Delivered(value) \/ Lost

\* _publish_hold: every tick publishes, so that a lost message is made good.
PublishHold(value) == Delivered(value) \/ Lost

\* The gate is ticked, and the camera delivers, before the next tick.
Served == /\ live => "frame" \notin due
          /\ tree \in {"gate", "follow"} => "bt" \notin due

Ticked == /\ due' = {"frame", "bt"}
          /\ inView' = IF live /\ person /\ frame = "person"
                       THEN Capped(inView + 1, InViewMax) ELSE 0
          /\ dark' = IF live \/ "frame" \notin due
                     THEN 0 ELSE Capped(dark + 1, DarkMax)
          /\ UNCHANGED <<world, frame, nav2, leg, restarts>>

\* Mutant: the stop is set like one for a person.
TickNoFrameSets == /\ Served /\ frame = None
                   /\ hold' = TRUE /\ UNCHANGED <<lastSeen, misses>>
                   /\ PublishHold(TRUE)
                   /\ Ticked

\* There never was a frame: stop, whatever the detector itself thinks.
TickNoFrame == /\ Served /\ frame = None
               /\ PublishHold(TRUE)
               /\ Ticked /\ UNCHANGED detector

\* One detection is enough for the default assert_frames of 1.
TickPresent == /\ Served /\ frame = "person"
               /\ hold' = TRUE /\ lastSeen' = 0 /\ misses' = 0
               /\ PublishHold(hold')
               /\ Ticked

\* Nobody in the frame, or nobody recognised.
TickAbsent ==
  /\ Served /\ frame # None
  /\ \/ frame = "empty" /\ misses' = 0
     \/ frame = "person" /\ misses < MaxMiss /\ misses' = misses + 1
  /\ lastSeen' = IF lastSeen = Never THEN Never ELSE Capped(lastSeen + 1, Release)
  /\ hold' = (hold /\ lastSeen' # Release)
  /\ PublishHold(hold')
  /\ Ticked

\* __init__: a restarted node has seen nothing and says so once.
Restart == /\ restarts < MaxRestarts /\ restarts' = restarts + 1
           /\ frame' = None /\ hold' = FALSE /\ lastSeen' = Never /\ misses' = 0
           /\ PublishHold(FALSE)
           /\ due' = {"frame", "bt"} /\ inView' = 0 /\ dark' = 0
           /\ UNCHANGED <<world, nav2, leg>>

-----------------------------------------------------------------------------
(***************************************************************************)
(* The behaviour tree: plan once, then FollowPath behind the gate; a       *)
(* failure of either is answered with a Wait, Retries times.               *)
(***************************************************************************)
\* The planner and the controller fail only on what the lidar sees.
Obstructed == person \/ solid

Latest == IF queue = None THEN gate ELSE queue = "stop"

\* HumanStopCondition::tick: take the message there is, then decide.
ReadGate == /\ gate' = Latest /\ queue' = None
            /\ due' = due \ {"bt"}

\* Mutant: the recoveries are not compared with the limit.
TreeRetriesForEver == tree' = "wait" /\ recoveries' = recoveries + 1

TreeFails == IF recoveries < Retries
             THEN tree' = "wait" /\ recoveries' = recoveries + 1
             ELSE tree' = "aborted" /\ recoveries' = recoveries

TreeStep == UNCHANGED <<world, frame, detector, leg, losses, restarts, inView,
                        dark>>

Plan == /\ tree = "plan"
        /\ \/ tree' = "gate" /\ recoveries' = recoveries
           \/ Obstructed /\ TreeFails
        /\ TreeStep /\ UNCHANGED <<queue, gate, due>>

\* RUNNING halts FollowPath, SUCCESS starts it or lets it go on.
GateTick == /\ tree \in {"gate", "follow"}
            /\ ReadGate
            /\ tree' = IF gate' THEN "gate" ELSE "follow"
            /\ TreeStep /\ UNCHANGED recoveries

FollowArrives == /\ tree = "follow" /\ ~Latest /\ ~solid
                 /\ ReadGate /\ tree' = "succeeded"
                 /\ TreeStep /\ UNCHANGED recoveries

FollowFails == /\ tree = "follow" /\ ~Latest /\ Obstructed
               /\ ReadGate /\ TreeFails
               /\ TreeStep

WaitEnds == /\ tree = "wait"
            /\ tree' = "plan"
            /\ TreeStep /\ UNCHANGED <<queue, gate, recoveries, due>>

-----------------------------------------------------------------------------
(***************************************************************************)
(* The FSM.                                                                *)
(***************************************************************************)
FsmStep == UNCHANGED <<world, frame, detector, queue, gate, losses, restarts,
                       due, inView, dark>>

\* A goal that is still running is preempted by the next one.  The tree is begun
\* anew, where nav2 would let it run on to the new goal; no property depends on it.
SendGoal == /\ leg = None
            /\ leg' \in Legs /\ tree' = "plan" /\ recoveries' = 0
            /\ FsmStep

Result == /\ leg # None /\ tree \in {"succeeded", "aborted"}
          /\ leg' = None /\ tree' = "idle"
          /\ FsmStep /\ UNCHANGED recoveries

\* _nav_monitored: a way that stays blocked is given up and the goal cancelled.
Blocked == /\ leg = "segment" /\ recoveries >= RecoveryBlock
           /\ leg' = None /\ tree' = "idle"
           /\ FsmStep /\ UNCHANGED recoveries

\* _await_future: _nav_to stops waiting after 120 s and leaves the goal alone.
TurnTimesOut == /\ leg = "turn" /\ leg' = None
                /\ FsmStep /\ UNCHANGED <<tree, recoveries>>

-----------------------------------------------------------------------------
Environment == PersonMoves \/ WayChanges \/ CameraFails \/ CameraReturns
Detector == TickNoFrame \/ TickPresent \/ TickAbsent
Fsm == SendGoal \/ Result \/ Blocked \/ TurnTimesOut

Next == Environment \/ OnImage \/ Detector \/ Restart \/ Plan \/ GateTick
          \/ FollowArrives \/ FollowFails \/ WaitEnds \/ Fsm

Fairness ==
  /\ WF_vars(OnImage) /\ WF_vars(Detector) /\ WF_vars(Plan) /\ WF_vars(GateTick)
  /\ SF_vars(FollowArrives) /\ SF_vars(FollowFails) /\ WF_vars(WaitEnds)
  /\ WF_vars(Result) /\ WF_vars(Blocked)

Spec == Init /\ [][Next]_vars
FairSpec == Spec /\ Fairness

-----------------------------------------------------------------------------
(***************************************************************************)
(* Properties.                                                             *)
(***************************************************************************)
TypeOK ==
  /\ person \in BOOLEAN /\ solid \in BOOLEAN /\ live \in BOOLEAN
  /\ frame \in {None, "empty", "person"}
  /\ hold \in BOOLEAN /\ lastSeen \in 0..Never
  /\ queue \in {None, "stop", "go"} /\ gate \in BOOLEAN
  /\ tree \in Trees /\ recoveries \in 0..Retries /\ leg \in Legs \cup {None}
  /\ misses \in 0..MaxMiss /\ losses \in 0..MaxLoss /\ restarts \in 0..MaxRestarts
  /\ due \subseteq {"frame", "bt"}
  /\ inView \in 0..InViewMax /\ dark \in 0..DarkMax

Moving == tree = "follow"

\* A person who has stood before a live camera for as many ticks as the
\* recogniser may overlook somebody and the network may lose messages, and one
\* more, has stopped the robot by the next tick of the gate, and keeps it
\* stopped through the frames in which nobody is recognised
\* (human_detector_node.py:175-203, human_stop_condition.cpp:39-55).
HaltedForPerson == inView = InViewMax /\ "bt" \notin due => ~Moving

\* Once nobody is in view any more and the camera works, every leg ends: the
\* hold is let go, also the one published before the first frame, and neither
\* a restart nor a lost message leaves the gate closed for good
\* (human_detector_node.py:175-203, travel.py:126-182).
EveryLegEnds == <>[](~person /\ live) => []<>(leg = None)

\* human_detector_node.py:178: when no frame comes the stop is kept, for a dead
\* camera is a danger.  It holds only until the first frame: afterwards the
\* last frame is looked at again and again.
CameraLossStops == dark = DarkMax /\ "bt" \notin due => ~Moving

=============================================================================
