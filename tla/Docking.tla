------------------------------ MODULE Docking ------------------------------
(***************************************************************************)
(* The dock controller (dock_controller_node.py): a state machine that a   *)
(* timer steps, the pose of the marker it steers by, and the services that *)
(* start it and block until it has ended.                                  *)
(*                                                                         *)
(* Where the robot is relative to its dock is known by class: which way it *)
(* faces, how far it is off the axis (0: at most prealign_min_ey, 1: at    *)
(* most handoff_max_ey, 2: at most home_max_ey, 3: more) and how deep it   *)
(* is (3: before the staging point, 2: there, 1: at the depth of hand-off, *)
(* 0: docked).  The filters hold the classes of the last pose.  Odometry   *)
(* is right; turns and drives by odometry end inexactly.                   *)
(*                                                                         *)
(* Time passes in ticks, the unit of the time-outs.  A step of the control *)
(* loop takes far less than a tick, so that whatever is due is done before *)
(* the next one.                                                           *)
(***************************************************************************)
EXTENDS Naturals

CONSTANTS
  DockTimeout,    \* dock_timeout_sec, in ticks
  AlignTimeout,   \* align_timeout_sec
  SpinTimeout,    \* spin_timeout_sec
  CreepTimeout,   \* creep_timeout_sec and undock_timeout_sec
  CallTimeout,    \* how long the robot FSM waits for a docking
  UndockWait      \* how long it waits for an undocking

\* A docking that runs to the end of every phase is answered in time.
ASSUME TimeoutAssumption ==
  /\ {DockTimeout, AlignTimeout, SpinTimeout, CreepTimeout} \subseteq Nat \ {0}
  /\ {CallTimeout, UndockWait} \subseteq Nat
  /\ DockTimeout + AlignTimeout + SpinTimeout + CreepTimeout < CallTimeout
  /\ CreepTimeout < UndockWait /\ UndockWait <= CallTimeout

VARIABLES
  ctl,     \* state, subphase, reverse flag, distance to go, use_lidar_normal
  svc,     \* the service that runs
  awaited, \* whether its caller waits for the answer
  ema,     \* the filtered pose, or NoPose
  fresh,   \* a pose, or a grace, within marker_timeout_sec
  clock,   \* while a service runs: ticks since the call and since the phase began
  base,    \* where the robot is
  cmd      \* the last velocity published

vars == <<ctl, svc, awaited, ema, fresh, clock, base, cmd>>

Front == {"square", "askew"}        \* the marker is in view
Place == [facing : Front \cup {"aside", "away"}, off : 0..3, depth : 0..3]
NoPose == [facing |-> "none", off |-> 0, depth |-> 0]

Running == {"PREALIGN", "STAGE_GOTO", "APPROACH", "SERVO", "ALIGN", "CREEP", "SPIN180", "UNDOCK"}
Terminal == {"DONE", "LOST", "TIMEOUT", "STALL", "MISALIGNED"}
Phase == {"FACE", "TURN1", "DRIVE", "TURN2", "AIM", "GOTO", "YAW"}

HandoffMaxEy == 1
HomeMaxEy == 2
UndockDist == 2

Init ==
  /\ ctl \in [state : {"IDLE"}, phase : {"FACE"}, reverse : {FALSE}, left : {0}, lidar : BOOLEAN]
  /\ svc = "none" /\ awaited = FALSE /\ ema = NoPose /\ fresh = FALSE
  /\ clock = [call |-> 0, phase |-> 0]
  /\ base = [facing |-> "away", off |-> 0, depth |-> 0]
  /\ cmd = "stop"

-----------------------------------------------------------------------------
(* What comes from outside: poses, their absence, and time.                *)

\* The states whose steps look at the filtered pose.  It is left out of the
\* others: what is filtered there is forgotten before it is read again.
In(states) == ctl.state \in states
ByPose == In({"PREALIGN", "STAGE_GOTO", "APPROACH", "SERVO", "ALIGN"})

\* pose_cb: the marker is seen; not so close that the picture is blurred.
PoseCb ==
  /\ base.facing \in Front /\ base.depth > 0
  /\ ema' = IF ByPose THEN base ELSE NoPose
  /\ fresh' = TRUE
  /\ UNCHANGED <<ctl, svc, awaited, clock, base, cmd>>

\* No pose for marker_timeout_sec: hidden, blurred, or out of view.
PoseAges ==
  /\ fresh /\ fresh' = FALSE
  /\ UNCHANGED <<ctl, svc, awaited, ema, clock, base, cmd>>

Sighted == ema # NoPose
InPhase(state, phase) == ctl.state = state /\ ctl.phase = phase
DockOver == clock.call >= DockTimeout

\* Mutant: staging has no limit.
ExpiredUnstaged ==
  \/ In({"PREALIGN"}) /\ DockOver
  \/ In({"SERVO"}) /\ Sighted /\ fresh /\ DockOver
  \/ In({"SPIN180"}) /\ clock.phase >= SpinTimeout
  \/ In({"CREEP", "UNDOCK"}) /\ clock.phase >= CreepTimeout

\* The branches of the steps that give up for the time: before the marker is
\* looked at in PREALIGN and staging, after it in SERVO.
Expired ==
  \/ In({"PREALIGN", "STAGE_GOTO", "APPROACH"}) /\ DockOver
  \/ In({"SERVO"}) /\ Sighted /\ fresh /\ DockOver
  \/ In({"SPIN180"}) /\ clock.phase >= SpinTimeout
  \/ In({"CREEP", "UNDOCK"}) /\ clock.phase >= CreepTimeout

\* ALIGN does not give up, it goes on as it is.
AlignExpired == clock.phase >= AlignTimeout

\* ... and those that give up for the marker.
MarkerLost ==
  /\ ~fresh
  /\ \/ InPhase("PREALIGN", "FACE") /\ ~DockOver
     \/ In({"STAGE_GOTO", "APPROACH"}) /\ ~DockOver
     \/ In({"SERVO", "ALIGN"}) /\ Sighted

Steady == ~Expired /\ ~MarkerLost

\* Time goes on when nothing is due.
Tick ==
  /\ svc # "none" /\ clock.call < CallTimeout
  /\ Steady /\ ~In(Terminal) /\ ~(In({"ALIGN"}) /\ AlignExpired)
  /\ clock' = [call |-> clock.call + 1, phase |-> clock.phase + 1]
  /\ UNCHANGED <<ctl, svc, awaited, ema, fresh, base, cmd>>

-----------------------------------------------------------------------------
(* The ways a control step ends.                                           *)

Halt == cmd' = "stop" /\ UNCHANGED base
Drive(b) == cmd' = "go" /\ base' = b
Remembered == UNCHANGED <<svc, awaited, ema, fresh, clock>>
Stay == ctl' = ctl /\ Remembered

\* What no later step reads is left out.
Ends(state) ==
  /\ ctl' = [ctl EXCEPT !.state = state, !.phase = "FACE", !.left = 0]
  /\ ema' = NoPose
  /\ Halt /\ UNCHANGED <<svc, awaited, fresh, clock>>
NextPhase(phase) == ctl' = [ctl EXCEPT !.phase = phase] /\ Halt /\ Remembered
NextState(state) ==
  ctl' = [ctl EXCEPT !.state = state, !.phase = "FACE"] /\ Halt /\ Remembered

\* The phases by odometry set their distance and their own clock.
EnterTimed(state, left) ==
  /\ ctl' = [ctl EXCEPT !.state = state, !.left = left]
  /\ clock' = [clock EXCEPT !.phase = 0]
  /\ ema' = IF state = "ALIGN" THEN ema ELSE NoPose
  /\ UNCHANGED <<svc, awaited, fresh>>

\* Steering changes where the robot is off the axis and how it faces.
Steered(depths) ==
  {b \in Place : /\ b.depth \in depths /\ b.facing \in Front
                 /\ b.off <= base.off + 1 /\ base.off <= b.off + 1}
Closer == {base.depth} \cup (IF base.depth > 1 THEN {base.depth - 1} ELSE {})

TimesOut == Expired /\ Ends("TIMEOUT")
Loses == MarkerLost /\ Ends("LOST")

-----------------------------------------------------------------------------
(* PREALIGN.                                                               *)

\* _enter_after_prealign: SERVO forgets the pose, staging keeps it; both count
\* as if the marker had just been seen.
EnterAfterPrealign ==
  /\ fresh' = TRUE
  /\ IF ctl.reverse \/ ctl.lidar
       THEN ctl' = [ctl EXCEPT !.state = "SERVO", !.phase = "FACE"] /\ ema' = NoPose
       ELSE ctl' = [ctl EXCEPT !.state = "STAGE_GOTO", !.phase = "AIM"] /\ UNCHANGED ema
  /\ UNCHANGED <<svc, awaited, clock>>

FaceMarker ==
  /\ InPhase("PREALIGN", "FACE") /\ Steady /\ Sighted /\ ema.facing # "square"
  /\ \E f \in Front : Drive([base EXCEPT !.facing = f])
  /\ Stay

\* On the axis already.  Nothing is published: the last turn goes on.
SkipPrealign ==
  /\ InPhase("PREALIGN", "FACE") /\ Steady /\ ema.facing = "square" /\ ema.off = 0
  /\ EnterAfterPrealign /\ UNCHANGED <<base, cmd>>

BeginPrealign ==
  /\ InPhase("PREALIGN", "FACE") /\ Steady /\ ema.facing = "square" /\ ema.off > 0
  /\ ctl' = [ctl EXCEPT !.phase = "TURN1", !.left = 1]
  /\ Halt /\ Remembered

Turn1 ==
  /\ InPhase("PREALIGN", "TURN1") /\ Steady
  /\ IF base.facing = "aside" THEN NextPhase("DRIVE")
     ELSE Drive([base EXCEPT !.facing = "aside"]) /\ Stay

\* By odometry, at most prealign_max_ey.
DriveAside ==
  /\ InPhase("PREALIGN", "DRIVE") /\ Steady /\ ctl.left > 0
  /\ \E off \in 0..(IF base.off = 3 THEN 3 ELSE 1) : Drive([base EXCEPT !.off = off])
  /\ ctl' = [ctl EXCEPT !.left = 0] /\ Remembered

DriveAsideDone ==
  InPhase("PREALIGN", "DRIVE") /\ Steady /\ ctl.left = 0 /\ NextPhase("TURN2")

Turn2 ==
  /\ InPhase("PREALIGN", "TURN2") /\ Steady
  /\ IF base.facing \in Front THEN EnterAfterPrealign /\ Halt
     ELSE Stay /\ \E f \in Front : Drive([base EXCEPT !.facing = f])

-----------------------------------------------------------------------------
(* Work: staging, or SERVO where the lidar gives the normal.               *)

\* Within stage_dist_tol of the staging point, as the filtered pose has it.
AtStage == ema.depth = 2 /\ ema.off <= 1

\* The bearing of the staging point is not known by class.
Aim ==
  /\ InPhase("STAGE_GOTO", "AIM") /\ Steady /\ Sighted
  /\ \/ NextPhase("GOTO")
     \/ ~AtStage /\ Stay /\ \E f \in Front : Drive([base EXCEPT !.facing = f])

GoToStage ==
  /\ InPhase("STAGE_GOTO", "GOTO") /\ Steady /\ Sighted
  /\ IF AtStage THEN NextPhase("YAW")
     ELSE Stay /\ \E b \in Steered({base.depth, 2}) : Drive(b)

FaceAtStage ==
  /\ InPhase("STAGE_GOTO", "YAW") /\ Steady /\ Sighted
  /\ IF ema.facing = "square" THEN NextState("APPROACH")
     ELSE Stay /\ \E f \in Front : Drive([base EXCEPT !.facing = f])

Approach ==
  /\ In({"APPROACH"}) /\ Steady /\ Sighted /\ ema.depth > 1
  /\ Stay /\ \E b \in Steered(Closer) : Drive(b)

\* Mutant: the hand-off does not look how far off the marker is.
ApproachHandoffBlind ==
  /\ In({"APPROACH"}) /\ Steady /\ Sighted /\ ema.depth <= 1
  /\ EnterTimed("CREEP", ema.depth) /\ UNCHANGED <<base, cmd>>

ApproachHandoff ==
  /\ In({"APPROACH"}) /\ Steady /\ Sighted /\ ema.depth <= 1
  /\ IF ema.off > HandoffMaxEy THEN Ends("MISALIGNED")
     ELSE EnterTimed("CREEP", ema.depth) /\ UNCHANGED <<base, cmd>>

\* Without a pose the step returns before it looks at the marker or the time.
Servo ==
  /\ In({"SERVO"}) /\ Steady /\ Sighted /\ ema.depth > 1
  /\ Stay /\ \E b \in Steered(Closer) : Drive(b)

ServoHandoff ==
  /\ In({"SERVO"}) /\ Steady /\ Sighted /\ ema.depth <= 1
  /\ IF ema.off > (IF ctl.reverse THEN HomeMaxEy ELSE HandoffMaxEy) THEN Ends("MISALIGNED")
     ELSE EnterTimed("ALIGN", 0) /\ UNCHANGED <<base, cmd>>

Align ==
  /\ In({"ALIGN"}) /\ Steady /\ ema.facing # "square" /\ ~AlignExpired
  /\ Stay /\ \E f \in Front : Drive([base EXCEPT !.facing = f])

\* The distance to go is taken from the filtered depth.
AlignDone ==
  /\ In({"ALIGN"}) /\ Steady /\ (ema.facing = "square" \/ AlignExpired)
  /\ EnterTimed(IF ctl.reverse THEN "SPIN180" ELSE "CREEP", ema.depth)
  /\ UNCHANGED <<base, cmd>>

-----------------------------------------------------------------------------
(* By odometry: half a turn, forwards, backwards.                          *)

Spin180 ==
  /\ In({"SPIN180"}) /\ Steady
  /\ IF base.facing = "away" THEN EnterTimed("UNDOCK", ctl.left) /\ Halt
     ELSE Drive([base EXCEPT !.facing = "away"]) /\ Stay

Advanced == [base EXCEPT !.depth = IF @ = 0 THEN 0 ELSE @ - 1]
BackedUp ==
  IF base.facing = "away" THEN Advanced ELSE [base EXCEPT !.depth = IF @ = 3 THEN 3 ELSE @ + 1]

\* Mutant: one step too many.
CreepTooFar ==
  /\ In({"CREEP", "UNDOCK"}) /\ Steady /\ ctl.left >= 0
  /\ Drive(IF ctl.state = "CREEP" THEN Advanced ELSE BackedUp)
  /\ ctl' = [ctl EXCEPT !.left = @ - 1] /\ Remembered

Creep ==
  /\ In({"CREEP", "UNDOCK"}) /\ Steady /\ ctl.left > 0
  /\ Drive(IF ctl.state = "CREEP" THEN Advanced ELSE BackedUp)
  /\ ctl' = [ctl EXCEPT !.left = @ - 1] /\ Remembered

CreepDone == In({"CREEP", "UNDOCK"}) /\ Steady /\ ctl.left = 0 /\ Ends("DONE")

\* _stalled: no progress for creep_stall_sec, something is in the way.
Stalls ==
  /\ In({"CREEP", "UNDOCK"}) \/ InPhase("PREALIGN", "DRIVE")
  /\ Steady /\ ctl.left > 0 /\ Ends("STALL")

ControlStep ==
  \/ TimesOut \/ Loses \/ FaceMarker \/ SkipPrealign \/ BeginPrealign \/ Turn1
  \/ DriveAside \/ DriveAsideDone \/ Turn2 \/ Aim \/ GoToStage \/ FaceAtStage
  \/ Approach \/ ApproachHandoff \/ Servo \/ ServoHandoff \/ Align \/ AlignDone
  \/ Spin180 \/ Creep \/ CreepDone \/ Stalls

-----------------------------------------------------------------------------
(* The services, and the mission thread that calls them (_call_trigger).   *)

\* _run_dock up to its loop; refused while a service runs, or without a fresh pose.
StartDock(reverse) ==
  /\ ctl.state = "IDLE" /\ fresh
  /\ ctl' = [ctl EXCEPT !.state = "PREALIGN", !.reverse = reverse]
  /\ svc' = "dock" /\ awaited' = TRUE
  /\ ema' = NoPose /\ clock' = [call |-> 0, phase |-> 0]
  /\ UNCHANGED <<fresh, base, cmd>>

InDock == base.depth = 0 /\ base.facing \in Front /\ base.off <= HandoffMaxEy

\* _run_undock up to its loop; the mission asks for it after a docking.
StartUndock ==
  /\ ctl.state = "IDLE" /\ InDock
  /\ ctl' = [ctl EXCEPT !.state = "UNDOCK", !.left = UndockDist]
  /\ svc' = "undock" /\ awaited' = TRUE
  /\ clock' = [call |-> 0, phase |-> 0]
  /\ UNCHANGED <<ema, fresh, base, cmd>>

\* ... and what follows the loops: the answer is success if the state is DONE.
EndCall ==
  /\ In(Terminal)
  /\ ctl' = [ctl EXCEPT !.state = "IDLE", !.reverse = FALSE]
  /\ svc' = "none" /\ awaited' = FALSE
  /\ clock' = [call |-> 0, phase |-> 0]
  /\ Halt /\ UNCHANGED <<ema, fresh>>

\* Mutant: the caller does not wait as long as a docking may take.
GiveUpEarly ==
  /\ awaited /\ clock.call >= UndockWait
  /\ awaited' = FALSE
  /\ UNCHANGED <<ctl, svc, ema, fresh, clock, base, cmd>>

GiveUp ==
  /\ awaited /\ clock.call >= (IF svc = "dock" THEN CallTimeout ELSE UndockWait)
  /\ awaited' = FALSE
  /\ UNCHANGED <<ctl, svc, ema, fresh, clock, base, cmd>>

\* Nobody waits: the robot drives by nav2, to where it faces a dock or away from
\* all.
Travels ==
  /\ ~awaited
  /\ base' \in [facing : Front, off : 0..3, depth : 2..3]
               \cup {[facing |-> "away", off |-> 0, depth |-> 3]}
  /\ UNCHANGED <<ctl, svc, awaited, ema, fresh, clock, cmd>>

Next ==
  \/ ControlStep \/ PoseCb \/ PoseAges \/ Tick
  \/ \E reverse \in BOOLEAN : StartDock(reverse)
  \/ StartUndock \/ EndCall \/ GiveUp \/ Travels

\* The timer of the controller and the loops of its services run on, and time
\* passes; nothing is assumed of the marker, nor of the caller.
Spec ==
  Init /\ [][Next]_vars /\ WF_vars(ControlStep) /\ WF_vars(EndCall) /\ SF_vars(Tick)

-----------------------------------------------------------------------------
(* Properties.                                                             *)

\* Every field keeps its type, whatever call, time-out and pose comes when; the
\* controller is idle exactly when no service runs.
TypeOK ==
  /\ ctl \in [state : Running \cup Terminal \cup {"IDLE"}, phase : Phase, reverse : BOOLEAN,
              left : 0..3, lidar : BOOLEAN]
  /\ svc \in {"none", "dock", "undock"} /\ (svc = "none" <=> ctl.state = "IDLE")
  /\ awaited \in BOOLEAN /\ (awaited => svc # "none")
  /\ ema \in Place \cup {NoPose} /\ fresh \in BOOLEAN
  /\ clock \in [call : 0..CallTimeout, phase : 0..CallTimeout]
  /\ base \in Place /\ cmd \in {"stop", "go"}

\* The controller drives only while the mission waits for it, which gives up
\* after 90 s (_call_trigger): otherwise it and nav2 would both command the base.
\* What may be left running is a SERVO without a pose, or one that is out of
\* time; neither moves the robot.
OneDriver ==
  (In(Running) /\ ~awaited) => In({"SERVO"}) /\ (~Sighted \/ DockOver)

\* The controller implements DockService, the promise the mission relies on.  A
\* call that ends as DONE has left the robot at the dock within the lateral
\* tolerance, parked backwards, or clear of the dock, although the distances are
\* taken from filtered poses and odometry then outruns them; nobody else moves
\* the robot meanwhile, and a success is not given up.
Promise == INSTANCE DockService WITH
  serving <- IF svc = "dock" /\ ctl.reverse THEN "home" ELSE svc,
  ended   <- IF ctl.state \notin Terminal THEN "none"
             ELSE IF ctl.state = "DONE" THEN "done" ELSE "failed",
  place   <- IF base.depth >= UndockDist THEN "out"
             ELSE IF InDock THEN "in"
             ELSE IF base.depth = 0 /\ base.facing = "away" THEN "parked" ELSE "near"
IsDockService == Promise!Spec

\* A call ends, and the controller is free for the next one, unless it waits in
\* SERVO for a marker that is not seen again (_servo_step).
CallsEnd ==
  (ctl.state # "IDLE") ~> (ctl.state = "IDLE" \/ (ctl.state = "SERVO" /\ ~Sighted))

=============================================================================
