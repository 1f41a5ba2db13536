--------------------------- MODULE DockingProofs ---------------------------
(***************************************************************************)
(* Proofs about the dock controller, for all time-outs that satisfy        *)
(* TimeoutAssumption: the types, that it drives only for a caller who      *)
(* waits, and that it keeps the promise of DockService.                    *)
(*                                                                         *)
(* The invariant says, state by state, which call is served, how long it   *)
(* may have taken, that its caller waits, and how the filtered pose and    *)
(* the distance left to drive relate to where the robot is.                *)
(***************************************************************************)
EXTENDS Docking, TLAPS

USE DEF In, InPhase, Sighted, Running, Terminal

-----------------------------------------------------------------------------
(* The invariant.                                                          *)

Ctl == [state : Running \cup Terminal \cup {"IDLE"}, phase : Phase, reverse : BOOLEAN,
        left : 0..3, lidar : BOOLEAN]
Times == [call : 0..CallTimeout, phase : 0..CallTimeout]

Staged == In({"STAGE_GOTO", "APPROACH"})

\* Which call is served in which state; the next one begins with the first phase.
Calls ==
  /\ In(Terminal \cup {"IDLE"}) => ctl.phase = "FACE"
  /\ svc = "undock" => In({"UNDOCK"} \cup Terminal)
  /\ ctl.reverse => svc = "dock" /\ ~In({"CREEP"}) /\ ~Staged
  /\ In({"SPIN180"}) \/ (In({"UNDOCK"}) /\ svc = "dock") => ctl.reverse

\* The clocks: a call spends at most DockTimeout until the hand-off, and at most
\* their own limits in the phases that follow it.
Durations ==
  /\ clock.phase <= clock.call
  /\ In({"PREALIGN"}) \/ Staged => clock.call <= DockTimeout
  /\ In({"ALIGN"}) => clock.phase <= AlignTimeout /\ clock.call < DockTimeout + clock.phase
  /\ In({"SPIN180"}) =>
       clock.phase <= SpinTimeout /\ clock.call < DockTimeout + AlignTimeout + clock.phase
  /\ In({"CREEP", "UNDOCK"}) => clock.phase <= CreepTimeout
  /\ In({"CREEP"}) => clock.call < DockTimeout + AlignTimeout + clock.phase
  /\ In({"UNDOCK"}) =>
       IF svc = "dock" THEN clock.call < DockTimeout + AlignTimeout + SpinTimeout + clock.phase
       ELSE clock.call = clock.phase

Limit == IF svc = "dock" THEN CallTimeout ELSE UndockWait

\* Only a SERVO that is out of time outlives the patience of its caller, and a
\* success is reached before it ends.
Awaits ==
  /\ In(Running) /\ ~awaited => In({"SERVO"}) /\ DockOver
  /\ In({"DONE"}) => awaited /\ clock.call < Limit

\* The robot faces the marker wherever it steers by it, and is not so near that
\* it could not see it.
Facing ==
  /\ In({"STAGE_GOTO", "APPROACH", "SERVO", "ALIGN", "CREEP"}) => base.facing \in Front
  /\ InPhase("PREALIGN", "FACE") /\ Sighted => base.facing \in Front

NotTooNear ==
  /\ ByPose /\ Sighted => base.depth > 0
  /\ In({"PREALIGN"}) /\ ctl.phase # "FACE" => base.depth > 0

\* A filtered pose that is near enough for the hand-off is no longer outrun.
SamePlace == ema.depth = base.depth /\ ema.off = base.off

PoseIsTrue ==
  /\ InPhase("STAGE_GOTO", "YAW") \/ In({"APPROACH", "SERVO"}) =>
       (Sighted /\ ema.depth <= 1 => SamePlace)
  /\ In({"ALIGN"}) =>
       Sighted /\ SamePlace /\ base.depth = 1 /\ (~ctl.reverse => base.off <= HandoffMaxEy)

\* What is left to drive by odometry is the way into the dock, or out of it.
ByOdometry ==
  /\ In({"CREEP"}) => base.depth = ctl.left /\ ctl.left <= 1 /\ base.off <= HandoffMaxEy
  /\ In({"SPIN180"}) => base.depth = 1 /\ ctl.left = 1
  /\ In({"UNDOCK"}) /\ svc = "dock" =>
       base.facing = "away" /\ base.depth = ctl.left /\ ctl.left <= 1
  /\ In({"UNDOCK"}) /\ svc = "undock" =>
       base.facing \in Front /\ base.depth + ctl.left = UndockDist /\ base.off <= HandoffMaxEy

Geometry == awaited => Facing /\ NotTooNear /\ PoseIsTrue /\ ByOdometry

IInv == TypeOK /\ Calls /\ Durations /\ Awaits /\ Geometry

-----------------------------------------------------------------------------
(* Types.                                                                  *)

\* The types after a control step: the call under way stays what it is.
LEMMA ControlTypes ==
  ASSUME TypeOK, In(Running), UNCHANGED <<svc, awaited>>,
         ctl' \in Ctl, ctl'.state # "IDLE",
         ema' \in Place \cup {NoPose}, fresh' \in BOOLEAN, clock' \in Times,
         base' \in Place, cmd' \in {"stop", "go"}
  PROVE  TypeOK'
<1>1. svc' # "none" /\ svc' \in {"none", "dock", "undock"}
  BY DEF TypeOK
<1>2. awaited' \in BOOLEAN
  BY Zenon DEF TypeOK
<1> QED BY <1>1, <1>2, Zenon DEF TypeOK, Ctl, Times, Running, Terminal

\* A change of the three fields the states and phases set.
LEMMA CtlChange ==
  ASSUME NEW c \in Ctl, NEW state \in Running \cup Terminal \cup {"IDLE"}, NEW phase \in Phase,
         NEW left \in 0..3
  PROVE  [c EXCEPT !.state = state, !.phase = phase, !.left = left] \in Ctl
  BY DEF Ctl

LEMMA PhaseChange ==
  ASSUME NEW c \in Ctl, NEW phase \in Phase, NEW left \in 0..3
  PROVE  [c EXCEPT !.phase = phase, !.left = left] \in Ctl
  BY DEF Ctl

LEMMA StateChange ==
  ASSUME NEW c \in Ctl, NEW state \in Running \cup Terminal \cup {"IDLE"}, NEW left \in 0..3
  PROVE  [c EXCEPT !.state = state, !.left = left] \in Ctl
  BY DEF Ctl

LEMMA PhaseFace == "FACE" \in Phase
  BY DEF Phase

LEMMA Initial == Init => IInv
<1> SUFFICES ASSUME Init PROVE IInv
  OBVIOUS
<1>1. TypeOK
  <2>1. PICK lidar \in BOOLEAN : ctl = [state |-> "IDLE", phase |-> "FACE", reverse |-> FALSE,
                                        left |-> 0, lidar |-> lidar]
    BY DEF Init
  <2>2. ctl \in Ctl
    BY <2>1 DEF Ctl, Phase
  <2>3. clock \in Times /\ base \in Place
    BY TimeoutAssumption DEF Init, Times, Place, Front
  <2>4. svc = "none" /\ ctl.state = "IDLE" /\ awaited = FALSE /\ fresh = FALSE
    BY DEF Init
  <2> QED BY <2>2, <2>3, <2>4 DEF Init, TypeOK, Ctl, Times
<1>2. ctl.state = "IDLE" /\ ctl.phase = "FACE" /\ ~ctl.reverse /\ svc = "none" /\ ~awaited
  BY DEF Init
<1>3. Calls /\ Awaits /\ Geometry
  BY <1>2 DEF Calls, Awaits, Geometry, Staged
<1>4. Durations
  BY <1>2 DEF Init, Durations, Staged
<1> QED BY <1>1, <1>3, <1>4 DEF IInv

-----------------------------------------------------------------------------
(* The ways a control step ends.                                           *)

\* A step that moves the robot, or only itself, in a running state has a caller
\* who waits, and an expired SERVO does not get that far.
LEMMA StepIsAwaited ==
  ASSUME IInv, In(Running), Steady, In({"SERVO"}) => Sighted
  PROVE  awaited /\ (In({"SERVO"}) => ~DockOver /\ fresh)
  BY DEF IInv, Awaits, Steady, Expired, MarkerLost

LEMMA EndsKeeps ==
  ASSUME IInv, In(Running), NEW state \in Terminal,
         state = "DONE" => awaited /\ clock.call < Limit,
         Ends(state)
  PROVE  IInv'
<1>1. ctl \in Ctl /\ ctl' = [ctl EXCEPT !.state = state, !.phase = "FACE", !.left = 0]
  BY DEF IInv, TypeOK, Ctl, Ends
<1>2. ctl' \in Ctl /\ ctl'.state = state /\ ctl'.reverse = ctl.reverse /\ ctl'.phase = "FACE"
  <2>1. ctl' \in Ctl
    <3>1. 0 \in 0..3 /\ state \in Running \cup Terminal \cup {"IDLE"}
      OBVIOUS
    <3> QED BY <1>1, <3>1, CtlChange, PhaseFace, Zenon
  <2>2. ctl'.state = state /\ ctl'.reverse = ctl.reverse /\ ctl'.phase = "FACE"
    BY <1>1 DEF Ctl
  <2> QED BY <2>1, <2>2
<1>3. clock' = clock /\ base' = base /\ svc' = svc
  BY DEF Ends, Halt
<1>4. TypeOK'
  <2>1. fresh' \in BOOLEAN
    BY Zenon DEF IInv, TypeOK, Ends
  <2>2. base' \in Place /\ clock' \in Times /\ cmd' \in {"stop", "go"} /\ ema' = NoPose
    BY <1>3 DEF IInv, TypeOK, Times, Ends, Halt
  <2> QED BY <1>2, <2>1, <2>2, ControlTypes DEF IInv, Ends
<1>5. Calls'
  BY <1>2, <1>3 DEF IInv, Calls, Staged
<1>6. Durations'
  BY <1>2, <1>3 DEF IInv, Durations, Staged
<1>7. Awaits'
  BY <1>2, <1>3 DEF Awaits, Limit, Ends
<1>8. Geometry'
  BY <1>2 DEF Geometry, Facing, NotTooNear, PoseIsTrue, ByOdometry, ByPose
<1> QED BY <1>4, <1>5, <1>6, <1>7, <1>8 DEF IInv

\* A step within a state, or from staging to the approach: what remains to be
\* shown is where the robot is.
LEMMA WithinState ==
  ASSUME IInv, In(Running), Remembered,
         ctl' \in Ctl, ctl'.reverse = ctl.reverse,
         \/ ctl'.state = ctl.state
         \/ ctl.state = "STAGE_GOTO" /\ ctl'.state = "APPROACH",
         base' \in Place, cmd' \in {"stop", "go"}, Geometry'
  PROVE  IInv'
<1>1. clock' = clock /\ svc' = svc /\ UNCHANGED <<svc, awaited>> /\ ema' = ema
  BY DEF Remembered
<1>2. TypeOK'
  <2>1. fresh' \in BOOLEAN
    BY Zenon DEF IInv, TypeOK, Remembered
  <2>2. ema' \in Place \cup {NoPose} /\ clock' \in Times /\ ctl'.state # "IDLE"
    BY <1>1 DEF IInv, TypeOK, Times
  <2> QED BY <1>1, <2>1, <2>2, ControlTypes DEF IInv
<1>3. Calls'
  BY <1>1 DEF IInv, Calls, Staged
<1>4. Durations'
  BY <1>1 DEF IInv, Durations, Staged
<1>5. Awaits'
  BY <1>1 DEF IInv, Awaits, DockOver, Remembered
<1> QED BY <1>2, <1>3, <1>4, <1>5 DEF IInv

\* A step that leaves the state and only moves the robot, or stops it.
LEMMA StayKeeps ==
  ASSUME IInv, In(Running), Stay, NEW b \in Place, Drive(b), Geometry'
  PROVE  IInv'
<1>1. ctl \in Ctl
  BY DEF IInv, TypeOK, Ctl
<1>2. ctl' \in Ctl /\ ctl' = ctl /\ Remembered /\ base' \in Place /\ cmd' = "go"
  BY <1>1 DEF Stay, Drive
<1> QED BY <1>2, WithinState

\* A step into a phase, or from staging to the approach, that stops the robot.
LEMMA PhaseKeeps ==
  ASSUME IInv, In(Running), NEW phase \in Phase,
         \/ NextPhase(phase)
         \/ ctl.state = "STAGE_GOTO" /\ NextState("APPROACH"),
         Geometry'
  PROVE  IInv'
<1>1. ctl \in Ctl /\ base \in Place
  BY DEF IInv, TypeOK, Ctl
<1>2. Remembered /\ base' = base /\ cmd' = "stop"
  BY DEF NextPhase, NextState, Halt
<1>3. ctl' \in Ctl /\ ctl'.reverse = ctl.reverse
  BY <1>1 DEF NextPhase, NextState, Ctl, Phase
<1>4. \/ ctl'.state = ctl.state
      \/ ctl.state = "STAGE_GOTO" /\ ctl'.state = "APPROACH"
  BY <1>1 DEF NextPhase, NextState, Ctl
<1> QED BY <1>1, <1>2, <1>3, <1>4, WithinState

-----------------------------------------------------------------------------
(* The steps of PREALIGN.                                                  *)

\* A turn changes nothing but the way the robot faces.
LEMMA Turned ==
  ASSUME base \in Place, NEW f \in Front \cup {"aside", "away"}
  PROVE  /\ [base EXCEPT !.facing = f] \in Place
         /\ [base EXCEPT !.facing = f].facing = f
         /\ [base EXCEPT !.facing = f].off = base.off
         /\ [base EXCEPT !.facing = f].depth = base.depth
  BY DEF Place

\* Turns on the spot towards the marker keep the geometry of every state in which
\* the robot steers by it.
LEMMA TurnKeeps ==
  ASSUME IInv, ByPose, NEW f \in Front, Stay, Drive([base EXCEPT !.facing = f]),
         ~InPhase("PREALIGN", "TURN1")
  PROVE  IInv'
<1>1. base \in Place /\ In(Running)
  BY DEF IInv, TypeOK, ByPose
<1>2. [base EXCEPT !.facing = f] \in Place /\ base'.facing = f
      /\ base'.off = base.off /\ base'.depth = base.depth
  BY <1>1, Turned DEF Drive
<1>3. ctl' = ctl /\ ema' = ema /\ awaited' = awaited /\ svc' = svc
  BY DEF Stay, Remembered
<1>4. Geometry'
  BY <1>2, <1>3 DEF IInv, Geometry, Facing, NotTooNear, PoseIsTrue, ByOdometry, SamePlace, ByPose
<1> QED BY <1>1, <1>2, <1>4, StayKeeps

LEMMA FaceMarkerKeeps == IInv /\ FaceMarker => IInv'
  BY TurnKeeps DEF FaceMarker, ByPose

\* PREALIGN is left for a state that steers by a pose yet to come, or by one that
\* is looked at again from further on.
LEMMA EnterAfterPrealignKeeps ==
  ASSUME IInv, In({"PREALIGN"}), Steady, base.facing \in Front, EnterAfterPrealign,
         base' = base, cmd' \in {"stop", "go"},
         Sighted => base.depth > 0
  PROVE  IInv'
<1>1. ctl \in Ctl /\ base \in Place /\ clock \in Times /\ ema \in Place \cup {NoPose}
  BY DEF IInv, TypeOK, Ctl, Times
<1>2. svc' = svc /\ awaited' = awaited /\ clock' = clock /\ fresh' = TRUE
  BY DEF EnterAfterPrealign
<1>3. awaited /\ clock.call <= DockTimeout
  BY StepIsAwaited DEF IInv, Durations
<1>4. svc = "dock"
  BY DEF IInv, TypeOK, Calls
<1>5. CASE ctl.reverse \/ ctl.lidar
  <2>1. ctl' = [ctl EXCEPT !.state = "SERVO", !.phase = "FACE"] /\ ema' = NoPose
    BY <1>5 DEF EnterAfterPrealign
  <2>2. ctl' \in Ctl /\ ctl'.state = "SERVO" /\ ctl'.reverse = ctl.reverse
    BY <1>1, <2>1 DEF Ctl, Phase
  <2>3. TypeOK'
    BY <1>1, <1>2, <2>1, <2>2, ControlTypes DEF IInv
  <2>4. Calls'
    BY <1>2, <1>4, <2>2 DEF IInv, Calls, Staged
  <2>5. Durations' /\ Awaits'
    BY <1>2, <1>3, <2>2 DEF IInv, Durations, Staged, Awaits
  <2>6. Geometry'
    BY <2>1, <2>2 DEF Geometry, Facing, NotTooNear, PoseIsTrue, ByOdometry, SamePlace, ByPose
  <2> QED BY <2>3, <2>4, <2>5, <2>6 DEF IInv
<1>6. CASE ~ (ctl.reverse \/ ctl.lidar)
  <2>1. ctl' = [ctl EXCEPT !.state = "STAGE_GOTO", !.phase = "AIM"] /\ ema' = ema
    BY <1>6 DEF EnterAfterPrealign
  <2>2. ctl' \in Ctl /\ ctl'.state = "STAGE_GOTO" /\ ctl'.phase = "AIM"
        /\ ctl'.reverse = ctl.reverse
    BY <1>1, <2>1 DEF Ctl, Phase
  <2>3. TypeOK'
    BY <1>1, <1>2, <2>1, <2>2, ControlTypes DEF IInv
  <2>4. Calls'
    BY <1>2, <1>4, <1>6, <2>2 DEF IInv, Calls, Staged
  <2>5. Durations' /\ Awaits'
    BY <1>2, <1>3, <2>2 DEF IInv, Durations, Staged, Awaits
  <2>6. Geometry'
    BY <2>1, <2>2 DEF Geometry, Facing, NotTooNear, PoseIsTrue, ByOdometry, SamePlace, ByPose
  <2> QED BY <2>3, <2>4, <2>5, <2>6 DEF IInv
<1> QED BY <1>5, <1>6

LEMMA SkipPrealignKeeps == IInv /\ SkipPrealign => IInv'
<1> SUFFICES ASSUME IInv, SkipPrealign PROVE IInv'
  OBVIOUS
<1>1. Sighted /\ awaited
  BY StepIsAwaited DEF SkipPrealign, NoPose
<1>2. base.facing \in Front /\ base.depth > 0
  BY <1>1 DEF SkipPrealign, IInv, Geometry, Facing, NotTooNear, ByPose
<1> QED BY <1>2, EnterAfterPrealignKeeps DEF SkipPrealign, IInv, TypeOK

LEMMA BeginPrealignKeeps == IInv /\ BeginPrealign => IInv'
<1> SUFFICES ASSUME IInv, BeginPrealign PROVE IInv'
  OBVIOUS
<1>1. ctl \in Ctl /\ ctl.state = "PREALIGN" /\ base \in Place
  BY DEF IInv, TypeOK, Ctl, BeginPrealign
<1>2. ctl' = [ctl EXCEPT !.phase = "TURN1", !.left = 1] /\ Remembered
      /\ base' = base /\ cmd' = "stop" /\ ema' = ema /\ awaited' = awaited
  BY DEF BeginPrealign, Halt, Remembered
<1>3. ctl'.state = ctl.state /\ ctl'.reverse = ctl.reverse /\ ctl'.phase = "TURN1"
  BY <1>1, <1>2 DEF Ctl
<1>4. ctl' \in Ctl
  <2>1. "TURN1" \in Phase /\ 1 \in 0..3
    BY DEF Phase
  <2> QED BY <1>1, <1>2, <2>1, PhaseChange, Zenon
<1>5. Sighted
  BY DEF BeginPrealign, NoPose
<1>6. Geometry'
  BY <1>1, <1>2, <1>3, <1>5 DEF IInv, Geometry, Facing, NotTooNear, PoseIsTrue, ByOdometry, SamePlace, ByPose
<1> QED BY <1>1, <1>2, <1>3, <1>4, <1>6, WithinState

LEMMA Turn1Keeps == IInv /\ Turn1 => IInv'
<1> SUFFICES ASSUME IInv, Turn1 PROVE IInv'
  OBVIOUS
<1>1. ctl.state = "PREALIGN" /\ ctl.phase = "TURN1" /\ base \in Place /\ ctl \in Ctl
  BY DEF IInv, TypeOK, Ctl, Turn1
<1>2. CASE base.facing = "aside"
  <2>1. NextPhase("DRIVE")
    BY <1>2 DEF Turn1
  <2>2. ctl'.state = "PREALIGN" /\ ema' = ema /\ base' = base /\ awaited' = awaited
        /\ ctl'.phase = "DRIVE"
    BY <1>1, <2>1 DEF NextPhase, Halt, Remembered, Ctl
  <2>3. Geometry'
    BY <1>1, <2>2 DEF IInv, Geometry, Facing, NotTooNear, PoseIsTrue, ByOdometry, SamePlace, ByPose
  <2>4. "DRIVE" \in Phase
    BY DEF Phase
  <2> QED BY <1>1, <2>1, <2>3, <2>4, PhaseKeeps
<1>3. CASE base.facing # "aside"
  <2>1. Drive([base EXCEPT !.facing = "aside"]) /\ Stay
    BY <1>3 DEF Turn1
  <2>2. [base EXCEPT !.facing = "aside"] \in Place /\ base'.depth = base.depth
    BY <1>1, <2>1, Turned DEF Drive
  <2>3. ctl' = ctl /\ ema' = ema /\ awaited' = awaited
    BY <2>1 DEF Stay, Remembered
  <2>4. Geometry'
    BY <1>1, <2>2, <2>3 DEF IInv, Geometry, Facing, NotTooNear, PoseIsTrue, ByOdometry, SamePlace, ByPose
  <2> QED BY <1>1, <2>1, <2>2, <2>4, StayKeeps
<1> QED BY <1>2, <1>3

LEMMA DriveAsideKeeps == IInv /\ DriveAside => IInv'
<1> SUFFICES ASSUME IInv, DriveAside PROVE IInv'
  OBVIOUS
<1>1. ctl \in Ctl /\ ctl.state = "PREALIGN" /\ ctl.phase = "DRIVE" /\ base \in Place
  BY DEF IInv, TypeOK, Ctl, DriveAside
<1>2. PICK off \in 0..3 : base' = [base EXCEPT !.off = off]
  BY <1>1 DEF DriveAside, Drive, Place
<1>3. base' \in Place /\ base'.depth = base.depth
  BY <1>1, <1>2 DEF Place
<1>4. ctl' = [ctl EXCEPT !.left = 0] /\ Remembered /\ cmd' = "go"
      /\ ema' = ema /\ awaited' = awaited
  BY DEF DriveAside, Drive, Remembered
<1>5. ctl' \in Ctl /\ ctl'.state = ctl.state /\ ctl'.reverse = ctl.reverse /\ ctl'.phase = "DRIVE"
  BY <1>1, <1>4 DEF Ctl
<1>6. Geometry'
  BY <1>1, <1>3, <1>4, <1>5 DEF IInv, Geometry, Facing, NotTooNear, PoseIsTrue, ByOdometry, SamePlace, ByPose
<1> QED BY <1>1, <1>3, <1>4, <1>5, <1>6, WithinState

LEMMA DriveAsideDoneKeeps == IInv /\ DriveAsideDone => IInv'
<1> SUFFICES ASSUME IInv, DriveAsideDone PROVE IInv'
  OBVIOUS
<1>1. ctl \in Ctl /\ ctl.state = "PREALIGN" /\ ctl.phase = "DRIVE"
  BY DEF IInv, TypeOK, Ctl, DriveAsideDone
<1>2. ctl'.state = "PREALIGN" /\ ema' = ema /\ base' = base /\ awaited' = awaited
      /\ ctl'.phase = "TURN2"
  BY <1>1 DEF DriveAsideDone, NextPhase, Halt, Remembered, Ctl
<1>3. Geometry'
  BY <1>1, <1>2 DEF IInv, Geometry, Facing, NotTooNear, PoseIsTrue, ByOdometry, SamePlace, ByPose
<1>4. "TURN2" \in Phase
  BY DEF Phase
<1> QED BY <1>1, <1>3, <1>4, PhaseKeeps DEF DriveAsideDone

LEMMA Turn2Keeps == IInv /\ Turn2 => IInv'
<1> SUFFICES ASSUME IInv, Turn2 PROVE IInv'
  OBVIOUS
<1>1. awaited /\ base.depth > 0
  BY StepIsAwaited DEF Turn2, IInv, Geometry, NotTooNear
<1>2. CASE base.facing \in Front
  <2>1. EnterAfterPrealign /\ Halt
    BY <1>2 DEF Turn2
  <2> QED BY <1>1, <1>2, <2>1, EnterAfterPrealignKeeps DEF Turn2, Halt
<1>3. CASE base.facing \notin Front
  <2>1. PICK f \in Front : Drive([base EXCEPT !.facing = f]) /\ Stay
    BY <1>3 DEF Turn2
  <2> QED BY <2>1, TurnKeeps DEF Turn2, ByPose
<1> QED BY <1>2, <1>3

-----------------------------------------------------------------------------
(* The steps of staging, of the approach, and of SERVO and ALIGN.          *)

LEMMA AimKeeps == IInv /\ Aim => IInv'
<1> SUFFICES ASSUME IInv, Aim PROVE IInv'
  OBVIOUS
<1>1. ctl \in Ctl /\ ctl.state = "STAGE_GOTO" /\ ctl.phase = "AIM"
  BY DEF IInv, TypeOK, Ctl, Aim
<1>2. ASSUME NextPhase("GOTO") PROVE IInv'
  <2>1. ctl'.state = "STAGE_GOTO" /\ ema' = ema /\ base' = base /\ awaited' = awaited
        /\ ctl'.phase = "GOTO"
    BY <1>1, <1>2 DEF NextPhase, Halt, Remembered, Ctl
  <2>2. Geometry'
    BY <1>1, <2>1 DEF IInv, Geometry, Facing, NotTooNear, PoseIsTrue, ByOdometry, SamePlace, ByPose
  <2>3. "GOTO" \in Phase
    BY DEF Phase
  <2> QED BY <1>1, <1>2, <2>2, <2>3, PhaseKeeps
<1>3. ASSUME Stay, NEW f \in Front, Drive([base EXCEPT !.facing = f]) PROVE IInv'
  BY <1>1, <1>3, TurnKeeps DEF ByPose
<1> QED BY <1>2, <1>3 DEF Aim

\* Steering keeps the robot facing the marker and off the depth of the dock.
LEMMA SteeredPlace ==
  ASSUME NEW depths, depths \subseteq {1, 2, 3}, NEW b \in Steered(depths)
  PROVE  b \in Place /\ b.facing \in Front /\ b.depth > 0
  BY DEF Steered, Place

LEMMA GoToStageKeeps == IInv /\ GoToStage => IInv'
<1> SUFFICES ASSUME IInv, GoToStage PROVE IInv'
  OBVIOUS
<1>1. ctl \in Ctl /\ ctl.state = "STAGE_GOTO" /\ ctl.phase = "GOTO" /\ base \in Place
  BY DEF IInv, TypeOK, Ctl, GoToStage
<1>2. awaited /\ base.depth > 0
  BY <1>1, StepIsAwaited DEF GoToStage, IInv, Geometry, NotTooNear, ByPose
<1>3. CASE AtStage
  <2>1. NextPhase("YAW") /\ ema.depth = 2
    BY <1>3 DEF GoToStage, AtStage
  <2>2. ctl'.state = "STAGE_GOTO" /\ ema' = ema /\ base' = base /\ awaited' = awaited
        /\ ctl'.phase = "YAW"
    BY <1>1, <2>1 DEF NextPhase, Halt, Remembered, Ctl
  <2>3. Geometry'
    BY <1>1, <2>1, <2>2 DEF IInv, Geometry, Facing, NotTooNear, PoseIsTrue, ByOdometry, SamePlace, ByPose
  <2>4. "YAW" \in Phase
    BY DEF Phase
  <2> QED BY <1>1, <2>1, <2>3, <2>4, PhaseKeeps
<1>4. CASE ~AtStage
  <2>1. PICK b \in Steered({base.depth, 2}) : Drive(b) /\ Stay
    BY <1>4 DEF GoToStage
  <2>2. {base.depth, 2} \subseteq {1, 2, 3}
    BY <1>1, <1>2 DEF Place
  <2>3. b \in Place /\ b.facing \in Front /\ b.depth > 0
    BY <2>2, SteeredPlace
  <2>4. ctl' = ctl /\ ema' = ema /\ awaited' = awaited /\ base' = b
    BY <2>1 DEF Stay, Remembered, Drive
  <2>5. Geometry'
    BY <1>1, <2>3, <2>4 DEF IInv, Geometry, Facing, NotTooNear, PoseIsTrue, ByOdometry, SamePlace, ByPose
  <2> QED BY <1>1, <2>1, <2>3, <2>5, StayKeeps
<1> QED BY <1>3, <1>4

LEMMA FaceAtStageKeeps == IInv /\ FaceAtStage => IInv'
<1> SUFFICES ASSUME IInv, FaceAtStage PROVE IInv'
  OBVIOUS
<1>1. ctl \in Ctl /\ ctl.state = "STAGE_GOTO" /\ ctl.phase = "YAW"
  BY DEF IInv, TypeOK, Ctl, FaceAtStage
<1>2. CASE ema.facing = "square"
  <2>1. NextState("APPROACH")
    BY <1>2 DEF FaceAtStage
  <2>2. ctl'.state = "APPROACH" /\ ema' = ema /\ base' = base /\ awaited' = awaited
    BY <1>1, <2>1 DEF NextState, Halt, Remembered, Ctl
  <2>3. Geometry'
    BY <1>1, <2>2 DEF IInv, Geometry, Facing, NotTooNear, PoseIsTrue, ByOdometry, SamePlace, ByPose
  <2> QED BY <1>1, <2>1, <2>3, PhaseKeeps, PhaseFace
<1>3. CASE ema.facing # "square"
  <2>1. PICK f \in Front : Drive([base EXCEPT !.facing = f]) /\ Stay
    BY <1>3 DEF FaceAtStage
  <2> QED BY <1>1, <2>1, TurnKeeps DEF ByPose
<1> QED BY <1>2, <1>3

\* Driving closer: as long as the pose is from further off, whatever the robot
\* has done since is not yet taken for the hand-off.
LEMMA CloserKeeps ==
  ASSUME IInv, In({"APPROACH", "SERVO"}), Steady, Sighted, ema.depth > 1,
         Stay, NEW b \in Steered(Closer), Drive(b)
  PROVE  IInv'
<1>1. base \in Place /\ ema \in Place \cup {NoPose}
  BY DEF IInv, TypeOK
<1>2. awaited /\ base.depth > 0
  BY StepIsAwaited DEF IInv, Geometry, NotTooNear, ByPose
<1>3. Closer \subseteq {1, 2, 3}
  BY <1>1, <1>2 DEF Closer, Place
<1>4. b \in Place /\ b.facing \in Front /\ b.depth > 0
  BY <1>3, SteeredPlace
<1>5. ctl' = ctl /\ ema' = ema /\ awaited' = awaited /\ base' = b
  BY DEF Stay, Remembered, Drive
<1>6. Geometry'
  BY <1>1, <1>4, <1>5 DEF Place, NoPose, Geometry, Facing, NotTooNear, PoseIsTrue, ByOdometry, SamePlace, ByPose
<1> QED BY <1>4, <1>6, StayKeeps

LEMMA ApproachKeeps == IInv /\ Approach => IInv'
  BY CloserKeeps DEF Approach

LEMMA ServoKeeps == IInv /\ Servo => IInv'
  BY CloserKeeps DEF Servo

\* The beginning of a phase with a clock of its own.
LEMMA TimedKeeps ==
  ASSUME IInv, In({"APPROACH", "SERVO", "ALIGN", "SPIN180"}), awaited,
         NEW state \in {"ALIGN", "CREEP", "SPIN180", "UNDOCK"}, NEW left \in 0..3,
         EnterTimed(state, left), base' \in Place, cmd' \in {"stop", "go"},
         Calls', Durations', Geometry'
  PROVE  IInv'
<1>1. ctl \in Ctl /\ clock \in Times /\ ema \in Place \cup {NoPose} /\ CallTimeout \in Nat
  BY TimeoutAssumption DEF IInv, TypeOK, Ctl, Times
<1>2. ctl' = [ctl EXCEPT !.state = state, !.left = left]
  BY DEF EnterTimed
<1>3. ctl' \in Ctl
  <2>1. state \in Running \cup Terminal \cup {"IDLE"}
    OBVIOUS
  <2> QED BY <1>1, <1>2, <2>1, StateChange, Zenon
<1>4. ctl'.state = state
  BY <1>1, <1>2 DEF Ctl
<1>5. clock' \in Times /\ ema' \in Place \cup {NoPose}
  BY <1>1 DEF EnterTimed, Times
<1>6. fresh' \in BOOLEAN
  BY Zenon DEF IInv, TypeOK, EnterTimed
<1>7. TypeOK'
  BY <1>3, <1>4, <1>5, <1>6, ControlTypes DEF IInv, EnterTimed
<1>8. Awaits'
  BY <1>4 DEF Awaits, EnterTimed
<1> QED BY <1>7, <1>8 DEF IInv

\* What the clocks read when a timed phase begins.
LEMMA ClocksAtEntry ==
  ASSUME IInv, NEW state, NEW left, EnterTimed(state, left)
  PROVE  /\ clock'.call = clock.call /\ clock'.phase = 0
         /\ clock.call \in 0..CallTimeout /\ clock.phase \in 0..CallTimeout
         /\ {DockTimeout, AlignTimeout, SpinTimeout, CreepTimeout, CallTimeout} \subseteq Nat
  BY TimeoutAssumption DEF IInv, TypeOK, EnterTimed

LEMMA ApproachHandoffKeeps == IInv /\ ApproachHandoff => IInv'
<1> SUFFICES ASSUME IInv, ApproachHandoff PROVE IInv'
  OBVIOUS
<1>1. ctl \in Ctl /\ ctl.state = "APPROACH" /\ base \in Place /\ ema \in Place /\ ema.depth <= 1
  BY DEF IInv, TypeOK, Ctl, ApproachHandoff
<1>2. awaited /\ clock.call < DockTimeout
  BY <1>1, StepIsAwaited, TimeoutAssumption
     DEF ApproachHandoff, Steady, Expired, DockOver, IInv, TypeOK
<1>3. CASE ema.off > HandoffMaxEy
  <2>1. Ends("MISALIGNED")
    BY <1>3 DEF ApproachHandoff
  <2> QED BY <1>1, <2>1, EndsKeeps
<1>4. CASE ~ (ema.off > HandoffMaxEy)
  <2>1. EnterTimed("CREEP", ema.depth) /\ base' = base /\ cmd' = cmd
    BY <1>4 DEF ApproachHandoff
  <2>2. ema.depth \in 0..3 /\ ema.off <= HandoffMaxEy
    BY <1>1, <1>4 DEF Place, HandoffMaxEy
  <2>3. ctl'.state = "CREEP" /\ ctl'.left = ema.depth /\ ctl'.reverse = ctl.reverse
        /\ svc' = svc /\ awaited' = awaited
    BY <1>1, <2>1 DEF EnterTimed, Ctl
  <2>4. Calls'
    BY <1>1, <2>3 DEF IInv, Calls, Staged
  <2>5. Durations'
    BY <1>2, <2>1, <2>3, ClocksAtEntry, TimeoutAssumption DEF Durations, Staged
  <2>6. Geometry'
    BY <1>1, <1>2, <2>1, <2>2, <2>3 DEF ApproachHandoff, IInv, Geometry, Facing, NotTooNear, PoseIsTrue, ByOdometry, SamePlace, ByPose
  <2>7. cmd' \in {"stop", "go"}
    BY <2>1 DEF IInv, TypeOK
  <2> QED BY <1>1, <1>2, <2>1, <2>2, <2>4, <2>5, <2>6, <2>7, TimedKeeps
<1> QED BY <1>3, <1>4

LEMMA ServoHandoffKeeps == IInv /\ ServoHandoff => IInv'
<1> SUFFICES ASSUME IInv, ServoHandoff PROVE IInv'
  OBVIOUS
<1>1. ctl \in Ctl /\ ctl.state = "SERVO" /\ base \in Place /\ ema \in Place /\ ema.depth <= 1
  BY DEF IInv, TypeOK, Ctl, ServoHandoff
<1>2. awaited /\ clock.call < DockTimeout
  BY <1>1, StepIsAwaited, TimeoutAssumption DEF ServoHandoff, DockOver, IInv, TypeOK
<1> DEFINE max == IF ctl.reverse THEN HomeMaxEy ELSE HandoffMaxEy
<1>3. CASE ema.off > max
  <2>1. Ends("MISALIGNED")
    BY <1>3 DEF ServoHandoff
  <2> QED BY <1>1, <2>1, EndsKeeps
<1>4. CASE ~ (ema.off > max)
  <2>1. EnterTimed("ALIGN", 0) /\ base' = base /\ cmd' = cmd /\ Sighted
    BY <1>4 DEF ServoHandoff
  <2>2. ema.off <= max
    BY <1>1, <1>4 DEF Place, HandoffMaxEy, HomeMaxEy
  <2>3. ctl'.state = "ALIGN" /\ ctl'.reverse = ctl.reverse
        /\ svc' = svc /\ awaited' = awaited /\ ema' = ema
    BY <1>1, <2>1 DEF EnterTimed, Ctl
  <2>4. Calls'
    BY <1>1, <2>3 DEF IInv, Calls, Staged
  <2>5. Durations'
    BY <1>2, <2>1, <2>3, ClocksAtEntry, TimeoutAssumption DEF Durations, Staged
  <2>6. SamePlace /\ base.depth = 1 /\ base.facing \in Front
    BY <1>1, <1>2, <2>1 DEF IInv, Geometry, Facing, NotTooNear, PoseIsTrue, SamePlace, ByPose, Place
  <2>7. Geometry'
    BY <1>1, <2>1, <2>2, <2>3, <2>6 DEF Geometry, Facing, NotTooNear, PoseIsTrue, ByOdometry, SamePlace, ByPose
  <2>8. cmd' \in {"stop", "go"}
    BY <2>1 DEF IInv, TypeOK
  <2> QED BY <1>1, <1>2, <2>1, <2>4, <2>5, <2>7, <2>8, TimedKeeps
<1> QED BY <1>3, <1>4

LEMMA AlignKeeps == IInv /\ Align => IInv'
  BY TurnKeeps DEF Align, ByPose

LEMMA AlignDoneKeeps == IInv /\ AlignDone => IInv'
<1> SUFFICES ASSUME IInv, AlignDone PROVE IInv'
  OBVIOUS
<1>1. ctl \in Ctl /\ ctl.state = "ALIGN" /\ base \in Place
  BY DEF IInv, TypeOK, Ctl, AlignDone
<1>2. awaited
  BY <1>1, StepIsAwaited DEF AlignDone
<1>3. ema.depth = 1 /\ base.depth = 1 /\ (~ctl.reverse => base.off <= HandoffMaxEy)
      /\ base.facing \in Front
  BY <1>1, <1>2 DEF IInv, Geometry, PoseIsTrue, SamePlace, Facing
<1> DEFINE next == IF ctl.reverse THEN "SPIN180" ELSE "CREEP"
<1>4. EnterTimed(next, 1) /\ base' = base /\ cmd' = cmd
  BY <1>3 DEF AlignDone
<1>5. ctl'.state = next /\ ctl'.left = 1 /\ ctl'.reverse = ctl.reverse
      /\ svc' = svc /\ awaited' = awaited
  BY <1>1, <1>4 DEF EnterTimed, Ctl
<1>6. Calls'
  BY <1>1, <1>5 DEF IInv, Calls, Staged
<1>7. clock.phase <= AlignTimeout /\ clock.call < DockTimeout + clock.phase
  BY <1>1 DEF IInv, Durations
<1>8. Durations'
  BY <1>4, <1>5, <1>7, ClocksAtEntry, TimeoutAssumption DEF Durations, Staged
<1>9. Geometry'
  BY <1>3, <1>4, <1>5 DEF Geometry, Facing, NotTooNear, PoseIsTrue, ByOdometry, SamePlace, ByPose
<1>10. cmd' \in {"stop", "go"}
  BY <1>4 DEF IInv, TypeOK
<1>11. next \in {"ALIGN", "CREEP", "SPIN180", "UNDOCK"} /\ 1 \in 0..3
  OBVIOUS
<1> HIDE DEF next
<1> QED BY <1>1, <1>2, <1>4, <1>6, <1>8, <1>9, <1>10, <1>11, TimedKeeps

-----------------------------------------------------------------------------
(* The steps by odometry, and the ends that every state has.               *)

LEMMA Spin180Keeps == IInv /\ Spin180 => IInv'
<1> SUFFICES ASSUME IInv, Spin180 PROVE IInv'
  OBVIOUS
<1>1. ctl \in Ctl /\ ctl.state = "SPIN180" /\ base \in Place
  BY DEF IInv, TypeOK, Ctl, Spin180
<1>2. awaited /\ base.depth = 1 /\ ctl.left = 1 /\ ctl.reverse /\ svc = "dock"
  BY <1>1, StepIsAwaited DEF Spin180, IInv, Geometry, ByOdometry, Calls
<1>3. CASE base.facing = "away"
  <2>1. EnterTimed("UNDOCK", 1) /\ base' = base /\ cmd' = "stop"
    BY <1>2, <1>3 DEF Spin180, Halt
  <2>2. ctl'.state = "UNDOCK" /\ ctl'.left = 1 /\ ctl'.reverse = ctl.reverse
        /\ svc' = svc /\ awaited' = awaited
    BY <1>1, <2>1 DEF EnterTimed, Ctl
  <2>3. Calls'
    BY <1>1, <1>2, <2>2 DEF Calls, Staged
  <2>4. clock.phase <= SpinTimeout /\ clock.call < DockTimeout + AlignTimeout + clock.phase
    BY <1>1 DEF IInv, Durations
  <2>5. Durations'
    BY <1>2, <2>1, <2>2, <2>4, ClocksAtEntry, TimeoutAssumption DEF Durations, Staged
  <2>6. Geometry'
    BY <1>2, <1>3, <2>1, <2>2 DEF Geometry, Facing, NotTooNear, PoseIsTrue, ByOdometry, SamePlace, ByPose
  <2> QED BY <1>1, <1>2, <2>1, <2>3, <2>5, <2>6, TimedKeeps
<1>4. CASE base.facing # "away"
  <2>1. Drive([base EXCEPT !.facing = "away"]) /\ Stay
    BY <1>4 DEF Spin180
  <2>2. [base EXCEPT !.facing = "away"] \in Place /\ base'.depth = base.depth
    BY <1>1, <2>1, Turned DEF Drive
  <2>3. ctl' = ctl /\ ema' = ema /\ awaited' = awaited
    BY <2>1 DEF Stay, Remembered
  <2>4. Geometry'
    BY <1>1, <1>2, <2>2, <2>3 DEF Geometry, Facing, NotTooNear, PoseIsTrue, ByOdometry, SamePlace, ByPose
  <2> QED BY <1>1, <2>1, <2>2, <2>4, StayKeeps
<1> QED BY <1>3, <1>4

\* One step by odometry: towards the dock, or out of it.
LEMMA CreepMoves ==
  ASSUME IInv, Creep
  PROVE  /\ base' \in Place /\ base'.facing = base.facing /\ base'.off = base.off
         /\ base'.depth = IF ctl.state = "UNDOCK" /\ svc = "undock" THEN base.depth + 1
                          ELSE base.depth - 1
<1>1. ctl.state \in {"CREEP", "UNDOCK"} /\ ctl.left > 0 /\ ctl \in Ctl /\ base \in Place
  BY DEF IInv, TypeOK, Ctl, Creep
<1>2. awaited
  BY <1>1, StepIsAwaited DEF Creep
<1>3. Advanced \in Place /\ Advanced.facing = base.facing /\ Advanced.off = base.off
      /\ (base.depth > 0 => Advanced.depth = base.depth - 1)
  BY <1>1 DEF Advanced, Place
<1>4. svc \in {"dock", "undock"}
  BY <1>1 DEF IInv, TypeOK
<1>5. CASE ctl.state = "CREEP" \/ svc = "dock"
  <2>1. base.depth = ctl.left /\ base.depth > 0
    BY <1>1, <1>2, <1>4, <1>5 DEF IInv, Geometry, ByOdometry, Ctl
  <2>2. ctl.state = "UNDOCK" => base.facing = "away" /\ svc = "dock"
    BY <1>2, <1>5 DEF IInv, Geometry, ByOdometry
  <2>3. base' = Advanced
    BY <1>1, <2>2 DEF Creep, Drive, BackedUp
  <2> QED BY <1>1, <1>3, <2>1, <2>2, <2>3
<1>6. CASE ctl.state = "UNDOCK" /\ svc = "undock"
  <2>1. base.facing \in Front /\ base.depth + ctl.left = UndockDist /\ base.depth \in 0..3
        /\ ctl.left \in 0..3
    BY <1>1, <1>2, <1>6 DEF IInv, Geometry, ByOdometry, Ctl, Place
  <2>2. base.depth < 2
    BY <1>1, <2>1 DEF UndockDist
  <2>3. base' = [base EXCEPT !.depth = base.depth + 1]
    BY <1>6, <2>1, <2>2 DEF Creep, Drive, BackedUp, Front
  <2> QED BY <1>1, <1>6, <2>2, <2>3 DEF Place
<1> QED BY <1>1, <1>4, <1>5, <1>6

LEMMA CreepKeeps == IInv /\ Creep => IInv'
<1> SUFFICES ASSUME IInv, Creep PROVE IInv'
  OBVIOUS
<1>1. ctl \in Ctl /\ ctl.state \in {"CREEP", "UNDOCK"} /\ ctl.left > 0 /\ ctl.left \in 0..3
  BY DEF IInv, TypeOK, Ctl, Creep
<1>2. base' \in Place /\ base'.facing = base.facing /\ base'.off = base.off
      /\ base'.depth = IF ctl.state = "UNDOCK" /\ svc = "undock" THEN base.depth + 1
                       ELSE base.depth - 1
  BY CreepMoves
<1>3. ctl' = [ctl EXCEPT !.left = @ - 1] /\ Remembered /\ cmd' = "go"
  BY DEF Creep, Drive
<1>4. ctl' \in Ctl /\ ctl'.state = ctl.state /\ ctl'.reverse = ctl.reverse
      /\ ctl'.left = ctl.left - 1
  BY <1>1, <1>3 DEF Ctl
<1>5. svc' = svc /\ awaited' = awaited /\ base.depth \in 0..3 /\ svc \in {"dock", "undock"}
  BY <1>1, <1>3 DEF Remembered, IInv, TypeOK, Place
<1>6. Geometry'
  BY <1>1, <1>2, <1>4, <1>5 DEF IInv, UndockDist, Geometry, Facing, NotTooNear, PoseIsTrue, ByOdometry, SamePlace, ByPose
<1> QED BY <1>1, <1>2, <1>3, <1>4, <1>6, WithinState

\* A drive by odometry that is not out of time has a caller who still waits.
LEMMA CreepInTime ==
  ASSUME IInv, In({"CREEP", "UNDOCK"}), Steady
  PROVE  awaited /\ clock.call < Limit
<1>1. awaited
  BY StepIsAwaited
<1>2. clock.phase < CreepTimeout /\ clock.phase \in Nat /\ clock.call \in Nat
  BY TimeoutAssumption DEF Steady, Expired, IInv, TypeOK
<1>3. svc \in {"dock", "undock"}
  BY DEF IInv, TypeOK
<1>4. DockTimeout \in Nat /\ AlignTimeout \in Nat /\ SpinTimeout \in Nat /\ CreepTimeout \in Nat
      /\ CallTimeout \in Nat /\ UndockWait \in Nat
  BY TimeoutAssumption
<1>5. CASE ctl.state = "CREEP"
  <2>1. svc = "dock" /\ clock.call < DockTimeout + AlignTimeout + clock.phase
    BY <1>3, <1>5 DEF IInv, Durations, Calls
  <2> QED BY <1>1, <1>2, <1>4, <2>1, TimeoutAssumption DEF Limit
<1>6. CASE ctl.state = "UNDOCK"
  <2>1. IF svc = "dock" THEN clock.call < DockTimeout + AlignTimeout + SpinTimeout + clock.phase
        ELSE clock.call = clock.phase
    BY <1>6 DEF IInv, Durations
  <2> QED BY <1>1, <1>2, <1>3, <1>4, <2>1, TimeoutAssumption DEF Limit
<1> QED BY <1>5, <1>6

LEMMA CreepDoneKeeps == IInv /\ CreepDone => IInv'
  BY CreepInTime, EndsKeeps DEF CreepDone

LEMMA StallsKeeps == IInv /\ Stalls => IInv'
  BY EndsKeeps DEF Stalls

LEMMA TimesOutKeeps == IInv /\ TimesOut => IInv'
  BY EndsKeeps DEF TimesOut, Expired

LEMMA LosesKeeps == IInv /\ Loses => IInv'
  BY EndsKeeps DEF Loses, MarkerLost

LEMMA ControlStepKeeps == IInv /\ ControlStep => IInv'
  BY TimesOutKeeps, LosesKeeps, FaceMarkerKeeps, SkipPrealignKeeps, BeginPrealignKeeps,
     Turn1Keeps, DriveAsideKeeps, DriveAsideDoneKeeps, Turn2Keeps, AimKeeps, GoToStageKeeps,
     FaceAtStageKeeps, ApproachKeeps, ApproachHandoffKeeps, ServoKeeps, ServoHandoffKeeps,
     AlignKeeps, AlignDoneKeeps, Spin180Keeps, CreepKeeps, CreepDoneKeeps, StallsKeeps
  DEF ControlStep

-----------------------------------------------------------------------------
(* Poses, time, and the services.                                          *)

LEMMA PoseCbKeeps == IInv /\ PoseCb => IInv'
<1> SUFFICES ASSUME IInv, PoseCb PROVE IInv'
  OBVIOUS
<1>1. UNCHANGED <<ctl, svc, awaited, clock, base, cmd>> /\ fresh' = TRUE
  BY DEF PoseCb
<1>2. base \in Place /\ base.facing \in Front /\ base.depth > 0
  BY DEF PoseCb, IInv, TypeOK
<1>3. ema' = IF ByPose THEN base ELSE NoPose
  BY DEF PoseCb
<1>4. TypeOK'
  <2>1. ema' \in Place \cup {NoPose}
    BY <1>2, <1>3
  <2> QED BY <1>1, <2>1, Zenon DEF IInv, TypeOK
<1>5. Calls' /\ Durations' /\ Awaits'
  BY <1>1 DEF IInv, Calls, Durations, Awaits, Staged, DockOver, Limit
<1>6. Geometry'
  BY <1>1, <1>2, <1>3 DEF IInv, Front, NoPose, Geometry, Facing, NotTooNear, PoseIsTrue, ByOdometry, SamePlace, ByPose
<1> QED BY <1>4, <1>5, <1>6 DEF IInv

LEMMA PoseAgesKeeps == IInv /\ PoseAges => IInv'
<1> SUFFICES ASSUME IInv, PoseAges PROVE IInv'
  OBVIOUS
<1>1. UNCHANGED <<ctl, svc, awaited, ema, clock, base, cmd>> /\ fresh' = FALSE
  BY DEF PoseAges
<1>2. TypeOK'
  BY <1>1, Zenon DEF IInv, TypeOK
<1>3. Calls' /\ Durations' /\ Awaits'
  BY <1>1 DEF IInv, Calls, Durations, Awaits, Staged, DockOver, Limit
<1>4. Geometry'
  BY <1>1 DEF IInv, Geometry, Facing, NotTooNear, PoseIsTrue, ByOdometry, SamePlace, ByPose
<1> QED BY <1>2, <1>3, <1>4 DEF IInv

LEMMA TickKeeps == IInv /\ Tick => IInv'
<1> SUFFICES ASSUME IInv, Tick PROVE IInv'
  OBVIOUS
<1>1. UNCHANGED <<ctl, svc, awaited, ema, fresh, base, cmd>>
  BY DEF Tick
<1>2. clock.call \in Nat /\ clock.phase \in Nat /\ clock.call < CallTimeout
      /\ clock.phase <= clock.call /\ CallTimeout \in Nat
  BY TimeoutAssumption DEF Tick, IInv, TypeOK, Durations
<1>3. clock' = [call |-> clock.call + 1, phase |-> clock.phase + 1]
  BY DEF Tick
<1>4. TypeOK'
  <2>1. clock' \in Times
    BY <1>2, <1>3 DEF Times
  <2> QED BY <1>1, <2>1, Zenon DEF IInv, TypeOK, Times
<1>5. Calls'
  BY <1>1 DEF IInv, Calls, Staged
<1>6. Durations'
  <2>1. DockTimeout \in Nat /\ AlignTimeout \in Nat /\ SpinTimeout \in Nat /\ CreepTimeout \in Nat
    BY TimeoutAssumption
  <2>2. In({"PREALIGN"}) \/ Staged => clock.call < DockTimeout
    BY <1>2, <2>1 DEF Tick, Steady, Expired, DockOver, Staged
  <2>3. In({"ALIGN"}) => clock.phase < AlignTimeout
    BY <1>2, <2>1 DEF Tick, AlignExpired
  <2>4. In({"SPIN180"}) => clock.phase < SpinTimeout
    BY <1>2, <2>1 DEF Tick, Steady, Expired
  <2>5. In({"CREEP", "UNDOCK"}) => clock.phase < CreepTimeout
    BY <1>2, <2>1 DEF Tick, Steady, Expired
  <2> QED BY <1>1, <1>2, <1>3, <2>1, <2>2, <2>3, <2>4, <2>5 DEF IInv, Durations, Staged
<1>7. Awaits'
  <2>1. ~In({"DONE"})
    BY DEF Tick
  <2>2. DockOver => DockOver'
    BY <1>2, <1>3, TimeoutAssumption DEF DockOver
  <2> QED BY <1>1, <2>1, <2>2 DEF IInv, Awaits
<1>8. Geometry'
  BY <1>1 DEF IInv, Geometry, Facing, NotTooNear, PoseIsTrue, ByOdometry, SamePlace, ByPose
<1> QED BY <1>4, <1>5, <1>6, <1>7, <1>8 DEF IInv

\* The clocks at the beginning of a call.
LEMMA ClocksAtStart ==
  ASSUME clock' = [call |-> 0, phase |-> 0]
  PROVE  /\ clock' \in Times /\ clock'.call = 0 /\ clock'.phase = 0
         /\ DockTimeout \in Nat \ {0} /\ CreepTimeout \in Nat \ {0}
  BY TimeoutAssumption DEF Times

LEMMA StartDockKeeps == IInv /\ (\E reverse \in BOOLEAN : StartDock(reverse)) => IInv'
<1> SUFFICES ASSUME IInv, \E reverse \in BOOLEAN : StartDock(reverse) PROVE IInv'
  OBVIOUS
<1>1. PICK reverse \in BOOLEAN :
        /\ ctl' = [ctl EXCEPT !.state = "PREALIGN", !.reverse = reverse]
        /\ ctl.state = "IDLE" /\ svc' = "dock" /\ awaited' = TRUE /\ ema' = NoPose
        /\ clock' = [call |-> 0, phase |-> 0] /\ UNCHANGED <<fresh, base, cmd>>
  BY Zenon DEF StartDock
<1>2. ctl \in Ctl /\ ctl.phase = "FACE"
  BY <1>1 DEF IInv, TypeOK, Ctl, Calls
<1>3. ctl'.state = "PREALIGN" /\ ctl'.phase = "FACE"
  BY <1>1, <1>2 DEF Ctl
<1>4. ctl' \in Ctl
  BY <1>1, <1>2 DEF Ctl
<1>5. TypeOK'
  BY <1>1, <1>3, <1>4, ClocksAtStart, Zenon DEF IInv, TypeOK, Ctl, Times
<1>6. Calls' /\ Awaits'
  BY <1>1, <1>3 DEF Calls, Awaits, Staged
<1>7. Durations'
  BY <1>1, <1>3, ClocksAtStart DEF Durations, Staged
<1>8. Geometry'
  BY <1>1, <1>3 DEF IInv, Geometry, Facing, NotTooNear, PoseIsTrue, ByOdometry, SamePlace, ByPose
<1> QED BY <1>5, <1>6, <1>7, <1>8 DEF IInv

LEMMA StartUndockKeeps == IInv /\ StartUndock => IInv'
<1> SUFFICES ASSUME IInv, StartUndock PROVE IInv'
  OBVIOUS
<1>1. /\ ctl' = [ctl EXCEPT !.state = "UNDOCK", !.left = UndockDist]
      /\ ctl.state = "IDLE" /\ svc' = "undock" /\ awaited' = TRUE
      /\ clock' = [call |-> 0, phase |-> 0] /\ UNCHANGED <<ema, fresh, base, cmd>>
  BY DEF StartUndock
<1>2. ctl \in Ctl /\ base \in Place
  BY DEF IInv, TypeOK, Ctl
<1>3. ctl' \in Ctl
  <2>1. UndockDist \in 0..3
    BY DEF UndockDist
  <2> QED BY <1>1, <1>2, <2>1, StateChange, Zenon DEF Running
<1>4. ctl'.state = "UNDOCK" /\ ctl'.left = UndockDist /\ ctl'.reverse = ctl.reverse
  BY <1>1, <1>2 DEF Ctl
<1>5. ~ctl.reverse
  BY <1>1 DEF IInv, TypeOK, Calls
<1>6. TypeOK'
  BY <1>1, <1>3, <1>4, ClocksAtStart, Zenon DEF IInv, TypeOK, Ctl, Times
<1>7. Calls' /\ Awaits'
  BY <1>1, <1>4, <1>5 DEF Calls, Awaits, Staged
<1>8. Durations'
  BY <1>1, <1>4, ClocksAtStart DEF Durations, Staged
<1>9. Geometry'
  BY <1>1, <1>2, <1>4 DEF StartUndock, InDock, UndockDist, HandoffMaxEy, Geometry, Facing, NotTooNear, PoseIsTrue, ByOdometry, SamePlace, ByPose
<1> QED BY <1>6, <1>7, <1>8, <1>9 DEF IInv

LEMMA EndCallKeeps == IInv /\ EndCall => IInv'
<1> SUFFICES ASSUME IInv, EndCall PROVE IInv'
  OBVIOUS
<1>1. /\ ctl' = [ctl EXCEPT !.state = "IDLE", !.reverse = FALSE]
      /\ svc' = "none" /\ awaited' = FALSE /\ clock' = [call |-> 0, phase |-> 0]
      /\ cmd' = "stop" /\ UNCHANGED <<ema, fresh, base>>
  BY DEF EndCall, Halt
<1>2. ctl \in Ctl /\ ctl.phase = "FACE"
  BY DEF IInv, TypeOK, Ctl, Calls, EndCall
<1>3. ctl'.state = "IDLE" /\ ~ctl'.reverse /\ ctl'.phase = "FACE"
  BY <1>1, <1>2 DEF Ctl
<1>4. ctl' \in Ctl
  BY <1>1, <1>2 DEF Ctl
<1>5. TypeOK'
  BY <1>1, <1>3, <1>4, ClocksAtStart, Zenon DEF IInv, TypeOK, Ctl, Times
<1>6. Calls' /\ Awaits' /\ Geometry'
  BY <1>1, <1>3 DEF Calls, Awaits, Geometry, Staged
<1>7. Durations'
  BY <1>1, <1>3, ClocksAtStart DEF Durations, Staged
<1> QED BY <1>5, <1>6, <1>7 DEF IInv

\* The caller gives up only where the controller no longer drives.
LEMMA GiveUpKeeps == IInv /\ GiveUp => IInv'
<1> SUFFICES ASSUME IInv, GiveUp PROVE IInv'
  OBVIOUS
<1>1. UNCHANGED <<ctl, svc, ema, fresh, clock, base, cmd>> /\ awaited' = FALSE
  BY DEF GiveUp
<1>2. TypeOK'
  BY <1>1, Zenon DEF IInv, TypeOK
<1>3. Calls' /\ Durations' /\ Geometry'
  BY <1>1 DEF IInv, Calls, Durations, Staged, Geometry
<1>4. Awaits'
  <2>1. DockTimeout \in Nat /\ AlignTimeout \in Nat /\ SpinTimeout \in Nat /\ CreepTimeout \in Nat
        /\ CallTimeout \in Nat /\ UndockWait \in Nat /\ clock.call \in Nat /\ clock.phase \in Nat
    BY TimeoutAssumption DEF IInv, TypeOK
  <2>2. clock.call >= Limit
    BY DEF GiveUp, Limit
  <2>3. ~In({"DONE"})
    <3>1. Limit \in Nat
      BY <2>1 DEF Limit
    <3> QED BY <2>1, <2>2, <3>1 DEF IInv, Awaits
  <2>4. ASSUME In(Running) PROVE In({"SERVO"}) /\ DockOver
    <3>1. CASE svc = "undock"
      BY <2>1, <2>2, <2>4, <3>1, TimeoutAssumption DEF IInv, Calls, Durations, Limit
    <3>2. CASE svc = "dock"
      <4>1. clock.call >= CallTimeout
        BY <2>2, <3>2 DEF Limit
      <4>2. ~Staged /\ ~In({"PREALIGN", "ALIGN", "SPIN180", "CREEP", "UNDOCK"})
        BY <2>1, <3>2, <4>1, TimeoutAssumption DEF IInv, Durations
      <4>3. In({"SERVO"})
        BY <2>4, <4>2 DEF Staged
      <4> QED BY <2>1, <4>1, <4>3, TimeoutAssumption DEF DockOver
    <3> QED BY <2>4, <3>1, <3>2 DEF IInv, TypeOK
  <2> QED BY <1>1, <2>3, <2>4 DEF Awaits, DockOver
<1> QED BY <1>2, <1>3, <1>4 DEF IInv

LEMMA TravelsKeeps == IInv /\ Travels => IInv'
<1> SUFFICES ASSUME IInv, Travels PROVE IInv'
  OBVIOUS
<1>1. UNCHANGED <<ctl, svc, awaited, ema, fresh, clock, cmd>> /\ ~awaited
  BY DEF Travels
<1>2. base' \in Place
  BY DEF Travels, Place
<1>3. TypeOK'
  BY <1>1, <1>2, Zenon DEF IInv, TypeOK
<1>4. Calls' /\ Durations' /\ Awaits'
  BY <1>1 DEF IInv, Calls, Durations, Awaits, Staged, DockOver, Limit
<1>5. Geometry'
  BY <1>1 DEF Geometry
<1> QED BY <1>3, <1>4, <1>5 DEF IInv

-----------------------------------------------------------------------------
(* The theorems.                                                           *)

LEMMA Inductive == IInv /\ [Next]_vars => IInv'
<1> SUFFICES ASSUME IInv, [Next]_vars PROVE IInv'
  OBVIOUS
<1>1. CASE Next
  BY <1>1, ControlStepKeeps, PoseCbKeeps, PoseAgesKeeps, TickKeeps, StartDockKeeps,
     StartUndockKeeps, EndCallKeeps, GiveUpKeeps, TravelsKeeps DEF Next
<1>2. CASE UNCHANGED vars
  <2>1. TypeOK' /\ Calls' /\ Durations'
    BY <1>2, Zenon DEF vars, IInv, TypeOK, Calls, Durations, Staged
  <2>2. Awaits' /\ Geometry'
    BY <1>2 DEF vars, IInv, Awaits, DockOver, Limit, Geometry, Facing, NotTooNear, PoseIsTrue, ByOdometry, SamePlace, ByPose
  <2> QED BY <2>1, <2>2 DEF IInv
<1> QED BY <1>1, <1>2

\* The inductive invariant holds, for all time-outs within TimeoutAssumption.
THEOREM Invariant == Spec => []IInv
  BY Initial, Inductive, PTL DEF Spec

\* Every field keeps its type, whatever call, pose and time-out comes when.
THEOREM TypeCorrect == Spec => []TypeOK
<1>1. IInv => TypeOK
  BY DEF IInv
<1> QED BY <1>1, Invariant, PTL

\* The controller drives only while the mission waits for it: what a caller who
\* gave up may leave running is a SERVO that is out of time.
THEOREM DrivenByOne == Spec => []OneDriver
<1>1. IInv => OneDriver
  BY DEF IInv, Awaits, OneDriver
<1> QED BY <1>1, Invariant, PTL

-----------------------------------------------------------------------------
(* The refinement of DockService.                                          *)

\* The state functions that stand for the variables of DockService.
Serving == IF svc = "dock" /\ ctl.reverse THEN "home" ELSE svc
Ended == IF ctl.state \notin Terminal THEN "none"
         ELSE IF ctl.state = "DONE" THEN "done" ELSE "failed"
Where == IF base.depth >= UndockDist THEN "out"
         ELSE IF InDock THEN "in"
         ELSE IF base.depth = 0 /\ base.facing = "away" THEN "parked" ELSE "near"

\* What a step does that does not end the call: the caller waits, and the robot
\* stays where it is, or gets away, near, or to the goal of the call.
RunsOn ==
  /\ awaited /\ In(Running) /\ In(Running)'
  /\ svc' = svc /\ awaited' = awaited /\ ctl'.reverse = ctl.reverse
  /\ base' = base \/ Where' \in {"out", "near", Promise!Goal(Serving)}

LEMMA RunsOnIsMove == IInv /\ RunsOn => Promise!Move
<1> SUFFICES ASSUME IInv, RunsOn PROVE Promise!Move
  OBVIOUS
<1>1. Serving' = Serving /\ Serving # "none"
  BY DEF RunsOn, Serving, IInv, TypeOK
<1>2. Ended = "none" /\ Ended' = "none"
  BY DEF RunsOn, Ended
<1>3. Where' \in {"out", "near", Where, Promise!Goal(Serving)}
  <2>1. CASE base' = base
    BY <2>1 DEF Where, InDock
  <2>2. CASE base' # base
    BY <2>2 DEF RunsOn
  <2> QED BY <2>1, <2>2
<1> QED BY <1>1, <1>2, <1>3 DEF Promise!Move, RunsOn, Serving, Ended, Where

LEMMA EndsIsEnd ==
  ASSUME IInv, In(Running), NEW state \in Terminal, Ends(state),
         state = "DONE" => awaited /\ Where = Promise!Goal(Serving)
  PROVE  \E outcome \in {"done", "failed"} : Promise!End(outcome)
<1> DEFINE outcome == IF state = "DONE" THEN "done" ELSE "failed"
<1>1. ctl \in Ctl /\ ctl' = [ctl EXCEPT !.state = state, !.phase = "FACE", !.left = 0]
      /\ base' = base /\ svc' = svc /\ awaited' = awaited
  BY DEF IInv, TypeOK, Ctl, Ends, Halt
<1>2. ctl'.state = state /\ ctl'.reverse = ctl.reverse
  BY <1>1 DEF Ctl
<1>3. Serving' = Serving /\ Serving # "none" /\ Where' = Where
  BY <1>1, <1>2 DEF Serving, Where, InDock, IInv, TypeOK
<1>4. Ended = "none" /\ Ended' = outcome
  BY <1>2 DEF Ended
<1>5. Promise!End(outcome)
  BY <1>1, <1>3, <1>4 DEF Promise!End, Serving, Ended, Where
<1> QED BY <1>5

\* Whoever is not at the depth of the dock is near it or out of it.
LEMMA AtNoGoal ==
  ASSUME base' \in Place, base'.depth > 0
  PROVE  Where' \in {"out", "near"}
  BY DEF Where, InDock, Place

\* Steps that change neither the call nor its state, and do not reach the dock.
LEMMA StaysOn ==
  ASSUME In(Running), awaited, Stay, NEW b \in Place, Drive(b), b.depth > 0
  PROVE  RunsOn
<1>1. ctl' = ctl /\ svc' = svc /\ awaited' = awaited /\ base' = b
  BY DEF Stay, Remembered, Drive
<1> QED BY <1>1, AtNoGoal DEF RunsOn

\* Turns on the spot, where the robot is not at the depth of the dock.
LEMMA TurnsOn ==
  ASSUME IInv, In(Running), awaited, Stay, NEW f \in Front \cup {"aside", "away"},
         Drive([base EXCEPT !.facing = f]), base.depth > 0
  PROVE  RunsOn
<1>1. base \in Place
  BY DEF IInv, TypeOK
<1> QED BY <1>1, Turned, StaysOn

\* Steps into another phase or state, in which the robot stands still.
LEMMA GoesOn ==
  ASSUME IInv, In(Running), awaited, NEW state \in Running,
         UNCHANGED <<svc, awaited, base>>,
         \/ \E phase \in Phase : ctl' = [ctl EXCEPT !.state = state, !.phase = phase]
         \/ \E left \in 0..3 : ctl' = [ctl EXCEPT !.state = state, !.left = left]
         \/ \E phase \in Phase : ctl' = [ctl EXCEPT !.phase = phase]
         \/ \E phase \in Phase, left \in 0..3 :
              ctl' = [ctl EXCEPT !.phase = phase, !.left = left]
  PROVE  RunsOn
<1>1. ctl \in Ctl
  BY DEF IInv, TypeOK, Ctl
<1>2. ctl'.reverse = ctl.reverse /\ ctl'.state \in Running
  BY <1>1 DEF Ctl
<1> QED BY <1>2 DEF RunsOn

\* EnterAfterPrealign goes on in another state.
LEMMA EntersOn ==
  ASSUME IInv, In(Running), awaited, EnterAfterPrealign, base' = base
  PROVE  RunsOn
<1>1. ctl \in Ctl
  BY DEF IInv, TypeOK, Ctl
<1>2. ctl'.reverse = ctl.reverse /\ ctl'.state \in Running
  BY <1>1 DEF EnterAfterPrealign, Ctl
<1> QED BY <1>2 DEF RunsOn, EnterAfterPrealign

LEMMA PrealignRunsOn ==
  ASSUME IInv,
         FaceMarker \/ SkipPrealign \/ BeginPrealign \/ Turn1 \/ DriveAside \/ DriveAsideDone \/ Turn2
  PROVE  RunsOn
<1>1. ctl.state = "PREALIGN" /\ Steady /\ base \in Place
  BY DEF FaceMarker, SkipPrealign, BeginPrealign, Turn1, DriveAside, DriveAsideDone, Turn2,
         IInv, TypeOK
<1>2. awaited
  BY <1>1, StepIsAwaited
<1>3. CASE FaceMarker
  <2>1. base.depth > 0
    BY <1>1, <1>2, <1>3 DEF FaceMarker, IInv, Geometry, NotTooNear, ByPose
  <2> QED BY <1>1, <1>2, <1>3, <2>1, TurnsOn DEF FaceMarker
<1>4. CASE SkipPrealign
  BY <1>1, <1>2, <1>4, EntersOn DEF SkipPrealign
<1>5. CASE BeginPrealign
  <2>1. UNCHANGED <<svc, awaited, base>> /\ ctl' = [ctl EXCEPT !.phase = "TURN1", !.left = 1]
    BY <1>5 DEF BeginPrealign, Halt, Remembered
  <2>2. "TURN1" \in Phase /\ 1 \in 0..3
    BY DEF Phase
  <2> QED BY <1>1, <1>2, <2>1, <2>2, GoesOn
<1>6. CASE Turn1
  <2>1. base.depth > 0
    BY <1>2, <1>6 DEF Turn1, IInv, Geometry, NotTooNear
  <2>2. CASE NextPhase("DRIVE")
    <3>1. "DRIVE" \in Phase
      BY DEF Phase
    <3> QED BY <1>1, <1>2, <2>2, <3>1, GoesOn DEF NextPhase, Halt, Remembered
  <2> QED BY <1>1, <1>2, <1>6, <2>1, <2>2, TurnsOn DEF Turn1
<1>7. CASE DriveAside
  <2>1. base.depth > 0
    BY <1>2, <1>7 DEF DriveAside, IInv, Geometry, NotTooNear
  <2>2. PICK off \in 0..3 : base' = [base EXCEPT !.off = off]
    BY <1>1, <1>7 DEF DriveAside, Drive, Place
  <2>3. base' \in Place /\ base'.depth = base.depth
    BY <1>1, <2>2 DEF Place
  <2>4. ctl' = [ctl EXCEPT !.left = 0] /\ svc' = svc /\ awaited' = awaited
    BY <1>7 DEF DriveAside, Remembered
  <2>5. ctl'.reverse = ctl.reverse /\ ctl'.state = ctl.state
    BY <2>4 DEF IInv, TypeOK
  <2> QED BY <1>1, <1>2, <2>1, <2>3, <2>4, <2>5, AtNoGoal DEF RunsOn
<1>8. CASE DriveAsideDone
  <2>1. "TURN2" \in Phase
    BY DEF Phase
  <2> QED BY <1>1, <1>2, <1>8, <2>1, GoesOn DEF DriveAsideDone, NextPhase, Halt, Remembered
<1>9. CASE Turn2
  <2>1. base.depth > 0
    BY <1>2, <1>9 DEF Turn2, IInv, Geometry, NotTooNear
  <2>2. CASE base.facing \in Front
    BY <1>1, <1>2, <1>9, <2>2, EntersOn DEF Turn2, Halt
  <2>3. CASE base.facing \notin Front
    BY <1>1, <1>2, <1>9, <2>1, <2>3, TurnsOn DEF Turn2
  <2> QED BY <2>2, <2>3
<1> QED BY <1>3, <1>4, <1>5, <1>6, <1>7, <1>8, <1>9

\* Staging and the approach, up to the hand-off.
LEMMA StagingRunsOn ==
  ASSUME IInv, Aim \/ GoToStage \/ FaceAtStage \/ Approach \/ Servo \/ Align
  PROVE  RunsOn
<1>1. In(Running) /\ Steady /\ (In({"ALIGN"}) \/ Sighted) /\ ByPose /\ base \in Place
  BY DEF Aim, GoToStage, FaceAtStage, Approach, Servo, Align, IInv, TypeOK, ByPose
<1>2. awaited
  BY <1>1, StepIsAwaited
<1>3. base.depth > 0
  BY <1>1, <1>2 DEF IInv, Geometry, NotTooNear, PoseIsTrue
<1>4. ASSUME NEW f \in Front, Drive([base EXCEPT !.facing = f]), Stay PROVE RunsOn
  BY <1>1, <1>2, <1>3, <1>4, TurnsOn
<1>5. ASSUME NEW phase \in Phase, NextPhase(phase) PROVE RunsOn
  BY <1>1, <1>2, <1>5, GoesOn DEF NextPhase, Halt, Remembered
<1>6. ASSUME NEW depths, depths \subseteq {1, 2, 3}, NEW b \in Steered(depths), Drive(b), Stay
      PROVE  RunsOn
  BY <1>1, <1>2, <1>6, SteeredPlace, StaysOn
<1>7. CASE Aim
  BY <1>4, <1>5, <1>7 DEF Aim, Phase
<1>8. CASE GoToStage
  <2>1. {base.depth, 2} \subseteq {1, 2, 3}
    BY <1>1, <1>3 DEF Place
  <2> QED BY <1>5, <1>6, <1>8, <2>1 DEF GoToStage, Phase
<1>9. CASE FaceAtStage
  <2>1. CASE NextState("APPROACH")
    BY <1>1, <1>2, <2>1, PhaseFace, GoesOn DEF NextState, Halt, Remembered
  <2> QED BY <1>4, <1>9, <2>1 DEF FaceAtStage
<1>10. CASE Approach \/ Servo
  <2>1. Closer \subseteq {1, 2, 3}
    BY <1>1, <1>3 DEF Closer, Place
  <2> QED BY <1>6, <1>10, <2>1 DEF Approach, Servo
<1>11. CASE Align
  BY <1>4, <1>11 DEF Align
<1> QED BY <1>7, <1>8, <1>9, <1>10, <1>11

\* The hand-off, the drives by odometry, and the ends of a call.
LEMMA HandoffRunsOn ==
  ASSUME IInv, ApproachHandoff \/ ServoHandoff \/ AlignDone \/ Spin180
  PROVE  RunsOn \/ \E outcome \in {"done", "failed"} : Promise!End(outcome)
<1>1. In(Running) /\ Steady /\ (In({"SERVO"}) => Sighted) /\ base \in Place
  BY DEF ApproachHandoff, ServoHandoff, AlignDone, Spin180, IInv, TypeOK
<1>2. awaited
  BY <1>1, StepIsAwaited
<1>3. CASE Ends("MISALIGNED")
  BY <1>1, <1>3, EndsIsEnd
<1>4. ASSUME NEW state \in Running, NEW left \in 0..3, EnterTimed(state, left), base' = base
      PROVE  RunsOn
  BY <1>1, <1>2, <1>4, GoesOn DEF EnterTimed
<1>5. CASE ApproachHandoff \/ ServoHandoff
  <2>1. ema.depth \in 0..3
    BY <1>5 DEF ApproachHandoff, ServoHandoff, IInv, TypeOK, Place
  <2>2. \/ EnterTimed("CREEP", ema.depth) /\ base' = base
        \/ EnterTimed("ALIGN", 0) /\ base' = base
        \/ Ends("MISALIGNED")
    BY <1>5 DEF ApproachHandoff, ServoHandoff
  <2> QED BY <1>3, <1>4, <2>1, <2>2
<1>6. CASE AlignDone
  <2>1. ema.depth \in 0..3
    BY <1>2, <1>6 DEF AlignDone, IInv, TypeOK, Place, Geometry, PoseIsTrue
  <2> DEFINE next == IF ctl.reverse THEN "SPIN180" ELSE "CREEP"
  <2>2. EnterTimed(next, ema.depth) /\ base' = base
    BY <1>6 DEF AlignDone
  <2>3. next \in Running
    OBVIOUS
  <2> HIDE DEF next
  <2> QED BY <1>4, <2>1, <2>2, <2>3
<1>7. CASE Spin180
  <2>1. base.depth > 0 /\ ctl.left \in 0..3
    BY <1>2, <1>7 DEF Spin180, IInv, Geometry, ByOdometry
  <2>2. CASE base.facing = "away"
    <3>1. EnterTimed("UNDOCK", ctl.left) /\ base' = base
      BY <1>7, <2>2 DEF Spin180, Halt
    <3> QED BY <1>4, <2>1, <3>1
  <2>3. CASE base.facing # "away"
    BY <1>1, <1>2, <1>7, <2>1, <2>3, TurnsOn DEF Spin180
  <2> QED BY <2>2, <2>3
<1> QED BY <1>5, <1>6, <1>7

LEMMA CreepRunsOn == IInv /\ Creep => RunsOn
<1> SUFFICES ASSUME IInv, Creep PROVE RunsOn
  OBVIOUS
<1>1. ctl.state \in {"CREEP", "UNDOCK"} /\ ctl \in Ctl /\ base \in Place
  BY DEF IInv, TypeOK, Ctl, Creep
<1>2. awaited
  BY <1>1, StepIsAwaited DEF Creep
<1>3. ctl' = [ctl EXCEPT !.left = @ - 1] /\ svc' = svc /\ awaited' = awaited
  BY DEF Creep, Remembered
<1>4. ctl'.reverse = ctl.reverse /\ ctl'.state = ctl.state
  BY <1>1, <1>3 DEF Ctl
<1>5. base' \in Place /\ base'.facing = base.facing /\ base'.off = base.off
      /\ base'.depth = IF ctl.state = "UNDOCK" /\ svc = "undock" THEN base.depth + 1
                       ELSE base.depth - 1
  BY CreepMoves
<1>6. svc \in {"dock", "undock"} /\ base.depth \in 0..3 /\ ctl.left \in 0..3
  BY <1>1 DEF IInv, TypeOK, Ctl, Place
<1>7. base'.depth \in 0..3 /\ base'.facing = base.facing /\ base'.off = base.off
  BY <1>5 DEF Place
<1>8. Where' \in {"out", "near", Promise!Goal(Serving)}
  <2>1. CASE base'.depth > 0
    BY <1>5, <2>1, AtNoGoal
  <2>2. CASE ~ (base'.depth > 0) /\ ctl.state = "CREEP"
    <3>1. svc = "dock" /\ ~ctl.reverse /\ base.facing \in Front /\ base.off <= HandoffMaxEy
      BY <1>2, <1>6, <2>2 DEF IInv, Calls, Geometry, Facing, ByOdometry
    <3>2. base'.depth = 0
      BY <1>7, <2>2
    <3>3. Where' = "in"
      BY <1>7, <3>1, <3>2 DEF Where, InDock, UndockDist, HandoffMaxEy
    <3> QED BY <3>1, <3>3 DEF Serving, Promise!Goal
  <2>3. CASE ~ (base'.depth > 0) /\ ctl.state = "UNDOCK"
    <3>1. svc = "dock" /\ ctl.reverse /\ base.facing = "away"
      BY <1>2, <1>5, <1>6, <2>3 DEF IInv, Calls, Geometry, ByOdometry
    <3>2. base'.depth = 0
      BY <1>7, <2>3
    <3>3. Where' = "parked"
      BY <1>7, <3>1, <3>2 DEF Where, InDock, UndockDist, Front
    <3> QED BY <3>1, <3>3 DEF Serving, Promise!Goal
  <2> QED BY <1>1, <2>1, <2>2, <2>3
<1> QED BY <1>1, <1>2, <1>3, <1>4, <1>8 DEF RunsOn

\* A drive by odometry that is done has reached its goal.
LEMMA CreepDoneArrives ==
  ASSUME IInv, CreepDone
  PROVE  awaited /\ Where = Promise!Goal(Serving)
<1>1. ctl.state \in {"CREEP", "UNDOCK"} /\ ctl.left = 0 /\ base \in Place
  BY DEF IInv, TypeOK, CreepDone
<1>2. awaited
  BY <1>1, StepIsAwaited DEF CreepDone
<1>3. svc \in {"dock", "undock"}
  BY <1>1 DEF IInv, TypeOK
<1>4. CASE ctl.state = "CREEP"
  <2>1. svc = "dock" /\ ~ctl.reverse /\ base.facing \in Front /\ base.off <= HandoffMaxEy
        /\ base.depth = 0
    BY <1>1, <1>2, <1>3, <1>4 DEF IInv, Calls, Geometry, Facing, ByOdometry
  <2> QED BY <1>2, <2>1 DEF Where, InDock, UndockDist, Serving, Promise!Goal
<1>5. CASE ctl.state = "UNDOCK" /\ svc = "dock"
  <2>1. ctl.reverse /\ base.facing = "away" /\ base.depth = 0
    BY <1>1, <1>2, <1>5 DEF IInv, Calls, Geometry, ByOdometry
  <2> QED BY <1>2, <1>5, <2>1 DEF Where, InDock, Front, UndockDist, Serving, Promise!Goal
<1>6. CASE ctl.state = "UNDOCK" /\ svc = "undock"
  <2>1. base.depth = UndockDist
    BY <1>1, <1>2, <1>6 DEF IInv, Geometry, ByOdometry, Place
  <2> QED BY <1>2, <1>6, <2>1 DEF Where, UndockDist, Serving, Promise!Goal
<1> QED BY <1>1, <1>3, <1>4, <1>5, <1>6

LEMMA ControlStepIsPromised ==
  ASSUME IInv, ControlStep
  PROVE  Promise!Move \/ \E outcome \in {"done", "failed"} : Promise!End(outcome)
<1>1. CASE TimesOut
  BY <1>1, EndsIsEnd DEF TimesOut, Expired
<1>2. CASE Loses
  BY <1>2, EndsIsEnd DEF Loses, MarkerLost
<1>3. CASE Stalls
  BY <1>3, EndsIsEnd DEF Stalls
<1>4. CASE CreepDone
  BY <1>4, CreepDoneArrives, EndsIsEnd DEF CreepDone
<1> QED BY <1>1, <1>2, <1>3, <1>4, PrealignRunsOn, StagingRunsOn, HandoffRunsOn, CreepRunsOn,
           RunsOnIsMove DEF ControlStep

\* The services, and the caller.
LEMMA StartDockIsStart ==
  ASSUME IInv, NEW reverse \in BOOLEAN, StartDock(reverse)
  PROVE  \E kind \in Promise!Kinds : Promise!Start(kind)
<1> DEFINE kind == IF reverse THEN "home" ELSE "dock"
<1>1. ctl \in Ctl /\ ctl.state = "IDLE"
  BY DEF StartDock, IInv, TypeOK, Ctl
<1>2. ctl' = [ctl EXCEPT !.state = "PREALIGN", !.reverse = reverse] /\ svc' = "dock"
      /\ awaited' = TRUE /\ base' = base
  BY DEF StartDock
<1>3. ctl'.state = "PREALIGN" /\ (ctl'.reverse <=> reverse)
  BY <1>1, <1>2 DEF Ctl
<1>4. Serving = "none" /\ Serving' = kind /\ Ended' = "none" /\ Where' = Where
  BY <1>1, <1>2, <1>3 DEF Serving, Ended, Where, InDock, IInv, TypeOK
<1>5. kind \in Promise!Kinds /\ kind # "undock"
  BY DEF Promise!Kinds
<1>6. Promise!Start(kind)
  BY <1>2, <1>4, <1>5 DEF Promise!Start, Serving, Ended, Where
<1> QED BY <1>5, <1>6

LEMMA StartUndockIsStart ==
  ASSUME IInv, StartUndock
  PROVE  \E kind \in Promise!Kinds : Promise!Start(kind)
<1>1. ctl \in Ctl /\ ctl.state = "IDLE" /\ InDock
  BY DEF StartUndock, IInv, TypeOK, Ctl
<1>2. ctl' = [ctl EXCEPT !.state = "UNDOCK", !.left = UndockDist] /\ svc' = "undock"
      /\ awaited' = TRUE /\ base' = base
  BY DEF StartUndock
<1>3. ctl'.state = "UNDOCK"
  BY <1>1, <1>2 DEF Ctl
<1>4. Serving = "none" /\ Serving' = "undock" /\ Ended' = "none" /\ Where' = Where /\ Where = "in"
  BY <1>1, <1>2, <1>3 DEF Serving, Ended, Where, InDock, UndockDist, IInv, TypeOK
<1>5. Promise!Start("undock")
  BY <1>2, <1>4 DEF Promise!Start, Serving, Ended, Where
<1> QED BY <1>5 DEF Promise!Kinds

LEMMA EndCallIsAnswer == IInv /\ EndCall => Promise!Answer
<1> SUFFICES ASSUME IInv, EndCall PROVE Promise!Answer
  OBVIOUS
<1>1. ctl \in Ctl /\ ctl' = [ctl EXCEPT !.state = "IDLE", !.reverse = FALSE]
      /\ svc' = "none" /\ awaited' = FALSE /\ base' = base
  BY DEF EndCall, Halt, IInv, TypeOK, Ctl
<1>2. ctl'.state = "IDLE"
  BY <1>1 DEF Ctl
<1>3. Serving' = "none" /\ Ended # "none" /\ Ended' = "none" /\ Where' = Where
  BY <1>1, <1>2 DEF EndCall, Serving, Ended, Where, InDock
<1> QED BY <1>1, <1>3 DEF Promise!Answer, Serving, Ended, Where

LEMMA GiveUpIsGiveUp == IInv /\ GiveUp => Promise!GiveUp
<1> SUFFICES ASSUME IInv, GiveUp PROVE Promise!GiveUp
  OBVIOUS
<1>1. awaited /\ awaited' = FALSE /\ UNCHANGED <<ctl, svc, base>>
  BY DEF GiveUp
<1>2. ctl.state # "DONE"
  <2>1. clock.call >= Limit
    BY DEF GiveUp, Limit
  <2>2. clock.call \in Nat /\ Limit \in Nat
    BY TimeoutAssumption DEF IInv, TypeOK, Limit
  <2> QED BY <2>1, <2>2 DEF IInv, Awaits
<1>3. Ended # "done"
  BY <1>2 DEF Ended
<1>4. Serving' = Serving /\ Ended' = Ended /\ Where' = Where
  BY <1>1 DEF Serving, Ended, Where, InDock
<1> QED BY <1>1, <1>3, <1>4 DEF Promise!GiveUp, Serving, Ended, Where

LEMMA TravelsIsElsewhere == Travels => Promise!Elsewhere
<1> SUFFICES ASSUME Travels PROVE Promise!Elsewhere
  OBVIOUS
<1>1. ~awaited /\ UNCHANGED <<ctl, svc, awaited>>
  BY DEF Travels
<1>2. Serving' = Serving /\ Ended' = Ended
  BY <1>1 DEF Serving, Ended
<1>3. Where' \in Promise!Places
  BY DEF Where, Promise!Places
<1> QED BY <1>1, <1>2, <1>3 DEF Promise!Elsewhere, Serving, Ended, Where

\* What comes from outside is nothing that DockService speaks of.
LEMMA OutsideStutters ==
  ASSUME PoseCb \/ PoseAges \/ Tick \/ UNCHANGED vars
  PROVE  UNCHANGED Promise!vars
<1>1. UNCHANGED <<ctl, svc, awaited, base>>
  BY DEF PoseCb, PoseAges, Tick, vars
<1>2. Serving' = Serving /\ Ended' = Ended /\ Where' = Where
  BY <1>1 DEF Serving, Ended, Where, InDock
<1> QED BY <1>1, <1>2 DEF Promise!vars, Serving, Ended, Where

LEMMA InitIsInit == Init => Promise!Init
<1> SUFFICES ASSUME Init PROVE Promise!Init
  OBVIOUS
<1>1. svc = "none" /\ awaited = FALSE /\ ctl.state = "IDLE"
      /\ base = [facing |-> "away", off |-> 0, depth |-> 0]
  BY DEF Init
<1>2. Serving = "none" /\ Ended = "none" /\ Where = "parked"
  BY <1>1 DEF Serving, Ended, Where, InDock, UndockDist, Front
<1> QED BY <1>1, <1>2 DEF Promise!Init, Serving, Ended, Where

LEMMA StepIsPromised == IInv /\ [Next]_vars => [Promise!Next]_(Promise!vars)
<1> SUFFICES ASSUME IInv, [Next]_vars PROVE [Promise!Next]_(Promise!vars)
  OBVIOUS
<1> QED BY ControlStepIsPromised, StartDockIsStart, StartUndockIsStart, EndCallIsAnswer,
           GiveUpIsGiveUp, TravelsIsElsewhere, OutsideStutters DEF Next, Promise!Next

\* The controller implements DockService, for all time-outs within
\* TimeoutAssumption: a call answered with success has left the robot at its dock,
\* parked or clear of the dock, nobody else moved it meanwhile, and no success is
\* given up.
THEOREM Refinement == Spec => IsDockService
  BY Invariant, InitIsInit, StepIsPromised, PTL DEF Spec, IsDockService, Promise!Spec

=============================================================================
