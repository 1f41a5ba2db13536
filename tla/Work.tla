-------------------------------- MODULE Work --------------------------------
(***************************************************************************)
(* A robot's work at the docks: the sequences of fork heights (fork.py),   *)
(* the mission thread that goes through them and through the docking       *)
(* services (work.py), the lift (fork_esp32.ino) and the messages between  *)
(* them.                                                                   *)
(*                                                                         *)
(* Heights are those of fork.py: 1 and 2 are under and off the floor of    *)
(* level 1, 3 and 4 the same for level 2, and 2 is the height for driving. *)
(* The docking services are what DockService promises of them, which the   *)
(* dock controller is shown to keep in Docking.                            *)
(* The lift reports its state as heartbeats, which may be lost, and so may *)
(* a command.  A command that is delivered is carried out well before      *)
(* FORK_TIMEOUT, as the comment there works out.                           *)
(*                                                                         *)
(* Which work there is to do is up to the missions, here the environment.  *)
(***************************************************************************)
EXTENDS Naturals, Sequences

CONSTANTS
  Level,        \* the levels of the rack
  MaxChan,      \* bound: lift states on their way
  Lossy         \* whether messages to and from the lift may be lost

\* The places where goods come and go are like the first level.
ASSUME WorkAssumption ==
  1 \in Level /\ Level \subseteq {1, 2} /\ MaxChan \in Nat \ {0} /\ Lossy \in BOOLEAN

VARIABLES
  fsm,      \* the work, its level, the steps left, what is waited for, lift flags
  lift,     \* position, target and reported state of the lift
  wire,     \* command and states on their way
  pallet,   \* where the pallet of the work is
  serving, ended, place     \* the docking services, as in DockService

Dock == INSTANCE DockService WITH awaited <- fsm.waits = "dock"

dockVars == <<serving, ended, place>>
vars == <<fsm, lift, wire, pallet, dockVars>>

NoHeight == 0
TravelHeight == 2

-----------------------------------------------------------------------------
(* fork.py                                                                 *)

Insert(level) == IF level = 1 THEN 1 ELSE 3
Lifted(level) == IF level = 1 THEN 2 ELSE 4

PickSequence(level) ==
  IF level = 1 THEN [before |-> <<1>>, after |-> <<2>>, back |-> <<>>]
  ELSE [before |-> <<3>>, after |-> <<4>>, back |-> <<2>>]

PlaceSequence(level) ==
  IF level = 1 THEN [before |-> <<>>, after |-> <<1>>, back |-> <<2>>]
  ELSE [before |-> <<4>>, after |-> <<3>>, back |-> <<2>>]

-----------------------------------------------------------------------------
(* work.py: the steps of a piece of work, and how each is begun and ended.  *)

Step(what) == [do |-> what, height |-> NoHeight]
Forks(heights) == [i \in DOMAIN heights |-> [do |-> "fork", height |-> heights[i]]]

\* Mutant: the fork is lowered for driving before it has left the dock.
StepsLoweringEarly(job, level) ==
  IF job = "home" THEN <<Step("face"), Step("homeDock")>>
  ELSE LET seq == IF job = "pick" THEN PickSequence(level) ELSE PlaceSequence(level)
       IN <<Step("face")>> \o Forks(seq.before) \o <<Step("dock")>> \o Forks(seq.after)
          \o Forks(seq.back) \o <<Step("undock")>>

\* _work and _home_dock.
Steps(job, level) ==
  IF job = "home" THEN <<Step("face"), Step("homeDock")>>
  ELSE LET seq == IF job = "pick" THEN PickSequence(level) ELSE PlaceSequence(level)
       IN <<Step("face")>> \o Forks(seq.before) \o <<Step("dock")>> \o Forks(seq.after)
          \o <<Step("undock")>> \o Forks(seq.back)

Init ==
  /\ fsm = [job |-> "none", level |-> 1, todo |-> <<>>, waits |-> "none",
            seen |-> FALSE, last |-> "none"]
  /\ lift = [cur |-> TravelHeight, tgt |-> TravelHeight, state |-> "AT"]
  /\ wire = [command |-> NoHeight, states |-> <<>>]
  /\ pallet = "none"
  /\ Dock!Init

Now(what) == fsm.todo # <<>> /\ Head(fsm.todo).do = what /\ fsm.waits = "none"

Succeeds == fsm' = [fsm EXCEPT !.todo = Tail(@), !.waits = "none"]

\* _work returns False and the mission stops in ERROR; a home docking that
\* fails is only logged.
Fails ==
  fsm' = [fsm EXCEPT !.job = IF @ = "home" THEN "none" ELSE "error", !.todo = <<>>,
                     !.waits = "none"]

\* The robot drives to the dock of its next work: to a pick or home without a
\* pallet, to a place with it.
Begin(job, level) ==
  /\ fsm.job = "none"
  /\ IF job = "place" THEN pallet = "fork" ELSE pallet # "fork"
  /\ fsm' = [fsm EXCEPT !.job = job, !.level = level, !.todo = Steps(job, level)]
  /\ pallet' = IF job = "pick" THEN "dock" ELSE pallet
  /\ place' = "out"
  /\ UNCHANGED <<serving, ended, lift, wire>>

WorkDone ==
  /\ fsm.job \in {"pick", "place", "home"} /\ fsm.todo = <<>>
  /\ fsm' = [fsm EXCEPT !.job = "none"]
  /\ UNCHANGED <<dockVars, lift, wire, pallet>>

\* The operator puts the robot on a node, empties the fork and resets.
Reset ==
  /\ fsm.job = "error"
  /\ fsm' = [fsm EXCEPT !.job = "none"]
  /\ place' = "out" /\ pallet' = "none"
  /\ UNCHANGED <<serving, ended, lift, wire>>

\* _face_dock: nav2 turns the robot to the dock.
FaceDock ==
  /\ Now("face")
  /\ Succeeds \/ Fails
  /\ UNCHANGED <<dockVars, lift, wire, pallet>>

-----------------------------------------------------------------------------
(* The docking services, as _call_trigger calls them.                      *)

Service(step) == CASE step = "dock" -> "dock" [] step = "homeDock" -> "home" [] OTHER -> "undock"

\* Mutant: a refusal is not noticed.
CallDockingUnchecked(step) ==
  /\ Now(step)
  /\ \/ fsm' = [fsm EXCEPT !.waits = "dock"] /\ Dock!Start(Service(step))
     \/ Succeeds /\ UNCHANGED dockVars
  /\ UNCHANGED <<lift, wire, pallet>>

\* The call is taken, or refused: while an earlier one is still served, and a
\* docking also without a marker in view.
CallDocking(step) ==
  /\ Now(step)
  /\ \/ fsm' = [fsm EXCEPT !.waits = "dock"] /\ Dock!Start(Service(step))
     \/ /\ serving # "none" \/ step # "undock"
        /\ Fails /\ UNCHANGED dockVars
  /\ UNCHANGED <<lift, wire, pallet>>

DockStep ==
  /\ UNCHANGED <<fsm, lift, wire, pallet>>
  /\ Dock!Move \/ \E outcome \in {"done", "failed"} : Dock!End(outcome)

\* Mutant: any answer will do.
AnswerTaken ==
  /\ IF fsm.waits = "dock" THEN Succeeds ELSE UNCHANGED fsm
  /\ Dock!Answer
  /\ UNCHANGED <<lift, wire, pallet>>

\* The service answers; nobody listens to an answer that comes too late.
DockAnswers ==
  /\ IF fsm.waits = "dock" THEN IF ended = "done" THEN Succeeds ELSE Fails
     ELSE UNCHANGED fsm
  /\ Dock!Answer
  /\ UNCHANGED <<lift, wire, pallet>>

CallTimesOut ==
  /\ fsm.waits = "dock" /\ Fails /\ Dock!GiveUp
  /\ UNCHANGED <<lift, wire, pallet>>

-----------------------------------------------------------------------------
(* _fork and _on_fork_state.                                               *)

\* Mutant: what was seen of the last command is kept.
ForkCommandStale ==
  /\ Now("fork") /\ wire.command = NoHeight
  /\ fsm' = [fsm EXCEPT !.waits = "fork"]
  /\ wire' = [wire EXCEPT !.command = Head(fsm.todo).height]
  /\ UNCHANGED <<dockVars, lift, pallet>>

ForkCommand ==
  /\ Now("fork") /\ wire.command = NoHeight
  /\ fsm' = [fsm EXCEPT !.waits = "fork", !.seen = FALSE, !.last = "none"]
  /\ wire' = [wire EXCEPT !.command = Head(fsm.todo).height]
  /\ UNCHANGED <<dockVars, lift, pallet>>

OnForkState ==
  /\ wire.states # <<>>
  /\ fsm' = [fsm EXCEPT !.last = Head(wire.states),
                        !.seen = @ \/ Head(wire.states) = "MOVING"]
  /\ wire' = [wire EXCEPT !.states = Tail(@)]
  /\ UNCHANGED <<dockVars, lift, pallet>>

ForkReached ==
  /\ fsm.waits = "fork" /\ fsm.seen /\ fsm.last = "AT"
  /\ Succeeds /\ UNCHANGED <<dockVars, lift, wire, pallet>>

\* Nothing more is to come.
LiftSettled ==
  /\ wire.command = NoHeight /\ lift.cur = lift.tgt
  /\ wire.states = <<>> /\ (Lossy \/ fsm.last = lift.state)

\* Mutant: a lift that was seen to move is trusted to arrive.
ForkTimesOutUnmoved ==
  /\ fsm.waits = "fork" /\ LiftSettled /\ ~fsm.seen
  /\ Fails /\ UNCHANGED <<dockVars, lift, wire, pallet>>

ForkTimesOut ==
  /\ fsm.waits = "fork" /\ LiftSettled /\ ~(fsm.seen /\ fsm.last = "AT")
  /\ Fails /\ UNCHANGED <<dockVars, lift, wire, pallet>>

-----------------------------------------------------------------------------
(* The lift, fork_esp32.ino.                                               *)

\* publish_state, best effort.
Publish(states, state) ==
  /\ Len(states) < MaxChan
  /\ \/ wire' = [command |-> NoHeight, states |-> Append(states, state)]
     \/ Lossy /\ wire' = [command |-> NoHeight, states |-> states]

\* cmd_callback: between two moves only.
CmdCallback ==
  /\ wire.command # NoHeight /\ lift.cur = lift.tgt
  /\ lift' = [lift EXCEPT !.tgt = wire.command, !.state = "MOVING"]
  /\ Publish(wire.states, "MOVING")
  /\ UNCHANGED <<dockVars, fsm, pallet>>

InDock == place = "in"

\* The pallet goes with the fork from under it to off the floor, and back.
Carried(from, to) ==
  CASE InDock /\ pallet = "dock" /\ from = Insert(fsm.level) /\ to = Lifted(fsm.level) -> "fork"
    [] InDock /\ pallet = "fork" /\ to = Insert(fsm.level) -> "dock"
    [] OTHER -> pallet

\* run_move, which reports the arrival; a lift that is there does not move.
RunMove ==
  /\ lift.cur # lift.tgt
  /\ lift' = [lift EXCEPT !.cur = lift.tgt, !.state = "AT"]
  /\ pallet' = Carried(lift.cur, lift.tgt)
  /\ Len(wire.states) < MaxChan
  /\ \/ wire' = [wire EXCEPT !.states = Append(@, "AT")]
     \/ Lossy /\ UNCHANGED wire
  /\ UNCHANGED <<dockVars, fsm>>

\* During a move and, at 5 Hz, between moves.  Those that come when no command
\* is near only set what the next command clears.
Heartbeat ==
  /\ wire.states = <<>> /\ (Now("fork") \/ fsm.waits = "fork")
  /\ wire' = [wire EXCEPT !.states = <<lift.state>>]
  /\ UNCHANGED <<dockVars, fsm, lift, pallet>>

CommandLost ==
  /\ Lossy /\ wire.command # NoHeight
  /\ wire' = [wire EXCEPT !.command = NoHeight]
  /\ UNCHANGED <<dockVars, fsm, lift, pallet>>

-----------------------------------------------------------------------------

Next ==
  \/ \E job \in {"pick", "place", "home"}, level \in Level : Begin(job, level)
  \/ WorkDone \/ Reset \/ FaceDock
  \/ \E step \in {"dock", "homeDock", "undock"} : CallDocking(step)
  \/ DockStep \/ DockAnswers \/ CallTimesOut
  \/ ForkCommand \/ ForkReached \/ ForkTimesOut
  \/ CmdCallback \/ RunMove \/ OnForkState \/ Heartbeat \/ CommandLost

MissionThread ==
  \/ WorkDone \/ FaceDock \/ \E step \in {"dock", "homeDock", "undock"} : CallDocking(step)
  \/ ForkCommand \/ ForkReached

\* The mission thread runs on, nav2 ends its goals, what the lift has begun it
\* ends, messages are handled, and time-outs fire: heartbeats do not delay them.
Spec ==
  /\ Init /\ [][Next]_vars
  /\ WF_vars(MissionThread) /\ WF_vars(DockAnswers) /\ WF_vars(CallTimesOut)
  /\ WF_vars(CmdCallback) /\ WF_vars(RunMove) /\ WF_vars(OnForkState)
  /\ SF_vars(ForkTimesOut)

-----------------------------------------------------------------------------
(* Properties.                                                             *)

\* Every field keeps its type, and the robot asks to leave a dock only when it is
\* in it and the services are free (the assumption of DockService).
TypeOK ==
  /\ fsm.job \in {"none", "pick", "place", "home", "error"} /\ fsm.level \in Level
  /\ fsm.waits \in {"none", "dock", "fork"} /\ (fsm.waits # "none" => fsm.todo # <<>>)
  /\ fsm.seen \in BOOLEAN /\ fsm.last \in {"none", "AT", "MOVING"}
  /\ lift \in [cur : 1..4, tgt : 1..4, state : {"AT", "MOVING"}]
  /\ wire.command \in 0..4 /\ Len(wire.states) <= MaxChan
  /\ pallet \in {"none", "dock", "fork"}
  /\ serving \in Dock!Kinds \cup {"none"} /\ ended \in {"none", "done", "failed"}
  /\ place \in Dock!Places
  /\ Now("undock") => place = "in" /\ serving = "none"

\* When the mission takes a command for done, the lift stands at that height: no
\* state of an earlier command is taken for it, whatever is lost (_fork).
LiftAgrees ==
  (fsm.waits = "fork" /\ fsm.seen /\ fsm.last = "AT") =>
    lift.cur = Head(fsm.todo).height /\ lift.tgt = lift.cur

\* Inside a dock the fork is at one of the two heights of its level, under a
\* pallet that stands and off the floor with one it carries: it never runs into
\* a pallet, whichever step failed before (fork.py, _work).
ForkFits ==
  InDock =>
    /\ {lift.cur, lift.tgt} \subseteq {Insert(fsm.level), Lifted(fsm.level)}
    /\ pallet = "dock" => lift.cur = Insert(fsm.level)
    /\ pallet = "fork" => lift.cur = Lifted(fsm.level)

\* Work implements Handling: work that ends well has moved the pallet, and leaves
\* with the fork at the height for driving.
Handle == INSTANCE Handling WITH
  job <- IF fsm.job = "home" THEN "none" ELSE fsm.job,
  clear <- ~InDock /\ lift.cur = TravelHeight /\ lift.tgt = TravelHeight
IsHandling == Handle!Spec

\* Work ends, done or in ERROR, whatever is lost and whether or not the dock
\* controller answers: a command to a lift that is there already brings no AT
\* (run_move), a controller waits for a marker it does not see.
EveryWorkEnds ==
  (fsm.job \in {"pick", "place", "home"}) ~> (fsm.job \in {"none", "error"})
=============================================================================
