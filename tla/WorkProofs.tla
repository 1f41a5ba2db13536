----------------------------- MODULE WorkProofs -----------------------------
(***************************************************************************)
(* Proofs about the work at the docks, for all levels of the rack, whether *)
(* or not the lift's messages are lost, and however many of its states are *)
(* on their way: the types, that an arrival is never taken from an earlier *)
(* command, that the fork fits the dock, and that work keeps the promise   *)
(* of Handling.                                                            *)
(*                                                                         *)
(* The invariant is an outline of the work: for every step it may come to, *)
(* what is left to do, and where the lift, the pallet and the robot are.   *)
(***************************************************************************)
EXTENDS Work, SequenceTheorems, TLAPS

-----------------------------------------------------------------------------
(* The invariant.                                                          *)

LiftState == {"AT", "MOVING"}
StepType == [do : {"face", "dock", "homeDock", "undock", "fork"}, height : 0..4]
Fsm == [job : {"none", "pick", "place", "home", "error"}, level : Level, todo : Seq(StepType),
        waits : {"none", "dock", "fork"}, seen : BOOLEAN, last : {"none", "AT", "MOVING"}]
Lift == [cur : 1..4, tgt : 1..4, state : LiftState]
Wire == [command : 0..4, states : Seq(LiftState)]

Types ==
  /\ fsm \in Fsm /\ lift \in Lift /\ wire \in Wire /\ Len(wire.states) <= MaxChan
  /\ pallet \in {"none", "dock", "fork"}
  /\ serving \in Dock!Kinds \cup {"none"} /\ ended \in {"none", "done", "failed"}
  /\ place \in Dock!Places

\* A step is waited for while it is the next one, and the fork steps know a height.
Waits ==
  /\ fsm.waits # "none" => fsm.todo # <<>>
  /\ fsm.waits = "fork" => Head(fsm.todo).do = "fork" /\ Head(fsm.todo).height \in 1..4
  /\ fsm.waits = "dock" => /\ Head(fsm.todo).do \in {"dock", "homeDock", "undock"}
                           /\ serving = Service(Head(fsm.todo).do)

\* The docking services: what has ended well is still waited for.
Served ==
  /\ ended # "none" => serving # "none"
  /\ ended = "done" => fsm.waits = "dock" /\ place = Dock!Goal(serving)

\* The states on their way to the robot.
OnlyStates(state) == \A i \in 1..Len(wire.states) : wire.states[i] = state

\* Nothing of a command has happened, all that is heard is the state of before.
NotBegun ==
  /\ lift.cur = lift.tgt /\ OnlyStates(lift.state)
  /\ wire.command \in {NoHeight, Head(fsm.todo).height}
  /\ fsm.last \in {"none", lift.state}
  /\ fsm.seen => lift.state = "MOVING" /\ fsm.last = "MOVING"

\* The lift moves, or has nothing to move: no arrival is heard after a move.
Begun ==
  /\ wire.command = NoHeight
  /\ lift.tgt = Head(fsm.todo).height /\ lift.state = "MOVING"
  /\ \A i, j \in 1..Len(wire.states) :
       i < j /\ wire.states[i] = "MOVING" => wire.states[j] = "MOVING"
  /\ fsm.seen => fsm.last = "MOVING" /\ OnlyStates("MOVING")

\* It has arrived: what is heard after a move and an arrival is arrivals.
Arrived ==
  /\ wire.command = NoHeight
  /\ lift.cur = Head(fsm.todo).height /\ lift.tgt = lift.cur /\ lift.state = "AT"
  /\ \A i, j, k \in 1..Len(wire.states) :
       i < j /\ j < k /\ wire.states[i] = "MOVING" /\ wire.states[j] = "AT" => wire.states[k] = "AT"
  /\ fsm.seen => \A i, j \in 1..Len(wire.states) :
                   i < j /\ wire.states[i] = "AT" => wire.states[j] = "AT"
  /\ fsm.seen /\ fsm.last = "AT" => OnlyStates("AT")

Messages ==
  IF fsm.waits = "fork" THEN NotBegun \/ Begun \/ Arrived
  ELSE wire.command = NoHeight /\ lift.cur = lift.tgt /\ OnlyStates(lift.state)

\* The height of the fork before and after the pallet is moved, and where that is.
BeforeIn(job, level) == IF job = "pick" THEN Insert(level) ELSE Lifted(level)
AfterIn(job, level) == IF job = "pick" THEN Lifted(level) ELSE Insert(level)
Before == BeforeIn(fsm.job, fsm.level)
After == AfterIn(fsm.job, fsm.level)
From == IF fsm.job = "pick" THEN "dock" ELSE "fork"
Onto == IF fsm.job = "pick" THEN "fork" ELSE "dock"

\* What is left to do from each step on.
Fork(height) == [do |-> "fork", height |-> height]
LowerOn(t) == t # <<>> /\ Head(t) = Fork(TravelHeight) /\ Tail(t) = <<>>
UndockOn(t, after) ==
  /\ t # <<>> /\ Head(t) = Step("undock")
  /\ IF after = TravelHeight THEN Tail(t) = <<>> ELSE LowerOn(Tail(t))
MoveOn(t, after) == t # <<>> /\ Head(t) = Fork(after) /\ UndockOn(Tail(t), after)
DockOn(t, after) == t # <<>> /\ Head(t) = Step("dock") /\ MoveOn(Tail(t), after)
RaiseOn(t, before, after) == t # <<>> /\ Head(t) = Fork(before) /\ DockOn(Tail(t), after)
FaceOn(t, before, after) ==
  /\ t # <<>> /\ Head(t) = Step("face")
  /\ IF before = TravelHeight THEN DockOn(Tail(t), after) ELSE RaiseOn(Tail(t), before, after)

Rests(height) == lift.cur = height /\ lift.tgt = height
Idle == fsm.waits = "none"

AtFace ==
  /\ FaceOn(fsm.todo, Before, After) /\ Idle /\ ~InDock /\ pallet = From
  /\ Before = TravelHeight => Rests(TravelHeight)
AtRaise == RaiseOn(fsm.todo, Before, After) /\ fsm.waits # "dock" /\ ~InDock /\ pallet = From
AtDock ==
  /\ DockOn(fsm.todo, After) /\ fsm.waits # "fork" /\ (Idle => ~InDock) /\ pallet = From
  /\ Rests(Before)
AtMove ==
  /\ MoveOn(fsm.todo, After) /\ fsm.waits # "dock" /\ InDock /\ serving = "none"
  /\ \/ pallet = From /\ lift.cur = Before /\ lift.tgt \in {Before, After}
        /\ (Idle => lift.tgt = Before)
     \/ pallet = Onto /\ Rests(After) /\ ~Idle
AtUndock ==
  /\ UndockOn(fsm.todo, After) /\ fsm.waits # "fork" /\ pallet = Onto /\ Rests(After)
  /\ Idle => InDock /\ serving = "none"
AtLower == LowerOn(fsm.todo) /\ fsm.waits # "dock" /\ ~InDock /\ pallet = Onto
AtEnd == fsm.todo = <<>> /\ ~InDock /\ pallet = Onto /\ Rests(TravelHeight)

Handles == AtFace \/ AtRaise \/ AtDock \/ AtMove \/ AtUndock \/ AtLower \/ AtEnd

Fits ==
  /\ {lift.cur, lift.tgt} \subseteq {Insert(fsm.level), Lifted(fsm.level)}
  /\ pallet = "dock" => lift.cur = Insert(fsm.level)
  /\ pallet = "fork" => lift.cur = Lifted(fsm.level)

\* Going home the fork is empty, and stays out of the docks for pallets.
Parks ==
  /\ fsm.todo \in {<<Step("face"), Step("homeDock")>>, <<Step("homeDock")>>, <<>>}
  /\ ~InDock /\ pallet # "fork" /\ fsm.waits # "fork"

Outline ==
  /\ fsm.job \in {"pick", "place"} => Handles
  /\ fsm.job = "home" => Parks
  /\ fsm.job = "none" => /\ fsm.todo = <<>> /\ ~InDock
                         /\ pallet = "fork" => Rests(TravelHeight)
  /\ fsm.job = "error" => fsm.todo = <<>> /\ (InDock => Fits)

IInv == Types /\ Waits /\ Served /\ Messages /\ Outline

-----------------------------------------------------------------------------
(* The steps of the work.                                                  *)

\* One step more, y.
Longer(S, s, y, t) ==
  /\ s \in Seq(S) /\ y \in Seq(S) /\ t \in Seq(S) /\ Len(y) = 1 /\ Len(t) = Len(s) + 1
  /\ t[Len(t)] = y[1] /\ \A i \in 1..Len(s) : t[i] = s[i]

LEMMA Joins == ASSUME NEW S, NEW s, NEW y, NEW t, Longer(S, s, y, t) PROVE s \o y = t
<1>1. s \in Seq(S) /\ y \in Seq(S) /\ t \in Seq(S) /\ Len(y) = 1 /\ Len(t) = Len(s) + 1
      /\ t[Len(t)] = y[1] /\ \A i \in 1..Len(s) : t[i] = s[i]
  BY DEF Longer
<1>2. s \o y \in Seq(S) /\ Len(s \o y) = Len(s) + Len(y)
      /\ \A i \in 1..Len(s) + Len(y) : (s \o y)[i] = IF i <= Len(s) THEN s[i] ELSE y[i - Len(s)]
  <2>1. s \in Seq(S) /\ y \in Seq(S)
    BY <1>1
  <2> QED BY <2>1, ConcatProperties, Zenon
<1>3. \A i \in 1..Len(t) : t[i] = (s \o y)[i]
  BY <1>1, <1>2, LenProperties
<1> QED BY <1>1, <1>2, <1>3, SeqEqual

\* The sequences of work: the fork is raised or not, and lowered or not.
LEMMA JoinedAll ==
  ASSUME NEW S, NEW a \in S, NEW b \in S, NEW c \in S, NEW d \in S, NEW e \in S, NEW f \in S
  PROVE  /\ <<a>> \o <<b>> \o <<c>> \o <<d>> \o <<e>> \o <<f>> = <<a, b, c, d, e, f>>
         /\ <<a, b, c, d, e, f>> \in Seq(S)
<1>1. /\ Longer(S, <<a>>, <<b>>, <<a, b>>)
      /\ Longer(S, <<a, b>>, <<c>>, <<a, b, c>>)
      /\ Longer(S, <<a, b, c>>, <<d>>, <<a, b, c, d>>)
      /\ Longer(S, <<a, b, c, d>>, <<e>>, <<a, b, c, d, e>>)
      /\ Longer(S, <<a, b, c, d, e>>, <<f>>, <<a, b, c, d, e, f>>)
  BY DEF Longer
<1>2. /\ <<a>> \o <<b>> = <<a, b>> /\ <<a, b>> \o <<c>> = <<a, b, c>>
      /\ <<a, b, c>> \o <<d>> = <<a, b, c, d>> /\ <<a, b, c, d>> \o <<e>> = <<a, b, c, d, e>>
      /\ <<a, b, c, d, e>> \o <<f>> = <<a, b, c, d, e, f>>
  BY <1>1, Joins, Zenon
<1>3. <<a, b, c, d, e, f>> \in Seq(S)
  OBVIOUS
<1> QED BY <1>2, <1>3, Zenon

LEMMA JoinedUnlowered ==
  ASSUME NEW S, NEW a \in S, NEW b \in S, NEW c \in S, NEW d \in S, NEW e \in S
  PROVE  /\ <<a>> \o <<b>> \o <<c>> \o <<d>> \o <<e>> \o <<>> = <<a, b, c, d, e>>
         /\ <<a, b, c, d, e>> \in Seq(S)
<1>1. /\ Longer(S, <<a>>, <<b>>, <<a, b>>)
      /\ Longer(S, <<a, b>>, <<c>>, <<a, b, c>>)
      /\ Longer(S, <<a, b, c>>, <<d>>, <<a, b, c, d>>)
      /\ Longer(S, <<a, b, c, d>>, <<e>>, <<a, b, c, d, e>>)
  BY DEF Longer
<1>2. /\ <<a>> \o <<b>> = <<a, b>> /\ <<a, b>> \o <<c>> = <<a, b, c>>
      /\ <<a, b, c>> \o <<d>> = <<a, b, c, d>> /\ <<a, b, c, d>> \o <<e>> = <<a, b, c, d, e>>
  BY <1>1, Joins, Zenon
<1>3. <<a, b, c, d, e>> \in Seq(S)
  OBVIOUS
<1>4. <<a, b, c, d, e>> \o <<>> = <<a, b, c, d, e>>
  BY <1>3, ConcatEmptySeq, Zenon
<1> QED BY <1>2, <1>3, <1>4, Zenon

LEMMA JoinedUnraised ==
  ASSUME NEW S, NEW a \in S, NEW c \in S, NEW d \in S, NEW e \in S, NEW f \in S
  PROVE  /\ <<a>> \o <<>> \o <<c>> \o <<d>> \o <<e>> \o <<f>> = <<a, c, d, e, f>>
         /\ <<a, c, d, e, f>> \in Seq(S)
<1>1. /\ Longer(S, <<a>>, <<c>>, <<a, c>>)
      /\ Longer(S, <<a, c>>, <<d>>, <<a, c, d>>)
      /\ Longer(S, <<a, c, d>>, <<e>>, <<a, c, d, e>>)
      /\ Longer(S, <<a, c, d, e>>, <<f>>, <<a, c, d, e, f>>)
  BY DEF Longer
<1>2. /\ <<a>> \o <<c>> = <<a, c>> /\ <<a, c>> \o <<d>> = <<a, c, d>>
      /\ <<a, c, d>> \o <<e>> = <<a, c, d, e>> /\ <<a, c, d, e>> \o <<f>> = <<a, c, d, e, f>>
  BY <1>1, Joins, Zenon
<1>3. <<a>> \in Seq(S) /\ <<a, c, d, e, f>> \in Seq(S)
  OBVIOUS
<1>4. <<a>> \o <<>> = <<a>>
  BY <1>3, ConcatEmptySeq, Zenon
<1> QED BY <1>2, <1>3, <1>4, Zenon

LEMMA StepTypes ==
  /\ \A what \in {"face", "dock", "homeDock", "undock"} : Step(what) \in StepType
  /\ \A height \in 1..4 : Fork(height) \in StepType
  BY DEF Step, Fork, StepType, NoHeight

LEMMA ForksOfOne ==
  /\ Forks(<<>>) = <<>>
  /\ \A height \in 1..4 : Forks(<<height>>) = <<Fork(height)>>
<1>1. Forks(<<>>) = <<>>
  BY DEF Forks
<1>2. ASSUME NEW height \in 1..4 PROVE Forks(<<height>>) = <<Fork(height)>>
  BY DEF Forks, Fork
<1> QED BY <1>1, <1>2

\* They are what an outline of the work begins with.
LEMMA Outlines ==
  /\ FaceOn(<<Step("face"), Fork(1), Step("dock"), Fork(2), Step("undock")>>, 1, 2)
  /\ FaceOn(<<Step("face"), Fork(3), Step("dock"), Fork(4), Step("undock"), Fork(2)>>, 3, 4)
  /\ FaceOn(<<Step("face"), Step("dock"), Fork(1), Step("undock"), Fork(2)>>, 2, 1)
  /\ FaceOn(<<Step("face"), Fork(4), Step("dock"), Fork(3), Step("undock"), Fork(2)>>, 4, 3)
  BY DEF FaceOn, RaiseOn, DockOn, MoveOn, UndockOn, LowerOn, TravelHeight

\* _work begins with facing the dock.
LEMMA WorkFaces ==
  ASSUME NEW job \in {"pick", "place"}, NEW level \in Level
  PROVE  /\ FaceOn(Steps(job, level), BeforeIn(job, level), AfterIn(job, level))
         /\ Steps(job, level) \in Seq(StepType)
<1>1. level \in {1, 2}
  BY WorkAssumption
<1>2. /\ Step("face") \in StepType /\ Step("dock") \in StepType /\ Step("undock") \in StepType
      /\ Fork(1) \in StepType /\ Fork(2) \in StepType /\ Fork(3) \in StepType /\ Fork(4) \in StepType
  BY StepTypes
<1>7. /\ Forks(<<>>) = <<>> /\ Forks(<<1>>) = <<Fork(1)>> /\ Forks(<<2>>) = <<Fork(2)>>
      /\ Forks(<<3>>) = <<Fork(3)>> /\ Forks(<<4>>) = <<Fork(4)>>
  BY ForksOfOne
<1>3. CASE job = "pick" /\ level = 1
  <2>1. Steps(job, level) = <<Step("face")>> \o Forks(<<1>>) \o <<Step("dock")>> \o Forks(<<2>>) \o <<Step("undock")>> \o Forks(<<>>)
    BY <1>3 DEF Steps, PickSequence
  <2>2. <<Step("face")>> \o <<Fork(1)>> \o <<Step("dock")>> \o <<Fork(2)>> \o <<Step("undock")>> \o <<>>
          = <<Step("face"), Fork(1), Step("dock"), Fork(2), Step("undock")>>
        /\ <<Step("face"), Fork(1), Step("dock"), Fork(2), Step("undock")>> \in Seq(StepType)
    BY <1>2, JoinedUnlowered, Zenon
  <2>3. Steps(job, level) = <<Step("face"), Fork(1), Step("dock"), Fork(2), Step("undock")>> /\ Steps(job, level) \in Seq(StepType)
    BY <1>7, <2>1, <2>2, Zenon
  <2>4. BeforeIn(job, level) = 1 /\ AfterIn(job, level) = 2
    BY <1>3 DEF BeforeIn, AfterIn, Insert, Lifted
  <2> QED BY <2>3, <2>4, Outlines, Zenon
<1>4. CASE job = "pick" /\ level = 2
  <2>1. Steps(job, level) = <<Step("face")>> \o Forks(<<3>>) \o <<Step("dock")>> \o Forks(<<4>>) \o <<Step("undock")>> \o Forks(<<2>>)
    BY <1>4 DEF Steps, PickSequence
  <2>2. <<Step("face")>> \o <<Fork(3)>> \o <<Step("dock")>> \o <<Fork(4)>> \o <<Step("undock")>> \o <<Fork(2)>>
          = <<Step("face"), Fork(3), Step("dock"), Fork(4), Step("undock"), Fork(2)>>
        /\ <<Step("face"), Fork(3), Step("dock"), Fork(4), Step("undock"), Fork(2)>> \in Seq(StepType)
    BY <1>2, JoinedAll, Zenon
  <2>3. Steps(job, level) = <<Step("face"), Fork(3), Step("dock"), Fork(4), Step("undock"), Fork(2)>> /\ Steps(job, level) \in Seq(StepType)
    BY <1>7, <2>1, <2>2, Zenon
  <2>4. BeforeIn(job, level) = 3 /\ AfterIn(job, level) = 4
    BY <1>4 DEF BeforeIn, AfterIn, Insert, Lifted
  <2> QED BY <2>3, <2>4, Outlines, Zenon
<1>5. CASE job = "place" /\ level = 1
  <2>1. Steps(job, level) = <<Step("face")>> \o Forks(<<>>) \o <<Step("dock")>> \o Forks(<<1>>) \o <<Step("undock")>> \o Forks(<<2>>)
    BY <1>5 DEF Steps, PlaceSequence
  <2>2. <<Step("face")>> \o <<>> \o <<Step("dock")>> \o <<Fork(1)>> \o <<Step("undock")>> \o <<Fork(2)>>
          = <<Step("face"), Step("dock"), Fork(1), Step("undock"), Fork(2)>>
        /\ <<Step("face"), Step("dock"), Fork(1), Step("undock"), Fork(2)>> \in Seq(StepType)
    BY <1>2, JoinedUnraised, Zenon
  <2>3. Steps(job, level) = <<Step("face"), Step("dock"), Fork(1), Step("undock"), Fork(2)>> /\ Steps(job, level) \in Seq(StepType)
    BY <1>7, <2>1, <2>2, Zenon
  <2>4. BeforeIn(job, level) = 2 /\ AfterIn(job, level) = 1
    BY <1>5 DEF BeforeIn, AfterIn, Insert, Lifted
  <2> QED BY <2>3, <2>4, Outlines, Zenon
<1>6. CASE job = "place" /\ level = 2
  <2>1. Steps(job, level) = <<Step("face")>> \o Forks(<<4>>) \o <<Step("dock")>> \o Forks(<<3>>) \o <<Step("undock")>> \o Forks(<<2>>)
    BY <1>6 DEF Steps, PlaceSequence
  <2>2. <<Step("face")>> \o <<Fork(4)>> \o <<Step("dock")>> \o <<Fork(3)>> \o <<Step("undock")>> \o <<Fork(2)>>
          = <<Step("face"), Fork(4), Step("dock"), Fork(3), Step("undock"), Fork(2)>>
        /\ <<Step("face"), Fork(4), Step("dock"), Fork(3), Step("undock"), Fork(2)>> \in Seq(StepType)
    BY <1>2, JoinedAll, Zenon
  <2>3. Steps(job, level) = <<Step("face"), Fork(4), Step("dock"), Fork(3), Step("undock"), Fork(2)>> /\ Steps(job, level) \in Seq(StepType)
    BY <1>7, <2>1, <2>2, Zenon
  <2>4. BeforeIn(job, level) = 4 /\ AfterIn(job, level) = 3
    BY <1>6 DEF BeforeIn, AfterIn, Insert, Lifted
  <2> QED BY <2>3, <2>4, Outlines, Zenon
<1> QED BY <1>1, <1>3, <1>4, <1>5, <1>6

-----------------------------------------------------------------------------
(* What the steps have in common.                                          *)

LEMMA Initial == Init => IInv
<1> SUFFICES ASSUME Init PROVE IInv
  OBVIOUS
<1>1. /\ fsm = [job |-> "none", level |-> 1, todo |-> <<>>, waits |-> "none",
                seen |-> FALSE, last |-> "none"]
      /\ lift = [cur |-> TravelHeight, tgt |-> TravelHeight, state |-> "AT"]
      /\ wire = [command |-> NoHeight, states |-> <<>>]
      /\ pallet = "none" /\ serving = "none" /\ ended = "none" /\ place = "parked"
  BY DEF Init, Dock!Init
<1>2. Types
  <2>1. fsm \in Fsm
    BY <1>1, WorkAssumption DEF Fsm
  <2>2. lift \in Lift /\ wire \in Wire /\ Len(wire.states) <= MaxChan
    BY <1>1, WorkAssumption DEF Lift, Wire, LiftState, TravelHeight, NoHeight
  <2> QED BY <1>1, <2>1, <2>2 DEF Types, Dock!Places
<1>3. Waits /\ Served /\ Messages
  BY <1>1 DEF Waits, Served, Messages, OnlyStates, NoHeight
<1>4. Outline
  BY <1>1 DEF Outline, InDock
<1> QED BY <1>2, <1>3, <1>4 DEF IInv

\* The step that is next, and the work left after it.
LEMMA NextStep ==
  ASSUME Types, fsm.todo # <<>>
  PROVE  Head(fsm.todo) \in StepType /\ Tail(fsm.todo) \in Seq(StepType)
  BY HeadTailProperties DEF Types, Fsm

LEMMA SucceedsFields ==
  ASSUME Types, fsm.todo # <<>>, Succeeds
  PROVE  /\ fsm' \in Fsm /\ fsm'.job = fsm.job /\ fsm'.level = fsm.level
         /\ fsm'.todo = Tail(fsm.todo) /\ fsm'.waits = "none"
<1>1. fsm \in Fsm /\ fsm' = [fsm EXCEPT !.todo = Tail(fsm.todo), !.waits = "none"]
  BY DEF Types, Succeeds
<1>2. fsm'.todo = Tail(fsm.todo) /\ fsm'.waits = "none" /\ fsm'.job = fsm.job /\ fsm'.level = fsm.level
  BY <1>1 DEF Fsm
<1>3. ASSUME NEW f \in Fsm, NEW t \in Seq(StepType), NEW w \in {"none", "dock", "fork"}
      PROVE  [f EXCEPT !.todo = t, !.waits = w] \in Fsm
  BY <1>3 DEF Fsm
<1>4. fsm' \in Fsm
  BY <1>1, <1>3, NextStep, Zenon
<1> QED BY <1>2, <1>4

LEMMA FailsFields ==
  ASSUME Types, Fails
  PROVE  /\ fsm' \in Fsm /\ fsm'.job = IF fsm.job = "home" THEN "none" ELSE "error"
         /\ fsm'.level = fsm.level /\ fsm'.todo = <<>> /\ fsm'.waits = "none"
<1> DEFINE j == IF fsm.job = "home" THEN "none" ELSE "error"
<1>1. fsm \in Fsm /\ fsm' = [fsm EXCEPT !.job = j, !.todo = <<>>, !.waits = "none"]
  BY DEF Types, Fails
<1>2. j \in {"none", "error"}
  OBVIOUS
<1>3. <<>> \in Seq(StepType)
  OBVIOUS
<1>4. ASSUME NEW f \in Fsm, NEW i \in {"none", "error"}, NEW t \in Seq(StepType), NEW w \in {"none", "dock", "fork"}
      PROVE  [f EXCEPT !.job = i, !.todo = t, !.waits = w] \in Fsm
  BY <1>4 DEF Fsm
<1>5. fsm' \in Fsm
  <2> HIDE DEF j
  <2> QED BY <1>1, <1>2, <1>3, <1>4, Zenon
<1>6. fsm'.todo = <<>> /\ fsm'.waits = "none" /\ fsm'.job = j /\ fsm'.level = fsm.level
  BY <1>1 DEF Fsm
<1> QED BY <1>5, <1>6

\* What is next tells where in the outline the work is.
LEMMA WhereItIs ==
  ASSUME IInv, fsm.job \in {"pick", "place"}
  PROVE  /\ fsm.todo = <<>> => AtEnd
         /\ fsm.todo # <<>> /\ Head(fsm.todo).do = "face" => AtFace
         /\ fsm.todo # <<>> /\ Head(fsm.todo).do = "dock" => AtDock
         /\ fsm.todo # <<>> /\ Head(fsm.todo).do = "homeDock" => FALSE
         /\ fsm.todo # <<>> /\ Head(fsm.todo).do = "undock" => AtUndock
         /\ fsm.todo # <<>> /\ Head(fsm.todo).do = "fork" => AtRaise \/ AtMove \/ AtLower
<1>1. Handles
  BY DEF IInv, Outline
<1>2. CASE AtFace
  BY <1>2 DEF AtFace, FaceOn, Step
<1>3. CASE AtRaise
  BY <1>3 DEF AtRaise, RaiseOn, Fork
<1>4. CASE AtDock
  BY <1>4 DEF AtDock, DockOn, Step
<1>5. CASE AtMove
  BY <1>5 DEF AtMove, MoveOn, Fork
<1>6. CASE AtUndock
  BY <1>6 DEF AtUndock, UndockOn, Step
<1>7. CASE AtLower
  BY <1>7 DEF AtLower, LowerOn, Fork
<1>8. CASE AtEnd
  BY <1>8 DEF AtEnd
<1> QED BY <1>1, <1>2, <1>3, <1>4, <1>5, <1>6, <1>7, <1>8 DEF Handles

LEMMA Working ==
  ASSUME IInv, fsm.todo # <<>>
  PROVE  fsm.job \in {"pick", "place"} \/ (fsm.job = "home" /\ Parks)
  BY DEF IInv, Types, Fsm, Outline

\* On the way home the fork does not move.
LEMMA HomeSteps ==
  ASSUME Parks, fsm.todo # <<>>
  PROVE  Head(fsm.todo).do \in {"face", "homeDock"}
  BY DEF Parks, Step

\* The heights of a level differ, and none is no height.
LEMMA Heights ==
  ASSUME Types
  PROVE  /\ fsm.level \in {1, 2} /\ Insert(fsm.level) \in {1, 3} /\ Lifted(fsm.level) \in {2, 4}
         /\ Before \in 1..4 /\ After \in 1..4 /\ Before # After
<1>1. fsm.level \in {1, 2}
  BY WorkAssumption DEF Types, Fsm
<1>2. CASE fsm.level = 1
  BY <1>2 DEF Insert, Lifted, Before, After, BeforeIn, AfterIn
<1>3. CASE fsm.level = 2
  BY <1>3 DEF Insert, Lifted, Before, After, BeforeIn, AfterIn
<1> QED BY <1>1, <1>2, <1>3

-----------------------------------------------------------------------------
(* The lift and its messages.                                              *)

SameWork == fsm'.job = fsm.job /\ fsm'.level = fsm.level /\ fsm'.todo = fsm.todo

\* What only the messages do does not change where the work is.
LEMMA MessagesOnly ==
  ASSUME IInv, SameWork, fsm'.waits = fsm.waits, UNCHANGED <<dockVars, pallet>>,
         lift'.cur = lift.cur, lift'.tgt = lift.tgt
  PROVE  Waits' /\ Served' /\ Outline'
<1>1. /\ fsm'.job = fsm.job /\ fsm'.level = fsm.level /\ fsm'.todo = fsm.todo
      /\ fsm'.waits = fsm.waits /\ serving' = serving /\ ended' = ended /\ place' = place
      /\ pallet' = pallet
  BY DEF SameWork, dockVars
<1>2. Waits' /\ Served'
  BY <1>1 DEF IInv, Waits, Served
<1>3. Handles => Handles'
  BY <1>1 DEF Handles, AtFace, AtRaise, AtDock, AtMove, AtUndock, AtLower, AtEnd, Idle, InDock,
              Rests, From, Onto, Before, After
<1>4. Parks => Parks'
  BY <1>1 DEF Parks, InDock
<1>5. Outline'
  BY <1>1, <1>3, <1>4 DEF IInv, Outline, InDock, Rests, Fits
<1> QED BY <1>2, <1>5

LEMMA CommandLostKeeps == IInv /\ CommandLost => IInv'
<1> SUFFICES ASSUME IInv, CommandLost PROVE IInv'
  OBVIOUS
<1>1. /\ wire' = [wire EXCEPT !.command = NoHeight] /\ wire.command # NoHeight
      /\ UNCHANGED <<dockVars, fsm, lift, pallet>> /\ fsm' = fsm /\ lift' = lift
  BY DEF CommandLost
<1>2. wire \in Wire
  BY DEF IInv, Types
<1>3. wire' \in Wire /\ wire'.command = NoHeight /\ wire'.states = wire.states
  BY <1>1, <1>2 DEF Wire, NoHeight
<1>4. Types'
  BY <1>1, <1>3 DEF IInv, Types, dockVars
<1>5. Messages'
  BY <1>1, <1>3 DEF IInv, Messages, NotBegun, Begun, Arrived, OnlyStates
<1> QED BY <1>1, <1>4, <1>5, MessagesOnly DEF IInv, SameWork

LEMMA HeartbeatKeeps == IInv /\ Heartbeat => IInv'
<1> SUFFICES ASSUME IInv, Heartbeat PROVE IInv'
  OBVIOUS
<1>1. /\ wire' = [wire EXCEPT !.states = <<lift.state>>] /\ wire.states = <<>>
      /\ UNCHANGED <<dockVars, fsm, lift, pallet>> /\ fsm' = fsm /\ lift' = lift
  BY DEF Heartbeat
<1>2. wire \in Wire /\ lift.state \in LiftState
  BY DEF IInv, Types, Lift
<1>3. wire' \in Wire /\ wire'.command = wire.command /\ wire'.states = <<lift.state>>
  <2>1. <<lift.state>> \in Seq(LiftState)
    BY <1>2
  <2> QED BY <1>1, <1>2, <2>1 DEF Wire
<1>4. Len(wire'.states) = 1 /\ wire'.states[1] = lift.state
  BY <1>3
<1>5. Types'
  BY <1>1, <1>3, <1>4, WorkAssumption DEF IInv, Types, dockVars
<1>6. Messages'
  BY <1>1, <1>2, <1>3, <1>4 DEF IInv, Messages, NotBegun, Begun, Arrived, OnlyStates, LiftState
<1> QED BY <1>1, <1>5, <1>6, MessagesOnly DEF IInv, SameWork

LEMMA OnForkStateKeeps == IInv /\ OnForkState => IInv'
<1> SUFFICES ASSUME IInv, OnForkState PROVE IInv'
  OBVIOUS
<1> DEFINE s == wire.states
<1>1. /\ fsm' = [fsm EXCEPT !.last = Head(s), !.seen = @ \/ Head(s) = "MOVING"]
      /\ wire' = [wire EXCEPT !.states = Tail(s)] /\ s # <<>>
      /\ UNCHANGED <<dockVars, lift, pallet>> /\ lift' = lift
  BY DEF OnForkState
<1>2. wire \in Wire /\ fsm \in Fsm
  BY DEF IInv, Types
<1>3. s \in Seq(LiftState) /\ s # <<>>
  BY <1>1, <1>2 DEF Wire
<1>4. /\ Head(s) \in LiftState /\ Head(s) = s[1] /\ Tail(s) \in Seq(LiftState)
      /\ Len(s) \in Nat /\ Len(s) > 0 /\ Len(Tail(s)) = Len(s) - 1
      /\ \A i \in 1..Len(Tail(s)) : Tail(s)[i] = s[i + 1]
  BY <1>3
<1>5. wire' \in Wire /\ wire'.command = wire.command /\ wire'.states = Tail(s)
  BY <1>1, <1>2, <1>4 DEF Wire
<1>6. /\ fsm'.last = Head(s) /\ (fsm'.seen <=> fsm.seen \/ Head(s) = "MOVING")
      /\ SameWork /\ fsm'.waits = fsm.waits
  BY <1>1, <1>2 DEF Fsm, SameWork
<1>7. fsm' \in Fsm
  <2>1. ASSUME NEW f \in Fsm, NEW l \in LiftState, NEW b \in BOOLEAN
        PROVE  [f EXCEPT !.last = l, !.seen = b] \in Fsm
    BY <2>1 DEF Fsm, LiftState
  <2>2. (fsm.seen \/ Head(s) = "MOVING") \in BOOLEAN
    OBVIOUS
  <2> QED BY <1>1, <1>2, <1>4, <2>1, <2>2, Zenon
<1>8. Types'
  BY <1>1, <1>2, <1>4, <1>5, <1>7, WorkAssumption DEF IInv, Types, dockVars
<1>9. Messages'
  <2> DEFINE t == Tail(s)
  <2>1. t = wire'.states /\ Len(t) \in Nat /\ Len(t) = Len(s) - 1 /\ Len(s) \in Nat
        /\ \A i \in 1..Len(t) : t[i] = s[i + 1] /\ i + 1 \in 1..Len(s) /\ 1 < i + 1
    BY <1>4, <1>5
  <2>2. 1 \in 1..Len(s) /\ Head(s) = s[1] /\ s[1] \in {"AT", "MOVING"}
    BY <1>4 DEF LiftState
  <2>3. \A i \in 1..Len(s) : s[i] \in {"AT", "MOVING"}
    BY <1>3 DEF LiftState
  <2> HIDE DEF s, t
  <2>4. CASE fsm.waits # "fork"
    BY <1>1, <1>5, <1>6, <2>1, <2>4 DEF IInv, Messages, OnlyStates, s
  <2>5. CASE fsm.waits = "fork" /\ NotBegun
    <3>1. NotBegun'
      BY <1>1, <1>5, <1>6, <2>1, <2>2, <2>5 DEF NotBegun, OnlyStates, SameWork, s
    <3> QED BY <1>6, <2>5, <3>1 DEF Messages
  <2>6. CASE fsm.waits = "fork" /\ Begun
    <3>1. s[1] = "MOVING" => \A i \in 1..Len(t) : t[i] = "MOVING"
      BY <2>1, <2>2, <2>6 DEF Begun, s
    <3>2. \A i, j \in 1..Len(t) : i < j /\ t[i] = "MOVING" => t[j] = "MOVING"
      <4> SUFFICES ASSUME NEW i \in 1..Len(t), NEW j \in 1..Len(t), i < j, t[i] = "MOVING"
                   PROVE  t[j] = "MOVING"
        OBVIOUS
      <4>1. s[i + 1] = "MOVING" /\ i + 1 < j + 1
        BY <2>1
      <4> QED BY <2>1, <2>6, <4>1 DEF Begun, s
    <3>3. fsm'.seen => fsm'.last = "MOVING" /\ \A i \in 1..Len(t) : t[i] = "MOVING"
      BY <1>6, <2>1, <2>2, <2>6, <3>1 DEF Begun, OnlyStates, s
    <3>4. Begun'
      BY <1>1, <1>5, <1>6, <2>1, <2>6, <3>2, <3>3 DEF Begun, OnlyStates, SameWork
    <3> QED BY <1>6, <2>6, <3>4 DEF Messages
  <2>7. CASE fsm.waits = "fork" /\ Arrived
    <3>1. ASSUME NEW i \in 1..Len(t), NEW j \in 1..Len(t), NEW k \in 1..Len(t),
                 i < j, j < k, t[i] = "MOVING", t[j] = "AT"
          PROVE  t[k] = "AT"
      <4>1. s[i + 1] = "MOVING" /\ s[j + 1] = "AT" /\ i + 1 < j + 1 /\ j + 1 < k + 1
        BY <2>1, <3>1
      <4> QED BY <2>1, <2>7, <4>1 DEF Arrived, s
    <3>2. ASSUME NEW i \in 1..Len(t), NEW j \in 1..Len(t), i < j, t[i] = "AT", fsm'.seen
          PROVE  t[j] = "AT"
      <4>1. s[i + 1] = "AT" /\ i + 1 < j + 1 /\ 1 < i + 1
        BY <2>1, <3>2
      <4> QED BY <1>6, <2>1, <2>2, <2>7, <3>2, <4>1, SMTT(30) DEF Arrived, s
    <3>3. ASSUME fsm'.seen, fsm'.last = "AT", NEW i \in 1..Len(t) PROVE t[i] = "AT"
      BY <1>6, <2>1, <2>2, <2>7, <3>3 DEF Arrived, s
    <3>4. Arrived'
      BY <1>1, <1>5, <1>6, <2>1, <2>7, <3>1, <3>2, <3>3 DEF Arrived, OnlyStates, SameWork
    <3> QED BY <1>6, <2>7, <3>4 DEF Messages
  <2> QED BY <2>4, <2>5, <2>6, <2>7 DEF IInv, Messages
<1> QED BY <1>1, <1>6, <1>8, <1>9, MessagesOnly DEF IInv

\* A state is put on the wire or lost.
Reports(state) == wire'.states = Append(wire.states, state) \/ wire'.states = wire.states

LEMMA ReportedStates ==
  ASSUME Types, NEW state \in LiftState, Reports(state)
  PROVE  /\ wire'.states \in Seq(LiftState) /\ Len(wire.states) \in Nat
         /\ Len(wire'.states) \in {Len(wire.states), Len(wire.states) + 1}
         /\ \A i \in 1..Len(wire'.states) :
              \/ i \in 1..Len(wire.states) /\ wire'.states[i] = wire.states[i]
              \/ i = Len(wire.states) + 1 /\ wire'.states[i] = state
<1>1. wire.states \in Seq(LiftState)
  BY DEF Types, Wire
<1>2. CASE wire'.states = wire.states
  BY <1>1, <1>2
<1>3. CASE wire'.states = Append(wire.states, state)
  BY <1>1, <1>3
<1> QED BY <1>2, <1>3 DEF Reports

\* A fork step is under way in three places of the outline.
LEMMA Forking ==
  ASSUME IInv, fsm.waits = "fork"
  PROVE  /\ fsm.job \in {"pick", "place"} /\ fsm.todo # <<>>
         /\ AtRaise \/ AtMove \/ AtLower
         /\ Head(fsm.todo).height \in 1..4
         /\ AtMove => Head(fsm.todo).height = After
<1>1. fsm.todo # <<>> /\ Head(fsm.todo).do = "fork" /\ Head(fsm.todo).height \in 1..4
  BY DEF IInv, Waits
<1>2. fsm.job \in {"pick", "place"}
  BY <1>1, Working DEF Parks
<1>3. AtMove => Head(fsm.todo).height = After
  BY DEF AtMove, MoveOn, Fork
<1> QED BY <1>1, <1>2, <1>3, WhereItIs

LEMMA CmdCallbackKeeps == IInv /\ CmdCallback => IInv'
<1> SUFFICES ASSUME IInv, CmdCallback PROVE IInv'
  OBVIOUS
<1>1. /\ wire.command # NoHeight /\ lift.cur = lift.tgt /\ fsm' = fsm /\ pallet' = pallet
      /\ serving' = serving /\ ended' = ended /\ place' = place
      /\ lift' = [lift EXCEPT !.tgt = wire.command, !.state = "MOVING"]
      /\ Len(wire.states) < MaxChan
  BY DEF CmdCallback, dockVars, Publish
<1>2. lift \in Lift /\ wire \in Wire
  BY DEF IInv, Types
<1>3. fsm.waits = "fork" /\ NotBegun /\ wire.command = Head(fsm.todo).height
  BY <1>1 DEF IInv, Messages, Begun, Arrived, NotBegun
<1>4. Head(fsm.todo).height \in 1..4 /\ (AtRaise \/ AtMove \/ AtLower)
      /\ (AtMove => Head(fsm.todo).height = After) /\ fsm.job \in {"pick", "place"}
  BY <1>3, Forking
<1>5. lift' \in Lift /\ lift'.cur = lift.cur /\ lift'.tgt = Head(fsm.todo).height
      /\ lift'.state = "MOVING"
  BY <1>1, <1>2, <1>3, <1>4 DEF Lift, LiftState
<1>6. wire'.command = NoHeight /\ Reports("MOVING")
  BY DEF CmdCallback, Publish, Reports
<1>7. /\ wire'.states \in Seq(LiftState) /\ Len(wire.states) \in Nat
      /\ Len(wire'.states) \in {Len(wire.states), Len(wire.states) + 1}
      /\ \A i \in 1..Len(wire'.states) :
           \/ i \in 1..Len(wire.states) /\ wire'.states[i] = wire.states[i]
           \/ i = Len(wire.states) + 1 /\ wire'.states[i] = "MOVING"
  BY <1>6, ReportedStates DEF IInv, LiftState
<1>8. Types'
  <2>1. wire' \in Wire
    <3>1. wire' = [command |-> NoHeight, states |-> wire'.states]
      BY DEF CmdCallback, Publish
    <3> QED BY <1>7, <3>1 DEF Wire, NoHeight
  <2>2. Len(wire'.states) <= MaxChan
    BY <1>1, <1>7, WorkAssumption
  <2> QED BY <1>1, <1>5, <2>1, <2>2 DEF IInv, Types
<1>9. Waits' /\ Served'
  BY <1>1 DEF IInv, Waits, Served
<1>10. Messages'
  <2>1. \A i, j \in 1..Len(wire'.states) :
          i < j /\ wire'.states[i] = "MOVING" => wire'.states[j] = "MOVING"
    BY <1>3, <1>7 DEF NotBegun, OnlyStates
  <2>2. fsm.seen => fsm.last = "MOVING" /\ \A i \in 1..Len(wire'.states) : wire'.states[i] = "MOVING"
    BY <1>3, <1>7 DEF NotBegun, OnlyStates
  <2>3. Begun'
    BY <1>1, <1>5, <1>6, <2>1, <2>2 DEF Begun, OnlyStates
  <2> QED BY <1>1, <1>3, <2>3 DEF Messages
<1>11. Outline'
  <2>1. AtRaise => AtRaise'
    BY <1>1 DEF AtRaise, InDock, From, Before, After
  <2>2. AtLower => AtLower'
    BY <1>1 DEF AtLower, InDock, Onto
  <2>3. AtMove => AtMove'
    BY <1>1, <1>3, <1>4, <1>5 DEF AtMove, InDock, From, Onto, Before, After, Idle, Rests
  <2> QED BY <1>1, <1>4, <2>1, <2>2, <2>3 DEF Outline, Handles
<1> QED BY <1>8, <1>9, <1>10, <1>11 DEF IInv

LEMMA RunMoveKeeps == IInv /\ RunMove => IInv'
<1> SUFFICES ASSUME IInv, RunMove PROVE IInv'
  OBVIOUS
<1>1. /\ lift.cur # lift.tgt /\ fsm' = fsm
      /\ serving' = serving /\ ended' = ended /\ place' = place
      /\ lift' = [lift EXCEPT !.cur = lift.tgt, !.state = "AT"]
      /\ pallet' = Carried(lift.cur, lift.tgt) /\ Len(wire.states) < MaxChan
  BY DEF RunMove, dockVars
<1>2. lift \in Lift /\ wire \in Wire /\ pallet \in {"none", "dock", "fork"}
  BY DEF IInv, Types
<1>3. fsm.waits = "fork" /\ Begun
  BY <1>1 DEF IInv, Messages, Begun, Arrived, NotBegun
<1>4. (AtRaise \/ AtMove \/ AtLower) /\ (AtMove => Head(fsm.todo).height = After)
      /\ fsm.job \in {"pick", "place"}
  BY <1>3, Forking
<1>5. lift' \in Lift /\ lift'.cur = lift.tgt /\ lift'.tgt = lift.tgt
      /\ lift'.state = "AT" /\ lift.tgt = Head(fsm.todo).height
  BY <1>1, <1>2, <1>3 DEF Lift, LiftState, Begun
<1>6. wire'.command = wire.command /\ Reports("AT")
  BY <1>2 DEF RunMove, Reports, Wire
<1>7. /\ wire'.states \in Seq(LiftState) /\ Len(wire.states) \in Nat
      /\ Len(wire'.states) \in {Len(wire.states), Len(wire.states) + 1}
      /\ \A i \in 1..Len(wire'.states) :
           \/ i \in 1..Len(wire.states) /\ wire'.states[i] = wire.states[i]
           \/ i = Len(wire.states) + 1 /\ wire'.states[i] = "AT"
  BY <1>6, ReportedStates DEF IInv, LiftState
<1>8. Types'
  <2>1. wire' \in Wire
    BY <1>2, <1>7 DEF RunMove, Wire
  <2>2. Len(wire'.states) <= MaxChan
    BY <1>1, <1>7, WorkAssumption
  <2>3. pallet' \in {"none", "dock", "fork"}
    BY <1>1, <1>2 DEF Carried
  <2> QED BY <1>1, <1>5, <2>1, <2>2, <2>3 DEF IInv, Types
<1>9. Waits' /\ Served'
  BY <1>1 DEF IInv, Waits, Served
<1>10. Messages'
  <2> DEFINE s == wire.states
             t == wire'.states
  <2>1. \A i, j \in 1..Len(s) : i < j /\ s[i] = "MOVING" => s[j] = "MOVING"
    BY <1>3 DEF Begun
  <2>2. fsm.seen => fsm.last = "MOVING" /\ \A i \in 1..Len(s) : s[i] = "MOVING"
    BY <1>3 DEF Begun, OnlyStates
  <2>3. /\ Len(s) \in Nat /\ Len(t) \in {Len(s), Len(s) + 1}
        /\ \A i \in 1..Len(t) : \/ i \in 1..Len(s) /\ t[i] = s[i]
                                \/ i = Len(s) + 1 /\ t[i] = "AT"
    BY <1>7
  <2> HIDE DEF s, t
  <2>4. \A i, j, k \in 1..Len(t) : i < j /\ j < k /\ t[i] = "MOVING" /\ t[j] = "AT" => t[k] = "AT"
    BY <2>1, <2>3
  <2>5. fsm.seen => \A i, j \in 1..Len(t) : i < j /\ t[i] = "AT" => t[j] = "AT"
    BY <2>2, <2>3
  <2>6. Arrived'
    BY <1>1, <1>3, <1>5, <1>6, <2>2, <2>4, <2>5 DEF Begun, Arrived, OnlyStates, t
  <2> QED BY <1>1, <1>3, <2>6 DEF Messages
<1>11. Outline'
  <2>1. AtRaise => AtRaise'
    BY <1>1 DEF AtRaise, InDock, From, Before, After, Carried
  <2>2. AtLower => AtLower'
    BY <1>1 DEF AtLower, InDock, Onto, Carried
  <2>3. ASSUME AtMove PROVE AtMove'
    <3>1. pallet = From /\ lift.cur = Before /\ lift.tgt = After /\ InDock
      BY <1>1, <2>3 DEF AtMove, Rests
    <3>2. pallet' = Onto
      BY <1>1, <1>4, <3>1 DEF Carried, From, Onto, Before, After, BeforeIn, AfterIn
    <3> QED BY <1>1, <1>3, <1>5, <2>3, <3>1, <3>2 DEF AtMove, InDock, From, Onto, Before, After, Idle, Rests
  <2> QED BY <1>1, <1>4, <2>1, <2>2, <2>3 DEF Outline, Handles
<1> QED BY <1>8, <1>9, <1>10, <1>11 DEF IInv

-----------------------------------------------------------------------------
(* The ends of a step.                                                     *)

\* In a dock the fork fits, wherever the work is.
LEMMA FitsInDock == IInv /\ InDock => Fits
<1> SUFFICES ASSUME IInv, InDock PROVE Fits
  OBVIOUS
<1>1. fsm.job \in {"none", "pick", "place", "home", "error"}
  BY DEF IInv, Types, Fsm
<1>2. CASE fsm.job \in {"none", "home", "error"}
  BY <1>2 DEF IInv, Outline, Parks
<1>3. CASE fsm.job = "pick"
  <2>1. (AtDock \/ AtMove \/ AtUndock)
    BY <1>3 DEF IInv, Outline, Handles, AtFace, AtRaise, AtLower, AtEnd
  <2> QED BY <1>3, <2>1, Heights DEF IInv, AtDock, AtMove, AtUndock, Rests, Fits, From, Onto, Before, After, BeforeIn, AfterIn
<1>4. CASE fsm.job = "place"
  <2>1. (AtDock \/ AtMove \/ AtUndock)
    BY <1>4 DEF IInv, Outline, Handles, AtFace, AtRaise, AtLower, AtEnd
  <2> QED BY <1>4, <2>1, Heights DEF IInv, AtDock, AtMove, AtUndock, Rests, Fits, From, Onto, Before, After, BeforeIn, AfterIn
<1> QED BY <1>1, <1>2, <1>3, <1>4

\* Work that fails leaves everything where it is; the lift has to be at rest.
LEMMA FailsKeeps ==
  ASSUME IInv, fsm.todo # <<>>, Fails, UNCHANGED <<lift, wire, pallet, place>>,
         wire.command = NoHeight, lift.cur = lift.tgt, OnlyStates(lift.state),
         serving' \in Dock!Kinds \cup {"none"}, ended' \in {"none", "failed"},
         ended' # "none" => serving' # "none"
  PROVE  IInv'
<1>1. /\ fsm' \in Fsm /\ fsm'.job = IF fsm.job = "home" THEN "none" ELSE "error"
      /\ fsm'.level = fsm.level /\ fsm'.todo = <<>> /\ fsm'.waits = "none"
  BY FailsFields DEF IInv
<1>2. Types'
  BY <1>1 DEF IInv, Types
<1>3. Waits' /\ Served'
  BY <1>1 DEF Waits, Served
<1>4. Messages'
  BY <1>1 DEF Messages, OnlyStates
<1>5. Outline'
  <2>1. InDock => Fits
    BY FitsInDock
  <2>2. fsm.job = "home" => ~InDock /\ pallet # "fork"
    BY DEF IInv, Outline, Parks
  <2> QED BY <1>1, <2>1, <2>2 DEF Outline, InDock, Fits
<1> QED BY <1>2, <1>3, <1>4, <1>5 DEF IInv

\* A step that is done, and the next place in the outline.
LEMMA SucceedsKeeps ==
  ASSUME IInv, fsm.todo # <<>>, Succeeds, UNCHANGED <<lift, wire, pallet>>,
         wire.command = NoHeight, lift.cur = lift.tgt, OnlyStates(lift.state),
         serving' \in Dock!Kinds \cup {"none"}, ended' \in {"none", "failed"},
         ended' # "none" => serving' # "none",
         place' \in Dock!Places, Outline'
  PROVE  IInv'
<1>1. fsm' \in Fsm /\ fsm'.waits = "none"
  BY SucceedsFields DEF IInv
<1>2. Types'
  BY <1>1 DEF IInv, Types
<1>3. Waits' /\ Served'
  BY <1>1 DEF Waits, Served
<1>4. Messages'
  BY <1>1 DEF Messages, OnlyStates
<1> QED BY <1>2, <1>3, <1>4 DEF IInv

LEMMA ForkCommandKeeps == IInv /\ ForkCommand => IInv'
<1> SUFFICES ASSUME IInv, ForkCommand PROVE IInv'
  OBVIOUS
<1> DEFINE h == Head(fsm.todo).height
<1>1. /\ fsm.todo # <<>> /\ Head(fsm.todo).do = "fork" /\ fsm.waits = "none"
      /\ fsm' = [fsm EXCEPT !.waits = "fork", !.seen = FALSE, !.last = "none"]
      /\ wire' = [wire EXCEPT !.command = h] /\ lift' = lift /\ pallet' = pallet
      /\ serving' = serving /\ ended' = ended /\ place' = place
  BY DEF ForkCommand, Now, dockVars
<1>2. fsm \in Fsm /\ wire \in Wire
  BY DEF IInv, Types
<1>3. fsm.job \in {"pick", "place"} /\ (AtRaise \/ AtMove \/ AtLower)
  BY <1>1, Working, HomeSteps, WhereItIs
<1>4. h \in 1..4
  <2>1. Before \in 1..4 /\ After \in 1..4
    BY Heights DEF IInv
  <2>2. h \in {Before, After, TravelHeight}
    BY <1>3 DEF AtRaise, RaiseOn, AtMove, MoveOn, AtLower, LowerOn, Fork
  <2> QED BY <2>1, <2>2 DEF TravelHeight
<1>5. /\ fsm'.job = fsm.job /\ fsm'.level = fsm.level /\ fsm'.todo = fsm.todo
      /\ fsm'.waits = "fork" /\ ~fsm'.seen /\ fsm'.last = "none"
  BY <1>1, <1>2 DEF Fsm
<1>6. fsm' \in Fsm
  <2>1. ASSUME NEW f \in Fsm, NEW w \in {"none", "dock", "fork"}, NEW b \in BOOLEAN,
               NEW l \in {"none", "AT", "MOVING"}
        PROVE  [f EXCEPT !.waits = w, !.seen = b, !.last = l] \in Fsm
    BY <2>1 DEF Fsm
  <2>2. "fork" \in {"none", "dock", "fork"} /\ FALSE \in BOOLEAN /\ "none" \in {"none", "AT", "MOVING"}
    OBVIOUS
  <2> QED BY <1>1, <1>2, <2>1, <2>2, Zenon
<1>7. wire' \in Wire /\ wire'.command = h /\ wire'.states = wire.states
  BY <1>1, <1>2, <1>4 DEF Wire
<1>8. Types'
  BY <1>1, <1>6, <1>7 DEF IInv, Types
<1>9. Waits' /\ Served'
  <2>1. ended # "done"
    BY <1>1 DEF IInv, Served
  <2> QED BY <1>1, <1>4, <1>5, <2>1 DEF IInv, Waits, Served
<1>10. Messages'
  <2>1. lift.cur = lift.tgt /\ OnlyStates(lift.state)
    BY <1>1 DEF IInv, Messages
  <2>2. NotBegun'
    BY <1>1, <1>5, <1>7, <2>1 DEF NotBegun, OnlyStates
  <2> QED BY <1>5, <2>2 DEF Messages
<1>11. Outline'
  <2>1. AtRaise => AtRaise'
    BY <1>1, <1>5 DEF AtRaise, InDock, From, Before, After
  <2>2. AtLower => AtLower'
    BY <1>1, <1>5 DEF AtLower, InDock, Onto
  <2>3. AtMove => AtMove'
    BY <1>1, <1>5 DEF AtMove, InDock, From, Onto, Before, After, Idle, Rests
  <2> QED BY <1>3, <1>5, <2>1, <2>2, <2>3 DEF Outline, Handles
<1> QED BY <1>8, <1>9, <1>10, <1>11 DEF IInv

\* When a command is taken for done, the lift has arrived.
LEMMA DoneIsArrived ==
  ASSUME IInv, fsm.waits = "fork", fsm.seen, fsm.last = "AT"
  PROVE  Arrived
  BY DEF IInv, Messages, NotBegun, Begun

LEMMA ForkReachedKeeps == IInv /\ ForkReached => IInv'
<1> SUFFICES ASSUME IInv, ForkReached PROVE IInv'
  OBVIOUS
<1>1. /\ fsm.waits = "fork" /\ fsm.seen /\ fsm.last = "AT" /\ Succeeds
      /\ lift' = lift /\ wire' = wire /\ pallet' = pallet
      /\ serving' = serving /\ ended' = ended /\ place' = place
  BY DEF ForkReached, dockVars
<1>2. Arrived
  BY <1>1, DoneIsArrived
<1>3. /\ fsm.job \in {"pick", "place"} /\ fsm.todo # <<>>
      /\ (AtRaise \/ AtMove \/ AtLower) /\ (AtMove => Head(fsm.todo).height = After)
  BY <1>1, Forking
<1>4. /\ fsm'.job = fsm.job /\ fsm'.level = fsm.level
      /\ fsm'.todo = Tail(fsm.todo) /\ fsm'.waits = "none"
  BY <1>1, <1>3, SucceedsFields DEF IInv
<1>5. lift.cur = Head(fsm.todo).height /\ lift.tgt = lift.cur
  BY <1>2 DEF Arrived
<1>6. ASSUME AtRaise PROVE AtDock'
  <2>1. DockOn(Tail(fsm.todo), After) /\ Rests(Before) /\ ~InDock /\ pallet = From
    BY <1>5, <1>6 DEF AtRaise, RaiseOn, Fork, Rests
  <2> QED BY <1>1, <1>4, <2>1 DEF AtDock, Idle, InDock, From, Before, After, Rests
<1>7. ASSUME AtMove PROVE AtUndock'
  <2>1. UndockOn(Tail(fsm.todo), After) /\ Rests(After) /\ InDock /\ serving = "none"
    BY <1>3, <1>5, <1>7 DEF AtMove, MoveOn, Rests
  <2>2. pallet = Onto
    BY <1>7, <2>1, Heights DEF AtMove, Rests, IInv
  <2> QED BY <1>1, <1>4, <2>1, <2>2 DEF AtUndock, Idle, InDock, Onto, After, Rests
<1>8. ASSUME AtLower PROVE AtEnd'
  BY <1>1, <1>4, <1>5, <1>8 DEF AtLower, LowerOn, AtEnd, Fork, Rests, InDock, Onto
<1>9. Outline'
  BY <1>3, <1>4, <1>6, <1>7, <1>8 DEF Outline, Handles
<1>10. wire.command = NoHeight /\ OnlyStates(lift.state)
  BY <1>1, <1>2 DEF Arrived
<1>11. ended \in {"none", "failed"} /\ (ended # "none" => serving # "none")
  BY <1>1 DEF IInv, Types, Served
<1>12. /\ UNCHANGED <<lift, wire, pallet>> /\ serving' \in Dock!Kinds \cup {"none"}
       /\ ended' \in {"none", "failed"} /\ (ended' # "none" => serving' # "none")
       /\ place' \in Dock!Places
  BY <1>1, <1>11 DEF IInv, Types
<1> QED BY <1>1, <1>3, <1>5, <1>9, <1>10, <1>12, SucceedsKeeps

LEMMA ForkTimesOutKeeps == IInv /\ ForkTimesOut => IInv'
<1> SUFFICES ASSUME IInv, ForkTimesOut PROVE IInv'
  OBVIOUS
<1>1. /\ fsm.waits = "fork" /\ Fails /\ UNCHANGED <<lift, wire, pallet, place>>
      /\ serving' = serving /\ ended' = ended
      /\ wire.command = NoHeight /\ lift.cur = lift.tgt /\ wire.states = <<>>
  BY DEF ForkTimesOut, LiftSettled, dockVars
<1>2. OnlyStates(lift.state)
  BY <1>1 DEF OnlyStates
<1>3. fsm.todo # <<>> /\ ended # "done" /\ (ended # "none" => serving # "none")
  BY <1>1 DEF IInv, Waits, Served
<1> QED BY <1>1, <1>2, <1>3, FailsKeeps DEF IInv, Types

-----------------------------------------------------------------------------
(* The docking services.                                                   *)

\* Outside the fork steps the lift is at rest, and all that is heard says so.
LEMMA AtRest ==
  ASSUME IInv, fsm.waits # "fork"
  PROVE  wire.command = NoHeight /\ lift.cur = lift.tgt /\ OnlyStates(lift.state)
  BY DEF IInv, Messages

LEMMA GoalPlaces ==
  ASSUME serving \in Dock!Kinds
  PROVE  /\ Dock!Goal(serving) \in Dock!Places
         /\ Dock!Goal(serving) = "in" <=> serving = "dock"
  BY DEF Dock!Goal, Dock!Kinds, Dock!Places

LEMMA DockStepKeeps == IInv /\ DockStep => IInv'
<1> SUFFICES ASSUME IInv, DockStep PROVE IInv'
  OBVIOUS
<1>1. fsm' = fsm /\ lift' = lift /\ wire' = wire /\ pallet' = pallet
  BY DEF DockStep
<1>2. serving' = serving /\ serving # "none" /\ serving \in Dock!Kinds /\ ended = "none"
  BY DEF DockStep, Dock!Move, Dock!End, IInv, Types
<1>3. Messages' /\ Waits'
  BY <1>1, <1>2 DEF IInv, Messages, Waits, NotBegun, Begun, Arrived, OnlyStates
<1>4. CASE Dock!Move
  <2>1. fsm.waits = "dock" /\ ended' = "none"
        /\ place' \in {"out", "near", place, Dock!Goal(serving)}
    BY <1>2, <1>4 DEF Dock!Move
  <2>2. fsm.todo # <<>> /\ Head(fsm.todo).do \in {"dock", "homeDock", "undock"}
        /\ serving = Service(Head(fsm.todo).do)
    BY <2>1 DEF IInv, Waits
  <2>3. Types'
    BY <1>1, <1>2, <2>1, GoalPlaces DEF IInv, Types, Dock!Places
  <2>4. Served'
    BY <2>1 DEF Served
  <2>5. Outline'
    <3>1. CASE fsm.job \in {"pick", "place"}
      <4>1. AtDock \/ AtUndock
        BY <2>2, <3>1, WhereItIs
      <4>2. AtDock => AtDock'
        BY <1>1, <2>1 DEF AtDock, Idle, InDock, From, Before, After, Rests
      <4>3. AtUndock => AtUndock'
        BY <1>1, <2>1 DEF AtUndock, Idle, InDock, Onto, After, Rests
      <4> QED BY <1>1, <3>1, <4>1, <4>2, <4>3 DEF Outline, Handles
    <3>2. CASE fsm.job = "home"
      <4>1. Parks
        BY <3>2 DEF IInv, Outline
      <4>2. Head(fsm.todo).do = "homeDock"
        BY <2>2, <4>1, HomeSteps
      <4>3. serving = "home"
        BY <2>2, <4>2 DEF Service
      <4>4. place' # "in"
        BY <1>2, <2>1, <4>1, <4>3, GoalPlaces DEF Parks, InDock
      <4>5. Parks'
        BY <1>1, <4>1, <4>4 DEF Parks, InDock
      <4> QED BY <1>1, <3>2, <4>5 DEF Outline
    <3> QED BY <2>2, <3>1, <3>2, Working
  <2> QED BY <1>3, <2>3, <2>4, <2>5 DEF IInv
<1>5. CASE \E outcome \in {"done", "failed"} : Dock!End(outcome)
  <2>1. place' = place /\ ended' \in {"done", "failed"}
        /\ (ended' = "done" => fsm.waits = "dock" /\ place = Dock!Goal(serving))
    BY <1>5 DEF Dock!End
  <2>2. Types' /\ Served'
    BY <1>1, <1>2, <2>1 DEF IInv, Types, Served, Dock!Goal
  <2>3. Handles => Handles'
    BY <1>1, <1>2, <2>1 DEF Handles, AtFace, AtRaise, AtDock, AtMove, AtUndock, AtLower, AtEnd,
                            Idle, InDock, Rests, From, Onto, Before, After
  <2>4. Outline'
    BY <1>1, <2>1, <2>3 DEF IInv, Outline, Parks, InDock, Rests, Fits
  <2> QED BY <1>3, <2>2, <2>4 DEF IInv
<1> QED BY <1>4, <1>5 DEF DockStep

LEMMA DockAnswersKeeps == IInv /\ DockAnswers => IInv'
<1> SUFFICES ASSUME IInv, DockAnswers PROVE IInv'
  OBVIOUS
<1>1. /\ lift' = lift /\ wire' = wire /\ pallet' = pallet /\ place' = place
      /\ UNCHANGED <<lift, wire, pallet, place>>
      /\ serving' = "none" /\ ended' = "none" /\ ended # "none"
      /\ serving' \in Dock!Kinds \cup {"none"} /\ place' \in Dock!Places
  BY DEF DockAnswers, Dock!Answer, IInv, Types
<1>2. CASE fsm.waits = "dock" /\ ended # "done"
  <2>1. Fails /\ fsm.todo # <<>>
    BY <1>2 DEF DockAnswers, IInv, Waits
  <2> QED BY <1>1, <1>2, <2>1, AtRest, FailsKeeps
<1>3. CASE fsm.waits = "dock" /\ ended = "done"
  <2>1. Succeeds /\ fsm.todo # <<>> /\ Head(fsm.todo).do \in {"dock", "homeDock", "undock"}
    BY <1>3 DEF DockAnswers, IInv, Waits
  <2>2. serving = Service(Head(fsm.todo).do) /\ place = Dock!Goal(serving)
    BY <1>3 DEF IInv, Waits, Served
  <2>3. /\ fsm'.job = fsm.job /\ fsm'.level = fsm.level
        /\ fsm'.todo = Tail(fsm.todo) /\ fsm'.waits = "none"
    BY <2>1, SucceedsFields DEF IInv
  <2>4. Outline'
    <3>1. CASE fsm.job \in {"pick", "place"} /\ Head(fsm.todo).do = "dock"
      <4>1. AtDock
        BY <2>1, <3>1, WhereItIs
      <4>2. place = "in"
        BY <2>2, <3>1 DEF Service, Dock!Goal
      <4>3. AtMove'
        BY <1>1, <2>3, <4>1, <4>2 DEF AtDock, DockOn, AtMove, Idle, InDock, From, Before, After, Rests
      <4> QED BY <2>3, <3>1, <4>3 DEF Outline, Handles
    <3>2. CASE fsm.job \in {"pick", "place"} /\ Head(fsm.todo).do = "undock"
      <4>1. AtUndock
        BY <2>1, <3>2, WhereItIs
      <4>2. place = "out"
        BY <2>2, <3>2 DEF Service, Dock!Goal
      <4>3. After = TravelHeight => AtEnd'
        BY <1>1, <2>3, <4>1, <4>2 DEF AtUndock, UndockOn, AtEnd, InDock, Onto, Rests
      <4>4. After # TravelHeight => AtLower'
        BY <1>1, <2>3, <4>1, <4>2 DEF AtUndock, UndockOn, AtLower, InDock, Onto
      <4> QED BY <2>3, <3>2, <4>3, <4>4 DEF Outline, Handles
    <3>3. CASE fsm.job = "home" /\ Parks
      <4>1. fsm.todo = <<Step("homeDock")>>
        BY <2>1, <3>3 DEF Parks, Step
      <4>2. Tail(fsm.todo) = <<>>
        BY <4>1
      <4>3. Parks'
        BY <1>1, <2>3, <3>3, <4>2 DEF Parks, InDock
      <4> QED BY <2>3, <3>3, <4>3 DEF Outline
    <3>4. fsm.job \in {"pick", "place"} => Head(fsm.todo).do # "homeDock"
      BY <2>1, WhereItIs
    <3> QED BY <2>1, <3>1, <3>2, <3>3, <3>4, Working
  <2> QED BY <1>1, <1>3, <2>1, <2>4, AtRest, SucceedsKeeps
<1>4. CASE fsm.waits # "dock"
  <2>1. fsm' = fsm
    BY <1>4 DEF DockAnswers
  <2>2. Types' /\ Waits' /\ Served' /\ Messages'
    BY <1>1, <1>4, <2>1 DEF IInv, Types, Waits, Served, Messages, NotBegun, Begun, Arrived, OnlyStates
  <2>3. Handles => Handles'
    BY <1>1, <2>1 DEF Handles, AtFace, AtRaise, AtDock, AtMove, AtUndock, AtLower, AtEnd,
                      Idle, InDock, Rests, From, Onto, Before, After
  <2>4. Outline'
    BY <1>1, <2>1, <2>3 DEF IInv, Outline, Parks, InDock, Rests, Fits
  <2> QED BY <2>2, <2>4 DEF IInv
<1> QED BY <1>2, <1>3, <1>4

LEMMA CallTimesOutKeeps == IInv /\ CallTimesOut => IInv'
<1> SUFFICES ASSUME IInv, CallTimesOut PROVE IInv'
  OBVIOUS
<1>1. /\ fsm.waits = "dock" /\ Fails /\ UNCHANGED <<lift, wire, pallet, place>>
      /\ serving' = serving /\ ended' = ended /\ ended # "done"
  BY DEF CallTimesOut, Dock!GiveUp
<1>2. fsm.todo # <<>> /\ (ended # "none" => serving # "none")
      /\ serving \in Dock!Kinds \cup {"none"} /\ ended \in {"none", "failed"}
  BY <1>1 DEF IInv, Types, Waits, Served
<1> QED BY <1>1, <1>2, AtRest, FailsKeeps

LEMMA CallDockingKeeps ==
  ASSUME IInv, NEW step \in {"dock", "homeDock", "undock"}, CallDocking(step)
  PROVE  IInv'
<1>1. /\ fsm.todo # <<>> /\ Head(fsm.todo).do = step /\ fsm.waits = "none"
      /\ lift' = lift /\ wire' = wire /\ pallet' = pallet
  BY DEF CallDocking, Now
<1>2. ended # "done" /\ (ended # "none" => serving # "none")
  BY <1>1 DEF IInv, Served
<1>3. CASE Fails /\ UNCHANGED dockVars
  <2>1. UNCHANGED <<lift, wire, pallet, place>> /\ serving' = serving /\ ended' = ended
    BY <1>1, <1>3 DEF dockVars
  <2>2. serving \in Dock!Kinds \cup {"none"} /\ ended \in {"none", "failed"}
    BY <1>2 DEF IInv, Types
  <2> QED BY <1>1, <1>2, <1>3, <2>1, <2>2, AtRest, FailsKeeps
<1>4. CASE fsm' = [fsm EXCEPT !.waits = "dock"] /\ Dock!Start(Service(step))
  <2>1. /\ serving = "none" /\ serving' = Service(step) /\ ended' = "none" /\ place' = place
    BY <1>4 DEF Dock!Start
  <2>2. fsm \in Fsm
    BY DEF IInv, Types
  <2>3. /\ fsm' \in Fsm /\ fsm'.job = fsm.job /\ fsm'.level = fsm.level
        /\ fsm'.todo = fsm.todo /\ fsm'.waits = "dock"
    BY <1>4, <2>2 DEF Fsm
  <2>4. Service(step) \in Dock!Kinds
    BY DEF Service, Dock!Kinds
  <2>5. Types'
    BY <1>1, <2>1, <2>3, <2>4 DEF IInv, Types
  <2>6. Waits' /\ Served'
    BY <1>1, <2>1, <2>3 DEF Waits, Served
  <2>7. Messages'
    BY <1>1, <2>3, AtRest DEF Messages, OnlyStates
  <2>8. Outline'
    <3>1. CASE fsm.job \in {"pick", "place"}
      <4>1. AtDock \/ AtUndock
        BY <1>1, <3>1, WhereItIs
      <4>2. AtDock => AtDock'
        BY <1>1, <2>1, <2>3 DEF AtDock, Idle, InDock, From, Before, After, Rests
      <4>3. AtUndock => AtUndock'
        BY <1>1, <2>1, <2>3 DEF AtUndock, Idle, InDock, Onto, After, Rests
      <4> QED BY <2>3, <3>1, <4>1, <4>2, <4>3 DEF Outline, Handles
    <3>2. CASE fsm.job = "home" /\ Parks
      BY <1>1, <2>1, <2>3, <3>2 DEF Outline, Parks, InDock
    <3> QED BY <1>1, <3>1, <3>2, Working
  <2> QED BY <2>5, <2>6, <2>7, <2>8 DEF IInv
<1> QED BY <1>3, <1>4 DEF CallDocking

-----------------------------------------------------------------------------
(* The ends of the work.                                                   *)

LEMMA FaceDockKeeps == IInv /\ FaceDock => IInv'
<1> SUFFICES ASSUME IInv, FaceDock PROVE IInv'
  OBVIOUS
<1>1. /\ fsm.todo # <<>> /\ Head(fsm.todo).do = "face" /\ fsm.waits = "none"
      /\ UNCHANGED <<lift, wire, pallet>> /\ UNCHANGED <<lift, wire, pallet, place>>
      /\ lift' = lift /\ pallet' = pallet
      /\ serving' = serving /\ ended' = ended /\ place' = place
  BY DEF FaceDock, Now, dockVars
<1>2. /\ serving \in Dock!Kinds \cup {"none"} /\ ended \in {"none", "failed"}
      /\ (ended # "none" => serving # "none") /\ place \in Dock!Places
  BY <1>1 DEF IInv, Types, Served
<1>3. wire.command = NoHeight /\ lift.cur = lift.tgt /\ OnlyStates(lift.state)
  BY <1>1, AtRest
<1>4. CASE Fails
  BY <1>1, <1>2, <1>3, <1>4, FailsKeeps
<1>5. CASE Succeeds
  <2>1. /\ fsm'.job = fsm.job /\ fsm'.level = fsm.level
        /\ fsm'.todo = Tail(fsm.todo) /\ fsm'.waits = "none"
    BY <1>1, <1>5, SucceedsFields DEF IInv
  <2>2. Outline'
    <3>1. CASE fsm.job \in {"pick", "place"}
      <4>1. AtFace
        BY <1>1, <3>1, WhereItIs
      <4>2. Before = TravelHeight => AtDock'
        BY <1>1, <2>1, <4>1 DEF AtFace, FaceOn, AtDock, Idle, InDock, From, Before, After, Rests
      <4>3. Before # TravelHeight => AtRaise'
        BY <1>1, <2>1, <4>1 DEF AtFace, FaceOn, AtRaise, InDock, From, Before, After
      <4> QED BY <2>1, <3>1, <4>2, <4>3 DEF Outline, Handles
    <3>2. CASE fsm.job = "home" /\ Parks
      <4>1. fsm.todo = <<Step("face"), Step("homeDock")>>
        BY <1>1, <3>2 DEF Parks, Step
      <4>2. Tail(fsm.todo) = <<Step("homeDock")>>
        BY <4>1
      <4> QED BY <1>1, <2>1, <3>2, <4>2 DEF Outline, Parks, InDock
    <3> QED BY <1>1, <3>1, <3>2, Working
  <2> QED BY <1>1, <1>2, <1>3, <1>5, <2>2, SucceedsKeeps
<1> QED BY <1>4, <1>5 DEF FaceDock

LEMMA BeginKeeps ==
  ASSUME IInv, NEW job \in {"pick", "place", "home"}, NEW level \in Level, Begin(job, level)
  PROVE  IInv'
<1>1. /\ fsm.job = "none" /\ serving' = serving /\ ended' = ended /\ place' = "out"
      /\ lift' = lift /\ wire' = wire
      /\ fsm' = [fsm EXCEPT !.job = job, !.level = level, !.todo = Steps(job, level)]
      /\ pallet' = (IF job = "pick" THEN "dock" ELSE pallet)
      /\ (job = "place" => pallet = "fork") /\ (job # "place" => pallet # "fork")
  BY DEF Begin
<1>2. fsm \in Fsm /\ fsm.todo = <<>> /\ (pallet = "fork" => Rests(TravelHeight))
  BY <1>1 DEF IInv, Types, Outline
<1>3. fsm.waits = "none"
  BY <1>2 DEF IInv, Types, Waits, Fsm
<1>4. job = "home" => Steps(job, level) = <<Step("face"), Step("homeDock")>>
                      /\ Steps(job, level) \in Seq(StepType)
  <2>1. Step("face") \in StepType /\ Step("homeDock") \in StepType
    BY StepTypes
  <2>2. <<Step("face"), Step("homeDock")>> \in Seq(StepType)
    BY <2>1
  <2> QED BY <2>2 DEF Steps
<1>5. Steps(job, level) \in Seq(StepType)
  BY <1>4, WorkFaces
<1>6. /\ fsm' \in Fsm /\ fsm'.job = job /\ fsm'.level = level
      /\ fsm'.todo = Steps(job, level) /\ fsm'.waits = "none"
  <2>1. ASSUME NEW f \in Fsm, NEW j \in {"pick", "place", "home"}, NEW l \in Level,
               NEW t \in Seq(StepType)
        PROVE  [f EXCEPT !.job = j, !.level = l, !.todo = t] \in Fsm
    <3>1. j \in {"none", "pick", "place", "home", "error"}
      BY <2>1
    <3> QED BY <2>1, <3>1 DEF Fsm
  <2>2. fsm' \in Fsm
    BY <1>1, <1>2, <1>5, <2>1, Zenon
  <2>3. fsm'.job = job /\ fsm'.level = level /\ fsm'.todo = Steps(job, level) /\ fsm'.waits = "none"
    BY <1>1, <1>2, <1>3 DEF Fsm
  <2> QED BY <2>2, <2>3
<1>7. Types'
  BY <1>1, <1>6 DEF IInv, Types, Dock!Places
<1>8. Waits' /\ Served'
  BY <1>1, <1>3, <1>6 DEF IInv, Waits, Served
<1>9. Messages'
  BY <1>1, <1>3, <1>6 DEF IInv, Messages, OnlyStates
<1>10. Outline'
  <2>1. CASE job \in {"pick", "place"}
    <3>1. FaceOn(Steps(job, level), BeforeIn(job, level), AfterIn(job, level))
      BY <2>1, WorkFaces
    <3>2. level \in {1, 2}
      BY WorkAssumption
    <3>3. Before' = TravelHeight => job = "place"
      BY <1>6, <2>1, <3>2 DEF Before, BeforeIn, TravelHeight, Insert
    <3>4. Before' = TravelHeight => Rests(TravelHeight)'
      BY <1>1, <1>2, <3>3 DEF Rests, TravelHeight
    <3>5. Before' = BeforeIn(job, level) /\ After' = AfterIn(job, level)
      BY <1>6 DEF Before, After
    <3>6. Idle' /\ ~InDock' /\ pallet' = From'
      BY <1>1, <1>6, <2>1 DEF Idle, InDock, From
    <3>7. AtFace'
      BY <1>6, <3>1, <3>4, <3>5, <3>6 DEF AtFace
    <3> QED BY <1>6, <2>1, <3>7 DEF Outline, Handles
  <2>2. CASE job = "home"
    BY <1>1, <1>4, <1>6, <2>2 DEF Outline, Parks, InDock
  <2> QED BY <2>1, <2>2
<1> QED BY <1>7, <1>8, <1>9, <1>10 DEF IInv

\* The work is put down, and everything else is as it was or as the operator left it.
LEMMA PutDown ==
  ASSUME IInv, fsm' = [fsm EXCEPT !.job = "none"], fsm.todo = <<>>,
         UNCHANGED <<serving, ended, lift, wire>>,
         place' \in {"out", place}, pallet' \in {"none", pallet}, Outline'
  PROVE  IInv'
<1>1. fsm \in Fsm /\ fsm.waits = "none"
  BY DEF IInv, Types, Waits, Fsm
<1>2. fsm' \in Fsm /\ fsm'.todo = <<>> /\ fsm'.waits = "none"
  BY <1>1 DEF Fsm
<1>3. Types'
  BY <1>2 DEF IInv, Types, Dock!Places
<1>4. Waits' /\ Served' /\ Messages'
  BY <1>1, <1>2 DEF IInv, Waits, Served, Messages, OnlyStates
<1> QED BY <1>3, <1>4 DEF IInv

LEMMA WorkDoneKeeps == IInv /\ WorkDone => IInv'
<1> SUFFICES ASSUME IInv, WorkDone PROVE IInv'
  OBVIOUS
<1>1. /\ fsm' = [fsm EXCEPT !.job = "none"] /\ fsm.todo = <<>>
      /\ fsm.job \in {"pick", "place", "home"}
      /\ UNCHANGED <<serving, ended, lift, wire>> /\ place' = place /\ pallet' = pallet
      /\ lift' = lift
  BY DEF WorkDone, dockVars
<1>2. fsm'.job = "none" /\ fsm'.todo = <<>>
  BY <1>1 DEF IInv, Types, Fsm
<1>3. ~InDock /\ (pallet = "fork" => Rests(TravelHeight))
  BY <1>1, WhereItIs DEF AtEnd, IInv, Outline, Parks
<1>4. Outline'
  BY <1>1, <1>2, <1>3 DEF Outline, InDock, Rests, TravelHeight
<1> QED BY <1>1, <1>4, PutDown

LEMMA ResetKeeps == IInv /\ Reset => IInv'
<1> SUFFICES ASSUME IInv, Reset PROVE IInv'
  OBVIOUS
<1>1. /\ fsm' = [fsm EXCEPT !.job = "none"] /\ fsm.job = "error"
      /\ UNCHANGED <<serving, ended, lift, wire>> /\ place' = "out" /\ pallet' = "none"
  BY DEF Reset
<1>2. fsm.todo = <<>>
  BY <1>1 DEF IInv, Outline
<1>3. fsm'.job = "none" /\ fsm'.todo = <<>>
  BY <1>1, <1>2 DEF IInv, Types, Fsm
<1>4. Outline'
  BY <1>1, <1>3 DEF Outline, InDock
<1> QED BY <1>1, <1>2, <1>4, PutDown

LEMMA StuttersKeep == IInv /\ UNCHANGED vars => IInv'
  BY DEF vars, dockVars, IInv, Types, Waits, Served, Messages, NotBegun, Begun, Arrived, OnlyStates,
         Outline, Handles, AtFace, AtRaise, AtDock, AtMove, AtUndock, AtLower, AtEnd, Parks, Fits,
         Idle, InDock, Rests, From, Onto, Before, After

LEMMA Inductive == IInv /\ [Next]_vars => IInv'
<1> SUFFICES ASSUME IInv, [Next]_vars PROVE IInv'
  OBVIOUS
<1>1. CASE UNCHANGED vars
  BY <1>1, StuttersKeep
<1>2. CASE \E job \in {"pick", "place", "home"}, level \in Level : Begin(job, level)
  BY <1>2, BeginKeeps
<1>3. CASE WorkDone \/ Reset \/ FaceDock
  BY <1>3, WorkDoneKeeps, ResetKeeps, FaceDockKeeps
<1>4. CASE \E step \in {"dock", "homeDock", "undock"} : CallDocking(step)
  BY <1>4, CallDockingKeeps
<1>5. CASE DockStep \/ DockAnswers \/ CallTimesOut
  BY <1>5, DockStepKeeps, DockAnswersKeeps, CallTimesOutKeeps
<1>6. CASE ForkCommand \/ ForkReached \/ ForkTimesOut
  BY <1>6, ForkCommandKeeps, ForkReachedKeeps, ForkTimesOutKeeps
<1>7. CASE CmdCallback \/ RunMove \/ OnForkState \/ Heartbeat \/ CommandLost
  BY <1>7, CmdCallbackKeeps, RunMoveKeeps, OnForkStateKeeps, HeartbeatKeeps, CommandLostKeeps
<1> QED BY <1>1, <1>2, <1>3, <1>4, <1>5, <1>6, <1>7 DEF Next

-----------------------------------------------------------------------------
(* The theorems.                                                           *)

\* The outline holds throughout.
THEOREM Invariant == Spec => []IInv
<1> QED BY Initial, Inductive, PTL DEF Spec

\* Every variable keeps its type, and the robot asks to leave a dock only in it
\* and with the docking services free, which is what DockService assumes.
THEOREM TypeCorrect == Spec => []TypeOK
<1>1. IInv => TypeOK
  <2> SUFFICES ASSUME IInv PROVE TypeOK
    OBVIOUS
  <2>1. Now("undock") => place = "in" /\ serving = "none"
    BY WhereItIs, Working, HomeSteps DEF Now, AtUndock, Idle, InDock
  <2> QED BY <2>1 DEF IInv, Types, Waits, Fsm, Lift, Wire, LiftState, TypeOK
<1> QED BY <1>1, Invariant, PTL

\* An arrival the mission takes for its command is that of its command (_fork):
\* no state of an earlier one is, whatever is lost and however many are on their way.
THEOREM ArrivalsAgree == Spec => []LiftAgrees
<1>1. IInv => LiftAgrees
  BY DoneIsArrived DEF LiftAgrees, Arrived
<1> QED BY <1>1, Invariant, PTL

\* In a dock the fork is at a height of its level, under a pallet that stands and off
\* the floor with one it carries, whichever step failed before (fork.py, _work).
THEOREM ForkFitsDock == Spec => []ForkFits
<1>1. IInv => ForkFits
  BY FitsInDock DEF ForkFits, Fits
<1> QED BY <1>1, Invariant, PTL

-----------------------------------------------------------------------------
(* Work implements Handling.                                               *)

Handled == [Handle!Next]_(Handle!vars)

\* Between two pieces of work, and on the way home, nothing is to be seen.
LEMMA Unnoticed ==
  ASSUME IInv, IInv', fsm.job \in {"none", "home"}, fsm'.job \in {"none", "home"},
         lift' = lift, pallet' = pallet
  PROVE  Handled
<1>1. ~InDock /\ ~InDock'
  BY DEF IInv, Outline, Parks
<1>2. Handle!vars' = Handle!vars
  BY <1>1 DEF Handle!vars
<1> QED BY <1>2 DEF Handled

\* During work everything but the work itself and the pallet may change.
LEMMA Underway ==
  ASSUME IInv, fsm.job \in {"pick", "place", "error"}, fsm'.job = fsm.job, pallet' = pallet
  PROVE  Handled
<1>1. (~InDock /\ lift.cur = TravelHeight /\ lift.tgt = TravelHeight)' \in BOOLEAN
  BY Zenon
<1>2. Handle!Handle
  BY <1>1 DEF Handle!Handle
<1> QED BY <1>2 DEF Handle!Next, Handled

\* A step of the work that only the docking services, the lift or nav2 see.
LEMMA StepOn ==
  ASSUME IInv, IInv', fsm'.job = fsm.job, pallet' = pallet,
         lift' = lift \/ fsm.waits = "fork"
  PROVE  Handled
<1>1. CASE fsm.job \in {"pick", "place", "error"}
  BY <1>1, Underway
<1>2. CASE fsm.job \in {"none", "home"}
  <2>1. lift' = lift
    BY <1>2, Forking
  <2> QED BY <1>2, <2>1, Unnoticed
<1> QED BY <1>1, <1>2 DEF IInv, Types, Fsm

\* Work that fails leaves the pallet where it is.
LEMMA FailureShows ==
  ASSUME IInv, IInv', fsm.todo # <<>>, Fails, lift' = lift, pallet' = pallet, place' = place
  PROVE  Handled
<1>1. fsm'.job = IF fsm.job = "home" THEN "none" ELSE "error"
  BY FailsFields DEF IInv
<1>2. CASE fsm.job = "home"
  BY <1>1, <1>2, Unnoticed
<1>3. CASE fsm.job \in {"pick", "place"}
  <2>1. Handle!Fail
    BY <1>1, <1>3 DEF Handle!Fail, InDock
  <2> QED BY <2>1 DEF Handle!Next, Handled
<1> QED BY <1>2, <1>3, Working

LEMMA BeginShows ==
  ASSUME IInv, IInv', NEW job \in {"pick", "place", "home"}, NEW level \in Level, Begin(job, level)
  PROVE  Handled
<1>1. /\ fsm.job = "none" /\ fsm'.job = job /\ lift' = lift /\ place' = "out"
      /\ pallet' = IF job = "pick" THEN "dock" ELSE pallet
      /\ IF job = "place" THEN pallet = "fork" ELSE pallet # "fork"
  BY DEF Begin, IInv, Types, Fsm
<1>2. CASE job = "home"
  BY <1>1, <1>2, Unnoticed
<1>3. CASE job \in {"pick", "place"}
  <2>1. ~InDock /\ ~InDock'
    BY <1>1 DEF IInv, Outline, InDock
  <2>2. pallet' = Handle!Start(job)
    BY <1>1, <1>3 DEF Handle!Start
  <2>3. Handle!Begin(job)
    BY <1>1, <1>3, <2>1, <2>2 DEF Handle!Begin
  <2> QED BY <1>3, <2>3 DEF Handle!Next, Handled
<1> QED BY <1>2, <1>3

LEMMA WorkDoneShows == ASSUME IInv, IInv', WorkDone PROVE Handled
<1>1. /\ fsm.job \in {"pick", "place", "home"} /\ fsm.todo = <<>> /\ fsm'.job = "none"
      /\ lift' = lift /\ place' = place /\ pallet' = pallet
  BY DEF WorkDone, dockVars, IInv, Types, Fsm
<1>2. CASE fsm.job = "home"
  BY <1>1, <1>2, Unnoticed
<1>3. CASE fsm.job \in {"pick", "place"}
  <2>1. ~InDock /\ Rests(TravelHeight) /\ pallet = Onto
    BY <1>1, <1>3, WhereItIs DEF AtEnd
  <2>2. pallet = Handle!Goal(fsm.job)
    BY <1>3, <2>1 DEF Onto, Handle!Goal
  <2>3. Handle!End
    BY <1>1, <1>3, <2>1, <2>2 DEF Handle!End, InDock, Rests
  <2> QED BY <2>3 DEF Handle!Next, Handled
<1> QED BY <1>1, <1>2, <1>3

LEMMA ResetShows == ASSUME IInv, Reset PROVE Handled
<1>1. (~InDock /\ lift.cur = TravelHeight /\ lift.tgt = TravelHeight)' \in BOOLEAN
  BY Zenon
<1>2. Handle!Reset
  BY <1>1 DEF Reset, Handle!Reset, IInv, Types, Fsm
<1> QED BY <1>2 DEF Handle!Next, Handled

\* The pallet moves with the fork, in the dock, once.
LEMMA RunMoveShows == ASSUME IInv, IInv', RunMove PROVE Handled
<1>1. /\ lift.cur # lift.tgt /\ fsm' = fsm /\ place' = place
      /\ pallet' = Carried(lift.cur, lift.tgt)
  BY DEF RunMove, dockVars
<1>2. fsm.waits = "fork" /\ fsm.job \in {"pick", "place"} /\ (AtRaise \/ AtMove \/ AtLower)
  BY <1>1, Forking DEF IInv, Messages
<1>3. CASE pallet' = pallet
  BY <1>1, <1>2, <1>3, StepOn
<1>4. CASE pallet' # pallet
  <2>1. InDock /\ pallet \in {"dock", "fork"} /\ pallet' \in {"dock", "fork"}
    BY <1>1, <1>4 DEF Carried
  <2>2. AtMove
    BY <1>2, <2>1 DEF AtRaise, AtLower
  <2>3. pallet = From
    BY <1>1, <2>2 DEF AtMove, Rests
  <2>4. pallet = Handle!Start(fsm.job) /\ pallet' = Handle!Goal(fsm.job)
    BY <1>2, <1>4, <2>1, <2>3 DEF From, Handle!Start, Handle!Goal
  <2>5. Handle!Transfer
    BY <1>1, <1>2, <2>1, <2>4 DEF Handle!Transfer, InDock
  <2> QED BY <2>5 DEF Handle!Next, Handled
<1> QED BY <1>3, <1>4

LEMMA SucceedsShows ==
  ASSUME IInv, IInv', fsm.todo # <<>>, Succeeds, lift' = lift, pallet' = pallet
  PROVE  Handled
  BY SucceedsFields, StepOn DEF IInv

LEMMA StepsShow == ASSUME IInv, IInv', [Next]_vars PROVE Handled
<1>1. CASE UNCHANGED vars
  BY <1>1, StepOn DEF vars
<1>2. CASE \E job \in {"pick", "place", "home"}, level \in Level : Begin(job, level)
  BY <1>2, BeginShows
<1>3. CASE WorkDone \/ Reset
  BY <1>3, WorkDoneShows, ResetShows
<1>4. CASE FaceDock
  <2>1. fsm.todo # <<>> /\ lift' = lift /\ pallet' = pallet /\ place' = place /\ (Succeeds \/ Fails)
    BY <1>4 DEF FaceDock, Now, dockVars
  <2> QED BY <2>1, SucceedsShows, FailureShows
<1>5. ASSUME NEW step \in {"dock", "homeDock", "undock"}, CallDocking(step) PROVE Handled
  <2>1. fsm.todo # <<>> /\ lift' = lift /\ pallet' = pallet
    BY <1>5 DEF CallDocking, Now
  <2>2. CASE Fails /\ UNCHANGED dockVars
    BY <2>1, <2>2, FailureShows DEF dockVars
  <2>3. CASE fsm' = [fsm EXCEPT !.waits = "dock"]
    <3>1. fsm'.job = fsm.job
      BY <2>3 DEF IInv, Types, Fsm
    <3> QED BY <2>1, <3>1, StepOn
  <2> QED BY <1>5, <2>2, <2>3 DEF CallDocking
<1>6. CASE DockStep
  BY <1>6, StepOn DEF DockStep
<1>7. CASE DockAnswers
  <2>1. lift' = lift /\ pallet' = pallet /\ place' = place
    BY <1>7 DEF DockAnswers, Dock!Answer
  <2>2. \/ fsm.todo # <<>> /\ (Succeeds \/ Fails)
        \/ fsm' = fsm
    BY <1>7 DEF DockAnswers, IInv, Waits
  <2> QED BY <2>1, <2>2, SucceedsShows, FailureShows, StepOn
<1>8. CASE CallTimesOut
  <2>1. fsm.todo # <<>> /\ Fails /\ lift' = lift /\ pallet' = pallet /\ place' = place
    BY <1>8 DEF CallTimesOut, Dock!GiveUp, IInv, Waits
  <2> QED BY <2>1, FailureShows
<1>9. CASE ForkCommand
  <2>1. fsm'.job = fsm.job /\ lift' = lift /\ pallet' = pallet
    BY <1>9 DEF ForkCommand, IInv, Types, Fsm
  <2> QED BY <2>1, StepOn
<1>10. CASE ForkReached
  <2>1. fsm.todo # <<>> /\ Succeeds /\ lift' = lift /\ pallet' = pallet
    BY <1>10 DEF ForkReached, IInv, Waits
  <2> QED BY <2>1, SucceedsShows
<1>11. CASE ForkTimesOut
  <2>1. fsm.todo # <<>> /\ Fails /\ lift' = lift /\ pallet' = pallet /\ place' = place
    BY <1>11 DEF ForkTimesOut, dockVars, IInv, Waits
  <2> QED BY <2>1, FailureShows
<1>12. CASE CmdCallback
  <2>1. fsm' = fsm /\ pallet' = pallet /\ fsm.waits = "fork"
    BY <1>12 DEF CmdCallback, IInv, Messages
  <2> QED BY <2>1, StepOn
<1>13. CASE RunMove
  BY <1>13, RunMoveShows
<1>14. CASE OnForkState
  <2>1. fsm'.job = fsm.job /\ lift' = lift /\ pallet' = pallet
    BY <1>14 DEF OnForkState, IInv, Types, Fsm
  <2> QED BY <2>1, StepOn
<1>15. CASE Heartbeat \/ CommandLost
  <2>1. fsm' = fsm /\ lift' = lift /\ pallet' = pallet
    BY <1>15 DEF Heartbeat, CommandLost
  <2> QED BY <2>1, StepOn
<1> QED BY <1>1, <1>2, <1>3, <1>4, <1>5, <1>6, <1>7, <1>8, <1>9, <1>10, <1>11, <1>12, <1>13,
           <1>14, <1>15 DEF Next

\* Work that ends well has moved the pallet and leaves with the fork at the height
\* for driving; work that fails leaves the pallet and stops the mission.
THEOREM Refinement == Spec => IsHandling
<1>1. Init => Handle!Init
  BY DEF Init, Dock!Init, Handle!Init, InDock, TravelHeight
<1>2. IInv /\ IInv' /\ [Next]_vars => [Handle!Next]_(Handle!vars)
  BY StepsShow DEF Handled
<1> QED BY <1>1, <1>2, Invariant, PTL DEF Spec, IsHandling, Handle!Spec

=============================================================================
