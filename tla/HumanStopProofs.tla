---------------------------- MODULE HumanStopProofs ----------------------------
(***************************************************************************)
(* Proofs about the person stop, for every patience of the detector, every *)
(* number of people overlooked and messages lost in a row, and every limit *)
(* on the recoveries.                                                      *)
(*                                                                         *)
(* The invariant follows the stop from the camera to the wheels: a person  *)
(* who has been in view for longer than anybody is overlooked is held for, *)
(* a hold that is older than messages are lost has been heard of, and what *)
(* was heard keeps the gate closed.                                        *)
(***************************************************************************)
EXTENDS HumanStop, TLAPS

-----------------------------------------------------------------------------
(* The invariant.                                                          *)

\* The detector: whoever is in view for longer than he has been overlooked now
\* was seen since, and that was not long ago.
Held == inView > misses => hold /\ lastSeen <= misses

\* The messages: a hold that lasts longer than they are lost has been delivered.
Told == inView > MaxMiss + losses => Latest

IInv == TypeOK /\ Held /\ Told /\ HaltedForPerson

-----------------------------------------------------------------------------
(* Helpers.                                                                *)

LEMMA Numbers ==
  /\ AssertFrames = 1 /\ Release \in Nat /\ Release > 0 /\ MaxMiss \in Nat /\ MaxLoss \in Nat
  /\ Retries \in Nat /\ MaxRestarts \in Nat /\ MaxMiss < Release
  /\ InViewMax = MaxMiss + 1 + MaxLoss /\ InViewMax \in Nat
  /\ Never = Release + 1 /\ Never \in Nat /\ DarkMax = 2
<1>1. AssertFrames = 1 /\ Release \in Nat \ {0} /\ MaxMiss \in Nat /\ MaxLoss \in Nat
      /\ Retries \in Nat \ {0} /\ MaxRestarts \in Nat /\ MaxMiss < Release
  BY HumanAssumption
<1> QED BY <1>1 DEF InViewMax, Never, DarkMax

LEMMA CappedBelow ==
  ASSUME NEW n \in Nat, NEW max \in Nat, n <= max + 1
  PROVE  Capped(n, max) \in 0..max /\ (n <= max => Capped(n, max) = n)
                                   /\ (n > max => Capped(n, max) = max)
  BY DEF Capped

\* For the provers, which do not calculate with primed variables.
LEMMA Thresholds ==
  \A m \in 0..MaxMiss, l \in 0..MaxLoss :
    /\ ~(0 > m) /\ ~(0 > MaxMiss + l)
    /\ \A n \in 0..InViewMax : n > MaxMiss + l => n > m
  BY Numbers

LEMMA Initial == Init => IInv
<1> SUFFICES ASSUME Init PROVE IInv
  OBVIOUS
<1>1. TypeOK
  <2>1. /\ person \in BOOLEAN /\ solid = FALSE /\ live = TRUE /\ hold = FALSE /\ gate = FALSE
        /\ frame = None /\ leg = None
    BY Zenon DEF Init
  <2>2. solid \in BOOLEAN /\ live \in BOOLEAN /\ hold \in BOOLEAN /\ gate \in BOOLEAN
    BY <2>1, Zenon
  <2>3. /\ lastSeen \in 0..Never /\ recoveries \in 0..Retries /\ misses \in 0..MaxMiss
        /\ losses \in 0..MaxLoss /\ restarts \in 0..MaxRestarts /\ inView \in 0..InViewMax
        /\ dark \in 0..DarkMax /\ queue \in {None, "stop", "go"} /\ tree \in Trees
        /\ due \subseteq {"frame", "bt"}
    BY Numbers DEF Init, Trees
  <2> QED BY <2>1, <2>2, <2>3 DEF TypeOK
<1>2. inView = 0 /\ misses = 0 /\ losses = 0 /\ due = {"frame", "bt"}
  BY DEF Init
<1> QED BY <1>1, <1>2, Numbers DEF IInv, Held, Told, HaltedForPerson

-----------------------------------------------------------------------------
(* The detector.                                                           *)

\* A tick that publishes what the detector thinks, with somebody in the frame or not.
Looks ==
  /\ Ticked /\ PublishHold(hold')
  /\ hold' \in BOOLEAN /\ lastSeen' \in 0..Never /\ misses' \in 0..MaxMiss
  /\ inView' > 0 => \/ hold' /\ lastSeen' = 0 /\ misses' = 0
                    \/ /\ misses' = misses + 1 /\ lastSeen' <= lastSeen + 1
                       /\ hold /\ lastSeen' # Release /\ lastSeen # Never => hold'

\* What is delivered or lost.
LEMMA Published ==
  ASSUME TypeOK, NEW value \in BOOLEAN, PublishHold(value)
  PROVE  /\ queue' \in {None, "stop", "go"} /\ losses' \in 0..MaxLoss
         /\ \/ queue' = (IF value THEN "stop" ELSE "go")
            \/ losses' = losses + 1 /\ queue' = queue
  BY Numbers DEF PublishHold, Delivered, Lost, TypeOK

LEMMA TickTypes ==
  ASSUME TypeOK, Ticked
  PROVE  /\ person' \in BOOLEAN /\ solid' \in BOOLEAN /\ live' \in BOOLEAN
         /\ frame' \in {None, "empty", "person"} /\ gate' \in BOOLEAN
         /\ tree' \in Trees /\ recoveries' \in 0..Retries /\ leg' \in Legs \cup {None}
         /\ restarts' \in 0..MaxRestarts /\ due' = {"frame", "bt"}
         /\ inView' \in 0..InViewMax /\ dark' \in 0..DarkMax
         /\ gate' = gate
         /\ inView' # 0 => inView' = inView + 1 \/ (inView = InViewMax /\ inView' = InViewMax)
<1>1. /\ person' = person /\ solid' = solid /\ live' = live /\ frame' = frame
      /\ gate' = gate /\ tree' = tree /\ recoveries' = recoveries /\ leg' = leg
      /\ restarts' = restarts /\ due' = {"frame", "bt"}
  BY DEF Ticked, world, nav2
<1>2. inView' \in {0, Capped(inView + 1, InViewMax)} /\ dark' \in {0, Capped(dark + 1, DarkMax)}
  BY DEF Ticked
<1>3. inView \in 0..InViewMax /\ dark \in 0..DarkMax
  BY DEF TypeOK
<1>4. inView' \in 0..InViewMax /\ dark' \in 0..DarkMax
  BY <1>2, <1>3, Numbers, CappedBelow
<1>5. inView' # 0 => inView' = inView + 1 \/ (inView = InViewMax /\ inView' = InViewMax)
  BY <1>2, <1>3, Numbers, CappedBelow
<1> QED BY <1>1, <1>4, <1>5 DEF TypeOK

LEMMA LooksKeeps == IInv /\ Looks => IInv'
<1> SUFFICES ASSUME IInv, Looks PROVE IInv'
  OBVIOUS
<1>1. /\ hold' \in BOOLEAN /\ lastSeen' \in 0..Never /\ misses' \in 0..MaxMiss
      /\ queue' \in {None, "stop", "go"} /\ losses' \in 0..MaxLoss
      /\ \/ queue' = (IF hold' THEN "stop" ELSE "go")
         \/ losses' = losses + 1 /\ queue' = queue
  BY Published DEF Looks, IInv
<1>2. /\ due' = {"frame", "bt"} /\ gate' = gate /\ inView' \in 0..InViewMax
      /\ inView' # 0 => inView' = inView + 1 \/ (inView = InViewMax /\ inView' = InViewMax)
  BY TickTypes DEF Looks, IInv
<1>3. TypeOK'
  BY <1>1, TickTypes DEF Looks, IInv, TypeOK
<1>4. /\ inView \in 0..InViewMax /\ misses \in 0..MaxMiss /\ losses \in 0..MaxLoss
      /\ lastSeen \in 0..Never
  BY DEF IInv, TypeOK
<1>5. Held'
  <2> SUFFICES ASSUME inView' > misses' PROVE hold' /\ lastSeen' <= misses'
    BY DEF Held
  <2>1. inView' > 0
    BY <1>1, <1>2, Numbers
  <2>2. CASE misses' = misses + 1 /\ lastSeen' <= lastSeen + 1
              /\ (hold /\ lastSeen' # Release /\ lastSeen # Never => hold')
    <3>1. inView > misses
      BY <1>1, <1>2, <1>4, <2>1, <2>2, Numbers
    <3>2. hold /\ lastSeen <= misses
      BY <3>1 DEF IInv, Held
    <3> QED BY <1>1, <1>4, <2>2, <3>2, Numbers
  <2> QED BY <2>1, <2>2 DEF Looks
<1>6. Told'
  <2> SUFFICES ASSUME inView' > MaxMiss + losses' PROVE Latest'
    BY DEF Told
  <2>1. CASE queue' = (IF hold' THEN "stop" ELSE "go")
    <3>1. inView' > misses'
      <4>1. inView' \in 0..InViewMax /\ misses' \in 0..MaxMiss /\ losses' \in 0..MaxLoss
        BY <1>1, <1>2
      <4> QED BY <4>1, Thresholds, Zenon
    <3>2. hold'
      BY <1>5, <3>1 DEF Held
    <3> QED BY <2>1, <3>2 DEF Latest, None
  <2>2. CASE losses' = losses + 1 /\ queue' = queue
    <3>1. inView > MaxMiss + losses
      BY <1>1, <1>2, <1>4, <2>2, Numbers
    <3> QED BY <1>2, <2>2, <3>1 DEF IInv, Told, Latest
  <2> QED BY <1>1, <2>1, <2>2
<1>7. HaltedForPerson'
  BY <1>2 DEF HaltedForPerson
<1> QED BY <1>3, <1>5, <1>6, <1>7 DEF IInv

LEMMA TickNoFrameKeeps == IInv /\ TickNoFrame => IInv'
<1> SUFFICES ASSUME IInv, TickNoFrame PROVE IInv'
  OBVIOUS
<1>1. /\ frame = None /\ hold' = hold /\ lastSeen' = lastSeen /\ misses' = misses
      /\ Ticked /\ PublishHold(TRUE)
  BY DEF TickNoFrame, detector
<1>2. inView' = 0
  BY <1>1 DEF Ticked, None
<1>3. queue' \in {None, "stop", "go"} /\ losses' \in 0..MaxLoss
  BY <1>1, Published DEF IInv
<1>4. TypeOK'
  BY <1>1, <1>3, TickTypes DEF IInv, TypeOK
<1>5. misses' \in 0..MaxMiss /\ due' = {"frame", "bt"}
  BY <1>1, <1>4, TickTypes DEF IInv, TypeOK
<1>6. ~(inView' > misses') /\ ~(inView' > MaxMiss + losses')
  <2>1. misses' \in 0..MaxMiss /\ losses' \in 0..MaxLoss
    BY <1>3, <1>5
  <2> QED BY <1>2, <2>1, Thresholds, Zenon
<1>7. HaltedForPerson'
  BY <1>5 DEF HaltedForPerson
<1> QED BY <1>4, <1>6, <1>7 DEF IInv, Held, Told

LEMMA TickPresentKeeps == IInv /\ TickPresent => IInv'
<1> SUFFICES ASSUME IInv, TickPresent PROVE Looks
  BY LooksKeeps
<1> QED BY Numbers DEF TickPresent, Looks

LEMMA TickAbsentKeeps == IInv /\ TickAbsent => IInv'
<1> SUFFICES ASSUME IInv, TickAbsent PROVE Looks
  BY LooksKeeps
<1>1. /\ Ticked /\ PublishHold(hold') /\ (hold' <=> hold /\ lastSeen' # Release)
      /\ lastSeen' = (IF lastSeen = Never THEN Never ELSE Capped(lastSeen + 1, Release))
  BY DEF TickAbsent
<1>2. hold' \in BOOLEAN
  <2>1. hold' = (hold /\ lastSeen' # Release)
    BY DEF TickAbsent
  <2> QED BY <2>1, Zenon
<1>3. lastSeen \in 0..Never /\ misses \in 0..MaxMiss
  BY DEF IInv, TypeOK
<1>4. lastSeen' \in 0..Never /\ (lastSeen # Never => lastSeen' <= lastSeen + 1)
  BY <1>1, <1>3, Numbers, CappedBelow
<1>5. lastSeen = Never => lastSeen' = lastSeen
  BY <1>1
<1>6. \/ frame = "empty" /\ misses' = 0
      \/ frame = "person" /\ misses' = misses + 1 /\ misses' \in 0..MaxMiss
  BY <1>3, Numbers DEF TickAbsent
<1>7. frame = "empty" => inView' = 0
  BY <1>1 DEF Ticked
<1>8. lastSeen' <= lastSeen + 1
  BY <1>3, <1>4, <1>5, Numbers
<1> QED BY <1>1, <1>2, <1>4, <1>6, <1>7, <1>8, Numbers DEF Looks

LEMMA RestartKeeps == IInv /\ Restart => IInv'
<1> SUFFICES ASSUME IInv, Restart PROVE IInv'
  OBVIOUS
<1>1. /\ restarts' = restarts + 1 /\ restarts < MaxRestarts /\ frame' = None /\ hold' = FALSE
      /\ lastSeen' = Never /\ misses' = 0 /\ due' = {"frame", "bt"} /\ inView' = 0 /\ dark' = 0
      /\ PublishHold(FALSE)
  BY DEF Restart
<1>2. /\ person' = person /\ solid' = solid /\ live' = live /\ gate' = gate /\ tree' = tree
      /\ recoveries' = recoveries /\ leg' = leg
  BY DEF Restart, world, nav2
<1>3. queue' \in {None, "stop", "go"} /\ losses' \in 0..MaxLoss
  BY <1>1, Published DEF IInv
<1>4. /\ restarts' \in 0..MaxRestarts /\ lastSeen' \in 0..Never /\ misses' \in 0..MaxMiss
      /\ inView' \in 0..InViewMax /\ dark' \in 0..DarkMax /\ due' \subseteq {"frame", "bt"}
  BY <1>1, Numbers DEF IInv, TypeOK
<1>5. hold' \in BOOLEAN
  BY <1>1, Zenon
<1>6. TypeOK'
  BY <1>1, <1>2, <1>3, <1>4, <1>5 DEF IInv, TypeOK
<1>7. ~(inView' > misses') /\ ~(inView' > MaxMiss + losses')
  <2>1. inView' = 0 /\ misses' \in 0..MaxMiss /\ losses' \in 0..MaxLoss
    BY <1>1, <1>3, <1>4
  <2> QED BY <2>1, Thresholds, Zenon
<1>8. HaltedForPerson'
  BY <1>1 DEF HaltedForPerson
<1> QED BY <1>6, <1>7, <1>8 DEF IInv, Held, Told

-----------------------------------------------------------------------------
(* The surroundings.                                                       *)

\* What does not make the detector tick, the gate be read or the robot move.
LEMMA OthersKeep ==
  ASSUME IInv, TypeOK', inView' \in {0, inView}, due' = due \/ due' = due \ {"frame"},
         UNCHANGED <<hold, lastSeen, misses, losses, queue, gate>>,
         tree' = "follow" => tree = "follow"
  PROVE  IInv'
<1>1. misses \in 0..MaxMiss /\ losses \in 0..MaxLoss
  BY DEF IInv, TypeOK
<1>2. Held' /\ Told'
  BY <1>1, Numbers DEF IInv, Held, Told, Latest
<1>3. HaltedForPerson'
  <2> SUFFICES ASSUME inView' = InViewMax, "bt" \notin due' PROVE ~Moving'
    BY DEF HaltedForPerson
  <2>1. inView = InViewMax /\ "bt" \notin due
    BY Numbers
  <2> QED BY <2>1 DEF IInv, HaltedForPerson, Moving
<1> QED BY <1>2, <1>3 DEF IInv

LEMMA EnvironmentKeeps == IInv /\ (Environment \/ OnImage) => IInv'
<1> SUFFICES ASSUME IInv, Environment \/ OnImage PROVE IInv'
  OBVIOUS
<1>1. /\ hold' = hold /\ lastSeen' = lastSeen /\ misses' = misses /\ losses' = losses
      /\ queue' = queue /\ gate' = gate /\ tree' = tree /\ recoveries' = recoveries
      /\ leg' = leg /\ restarts' = restarts /\ inView' \in {0, inView} /\ dark' \in {0, dark}
      /\ due' \in {due, due \ {"frame"}} /\ frame' \in {frame, "person", "empty"}
  BY DEF Environment, PersonMoves, WayChanges, CameraFails, CameraReturns, OnImage, detector, nav2
<1>2. person' \in BOOLEAN /\ solid' \in BOOLEAN /\ live' \in BOOLEAN
  <2>1. \/ person' = ~person /\ solid' = solid /\ live' = live
        \/ solid' = ~solid /\ person' = person /\ live' = live
        \/ live' \in {TRUE, FALSE} /\ person' = person /\ solid' = solid
        \/ person' = person /\ solid' = solid /\ live' = live
    BY Zenon DEF Environment, PersonMoves, WayChanges, CameraFails, CameraReturns, OnImage, world
  <2> QED BY <2>1, Zenon DEF IInv, TypeOK
<1>3. /\ inView' \in 0..InViewMax /\ dark' \in 0..DarkMax /\ due' \subseteq {"frame", "bt"}
      /\ frame' \in {None, "empty", "person"}
  BY <1>1, Numbers DEF IInv, TypeOK
<1>4. TypeOK'
  BY <1>1, <1>2, <1>3 DEF IInv, TypeOK
<1> QED BY <1>1, <1>4, OthersKeep

-----------------------------------------------------------------------------
(* The behaviour tree and the FSM.                                         *)

LEMMA TreeFailing ==
  ASSUME TypeOK, TreeFails
  PROVE  tree' \in {"wait", "aborted"} /\ recoveries' \in 0..Retries
  BY Numbers DEF TreeFails, TypeOK

\* Whoever reads the gate does not move when it is closed.
LEMMA ReadingKeeps ==
  ASSUME IInv, ReadGate, TreeStep, tree' \in Trees, recoveries' \in 0..Retries,
         Latest => tree' # "follow"
  PROVE  IInv'
<1>1. /\ gate' = Latest /\ queue' = None /\ due' = due \ {"bt"} /\ inView' = inView
      /\ misses' = misses /\ losses' = losses /\ hold' = hold /\ lastSeen' = lastSeen
      /\ person' = person /\ solid' = solid /\ live' = live /\ frame' = frame /\ leg' = leg
      /\ restarts' = restarts /\ dark' = dark
  BY DEF ReadGate, TreeStep, world, detector
<1>2. gate' \in BOOLEAN
  <2>1. gate \in BOOLEAN
    BY DEF IInv, TypeOK
  <2>2. Latest \in BOOLEAN
    BY <2>1, Zenon DEF Latest
  <2> QED BY <1>1, <2>2, Zenon
<1>3. TypeOK'
  BY <1>1, <1>2 DEF IInv, TypeOK
<1>4. Latest => Latest'
  BY <1>1 DEF Latest
<1>5. Held' /\ Told'
  BY <1>1, <1>4 DEF IInv, Held, Told
<1>6. HaltedForPerson'
  <2> SUFFICES ASSUME inView' = InViewMax PROVE ~Moving'
    BY DEF HaltedForPerson
  <2>1. losses \in 0..MaxLoss /\ inView = MaxMiss + 1 + MaxLoss
    BY <1>1, Numbers DEF IInv, TypeOK
  <2>2. inView > MaxMiss + losses
    BY <2>1, Numbers
  <2>3. Latest
    BY <2>2 DEF IInv, Told
  <2> QED BY <2>3 DEF Moving
<1> QED BY <1>3, <1>5, <1>6 DEF IInv

LEMMA TreeKeeps == IInv /\ (GateTick \/ FollowArrives \/ FollowFails) => IInv'
<1> SUFFICES ASSUME IInv, GateTick \/ FollowArrives \/ FollowFails PROVE IInv'
  OBVIOUS
<1>1. recoveries \in 0..Retries /\ TypeOK
  BY DEF IInv, TypeOK
<1>2. CASE GateTick
  BY <1>1, <1>2, ReadingKeeps DEF GateTick, ReadGate, Trees
<1>3. CASE FollowArrives
  BY <1>1, <1>3, ReadingKeeps DEF FollowArrives, Trees
<1>4. CASE FollowFails
  BY <1>1, <1>4, TreeFailing, ReadingKeeps DEF FollowFails, Trees
<1> QED BY <1>2, <1>3, <1>4

LEMMA GoalsKeep == IInv /\ (Plan \/ WaitEnds \/ Fsm) => IInv'
<1> SUFFICES ASSUME IInv, Plan \/ WaitEnds \/ Fsm PROVE IInv'
  OBVIOUS
<1>1. /\ person' = person /\ solid' = solid /\ live' = live /\ frame' = frame
      /\ hold' = hold /\ lastSeen' = lastSeen /\ misses' = misses /\ losses' = losses
      /\ queue' = queue /\ gate' = gate /\ restarts' = restarts /\ due' = due
      /\ inView' = inView /\ dark' = dark
  BY DEF Plan, WaitEnds, Fsm, SendGoal, Result, Blocked, TurnTimesOut, TreeStep, FsmStep, world,
         detector
<1>2. tree' \in (Trees \ {"follow"}) \cup {tree} /\ recoveries' \in 0..Retries
      /\ leg' \in Legs \cup {None}
  <2>1. TypeOK
    BY DEF IInv
  <2>2. CASE Plan
    <3>1. (tree' = "gate" /\ recoveries' = recoveries) \/ TreeFails
      BY <2>2 DEF Plan
    <3>2. leg' = leg
      BY <2>2 DEF Plan, TreeStep
    <3> QED BY <2>1, <3>1, <3>2, TreeFailing DEF Trees, TypeOK
  <2>3. CASE WaitEnds
    BY <2>1, <2>3 DEF WaitEnds, TreeStep, Trees, TypeOK
  <2>4. CASE Fsm
    BY <2>1, <2>4, Numbers DEF Fsm, SendGoal, Result, Blocked, TurnTimesOut, Trees, TypeOK
  <2> QED BY <2>2, <2>3, <2>4
<1>3. TypeOK'
  BY <1>1, <1>2 DEF IInv, TypeOK
<1> QED BY <1>1, <1>2, <1>3, OthersKeep

LEMMA StuttersKeep == IInv /\ UNCHANGED vars => IInv'
<1> SUFFICES ASSUME IInv, UNCHANGED vars PROVE IInv'
  OBVIOUS
<1>1. TypeOK'
  BY Zenon DEF vars, world, detector, nav2, IInv, TypeOK
<1> QED BY <1>1, OthersKeep DEF vars, detector, nav2

LEMMA Inductive == IInv /\ [Next]_vars => IInv'
  BY StuttersKeep, EnvironmentKeeps, TickNoFrameKeeps, TickPresentKeeps, TickAbsentKeeps,
     RestartKeeps, TreeKeeps, GoalsKeep DEF Next, Detector

-----------------------------------------------------------------------------
(* The theorems.                                                           *)

\* The stop is on its way from the camera to the wheels throughout.
THEOREM Invariant == Spec => []IInv
<1> QED BY Initial, Inductive, PTL DEF Spec

\* Every variable keeps its type, and the tree makes no more recoveries than its limit.
THEOREM TypeCorrect == Spec => []TypeOK
<1>1. IInv => TypeOK
  BY DEF IInv
<1> QED BY <1>1, Invariant, PTL

\* Whatever the network loses, the recogniser overlooks and the mission begins, a
\* person before a live camera has stopped the robot after MaxMiss + MaxLoss + 1
\* ticks (human_detector_node.py:175-203, human_stop_condition.cpp:39-55).
THEOREM StopsForPerson == Spec => []HaltedForPerson
<1>1. IInv => HaltedForPerson
  BY DEF IInv
<1> QED BY <1>1, Invariant, PTL

=============================================================================
