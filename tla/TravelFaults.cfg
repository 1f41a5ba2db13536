\* The calls of AMR_1 are cancelled and preempted, messages of AMR_2 are lost and its
\* drives fail, an obstacle comes and goes on N9, which can be bypassed from N4.
CONSTANTS
  Node = {4, 5, 9, 10, 14, 19, 20, 24, 25}
  Cell <- MCCell
  BlockedEdge = {{20, 25}}
  PenaltyEdge = {{5, 10}}
  Robot = {1, 2}
  Stop = {5, 10, 20, 25}
  Home <- AtGate
  Itinerary <- HomeAndOut
  Cancels = {1}
  Loses = {2}
  Breaks = {2}
  Spots = {9}
SPECIFICATION TravelSpec
INVARIANTS Separated FootprintReserved
PROPERTIES NeverDisplaced
