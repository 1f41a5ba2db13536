\* The robots meet in the aisle; an obstacle comes and goes on the gate N10.
CONSTANTS
  Node = {4, 5, 9, 10, 14, 19, 20, 24, 25}
  Cell <- MCCell
  BlockedEdge = {{20, 25}}
  PenaltyEdge = {{5, 10}}
  Robot = {1, 2}
  Stop = {5, 10, 20, 25}
  Home <- AtGate
  Itinerary <- Meet
  Cancels = {}
  Loses = {}
  Breaks = {}
  Spots = {10}
SPECIFICATION TravelSpec
INVARIANTS NeverFails
PROPERTIES NobodyStaysStuck
