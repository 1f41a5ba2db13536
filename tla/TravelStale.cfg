\* A trip is given up behind an obstacle in the middle of a segment.
CONSTANTS
  Node = {4, 5, 9, 10, 14, 19, 20, 24, 25}
  Cell <- MCCell
  BlockedEdge = {{20, 25}}
  PenaltyEdge = {{5, 10}}
  Robot = {1, 2}
  Stop = {5, 10, 20, 25}
  Home <- AtHomes
  Itinerary <- Return
  Cancels = {2}
  Loses = {}
  Breaks = {}
  Spots = {9}
SPECIFICATION TravelSpec
INVARIANTS FootprintReserved
