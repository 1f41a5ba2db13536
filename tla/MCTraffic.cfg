\* Two robots at a junction that may ask anything at any time.
CONSTANTS
  Node = {4, 9, 10, 14}
  Cell <- MCCell
  BlockedEdge = {}
  PenaltyEdge = {{9, 10}}
  Robot = {1, 2}
  Stop = {10, 14}
SPECIFICATION TrafficSpec
INVARIANTS TypeOK WindowsReserved WaitingOnNext EarlyHasNext NoFalsePass BlockedIsAnnounced
PROPERTIES IsInterlocking OnlyRequestsDisplace
CONSTRAINT OneBlock
