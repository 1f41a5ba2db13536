\* Two columns of the east wing; the calls end, so the system stops.
CONSTANTS
  Node = {4, 5, 9, 10, 14, 15}
  Cell <- MCCell
  BlockedEdge = {}
  PenaltyEdge = {{5, 10}}
  Query <- MCQuery
SPECIFICATION Spec
INVARIANTS ReturnsCheapest
PROPERTIES Returns
CHECK_DEADLOCK FALSE
