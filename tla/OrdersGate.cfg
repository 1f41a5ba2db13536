\* The customer of an order that is not the last may cancel; no message lags.
CONSTANTS
  Order = {1, 2}
  Shelves <- MCShelves
  Gates <- MCGates
  Robots <- MCRobots
  Stock = {"A1-L1", "A1-L2", "A2-L1"}
  Cancels = {1}
  Arrivals = 0
  Lagging = {}
SPECIFICATION Spec
INVARIANTS NoPileUp
CHECK_DEADLOCK FALSE
