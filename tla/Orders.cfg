\* Three orders, three shelves, two pallets in stock and one to come; only a
\* reclaim request may lag.
CONSTANTS
  Order = {1, 2, 3}
  Shelves <- MCShelves
  Gates <- MCGates
  Robots <- MCRobots
  Stock = {"A1-L1", "A1-L2"}
  Cancels = {3}
  Arrivals = 1
  Lagging = {"reclaim"}
SPECIFICATION Spec
INVARIANTS StockIsReal NoPileUp NeverEmptyHanded AwaitingIsTimed ReservedByOpenTask
PROPERTIES IsOrderLife EveryOrderEnds
CHECK_DEADLOCK FALSE
