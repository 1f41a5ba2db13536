\* Two orders; everything may fail.
CONSTANTS
  Mission = {1, 2}
  Outbound = {1, 2}
  Place = {"home", "aisle", "shelf", "gate"}
  Home = "home"
  Aisle = "aisle"
  Source <- MCSource
  Target <- MCTarget
  MayFail = TRUE
SPECIFICATION Spec
INVARIANTS TypeOK OfferedEmpty ReportTellsWhere
PROPERTIES DeclaredTransitions EveryMissionEnds CancelObeyed
