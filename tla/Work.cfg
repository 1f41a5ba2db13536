\* Both levels of the rack; the lift's messages may be lost or late.
CONSTANTS
  Level = {1, 2}
  MaxChan = 2
  Lossy = TRUE
SPECIFICATION Spec
INVARIANTS TypeOK LiftAgrees ForkFits
PROPERTIES IsHandling EveryWorkEnds
