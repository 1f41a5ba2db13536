\* Times in units of five to fifteen seconds; every phase may run to its limit.
CONSTANTS
  DockTimeout = 3
  AlignTimeout = 1
  SpinTimeout = 1
  CreepTimeout = 2
  CallTimeout = 8
  UndockWait = 3
SPECIFICATION Spec
INVARIANTS TypeOK OneDriver
PROPERTIES IsDockService CallsEnd
