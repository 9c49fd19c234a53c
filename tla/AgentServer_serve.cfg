\* The initialization and an update of a stack each: failing commands, disconnections and signals.
SPECIFICATION LiveSpec
CONSTANTS
  Initializers = {w}
  Updates = {u}
  Stacks = {a, b}
  None = none
  Existing = {a}
  Named = {a, b}
  WorkspaceStack = b
  InitialStack = none
  MaxDiagnostics = 1
  MaxEvents = 2
  MaxRounds = 1
  MaxStarts = 1
INVARIANTS
  TypeOK
  FailureReported
  OwnStackUnlessTaken
PROPERTIES
  HandlersReturn
  ServerStops
CHECK_DEADLOCK FALSE
