\* Two Stacks of one source, of each kind; edits and faults of each kind.
SPECIFICATION LiveSpec
CONSTANTS
  Stacks = {s1, s2}
  MaxRev = 2
  PublishFaults = 1
  WatchFaults = 1
  FetchFaults = 1
  PodLosses = 1
INVARIANTS
  TypeOK
  RanAsNamed
  OneHandler
PROPERTIES
  FollowsSource
  UpdateCompletes
CHECK_DEADLOCK FALSE
