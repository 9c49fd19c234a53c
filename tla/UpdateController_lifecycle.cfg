\* Faults of each kind, deletion, restarts, and a time to live.
SPECIFICATION LiveSpec
CONSTANTS
  HasFinalizer = TRUE
  HasTtl = TRUE
  Ttl = 1
  FirstWorkspace = {"pending", "ready"}
  ReadYourWrites = TRUE
  BegunUnanswered = {FALSE}
  StreamErrors = {"status"}
  MaxTime = 2
  ApiFaults = 1
  AgentFaults = 2
  WorkspaceFaults = 2
  Deletions = 1
  Crashes = 1
INVARIANTS
  TypeOK
  SuccessIsReal
PROPERTIES
  LifecycleImplemented
  Completes
CHECK_DEADLOCK FALSE
