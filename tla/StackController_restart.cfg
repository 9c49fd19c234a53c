\* A Stack first previewed and then applied, failing runs, and an operator restart.
SPECIFICATION Spec
CONSTANTS
  Specs = {s1, s2}
  FirstSpec = s1
  DestroyOnFinalize = {s1, s2}
  Preview = {s1}
  RunProgram = {}
  Resync = {}
  Polled = {}
  ReclaimDelete = {s2}
  HasPrereqs = {}
  Invalid = {}
  ReportsProjectInfo = TRUE
  Commits = {c1}
  NoCommit = none
  Unavailable = unavailable
  MaxUpdateFailures = 1
  MaxGen = 2
  MaxReq = 0
  MaxUpdates = 5
  ApiFaults = 0
  Crashes = 1
  WorkspaceFaults = 0
  FailedRuns = 3
  SourceChanges = 0
  UpdateDeletions = 0
  Ttl = "never"
  AllowNsTermination = FALSE
  ReadYourWrites = TRUE
INVARIANTS
  NoOverlappingUpdates
  NoOrphanedResources
  RetryBudget
PROPERTIES
  ResultAbsorbed
CHECK_DEADLOCK FALSE
