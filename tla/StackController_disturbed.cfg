\* A lagging cache, failing API calls, and a workspace that is reclaimed, stalls, is lost or deleted.
SPECIFICATION Spec
CONSTANTS
  Specs = {s1}
  FirstSpec = s1
  DestroyOnFinalize = {s1}
  Preview = {}
  RunProgram = {}
  Resync = {}
  Polled = {}
  ReclaimDelete = {s1}
  HasPrereqs = {}
  Invalid = {}
  ReportsProjectInfo = TRUE
  Commits = {c1}
  NoCommit = none
  Unavailable = unavailable
  MaxUpdateFailures = 1
  MaxGen = 1
  MaxReq = 0
  MaxUpdates = 2
  ApiFaults = 1
  Crashes = 0
  WorkspaceFaults = 1
  FailedRuns = 0
  SourceChanges = 0
  UpdateDeletions = 0
  Ttl = "never"
  AllowNsTermination = FALSE
  ReadYourWrites = FALSE
INVARIANTS
  DestroyBeforeFinalize
CHECK_DEADLOCK FALSE
