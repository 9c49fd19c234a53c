\* A polled source that moves or is unavailable, prerequisites, runProgram, and Updates that expire.
SPECIFICATION LiveSpec
CONSTANTS
  Specs = {s1}
  FirstSpec = s1
  DestroyOnFinalize = {s1}
  Preview = {}
  RunProgram = {s1}
  Resync = {}
  Polled = {s1}
  ReclaimDelete = {}
  HasPrereqs = {s1}
  Invalid = {}
  ReportsProjectInfo = TRUE
  Commits = {c1, c2}
  NoCommit = none
  Unavailable = unavailable
  MaxUpdateFailures = 2
  MaxGen = 1
  MaxReq = 0
  MaxUpdates = 4
  ApiFaults = 0
  Crashes = 0
  WorkspaceFaults = 0
  FailedRuns = 0
  SourceChanges = 1
  UpdateDeletions = 0
  Ttl = "late"
  AllowNsTermination = FALSE
  ReadYourWrites = TRUE
PROPERTIES
  DeletionCompletes
  CurrentUpdateAbsorbed
  Settles
CHECK_DEADLOCK FALSE
