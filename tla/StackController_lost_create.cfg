SPECIFICATION LiveSpec
CONSTANTS
  Specs = {s1}
  FirstSpec = s1
  DestroyOnFinalize = {s1}
  Preview = {}
  RunProgram = {}
  Resync = {}
  Polled = {}
  ReclaimDelete = {}
  HasPrereqs = {}
  Invalid = {}
  ReportsProjectInfo = TRUE
  Commits = {c1}
  NoCommit = none
  Unavailable = unavailable
  MaxUpdateFailures = 1
  MaxGen = 1
  MaxReq = 0
  MaxUpdates = 4
  ApiFaults = 0
  Crashes = 1
  WorkspaceFaults = 0
  FailedRuns = 0
  SourceChanges = 0
  UpdateDeletions = 0
  Ttl = "never"
  AllowNsTermination = FALSE
  ReadYourWrites = TRUE
PROPERTIES
  CurrentUpdateAbsorbed
CHECK_DEADLOCK FALSE
