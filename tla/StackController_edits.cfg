\* An edit to a spec that is rejected, a reconcile request, an Update deleted by a user, and a terminating namespace.
SPECIFICATION Spec
CONSTANTS
  Specs = {s1, s2}
  FirstSpec = s1
  DestroyOnFinalize = {s1, s2}
  Preview = {}
  RunProgram = {}
  Resync = {}
  Polled = {}
  ReclaimDelete = {}
  HasPrereqs = {}
  Invalid = {s2}
  ReportsProjectInfo = TRUE
  Commits = {c1}
  NoCommit = none
  Unavailable = unavailable
  MaxUpdateFailures = 1
  MaxGen = 2
  MaxReq = 1
  MaxUpdates = 3
  ApiFaults = 0
  Crashes = 0
  WorkspaceFaults = 0
  FailedRuns = 0
  SourceChanges = 0
  UpdateDeletions = 1
  Ttl = "never"
  AllowNsTermination = TRUE
  ReadYourWrites = TRUE
INVARIANTS
  TypeOK
  NoOrphanedResources
  UpdateHeldUntilAbsorbed
CHECK_DEADLOCK FALSE
