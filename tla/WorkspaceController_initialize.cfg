\* Edits, a CLI that is too old, a pod template that is refused and one that repairs it, a legacy StatefulSet, deletion, a lost pod, and a failing call or a restart.
SPECIFICATION LiveSpec
CONSTANTS
  NoProgram = {3}
  JsonConfig = {1}
  Legacy = TRUE
  InvalidTemplate = {2}
  AllowDeletion = TRUE
  MaxGen = 3
  Faults = 1
  PodLosses = 1
INVARIANTS
  TypeOK
  ReadyAtRest
PROPERTIES
  Settles
CHECK_DEADLOCK FALSE
