\* Configuration of two entries or two items, all credentials, and two runs with outputs.
SPECIFICATION Spec
CONSTANTS
  Names <- MCNames
  Dotted = {"x.y"}
  Keys <- MCKeys
  Outputs <- MCOutputs
  SecretKey <- MCSecretKey
  MaxEntries = 2
  MaxItems = 2
  MaxRounds = 2
INVARIANTS
  ConfigAsDeclared
  SecretsStaySecret
  SameCredentials
CHECK_DEADLOCK FALSE
