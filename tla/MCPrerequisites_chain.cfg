\* The shared prerequisite is created after the Stacks that need it.
SPECIFICATION LiveSpec
CONSTANTS
  base = base
  app = app
  site = site
  Stacks <- MCStacks
  Created = {app, site}
  Requires <- MCRequires
  Within <- MCWithin
  MaxAge = 3
  MaxInputs = 1
  MaxTroubles = 1
INVARIANTS
  TypeOK
PROPERTIES
  RunsAfterPrerequisites
  NoThrashing
  DependentsProceed
CHECK_DEADLOCK FALSE
