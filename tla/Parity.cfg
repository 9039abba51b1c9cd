CONSTANTS
  Modes <- MCModes
SPECIFICATION Spec
INVARIANTS
  InstalledIsOwn
  JudgedRight
  NoCollision
PROPERTY SuiteEnds
