CONSTANTS
  Runs <- MCMpReach
  Verdicts <- MCVerdicts
  MaxCases = 2
  Space = 12
  MpReachPrefix = 4
  StateBase = 5
  GeneratedBase = 9
SPECIFICATION Spec
INVARIANT
  EveryCaseItsOwn
