CONSTANTS
  Runs <- MCRuns
  Verdicts <- MCVerdicts
  MaxCases = 1
  Space = 9
  MpReachPrefix = 2
  StateBase = 5
  GeneratedBase = 7
SPECIFICATION Spec
INVARIANTS
  BooksBalance
  ExitIsTrue
  NoCollision
  PrefixIsOwn
