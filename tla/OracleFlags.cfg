CONSTANTS
  Updates <- MCUpdates
  Contexts <- MCContexts
  Opens <- MCOpens
  Suites <- MCSuites
SPECIFICATION PSpec
INVARIANT
  FlagConflictsWithdraw
