CONSTANTS
  Updates <- MCUpdates
  Contexts <- MCContexts
  Opens <- MCOpens
  Suites <- MCSuites
SPECIFICATION PSpec
INVARIANTS
  VerdictIsMostSevere
  OnlyDuplicatesReset
  VerdictIsRequired
  OpenVerdict
  WireIsJudged
  AdapterAgrees
