CONSTANTS
  x1 = x1
  x2 = x2
  v1 = v1
  v2 = v2
  None = None
  Prefixes <- MCPrefixes
  Values <- MCValues
  Scripts <- MCScripts
SPECIFICATION Spec
INVARIANTS
  NothingLeft
  NoFalseAlarm
PROPERTY KeepsPromise
