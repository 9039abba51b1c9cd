CONSTANTS
  Prefixes = {0, 1}
  Lengths = {1, 2}
  Origins = {0, 2}
  Modes <- MCModes
SPECIFICATION LSpec
INVARIANTS
  Agreement
  Isolation
  PassedIsConformant
  NoFalseAlarm
PROPERTY RunEnds
