CONSTANTS
  Routes = {r1, r2}
  Modes <- MCModes
  MaxTraces = 3
  MaxEvents = 5
SPECIFICATION SSpec
INVARIANTS
  CleanStart
  NoSessionCollision
  Agreement
  PassedIsConformant
  NoFalseAlarm
  IsolatedStart
PROPERTY SuiteEnds
