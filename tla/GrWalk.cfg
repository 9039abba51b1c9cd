CONSTANTS
  Routes = {r1, r2, r3}
SPECIFICATION HSpec
INVARIANTS
  RetentionExact
