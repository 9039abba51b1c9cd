CONSTANT MaxMessages = 3
SPECIFICATION Spec
INVARIANTS
  FalseMeansIncomplete
