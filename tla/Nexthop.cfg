CONSTANTS
  Prefixes = {p1, p2}
  Addrs = {a1, a2, a3}
  MaxEntries = 2
  MaxNexthops = 2
  MaxEndpoints = 3
  MaxCacheSeeds = 2
SPECIFICATION TSpec
INVARIANTS
  Invariant
  MessagesSound
  Admissible
  Idempotent
  FirstWins
PROPERTY KeepsPromise
SYMMETRY Symmetry
