SPECIFICATION BusFairSpec
CONSTANT Chunks = 2
INVARIANTS
  BusExclusive
  GuardAccounted
PROPERTY NobodyStarves
