SPECIFICATION FairSpec
CONSTANTS
  Nets = 3
  Forms = {"new", "newer"}
  Fillings = {{}, {0}, {2}, {0, 2}, {1, 2}}
  MaxCuts = 1
  MaxFaults = 1
INVARIANTS
  UsesLastForm
PROPERTY NoBootLoop
