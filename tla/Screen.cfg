SPECIFICATION FairSpec
CONSTANTS
  Capacity = 2
  FullLevel = 5
  DimLevel = 4
  FadeTicks = 2
INVARIANTS
  IsOnHonest
  NeverStuckLit
PROPERTIES
  PressLights
  GoesDark
