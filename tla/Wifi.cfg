SPECIFICATION FairSpec
CONSTANTS
  Slots = 2
  MaxRetry = 1
  Signal = {1, 4}
  Weak = 1
  Margin = 2
  MaxFlaps = 3
INVARIANTS
  TypeOK
  LossNoticed
  PortalIsLast
  CurrentSlotTrue
PROPERTIES
  Rejoins
