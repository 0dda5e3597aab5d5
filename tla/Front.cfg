SPECIFICATION FairSpec
CONSTANTS
  Debounce = 3
  LongHold = 7
  Capacity = 2
PROPERTIES
  OnePressPerStroke
  LongHoldOnly
  HoldReachesPortal
  LedTellsUnread
