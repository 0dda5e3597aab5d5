SPECIFICATION FairSpec
CONSTANTS
  LastUpdate = 3
  Request = {1}
  Mute = {3}
  Large = {1, 2}
  LargeFit = 1
  Limit = 2
  Capacity = 1
  AckCapacity = 1
  MaxAttempts = 2
  MaxCrashes = 1
  None = None
PROPERTIES
  OffsetNeverStalls
