SPECIFICATION Spec
CONSTANTS
  Capacity = 3
  Page = {p1, p2, p3}
  OldPage = {old}
  NoPage = NoPage
  Failing = {"slot", "meta"}
  MaxDropped = 2
SYMMETRY Pages
INVARIANTS
  WriteThrough
  NeverTruncated
  NoGhosts
PROPERTIES
  ImplementsFifo
  RamFifo
