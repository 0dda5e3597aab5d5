SPECIFICATION Spec
CONSTANTS
  NoChat = NoChat
  Ann = Ann
  Bob = Bob
  Cy = Cy
  MaxContacts = 2
  Touch = 2
  Templates <- MCTemplates
  MaxUpdates = 3
  Steps = {1, 3}
  Limit = 3
  Capacity = 3
  LastDefault = 2
  LastMax = 3
  Waiting = 2
  MaxCrashes = 1
  Known <- MCKnown
INVARIANTS
  RestartKeepsTable
  LastFaithful
  BatchSorted
  LatestQueries
PROPERTIES
  EvictsStalest
