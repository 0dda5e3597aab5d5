SPECIFICATION FairSpec
CONSTANTS
  Addresses = 2
  NameLengths = {0, 17}
  PollSlices = 2
  CallSlices = 1
  MaxPieces = 1
  Header = 2
  AnswerLengths = {1, 3, 4}
  MaxLen = 3
  MaxKey = 2
INVARIANTS
  NothingLeaks
  StreamAligned
PROPERTIES
  RequestEnds
  AnswersAgain
