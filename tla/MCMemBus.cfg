CONSTANTS
  RamBegin <- Base
  RamWords = 4
  Lanes = {0, 1}
  Vals = {0, 1}
  Word <- MCWord
  ZeroWord <- MCZero
  InitRam <- MixedRam
  IReqs <- Fetches
  DReqs <- AllReqs
  None = None
SPECIFICATION MixSpec
INVARIANTS
  AnswersTheAsker
  StatusHonest
  CopyCorrect
  ReadsCurrent
PROPERTIES
  CopyContained
  CopyEnds
  EveryRequestAnswered
