CONSTANTS
  Insts <- MCInsts
  RamBytes = 32
  RamEnd = 24
  RomBase = 32
  RomEnd = 39
  DevBase = 64
  PageBytes = 16
  PageMap <- MCPageMap
  Levels = 2
  None = None
SPECIFICATION FairSpec
INVARIANTS
  ExactlyOnce
  NothingAbandoned
PROPERTIES
  AccessEnds
