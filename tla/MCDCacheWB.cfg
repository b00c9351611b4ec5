CONSTANTS
  t1 = t1
  t2 = t2
  io = io
  LineCount = 2
  WordsPerLine = 2
  StoreBufferDepth = 2
  WriteBack = TRUE
  Tags = {t1, t2}
  Uncached <- MCUncached
  Bytes = {0, 1}
  Vals = {0, 1}
  CpuOps <- RamOps
  FlushEnabled = TRUE
  NoRsp = NoRsp
SPECIFICATION FairSpec
INVARIANTS
  TypeOK
  RingShape
  CachedIsCurrent
  NothingLost
  LoadReturnsCurrent
  BypassOrdered
PROPERTIES
  FlushPublishes
  FlushEnds
