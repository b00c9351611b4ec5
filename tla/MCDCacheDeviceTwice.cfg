CONSTANTS
  t1 = t1
  t2 = t2
  io = io
  LineCount = 2
  WordsPerLine = 2
  StoreBufferDepth = 2
  WriteBack = FALSE
  Tags = {t1, t2}
  Uncached <- MCUncached
  Bytes = {0, 1}
  Vals = {0, 1}
  CpuOps <- DeviceOps
  FlushEnabled = TRUE
  NoRsp = NoRsp
SPECIFICATION Spec
INVARIANTS
  DeviceOnce
