CONSTANTS
  Depth = 3
  Chars = {"a", "b"}
  NoChar = NoChar
  UartReqs <- MCUartReqs
  None = None
  NumSources = 2
  Prios = {0, 1, 2}
  PlicReqs <- MCPlicReqs
  NoReq = NoReq
SPECIFICATION DevicesSpec
INVARIANTS
  RxFifoIsQueue
  ThreReportedOnce
  ServedOnce
PROPERTIES
  PendingUntilClaimed
