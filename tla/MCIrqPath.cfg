CONSTANTS
  Depth = 3
  Chars = {"a", "b"}
  NoChar = NoChar
  TxChar = "a"
  UartReqs = {}
  None = None
  NumSources = 3
  UartIrq = 2
  Prios = {}
  PlicReqs = {}
  NoReq = NoReq
  MaxTx = 3
  MaxRx = 4
  MasksIir = TRUE
SPECIFICATION FairSpec
INVARIANTS
  HandlerFindsCause
  ReceivedInOrder
PROPERTIES
  AllReceived
  AllSent
