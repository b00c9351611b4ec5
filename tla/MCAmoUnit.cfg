CONSTANTS
  a1 = a1
  a2 = a2
  LaneWidth = 1
  Addrs = {a1, a2}
  Lanes = {0, 1}
  Vals <- MCVals
  Requests <- MCRequests
  gen_amo_wdata <- gen_amo_word
  Update <- MCUpdate
  ScOk <- MCScOk
  ScBad <- MCScBad
  None = None
SPECIFICATION FairSpec
INVARIANTS
  CommitIsMemory
  ScHoldsReservation
PROPERTIES
  ImplementsPort
  EveryRequestPerformed
