CONSTANTS
  Width = 3
  Runs <- MCRuns
  MaxIgnored = 2
  MaxHalfCycles = 4
  None = None
SPECIFICATION FairSpec
INVARIANTS
  TerminalRestored
  LoopReady
PROPERTIES
  LimitedRunEnds
CHECK_DEADLOCK FALSE
