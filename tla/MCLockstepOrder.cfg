CONSTANTS
  Medeleg = {2}
  Mideleg = {9}
  PaOffset = 16
  Programs <- MCPrograms
  ResetPc = 50
  BootEnd = 51
  BootX = 178
  RamBase = 24
  DeviceWords = {90, 165}
  Times = {3, 4}
  MaxIrqs = 2
  Errors = {"pc", "priv", "rd_we", "rd", "rd_data", "mem_valid", "mem_write", "va", "pa", "mask", "data"}
  None = None
  StartPc = 1
  MmioRanges <- MCRanges
  kMaxNonRetiringSteps = 3
  StopOrder = 7
  MaxRetire = 9
  PassToken <- MCToken
SPECIFICATION Spec
INVARIANTS
  InjectionMatches
CHECK_DEADLOCK FALSE
