SPECIFICATION FairSpec
CONSTANTS
  BufSize = 5
  WriteSize = 2
  MaxVecSize = 2
  SigFraction = 2
  VecSizes = {1, 2}
  Bpfs = {1, 2}
  CreateErrors = TRUE
  WriteErrors = TRUE
  MaxPut = 6
  MaxOpens = 2
INVARIANTS FifoHoldsInput FileIsPrefix NoLeak
PROPERTIES StopKeepsEverything OpenReturnsUnlessError
CHECK_DEADLOCK FALSE
