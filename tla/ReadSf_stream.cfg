SPECIFICATION FairSpec
CONSTANTS
  BufSize = 17
  ReadSize = 4
  MaxVecSize = 2
  SigFraction = 2
  VecSizes = {2}
  RawBpf = {2}
  HeaderModes = {TRUE, FALSE}
  Files = {"long", "wide", "gone"}
  Missing = {"gone"}
  HeaderBytes = 1
  ReadErrors = TRUE
  MaxOpens = 2
  FileBpf <- FileBpfs
  FileLen <- FileLens
  FileLimit <- FileLimits
INVARIANTS OneFileOpen NoMutualWait FifoHoldsStream
PROPERTIES StreamEnds FreeCompletes PlaysWholeFile
CHECK_DEADLOCK FALSE
