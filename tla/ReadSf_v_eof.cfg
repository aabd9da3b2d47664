SPECIFICATION Spec
CONSTANTS
  BufSize = 17
  ReadSize = 4
  MaxVecSize = 2
  SigFraction = 2
  VecSizes = {1}
  RawBpf = {2}
  HeaderModes = {FALSE}
  Files = {"short", "gone"}
  Missing = {"gone"}
  HeaderBytes = 1
  ReadErrors = FALSE
  MaxOpens = 2
  FileBpf <- FileBpfs
  FileLen <- FileLens
  FileLimit <- FileLimits
INVARIANTS NoEofOnPendingOpen
CHECK_DEADLOCK FALSE
