SPECIFICATION FairSpec
CONSTANTS
  FramesPerBuf = 2
  NBuffers = {1, 2}
  Modes = {"both", "in", "out"}
  ClosesInWait = TRUE
  StoresInOrder = TRUE
INVARIANTS BlocksInOrder NoRace AtMostOneLost NeverStuck
PROPERTIES SendDacsReturns
