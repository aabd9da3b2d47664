SPECIFICATION FairSpec
CONSTANTS
  Clocks = {c1, c2, c3}
  Tick <- TheTick
  UnitsPerMsec = 2
  UnitsPerSample = 1
  PollEvery = 1
  Callbacks = TRUE
  Times <- TheTimes
  Delays <- TheDelays
  TimeUnits = {0}
  SampFlags = {TRUE, FALSE}
  Horizon = 5
  MaxTime = 4
INVARIANTS ListedOnce InOrder
PROPERTIES KeepsPromise GuiServed
CHECK_DEADLOCK FALSE
