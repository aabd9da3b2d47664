SPECIFICATION FairSpec
CONSTANTS
  Scalars = {"scalar"}
  Arrays = {"array"}
  Iemguis = {"numbox"}
  DrawSize <- TheDrawSizes
  Sizes = {1, 4}
  BytesPerPing = 4
  UpdateSlice = 2
  QuietStops = TRUE
  MaxEvents = 5
INVARIANTS QueuedAreAlive ShownOrQueued UnreadIsBounded
PROPERTIES AllIsShown
CHECK_DEADLOCK FALSE
