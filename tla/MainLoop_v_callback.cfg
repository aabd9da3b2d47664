SPECIFICATION LoopSpec
CONSTANTS
  Settings = {"polled", "callback", "callback2"}
  CallbackOnes = {"callback", "callback2"}
  MaxMessages = 4
INVARIANT CallbackClosesNothing
CHECK_DEADLOCK FALSE
