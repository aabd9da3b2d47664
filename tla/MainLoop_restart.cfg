SPECIFICATION LoopFairSpec
CONSTANTS
  Settings = {"polled", "callback", "callback2"}
  CallbackOnes = {"callback", "callback2"}
  MaxMessages = 4
INVARIANTS CloseCanEnd BuffersAreFree
PROPERTIES SettingsTakeEffect TimeGoesOn
CHECK_DEADLOCK FALSE
