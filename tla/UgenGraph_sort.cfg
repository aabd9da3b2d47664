SPECIFICATION GraphSpec
CONSTANTS
  MaxLog = 3
  SysBlockSize = 4
  Top = "root"
  Windows <- TheWindows
  Boxes <- TheBoxes
  Box <- TheBox
  Wirings <- TheWirings
  Settings <- TheSettings
  MaxWires = 4
  OddSizes = {3}
  OddInnerSizes = {}
  Sizes = {2}
  Switches = {TRUE, FALSE}
INVARIANTS InputsAreMeant OnlyLoopsLeft AllComesBack OutputsFilled
CHECK_DEADLOCK FALSE
