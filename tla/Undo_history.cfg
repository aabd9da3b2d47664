SPECIFICATION Spec
CONSTANTS
  Kinds = {"create", "recreate", "arrange"}
  Checked = {"create"}
  Fallible = {"recreate"}
  Typing <- TheTyping
  MaxEdits = 4
  MaxDepth = 2
  MaxQueue = 6
INVARIANTS PatchIsHistory WholeSequences CleanIsSaved
CONSTRAINT Followed
CHECK_DEADLOCK FALSE
