SPECIFICATION Spec
CONSTANTS
  Things = {t1, t2, t3, t4}
  Addrs = {e1, e2, e3, e4, e5}
  Null = Null
  List = List
  MaxDepth = 2
SYMMETRY Alike
INVARIANTS ListIsBound StillToCome
CHECK_DEADLOCK FALSE
