CONSTANTS
  Tasks = {t1, t2, t3}
  Sizes = {small, large}
  DefaultSize = DefaultSize
  NoSize = NoSize
  MaxResizes = 4
SPECIFICATION Spec
INVARIANT ControllerSizeApplied
SYMMETRY ControlSymmetry
CHECK_DEADLOCK FALSE
