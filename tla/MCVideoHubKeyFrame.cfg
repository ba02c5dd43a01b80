CONSTANTS
  Viewers = {v1, v2}
  Asking = {v1, v2}
  MaxChanges = 2
  MayFail = FALSE
SPECIFICATION FairSpec
PROPERTY KeyFrameArrives
CHECK_DEADLOCK FALSE
