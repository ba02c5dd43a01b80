CONSTANTS
  Viewers = {v1}
  Asking = {v1}
  MaxChanges = 0
  MayFail = TRUE
SPECIFICATION FairSpec
PROPERTY CaptureErrorReturned
CHECK_DEADLOCK FALSE
