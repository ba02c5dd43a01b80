CONSTANTS
  Viewers = {v1, v2}
  Asking = {}
  MaxChanges = 0
  MayFail = TRUE
SPECIFICATION FairSpec
INVARIANTS TypeOK ProducerShared NoOrphan
PROPERTIES SessionEnds ErrorHeard
CHECK_DEADLOCK FALSE
