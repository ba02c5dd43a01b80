CONSTANTS
  Buttons = {1}
  Keys = {1}
  Sessions = {s1, s2, v}
  ViewOnly = {v}
  Channels = {c1, c2}
  NoSession = NoSession
  NoChannel = NoChannel
SPECIFICATION SliceSpec
INVARIANTS TypeOK LeaseAgrees OnlyLiveSessionsControl NothingStuck ClientTold
PROPERTY HandOverReleases
SYMMETRY ControlSymmetry
CHECK_DEADLOCK FALSE
