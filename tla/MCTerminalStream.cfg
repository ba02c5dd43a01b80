CONSTANTS
  HistoryCap = 2
  SnapshotSize = 2
  Sockets = {k1, k2}
  ChannelCap = 1
  FrameCap = 2
  WindowCap = 2
  PendingCap = 2
  MaxOutputs = 3
  MaxUp = 0
  Clients = {c1, c2}
  NoSocket = NoSocket
SPECIFICATION StreamSpec
INVARIANTS StreamInv NoProtocolError ScreenAgreement QueriesKeptUntilParsed
SYMMETRY StreamSymmetry
CHECK_DEADLOCK FALSE
