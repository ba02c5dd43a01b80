CONSTANTS
  HistoryCap = 2
  SnapshotSize = 2
  Sockets = {k1, k2}
  ChannelCap = 1
  FrameCap = 2
  WindowCap = 2
  PendingCap = 2
  MaxOutputs = 2
  MaxUp = 0
  Clients = {b1}
  NoSocket = NoSocket
  Buttons = {}
  Keys = {}
  Sessions = {s1, s2}
  ViewOnly = {}
  Channels = {c1}
  NoSession = NoSession
  NoChannel = NoChannel
  Callers = {d1, d2}
  MaxAge = 0
  MaxNow = 1
  Never = Never
  Users = {u1, u2}
  NoUser = NoUser
  Hosts = {h1}
  NoHost = NoHost
  Ports = {o1}
  Calls = {}
  MaxFailures = 1
SPECIFICATION LiveSpec
PROPERTIES CatchesUp ImplementsLog WaitersServed
CHECK_DEADLOCK FALSE
