CONSTANTS
  HistoryCap = 2
  SnapshotSize = 2
  Sockets = {k1}
  ChannelCap = 1
  FrameCap = 2
  WindowCap = 1
  PendingCap = 2
  MaxOutputs = 3
  MaxUp = 1
  Absent = Absent
  Projects = {p1}
  PageNames = {d1, d2}
  PageContents = {a, b}
  Tokens = {t1}
  Writers = {w1, w2}
  SiteTarget = SiteTarget
  MaxRequests = 3
  Tasks = {t1, t2, t3}
  Sizes = {small, large}
  DefaultSize = DefaultSize
  NoSize = NoSize
  MaxResizes = 4
  Primary = Primary
  Linked = {1}
  UserNames = {u}
  Refreshers = {r1, r2}
  MaxProjectPuts = 1
  MaxRefreshes = 2
  Callers = {c1, c2}
  MaxAge = 1
  MaxNow = 2
  Never = Never
  Passwords = {w1, w2}
  Requests = {q1}
  Putters = {p1}
  Revoked = Revoked
  MaxPuts = 1
  MaxRestarts = 1
  MaxLength = 2
  Users = {u1, u2}
  NoUser = NoUser
  Hosts = {h1, h2}
  NoHost = NoHost
  Ports = {o1, o2}
  Calls = {k1}
  MaxFailures = 1
  MaxSessions = 2
  Clients = {b1, b2}
  LaunchProjects = {j1, j2}
  FirstProject = j1
  LaunchDirs = {m1, m2, m3}
  LinkedDirs = {m2}
  MainDir = m1
  Launches = {l1}
  MaxEdits = 3
  GitPaths = {f1, f2}
  GitVersions = {v1, v2}
  Matches <- SmallMatches
  ReportPaths = {f1}
  Unreadable = {}
  PageSize = 2
  MaxCommits = 5
  Tabs = {b1, b2}
  NoTab = NoTab
  ConnectionCap = 1
  QueueCap = 2
  MaxInputs = 3
  MaxTakeOvers = 1
  EntryNames = {a1, a2}
  Outside = Outside
  Texts = {x1}
  BlankText = BlankText
  Blob = Blob
  MaxChanges = 2
  Displays = {2, 3}
  Modes <- SmallModes
  Limit <- SmallLimit
  Caps <- SmallCaps
  MaxMoves = 1
  Connections = {1, 2}
  Resolvable = {1}
  MaxBreaks = 1
  Outputs = {1, 2}
  Tiles = {1, 2}
  MaxPaints = 1
  MaxSwitches = 1
  MaxAsks = 1
SPECIFICATION SuiteSpec
INVARIANTS NeovimSurvivesInput
CHECK_DEADLOCK FALSE
