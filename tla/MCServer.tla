------------------------------ MODULE MCServer -----------------------------
(* The independent components of the server, each explored by itself:       *)
(* `focus` names the one that moves, so the state space is the sum of       *)
(* theirs and not the product.  Its state is in s1, s2, ..., whatever it is *)
(* called in its module; those it does not need stay empty.  The delivery   *)
(* of terminal output is extended and not instantiated: its properties keep *)
(* the names its proofs use.                                                *)
EXTENDS TerminalDelivery, Viewers

CONSTANTS
  Absent, Projects, PageNames, PageContents, Tokens, Writers, SiteTarget,
  MaxRequests,
  Tasks, Sizes, DefaultSize, NoSize, MaxResizes,
  Primary, Linked, UserNames, Refreshers, MaxProjectPuts, MaxRefreshes,
  Callers, MaxAge, MaxNow, Never,
  Passwords, Requests, Putters, Revoked, MaxPuts, MaxRestarts,
  MaxLength,
  Users, NoUser, Hosts, NoHost, Ports, Calls, MaxFailures,
  MaxSessions, Clients,
  LaunchProjects, FirstProject, LaunchDirs, LinkedDirs, MainDir, Launches,
  MaxEdits,
  GitPaths, GitVersions, Matches,
  ReportPaths, Unreadable,
  PageSize, MaxCommits,
  Tabs, NoTab, ConnectionCap, QueueCap, MaxInputs, MaxTakeOvers,
  EntryNames, Outside, Texts, BlankText, Blob, MaxChanges

VARIABLE focus

suite == <<focus, vars, s1, s2, s3, s4, s5, s6, s7, s8, s9, s10, s11, s12, s13, s14, s15, s16>>

\* What a component of n variables leaves empty.
unused13 == <<s14, s15, s16>>
unused12 == <<s13, unused13>>
unused9 == <<s10, s11, s12, unused12>>
unused8 == <<s9, unused9>>
unused7 == <<s8, unused8>>
unused6 == <<s7, unused7>>
unused5 == <<s6, unused6>>
unused4 == <<s5, unused5>>
unused2 == <<s3, s4, unused4>>
unused0 == <<s1, s2, unused2>>

Empty13 == s14 = 0 /\ s15 = 0 /\ s16 = 0
Empty12 == s13 = 0 /\ Empty13
Empty9 == s10 = 0 /\ s11 = 0 /\ s12 = 0 /\ Empty12
Empty8 == s9 = 0 /\ Empty9
Empty7 == s8 = 0 /\ Empty8
Empty6 == s7 = 0 /\ Empty7
Empty5 == s6 = 0 /\ Empty6
Empty4 == s5 = 0 /\ Empty5
Empty2 == s3 = 0 /\ s4 = 0 /\ Empty4
Empty0 == s1 = 0 /\ s2 = 0 /\ Empty2

Store == INSTANCE Catalog
  WITH Names <- PageNames, Contents <- PageContents, Site <- SiteTarget,
       project <- s1, row <- s2, share <- s3, file <- s4, writer <- s5,
       requests <- s6, overlapped <- s7, leaked <- s8
Control == INSTANCE TerminalControl
  WITH clients <- s1, nextId <- s2, parserSize <- s3, ptySize <- s4,
       task <- s5, resizes <- s6, overlapped <- s7
Worktrees == INSTANCE WorktreeDiscovery
  WITH MaxPuts <- MaxProjectPuts, life <- s1, dirOf <- s2, record <- s3,
       refresher <- s4, lock <- s5, puts <- s6, refreshes <- s7,
       collided <- s8, unlocked <- s9, settled <- s10, made <- s11,
       misled <- s12
Refresh == INSTANCE GitRefresh
  WITH now <- s1, queue <- s2, leader <- s3, completedAt <- s4,
       fetchedAt <- s5, caller <- s6, snapshotTime <- s7, fetchTime <- s8,
       blankTime <- s9
Gate == INSTANCE Gateway
  WITH MaxNow <- 1, clock <- s1, memory <- s2, disk <- s3, put <- s4,
       putCount <- s5, raced <- s6, secret <- s7, link <- s8, target <- s9,
       request <- s10, held <- s11, proved <- s12, spoiled <- s13
Static == INSTANCE StaticServing
  WITH tree <- s1, ask <- s2, answer <- s3, steady <- s4
Hosting == INSTANCE ServiceHosts
  WITH session <- s1, service <- s2, supervisor <- s3, host <- s4,
       endpoint <- s5, call <- s6, process <- s7, failures <- s8
Terminals == INSTANCE TerminalManager
  WITH shell <- s1, session <- s2, listed <- s3, client <- s4,
       abandoned <- s5, disturbed <- s6
T3 == INSTANCE T3Launch
  WITH Projects <- LaunchProjects, First <- FirstProject, Dirs <- LaunchDirs,
       dirOf <- s1, enabled <- s2, record <- s3, edits <- s4, up <- s5,
       launch <- s6
Actions == INSTANCE GitActions
  WITH Paths <- GitPaths, Versions <- GitVersions, head <- s1, born <- s2,
       index <- s3, work <- s4, req <- s5
Reports == INSTANCE GitReports
  WITH Paths <- ReportPaths, Versions <- GitVersions, head <- s1, born <- s2,
       index <- s3, work <- s4, reader <- s5
History == INSTANCE GitHistory
  WITH commits <- s1, pager <- s2
Nvim == INSTANCE NeovimSessions
  WITH ChannelCap <- ConnectionCap, tab <- s1, actor <- s2, channel <- s3,
       pipe <- s4, replies <- s5, exited <- s6, applied <- s7
Editor == INSTANCE FileService
  WITH Names <- EntryNames, Blank <- BlankText, node <- s1, text <- s2,
       request <- s3, changes <- s4, astray <- s5, had <- s6

\* One name reads as a pattern that matches every path, the others match themselves.
SmallMatches ==
  [p \in GitPaths |-> IF p = (CHOOSE q \in GitPaths : TRUE) THEN GitPaths ELSE {p}]

\* The constants are such as the code can have them.
ASSUME SuiteAssumptions ==
  /\ Control!SizeAssumption /\ Control!ResizesAssumption
  /\ Store!CatalogAssumption
  /\ Worktrees!WorktreeAssumption
  /\ Refresh!RefreshAssumption
  /\ Gate!GatewayAssumption
  /\ Hosting!HostsAssumption
  /\ Terminals!TerminalsAssumption
  /\ T3!LaunchAssumption
  /\ Actions!ActionsAssumption
  /\ Static!ServingAssumption
  /\ Editor!FilesAssumption
  /\ History!HistoryAssumption
  /\ Nvim!SessionAssumption

FocusInit ==
  \/ focus = "delivery" /\ Empty0
  \/ focus = "store" /\ Store!Init /\ Empty8
  \/ focus = "control" /\ Control!Init /\ Empty7
  \/ focus = "worktrees" /\ Worktrees!Init /\ Empty12
  \/ focus = "refresh" /\ Refresh!Init /\ Empty9
  \/ focus = "gateway" /\ Gate!Init /\ Empty13
  \/ focus = "static" /\ Static!Init /\ Empty4
  \/ focus = "hosts" /\ Hosting!Init /\ Empty8
  \/ focus = "terminals" /\ Terminals!Init /\ Empty6
  \/ focus = "t3" /\ T3!Init /\ Empty6
  \/ focus = "gitActions" /\ Actions!Init /\ Empty5
  \/ focus = "gitReports" /\ Reports!Init /\ Empty5
  \/ focus = "gitHistory" /\ History!Init /\ Empty2
  \/ focus = "neovim" /\ Nvim!Init /\ Empty7
  \/ focus = "files" /\ Editor!Init /\ Empty6
  \/ focus = "screens" /\ Screens!Init /\ Empty8
  \/ focus = "peers" /\ Peers!Init /\ Empty9
  \/ focus = "capture" /\ Capture!Init

SuiteInit == Init /\ FocusInit

FocusNext ==
  \/ focus = "store" /\ Store!Next /\ UNCHANGED unused8
  \/ focus = "control" /\ Control!Next /\ UNCHANGED unused7
  \/ focus = "worktrees" /\ Worktrees!Next /\ UNCHANGED unused12
  \/ focus = "refresh" /\ Refresh!Next /\ UNCHANGED unused9
  \/ focus = "gateway" /\ Gate!Next /\ UNCHANGED unused13
  \/ focus = "static" /\ Static!Next /\ UNCHANGED unused4
  \/ focus = "hosts" /\ Hosting!Next /\ UNCHANGED unused8
  \/ focus = "terminals" /\ Terminals!Next /\ UNCHANGED unused6
  \/ focus = "t3" /\ T3!Next /\ UNCHANGED unused6
  \/ focus = "gitActions" /\ Actions!Next /\ UNCHANGED unused5
  \/ focus = "gitReports" /\ Reports!Next /\ UNCHANGED unused5
  \/ focus = "gitHistory" /\ History!Next /\ UNCHANGED unused2
  \/ focus = "neovim" /\ Nvim!Next /\ UNCHANGED unused7
  \/ focus = "files" /\ Editor!Next /\ UNCHANGED unused6
  \/ focus = "screens" /\ Screens!Next /\ UNCHANGED unused8
  \/ focus = "peers" /\ Peers!Next /\ UNCHANGED unused9
  \/ focus = "capture" /\ Capture!Next

SuiteNext ==
  /\ UNCHANGED focus
  /\ \/ focus = "delivery" /\ Next /\ UNCHANGED unused0
     \/ FocusNext /\ UNCHANGED vars

SuiteSpec == SuiteInit /\ [][SuiteNext]_suite

-----------------------------------------------------------------------------
(* Every component keeps its types, and with them what makes its properties  *)
(* below inductive: the invariants the theorems of the suite are proved from. *)
TypesOK ==
  /\ focus = "delivery" => DeliveryInv
  /\ focus = "store" => Store!StoreInv
  /\ focus = "control" => Control!ControlInv
  /\ focus = "worktrees" => Worktrees!WorktreesInv
  /\ focus = "refresh" => Refresh!TypeOK /\ Refresh!RefreshInv
  /\ focus = "gateway" => Gate!GatewayInv
  /\ focus = "static" => Static!ServingInv
  /\ focus = "hosts" => Hosting!HostsInv
  /\ focus = "terminals" => Terminals!TerminalsInv
  /\ focus = "t3" => T3!LaunchInv
  /\ focus = "gitActions" => Actions!ActionsInv
  /\ focus = "gitReports" => Reports!ReportsInv
  /\ focus = "gitHistory" => History!HistoryInv
  /\ focus = "neovim" => Nvim!SessionInv
  /\ focus = "files" => Editor!FilesInv
  /\ focus = "screens" => Screens!ScreensInv
  /\ focus = "peers" => Peers!TypeOK /\ Peers!PeersInv
  /\ focus = "capture" => Capture!CaptureInv

(* Catalog: rows that refer to each other go together; without overlapping  *)
(* requests a stored page has its file, and a file that no page refers to   *)
(* does not stay.                                                           *)
StoreConsistent == focus = "store" =>
  /\ Store!ReferencesHold
  /\ Store!SerialPagesReadable
  /\ Store!SerialStoreClean

(* Catalog: a stored page keeps its file whatever other requests do, as     *)
(* "prunes unreferenced content files" promises (storage.rs:895).           *)
StorePageKept == focus = "store" => Store!PageContentKept

(* TerminalControl: without overlapping calls the controller's size holds.  *)
ControlSerial == focus = "control" => Control!SerialControl

(* WorktreeDiscovery: the two tables speak of the same directories, and a   *)
(* refresh that knows the disk leaves a project for every worktree and none *)
(* for what is gone, unless a user's project collides or the one that led a *)
(* refresh had moved away.                                                  *)
WorktreesConsistent == focus = "worktrees" =>
  /\ Worktrees!RecordsAgree
  /\ Worktrees!DiscoveryMirrorsDisk

(* WorktreeDiscovery: the lock keeps old lists from being reconciled, and a *)
(* refresh leaves what users decided alone.                                 *)
WorktreeRefreshesSafe == [][focus = "worktrees" => Worktrees!LockedDropsOnlyGone /\ Worktrees!UserChoicesKept]_suite

(* WorktreeDiscovery: a refresh that knows the disk leaves the same         *)
(* wherever users put projects between refreshes (storage.rs:818).          *)
WorktreesFollowDisk == focus = "worktrees" => Worktrees!DiscoveryFollowsDisk

(* GitRefresh: who is answered sees a snapshot of the kind it asked for,    *)
(* taken since it asked or lately, unless the refresh it rests on could not *)
(* list the projects.                                                       *)
RefreshAnswersCurrent == focus = "refresh" => Refresh!AnswersCurrent

(* Gateway: whoever is let in has told this process the password of this    *)
(* very lock, a link that is out of use, or an archived deployment, is not  *)
(* served, and replacements one at a time leave file and process alike,     *)
(* except that a write that fails leaves the file cut.                      *)
GateSound == focus = "gateway" =>
  /\ Gate!AccessProved
  /\ Gate!DisabledRefused
  /\ Gate!SerialConfigAgrees

(* StaticServing: what is sent is what the range names of the file that was *)
(* asked for.                                                               *)
StaticRangesExact == focus = "static" => Static!RangesExact

(* ServiceHosts: requests work as the user whose helper was published,      *)
(* helpers and processes do not outlive the supervisor's hold, the endpoint *)
(* is that of the session last seen, and no captured process runs           *)
(* unawaited.                                                               *)
HostsSound == focus = "hosts" =>
  /\ Hosting!ServedAsUser
  /\ Hosting!NoneSurvives
  /\ Hosting!EndpointCurrent
  /\ Hosting!CapturedAwaited

(* TerminalManager: running shells can be found and closed, scopes are kept *)
(* apart, a session said to be dead is, and titles are distinct unless      *)
(* creations overlap or a session is closed.                                *)
TerminalsSound == focus = "terminals" =>
  /\ Terminals!ShellsReachable
  /\ Terminals!ScopeKept
  /\ Terminals!AliveTold
  /\ Terminals!TitlesDistinct

(* T3Launch: the worktree a redirect leads to is of the repository that was *)
(* registered, unless that very project was moved meanwhile or not where    *)
(* its row says.                                                            *)
T3LaunchesSound == focus = "t3" => T3!RedirectConsistent

(* GitReports, GitHistory: a report of a tree that stands still shows       *)
(* exactly its changes, the editor's baseline is what HEAD has, and the     *)
(* pages of the history fit together.                                       *)
GitReportsExact == 
  /\ focus = "gitReports" => Reports!ReportExact /\ Reports!DiffsListed /\ Reports!BaselineRight
  /\ focus = "gitHistory" => History!PagesContiguous

(* GitActions: a step of a request spares what the action is not about,     *)
(* whatever has changed since git was asked.                                *)
GitActionsSpare == [][focus = "gitActions" => Actions!StepsSpare /\ Actions!UnstagedAsCommitted]_suite

(* NeovimSessions: input takes effect in its order, gets lost neither to    *)
(* another tab nor without one, and is held back exactly while a paste or a *)
(* file is under way.                                                       *)
NeovimInputSound == focus = "neovim" =>
  /\ Nvim!InputInOrder
  /\ Nvim!InputKept
  /\ Nvim!PendingExact

(* NeovimSessions: "Only process exit, an unrecoverable RPC error or host   *)
(* shutdown ends a session" (workspace/neovim.rs:403).                      *)
NeovimSurvivesInput == focus = "neovim" => Nvim!SessionSurvivesInput

(* FileService: what a listing shows can be opened, and whatever others do  *)
(* in the tree, the editor shows what the file its path leads to has had,   *)
(* and what it saves is there.                                              *)
FilesFaithful == focus = "files" =>
  /\ Editor!ListingOpens
  /\ Editor!EditorFaithful

(* PeerSession, DesktopScreens, DesktopCapture: a page and its session task *)
(* understand each other however the page changes its WebSocket, and leave  *)
(* nothing behind; a screen of the viewer stands for its monitor, and a new *)
(* resolution is told as it was asked for; what is sent shows one whole     *)
(* desktop and, at rest, the one that is.                                   *)
ViewersServed == 
  /\ focus = "peers" => Peers!SignalsFit /\ Peers!CandidatesKept /\ Peers!AddressesResolved /\ Peers!NothingLeft
  /\ focus = "screens" => Screens!IdsLead /\ Screens!ChangeTold
  /\ focus = "capture" => Capture!FramesWhole /\ Capture!LatestShown /\ Capture!ErrorsLast

(* DesktopScreens: the stream keeps the desktop's shape within its caps,    *)
(* and what is pointed at in the viewer is what is hit.                     *)
PointersLand == focus = "screens" =>
  /\ Screens!FrameFits
  /\ Screens!PointerLands

=============================================================================
