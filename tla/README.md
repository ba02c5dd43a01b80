# Latitude in TLA+

This directory holds the TLA+ model of Latitude: modules translated from the
Rust server and its web client, the configurations that model-check them with
TLC, and proofs checked by TLAPS.  `PROJECT.json` lists the components, the
runs, the source lines each definition stands for, the known hazards of the
code and the theorems.  Paths below are relative to the repository.

## 1. The system

Latitude is a gateway on a developer's machine.  One process (`src/src/main.rs`,
`server.rs`) serves a public HTTP listener and a local command listener; in
service mode a Windows service (`windows_service_host/`) also keeps two helper
processes alive, one for the desktop and one for the signed-in user's
workspace, and forwards to them.  Clients are web pages (`server/assets/*.js`)
and a mobile application (`mobile/`).

| Component | State | Operations | What is hard | What makes it correct |
|---|---|---|---|---|
| Terminal session (`terminal.rs`) | output history with sequence numbers, vt100 screen, pending terminal queries, client registry, PTY size | PTY output, replay, acknowledge, input, attach, detach, resize, kill | a blocking reader thread and many connection tasks share it under four locks; history is evicted | every client can be brought to the present without gaps; a query is kept until some client has seen it; the terminal has the controller's size |
| Terminal connection (`server/terminal_api.rs`) | subscription, queue, delivery window, last queued sequence | hello, send, receive, lag, acknowledge, close | a broadcast channel that drops its oldest messages, a bounded window, a hello that may be late | no chunk is lost, repeated or reordered; the window stays bounded |
| Web terminal (`assets/terminal-stream.js`, `terminal-viewer.js`) | socket, last parsed sequence, write in progress, buffered frames | connect, open, ready, frame, callbacks, reconnect | callbacks of one socket arrive while the next one is active; the parser is asynchronous and may throw | the screen is the one the client claims to have; output is never applied to the wrong screen |
| Terminal manager (`terminal.rs`) | sessions by id and scope | create, list, close | titles are counted under one lock and used later | a closed session ends; titles tell sessions apart |
| Desktop input controller (`desktop/native/controller.rs`, `input.rs`) | owner, waiting queue, a lease per session, held keys and buttons | subscribe, activate, apply, unregister | data-channel callbacks and the session task race; `SendInput` may fail half-way | one controller at a time, the next waiter takes over, nothing stays pressed |
| Desktop video hub (`desktop_webrtc/video.rs`) | producers by settings with generation and subscribers | subscribe, release, request key frame, write frames | producers are shared, replaced and may die; only the latest frame is kept | a viewer gets a key frame first, or an error; a stale release touches no newer producer |
| Desktop session (`desktop_webrtc/mod.rs`, `peer.rs`, `ice.rs`) | peer, control channel, pipeline | offer, answer, candidates, channel callbacks, cleanup | cleanup against callbacks in flight | everything a session took is given back |
| Catalog store (`storage.rs`, `storage/shares.rs`) | SQLite rows, content files | create, replace, delete, publish, read, share | checks outside transactions; files shared by content hash are pruned while others write | a stored page has its file; deletes cascade |
| Desktop capture (`desktop_webrtc/gpu.rs`, `video.rs`) | a duplication per output, one picture, a one-place channel to the encoder thread | update, capture, encode, fall back | Windows draws and switches desktops between the copies of two outputs | a frame shows one whole desktop, and at rest the present one |
| Desktop geometry (`desktop/display.rs`, `native/mod.rs`) | the monitors, the last announced rectangle | list, fit, scale, announce, set a resolution | rounding; monitors that change after they were listed | what is pointed at is what is hit |
| Worktree reconciliation (`storage/worktrees.rs`, `server/git/discovery.rs`) | worktree rows | reconcile, archive | runs against user edits and other refreshes | a user's project is left alone; every worktree has a project |
| Application state (`state.rs`) | configuration, Git refresh lock, statuses | acquire and complete a refresh, replace the configuration | a refresh is shared by those who wait for it; save and publish are two steps | nobody reuses a refresh older than allowed |
| Windows service (`windows_service_host/`) and bridge (`workspace/`) | child processes, endpoints, requests in flight | tick, spawn, health check, clear, stop; execute, proxy | session switches while a child starts; endpoints replaced under requests; ports handed out again | a request works as the user whose helper was published; nothing outlives the service |
| Neovim sessions (`workspace/neovim.rs`) | session actor, input queue, one UI | attach, input, RPC results | an actor that ends while sockets are handed to it | input order, one UI at a time |
| Sharing and serving (`server/public/`, `server/auth.rs`) | cookies, share rows, the secret of the process | login, serve | revocation, expiry, archiving and restarts between steps | a value proves the password of one lock; an expired link serves nothing |
| Static files and ranges (`http_stream.rs`, `server/public/deployment.rs`) | none | look up, measure, read | the file changes in between | exactly the named bytes |
| Git (`server/git/`) | none: the repository's | stage, unstage, discard, commit, pull; diffs, history | several git commands per request, others work in the tree | nothing is taken that the action is not about; a report is exact |
| Project files (`project_files.rs`) | none: the project's | list, read, save, search | links and files change in between | the editor shows what the file its path leads to has had, and what it saves is there |
| T3 Code (`server/t3code.rs`) | none | launch, forward | four reads and two programs per launch | the id and the worktree of a redirect are of one repository |
| Rendering, configuration parsing, CLI | none of their own | write markup, parse | - | - |
| Mobile app (`mobile/src`) | session records, requests | login, switch, latest request | storage read-modify-write | - |

Components talk by calls under Tokio locks (session, controller, hub, store),
by channels (the broadcast channel of a terminal, watch channels of leases,
frames and stop flags), by websockets and data channels (clients) and by
loopback HTTP (helpers).

## 2. The project

| Area | Modules | Proofs |
|---|---|---|
| Terminal stream | `TerminalSession`, `TerminalDelivery`, `TerminalStream`, `OutputLog` (abstract) | `TerminalProofs` |
| Terminal size and manager | `TerminalControl`, `TerminalManager` | `RequestProofs`, `WorkspaceProofs` |
| Desktop control | `NativeInput`, `DesktopControl` | `DesktopControlProofs` |
| Desktop video | `VideoHub`, `DesktopCapture` | `VideoHubProofs`, `ViewerProofs` |
| Desktop connection and geometry | `PeerSession`, `DesktopScreens` | `ViewerProofs` |
| Catalog | `Catalog`, `WorktreeDiscovery` | `CatalogProofs` |
| Public listener | `Gateway`, `StaticServing` | `RequestProofs` |
| Git | `GitRefresh`, `GitTree` with `GitActions` and `GitReports`, `GitHistory` | `RequestProofs`, `WorkspaceProofs` |
| Helper processes | `ServiceHosts` | `HelperProofs` |
| Workspace | `NeovimSessions`, `FileService`, `T3Launch` | `HelperProofs`, `WorkspaceProofs` |

`MCTerminalStream`, `MCTerminalControl`, `MCDesktopControl`, `MCVideoHub`,
`MCLive` and `MCServer` instantiate them for TLC.

**The suite.**  Most components of the server share no state: a Git refresh does
not meet the Neovim actor.  `MCServer` therefore instantiates many modules in
one specification with a variable `focus` that is chosen in the initial state
and never changes; only the component in focus takes steps, and its variables
are all the state there is (`s1`, `s2`, ..., shared by the instances), so that a
state costs no more than the component's own.  The state space is the sum of
theirs and not the product, and each property speaks of one component or of a
few that belong together.  What a viewer of the desktop has to do with is in
`Viewers`, which holds three of the instances with their constants and the
shared variables, so that their proofs do not have to carry the whole suite;
`MCServer` extends it.  `MCLive` does the same for
liveness, with each component's own fairness.  Where components do interact,
they are composed in a module: the session, its tasks and the browser in
`TerminalStream`, the input controller and the session tasks in
`DesktopControl`, the hub, its threads and the viewers' tasks in `VideoHub`, the
page and its session tasks in `PeerSession`, the supervisor, its helpers and the
requests in `ServiceHosts`, the git commands and who runs them in `GitActions`.

| Run | Kind | Section |
|---|---|---|
| `stream` | browsers and server through losses, lags and snapshots | 3 |
| `live` | what must happen in the end | 3.3, 5, 9, 11 |
| `server` | the suite | 3, 4, 6-13 |
| `desktop`, `video`, `video_keyframe` | | 5, 6 |
| `live_screen`, `control_race`, `video_error`, `store_prune`, `worktree`, `neovim` | disagreements of the code with its own words | 3.4, 4, 6, 8, 8, 13 |

**Theorems about the suite.**  A theorem such as `SuiteSpec => []HostsSound`
speaks of the component as `MCServer` instantiates it, for every value of the
constants that `SuiteAssumptions` and `ViewerAssumptions` allow.  Its proof has the same three facts
for every component: the component's initial condition makes its inductive
invariant true, its next-state relation preserves it (one lemma per action or
group of actions), and a component that is not in focus does not move.  The
inductive invariant is in the component's module and is what the property needs
beside itself: what is known in the middle of an operation.  TLC checks all of
them as `TypesOK` of the run `server`.

**What stays with TLC** is said at the end of this file: liveness, two invariants
that need induction over data or arithmetic the provers do not find, and the
parts of `TypesOK` that no theorem needs.

## 3. Terminal stream

### 3.1 Modules

`TerminalSession` is the output side of one `TerminalSession` of
`src/src/terminal.rs`.  Everything in it happens under the session's state
mutex, so its operators are single steps: `Push` (numbering, eviction and the
queries the parser met), `Acknowledge`, `WriteAnswer`, and `Replay` with
`ReplayEffect` (`TerminalState::replay_after`: a client that the history can
serve resumes; any other gets the screen, after a boundary chunk that is
numbered and published under the same lock).  A chunk of output is its
sequence number, sizes are in units of one PTY read, and the screen of the
server's parser after chunk n is n.

`TerminalDelivery` adds the connection tasks (`terminal_websocket_session`):
one action per thing the task's code does between two awaits: `ReceiveHello`,
`IgnoreMessage`, `HelloTimeout`, `SendFrame` (takes as many chunks as fit and
sends them as one frame), `ReceiveOutput`, `ReceiveLagged`, `ReceiveAck`,
`ReceiveAnswer`, `DetectLoss`; and `PtyOutput` for the reader thread.  The
broadcast channel is the part of the session's sequence between a receiver's
position and `next`; its receiver is lagged when more than `ChannelCap` are
waiting.  Messages from the client are arbitrary here (`Spec`).

`TerminalStream` puts the browser in place of the arbitrary client: the output
writer as functions on a record (`Begin`, `End`, `Fail`, `Drain`,
`AcceptReady`, `AcceptFrame`, `ResetDone`, `OutputDone`), and the controller
(`Connect`, `Open`, `Receive`, `WriteDone`, `CloseEvent`, `DropSocket`).
`Drain` and `AcceptReady` have two outcomes because `terminal.write` may throw.
`WriteDone` takes the answers xterm emits while it parses together with the
callback of the same write: nothing else of this client runs between them
except further parsing.  xterm.js itself (`Parsed`, `QueriesIn`) is external,
modelled from how the writer uses it.

`OutputLog` is what the stream promises: output only grows, and every client's
position only moves forward to a point that has been produced, or is given up
when the client asks for a reset.

### 3.2 Runs

| Run | Question | Bounds |
|---|---|---|
| `server` (its component `delivery`) | does one task keep its promises to any client at all? | 1 socket, 3 chunks, history 2, channel 1, window 1, frame 2, 1 client message under way |
| `stream` | do browsers and server agree through losses, lags and snapshots? | 2 browsers, 2 sockets between them, 3 chunks, history 2, channel 1, window 2 |
| `live` | does a browser that keeps its socket catch up, and is its way there that of a log? | 1 browser, 2 sockets, 2 chunks |
| `live_screen` | does live output run on the right screen? (violated) | 1 browser, 2 sockets, 3 chunks |

The history holds two units, the channel one message, and the runs produce up
to three chunks, so
eviction, lag past the history, lag within it, coalescing into frames of more
than one chunk and window exhaustion all occur (each is needed to kill one of
the mutants in `PROJECT.json`).  The names of the bounds are `MaxOutputs`
(chunks the PTY produces), `MaxUp` (arbitrary messages under way to a task),
`HistoryCap`, `ChannelCap`, `SnapshotSize`, `FrameCap`, `WindowCap` and
`PendingCap` (the queue of a task); sockets are never reused, so their number bounds the
reconnects.  Deadlock checking is off: a behaviour ends when the
sockets and the output are used up.

Properties: `QueueContiguous` and `WireContiguous` (what is queued, what waits
in the channel and what is on the wire follow each other without gap or
repetition up to the present), `WindowBounded` (unacknowledged units never
exceed the window by more than one frame), `OnlySentQueriesForgotten` and
`QueriesKeptUntilParsed` (an acknowledgement never clears a query that nobody
was sent, nor one nobody parsed), `NoProtocolError` (output never trips the
writer's own checks), `ScreenAgreement` (an idle client shows exactly what it
claims), `StreamInv` (why they hold, see 3.5), `ImplementsLog` (refinement of
`OutputLog`) and `CatchesUp`.

### 3.3 Fairness

`FairStreamSpec` asks weak fairness of each task's send loop, of its channel
receive, its socket receive and its loss detection, each on its own: tokio's
`select!` polls its ready branches in random order, so none is passed over for
ever.  Of the browser it asks that events are delivered, that xterm calls back
and that the reconnect timer fires.  It asks nothing of the PTY, the network or
the hello timeout, and `CatchesUp` only speaks of a browser that from some
point on keeps one socket.

### 3.4 Divergence

`LiveScreenAgreement` states the comment at `terminal.rs:585-588`: the snapshot
is reparsed so that server and client agree on the state future live output
runs on.  The run `live_screen` violates it: after `ready {reset: true}` the
writer records the base sequence as soon as the reset is parsed
(`terminal-stream.js:168`); when the socket drops before the snapshot frame,
the next hello resumes from that base, gets only the boundary and later output,
and the client continues on a blank screen.  `ScreenAgreement` and the query
properties exclude behaviours after that (`skipped`), so that they still say
something about everything else.

### 3.5 Proofs

`TerminalProofs` proves first for every number of sockets, every capacity and
every output that `TypeOK`, `DeliveryInv`, `QueueContiguous`, `WireContiguous`
and `OnlySentQueriesForgotten` hold of `Spec`, from the named assumptions on
the constants only.  `QueueContiguous` is not inductive: a step that recovers
from lag replays from `lastQueued`, so one has to know that this never runs
ahead of the session, that the receiver's position equals it while nothing is
in the channel, that a snapshot's boundary is exactly the next number, and that
the sequence numbers in the window are below what was sent.  `DeliveryInv`
gathers these facts; TLC checks it as a part of `TypesOK` in `server`, and it is shown
initial and preserved action by action.  The others follow from it; the action
property uses it to bound the acknowledgements a connection accepts.

The module then puts the browsers there: `StreamInv`, `NoProtocolError`,
`ScreenAgreement`, `QueriesKeptUntilParsed` and `ImplementsLog` hold of
`StreamSpec` for any number of browsers and sockets, any capacities and any
losses.  None of them is inductive.  Whether the next frame fits depends on
every message between the task and the parser, and whether the session may
forget a query depends on what all clients have been sent.  `StreamInv` follows
the way of a chunk for each socket:

* `SocketOwned`: a socket that was ever connected has at most one client, and a
  task without a client hears nothing new.
* `Handshake`, made of `Waits` (before the `ready` message is taken) and
  `Follows` (after it): how far the two ends are with each other.  The hello
  that is under way, the answer to it, and the frames on the wire and in the
  writer's buffer lead from where the client is to where the task is, without a
  gap.
* `WireBounds`, `ViewBounds`: nothing is ahead of the session, no
  acknowledgement ahead of what was sent.
* `WireHonest`, `ViewHonest`, `ScreenInv`: what the frames and the screen are
  worth.  A frame carries every query asked in the chunks it covers that no
  terminal has parsed, an acknowledgement covers only what was parsed, and a
  screen that does not show its position is owed a snapshot which is under way.
  They are under the proviso `~skipped`, like the properties that need them.
* `QueriesInv`: a query that the session no longer keeps has been parsed.
* `DeliveryInv`, which the steps of the server are known to keep.

TLC checks `StreamInv` in `stream`.  The lemmas before the last hundred lines
have no variables: they speak of one view, one task and the two wires between
them, before and after one operation (`Sync` and `Worth` bundle the parts
above), first for what the writer does, then for what a step of the task means
to the other end (`Quiet`, `Queues`, `Greets`, `Sends`).  Then there is one lemma
for each of the controller's steps (`LeaveStep`, `OpenStep`, `ReceiveStep`,
`WriteDoneStep`) and one for those of the server, which also say that the other
sockets are not concerned.  For the refinement, a client's place (`ClientPlace`)
only moves as `GetsOn` says, which is a step of `OutputLog`.

Not proved: `WindowBounded` (its sum over the window is a recursive function,
and induction over data is out of the prover's reach), and liveness.

## 4. Terminal size

`TerminalControl` models who sets the size: `TerminalClients` keeps clients in
connection order, the first controls.  A `resize` or `detach_client` decides
under the clients lock, then `resize_pty` applies the size to the parser under
the state lock and to the PTY under the master lock; these are three steps
(`Resize`/`Detach`, `ResizeParser`, `ResizePty`) of a task.  `DefaultSize` and
the sizes are values; clamping is left out.

`server` (3 connections, 2 sizes, 4 resizes: every order of arrival, leaving
and hand-over) shows `ControlSerial`, which is `SerialControl` of the module: as long as calls do not overlap, the
terminal ends with the size its controller said last.  `control_race` drops the
proviso and violates `ControllerSizeApplied`: two calls decide in one order and
apply in the other, or interleave between the two locks, and the PTY keeps the
size of a client that is not in control.  `RequestProofs` proves `ControlSerial` for any number of connections: as long as
calls do not overlap, the one call under way is applying the size of the client
in front, and the parser already has it when the PTY is next (`OneApplies`).
`MaxResizes` is the only bound
besides the sets; connections do not come back, as in the code, where each
websocket has its own task.

## 5. Desktop control

`DesktopControl` models `NativeInputController`: `owner`, `waiters`, the
registered sessions, and a watch channel per session (`lease` its value,
`unseen` whether the session task has read it).  Every call of the controller
is one step, because it holds the controller's mutex throughout.  The calls are
made by tasks that interleave freely: the session task (`Subscribe`,
`SetupFails`, `SetupDone`, `TellClient`, `EndSession`, `CleanUp`) and the
callbacks of each control channel.  `on_open` and `on_close` first take the
`control_channel` lock and then call the controller, so each is two steps
(`OnOpenSet`, `OnOpenActivate`; `OnClose`, `OnCloseRelease`), and the steps of
one may fall between those of another.  That webrtc calls `on_close` after the
last message, and starts each `on_open` once, is taken from how `peer.rs` uses
it.

`NativeInput` is what a command does to the keys and buttons: it returns the
possible outcomes, what is tracked, what Windows holds, and whether every event
went through.  `SendInput` may take only the first few events of a call; then
the tracked state stays as it was, although the taken events have happened.
Pointer positions, the wheel and text leave nothing pressed and are left out.

The run `desktop` has two controlling sessions with two channels each, a
session that only views, a button and a key, and checks types, `LeaseAgrees`,
`OnlyLiveSessionsControl`, `NothingStuck`, `ClientTold` and `HandOverReleases`.
Two sessions contend and wait, and two channels are the fewest for a close that
is not the current channel's; a queue of several waiters, one of which leaves
from the middle, is left to the theorems below.  All of it at once is too large
for TLC, so `SliceSpec` of `MCDesktopControl` splits it by the initial state: in
one slice all sessions and inputs occur and a session uses one channel, in the
other the controlling sessions use both channels and only keys.  Sessions never
return, because session ids are never reused.  `NothingStuck` and `HandOverReleases` exempt behaviours in which Windows
rejected an event (`failed`): the code then forgets what it holds pressed, a hazard
that no property covers.

`WaiterServed` (`README.md:57`) assumes weak fairness of the session task's
reading of its lease, of its clean-up and of the callbacks that have begun:
Tokio runs every ready task.  It assumes of the other clients that they do not
stay for ever, and states so as a premise; clients need not send anything.  The
run `live` checks it, as a part of `WaitersServed`, with two sessions of one
channel.

`DesktopControlProofs` proves `TypeOK`, `LeaseAgrees`,
`OnlyLiveSessionsControl`, `NothingStuck` and `HandOverReleases` for every set
of sessions, channels, buttons and keys.  The conjunction of the four
invariants is inductive once one adds `PendingUntilActivated`: a session that
subscribes still has a pending lease.  The proof has three layers: what a
command does to tracked and held input (`PointerFaithful` and its neighbours),
what removing, appending and taking the first do to the queue
(`WithoutRemoves`, `Appended`, `RestOfQueue`), and one lemma per controller
call (`ActivateStep`, `UnregisterStep`, `CommandStep`), which the proof of the
steps uses.  `ClientTold` is proved from `ToldInv`: callbacks remember a channel
before they activate the session (`OpenedInOrder`), so a lease is decided only
when there is a channel to tell it on, and each later one is either told or
still to be seen (`LeasesTold`).  `WaiterServed` is only model-checked.

## 6. Desktop video

`VideoHub` models `NativeVideoHub` and the writer task of each viewer.  The
producer in the map is `active` with its `subscribers`; a producer is known by
its generation, and its thread, flags and watch channel are functions of that.
All viewers use the same settings: producers of different settings share only
a mutex and a counter.

* The thread (`BeginEncode`, `EncodeFrame`, `EncodeNothing`, `GpuFails`,
  `SoftwareFails`, `WorkerReturns`) runs the hardware pipeline, then the
  software pipeline, then publishes an error.  Taking the force flag and
  returning the frame are two steps, so a request can fall in between.
  `encoder` tells a new encoder, whose first frame is a key frame, from one that
  has tried (only the hardware loop tries again without a change) and one that
  runs.  A frame is "key" or "delta".
* The session (`Subscribe`, `EndSession`, `StopWriter`, `Release`, `Halt`,
  `Join`): the release is under the hub's mutex, the stop and the wait for the
  thread are not, so a new viewer may start the next generation meanwhile.
  `Subscribe` starts the thread and takes the receiver in one step, although
  the thread is started first: it sets up a Direct3D device before it looks for
  receivers.  `StopWriter` and `Join` also reset the variables of the task and
  of the producer that end there, which nobody reads any more.
* The writer (`Settle` to `SendFails`) has one action per await, and a
  watch channel keeps the latest event and whether this receiver has seen it.
  `ClientRequest` is the RTCP feedback and the refresh command.

Left out: the branch of the writer for a channel whose sender is gone (the hub
holds a sender as long as there is a subscription), and
`NativeVideoPipeline::drop`, which serves a session task that is cancelled
between `start_video_pipeline` and `stop` (its steps are the same, made by a
spawned task).

| Run | Instance | Shows |
|---|---|---|
| `video` | 2 viewers, failures | types, `ProducerShared`, `NoOrphan`, `SessionEnds`, `ErrorHeard` |
| `video_keyframe` | 2 viewers, 2 changes, no failure | `KeyFrameArrives` |
| `video_error` | 1 viewer, failures | `CaptureErrorReturned` does not hold |

Two viewers can share a producer, leave in either order, and replace it while
it is being stopped; `MaxChanges` bounds how often the desktop changes, and
with none left a still desktop must yield key frames by request alone.
`Asking` names the clients that send key frame requests of their own; the
liveness properties must not need them.

Fairness: threads and tasks that can go on do (weak fairness), and an encoder
does not skip every frame (strong fairness of `EncodeFrame`).  Nothing has to
fail, no viewer has to leave, and no client has to ask.  `KeyFrameArrives` has
as its premise that the producer does not end, and its run lets nothing fail, so
it speaks of the hardware pipeline; a request that the hardware pipeline takes
along when it fails is listed among the hazards.

`video_error` is a disagreement with `README.md:49`: after 75 ms the writer
discards what the channel holds, which may be the error of a producer that has
failed by then; nothing else is ever published, so the client waits for ever.
The same happens to a viewer that joins a producer which is already dead.

`VideoHubProofs` proves `TypeOK`, `ProducerShared` and `NoOrphan` for every
number of viewers.  The inductive invariant `HubInv` adds how generations are
handed out (`GenerationsFresh`): a viewer starts at most one, one that was not
handed out is untouched, and a session that stops a producer does not hold the
one in the map.  The steps of threads and writers leave all of that alone
(`HubUntouched`), the steps of a session only move it along (`SessionMoves`);
the work is in `SubscribeKeeps` and `ReleaseKeeps`, which count finite sets.

`DesktopCapture` is what `VideoHub` leaves out: where a frame comes from.  Each
output has a duplication that tells of an image once; the capture thread visits
the outputs in turn (`NoImage`, `Update`, `Lost`, `UpdateFails`) and copies what
has changed into one picture.  The hardware pipeline encodes in the same thread
(`Process`, `Encode`, `EncodeEmpty`, `EncodeFails`); once it has failed, the
software pipeline hands pictures to an encoder thread through a channel that
holds one (`Capture`, `CaptureLate`, `TakeFrame`, `EncodeFrame`, `SkipFrame`).
Either encoder may fail, also while it is set up (`EncoderFails`), and a thread
that could not attach to the input desktop opens the duplications again at its
next turn (`Follow`).
Windows meanwhile draws (`Paint`), moves the pointer and switches between its
desktops (`Switch`, `Follow`).  In the suite (2 outputs of 2 parts each; one
drawing, one switch, one failure and one request of each), `FramesWhole` says
that a frame shows every output and one desktop only, `LatestShown` that at rest
the last frame is the present desktop, and `ErrorsLast` that a pipeline that has
ended by itself leaves an error and nothing after it (`README.md:49`).
`LatestShown` exempts frames that an encoder skipped: nothing makes up for them
until something changes or a key frame is requested.

`ViewerProofs` proves the three for any outputs and parts, with any number of
drawings, switches and requests.  None is inductive: that a frame shows the present desktop
rests on everything between the screen and the encoder.  `CaptureInv` follows
it: the duplications are of one desktop and so is what was copied of them
(`OneDesktop`); what the picture lacks, Windows has yet to tell (`LackIsTold`);
while nothing more was copied, the newest frame, in the channel, in the encoder
or sent, is the picture (`PictureSent`); and `Stages` and `EndsInError` say which
thread is where when.


## 7. Connecting a viewer, and the monitors

`PeerSession` is the page (`desktop-viewer.js`, `desktop-peer.js`) together with
the session task behind each WebSocket (`desktop_webrtc/mod.rs`, `peer.rs`,
`ice.rs`).  The page's steps are those between its awaits (offer, answer,
candidates, reconnect); the task's are hello, offer, setup of the peer, the
registration with the input controller and with the hub, `run`, and the cleanup.
Messages under way are a queue in each direction, since a WebSocket keeps order;
what the browser and `webrtc` do by themselves (gathering, connecting) is taken
from how the code uses them.  In the suite there are two connections of one
page, one of which comes from an IPv4 address, and one thing may go wrong
(`MaxBreaks`): the two connections overlap, which is where a late answer or a
candidate could reach the wrong peer.  Only a session that may control the
desktop is registered with the input controller (`Register`), and its control
channel opens and closes when it likes; `on_close` unregisters the session while
its video still runs (`ChannelCloses`).  A candidate may be refused by the peer.
Checked are `SignalsFit` (the server's
refusals of signals out of order are never met by Latitude's own page),
`CandidatesKept`, `AddressesResolved` and `NothingLeft` (a session that is over
has given back peer, pipeline and controller, wherever it failed and whatever
its channel did).  Which session controls, and what its channels may do to
another's, is in `DesktopControl`.

`DesktopScreens` follows the monitors from Windows to the viewer's pointer: the
list and the ids (`display.rs`), the frame they are fitted into
(`native/mod.rs`), what a session announces at hello and later through the
writer of the video, the layout in the browser, and a change of resolution
(`desktop_api.rs`), which reads, checks, applies and answers in separate steps
while monitors come and go.  An announcement may be lost, when the control
channel is not open, and is not repeated; `PointersLand` is about viewers who
have the present layout.  Lengths are real pixels, because rounding is the
point: two displays, four modes (one of odd size, one larger than the caps of
1920x1080, one below the limit of 640x480) and one change.  Checked are
`FrameFits`, `PointerLands`, `IdsLead` and `ChangeTold`.

In the run `server`, `PointersLand` is the first two of these and `ViewersServed`
the other two, with the properties of `PeerSession` and `DesktopCapture`.
`ServerViewers` proves `ViewersServed` in `HelperProofs`, from the lemmas of
`ViewerProofs`, for any number of connections, monitors and modes, any outputs
and parts, and any number of changes and failures.

For the session the work is in `PeersInv`.  Whether the next signal fits depends
on the page, on both queues and on the task, so the invariant goes through them
for each connection: the page has one peer at most, that of the connection it is
on (`OneAtATime`); what the task has set up at each stage (`SetUp`); the offer is
the first thing it hears, and from its own peer (`OfferFirst`); a gathered
candidate is in the queue or was given to the peer (`GatheredArrives`); the page
hears hello, answer, candidates and an error in that order (`InOrder`); and what
it heard was applied or waits for the answer (`HeardApplied`).  The only thing
needed of the constants is that connections are numbered in the order they are
made and that the resolvable ones are among them.  For the monitors, `ScreensInv`
adds that a listed screen has the id of its monitor, and that while nobody
interferes the monitor of an applied request has the mode that was asked for.

## 8. Catalog and worktrees

`Catalog` models `storage.rs` and `storage/shares.rs`: projects, deployments and
share links are rows, and change in a transaction (one step); the content of a
page is a file named by its hash, and is written before and pruned after the
transaction (steps of their own, which may fail, and between which the process
may crash).  A request is a record that says how far it is (`Step`), so two may
overlap.  Of the bodies only the hash matters.

* `StoreConsistent` (run `server`; 1 project, 2 deployment names, 2 contents,
  1 token, 2 writers, 3 requests): references hold always; without overlap every
  page has its file and no file is left over.  `overlapped` and `leaked` are
  history variables that state these provisos.
* `StorePageKept` (run `store_prune`) drops the proviso and is violated: one
  request prunes a file as unreferenced that another has just found to exist and
  is about to refer to.  The test at `storage.rs:895` says that only content
  without references is pruned; here a page is stored whose content is gone.

`WorktreeDiscovery` models `storage/worktrees.rs` and
`server/git/discovery.rs`: a refresh takes `DISCOVERY_LOCK` unless it is
interactive, reads the projects, has git list the worktrees from the directory
of one of them, its source, and reconciles the tables `projects` and
`worktrees` with that list in one transaction.  By then the list may be old, and
so may be the source: the code carries its name and its directory from the
first read, and takes that name for the worktree that is listed at that
directory.  Users put, delete and archive projects in between.  Within the
transaction worktrees are taken in the order of the list, and each row written
is seen by the queries for the next (`Marked`).  In the suite there are 1 linked
worktree beside the main one, 1 name for a user's project beside the one at the
main worktree, 2 refreshers, 2 refreshes and 1 put.
`WorktreesConsistent` and `WorktreeRefreshesSafe` say that the tables agree,
that a refresh leaves what users decided alone, that one with the lock drops
only projects whose worktree is gone, and that the catalog then mirrors the
disk.  They have two provisos, both of which the code can meet.  A user's
project may collide with a discovered one (`collided`).  And a source that is
put somewhere else during its refresh misleads it (`misled`): the row of the
user's project then says the old directory, a later refresh may mark it
discovered, and once that directory is no worktree any more, the project is
removed with it.  That nothing is promised then is a hazard in `PROJECT.json`.  The
run `worktree` drops the first proviso (`WorktreesFollowDisk`): once a user has put a
project at the directory of one that has a row, discovered or not, and the new one
is taken for that directory, reconciling would insert a second row with the same
directory, which is unique; the transaction of this and every
later refresh fails.  The test at `storage.rs:818` says that reconciling follows
what git lists.

`CatalogProofs` proves `StoreConsistent`, `WorktreesConsistent` and the action
property `WorktreeRefreshesSafe`.  `StoreInv` adds to the first what a request
in the middle of its steps holds: that without overlap the old contents it read
still cover what it is about to replace, and every file that no row refers to
is one that it has yet to remove.  `WorktreesInv` adds that whoever reconciles
under the lock knows a list in which every discovered project is present unless
its worktree has gone meanwhile.


## 9. Git refresh

`GitRefresh` models `acquire_git_refresh` of `state.rs` and its callers: a
first-come mutex, the age a caller accepts, and the times of the last refresh
and the last fetch.  A request that is dropped while it waits or leads leaves
the queue (`GoAway`).  `RefreshAnswersCurrent` (2 callers, `MaxAge` 1, clock to
2) says that an answer rests on a snapshot of the kind asked for that is not
older than allowed; the history variables `snapshotTime` and `fetchTime` say what
really happened, the code's own times what it believes.  `WaiterAnswered` (run
`live`) assumes weak fairness of each caller's task only: Tokio's mutex is fair,
and a leader's git commands end or its request is dropped.
`RequestProofs` proves `RefreshAnswersCurrent` for any number of callers; what is
needed beside it is that the code's own times never run ahead of what happened
(`NotesTrue`).  One case is exempt: a refresh that could not list the projects
(`ListFails`) is noted as completed like any other, and whoever waited for it, or
asks soon after, is answered from an older snapshot (`blankTime`).


## 10. Public listener

`Gateway` is who gets in: `auth.rs`, the login handlers, the share links and the
replacement of the configuration (`state.rs`, `config.rs`).  A cookie's value is
a keyed hash of a lock and its password under the secret of the process; the
model keeps the three, so values are equal exactly when the hashes are.  A
request reads its lock, its row and the deployment in separate steps.
`GateSound` (2 passwords, 1 token, 1 request, 1 replacement of the
configuration, clock to 1, 1 restart) has three parts: `AccessProved` and
`DisabledRefused` (`README.md`: deletion and expiry disable a link at once),
which hold a request to what was so at some moment since it began, and
`SerialConfigAgrees`.  That two replacements at once may leave file and process
apart is the proviso `raced`.  A single one may fail before the file is touched
(`SaveFails`), which changes nothing, or in the write (`WriteFails`), which has cut
the file by then: the process goes on with the old configuration, and cannot be
started again before a later replacement succeeds.  The property says that this is
all that may part them (`spoiled`).

`StaticServing` is what is then sent (`deployment.rs`, `http_stream.rs`): the
lookup of the path, of the index file and of the fallback, the measuring, the
range, and the reading, with a tree that may change between any two of them.
`StaticRangesExact` compares the answer with what the range names; bytes are
positions, and files of up to 2 show every boundary of a range that the code
distinguishes (empty, first, last, past the end, suffix longer than the file).

`RequestProofs` proves both.  For `GateSound` one has to know what a request
holds between its steps: a password it has proved at a moment since it began
(`HeldProved`, `PassedOpen`), and that a replacement that runs alone finds file
and memory equal (`AlonePuts`).  For `StaticRangesExact`: which lookup a stage
has behind it, and that the range announced is the range named of the length
measured (`ParsedRange` about `parse_byte_range`, `Announced`).


## 11. Helper processes and the terminal manager

`ServiceHosts` is one supervisor (`windows_service_host/`), the helpers it
starts, the endpoint, and the requests at the bridge (`workspace/bridge.rs`).
The supervisor's loop is cut at its awaits: a tick that reads the session and
compares, dropping the child, the pause, spawning, the health check, publishing.
A helper that is dropped is killed with its job.  Ports are handed out by the
system and used again.  `HostsSound` (2 users, 2 helpers, 2 ports, 1 call, 1
failure) has `ServedAsUser`, `NoneSurvives`, `EndpointCurrent` and
`CapturedAwaited`.  `HelperReturns` (run `live`) is the promise of a supervisor:
once a user stays signed in, a helper of that user is published and stays.  It
assumes weak fairness of the supervisor's own steps and that a started helper
listens; that failures end is the bound `MaxFailures`.

`TerminalManager` is `TerminalSessionManager` and its handlers.  A creation
counts titles, spawns, and inserts, under different locks; a closing removes,
then kills; a client may go away in between, and a helper may be replaced with
all its sessions.  `TerminalsSound` (2 sessions, 2 clients): `ShellsReachable`,
`ScopeKept`, `AliveTold`, `TitlesDistinct`.  Two hazards of the code show as
provisos: a creator that goes away before the insert leaves a shell behind
(`abandoned`), and overlapping creations may choose one title (`disturbed`).

`HelperProofs` proves `HostsSound` with `Bookkeeping`: which of the supervisor's
variables can be set at which of its stages, which helpers are alive then, and
that a request still knows whose helper it was captured for.  `WorkspaceProofs`
proves `TerminalsSound`; there `TitlesCount` says how many terminals of a scope
are listed while one is being created, which is what makes the next title new.


## 12. Git

`GitTree` gives each git command that Latitude runs as an operator on HEAD,
index and files; git itself is external, modelled from how the code uses it.
`GitActions` and `GitReports` extend it with what the server does between
commands, while `Elsewhere` or `Change` stands for whoever else uses the tree.

* `GitActions` (`actions.rs`): stage, unstage, discard, commit and pull.
  A path of a request is a pathspec to git, which is given it after `--` but not as
  a literal: `Matches` says which paths a name stands for, itself or, if it reads
  as a pattern, others as well.  A command that is killed at its time limit may have
  done its work, or a part of it (`DiscardCut`).
  `GitActionsSpare` (2 paths, one of which matches both, 2 versions, 1 request) is
  an action property: what any single step may do, however old the answer it rests
  on is.  It does not say that a discard takes only the file on the page, which
  the dialogue asks about (`server/render/diff.rs:408`): discarding the tracked
  `app/[id].tsx` removes an untracked `app/i.tsx`.
* `GitReports` (`diff.rs`): the view of a repository or a file from up to six
  commands, and the editor's baseline.  `ReportExact` and `BaselineRight` hold
  when the tree stood still (`steady`), `DiffsListed` always.  Names that cannot be
  told from git's header line (quoted, or with ` b/` inside) are `Unreadable`: they
  are listed, and their diffs may be missing.
* `GitHistory` (`serve.rs`): pages of 2 for the code's 50, 5 commits; the pages
  of one snapshot fit together whatever is committed meanwhile.

`RequestProofs` proves `GitActionsSpare`, `WorkspaceProofs` proves
`GitReportsExact`, whose inductive invariant says after each of the commands
which part of the difference has been read (`ReadSoFar`, `MadeSoFar`).  The
pages of `GitHistory` are a part of `GitReportsExact`, and proved with it.


## 13. Workspace

`NeovimSessions` models the actor of `workspace/neovim.rs`: one tab at a time,
an input queue that is held back while a paste or an opened file is with Neovim,
and answers that come back in any order.  `NeovimInputSound` (2 tabs, 3 inputs,
1 take-over, a queue of 2 for the code's 4096 messages and 2 MiB, a channel of
1): order, nothing lost in a take-over, and input held back exactly as long as
it must be.  The run `neovim` is a disagreement: the comment at
`workspace/neovim.rs:403` lists what ends a session, but a queue that is full
also does (`:354`); a tab that types on while Neovim works on a paste loses the
session and what was unsaved in it.

`FileService` models `project_files.rs` but for the search: a path is resolved,
checked, opened, read, emptied and written in steps between which files and links
change, so that a read or a write may follow a link that was not there when the
path was checked.  `FilesFaithful` (2 names, 1 text, 2 changes) does not ask for a
tree at rest: listings lead where they say; what the editor shows is something that
the path has led to since the request (`had`), unless the path was redirected after
it was resolved (`astray`); and what was saved is there until somebody else touches
it (`kept`).

`T3Launch` models the launch of `server/t3code.rs`: four reads of the catalog, a
server that may have to be started, registration and pairing.  The catalog changes
between the reads (`Put`, `Delete`, `Reconcile`).  `T3LaunchesSound` (2 projects, 3
directories, one of them a linked worktree, 1 launch, 3 edits) says that the project
registered and the worktree redirected to are of one repository whatever changes,
except when one of the two projects itself moves between two reads of it, or its row
is of another directory than it (`lapsed`).

`HelperProofs` proves `NeovimInputSound`, `WorkspaceProofs` proves `FilesFaithful`
and `T3LaunchesSound`.  For Neovim the invariant ties the actor's queue to what
is in the pipe and to the answers on their way (`QueueRuns`, `PipeRuns`,
`OneAnswer`): at most one answer is outstanding exactly while input is held
back.  For files, the place found for a path is where it leads as long as nobody
redirects it, and what it leads to is in its history (`PlaceHolds`); for T3 Code, what
has been read by each stage is still of one repository (`ReadsTrue`).

Runs of the suite explore each component completely under these bounds.  For
every property part there is at least one way in which the code's guard matters
under them: the mutants of `PROJECT.json` break them by a dropped
check, a stale value or a swapped order, as such a bug would.


## 14. What is not modelled

* Rendering, HTML and the pages' drawing (`server/render.rs`, `html.rs`,
  `page.rs`, `presentation.rs`): text without state.
* Parsing and validation of the configuration and of the command line
  (`config.rs`, `cli.rs`): sequential and without effects on the rest.
* The installer of the Windows service (`windows_service_host/management.rs`):
  operating system calls in a fixed order.
* In `desktop_webrtc/gpu.rs`, the set-up of Direct3D and Media Foundation
  objects, colour conversion, scaling of pixels and H.264 parameter sets; in
  `video.rs`, RTP packets.
* Submodules, remotes and the text of git's output; what a bridged WebSocket
  carries; the requests proxied to T3 Code (`t3code.rs`, `proxy.rs`), before and
  after a launch, and to deployments' upstreams beyond the request itself.  The
  proxy forwards headers as they are, an `Authorization` header among them.
* The search of project files.  Its index is a library's, which drops what is
  larger than 1 MiB, lines past 100 in a file, and whatever it has not indexed
  after ten seconds, without a word of it in the answer: nothing can be promised
  of a list of results but that its entries are files of the project.
* The user interface of the web pages other than the terminal stream and the
  desktop's connection, and the mobile application, a second user interface over
  the same server.

What is only model-checked: liveness and fairness; `WindowBounded`, whose sum over
the window is a recursive function, so that it needs induction over data;
`PointersLand`, which is about products and quotients of lengths that are rounded
(non-linear arithmetic, where the provers find nothing), and which holds of the
sizes monitors have, not of every rectangle: the frame of a desktop a thousand
times as wide as high is clamped to two pixels of height; and `TypesOK` as a whole.  Of its
parts, the inductive invariants are proved with the theorems that rest on them;
what no theorem needs is not.  Examples are that in `GitRefresh` the queue of
waiting callers stays a queue of callers (those that go away are taken out by
`SelectSeq`, which is recursive, and the theorem about the answers does without
it), and that the counters of `PeerSession` stay within their bounds.
