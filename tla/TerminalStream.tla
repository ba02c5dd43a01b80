--------------------------- MODULE TerminalStream --------------------------
(***************************************************************************)
(* The terminal stream end to end: the session and its connection tasks    *)
(* (TerminalDelivery) with the browser's terminal controller and output    *)
(* writer as their clients (src/src/server/assets/terminal-viewer.js and   *)
(* terminal-stream.js).                                                    *)
(*                                                                         *)
(* A browser's screen is the number n when it shows the effect of chunks   *)
(* 1..n (0: blank), or Garbled when a delta was parsed on a screen it does *)
(* not continue.  xterm parses a write later and calls back: StartWrite    *)
(* and WriteDone are the two ends of terminal.write.                       *)
(***************************************************************************)
EXTENDS TerminalDelivery

CONSTANTS
  Clients,    \* browsers
  NoSocket    \* null

ASSUME ClientAssumption == NoSocket \notin Sockets

VARIABLES
  view,     \* per client, its controller and output writer
  parsed,   \* history: queries some client's terminal has parsed
  skipped   \* history: a client resumed on a screen that was only reset

streamVars == <<sessionVars, deliveryVars, view, parsed, skipped>>

Garbled == -1
Idle == [kind |-> "idle"]
Reset(k, s) == [kind |-> "reset", socket |-> k, seq |-> s]
Output(k, f) == [kind |-> "output", socket |-> k, frame |-> f]

MaybeSocket == Sockets \cup {NoSocket}
View ==
  [socket : MaybeSocket,       \* controller.socket = writer.activeSocket
   state : {"none", "connecting", "open", "closing"},    \* its readyState
   helloDue : BOOLEAN,         \* the open handler waits in idleCallbacks
   last : Resume,              \* lastSequence
   ready : BOOLEAN,
   requiresReset : BOOLEAN,
   writing : {Idle} \cup [kind : {"reset"}, socket : Sockets, seq : Sequence]
               \cup [kind : {"output"}, socket : Sockets, frame : Frame],
   frames : Seq(Frame),
   screen : Sequence \cup {Garbled},
   owes : MaybeSocket]         \* history: the reset whose snapshot is unparsed

StreamTypeOK ==
  /\ TypeOK
  /\ view \in [Clients -> View]
  /\ parsed \in SUBSET Sequence
  /\ skipped \in BOOLEAN

NewView ==
  [socket |-> NoSocket, state |-> "none", helloDue |-> FALSE, last |-> None,
   ready |-> FALSE, requiresReset |-> FALSE, writing |-> Idle, frames |-> <<>>,
   screen |-> 0, owes |-> NoSocket]

StreamInit ==
  /\ Init
  /\ view = [c \in Clients |-> NewView]
  /\ parsed = {}
  /\ skipped = FALSE

(***************************************************************************)
(* The output writer, as functions on a view.                              *)
(***************************************************************************)

\* begin
Begin(v, k) == [v EXCEPT !.socket = k, !.state = "connecting", !.helloDue = FALSE,
                         !.ready = FALSE, !.frames = <<>>]

\* end
End(v) == [v EXCEPT !.socket = NoSocket, !.state = "none", !.helloDue = FALSE,
                    !.ready = FALSE, !.frames = <<>>]

\* fail; onProtocolError closes the socket with code 4001
Fail(v) == [v EXCEPT !.ready = FALSE, !.requiresReset = TRUE, !.frames = <<>>,
                     !.state = "closing"]

\* drain: hand the next frame to the terminal, which may throw.
Drain(v) ==
  IF ~v.ready \/ v.writing # Idle \/ v.frames = <<>> THEN {v}
  ELSE LET f == Head(v.frames)
           rest == [v EXCEPT !.frames = Tail(@)]
       IN  IF f.first # v.last + 1 THEN {Fail(rest)}
           ELSE {[rest EXCEPT !.writing = Output(v.socket, f)], Fail(rest)}

\* acceptReady: resume where the client stands, or reset the terminal.
AcceptReady(v, m) ==
  IF v.writing # Idle THEN {Fail(v)}
  ELSE LET w == [v EXCEPT !.ready = FALSE, !.frames = <<>>]
       IN  IF m.reset THEN {[w EXCEPT !.writing = Reset(v.socket, m.seq)], Fail(w)}
           ELSE IF v.requiresReset \/ v.last # m.seq THEN {Fail(w)}
           ELSE Drain([w EXCEPT !.ready = TRUE])

\* acceptFrame
AcceptFrame(v, f) == Drain([v EXCEPT !.frames = Append(@, f)])

\* The callback of the reset write: whichever socket is active by now.
ResetDone(v) ==
  LET w == [v EXCEPT !.writing = Idle, !.requiresReset = FALSE,
                     !.last = v.writing.seq, !.screen = 0, !.owes = v.writing.socket]
  IN  IF v.socket # v.writing.socket THEN {w} ELSE Drain([w EXCEPT !.ready = TRUE])

\* What a screen shows once the terminal has parsed a frame.
Parsed(screen, f) ==
  IF f.payload[1].snapshot \/ f.first = screen + 1 THEN f.end ELSE Garbled

\* Mutants of OutputDone: the frame counts as its first chunk, and the next
\* buffered frame is left until another one arrives.
OutputDoneAtFirst(v) ==
  LET f == v.writing.frame
  IN  Drain([v EXCEPT !.writing = Idle, !.screen = Parsed(@, f),
               !.last = IF v.requiresReset THEN None ELSE f.first,
               !.owes = IF f.payload[1].snapshot THEN NoSocket ELSE @])
OutputDoneUndrained(v) ==
  LET f == v.writing.frame
  IN  {[v EXCEPT !.writing = Idle, !.screen = Parsed(@, f),
          !.last = IF v.requiresReset THEN None ELSE f.end,
          !.owes = IF f.payload[1].snapshot THEN NoSocket ELSE @]}

\* The callback of an output write.
OutputDone(v) ==
  LET f == v.writing.frame
  IN  Drain([v EXCEPT !.writing = Idle, !.screen = Parsed(@, f),
               !.last = IF v.requiresReset THEN None ELSE f.end,
               !.owes = IF f.payload[1].snapshot THEN NoSocket ELSE @])

QueriesIn(payload) == UNION {payload[i].queries : i \in DOMAIN payload}

\* sendJson: only an open socket sends; nobody reads behind a closed task.
Post(v, messages) ==
  IF v.state = "open" /\ conn[v.socket].phase # "closed"
    THEN [up EXCEPT ![v.socket] = @ \o messages]
    ELSE up

\* lastSequence() as sent in the hello.
HelloMessage(v) ==
  [type |-> "hello", last |-> IF v.requiresReset THEN None ELSE v.last]

Leave(k) ==
  /\ cut' = IF k = NoSocket THEN cut ELSE cut \cup {k}
  /\ down' = IF k = NoSocket THEN down ELSE [down EXCEPT ![k] = <<>>]

(***************************************************************************)
(* The controller.                                                         *)
(***************************************************************************)

\* connect: by the reconnect timer, or at once on input while the socket is
\* not active.  It replaces a socket that is still closing.
Connect(c) ==
  /\ view[c].state \in {"none", "closing"}
  /\ \E k \in Sockets :
       /\ conn[k].phase = "unused"
       /\ \A d \in Clients : view[d].socket # k
       /\ k \notin cut
       /\ view' = [view EXCEPT ![c] = Begin(view[c], k)]
  /\ Leave(view[c].socket)
  /\ UNCHANGED <<sessionVars, conn, up, parsed, skipped>>

\* The open event: the upgrade is done, the server task starts, and the
\* hello goes out now or when the terminal has parsed what it is parsing.
Open(c) ==
  LET v == view[c]
      w == [v EXCEPT !.state = "open"]
      idle == v.writing = Idle
  IN  /\ v.state = "connecting"
      /\ Upgrade(v.socket)
      /\ view' = [view EXCEPT ![c] = [w EXCEPT !.helloDue = ~idle]]
      /\ up' = IF idle THEN [up EXCEPT ![v.socket] = <<HelloMessage(v)>>] ELSE up
      /\ skipped' = (skipped \/ (idle /\ v.owes # NoSocket /\ HelloMessage(v).last # None))
      /\ UNCHANGED <<sessionVars, down, cut, parsed>>

\* The message event.
Receive(c) ==
  LET v == view[c]
      k == v.socket
  IN  /\ v.state \in {"open", "closing"}
      /\ down[k] # <<>>
      /\ LET m == Head(down[k])
         IN  \E w \in IF m.type = "ready" THEN AcceptReady(v, m) ELSE AcceptFrame(v, m) :
               view' = [view EXCEPT ![c] = w]
      /\ down' = [down EXCEPT ![k] = Tail(@)]
      /\ UNCHANGED <<sessionVars, conn, up, cut, parsed, skipped>>

\* The terminal has parsed a write: its responses to queries were sent while
\* it parsed, then the callback acknowledges and runs the idle callbacks.
WriteDone(c) ==
  LET v == view[c]
      isOutput == v.writing.kind = "output"
      queries == IF isOutput THEN QueriesIn(v.writing.frame.payload) ELSE {}
      answer == IF queries = {} THEN <<>>
                ELSE <<[type |-> "answer", queries |-> queries]>>
      ack == IF isOutput /\ ~v.requiresReset /\ v.socket = v.writing.socket
               THEN <<[type |-> "ack", seq |-> v.writing.frame.end]>> ELSE <<>>
  IN  /\ v.writing # Idle
      /\ \E w \in IF isOutput THEN OutputDone(v) ELSE ResetDone(v) :
           LET hello == IF v.helloDue THEN <<HelloMessage(w)>> ELSE <<>>
           IN  /\ view' = [view EXCEPT ![c] = [w EXCEPT !.helloDue = FALSE]]
               /\ up' = Post(v, answer \o ack \o hello)
               /\ skipped' = (skipped \/ (hello # <<>> /\ w.owes # NoSocket
                                            /\ HelloMessage(w).last # None))
      /\ parsed' = parsed \cup queries
      /\ UNCHANGED <<sessionVars, conn, down, cut>>

\* The close event, after the task has ended and its messages were handled,
\* or after the controller closed the socket itself.
CloseEvent(c) ==
  LET v == view[c]
  IN  /\ \/ v.state = "closing"
         \/ v.state = "open" /\ conn[v.socket].phase = "closed" /\ down[v.socket] = <<>>
      /\ view' = [view EXCEPT ![c] = End(v)]
      /\ Leave(v.socket)
      /\ UNCHANGED <<sessionVars, conn, up, parsed, skipped>>

\* The network or a forced reconnect takes the socket away at any time.
DropSocket(c) ==
  /\ view[c].state \in {"connecting", "open"}
  /\ view' = [view EXCEPT ![c] = End(view[c])]
  /\ Leave(view[c].socket)
  /\ UNCHANGED <<sessionVars, conn, up, parsed, skipped>>

ClientStep(c) ==
  \/ Connect(c) \/ Open(c) \/ Receive(c) \/ WriteDone(c)
  \/ CloseEvent(c) \/ DropSocket(c)

ServerStep ==
  /\ PtyOutput \/ \E k \in Sockets : ConnectionTask(k)
  /\ UNCHANGED <<view, parsed, skipped>>

StreamNext == ServerStep \/ \E c \in Clients : ClientStep(c)

StreamSpec == StreamInit /\ [][StreamNext]_streamVars

(***************************************************************************)
(* Fairness.  A task's send loop runs to completion, and select! polls its *)
(* ready branches in random order, so neither the channel nor the socket   *)
(* is passed over for ever.  The browser's event loop delivers its events, *)
(* xterm calls a write back, and the reconnect timer fires.  The PTY, the  *)
(* network and the hello timeout owe nothing.                              *)
(***************************************************************************)
Unmoved == UNCHANGED <<view, parsed, skipped>>

TaskFairness(k) ==
  /\ WF_streamVars(SendFrame(k) /\ Unmoved)
  /\ WF_streamVars((ReceiveOutput(k) \/ ReceiveLagged(k)) /\ Unmoved)
  /\ WF_streamVars((ReceiveHello(k) \/ IgnoreMessage(k) \/ ReceiveAck(k)
                      \/ ReceiveAnswer(k)) /\ Unmoved)
  /\ WF_streamVars(DetectLoss(k) /\ Unmoved)

ClientFairness(c) ==
  /\ WF_streamVars(Connect(c))
  /\ WF_streamVars(Open(c))
  /\ WF_streamVars(Receive(c))
  /\ WF_streamVars(WriteDone(c))
  /\ WF_streamVars(CloseEvent(c))

FairStreamSpec ==
  /\ StreamSpec
  /\ \A k \in Sockets : TaskFairness(k)
  /\ \A c \in Clients : ClientFairness(c)

-----------------------------------------------------------------------------
(***************************************************************************)
(* Properties.                                                             *)
(***************************************************************************)

\* What the client has taken from the stream, as it would say in a hello.
Position(c) == HelloMessage(view[c]).last

\* The client has nothing under way in its terminal and knows where it is.
Settled(c) == view[c].writing = Idle /\ Position(c) # None

\* A ready message is the next thing the client will receive.
Greeted(wire) == wire # <<>> /\ Head(wire).type = "ready"

\* What the client will have parsed once its terminal has called back, and
\* once it has written the frames it has buffered.
Start(v) == CASE v.writing.kind = "output" -> v.writing.frame.end
              [] v.writing.kind = "reset" -> v.writing.seq
              [] OTHER -> v.last
Tip(v) == IF v.frames = <<>> THEN Start(v) ELSE v.frames[Len(v.frames)].end

FramesLinked(v) ==
  \A i \in 1 .. Len(v.frames) :
    v.frames[i].first = (IF i = 1 THEN Start(v) ELSE v.frames[i - 1].end) + 1

\* A ready message finds the client idle and, when it resumes, exactly where
\* the server believes it is; the frames it has buffered continue what it
\* has parsed and are continued by the next frame on the wire.  So output
\* never trips the writer's protocol checks (terminal-stream.js:69-78,
\* 142-156), whatever was lost before and whenever the parser calls back.
NoProtocolError ==
  \A c \in Clients : view[c].state = "open" =>
    LET v == view[c]
        wire == down[v.socket]
    IN  /\ Greeted(wire) =>
             /\ v.writing = Idle
             /\ ~Head(wire).reset => Position(c) = Head(wire).seq
        /\ FramesLinked(v)
        /\ wire # <<>> /\ Head(wire).type = "frame" =>
             Head(wire).first = Tip(v) + 1

\* A settled client whose last reset has been followed by its snapshot shows
\* exactly the output it claims to have, after any sequence of losses,
\* resumes, lags and snapshots, as long as no client was let to resume on a
\* screen that had only been reset.
ScreenAgreement ==
  ~skipped => \A c \in Clients :
    Settled(c) /\ view[c].owes = NoSocket => view[c].screen = view[c].last

\* The server drops a query from its snapshots only when some terminal has
\* parsed it: an acknowledgement never runs ahead of the parser, over any
\* reconnects (terminal.rs:528-536, terminal-stream.js:82-94).
QueriesKeptUntilParsed ==
  ~skipped => queryChunks \ pendingQueries \subseteq parsed

\* The stream implements a log that each client reads forward only.
Log == INSTANCE OutputLog WITH produced <- next, position <- [c \in Clients |-> Position(c)]
ImplementsLog == Log!Spec

\* A client that keeps its socket ends up with all the output there is.
CatchesUp ==
  \A c \in Clients :
    (\E k \in Sockets : <>[](view[c].socket = k)) => <>[](Position(c) = next)

-----------------------------------------------------------------------------
(***************************************************************************)
(* The invariant behind the properties: who owns a socket, how far client  *)
(* and task of one socket are with each other, and what the frames on      *)
(* their way and the screen are worth.  Its parts speak of a view v and of *)
(* the task, the messages down (wire) and the messages up (sent) of its    *)
(* socket.                                                                 *)
(***************************************************************************)

\* A client's socket is its own, and a task runs behind it once it is open.
SocketOwned(c) ==
  LET v == view[c]
  IN  /\ v.socket = NoSocket <=> v.state = "none"
      /\ v.socket \notin cut
      /\ \A d \in Clients \ {c} : v.socket = view[d].socket => v.socket = NoSocket
      /\ v.state = "connecting" => conn[v.socket].phase = "unused"
      /\ v.state \in {"open", "closing"} => conn[v.socket].phase # "unused"
      /\ v.writing # Idle => conn[v.writing.socket].phase # "unused"

\* The client has the ready message behind it: it takes frames, or it will as
\* soon as the reset that the message asked for is parsed.
Resetting(v) == v.writing.kind = "reset" /\ v.writing.socket = v.socket
Engaged(v) == v.ready \/ Resetting(v)

\* drain leaves nothing buffered while the terminal is idle.
Drained(v) == v.ready /\ v.writing = Idle => v.frames = <<>>

\* The writer buffers only between ready and the next failure or close, and
\* it writes what continues its screen.
WriterInv(v) ==
  /\ v.state \in {"none", "connecting"} => ~v.ready /\ ~v.helloDue /\ v.frames = <<>>
  /\ v.state = "closing" => ~v.ready /\ v.writing = Idle
  /\ v.ready => /\ ~v.requiresReset
                /\ v.last # None
                /\ v.writing # Idle => v.writing.kind = "output"
  /\ v.writing.kind = "output" => v.last # None /\ v.writing.frame.first = v.last + 1
  /\ v.writing.kind = "reset" => HelloMessage(v).last < v.writing.seq

\* Until ready an open client has nothing buffered and says hello with the
\* position it keeps, so that the answer finds it there.
Waits(v, task, wire, sent) ==
  /\ v.frames = <<>>
  /\ wire = <<>> => task.phase # "live"
  /\ wire # <<>> => Greeted(wire)
  /\ v.helloDue <=> v.writing # Idle
  /\ task.phase = "hello" =>
       \A i \in 1 .. Len(sent) : sent[i].type = "hello" =>
         ~v.helloDue /\ sent[i].last = HelloMessage(v).last
  /\ Greeted(wire) =>
       /\ v.writing = Idle
       /\ IF wire[1].reset THEN HelloMessage(v).last < wire[1].seq
                           ELSE HelloMessage(v).last = wire[1].seq

\* From then on its frames and the wire lead from where it stands to where
\* its task does.
Follows(v, task, wire) ==
  /\ ~v.helloDue
  /\ task.phase # "hello"
  /\ ~Greeted(wire)
  /\ FramesLinked(v)
  /\ wire # <<>> => wire[1].first = Tip(v) + 1
  /\ wire = <<>> /\ task.phase = "live" => task.lastQueued - Len(task.pending) = Tip(v)

Handshake(v, task, wire, sent) ==
  /\ v.state = "open" /\ ~Engaged(v) => Waits(v, task, wire, sent)
  /\ v.state = "open" /\ Engaged(v) => Follows(v, task, wire)
  /\ v.state = "closing" => task.phase # "hello" /\ ~Greeted(wire)

\* Nothing under way speaks of output that has not been produced, and the
\* messages of a wire follow each other.
Produced(m, n) ==
  /\ Covered(m) <= n
  /\ m.type = "frame" => m.first <= m.end /\ m.payload # <<>>

WireBounds(task, wire, sent, n) ==
  /\ task.phase = "unused" => sent = <<>>
  /\ \A i \in 1 .. Len(wire) :
       /\ Produced(wire[i], n)
       /\ wire[i].type = "ready" => i = 1
       /\ i < Len(wire) => wire[i + 1].first = Covered(wire[i]) + 1
  /\ \A i \in 1 .. Len(sent) : sent[i].type = "ack" => sent[i].seq <= n

ViewBounds(v, n) ==
  /\ v.last <= n
  /\ \A i \in 1 .. Len(v.frames) : Produced(v.frames[i], n)
  /\ v.writing.kind = "output" => Produced(v.writing.frame, n)
  /\ v.writing.kind = "reset" => v.writing.seq <= n

\* A chunk brings its own queries, a snapshot all that are still to be parsed
\* (of the queries asked, those done are parsed); so does a frame.
ChunkHonest(x, asked, done) ==
  \A q \in asked :
    q = x.seq \/ (x.snapshot /\ q <= x.seq) => q \in x.queries \cup done

FrameHonest(f, asked, done) ==
  \A q \in asked :
    q <= f.end /\ (f.first <= q \/ f.payload[1].snapshot) =>
      q \in QueriesIn(f.payload) \cup done

DoneUpTo(s, asked, done) == \A q \in asked : q <= s => q \in done

WireHonest(task, wire, sent, asked, done) ==
  /\ task.phase = "live" =>
       \A i \in 1 .. Len(task.pending) : ChunkHonest(task.pending[i], asked, done)
  /\ \A i \in 1 .. Len(wire) : wire[i].type = "frame" => FrameHonest(wire[i], asked, done)
  /\ \A i \in 1 .. Len(sent) : sent[i].type = "ack" => DoneUpTo(sent[i].seq, asked, done)

\* A client that is owed no snapshot has parsed every query up to where it
\* stands.
ViewHonest(v, asked, done) ==
  /\ \A i \in 1 .. Len(v.frames) : FrameHonest(v.frames[i], asked, done)
  /\ v.writing.kind = "output" => FrameHonest(v.writing.frame, asked, done)
  /\ v.owes = NoSocket /\ v.last # None => DoneUpTo(v.last, asked, done)

\* The next output the client gets is a snapshot.
SnapshotNext(frames, wire, task) ==
  IF frames # <<>> THEN frames[1].payload[1].snapshot
  ELSE IF wire # <<>> THEN wire[1].payload[1].snapshot
  ELSE task.phase = "live" => task.pending # <<>> /\ task.pending[1].snapshot

\* A client that is owed no snapshot shows what it claims; one that is gets it
\* next, or says that it has no position.
ScreenInv(v, task, wire) ==
  /\ v.writing = Idle /\ HelloMessage(v).last # None /\ v.owes = NoSocket => v.screen = v.last
  /\ v.writing.kind = "output" => IF v.owes = NoSocket THEN v.screen = v.last
                                  ELSE v.writing.frame.payload[1].snapshot
  /\ v.ready /\ v.writing = Idle /\ v.owes # NoSocket => SnapshotNext(v.frames, wire, task)
  /\ v.state = "open" =>
       /\ Resetting(v) => SnapshotNext(v.frames, wire, task)
       /\ Greeted(wire) /\ wire[1].reset => SnapshotNext(<<>>, Tail(wire), task)
       /\ ~Engaged(v) /\ ~v.helloDue /\ v.owes # NoSocket => HelloMessage(v).last = None

BrowserInv(c) ==
  LET k == view[c].socket
  IN  /\ SocketOwned(c)
      /\ Drained(view[c])
      /\ WriterInv(view[c])
      /\ Handshake(view[c], conn[k], down[k], up[k])
      /\ ViewBounds(view[c], next)
      /\ ~skipped => /\ ViewHonest(view[c], queryChunks, parsed)
                     /\ ScreenInv(view[c], conn[k], down[k])

WireInv(k) ==
  /\ WireBounds(conn[k], down[k], up[k], next)
  /\ ~skipped => WireHonest(conn[k], down[k], up[k], queryChunks, parsed)

QueriesInv ==
  /\ first <= next + 1
  /\ \A q \in queryChunks : q <= next
  /\ ~skipped => queryChunks \ pendingQueries \subseteq parsed

StreamInv ==
  /\ StreamTypeOK
  /\ DeliveryInv
  /\ QueriesInv
  /\ \A k \in Sockets : WireInv(k)
  /\ \A c \in Clients : BrowserInv(c)

-----------------------------------------------------------------------------
(***************************************************************************)
(* What the source says and the code does not do.                          *)
(***************************************************************************)

\* terminal.rs:585-588: the snapshot is reparsed "so the authoritative and
\* client parsers agree about the state on which future live output
\* operates".  A settled client that is live on a connection which owes it
\* no snapshot should show what it claims to have.
LiveScreenAgreement ==
  \A c \in Clients :
    Settled(c) /\ view[c].ready /\ view[c].owes # view[c].socket =>
      view[c].screen = view[c].last

=============================================================================
