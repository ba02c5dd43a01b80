-------------------------- MODULE TerminalDelivery -------------------------
(***************************************************************************)
(* terminal_websocket_session (src/src/server/terminal_api.rs): one task   *)
(* per websocket subscribes to the session's broadcast channel, answers    *)
(* the client's hello with a replay, and sends output frames under a       *)
(* window of unacknowledged bytes.  The client is the environment here: it *)
(* may send any hello and any acknowledgement at any time.                 *)
(*                                                                         *)
(* The broadcast channel carries exactly the session's chunks in sequence  *)
(* order (push and send share the state lock), so a receiver is the        *)
(* sequence number it read last.                                           *)
(***************************************************************************)
EXTENDS TerminalSession

CONSTANTS
  Sockets,     \* websocket connections of the behaviour
  ChannelCap,  \* TERMINAL_OUTPUT_CHANNEL_CAPACITY
  FrameCap,    \* TERMINAL_OUTPUT_FRAME_PAYLOAD_BYTES, in units
  WindowCap,   \* TERMINAL_MAX_UNACKNOWLEDGED_BYTES, in units
  PendingCap,  \* TERMINAL_MAX_PENDING_BYTES, in units
  MaxOutputs,  \* bound: the PTY prints only while next < MaxOutputs
  MaxUp        \* bound: messages of a client under way to the server

ASSUME DeliveryAssumption ==
  /\ ChannelCap \in Nat \ {0}
  /\ FrameCap \in Nat \ {0}
  /\ WindowCap \in Nat \ {0}
  /\ PendingCap \in Nat \ {0}
  /\ MaxOutputs \in Nat
  /\ MaxUp \in Nat

VARIABLES
  conn,   \* per socket, the locals of its task
  up,     \* per socket, messages from the client not yet received
  down,   \* per socket, messages to the client not yet received
  cut     \* sockets whose client end is gone

deliveryVars == <<conn, up, down, cut>>
vars == <<sessionVars, deliveryVars>>

Phase == {"unused", "hello", "live", "closed"}
Sent == [end : Sequence, size : Nat]
Connection ==
  [phase : Phase, rx : Sequence, lastQueued : Sequence, pending : Seq(Chunk),
   sent : Seq(Sent), acked : Sequence]

Hello == [type : {"hello"}, last : Resume]
Ack == [type : {"ack"}, seq : Sequence]
Answer == [type : {"answer"}, queries : SUBSET Sequence]
UpMessage == Hello \cup Ack \cup Answer
Ready == [type : {"ready"}, reset : BOOLEAN, seq : Sequence]
Frame == [type : {"frame"}, first : Sequence, end : Sequence, payload : Seq(Chunk)]

DeliveryTypeOK ==
  /\ conn \in [Sockets -> Connection]
  /\ up \in [Sockets -> Seq(UpMessage)]
  /\ down \in [Sockets -> Seq(Ready \cup Frame)]
  /\ cut \in SUBSET Sockets

TypeOK == SessionTypeOK /\ DeliveryTypeOK

Fresh == [phase |-> "unused", rx |-> 0, lastQueued |-> 0, pending |-> <<>>,
          sent |-> <<>>, acked |-> 0]

DeliveryInit ==
  /\ conn = [k \in Sockets |-> Fresh]
  /\ up = [k \in Sockets |-> <<>>]
  /\ down = [k \in Sockets |-> <<>>]
  /\ cut = {}

Init == SessionInit /\ DeliveryInit

(***************************************************************************)
(* Helpers.                                                                *)
(***************************************************************************)

\* Bytes of a run of chunks.
SizeOf(chunks) ==
  Len(chunks) +
    (SnapshotSize - 1) * Cardinality({i \in DOMAIN chunks : chunks[i].snapshot})

\* TerminalDeliveryWindow.unacknowledged_bytes.
Unacknowledged(sent) ==
  LET total[n \in 0 .. Len(sent)] ==
        IF n = 0 THEN 0 ELSE total[n - 1] + sent[n].size
  IN  total[Len(sent)]

\* Mutant of CanSend: off by one.
CanSendWhenFull(k) == Unacknowledged(conn[k].sent) <= WindowCap

\* TerminalDeliveryWindow.can_send
CanSend(k) == Unacknowledged(conn[k].sent) < WindowCap

\* The send loop has nothing more to do: the task is in its select.
Selecting(k) ==
  /\ conn[k].phase = "live"
  /\ conn[k].pending = <<>> \/ ~CanSend(k)

\* take_terminal_output_frame takes the first n chunks: as many as fit, and
\* at least one however large it is.
TakesFrame(pending, n) ==
  /\ n = 1 \/ SizeOf(SubSeq(pending, 1, n)) <= FrameCap
  /\ n < Len(pending) => SizeOf(SubSeq(pending, 1, n + 1)) > FrameCap

\* socket.send: a message to a client that is gone is lost.
Deliver(k, m) == IF k \in cut THEN down ELSE [down EXCEPT ![k] = Append(@, m)]

\* The task ends (detach_client); what it had not read or sent is dropped.
Close(k) ==
  /\ conn' = [conn EXCEPT ![k] = [Fresh EXCEPT !.phase = "closed"]]
  /\ up' = [up EXCEPT ![k] = <<>>]

Consume(k) == up' = [up EXCEPT ![k] = Tail(@)]
Arrives(k, type) == up[k] # <<>> /\ Head(up[k]).type = type

(***************************************************************************)
(* The session's producer.                                                 *)
(***************************************************************************)

\* push_output: the reader thread, the intro or the exit message.
PtyOutput ==
  /\ next < MaxOutputs
  /\ \E hasQuery \in BOOLEAN : Push(hasQuery)
  /\ UNCHANGED deliveryVars

(***************************************************************************)
(* The connection task.                                                    *)
(***************************************************************************)

\* Mutant of Upgrade: the receiver starts behind the next chunk.
UpgradeLate(k) ==
  /\ conn[k].phase = "unused"
  /\ conn' = [conn EXCEPT ![k] = [Fresh EXCEPT !.phase = "hello", !.rx = next + 1]]

\* The upgrade completes: the task subscribes before it reads anything.
Upgrade(k) ==
  /\ conn[k].phase = "unused"
  /\ conn' = [conn EXCEPT ![k] = [Fresh EXCEPT !.phase = "hello", !.rx = next]]

\* receive_terminal_hello returns, replay_after runs, ready is sent.
ReceiveHello(k) ==
  /\ conn[k].phase = "hello"
  /\ Arrives(k, "hello")
  /\ LET last == Head(up[k]).last
         replay == Replay(last)
         n == Len(replay.outputs)
     IN  /\ ReplayEffect(last)
         /\ conn' = [conn EXCEPT ![k].phase = "live",
                       ![k].pending = replay.outputs,
                       ![k].lastQueued = IF n = 0 THEN replay.base
                                         ELSE replay.outputs[n].seq]
         /\ down' = Deliver(k, [type |-> "ready", reset |-> replay.reset,
                                seq |-> replay.base])
  /\ Consume(k)
  /\ UNCHANGED cut

\* An acknowledgement before the hello and a second hello are ignored.
IgnoreMessage(k) ==
  /\ \/ conn[k].phase = "hello" /\ Arrives(k, "ack")
     \/ Selecting(k) /\ Arrives(k, "hello")
  /\ Consume(k)
  /\ UNCHANGED <<sessionVars, conn, down, cut>>

\* TERMINAL_HELLO_TIMEOUT runs out.
HelloTimeout(k) ==
  /\ conn[k].phase = "hello"
  /\ Close(k)
  /\ UNCHANGED <<sessionVars, down, cut>>

\* One turn of the send loop.
SendFrame(k) ==
  /\ conn[k].phase = "live"
  /\ CanSend(k)
  /\ \E n \in 1 .. Len(conn[k].pending) :
       LET pending == conn[k].pending
           payload == SubSeq(pending, 1, n)
       IN  /\ TakesFrame(pending, n)
           /\ conn' = [conn EXCEPT
                ![k].pending = SubSeq(pending, n + 1, Len(pending)),
                ![k].sent = Append(@, [end |-> pending[n].seq,
                                       size |-> SizeOf(payload)])]
           /\ down' = Deliver(k, [type |-> "frame", first |-> pending[1].seq,
                                  end |-> pending[n].seq, payload |-> payload])
  /\ UNCHANGED <<sessionVars, up, cut>>

\* output_rx.recv() yields the next chunk: skip it if the replay already
\* queued it, queue it, or give up when the queue is full (close code 1013).
ReceiveOutput(k) ==
  LET s == conn[k].rx + 1
      fits == SizeOf(conn[k].pending) + 1 <= PendingCap
  IN  /\ Selecting(k)
      /\ s <= next
      /\ next - conn[k].rx <= ChannelCap
      /\ \/ /\ s <= conn[k].lastQueued
            /\ conn' = [conn EXCEPT ![k].rx = s]
            /\ UNCHANGED up
         \/ /\ s > conn[k].lastQueued /\ fits
            /\ conn' = [conn EXCEPT ![k].rx = s, ![k].lastQueued = s,
                          ![k].pending = Append(@, LiveChunk(s))]
            /\ UNCHANGED up
         \/ /\ s > conn[k].lastQueued /\ ~fits
            /\ Close(k)
      /\ UNCHANGED <<sessionVars, down, cut>>

\* output_rx.recv() yields Lagged: the receiver moves to the oldest chunk the
\* channel held then, and the history fills the gap, or the connection is
\* given up.  More output may come between the two.
ReceiveLagged(k) ==
  LET last == conn[k].lastQueued
      outputs == Replay(last).outputs
      fits == SizeOf(conn[k].pending) + Len(outputs) <= PendingCap
  IN  /\ Selecting(k)
      /\ next - conn[k].rx > ChannelCap
      /\ ReplayEffect(last)
      /\ \/ /\ CanResume(last) /\ fits
            /\ \E oldest \in conn[k].rx + 1 .. next - ChannelCap :
                 conn' = [conn EXCEPT ![k].rx = oldest,
                            ![k].lastQueued = next,
                            ![k].pending = @ \o outputs]
            /\ UNCHANGED up
         \/ /\ ~(CanResume(last) /\ fits)
            /\ Close(k)
      /\ UNCHANGED <<down, cut>>

\* TerminalDeliveryWindow::acknowledge accepts only what advances and was
\* sent; only then does the session forget the queries up to there.
ReceiveAck(k) ==
  LET seq == Head(up[k]).seq
      sent == conn[k].sent
      accepted == /\ seq > conn[k].acked
                  /\ sent # <<>>
                  /\ seq <= sent[Len(sent)].end
  IN  /\ Selecting(k)
      /\ Arrives(k, "ack")
      /\ \/ /\ accepted
            /\ \E n \in 0 .. Len(sent) :
                 /\ \A i \in 1 .. n : sent[i].end <= seq
                 /\ n < Len(sent) => sent[n + 1].end > seq
                 /\ conn' = [conn EXCEPT ![k].sent = SubSeq(sent, n + 1, Len(sent)),
                                         ![k].acked = seq]
            /\ Acknowledge(seq)
         \/ ~accepted /\ UNCHANGED <<sessionVars, conn>>
      /\ Consume(k)
      /\ UNCHANGED <<down, cut>>

\* Input is written to the PTY whether or not the hello has come.
ReceiveAnswer(k) ==
  /\ Selecting(k) \/ conn[k].phase = "hello"
  /\ Arrives(k, "answer")
  /\ WriteAnswer(Head(up[k]).queries)
  /\ Consume(k)
  /\ UNCHANGED <<conn, down, cut>>

\* A receive or a send on a socket without a peer fails.
DetectLoss(k) ==
  /\ k \in cut
  /\ conn[k].phase \in {"hello", "live"}
  /\ Close(k)
  /\ UNCHANGED <<sessionVars, down, cut>>

ConnectionTask(k) ==
  \/ ReceiveHello(k) \/ IgnoreMessage(k) \/ HelloTimeout(k)
  \/ SendFrame(k) \/ ReceiveOutput(k) \/ ReceiveLagged(k)
  \/ ReceiveAck(k) \/ ReceiveAnswer(k) \/ DetectLoss(k)

(***************************************************************************)
(* An arbitrary client.                                                    *)
(***************************************************************************)

ClientConnects(k) == Upgrade(k) /\ UNCHANGED <<sessionVars, up, down, cut>>

ClientSends(k) ==
  /\ conn[k].phase \in {"hello", "live"}
  /\ k \notin cut
  /\ Len(up[k]) < MaxUp
  /\ \E m \in [type : {"hello"}, last : None .. next + 1]
              \cup [type : {"ack"}, seq : 0 .. next + 1]
              \cup [type : {"answer"}, queries : {queryChunks}] :
         up' = [up EXCEPT ![k] = Append(@, m)]
  /\ UNCHANGED <<sessionVars, conn, down, cut>>

ClientReceives(k) ==
  /\ down[k] # <<>>
  /\ down' = [down EXCEPT ![k] = Tail(@)]
  /\ UNCHANGED <<sessionVars, conn, up, cut>>

ClientLeaves(k) ==
  /\ conn[k].phase # "unused"
  /\ k \notin cut
  /\ cut' = cut \cup {k}
  /\ down' = [down EXCEPT ![k] = <<>>]
  /\ UNCHANGED <<sessionVars, conn, up>>

Client(k) ==
  ClientConnects(k) \/ ClientSends(k) \/ ClientReceives(k) \/ ClientLeaves(k)

Next == PtyOutput \/ \E k \in Sockets : ConnectionTask(k) \/ Client(k)

Spec == Init /\ [][Next]_vars

-----------------------------------------------------------------------------
(***************************************************************************)
(* Properties.                                                             *)
(***************************************************************************)

Live(k) == conn[k].phase = "live"

\* The last chunk a live connection has put on the wire.
LastSent(k) == conn[k].lastQueued - Len(conn[k].pending)

\* The chunks carry the numbers that follow base.
NumberedFrom(chunks, base) == \A i \in 1 .. Len(chunks) : chunks[i].seq = base + i

QueueIsContiguous(k) ==
  /\ conn[k].rx <= conn[k].lastQueued
  /\ conn[k].lastQueued <= next
  /\ NumberedFrom(conn[k].pending, LastSent(k))

\* The chunks a live connection still has to send run without a gap or a
\* repetition up to last_queued_sequence, which never trails its receiver:
\* neither the replay, nor the subscription made before it, nor a recovery
\* from a lag loses a chunk between them (terminal_api.rs:314-333, 364-398).
QueueContiguous == \A k \in Sockets : Live(k) => QueueIsContiguous(k)

Covered(m) == IF m.type = "ready" THEN m.seq ELSE m.end

\* The messages follow one another up to a chunk, and only the first is ready.
FollowsUpTo(messages, end) ==
  \A i \in 1 .. Len(messages) :
    /\ messages[i].type = "ready" => i = 1
    /\ i < Len(messages) => messages[i + 1].first = Covered(messages[i]) + 1
    /\ i = Len(messages) => Covered(messages[i]) = end

WireIsContiguous(k) == FollowsUpTo(down[k], LastSent(k))

\* The frames under way to a connected client follow each other without a
\* gap up to the first chunk still queued, and nothing but frames follows
\* the ready message (terminal_api.rs:343-362).
WireContiguous ==
  \A k \in Sockets : Live(k) /\ k \notin cut => WireIsContiguous(k)

EndsBy(sent, bound) == \A i \in 1 .. Len(sent) : sent[i].end <= bound

SentIsBehind(k) == EndsBy(conn[k].sent, LastSent(k))

\* The unacknowledged window is overrun by at most the one frame that was
\* taken while it was still open, and acknowledged output leaves it
\* (TerminalDeliveryWindow, terminal_api.rs:536-575).
WindowBounded ==
  \A k \in Sockets : Live(k) =>
    LET sent == conn[k].sent
    IN  /\ sent # <<>> => Unacknowledged(SubSeq(sent, 1, Len(sent) - 1)) < WindowCap
        /\ \A i \in 1 .. Len(sent) : conn[k].acked < sent[i].end
        /\ SentIsBehind(k)

ForgetsOnlySent ==
  \A q \in pendingQueries \ pendingQueries' :
    \E k \in Sockets : Live(k) /\ q <= LastSent(k)

\* The session forgets a query only once some connection has put the chunk,
\* or a snapshot made after it, on the wire: no acknowledgement however odd
\* clears a query that no client was sent (terminal_api.rs:551-575).
OnlySentQueriesForgotten == [][ForgetsOnlySent]_vars

Untouched(k) ==
  /\ conn[k].rx <= next
  /\ conn[k].sent = <<>>
  /\ down[k] = <<>>

SocketInv(k) ==
  /\ conn[k].phase = "unused" => down[k] = <<>>
  /\ conn[k].phase = "hello" => Untouched(k)
  /\ Live(k) => QueueIsContiguous(k) /\ SentIsBehind(k)
  /\ Live(k) /\ k \notin cut => WireIsContiguous(k)

\* What makes the safety properties inductive: beside them, a task that waits
\* for the hello has sent nothing, its receiver is not ahead of the channel,
\* and a task that has not started has nothing on the wire.
DeliveryInv == \A k \in Sockets : SocketInv(k)

=============================================================================
