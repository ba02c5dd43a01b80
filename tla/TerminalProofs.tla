---------------------------- MODULE TerminalProofs --------------------------
(***************************************************************************)
(* Theorems of the terminal stream.  First of the server's part            *)
(* (TerminalDelivery), for every value of its constants and for clients    *)
(* that send whatever they like.  Then of the stream from end to end       *)
(* (TerminalStream): that StreamInv is an invariant for any number of      *)
(* browsers and sockets, that the properties of the stream follow from it, *)
(* and that the stream implements OutputLog.                               *)
(*                                                                         *)
(* The lemmas of the second part speak of one socket: of the view v of the *)
(* browser that owns it, before and after a step (w), of its task t, and   *)
(* of the messages down (d) and up (u).  Only the last ones put the        *)
(* sockets together.                                                       *)
(***************************************************************************)
EXTENDS TerminalStream, SequenceTheorems, FiniteSetTheorems, TLAPS

-----------------------------------------------------------------------------
(***************************************************************************)
(* Lemmas on the session's operations.                                     *)
(***************************************************************************)

\* Pushing a chunk keeps the types and advances the stream by one.
LEMMA PushType ==
  ASSUME SessionTypeOK, NEW q \in BOOLEAN, Push(q)
  PROVE  SessionTypeOK' /\ next' = next + 1
<1>. USE HistoryAssumption DEF SessionTypeOK, Sequence
<1>1. OldestRetained(next + 1) \in Nat
  BY DEF OldestRetained
<1>. QED
  BY <1>1 DEF Push

\* A replay is well typed, and its chunks are numbered from its base on.
LEMMA ReplayContiguous ==
  ASSUME SessionTypeOK, NEW last \in Resume
  PROVE  LET replay == Replay(last)
         IN  /\ replay.reset \in BOOLEAN
             /\ replay.base \in Sequence
             /\ replay.outputs \in Seq(Chunk)
             /\ replay.base + Len(replay.outputs) = IF CanResume(last) THEN next ELSE next + 1
             /\ \A i \in 1 .. Len(replay.outputs) : replay.outputs[i].seq = replay.base + i
<1>. USE DEF SessionTypeOK, Sequence, Resume, None
<1>1. CASE CanResume(last)
  <2>. DEFINE n == next - last
              outputs == [i \in 1 .. n |-> LiveChunk(last + i)]
  <2>1. last \in Nat /\ n \in Nat
    BY <1>1 DEF CanResume
  <2>2. \A i \in 1 .. n : LiveChunk(last + i) \in Chunk /\ LiveChunk(last + i).seq = last + i
    BY <2>1 DEF LiveChunk, Chunk
  <2>3. outputs \in Seq(Chunk)
    BY <2>1, <2>2
  <2>4. Len(outputs) = n
    BY <2>1, <2>3
  <2>. HIDE DEF n
  <2>5. \A i \in 1 .. Len(outputs) : outputs[i].seq = last + i
    BY <2>1, <2>2, <2>4
  <2>6. Replay(last) = [reset |-> FALSE, base |-> last, outputs |-> outputs]
    <3>1. RetainedAfter(last) = outputs
      BY <1>1 DEF RetainedAfter, CanResume, n
    <3>. QED
      BY <1>1, <3>1 DEF Replay
  <2>7. last + Len(outputs) = next
    BY <2>1, <2>4 DEF n
  <2>. QED
    BY <1>1, <2>1, <2>3, <2>5, <2>6, <2>7
<1>2. CASE ~CanResume(last)
  <2>1. Replay(last) = [reset |-> TRUE, base |-> next, outputs |-> <<SnapshotChunk(next + 1)>>]
    BY <1>2 DEF Replay
  <2>2. SnapshotChunk(next + 1) \in Chunk /\ SnapshotChunk(next + 1).seq = next + 1
    BY DEF SnapshotChunk, Chunk
  <2>. QED
    BY <1>2, <2>1, <2>2
<1>. QED
  BY <1>1, <1>2

\* What a replay does to the session: nothing, or one pushed boundary.
LEMMA ReplayEffectType ==
  ASSUME SessionTypeOK, NEW last, ReplayEffect(last)
  PROVE  SessionTypeOK' /\ next' = IF CanResume(last) THEN next ELSE next + 1
<1>1. CASE CanResume(last)
  BY <1>1 DEF ReplayEffect, sessionVars, SessionTypeOK
<1>2. CASE ~CanResume(last)
  BY <1>2, PushType DEF ReplayEffect
<1>. QED
  BY <1>1, <1>2

-----------------------------------------------------------------------------
(***************************************************************************)
(* Lemmas on the helpers of the connection task.                           *)
(***************************************************************************)

\* Closing a connection keeps the types.
LEMMA CloseType ==
  ASSUME DeliveryTypeOK, NEW k \in Sockets, Close(k)
  PROVE  /\ conn' \in [Sockets -> Connection]
         /\ up' \in [Sockets -> Seq(UpMessage)]
<1>1. [Fresh EXCEPT !.phase = "closed"] \in Connection
  <2>1. <<>> \in Seq(Chunk) /\ <<>> \in Seq(Sent)
    OBVIOUS
  <2>. QED
    BY <2>1 DEF Fresh, Connection, Phase, Sequence
<1>2. <<>> \in Seq(UpMessage)
  OBVIOUS
<1>. HIDE DEF Connection, UpMessage
<1>3. conn' \in [Sockets -> Connection]
  BY <1>1 DEF Close, DeliveryTypeOK
<1>4. up' \in [Sockets -> Seq(UpMessage)]
  BY <1>2 DEF Close, DeliveryTypeOK
<1>. QED
  BY <1>3, <1>4

\* The message at the head of a client's channel has the type asked for.
LEMMA ArrivalType ==
  ASSUME DeliveryTypeOK, NEW k \in Sockets, up[k] # <<>>
  PROVE  /\ Head(up[k]) \in UpMessage
         /\ Arrives(k, "hello") => Head(up[k]).last \in Resume
         /\ Arrives(k, "ack") => Head(up[k]).seq \in Sequence
         /\ Arrives(k, "answer") => Head(up[k]).queries \in SUBSET Sequence
<1>1. Head(up[k]) \in UpMessage
  BY DEF DeliveryTypeOK
<1>. QED
  BY <1>1 DEF Arrives, UpMessage, Hello, Ack, Answer

\* Receiving a message leaves a well-typed channel.
LEMMA ConsumeType ==
  ASSUME DeliveryTypeOK, NEW k \in Sockets, up[k] # <<>>, Consume(k)
  PROVE  up' \in [Sockets -> Seq(UpMessage)]
<1>1. Tail(up[k]) \in Seq(UpMessage)
  BY DEF DeliveryTypeOK
<1>. QED
  BY <1>1 DEF Consume, DeliveryTypeOK

\* Sending a message leaves a well-typed channel.
LEMMA DeliverType ==
  ASSUME DeliveryTypeOK, NEW k \in Sockets, NEW m \in Ready \cup Frame
  PROVE  Deliver(k, m) \in [Sockets -> Seq(Ready \cup Frame)]
<1>1. Append(down[k], m) \in Seq(Ready \cup Frame)
  BY DEF DeliveryTypeOK
<1>. QED
  BY <1>1 DEF Deliver, DeliveryTypeOK

\* SizeOf weighs at least one unit per chunk.
LEMMA SizeOfType ==
  ASSUME NEW chunks \in Seq(Chunk)
  PROVE  SizeOf(chunks) \in Nat
<1>1. IsFiniteSet({i \in DOMAIN chunks : chunks[i].snapshot})
  <2>1. IsFiniteSet(1 .. Len(chunks))
    BY FS_Interval
  <2>2. {i \in DOMAIN chunks : chunks[i].snapshot} \subseteq 1 .. Len(chunks)
    OBVIOUS
  <2>. QED
    BY <2>1, <2>2, FS_Subset
<1>2. Cardinality({i \in DOMAIN chunks : chunks[i].snapshot}) \in Nat
  BY <1>1, FS_CardinalityType
<1>3. SnapshotSize - 1 \in Nat
  BY SnapshotAssumption
<1>4. \A a, b \in Nat : a * b \in Nat
  OBVIOUS
<1>. QED
  BY <1>2, <1>3, <1>4 DEF SizeOf

-----------------------------------------------------------------------------
(***************************************************************************)
(* Type correctness.                                                       *)
(***************************************************************************)

\* The initial state is well typed.
LEMMA InitType == Init => TypeOK
<1>1. <<>> \in Seq(UpMessage) /\ <<>> \in Seq(Ready \cup Frame)
  OBVIOUS
<1>2. Fresh \in Connection
  <2>1. <<>> \in Seq(Chunk) /\ <<>> \in Seq(Sent)
    OBVIOUS
  <2>. QED
    BY <2>1 DEF Fresh, Connection, Phase, Sequence
<1>. HIDE DEF Connection, UpMessage, Ready, Frame
<1>. SUFFICES ASSUME Init PROVE TypeOK
  OBVIOUS
<1>3. SessionTypeOK
  BY DEF Init, SessionInit, SessionTypeOK, Sequence
<1>4. DeliveryTypeOK
  BY <1>1, <1>2 DEF Init, DeliveryInit, DeliveryTypeOK
<1>. QED
  BY <1>3, <1>4 DEF TypeOK

\* The ready message answers the hello.
LEMMA ReceiveHelloType ==
  ASSUME TypeOK, NEW k \in Sockets, ReceiveHello(k)
  PROVE  TypeOK'
<1>. DEFINE last == Head(up[k]).last
            replay == Replay(last)
            n == Len(replay.outputs)
            queued == IF n = 0 THEN replay.base ELSE replay.outputs[n].seq
            ready == [type |-> "ready", reset |-> replay.reset, seq |-> replay.base]
<1>. USE DEF TypeOK
<1>1. up[k] # <<>> /\ last \in Resume
  BY ArrivalType DEF ReceiveHello, Arrives
<1>2. SessionTypeOK'
  BY <1>1, ReplayEffectType DEF ReceiveHello
<1>3. /\ replay.reset \in BOOLEAN
      /\ replay.base \in Sequence
      /\ replay.outputs \in Seq(Chunk)
  BY <1>1, ReplayContiguous
<1>4. queued \in Sequence
  <2>. HIDE DEF replay
  <2>1. n # 0 => replay.outputs[n] \in Chunk
    BY <1>3
  <2>. QED
    BY <1>3, <2>1 DEF Chunk
<1>5. ready \in Ready
  BY <1>3 DEF Ready
<1>6. conn' = [conn EXCEPT ![k].phase = "live", ![k].pending = replay.outputs,
                           ![k].lastQueued = queued]
  BY DEF ReceiveHello
<1>7. down' = Deliver(k, ready)
  BY DEF ReceiveHello
<1>. HIDE DEF last, replay, queued, ready
<1>8. conn' \in [Sockets -> Connection]
  BY <1>3, <1>4, <1>6 DEF DeliveryTypeOK, Connection, Phase
<1>9. down' \in [Sockets -> Seq(Ready \cup Frame)]
  BY <1>5, <1>7, DeliverType
<1>10. up' \in [Sockets -> Seq(UpMessage)]
  BY <1>1, ConsumeType DEF ReceiveHello
<1>11. cut' \in SUBSET Sockets
  BY DEF ReceiveHello, DeliveryTypeOK
<1>. QED
  BY <1>2, <1>8, <1>9, <1>10, <1>11 DEF DeliveryTypeOK

\* A frame is a prefix of what was pending.
LEMMA SendFrameType ==
  ASSUME TypeOK, NEW k \in Sockets, SendFrame(k)
  PROVE  TypeOK'
<1>. USE DEF TypeOK
<1>. DEFINE pending == conn[k].pending
<1>1. pending \in Seq(Chunk)
  BY DEF DeliveryTypeOK, Connection
<1>2. PICK n \in 1 .. Len(pending) :
        /\ conn' = [conn EXCEPT
             ![k].pending = SubSeq(pending, n + 1, Len(pending)),
             ![k].sent = Append(@, [end |-> pending[n].seq,
                                    size |-> SizeOf(SubSeq(pending, 1, n))])]
        /\ down' = Deliver(k, [type |-> "frame", first |-> pending[1].seq,
                               end |-> pending[n].seq,
                               payload |-> SubSeq(pending, 1, n)])
  BY DEF SendFrame
<1>. HIDE DEF pending
<1>3. pending[1] \in Chunk /\ pending[n] \in Chunk
  BY <1>1
<1>4. SubSeq(pending, 1, n) \in Seq(Chunk) /\ SubSeq(pending, n + 1, Len(pending)) \in Seq(Chunk)
  BY <1>1, SubSeqProperties
<1>5. [end |-> pending[n].seq, size |-> SizeOf(SubSeq(pending, 1, n))] \in Sent
  BY <1>3, <1>4, SizeOfType DEF Chunk, Sent
<1>6. [type |-> "frame", first |-> pending[1].seq, end |-> pending[n].seq,
       payload |-> SubSeq(pending, 1, n)] \in Frame
  BY <1>3, <1>4 DEF Chunk, Frame
<1>7. conn' \in [Sockets -> Connection]
  <2>1. Append(conn[k].sent, [end |-> pending[n].seq, size |-> SizeOf(SubSeq(pending, 1, n))])
          \in Seq(Sent)
    BY <1>5 DEF DeliveryTypeOK, Connection
  <2>. HIDE DEF Sent, Chunk
  <2>. QED
    BY <1>2, <1>4, <2>1 DEF DeliveryTypeOK, Connection
<1>8. down' \in [Sockets -> Seq(Ready \cup Frame)]
  BY <1>2, <1>6, DeliverType
<1>9. SessionTypeOK' /\ up' = up /\ cut' = cut
  BY DEF SendFrame, sessionVars, SessionTypeOK
<1>. QED
  BY <1>7, <1>8, <1>9 DEF DeliveryTypeOK

\* The channel's next chunk is skipped, queued, or too much.
LEMMA ReceiveOutputType ==
  ASSUME TypeOK, NEW k \in Sockets, ReceiveOutput(k)
  PROVE  TypeOK'
<1>. USE DEF TypeOK
<1>. DEFINE s == conn[k].rx + 1
<1>1. s \in Sequence
  BY DEF DeliveryTypeOK, Connection, Sequence
<1>2. LiveChunk(s) \in Chunk
  BY <1>1 DEF LiveChunk, Chunk
<1>3. SessionTypeOK' /\ down' = down /\ cut' = cut
  BY DEF ReceiveOutput, sessionVars, SessionTypeOK
<1>4. CASE Close(k)
  BY <1>3, <1>4, CloseType DEF DeliveryTypeOK
<1>5. CASE conn' = [conn EXCEPT ![k].rx = s] /\ UNCHANGED up
  <2>. HIDE DEF s, Chunk, Sent
  <2>1. conn' \in [Sockets -> Connection]
    BY <1>1, <1>5 DEF DeliveryTypeOK, Connection
  <2>. QED
    BY <1>3, <1>5, <2>1 DEF DeliveryTypeOK
<1>6. CASE /\ conn' = [conn EXCEPT ![k].rx = s, ![k].lastQueued = s,
                         ![k].pending = Append(@, LiveChunk(s))]
           /\ UNCHANGED up
  <2>1. Append(conn[k].pending, LiveChunk(s)) \in Seq(Chunk)
    BY <1>2 DEF DeliveryTypeOK, Connection
  <2>. HIDE DEF s, Chunk, Sent
  <2>2. conn' \in [Sockets -> Connection]
    BY <1>1, <1>6, <2>1 DEF DeliveryTypeOK, Connection
  <2>. QED
    BY <1>3, <1>6, <2>2 DEF DeliveryTypeOK
<1>. QED
  BY <1>4, <1>5, <1>6 DEF ReceiveOutput

\* A lagging receiver recovers from the history or is given up.
LEMMA ReceiveLaggedType ==
  ASSUME TypeOK, NEW k \in Sockets, ReceiveLagged(k)
  PROVE  TypeOK'
<1>. USE DEF TypeOK
<1>. DEFINE last == conn[k].lastQueued
            outputs == Replay(last).outputs
<1>1. last \in Resume
  BY DEF DeliveryTypeOK, Connection, Resume
<1>2. SessionTypeOK' /\ down' = down /\ cut' = cut
  BY <1>1, ReplayEffectType DEF ReceiveLagged
<1>3. outputs \in Seq(Chunk)
  BY <1>1, ReplayContiguous
<1>4. \A oldest \in conn[k].rx + 1 .. next - ChannelCap : oldest \in Sequence
  BY DeliveryAssumption DEF DeliveryTypeOK, Connection, SessionTypeOK, Sequence
<1>5. CASE Close(k)
  BY <1>2, <1>5, CloseType DEF DeliveryTypeOK
<1>6. CASE /\ \E oldest \in conn[k].rx + 1 .. next - ChannelCap :
                conn' = [conn EXCEPT ![k].rx = oldest,
                           ![k].lastQueued = next, ![k].pending = @ \o outputs]
           /\ UNCHANGED up
  <2>1. PICK oldest \in Sequence :
          conn' = [conn EXCEPT ![k].rx = oldest,
                     ![k].lastQueued = next, ![k].pending = @ \o outputs]
    BY <1>4, <1>6
  <2>2. conn[k].pending \o outputs \in Seq(Chunk)
    BY <1>3 DEF DeliveryTypeOK, Connection
  <2>. HIDE DEF outputs, Chunk, Sent
  <2>3. conn' \in [Sockets -> Connection]
    BY <2>1, <2>2 DEF DeliveryTypeOK, Connection, SessionTypeOK
  <2>. QED
    BY <1>2, <1>6, <2>3 DEF DeliveryTypeOK
<1>. QED
  BY <1>5, <1>6 DEF ReceiveLagged

\* An acknowledgement shortens the window or is ignored.
LEMMA ReceiveAckType ==
  ASSUME TypeOK, NEW k \in Sockets, ReceiveAck(k)
  PROVE  TypeOK'
<1>. USE DEF TypeOK
<1>. DEFINE seq == Head(up[k]).seq
            sent == conn[k].sent
<1>1. up[k] # <<>> /\ seq \in Sequence
  BY ArrivalType DEF ReceiveAck, Arrives
<1>2. up' \in [Sockets -> Seq(UpMessage)] /\ down' = down /\ cut' = cut
  BY <1>1, ConsumeType DEF ReceiveAck
<1>3. CASE UNCHANGED <<sessionVars, conn>>
  BY <1>2, <1>3 DEF DeliveryTypeOK, SessionTypeOK, sessionVars
<1>4. CASE /\ \E n \in 0 .. Len(sent) :
                conn' = [conn EXCEPT ![k].sent = SubSeq(sent, n + 1, Len(sent)),
                                     ![k].acked = seq]
           /\ Acknowledge(seq)
  <2>1. sent \in Seq(Sent)
    BY DEF DeliveryTypeOK, Connection
  <2>2. PICK n \in 0 .. Len(sent) :
          conn' = [conn EXCEPT ![k].sent = SubSeq(sent, n + 1, Len(sent)),
                               ![k].acked = seq]
    BY <1>4
  <2>. HIDE DEF seq, sent, Chunk, Sent
  <2>3. conn' \in [Sockets -> Connection]
    <3>. DEFINE rest == SubSeq(sent, n + 1, Len(sent))
    <3>1. rest \in Seq(Sent)
      BY <2>1, SubSeqProperties
    <3>. HIDE DEF rest
    <3>. QED
      BY <1>1, <2>2, <3>1 DEF DeliveryTypeOK, Connection, rest
  <2>4. SessionTypeOK'
    BY <1>4 DEF Acknowledge, SessionTypeOK
  <2>. QED
    BY <1>2, <2>3, <2>4 DEF DeliveryTypeOK
<1>. QED
  BY <1>3, <1>4 DEF ReceiveAck

\* The actions that move nothing but a message or a phase.
LEMMA OtherTaskType ==
  ASSUME TypeOK, NEW k \in Sockets,
         IgnoreMessage(k) \/ HelloTimeout(k) \/ ReceiveAnswer(k) \/ DetectLoss(k)
  PROVE  TypeOK'
<1>. USE DEF TypeOK
<1>1. CASE IgnoreMessage(k)
  BY <1>1, ConsumeType DEF IgnoreMessage, Arrives, DeliveryTypeOK, SessionTypeOK, sessionVars
<1>2. CASE HelloTimeout(k)
  BY <1>2, CloseType DEF HelloTimeout, DeliveryTypeOK, SessionTypeOK, sessionVars
<1>3. CASE ReceiveAnswer(k)
  <2>1. up[k] # <<>> /\ Head(up[k]).queries \in SUBSET Sequence
    BY <1>3, ArrivalType DEF ReceiveAnswer, Arrives
  <2>2. SessionTypeOK'
    BY <1>3, <2>1 DEF ReceiveAnswer, WriteAnswer, SessionTypeOK
  <2>. QED
    BY <1>3, <2>1, <2>2, ConsumeType DEF ReceiveAnswer, DeliveryTypeOK
<1>4. CASE DetectLoss(k)
  BY <1>4, CloseType DEF DetectLoss, DeliveryTypeOK, SessionTypeOK, sessionVars
<1>. QED
  BY <1>1, <1>2, <1>3, <1>4

\* Whatever the client does.
LEMMA ClientType ==
  ASSUME TypeOK, NEW k \in Sockets, Client(k)
  PROVE  TypeOK'
<1>. USE DEF TypeOK
<1>1. CASE ClientConnects(k)
  <2>1. [Fresh EXCEPT !.phase = "hello", !.rx = next] \in Connection
    <3>1. <<>> \in Seq(Chunk) /\ <<>> \in Seq(Sent)
      OBVIOUS
    <3>. QED
      BY <3>1 DEF Fresh, Connection, Phase, Sequence, SessionTypeOK
  <2>. HIDE DEF Connection
  <2>2. conn' \in [Sockets -> Connection]
    BY <1>1, <2>1 DEF ClientConnects, Upgrade, DeliveryTypeOK
  <2>. QED
    BY <1>1, <2>2 DEF ClientConnects, DeliveryTypeOK, SessionTypeOK, sessionVars
<1>2. CASE ClientSends(k)
  <2>1. PICK m \in [type : {"hello"}, last : None .. next + 1]
                   \cup [type : {"ack"}, seq : 0 .. next + 1]
                   \cup [type : {"answer"}, queries : {queryChunks}] :
          up' = [up EXCEPT ![k] = Append(@, m)]
    BY <1>2 DEF ClientSends
  <2>2. m \in UpMessage
    <3>1. CASE m \in [type : {"hello"}, last : None .. next + 1]
      BY <3>1 DEF UpMessage, Hello, SessionTypeOK, Sequence, Resume, None
    <3>2. CASE m \in [type : {"ack"}, seq : 0 .. next + 1]
      BY <3>2 DEF UpMessage, Ack, SessionTypeOK, Sequence
    <3>3. CASE m \in [type : {"answer"}, queries : {queryChunks}]
      BY <3>3 DEF UpMessage, Answer, SessionTypeOK
    <3>. QED
      BY <2>1, <3>1, <3>2, <3>3
  <2>. HIDE DEF UpMessage
  <2>3. Append(up[k], m) \in Seq(UpMessage)
    BY <2>2 DEF DeliveryTypeOK
  <2>. QED
    BY <1>2, <2>1, <2>3 DEF ClientSends, DeliveryTypeOK, SessionTypeOK, sessionVars
<1>3. CASE ClientReceives(k)
  <2>1. Tail(down[k]) \in Seq(Ready \cup Frame)
    BY <1>3 DEF ClientReceives, DeliveryTypeOK
  <2>. HIDE DEF Ready, Frame
  <2>. QED
    BY <1>3, <2>1 DEF ClientReceives, DeliveryTypeOK, SessionTypeOK, sessionVars
<1>4. CASE ClientLeaves(k)
  <2>1. <<>> \in Seq(Ready \cup Frame)
    OBVIOUS
  <2>. QED
    BY <1>4, <2>1 DEF ClientLeaves, DeliveryTypeOK, SessionTypeOK, sessionVars
<1>. QED
  BY <1>1, <1>2, <1>3, <1>4 DEF Client

\* Every step keeps the types.
LEMMA NextType == TypeOK /\ [Next]_vars => TypeOK'
<1>. SUFFICES ASSUME TypeOK, [Next]_vars PROVE TypeOK'
  OBVIOUS
<1>1. CASE PtyOutput
  <2>1. SessionTypeOK'
    BY <1>1, PushType DEF PtyOutput, TypeOK
  <2>. QED
    BY <1>1, <2>1 DEF PtyOutput, TypeOK, DeliveryTypeOK, deliveryVars
<1>2. ASSUME NEW k \in Sockets, ConnectionTask(k) PROVE TypeOK'
  BY <1>2, ReceiveHelloType, SendFrameType, ReceiveOutputType, ReceiveLaggedType,
     ReceiveAckType, OtherTaskType DEF ConnectionTask
<1>3. ASSUME NEW k \in Sockets, Client(k) PROVE TypeOK'
  BY <1>3, ClientType
<1>4. CASE UNCHANGED vars
  BY <1>4 DEF vars, sessionVars, deliveryVars, TypeOK, SessionTypeOK, DeliveryTypeOK
<1>. QED
  BY <1>1, <1>2, <1>3, <1>4 DEF Next

\* The state of the session, of every connection task and of the wires has
\* its type in every behaviour, whatever the clients send.
THEOREM TypeCorrect == Spec => []TypeOK
BY InitType, NextType, PTL DEF Spec

-----------------------------------------------------------------------------
(***************************************************************************)
(* Lemmas on numbered chunks, on the window and on the wire.               *)
(***************************************************************************)

\* Taking the first n chunks off a numbered run.
LEMMA NumberedSuffix ==
  ASSUME NEW chunks \in Seq(Chunk), NEW base \in Int, NumberedFrom(chunks, base),
         NEW n \in 1 .. Len(chunks)
  PROVE  LET rest == SubSeq(chunks, n + 1, Len(chunks))
         IN  /\ rest \in Seq(Chunk)
             /\ Len(rest) = Len(chunks) - n
             /\ NumberedFrom(rest, base + n)
             /\ chunks[1].seq = base + 1
             /\ chunks[n].seq = base + n
<1>. DEFINE len == Len(chunks)
            rest == SubSeq(chunks, n + 1, len)
<1>1. len \in Nat /\ n \in Nat /\ n <= len /\ 1 <= n
  OBVIOUS
<1>2. \A i \in n + 1 .. len : chunks[i] \in Chunk
  BY <1>1
<1>3. \A i \in 1 .. len : chunks[i].seq = base + i
  BY DEF NumberedFrom
<1>. HIDE DEF len
<1>4. /\ rest \in Seq(Chunk)
      /\ Len(rest) = IF n + 1 <= len THEN len - (n + 1) + 1 ELSE 0
      /\ \A i \in 1 .. len - (n + 1) + 1 : rest[i] = chunks[(n + 1) + i - 1]
  BY <1>1, <1>2, SubSeqProperties
<1>. HIDE DEF rest
<1>5. Len(rest) = len - n
  BY <1>1, <1>4
<1>6. \A i \in 1 .. len - n : rest[i] = chunks[n + i]
  BY <1>1, <1>4
<1>7. \A i \in 1 .. len - n : n + i \in 1 .. len
  BY <1>1
<1>8. ASSUME NEW i \in 1 .. len - n
      PROVE  rest[i].seq = (base + n) + i
  <2>1. chunks[n + i].seq = base + (n + i)
    BY <1>3, <1>7
  <2>. QED
    BY <1>1, <1>6, <2>1
<1>9. NumberedFrom(rest, base + n)
  BY <1>5, <1>8 DEF NumberedFrom
<1>10. chunks[1].seq = base + 1 /\ chunks[n].seq = base + n
  BY <1>1, <1>3
<1>. QED
  BY <1>4, <1>5, <1>9, <1>10 DEF rest, len

\* Continuing a numbered run with another one.
LEMMA NumberedConcat ==
  ASSUME NEW chunks \in Seq(Chunk), NEW more \in Seq(Chunk), NEW base \in Int,
         NumberedFrom(chunks, base), NumberedFrom(more, base + Len(chunks))
  PROVE  /\ chunks \o more \in Seq(Chunk)
         /\ Len(chunks \o more) = Len(chunks) + Len(more)
         /\ NumberedFrom(chunks \o more, base)
<1>. DEFINE both == chunks \o more
            a == Len(chunks)
            b == Len(more)
<1>1. a \in Nat /\ b \in Nat
  OBVIOUS
<1>2. /\ both \in Seq(Chunk)
      /\ Len(both) = a + b
      /\ \A i \in 1 .. a + b : both[i] = IF i <= a THEN chunks[i] ELSE more[i - a]
  BY ConcatProperties
<1>3. \A i \in 1 .. a : chunks[i].seq = base + i
  BY DEF NumberedFrom
<1>4. \A i \in 1 .. b : more[i].seq = (base + a) + i
  BY DEF NumberedFrom
<1>. HIDE DEF both, a, b
<1>5. ASSUME NEW i \in 1 .. a + b PROVE both[i].seq = base + i
  <2>1. CASE i <= a
    BY <1>1, <1>2, <1>3, <2>1
  <2>2. CASE i > a
    <3>1. i - a \in 1 .. b
      BY <1>1, <2>2
    <3>2. more[i - a].seq = (base + a) + (i - a)
      BY <1>4, <3>1
    <3>3. both[i] = more[i - a]
      BY <1>1, <1>2, <2>2
    <3>. QED
      BY <1>1, <3>2, <3>3
  <2>. QED
    BY <1>1, <2>1, <2>2
<1>6. NumberedFrom(both, base)
  BY <1>2, <1>5 DEF NumberedFrom
<1>. QED
  BY <1>2, <1>6 DEF both, a, b

\* Continuing a numbered run with its next chunk.
LEMMA NumberedAppend ==
  ASSUME NEW chunks \in Seq(Chunk), NEW base \in Int, NumberedFrom(chunks, base),
         NEW c \in Chunk, c.seq = base + Len(chunks) + 1
  PROVE  /\ Append(chunks, c) \in Seq(Chunk)
         /\ Len(Append(chunks, c)) = Len(chunks) + 1
         /\ NumberedFrom(Append(chunks, c), base)
<1>1. /\ Append(chunks, c) \in Seq(Chunk)
      /\ Len(Append(chunks, c)) = Len(chunks) + 1
      /\ \A i \in 1 .. Len(chunks) : Append(chunks, c)[i] = chunks[i]
      /\ Append(chunks, c)[Len(chunks) + 1] = c
  BY AppendProperties
<1>. DEFINE all == Append(chunks, c)
            len == Len(chunks)
<1>2. len \in Nat
  OBVIOUS
<1>3. \A i \in 1 .. len : chunks[i].seq = base + i
  BY DEF NumberedFrom
<1>4. c.seq = base + (len + 1)
  BY <1>2
<1>5. /\ Len(all) = len + 1
      /\ \A i \in 1 .. len : all[i] = chunks[i]
      /\ all[len + 1] = c
  BY <1>1
<1>. HIDE DEF all, len
<1>6. \A i \in 1 .. len + 1 : all[i].seq = base + i
  BY <1>2, <1>3, <1>4, <1>5
<1>7. NumberedFrom(all, base)
  BY <1>5, <1>6 DEF NumberedFrom
<1>. QED
  BY <1>1, <1>7 DEF all

\* A frame recorded in the window ends where the wire ends.
LEMMA EndsByAppend ==
  ASSUME NEW sent \in Seq(Sent), NEW bound \in Int, EndsBy(sent, bound),
         NEW later \in Int, bound <= later, NEW e \in Sent, e.end = later
  PROVE  EndsBy(Append(sent, e), later)
<1>. DEFINE all == Append(sent, e)
            len == Len(sent)
<1>1. len \in Nat
  OBVIOUS
<1>2. /\ Len(all) = len + 1
      /\ \A i \in 1 .. len : all[i] = sent[i]
      /\ all[len + 1] = e
  BY AppendProperties
<1>3. \A i \in 1 .. len : sent[i].end \in Nat /\ sent[i].end <= bound
  <2>1. \A i \in 1 .. len : sent[i] \in Sent
    OBVIOUS
  <2>. QED
    BY <2>1 DEF EndsBy, Sent, Sequence
<1>. HIDE DEF all, len
<1>4. \A i \in 1 .. len + 1 : all[i].end <= later
  BY <1>1, <1>2, <1>3
<1>5. EndsBy(all, later)
  BY <1>2, <1>4 DEF EndsBy
<1>. QED
  BY <1>5 DEF all

\* Acknowledged frames leave the window from its front.
LEMMA EndsBySuffix ==
  ASSUME NEW sent \in Seq(Sent), NEW bound \in Int, EndsBy(sent, bound),
         NEW n \in 0 .. Len(sent)
  PROVE  EndsBy(SubSeq(sent, n + 1, Len(sent)), bound)
<1>. DEFINE len == Len(sent)
            rest == SubSeq(sent, n + 1, len)
<1>1. len \in Nat /\ n \in Nat /\ n <= len
  OBVIOUS
<1>2. \A i \in n + 1 .. len : sent[i] \in Sent
  BY <1>1
<1>3. \A i \in 1 .. len : sent[i].end <= bound
  BY DEF EndsBy
<1>. HIDE DEF len
<1>4. /\ Len(rest) = IF n + 1 <= len THEN len - (n + 1) + 1 ELSE 0
      /\ \A i \in 1 .. len - (n + 1) + 1 : rest[i] = sent[(n + 1) + i - 1]
  BY <1>1, <1>2, SubSeqProperties
<1>. HIDE DEF rest
<1>5. Len(rest) = len - n
  BY <1>1, <1>4
<1>6. \A i \in 1 .. len - n : rest[i] = sent[n + i]
  BY <1>1, <1>4
<1>7. \A i \in 1 .. len - n : n + i \in 1 .. len
  BY <1>1
<1>8. \A i \in 1 .. Len(rest) : rest[i].end <= bound
  BY <1>3, <1>5, <1>6, <1>7
<1>9. EndsBy(rest, bound)
  BY <1>8 DEF EndsBy
<1>. QED
  BY <1>9 DEF rest, len

\* A frame that continues the wire extends it.
LEMMA FollowsAppend ==
  ASSUME NEW messages \in Seq(Ready \cup Frame), NEW end \in Int,
         FollowsUpTo(messages, end), NEW f \in Frame, f.first = end + 1
  PROVE  FollowsUpTo(Append(messages, f), f.end)
<1>. DEFINE all == Append(messages, f)
            len == Len(messages)
<1>1. len \in Nat
  OBVIOUS
<1>2. /\ Len(all) = len + 1
      /\ \A i \in 1 .. len : all[i] = messages[i]
      /\ all[len + 1] = f
  BY AppendProperties
<1>3. \A i \in 1 .. len :
        /\ messages[i].type = "ready" => i = 1
        /\ i < len => messages[i + 1].first = Covered(messages[i]) + 1
        /\ i = len => Covered(messages[i]) = end
  BY DEF FollowsUpTo
<1>4. f.type = "frame" /\ Covered(f) = f.end
  BY DEF Frame, Covered
<1>. HIDE DEF all, len
<1>5. ASSUME NEW i \in 1 .. len + 1
      PROVE  /\ all[i].type = "ready" => i = 1
             /\ i < len + 1 => all[i + 1].first = Covered(all[i]) + 1
             /\ i = len + 1 => Covered(all[i]) = f.end
  <2>1. CASE i = len + 1
    BY <1>1, <1>2, <1>4, <2>1
  <2>2. CASE i = len
    <3>1. all[i] = messages[i] /\ all[i + 1] = f
      BY <1>1, <1>2, <2>2
    <3>2. i \in 1 .. len
      BY <1>1, <2>2
    <3>. QED
      BY <1>1, <1>3, <2>2, <3>1, <3>2
  <2>3. CASE i < len
    <3>1. i \in 1 .. len /\ i + 1 \in 1 .. len
      BY <1>1, <2>3
    <3>2. all[i] = messages[i] /\ all[i + 1] = messages[i + 1]
      BY <1>2, <3>1
    <3>. QED
      BY <1>1, <1>3, <2>3, <3>1, <3>2
  <2>. QED
    BY <1>1, <2>1, <2>2, <2>3
<1>6. FollowsUpTo(all, f.end)
  BY <1>2, <1>5 DEF FollowsUpTo
<1>. QED
  BY <1>6 DEF all

\* What is received leaves the wire from its front.
LEMMA FollowsTail ==
  ASSUME NEW messages \in Seq(Ready \cup Frame), messages # <<>>, NEW end \in Int,
         FollowsUpTo(messages, end)
  PROVE  FollowsUpTo(Tail(messages), end)
<1>. DEFINE rest == Tail(messages)
            len == Len(messages)
<1>1. len \in Nat \ {0}
  BY EmptySeq
<1>2. /\ Len(rest) = len - 1
      /\ \A i \in 1 .. Len(rest) : rest[i] = messages[i + 1]
  BY HeadTailProperties
<1>3. \A i \in 1 .. len :
        /\ messages[i].type = "ready" => i = 1
        /\ i < len => messages[i + 1].first = Covered(messages[i]) + 1
        /\ i = len => Covered(messages[i]) = end
  BY DEF FollowsUpTo
<1>. HIDE DEF rest, len
<1>4. ASSUME NEW i \in 1 .. len - 1
      PROVE  /\ rest[i].type = "ready" => i = 1
             /\ i < len - 1 => rest[i + 1].first = Covered(rest[i]) + 1
             /\ i = len - 1 => Covered(rest[i]) = end
  <2>1. i + 1 \in 1 .. len /\ i + 1 # 1
    BY <1>1
  <2>2. rest[i] = messages[i + 1]
    BY <1>2
  <2>3. ASSUME i < len - 1 PROVE rest[i + 1].first = Covered(rest[i]) + 1
    <3>1. i + 1 \in 1 .. Len(rest) /\ i + 1 < len
      BY <1>1, <1>2, <2>3
    <3>2. rest[i + 1] = messages[(i + 1) + 1]
      BY <1>2, <3>1
    <3>. QED
      BY <1>3, <2>1, <2>2, <3>1, <3>2
  <2>4. ASSUME i = len - 1 PROVE Covered(rest[i]) = end
    <3>1. i + 1 = len
      BY <1>1, <2>4
    <3>. QED
      BY <1>3, <2>1, <2>2, <3>1
  <2>5. rest[i].type # "ready"
    BY <1>3, <2>1, <2>2
  <2>. QED
    BY <2>3, <2>4, <2>5
<1>5. FollowsUpTo(rest, end)
  BY <1>2, <1>4 DEF FollowsUpTo
<1>. QED
  BY <1>5 DEF rest

-----------------------------------------------------------------------------
(***************************************************************************)
(* The inductive invariant.  A step touches one socket; the others keep    *)
(* SocketInv because the stream only grows.                                *)
(***************************************************************************)

\* What the types say of one socket.
LEMMA SocketType ==
  ASSUME TypeOK, NEW k \in Sockets
  PROVE  /\ conn[k].pending \in Seq(Chunk)
         /\ conn[k].sent \in Seq(Sent)
         /\ conn[k].lastQueued \in Nat
         /\ conn[k].rx \in Nat
         /\ conn[k].acked \in Nat
         /\ Len(conn[k].pending) \in Nat
         /\ LastSent(k) \in Int
         /\ LastSent(k) = conn[k].lastQueued - Len(conn[k].pending)
         /\ down[k] \in Seq(Ready \cup Frame)
         /\ next \in Nat
<1>1. conn[k] \in Connection /\ down[k] \in Seq(Ready \cup Frame) /\ next \in Nat
  BY DEF TypeOK, DeliveryTypeOK, SessionTypeOK, Sequence
<1>. HIDE DEF Chunk, Sent
<1>2. /\ conn[k].pending \in Seq(Chunk)
      /\ conn[k].sent \in Seq(Sent)
      /\ conn[k].lastQueued \in Nat
      /\ conn[k].rx \in Nat
      /\ conn[k].acked \in Nat
  BY <1>1 DEF Connection, Sequence
<1>3. Len(conn[k].pending) \in Nat
  BY <1>2
<1>. QED
  BY <1>1, <1>2, <1>3 DEF LastSent

\* What SocketInv says of a live connection.
LEMMA LiveInv ==
  ASSUME NEW k \in Sockets, SocketInv(k), Live(k)
  PROVE  /\ conn[k].rx <= conn[k].lastQueued
         /\ conn[k].lastQueued <= next
         /\ NumberedFrom(conn[k].pending, LastSent(k))
         /\ EndsBy(conn[k].sent, LastSent(k))
         /\ k \notin cut => FollowsUpTo(down[k], LastSent(k))
BY DEF SocketInv, QueueIsContiguous, SentIsBehind, WireIsContiguous

\* A socket on which nothing happens keeps its invariant.
LEMMA Unaffected ==
  ASSUME TypeOK, NEW j \in Sockets, SocketInv(j),
         conn'[j] = conn[j], down'[j] = down[j], j \notin cut' => j \notin cut,
         next' \in Nat, next <= next'
  PROVE  SocketInv(j)'
<1>1. /\ conn[j].rx \in Nat
      /\ conn[j].lastQueued \in Nat
      /\ next \in Nat
  BY SocketType
<1>2. Untouched(j) => Untouched(j)'
  BY <1>1 DEF Untouched
<1>3. LastSent(j)' = LastSent(j)
  BY DEF LastSent
<1>4. QueueIsContiguous(j) => QueueIsContiguous(j)'
  <2>1. conn[j].lastQueued <= next => conn[j].lastQueued <= next'
    BY <1>1
  <2>. QED
    BY <1>3, <2>1 DEF QueueIsContiguous
<1>5. SentIsBehind(j) => SentIsBehind(j)'
  BY <1>3 DEF SentIsBehind
<1>6. WireIsContiguous(j) => WireIsContiguous(j)'
  BY <1>3 DEF WireIsContiguous
<1>. QED
  BY <1>2, <1>4, <1>5, <1>6 DEF SocketInv, Live

\* A closed connection promises nothing.
LEMMA CloseInv ==
  ASSUME TypeOK, NEW k \in Sockets, Close(k)
  PROVE  /\ SocketInv(k)'
         /\ \A j \in Sockets \ {k} : conn'[j] = conn[j]
<1>1. conn'[k].phase = "closed"
  BY DEF Close, TypeOK, DeliveryTypeOK, Connection, Fresh
<1>2. SocketInv(k)'
  BY <1>1 DEF SocketInv, Live
<1>. QED
  BY <1>2 DEF Close, TypeOK, DeliveryTypeOK

\* The first queue is the replay, and only ready is on the wire.
LEMMA ReceiveHelloInv ==
  ASSUME TypeOK, NEW k \in Sockets, SocketInv(k), ReceiveHello(k)
  PROVE  SocketInv(k)'
<1>. DEFINE last == Head(up[k]).last
            replay == Replay(last)
            outputs == replay.outputs
            n == Len(outputs)
            base == replay.base
            queued == IF n = 0 THEN base ELSE outputs[n].seq
            ready == [type |-> "ready", reset |-> replay.reset, seq |-> base]
<1>1. TypeOK /\ SessionTypeOK /\ DeliveryTypeOK
  BY DEF TypeOK
<1>2. last \in Resume
  BY <1>1, ArrivalType DEF ReceiveHello, Arrives
<1>3. /\ base \in Nat
      /\ outputs \in Seq(Chunk)
      /\ base + n = IF CanResume(last) THEN next ELSE next + 1
      /\ \A i \in 1 .. n : outputs[i].seq = base + i
  BY <1>1, <1>2, ReplayContiguous DEF Sequence
<1>4. next' = IF CanResume(last) THEN next ELSE next + 1
  BY <1>1, <1>2, ReplayEffectType DEF ReceiveHello
<1>5. conn[k].rx <= next /\ conn[k].sent = <<>> /\ down[k] = <<>>
  BY DEF SocketInv, ReceiveHello, Untouched
<1>6. conn' = [conn EXCEPT ![k].phase = "live", ![k].pending = outputs,
                           ![k].lastQueued = queued]
  BY DEF ReceiveHello
<1>7. down' = Deliver(k, ready) /\ cut' = cut
  BY DEF ReceiveHello
<1>8. n \in Nat
  BY <1>3
<1>9. queued = base + n
  <2>. HIDE DEF outputs, base, n
  <2>1. CASE n = 0
    BY <1>3, <2>1
  <2>2. CASE n # 0
    BY <1>3, <1>8, <2>2
  <2>. QED
    BY <2>1, <2>2
<1>. HIDE DEF queued, outputs, base, ready, replay, last
<1>10. /\ conn'[k].pending = outputs
       /\ conn'[k].lastQueued = queued
       /\ conn'[k].rx = conn[k].rx
       /\ conn'[k].sent = conn[k].sent
       /\ conn'[k].phase = "live"
  BY <1>1, <1>6 DEF DeliveryTypeOK, Connection
<1>11. LastSent(k)' = base
  BY <1>3, <1>8, <1>9, <1>10 DEF LastSent
<1>12. QueueIsContiguous(k)'
  <2>1. conn[k].rx \in Nat /\ next \in Nat
    BY SocketType
  <2>2. queued = next' /\ next <= next'
    BY <1>3, <1>4, <1>9, <2>1
  <2>3. conn'[k].rx <= queued /\ queued <= next'
    BY <1>4, <1>5, <1>10, <2>1, <2>2
  <2>4. NumberedFrom(outputs, base)
    BY <1>3 DEF NumberedFrom
  <2>. QED
    BY <1>10, <1>11, <2>3, <2>4 DEF QueueIsContiguous
<1>13. SentIsBehind(k)'
  BY <1>5, <1>10 DEF SentIsBehind, EndsBy
<1>14. ASSUME k \notin cut PROVE WireIsContiguous(k)'
  <2>1. down'[k] = <<ready>>
    BY <1>1, <1>5, <1>7, <1>14 DEF Deliver, DeliveryTypeOK
  <2>2. Covered(ready) = base
    BY DEF Covered, ready
  <2>3. FollowsUpTo(<<ready>>, base)
    BY <2>2 DEF FollowsUpTo
  <2>. QED
    BY <1>11, <2>1, <2>3 DEF WireIsContiguous
<1>. QED
  BY <1>7, <1>10, <1>12, <1>13, <1>14 DEF SocketInv, Live

\* A frame moves from the front of the queue to the back of the wire.
LEMMA SendFrameInv ==
  ASSUME TypeOK, NEW k \in Sockets, SocketInv(k), SendFrame(k)
  PROVE  SocketInv(k)'
<1>. DEFINE pending == conn[k].pending
            rest(n) == SubSeq(pending, n + 1, Len(pending))
            sent(n) == [end |-> pending[n].seq, size |-> SizeOf(SubSeq(pending, 1, n))]
            frame(n) == [type |-> "frame", first |-> pending[1].seq,
                         end |-> pending[n].seq, payload |-> SubSeq(pending, 1, n)]
<1>1. /\ pending \in Seq(Chunk)
      /\ conn[k].lastQueued \in Nat
      /\ conn[k].sent \in Seq(Sent)
      /\ Len(pending) \in Nat
      /\ LastSent(k) \in Int
      /\ LastSent(k) = conn[k].lastQueued - Len(pending)
      /\ down[k] \in Seq(Ready \cup Frame)
  BY SocketType
<1>2. Live(k)
  BY DEF SendFrame, Live
<1>3. /\ conn[k].rx <= conn[k].lastQueued
      /\ conn[k].lastQueued <= next
      /\ NumberedFrom(pending, LastSent(k))
      /\ EndsBy(conn[k].sent, LastSent(k))
      /\ k \notin cut => FollowsUpTo(down[k], LastSent(k))
  BY <1>2, LiveInv
<1>4. PICK n \in 1 .. Len(pending) :
        /\ conn' = [conn EXCEPT ![k].pending = rest(n), ![k].sent = Append(@, sent(n))]
        /\ down' = Deliver(k, frame(n))
  BY DEF SendFrame
<1>5. next' = next /\ cut' = cut
  BY DEF SendFrame, sessionVars
<1>. HIDE DEF pending
<1>6. /\ Len(rest(n)) = Len(pending) - n
      /\ NumberedFrom(rest(n), LastSent(k) + n)
      /\ pending[1].seq = LastSent(k) + 1
      /\ pending[n].seq = LastSent(k) + n
  BY <1>1, <1>3, NumberedSuffix
<1>7. pending[1] \in Chunk /\ pending[n] \in Chunk /\ SubSeq(pending, 1, n) \in Seq(Chunk)
  BY <1>1, SubSeqProperties
<1>8. sent(n) \in Sent /\ sent(n).end = LastSent(k) + n
  BY <1>6, <1>7, SizeOfType DEF Chunk, Sent
<1>9. frame(n) \in Frame /\ frame(n).first = LastSent(k) + 1 /\ frame(n).end = LastSent(k) + n
  BY <1>6, <1>7 DEF Chunk, Frame
<1>. HIDE DEF rest, sent, frame
<1>10. /\ conn'[k].pending = rest(n)
       /\ conn'[k].sent = Append(conn[k].sent, sent(n))
       /\ conn'[k].lastQueued = conn[k].lastQueued
       /\ conn'[k].rx = conn[k].rx
       /\ conn'[k].phase = conn[k].phase
  BY <1>4 DEF TypeOK, DeliveryTypeOK, Connection
<1>11. LastSent(k)' = LastSent(k) + n
  BY <1>1, <1>6, <1>10 DEF LastSent
<1>12. QueueIsContiguous(k)'
  BY <1>3, <1>5, <1>6, <1>10, <1>11 DEF QueueIsContiguous
<1>13. SentIsBehind(k)'
  <2>1. LastSent(k) + n \in Int /\ LastSent(k) <= LastSent(k) + n
    BY <1>1
  <2>2. EndsBy(Append(conn[k].sent, sent(n)), LastSent(k) + n)
    BY <1>1, <1>3, <1>8, <2>1, EndsByAppend
  <2>. QED
    BY <1>10, <1>11, <2>2 DEF SentIsBehind
<1>14. ASSUME k \notin cut PROVE WireIsContiguous(k)'
  <2>1. down'[k] = Append(down[k], frame(n))
    BY <1>4, <1>14 DEF Deliver, TypeOK, DeliveryTypeOK
  <2>2. FollowsUpTo(Append(down[k], frame(n)), frame(n).end)
    BY <1>1, <1>3, <1>9, <1>14, FollowsAppend
  <2>. QED
    BY <1>9, <1>11, <2>1, <2>2 DEF WireIsContiguous
<1>. QED
  BY <1>2, <1>5, <1>10, <1>12, <1>13, <1>14 DEF SocketInv, Live

\* What the channel delivers moves the receiver and at most extends the queue:
\* nothing that was sent or is on the wire changes.
LEMMA QueueExtendedInv ==
  ASSUME TypeOK, NEW k \in Sockets, SocketInv(k), Live(k),
         UNCHANGED <<down, cut>>, next' = next,
         conn'[k].phase = conn[k].phase, conn'[k].sent = conn[k].sent,
         LastSent(k)' = LastSent(k),
         conn'[k].rx <= conn'[k].lastQueued, conn'[k].lastQueued <= next,
         NumberedFrom(conn'[k].pending, LastSent(k))
  PROVE  SocketInv(k)'
<1>1. QueueIsContiguous(k)'
  BY DEF QueueIsContiguous
<1>2. SentIsBehind(k)'
  BY LiveInv DEF SentIsBehind
<1>3. k \notin cut' => WireIsContiguous(k)'
  BY LiveInv DEF WireIsContiguous
<1>. QED
  BY <1>1, <1>2, <1>3 DEF SocketInv, Live

\* The chunk that is queued is the one after the last queued one, because the
\* receiver never overtakes the queue.
LEMMA ReceiveOutputInv ==
  ASSUME TypeOK, NEW k \in Sockets, SocketInv(k), ReceiveOutput(k)
  PROVE  SocketInv(k)'
<1>. DEFINE s == conn[k].rx + 1
            pending == conn[k].pending
            p == Append(pending, LiveChunk(s))
<1>1. /\ pending \in Seq(Chunk)
      /\ conn[k].lastQueued \in Nat
      /\ conn[k].rx \in Nat
      /\ Len(pending) \in Nat
      /\ LastSent(k) \in Int
      /\ LastSent(k) = conn[k].lastQueued - Len(pending)
      /\ next \in Nat
  BY SocketType
<1>2. Live(k)
  BY DEF ReceiveOutput, Selecting, Live
<1>3. /\ conn[k].rx <= conn[k].lastQueued
      /\ conn[k].lastQueued <= next
      /\ NumberedFrom(pending, LastSent(k))
  BY <1>2, LiveInv
<1>4. next' = next /\ UNCHANGED <<down, cut>> /\ s <= next
  BY DEF ReceiveOutput, sessionVars
<1>5. CASE Close(k)
  BY <1>5, CloseInv
<1>6. CASE s <= conn[k].lastQueued /\ conn' = [conn EXCEPT ![k].rx = s]
  <2>. HIDE DEF s, pending
  <2>1. /\ conn'[k].pending = conn[k].pending
        /\ conn'[k].lastQueued = conn[k].lastQueued
        /\ conn'[k].rx = s
        /\ conn'[k].sent = conn[k].sent
        /\ conn'[k].phase = conn[k].phase
    BY <1>6 DEF TypeOK, DeliveryTypeOK, Connection
  <2>2. LastSent(k)' = LastSent(k)
    BY <2>1 DEF LastSent
  <2>. QED
    BY <1>2, <1>3, <1>4, <1>6, <2>1, <2>2, QueueExtendedInv DEF pending
<1>7. CASE /\ s > conn[k].lastQueued
           /\ conn' = [conn EXCEPT ![k].rx = s, ![k].lastQueued = s,
                         ![k].pending = Append(@, LiveChunk(s))]
  <2>1. s = conn[k].lastQueued + 1 /\ s \in Nat
    BY <1>1, <1>3, <1>7
  <2>2. LiveChunk(s) \in Chunk /\ LiveChunk(s).seq = s
    BY <2>1 DEF LiveChunk, Chunk, Sequence
  <2>. HIDE DEF s, pending
  <2>3. s = LastSent(k) + Len(pending) + 1
    BY <1>1, <2>1
  <2>4. Len(p) = Len(pending) + 1 /\ NumberedFrom(p, LastSent(k))
    BY <1>1, <1>3, <2>2, <2>3, NumberedAppend
  <2>5. /\ conn'[k].pending = p
        /\ conn'[k].lastQueued = s
        /\ conn'[k].rx = s
        /\ conn'[k].sent = conn[k].sent
        /\ conn'[k].phase = conn[k].phase
    BY <1>7 DEF TypeOK, DeliveryTypeOK, Connection, pending
  <2>. HIDE DEF p
  <2>6. LastSent(k)' = LastSent(k)
    <3>1. LastSent(k)' = s - Len(p)
      BY <2>5 DEF LastSent
    <3>. QED
      BY <1>1, <2>1, <2>3, <2>4, <3>1
  <2>7. conn'[k].rx <= conn'[k].lastQueued
    BY <2>1, <2>5
  <2>. QED
    BY <1>2, <1>4, <2>4, <2>5, <2>6, <2>7, QueueExtendedInv
<1>. QED
  BY <1>5, <1>6, <1>7 DEF ReceiveOutput

\* The history continues the queue where the channel lost the receiver.
LEMMA ReceiveLaggedInv ==
  ASSUME TypeOK, NEW k \in Sockets, SocketInv(k), ReceiveLagged(k)
  PROVE  SocketInv(k)'
<1>. DEFINE last == conn[k].lastQueued
            outputs == Replay(last).outputs
            pending == conn[k].pending
            p == pending \o outputs
<1>1. /\ pending \in Seq(Chunk)
      /\ last \in Nat
      /\ Len(pending) \in Nat
      /\ LastSent(k) \in Int
      /\ LastSent(k) = last - Len(pending)
      /\ next \in Nat
  BY SocketType
<1>2. Live(k)
  BY DEF ReceiveLagged, Selecting, Live
<1>3. NumberedFrom(pending, LastSent(k))
  BY <1>2, LiveInv
<1>4. CASE Close(k)
  BY <1>4, CloseInv
<1>5. CASE /\ CanResume(last)
           /\ \E oldest \in conn[k].rx + 1 .. next - ChannelCap :
                conn' = [conn EXCEPT ![k].rx = oldest,
                           ![k].lastQueued = next, ![k].pending = @ \o outputs]
  <2>0. PICK oldest \in conn[k].rx + 1 .. next - ChannelCap :
          conn' = [conn EXCEPT ![k].rx = oldest,
                     ![k].lastQueued = next, ![k].pending = @ \o outputs]
    BY <1>5
  <2>1. last \in Resume /\ SessionTypeOK
    BY <1>1 DEF Resume, Sequence, TypeOK
  <2>2. Replay(last).base = last
    BY <1>5 DEF Replay
  <2>3. next' = next /\ UNCHANGED <<down, cut>>
    BY <1>5, <2>1, ReplayEffectType DEF ReceiveLagged
  <2>. HIDE DEF last, pending
  <2>4. /\ outputs \in Seq(Chunk)
        /\ last + Len(outputs) = next
        /\ \A i \in 1 .. Len(outputs) : outputs[i].seq = last + i
    BY <1>5, <2>1, <2>2, ReplayContiguous
  <2>. HIDE DEF outputs
  <2>5. NumberedFrom(outputs, LastSent(k) + Len(pending))
    <3>1. LastSent(k) + Len(pending) = last
      BY <1>1
    <3>. QED
      BY <2>4, <3>1 DEF NumberedFrom
  <2>6. Len(p) = Len(pending) + Len(outputs) /\ NumberedFrom(p, LastSent(k))
    BY <1>1, <1>3, <2>4, <2>5, NumberedConcat
  <2>7. /\ conn'[k].pending = p
        /\ conn'[k].lastQueued = next
        /\ conn'[k].rx = oldest
        /\ conn'[k].sent = conn[k].sent
        /\ conn'[k].phase = conn[k].phase
    BY <2>0 DEF TypeOK, DeliveryTypeOK, Connection, pending
  <2>. HIDE DEF p
  <2>8. LastSent(k)' = LastSent(k)
    <3>1. Len(outputs) \in Nat
      BY <2>4
    <3>2. LastSent(k)' = next - Len(p)
      BY <2>7 DEF LastSent
    <3>. QED
      BY <1>1, <2>4, <2>6, <3>1, <3>2
  <2>9. conn'[k].rx <= conn'[k].lastQueued /\ conn'[k].lastQueued <= next
    <3>1. oldest \in Int /\ oldest <= next - ChannelCap
      OBVIOUS
    <3>. QED
      BY <1>1, <2>7, <3>1, DeliveryAssumption
  <2>. QED
    BY <1>2, <2>3, <2>6, <2>7, <2>8, <2>9, QueueExtendedInv
<1>. QED
  BY <1>4, <1>5 DEF ReceiveLagged

\* An acknowledgement shortens the window from its front.
LEMMA ReceiveAckInv ==
  ASSUME TypeOK, NEW k \in Sockets, SocketInv(k), ReceiveAck(k)
  PROVE  SocketInv(k)' /\ next' = next
<1>. DEFINE seq == Head(up[k]).seq
            sent == conn[k].sent
            rest(n) == SubSeq(sent, n + 1, Len(sent))
<1>1. Live(k)
  BY DEF ReceiveAck, Selecting, Live
<1>2. UNCHANGED <<down, cut>>
  BY DEF ReceiveAck
<1>3. CASE UNCHANGED <<sessionVars, conn>>
  <2>1. next' = next /\ next \in Nat
    BY <1>3, SocketType DEF sessionVars
  <2>. QED
    BY <1>2, <1>3, <2>1, Unaffected
<1>4. CASE /\ \E n \in 0 .. Len(sent) :
                conn' = [conn EXCEPT ![k].sent = rest(n), ![k].acked = seq]
           /\ Acknowledge(seq)
  <2>1. PICK n \in 0 .. Len(sent) :
          conn' = [conn EXCEPT ![k].sent = rest(n), ![k].acked = seq]
    BY <1>4
  <2>2. sent \in Seq(Sent) /\ LastSent(k) \in Int /\ next' = next
    BY <1>4, SocketType DEF Acknowledge
  <2>3. EndsBy(sent, LastSent(k))
    BY <1>1, LiveInv
  <2>. HIDE DEF sent, seq
  <2>4. EndsBy(rest(n), LastSent(k))
    BY <2>1, <2>2, <2>3, EndsBySuffix
  <2>. HIDE DEF rest
  <2>5. /\ conn'[k].pending = conn[k].pending
        /\ conn'[k].lastQueued = conn[k].lastQueued
        /\ conn'[k].rx = conn[k].rx
        /\ conn'[k].sent = rest(n)
        /\ conn'[k].phase = conn[k].phase
    BY <2>1 DEF TypeOK, DeliveryTypeOK, Connection
  <2>6. LastSent(k)' = LastSent(k)
    BY <2>5 DEF LastSent
  <2>7. QueueIsContiguous(k)'
    BY <1>1, <2>2, <2>5, <2>6, LiveInv DEF QueueIsContiguous
  <2>8. SentIsBehind(k)'
    BY <2>4, <2>5, <2>6 DEF SentIsBehind
  <2>9. k \notin cut' => WireIsContiguous(k)'
    BY <1>1, <1>2, <2>6, LiveInv DEF WireIsContiguous
  <2>. QED
    BY <1>1, <2>2, <2>5, <2>7, <2>8, <2>9 DEF SocketInv, Live
<1>. QED
  BY <1>3, <1>4 DEF ReceiveAck

\* Only the socket that steps is touched, and the stream only grows.
LEMMA TaskFrame ==
  ASSUME TypeOK, NEW k \in Sockets, ConnectionTask(k)
  PROVE  /\ \A j \in Sockets \ {k} : conn'[j] = conn[j] /\ down'[j] = down[j]
         /\ cut' = cut
         /\ next' \in Nat /\ next <= next'
<1>. DEFINE Grows == next' \in Nat /\ next <= next'
<1>0. ASSUME NEW last, ReplayEffect(last) PROVE Grows
  <2>1. next \in Nat /\ (next' = next \/ next' = next + 1)
    BY <1>0, ReplayEffectType DEF TypeOK, SessionTypeOK, Sequence
  <2>. QED
    BY <2>1
<1>. USE DEF TypeOK, DeliveryTypeOK, SessionTypeOK, Sequence
<1>1. CASE ReceiveHello(k)
  <2>1. Grows
    BY <1>0, <1>1 DEF ReceiveHello
  <2>. QED
    BY <1>1, <2>1 DEF ReceiveHello, Deliver
<1>2. CASE SendFrame(k)
  <2>1. PICK c, m : conn' = [conn EXCEPT ![k] = c] /\ down' = Deliver(k, m)
    BY <1>2 DEF SendFrame
  <2>. QED
    BY <1>2, <2>1 DEF SendFrame, Deliver, sessionVars
<1>3. CASE ReceiveOutput(k)
  BY <1>3, CloseInv DEF ReceiveOutput, sessionVars
<1>4. CASE ReceiveLagged(k)
  <2>1. Grows
    BY <1>0, <1>4 DEF ReceiveLagged
  <2>. QED
    BY <1>4, <2>1, CloseInv DEF ReceiveLagged
<1>5. CASE ReceiveAck(k)
  <2>1. conn' = conn \/ \E c : conn' = [conn EXCEPT ![k] = c]
    BY <1>5 DEF ReceiveAck
  <2>2. next' = next /\ down' = down /\ cut' = cut
    BY <1>5 DEF ReceiveAck, Acknowledge, sessionVars
  <2>. QED
    BY <2>1, <2>2
<1>6. CASE IgnoreMessage(k)
  BY <1>6 DEF IgnoreMessage, sessionVars
<1>7. CASE HelloTimeout(k)
  BY <1>7, CloseInv DEF HelloTimeout, sessionVars
<1>8. CASE ReceiveAnswer(k)
  BY <1>8 DEF ReceiveAnswer, WriteAnswer
<1>9. CASE DetectLoss(k)
  BY <1>9, CloseInv DEF DetectLoss, sessionVars
<1>. QED
  BY <1>1, <1>2, <1>3, <1>4, <1>5, <1>6, <1>7, <1>8, <1>9 DEF ConnectionTask

\* Every step of a connection task keeps the invariant of its socket.
LEMMA TaskInv ==
  ASSUME TypeOK, NEW k \in Sockets, SocketInv(k), ConnectionTask(k)
  PROVE  SocketInv(k)'
<1>1. next' \in Nat /\ next <= next' /\ cut' = cut
  BY TaskFrame
<1>2. CASE IgnoreMessage(k)
  BY <1>1, <1>2, Unaffected DEF IgnoreMessage
<1>3. CASE HelloTimeout(k)
  BY <1>3, CloseInv DEF HelloTimeout
<1>4. CASE ReceiveAnswer(k)
  BY <1>1, <1>4, Unaffected DEF ReceiveAnswer
<1>5. CASE DetectLoss(k)
  BY <1>5, CloseInv DEF DetectLoss
<1>. QED
  BY <1>2, <1>3, <1>4, <1>5, ReceiveHelloInv, SendFrameInv, ReceiveOutputInv,
     ReceiveLaggedInv, ReceiveAckInv DEF ConnectionTask

\* So does whatever the client does.
LEMMA ClientInv ==
  ASSUME TypeOK, NEW k \in Sockets, SocketInv(k), Client(k)
  PROVE  /\ SocketInv(k)'
         /\ \A j \in Sockets \ {k} :
              conn'[j] = conn[j] /\ down'[j] = down[j] /\ (j \in cut' <=> j \in cut)
         /\ next' = next
<1>. USE DEF TypeOK, DeliveryTypeOK
<1>1. next \in Nat /\ down[k] \in Seq(Ready \cup Frame)
  BY SocketType
<1>2. CASE ClientConnects(k)
  <2>1. /\ conn'[k] = [Fresh EXCEPT !.phase = "hello", !.rx = next]
        /\ \A j \in Sockets \ {k} : conn'[j] = conn[j]
        /\ UNCHANGED <<down, cut, next>>
        /\ conn[k].phase = "unused"
    BY <1>2 DEF ClientConnects, Upgrade, sessionVars
  <2>2. down[k] = <<>>
    BY <2>1 DEF SocketInv
  <2>3. conn'[k].phase = "hello" /\ conn'[k].rx = next /\ conn'[k].sent = <<>>
    BY <2>1 DEF Fresh
  <2>4. Untouched(k)'
    BY <1>1, <2>1, <2>2, <2>3 DEF Untouched
  <2>. QED
    BY <2>1, <2>3, <2>4 DEF SocketInv, Live
<1>3. CASE ClientSends(k)
  BY <1>1, <1>3, Unaffected DEF ClientSends, sessionVars
<1>4. CASE ClientReceives(k)
  <2>1. /\ down'[k] = Tail(down[k]) /\ down[k] # <<>>
        /\ \A j \in Sockets \ {k} : down'[j] = down[j]
        /\ UNCHANGED <<conn, cut, next>>
    BY <1>4 DEF ClientReceives, sessionVars
  <2>2. conn[k].phase \notin {"unused", "hello"}
    BY <2>1 DEF SocketInv, Untouched
  <2>3. LastSent(k)' = LastSent(k) /\ LastSent(k) \in Int
    BY <2>1, SocketType DEF LastSent
  <2>4. ASSUME Live(k), k \notin cut PROVE WireIsContiguous(k)'
    BY <1>1, <2>1, <2>3, <2>4, LiveInv, FollowsTail DEF WireIsContiguous
  <2>5. ASSUME Live(k) PROVE QueueIsContiguous(k)' /\ SentIsBehind(k)'
    BY <2>1, <2>3, <2>5, LiveInv DEF QueueIsContiguous, SentIsBehind
  <2>6. SocketInv(k)'
    BY <2>1, <2>2, <2>4, <2>5 DEF SocketInv, Live
  <2>. QED
    BY <2>1, <2>6
<1>5. CASE ClientLeaves(k)
  <2>1. /\ down'[k] = <<>> /\ k \in cut' /\ conn[k].phase # "unused"
        /\ \A j \in Sockets \ {k} : down'[j] = down[j] /\ (j \in cut' <=> j \in cut)
        /\ UNCHANGED <<conn, next>>
    BY <1>5 DEF ClientLeaves, sessionVars
  <2>2. LastSent(k)' = LastSent(k)
    BY <2>1 DEF LastSent
  <2>3. Untouched(k) => Untouched(k)'
    BY <2>1 DEF Untouched
  <2>4. ASSUME Live(k) PROVE QueueIsContiguous(k)' /\ SentIsBehind(k)'
    BY <2>1, <2>2, <2>4, LiveInv DEF QueueIsContiguous, SentIsBehind
  <2>5. SocketInv(k)'
    BY <2>1, <2>3, <2>4 DEF SocketInv, Live
  <2>. QED
    BY <2>1, <2>5
<1>. QED
  BY <1>2, <1>3, <1>4, <1>5 DEF Client

\* No socket has been used yet.
LEMMA InitInv == Init => DeliveryInv
BY DEF Init, DeliveryInit, DeliveryInv, SocketInv, Fresh, Live

\* Every step keeps the invariant of every socket.
LEMMA NextInv == TypeOK /\ DeliveryInv /\ [Next]_vars => DeliveryInv'
<1>. SUFFICES ASSUME TypeOK, DeliveryInv, [Next]_vars, NEW j \in Sockets
              PROVE  SocketInv(j)'
  BY DEF DeliveryInv
<1>1. SocketInv(j) /\ next \in Nat
  BY SocketType DEF DeliveryInv
<1>2. CASE PtyOutput
  <2>1. next' = next + 1
    BY <1>2, PushType DEF PtyOutput, TypeOK
  <2>. QED
    BY <1>1, <1>2, <2>1, Unaffected DEF PtyOutput, deliveryVars
<1>3. ASSUME NEW k \in Sockets, ConnectionTask(k) PROVE SocketInv(j)'
  <2>1. CASE j = k
    BY <1>1, <1>3, <2>1, TaskInv
  <2>2. CASE j # k
    BY <1>1, <1>3, <2>2, TaskFrame, Unaffected
  <2>. QED
    BY <2>1, <2>2
<1>4. ASSUME NEW k \in Sockets, Client(k) PROVE SocketInv(j)'
  <2>1. SocketInv(k)
    BY DEF DeliveryInv
  <2>2. CASE j = k
    BY <1>4, <2>1, <2>2, ClientInv
  <2>3. CASE j # k
    BY <1>1, <1>4, <2>1, <2>3, ClientInv, Unaffected
  <2>. QED
    BY <2>2, <2>3
<1>5. CASE UNCHANGED vars
  BY <1>1, <1>5, Unaffected DEF vars, sessionVars, deliveryVars
<1>. QED
  BY <1>2, <1>3, <1>4, <1>5 DEF Next

\* The invariant of the connection tasks holds in every behaviour.
THEOREM DeliveryInvariant == Spec => []DeliveryInv
BY InitType, NextType, InitInv, NextInv, PTL DEF Spec

\* No chunk is lost or repeated between the replay, the channel and the
\* recoveries from a lag, for any capacities and any number of sockets.
THEOREM QueueStaysContiguous == Spec => []QueueContiguous
<1>1. DeliveryInv => QueueContiguous
  BY DEF DeliveryInv, SocketInv, QueueContiguous
<1>. QED
  BY <1>1, DeliveryInvariant, PTL

\* What a connected client receives follows one another without a gap, up to
\* the first chunk its connection still has to send.
THEOREM WireStaysContiguous == Spec => []WireContiguous
<1>1. DeliveryInv => WireContiguous
  BY DEF DeliveryInv, SocketInv, WireContiguous
<1>. QED
  BY <1>1, DeliveryInvariant, PTL

-----------------------------------------------------------------------------
(***************************************************************************)
(* What acknowledgements can do.                                           *)
(***************************************************************************)

\* A window that accepts an acknowledgement has sent what it covers.
LEMMA AckIsBehind ==
  ASSUME TypeOK, NEW k \in Sockets, SocketInv(k), Live(k), NEW seq \in Nat,
         conn[k].sent # <<>>, seq <= conn[k].sent[Len(conn[k].sent)].end
  PROVE  seq <= LastSent(k)
<1>. DEFINE sent == conn[k].sent
            len == Len(sent)
<1>1. sent \in Seq(Sent) /\ LastSent(k) \in Int
  BY SocketType
<1>2. EndsBy(sent, LastSent(k))
  BY LiveInv
<1>. HIDE DEF sent
<1>3. len \in 1 .. len
  BY <1>1, EmptySeq DEF sent
<1>4. sent[len].end \in Nat /\ sent[len].end <= LastSent(k)
  <2>1. sent[len] \in Sent
    BY <1>1, <1>3
  <2>2. sent[len].end <= LastSent(k)
    BY <1>2, <1>3 DEF EndsBy
  <2>. QED
    BY <2>1, <2>2 DEF Sent, Sequence
<1>. QED
  BY <1>1, <1>4 DEF sent

\* Everything but an accepted acknowledgement keeps all pending queries.
LEMMA NextForgetsOnlySent ==
  TypeOK /\ DeliveryInv /\ [Next]_vars => [ForgetsOnlySent]_vars
<1>. SUFFICES ASSUME TypeOK, DeliveryInv, Next PROVE ForgetsOnlySent
  OBVIOUS
<1>. DEFINE KeepsAll == pendingQueries \subseteq pendingQueries'
<1>1. SUFFICES ASSUME ~KeepsAll PROVE ForgetsOnlySent
  BY DEF ForgetsOnlySent
<1>2. ASSUME NEW q, Push(q) PROVE FALSE
  BY <1>1, <1>2 DEF Push
<1>3. ~PtyOutput
  BY <1>2 DEF PtyOutput
<1>4. ASSUME NEW last, ReplayEffect(last) PROVE FALSE
  BY <1>1, <1>2, <1>4 DEF ReplayEffect, sessionVars
<1>5. PICK k \in Sockets : ConnectionTask(k) \/ Client(k)
  BY <1>3 DEF Next
<1>6. ReceiveAck(k)
  <2>1. ~Client(k)
    BY <1>1 DEF Client, ClientConnects, ClientSends, ClientReceives, ClientLeaves, sessionVars
  <2>2. ~ReceiveHello(k) /\ ~ReceiveLagged(k)
    BY <1>4 DEF ReceiveHello, ReceiveLagged
  <2>3. ~IgnoreMessage(k) /\ ~HelloTimeout(k) /\ ~SendFrame(k) /\ ~ReceiveOutput(k)
        /\ ~DetectLoss(k)
    BY <1>1 DEF IgnoreMessage, HelloTimeout, SendFrame, ReceiveOutput, DetectLoss, sessionVars
  <2>4. ~ReceiveAnswer(k)
    BY <1>1 DEF ReceiveAnswer, WriteAnswer
  <2>. QED
    BY <1>5, <2>1, <2>2, <2>3, <2>4 DEF ConnectionTask
<1>. DEFINE seq == Head(up[k]).seq
<1>7. /\ Live(k)
      /\ conn[k].sent # <<>> /\ seq <= conn[k].sent[Len(conn[k].sent)].end
      /\ Acknowledge(seq)
  BY <1>1, <1>6 DEF ReceiveAck, Selecting, Live, sessionVars
<1>8. seq \in Nat
  BY <1>6, ArrivalType DEF ReceiveAck, Arrives, TypeOK, Sequence
<1>9. seq <= LastSent(k) /\ LastSent(k) \in Int
  BY <1>7, <1>8, AckIsBehind, SocketType DEF DeliveryInv
<1>10. ASSUME NEW q \in pendingQueries \ pendingQueries' PROVE q <= LastSent(k)
  <2>1. q \in Nat
    BY DEF TypeOK, SessionTypeOK, Sequence
  <2>2. q <= seq
    BY <1>7, <1>8, <2>1 DEF Acknowledge
  <2>. QED
    BY <1>8, <1>9, <2>1, <2>2
<1>. QED
  BY <1>7, <1>10 DEF ForgetsOnlySent

\* However odd the acknowledgements, no query is forgotten before some
\* connection has sent its chunk or a snapshot made after it.
THEOREM OnlySentQueriesAreForgotten == Spec => OnlySentQueriesForgotten
BY InitType, NextType, InitInv, NextInv, NextForgetsOnlySent, PTL
   DEF Spec, OnlySentQueriesForgotten

-----------------------------------------------------------------------------
(***************************************************************************)
(* The output writer.                                                      *)
(***************************************************************************)

LEMMA ViewFields ==
  ASSUME NEW v \in View
  PROVE  /\ v.socket \in MaybeSocket
         /\ v.state \in {"none", "connecting", "open", "closing"}
         /\ v.helloDue \in BOOLEAN
         /\ v.last \in Resume
         /\ v.ready \in BOOLEAN
         /\ v.requiresReset \in BOOLEAN
         /\ v.frames \in Seq(Frame)
         /\ v.screen \in Sequence \cup {Garbled}
         /\ v.owes \in MaybeSocket
BY DEF View

LEMMA WritingFields ==
  ASSUME NEW v \in View
  PROVE  /\ v.writing \in {Idle} \cup [kind : {"reset"}, socket : Sockets, seq : Sequence]
               \cup [kind : {"output"}, socket : Sockets, frame : Frame]
         /\ v.writing.kind \in {"idle", "reset", "output"}
         /\ v.writing = Idle <=> v.writing.kind = "idle"
         /\ v.writing.kind = "reset" => v.writing.socket \in Sockets /\ v.writing.seq \in Sequence
         /\ v.writing.kind = "output" => v.writing.socket \in Sockets /\ v.writing.frame \in Frame
<1>1. v.writing \in {Idle} \cup [kind : {"reset"}, socket : Sockets, seq : Sequence]
        \cup [kind : {"output"}, socket : Sockets, frame : Frame]
  BY DEF View
<1>. HIDE DEF Frame, Sequence
<1>. QED
  BY ONLY <1>1 DEF Idle

LEMMA FrameFields ==
  ASSUME NEW f \in Frame
  PROVE  /\ f.type = "frame"
         /\ f.first \in Nat
         /\ f.end \in Nat
         /\ f.payload \in Seq(Chunk)
         /\ Covered(f) = f.end
BY DEF Frame, Sequence, Covered

\* What a write and a failure leave alone.
Keeps(v, w) ==
  /\ w.socket = v.socket
  /\ w.helloDue = v.helloDue
  /\ w.last = v.last
  /\ w.screen = v.screen
  /\ w.owes = v.owes

Writes(v, w, f) ==
  /\ Keeps(v, w)
  /\ w.state = v.state
  /\ w.ready = v.ready
  /\ w.requiresReset = v.requiresReset
  /\ w.writing = Output(v.socket, f)

Fails(v, w) ==
  /\ Keeps(v, w)
  /\ w.state = "closing"
  /\ w.ready = FALSE
  /\ w.requiresReset = TRUE
  /\ w.writing = v.writing
  /\ w.frames = <<>>

LEMMA FailFields ==
  ASSUME NEW v \in View
  PROVE  Fail(v) \in View /\ Fails(v, Fail(v))
<1>1. <<>> \in Seq(Frame)
  OBVIOUS
<1>. HIDE DEF Frame, Sequence
<1>. QED
  BY <1>1 DEF View, Fail, Fails, Keeps

\* drain does nothing, hands the first frame to the terminal, or fails.
LEMMA DrainCases ==
  ASSUME NEW v \in View, v.ready => v.socket \in Sockets, NEW w \in Drain(v)
  PROVE  /\ w \in View
         /\ \/ /\ ~v.ready \/ v.writing # Idle \/ v.frames = <<>>
               /\ w = v
            \/ /\ v.ready /\ v.writing = Idle /\ v.frames # <<>>
               /\ \/ /\ Writes(v, w, Head(v.frames))
                     /\ w.frames = Tail(v.frames)
                     /\ Head(v.frames).first = v.last + 1
                  \/ Fails(v, w)
<1>1. CASE ~v.ready \/ v.writing # Idle \/ v.frames = <<>>
  BY <1>1 DEF Drain
<1>2. CASE v.ready /\ v.writing = Idle /\ v.frames # <<>>
  <2>. DEFINE rest == [v EXCEPT !.frames = Tail(@)]
              f == Head(v.frames)
              wrote == [rest EXCEPT !.writing = Output(v.socket, f)]
  <2>1. f \in Frame /\ Tail(v.frames) \in Seq(Frame)
    BY <1>2, ViewFields, HeadTailProperties
  <2>. HIDE DEF Frame, Sequence
  <2>2. rest \in View
    BY <2>1 DEF View
  <2>3. wrote \in View
    BY <1>2, <2>1 DEF View, Output
  <2>4. Writes(v, wrote, f) /\ wrote.frames = Tail(v.frames)
    BY DEF View, Writes, Keeps
  <2>5. Fail(rest) \in View /\ Fails(v, Fail(rest))
    <3>1. Fail(rest) \in View /\ Fails(rest, Fail(rest))
      BY <2>2, FailFields
    <3>2. Keeps(v, rest) /\ rest.writing = v.writing
      BY DEF View, Keeps
    <3>. QED
      BY <3>1, <3>2 DEF Fails, Keeps
  <2>6. w = Fail(rest) \/ (w = wrote /\ f.first = v.last + 1)
    BY <1>2 DEF Drain
  <2>. QED
    BY <1>2, <2>3, <2>4, <2>5, <2>6
<1>. QED
  BY <1>1, <1>2, ViewFields

\* Before drain runs at the end of an operation, the view is one of these.
Buffers(v, z, f) ==
  /\ Keeps(v, z)
  /\ z.state = v.state
  /\ z.ready = v.ready
  /\ z.requiresReset = v.requiresReset
  /\ z.writing = v.writing
  /\ z.frames = Append(v.frames, f)

Resumes(v, z) ==
  /\ Keeps(v, z)
  /\ z.state = v.state
  /\ z.ready = TRUE
  /\ z.requiresReset = v.requiresReset
  /\ z.writing = Idle
  /\ z.frames = <<>>

Rewinds(v, w, m) ==
  /\ Keeps(v, w)
  /\ w.state = v.state
  /\ w.ready = FALSE
  /\ w.requiresReset = v.requiresReset
  /\ w.writing = Reset(v.socket, m.seq)
  /\ w.frames = <<>>

Rewound(v, z) ==
  /\ z.socket = v.socket
  /\ z.helloDue = v.helloDue
  /\ z.state = v.state
  /\ z.frames = v.frames
  /\ z.writing = Idle
  /\ z.requiresReset = FALSE
  /\ z.ready = IF v.socket = v.writing.socket THEN TRUE ELSE v.ready
  /\ z.last = v.writing.seq
  /\ z.screen = 0
  /\ z.owes = v.writing.socket

Wrote(v, z) ==
  /\ z.socket = v.socket
  /\ z.helloDue = v.helloDue
  /\ z.state = v.state
  /\ z.frames = v.frames
  /\ z.writing = Idle
  /\ z.requiresReset = v.requiresReset
  /\ z.ready = v.ready
  /\ z.last = IF v.requiresReset THEN None ELSE v.writing.frame.end
  /\ z.screen = Parsed(v.screen, v.writing.frame)
  /\ z.owes = IF v.writing.frame.payload[1].snapshot THEN NoSocket ELSE v.owes

LEMMA AcceptFrameCases ==
  ASSUME NEW v \in View, NEW f \in Frame, NEW w \in AcceptFrame(v, f)
  PROVE  \E z \in View : Buffers(v, z, f) /\ w \in Drain(z)
<1>. DEFINE z == [v EXCEPT !.frames = Append(@, f)]
<1>1. Append(v.frames, f) \in Seq(Frame)
  BY ViewFields, AppendProperties
<1>. HIDE DEF Frame, Sequence
<1>2. z \in View /\ Buffers(v, z, f)
  BY <1>1 DEF View, Buffers, Keeps
<1>. QED
  BY <1>2 DEF AcceptFrame

LEMMA AcceptReadyCases ==
  ASSUME NEW v \in View, v.writing = Idle, v.socket \in Sockets,
         NEW m \in Ready, NEW w \in AcceptReady(v, m)
  PROVE  \/ w \in View /\ Fails(v, w)
         \/ m.reset /\ w \in View /\ Rewinds(v, w, m)
         \/ /\ ~m.reset /\ ~v.requiresReset /\ v.last = m.seq
            /\ \E z \in View : Resumes(v, z) /\ w \in Drain(z)
<1>. DEFINE x == [v EXCEPT !.ready = FALSE, !.frames = <<>>]
            z == [x EXCEPT !.ready = TRUE]
            r == [x EXCEPT !.writing = Reset(v.socket, m.seq)]
<1>1. <<>> \in Seq(Frame) /\ m.seq \in Sequence /\ m.reset \in BOOLEAN
  BY DEF Ready
<1>. HIDE DEF Frame, Sequence
<1>2. x \in View
  BY <1>1 DEF View
<1>3. z \in View /\ Resumes(v, z)
  BY <1>1 DEF View, Resumes, Keeps
<1>4. r \in View /\ Rewinds(v, r, m)
  BY <1>1 DEF View, Rewinds, Keeps, Reset
<1>5. Fail(x) \in View /\ Fails(v, Fail(x))
  <2>1. Fail(x) \in View /\ Fails(x, Fail(x))
    BY <1>2, FailFields
  <2>2. Keeps(v, x) /\ x.writing = v.writing
    BY DEF View, Keeps
  <2>. QED
    BY <2>1, <2>2 DEF Fails, Keeps
<1>6. IF m.reset THEN w \in {r, Fail(x)}
      ELSE IF v.requiresReset \/ v.last # m.seq THEN w \in {Fail(x)}
      ELSE w \in Drain(z)
  BY DEF AcceptReady
<1>. QED
  BY <1>1, <1>3, <1>4, <1>5, <1>6, ViewFields

LEMMA ResetDoneCases ==
  ASSUME NEW v \in View, v.writing.kind = "reset", v.ready = FALSE, NEW w \in ResetDone(v)
  PROVE  \E z \in View : Rewound(v, z) /\ w \in Drain(z)
<1>. DEFINE x == [v EXCEPT !.writing = Idle, !.requiresReset = FALSE,
                           !.last = v.writing.seq, !.screen = 0, !.owes = v.writing.socket]
            z == IF v.socket = v.writing.socket THEN [x EXCEPT !.ready = TRUE] ELSE x
<1>1. v.writing.seq \in Sequence /\ v.writing.socket \in Sockets /\ 0 \in Sequence
  BY WritingFields DEF Sequence
<1>. HIDE DEF Frame, Sequence
<1>2. x \in View
  BY <1>1 DEF View, MaybeSocket, Resume
<1>3. z \in View
  BY <1>2 DEF View
<1>4. Rewound(v, z)
  BY DEF View, Rewound
<1>5. v.socket # v.writing.socket => Drain(z) = {z} /\ w = x
  BY <1>4 DEF Drain, ResetDone, Rewound
<1>6. w \in Drain(z)
  BY <1>5 DEF ResetDone
<1>. QED
  BY <1>3, <1>4, <1>6

LEMMA OutputDoneCases ==
  ASSUME NEW v \in View, v.writing.kind = "output", NEW w \in OutputDone(v)
  PROVE  \E z \in View : Wrote(v, z) /\ w \in Drain(z)
<1>. DEFINE f == v.writing.frame
            z == [v EXCEPT !.writing = Idle, !.screen = Parsed(@, f),
                           !.last = IF v.requiresReset THEN None ELSE f.end,
                           !.owes = IF f.payload[1].snapshot THEN NoSocket ELSE @]
<1>1. f \in Frame /\ f.end \in Sequence
  BY WritingFields, FrameFields DEF Sequence
<1>2. Parsed(v.screen, f) \in Sequence \cup {Garbled}
  BY <1>1 DEF Parsed
<1>. HIDE DEF Frame, Sequence
<1>3. z \in View
  <2>1. (IF v.requiresReset THEN None ELSE f.end) \in Resume
    BY <1>1 DEF Resume
  <2>2. (IF f.payload[1].snapshot THEN NoSocket ELSE v.owes) \in MaybeSocket
    BY ViewFields DEF MaybeSocket
  <2>3. Idle \in {Idle} \cup [kind : {"reset"}, socket : Sockets, seq : Sequence]
                  \cup [kind : {"output"}, socket : Sockets, frame : Frame]
    OBVIOUS
  <2>. QED
    BY <1>2, <2>1, <2>2, <2>3 DEF View
<1>4. Wrote(v, z)
  BY DEF View, Wrote
<1>. QED
  BY <1>3, <1>4 DEF OutputDone

-----------------------------------------------------------------------------
(***************************************************************************)
(* Client and task of one socket.                                          *)
(***************************************************************************)

Lag(t) == t.lastQueued - Len(t.pending)

Sync(v, t, d, u, n) ==
  /\ WriterInv(v)
  /\ Handshake(v, t, d, u)
  /\ ViewBounds(v, n)

\* Taking the first message off a wire.
LEMMA WireHead ==
  ASSUME NEW d \in Seq(Ready \cup Frame), d # <<>>, NEW t, NEW u, NEW n,
         WireBounds(t, d, u, n)
  PROVE  /\ d[1] \in Ready \cup Frame
         /\ Head(d) = d[1]
         /\ Produced(d[1], n)
         /\ Tail(d) \in Seq(Ready \cup Frame)
         /\ WireBounds(t, Tail(d), u, n)
         /\ ~Greeted(Tail(d))
         /\ Tail(d) # <<>> => Tail(d)[1] = d[2] /\ Tail(d)[1].first = Covered(d[1]) + 1
         /\ Tail(d) = <<>> => Len(d) = 1
<1>. DEFINE rest == Tail(d)
            len == Len(d)
<1>1. len \in Nat /\ len >= 1
  BY EmptySeq
<1>2. /\ rest \in Seq(Ready \cup Frame)
      /\ Len(rest) = len - 1
      /\ \A i \in 1 .. len - 1 : rest[i] = d[i + 1]
  BY HeadTailProperties
<1>3. d[1] \in Ready \cup Frame /\ Head(d) = d[1]
  BY <1>1, ElementOfSeq
<1>4. \A i \in 1 .. len :
        /\ Produced(d[i], n)
        /\ d[i].type = "ready" => i = 1
        /\ i < len => d[i + 1].first = Covered(d[i]) + 1
  BY DEF WireBounds
<1>. HIDE DEF rest, len
<1>5. \A i \in 1 .. len - 1 :
        /\ Produced(rest[i], n)
        /\ rest[i].type # "ready"
        /\ i < len - 1 => rest[i + 1].first = Covered(rest[i]) + 1
  <2>. SUFFICES ASSUME NEW i \in 1 .. len - 1
                PROVE  /\ Produced(rest[i], n)
                       /\ rest[i].type # "ready"
                       /\ i < len - 1 => rest[i + 1].first = Covered(rest[i]) + 1
    OBVIOUS
  <2>1. i + 1 \in 1 .. len /\ i + 1 # 1 /\ (i < len - 1 => i + 1 < len /\ i + 1 \in 1 .. len - 1)
    BY <1>1
  <2>2. rest[i] = d[i + 1] /\ (i < len - 1 => rest[i + 1] = d[(i + 1) + 1])
    BY <1>2, <2>1
  <2>. QED
    BY <1>4, <2>1, <2>2
<1>6. WireBounds(t, rest, u, n)
  BY <1>1, <1>2, <1>5 DEF WireBounds
<1>7. rest # <<>> => 1 \in 1 .. len - 1 /\ rest[1] = d[2] /\ Head(rest) = rest[1]
  <2>1. rest # <<>> => Len(rest) \in Nat \ {0}
    BY <1>2, EmptySeq
  <2>. QED
    BY <1>1, <1>2, <2>1
<1>8. rest = <<>> => len = 1
  BY <1>1, <1>2
<1>9. 1 \in 1 .. len /\ (rest # <<>> => 1 < len)
  BY <1>1, <1>7
<1>. QED
  BY <1>2, <1>3, <1>4, <1>5, <1>6, <1>7, <1>8, <1>9 DEF Greeted, rest, len

\* The end of the run of frames is well defined.
LEMMA TipType ==
  ASSUME NEW v \in View
  PROVE  /\ Start(v) \in Int /\ Tip(v) \in Int
         /\ HelloMessage(v).last \in Int
         /\ HelloMessage(v).last = IF v.requiresReset THEN -1 ELSE v.last
<1>1. Start(v) \in Int
  BY WritingFields, ViewFields, FrameFields DEF Start, Resume, Sequence, None
<1>2. v.frames # <<>> => v.frames[Len(v.frames)] \in Frame
  <2>1. v.frames # <<>> => Len(v.frames) \in Nat \ {0}
    BY ViewFields, EmptySeq
  <2>2. v.frames # <<>> => Len(v.frames) \in 1 .. Len(v.frames)
    BY <2>1
  <2>. QED
    BY <2>2, ViewFields, ElementOfSeq
<1>3. Tip(v) \in Int
  BY <1>1, <1>2, FrameFields DEF Tip
<1>. QED
  BY <1>1, <1>3, ViewFields DEF HelloMessage, Resume, Sequence, None

\* A client that fails stops listening.
LEMMA FailSync ==
  ASSUME NEW v \in View, NEW w \in View, Fails(v, w), v.writing = Idle,
         NEW t, NEW d, NEW u, NEW n, ViewBounds(v, n),
         t.phase # "hello", ~Greeted(d)
  PROVE  Sync(w, t, d, u, n) /\ Drained(w)
<1>1. WriterInv(w) /\ Drained(w)
  BY DEF Fails, WriterInv, Drained, Idle
<1>2. Handshake(w, t, d, u)
  BY DEF Fails, Handshake
<1>3. ViewBounds(w, n)
  BY DEF Fails, Keeps, ViewBounds, Idle
<1>. QED
  BY <1>1, <1>2, <1>3 DEF Sync

\* What drain leaves.
LEMMA DrainSync ==
  ASSUME NEW v \in View, v.ready => v.socket \in Sockets, NEW w \in Drain(v),
         NEW t, NEW d, NEW u, NEW n \in Nat, Sync(v, t, d, u, n)
  PROVE  w \in View /\ Sync(w, t, d, u, n) /\ Drained(w)
<1>. DEFINE f == Head(v.frames)
<1>1. w \in View
  BY DrainCases
<1>2. CASE (~v.ready \/ v.writing # Idle \/ v.frames = <<>>) /\ w = v
  BY <1>1, <1>2 DEF Drained
<1>3. ASSUME v.ready, v.writing = Idle, v.frames # <<>>
      PROVE  /\ v.state = "open" /\ Engaged(v) /\ Follows(v, t, d)
             /\ f = v.frames[1] /\ f \in Frame /\ Produced(f, n)
             /\ Len(v.frames) \in Nat /\ 1 \in 1 .. Len(v.frames)
  <2>1. Len(v.frames) \in Nat \ {0}
    BY <1>3, ViewFields, EmptySeq
  <2>2. 1 \in 1 .. Len(v.frames)
    BY <2>1
  <2>3. f = v.frames[1] /\ f \in Frame
    BY <1>3, <2>2, ViewFields, HeadTailProperties
  <2>4. v.state = "open" /\ Engaged(v)
    BY <1>3, ViewFields DEF Sync, WriterInv, Engaged
  <2>5. Produced(f, n)
    BY <2>2, <2>3 DEF Sync, ViewBounds
  <2>. QED
    BY <2>1, <2>2, <2>3, <2>4, <2>5 DEF Sync, Handshake
<1>4. ASSUME v.ready, v.writing = Idle, v.frames # <<>>, Fails(v, w)
      PROVE  Sync(w, t, d, u, n) /\ Drained(w)
  BY <1>1, <1>3, <1>4, FailSync DEF Follows, Sync
<1>5. ASSUME v.ready, v.writing = Idle, v.frames # <<>>, Writes(v, w, f),
             w.frames = Tail(v.frames), f.first = v.last + 1
      PROVE  Sync(w, t, d, u, n) /\ Drained(w)
  <2>. DEFINE len == Len(v.frames)
  <2>1. /\ w.writing.kind = "output" /\ w.writing.frame = f /\ w.ready /\ w.state = "open"
        /\ w.last = v.last /\ w.writing # Idle /\ ~w.requiresReset /\ w.last # None
        /\ w.helloDue = v.helloDue
    BY <1>3, <1>5 DEF Writes, Keeps, Output, Idle, Sync, WriterInv
  <2>2. WriterInv(w) /\ Drained(w)
    BY <1>5, <2>1 DEF WriterInv, Drained
  <2>3. len \in Nat /\ len >= 1
    BY <1>3, <1>5
  <2>4. Len(w.frames) = len - 1 /\ \A i \in 1 .. len - 1 : w.frames[i] = v.frames[i + 1]
    BY <1>5, ViewFields, HeadTailProperties
  <2>5. Start(w) = f.end
    BY <2>1 DEF Start
  <2>. HIDE DEF len
  <2>6. \A i \in 1 .. len : v.frames[i].first = (IF i = 1 THEN Start(v) ELSE v.frames[i - 1].end) + 1
    BY <1>3, <1>5 DEF Follows, FramesLinked, len
  <2>7. FramesLinked(w)
    <3>. SUFFICES ASSUME NEW i \in 1 .. len - 1
                  PROVE  w.frames[i].first = (IF i = 1 THEN Start(w) ELSE w.frames[i - 1].end) + 1
      BY <2>4 DEF FramesLinked
    <3>1. i + 1 \in 1 .. len /\ i + 1 # 1 /\ (i + 1) - 1 = i /\ (i # 1 => i - 1 \in 1 .. len - 1 /\ (i - 1) + 1 = i)
      BY <2>3
    <3>2. v.frames[i + 1].first = v.frames[i].end + 1
      BY <2>6, <3>1
    <3>3. w.frames[i] = v.frames[i + 1] /\ (i # 1 => w.frames[i - 1] = v.frames[i])
      BY <2>4, <3>1
    <3>. QED
      BY <1>3, <1>5, <2>5, <3>2, <3>3
  <2>8. Tip(w) = Tip(v)
    <3>1. w.frames = <<>> => len = 1
      BY <2>3, <2>4
    <3>2. w.frames # <<>> => len - 1 \in 1 .. len - 1 /\ (len - 1) + 1 = len
      <4>1. w.frames # <<>> => Len(w.frames) \in Nat \ {0}
        BY <1>1, ViewFields, EmptySeq
      <4>. QED
        BY <2>3, <2>4, <4>1
    <3>3. w.frames # <<>> => w.frames[Len(w.frames)] = v.frames[len]
      BY <2>4, <3>2
    <3>. QED
      BY <1>3, <1>5, <2>5, <3>1, <3>3 DEF Tip, len
  <2>9. Handshake(w, t, d, u)
    BY <1>3, <1>5, <2>1, <2>7, <2>8 DEF Handshake, Engaged, Follows
  <2>10. ViewBounds(w, n)
    <3>1. \A i \in 1 .. len : Produced(v.frames[i], n)
      BY DEF Sync, ViewBounds, len
    <3>2. \A i \in 1 .. len - 1 : Produced(w.frames[i], n)
      BY <2>3, <2>4, <3>1
    <3>. QED
      BY <1>3, <1>5, <2>1, <2>4, <3>2 DEF Sync, ViewBounds
  <2>. QED
    BY <2>2, <2>9, <2>10 DEF Sync
<1>. QED
  BY <1>1, <1>2, <1>4, <1>5, DrainCases

\* An output frame.
LEMMA ReceiveFrameSync ==
  ASSUME NEW v \in View, v.state \in {"open", "closing"}, v.ready => v.socket \in Sockets,
         NEW t, NEW d \in Seq(Ready \cup Frame), d # <<>>, NEW u, NEW n \in Nat,
         Sync(v, t, d, u, n), Drained(v), WireBounds(t, d, u, n),
         t.phase = "live" => FollowsUpTo(d, Lag(t)), Lag(t) \in Int,
         NEW f \in Frame, f = d[1], NEW z \in View, Buffers(v, z, f)
  PROVE  Sync(z, t, Tail(d), u, n) /\ (z.ready => z.socket \in Sockets)
<1>. DEFINE len == Len(v.frames)
            rest == Tail(d)
<1>1. /\ ~Greeted(d) /\ ~Greeted(rest) /\ Produced(f, n)
      /\ rest # <<>> => rest[1].first = f.end + 1
      /\ rest = <<>> => Len(d) = 1
  BY WireHead, FrameFields DEF Greeted
<1>2. /\ v.frames \in Seq(Frame) /\ len \in Nat
      /\ Len(z.frames) = len + 1
      /\ \A i \in 1 .. len : z.frames[i] = v.frames[i]
      /\ z.frames[len + 1] = f
      /\ z.frames # <<>>
  BY ViewFields, AppendProperties DEF Buffers
<1>. HIDE DEF rest, len
<1>3. WriterInv(z)
  <2>1. WriterInv(v)
    BY DEF Sync
  <2>2. HelloMessage(z) = HelloMessage(v)
    BY DEF Buffers, Keeps, HelloMessage
  <2>3. v.state \notin {"none", "connecting"}
    OBVIOUS
  <2>. QED
    BY <2>1, <2>2, <2>3 DEF WriterInv, Buffers, Keeps
<1>4. ViewBounds(z, n)
  <2>1. \A i \in 1 .. len : Produced(v.frames[i], n)
    BY DEF Sync, ViewBounds, len
  <2>2. \A i \in 1 .. len + 1 : Produced(z.frames[i], n)
    BY <1>1, <1>2, <2>1
  <2>3. ViewBounds(v, n)
    BY DEF Sync
  <2>. QED
    BY <1>2, <2>2, <2>3 DEF ViewBounds, Buffers, Keeps
<1>5. Engaged(z) <=> Engaged(v)
  BY DEF Engaged, Resetting, Buffers, Keeps
<1>6. CASE v.state = "open"
  <2>1. Engaged(v)
    BY <1>1, <1>6 DEF Sync, Handshake, Waits
  <2>2. Follows(v, t, d)
    BY <1>6, <2>1 DEF Sync, Handshake
  <2>3. f.first = Tip(v) + 1
    BY <2>2 DEF Follows
  <2>4. Start(z) = Start(v) /\ Tip(z) = f.end
    BY <1>2 DEF Start, Tip, Buffers, Keeps
  <2>5. FramesLinked(z)
    <3>. SUFFICES ASSUME NEW i \in 1 .. len + 1
                  PROVE  z.frames[i].first = (IF i = 1 THEN Start(z) ELSE z.frames[i - 1].end) + 1
      BY <1>2 DEF FramesLinked
    <3>1. CASE i \in 1 .. len
      <4>1. v.frames[i].first = (IF i = 1 THEN Start(v) ELSE v.frames[i - 1].end) + 1
        BY <2>2, <3>1 DEF Follows, FramesLinked, len
      <4>2. z.frames[i] = v.frames[i] /\ (i # 1 => i - 1 \in 1 .. len)
        BY <1>2, <3>1
      <4>3. i # 1 => z.frames[i - 1] = v.frames[i - 1]
        BY <1>2, <4>2
      <4>. QED
        BY <2>4, <4>1, <4>2, <4>3
    <3>2. CASE i = len + 1
      <4>1. z.frames[i].first = Tip(v) + 1
        BY <1>2, <2>3, <3>2
      <4>2. CASE len = 0
        <5>1. v.frames = <<>>
          BY <1>2, <4>2, EmptySeq DEF len
        <5>. QED
          BY <2>4, <3>2, <4>1, <4>2, <5>1 DEF Tip
      <4>3. CASE len # 0
        <5>1. v.frames # <<>> /\ i # 1 /\ i - 1 = len /\ len \in 1 .. len
          BY <1>2, <3>2, <4>3 DEF len
        <5>2. z.frames[i - 1] = v.frames[len] /\ Tip(v) = v.frames[len].end
          BY <1>2, <5>1 DEF Tip, len
        <5>. QED
          BY <4>1, <5>1, <5>2
      <4>. QED
        BY <4>2, <4>3
    <3>. QED
      BY <1>2, <3>1, <3>2
  <2>6. rest = <<>> /\ t.phase = "live" => Lag(t) = f.end
    <3>1. Len(d) = 1 /\ FollowsUpTo(d, Lag(t)) => Covered(d[1]) = Lag(t)
      BY DEF FollowsUpTo
    <3>. QED
      BY <1>1, <3>1, FrameFields
  <2>7. Follows(z, t, rest)
    BY <1>1, <2>2, <2>4, <2>5, <2>6 DEF Follows, Buffers, Keeps, Lag
  <2>. QED
    BY <1>3, <1>4, <1>5, <1>6, <2>1, <2>7 DEF Sync, Handshake, Buffers, Keeps, rest
<1>7. CASE v.state = "closing"
  <2>1. Handshake(z, t, rest, u)
    BY <1>1, <1>7 DEF Sync, Handshake, Buffers
  <2>. QED
    BY <1>3, <1>4, <2>1 DEF Sync, Buffers, Keeps, rest
<1>. QED
  BY <1>6, <1>7

\* The ready message.
LEMMA ReceiveReadySync ==
  ASSUME NEW v \in View, v.state \in {"open", "closing"}, v.socket \in Sockets,
         NEW t, NEW d \in Seq(Ready \cup Frame), d # <<>>, NEW u, NEW n \in Nat,
         Sync(v, t, d, u, n), WireBounds(t, d, u, n), t.phase = "hello" => d = <<>>,
         t.phase = "live" => FollowsUpTo(d, Lag(t)), Lag(t) \in Int,
         NEW m \in Ready, m = d[1], NEW w \in View
  PROVE  /\ v.state = "open" /\ v.writing = Idle /\ ~Engaged(v) /\ ~v.helloDue
         /\ IF m.reset THEN HelloMessage(v).last < m.seq ELSE HelloMessage(v).last = m.seq
         /\ Fails(v, w) => Sync(w, t, Tail(d), u, n) /\ Drained(w)
         /\ m.reset /\ Rewinds(v, w, m) => Sync(w, t, Tail(d), u, n) /\ Drained(w)
         /\ ~m.reset /\ ~v.requiresReset /\ v.last = m.seq /\ Resumes(v, w) =>
              Sync(w, t, Tail(d), u, n)
<1>. DEFINE rest == Tail(d)
<1>1. /\ Greeted(d) /\ ~Greeted(rest) /\ Covered(m) = m.seq /\ Covered(m) <= n
      /\ rest # <<>> => rest[1].first = m.seq + 1
      /\ rest = <<>> => Len(d) = 1
      /\ m.seq \in Nat
  BY WireHead DEF Greeted, Ready, Covered, Produced, Sequence
<1>. HIDE DEF rest
<1>2. rest = <<>> /\ t.phase = "live" => Lag(t) = m.seq
  <2>1. Len(d) = 1 /\ FollowsUpTo(d, Lag(t)) => Covered(d[1]) = Lag(t)
    BY DEF FollowsUpTo
  <2>. QED
    BY <1>1, <2>1
<1>3. v.state = "open" /\ ~Engaged(v) /\ Waits(v, t, d, u)
  BY <1>1 DEF Sync, Handshake, Follows
<1>4. /\ v.writing = Idle /\ ~v.helloDue /\ v.frames = <<>>
      /\ IF m.reset THEN HelloMessage(v).last < m.seq ELSE HelloMessage(v).last = m.seq
  BY <1>1, <1>3, ViewFields DEF Waits
<1>5. t.phase # "hello"
  OBVIOUS
<1>6. ViewBounds(v, n) /\ WriterInv(v)
  BY DEF Sync
<1>7. ASSUME Fails(v, w) PROVE Sync(w, t, rest, u, n) /\ Drained(w)
  BY <1>1, <1>4, <1>5, <1>6, <1>7, FailSync
<1>8. ASSUME m.reset, Rewinds(v, w, m) PROVE Sync(w, t, rest, u, n) /\ Drained(w)
  <2>1. /\ w.writing.kind = "reset" /\ w.writing.seq = m.seq /\ w.writing # Idle
        /\ w.writing.socket = w.socket /\ w.state = "open" /\ w.ready = FALSE
        /\ w.frames = <<>> /\ w.helloDue = FALSE /\ w.last = v.last
    BY <1>3, <1>4, <1>8, ViewFields DEF Rewinds, Keeps, Reset, Idle
  <2>2. HelloMessage(w) = HelloMessage(v)
    BY <1>8 DEF Rewinds, Keeps, HelloMessage
  <2>3. WriterInv(w) /\ Drained(w)
    BY <1>4, <1>8, <2>1, <2>2 DEF WriterInv, Drained
  <2>4. ViewBounds(w, n)
    BY <1>1, <1>6, <2>1 DEF ViewBounds
  <2>5. Engaged(w) /\ Start(w) = m.seq /\ Tip(w) = m.seq /\ FramesLinked(w)
    BY <2>1 DEF Engaged, Resetting, Start, Tip, FramesLinked
  <2>6. Follows(w, t, rest)
    BY <1>1, <1>2, <1>5, <2>1, <2>5 DEF Follows, Lag
  <2>. QED
    BY <2>1, <2>3, <2>4, <2>5, <2>6 DEF Sync, Handshake
<1>9. ASSUME ~m.reset, ~v.requiresReset, v.last = m.seq, Resumes(v, w)
      PROVE  Sync(w, t, rest, u, n)
  <2>1. /\ w.writing = Idle /\ w.writing.kind = "idle" /\ w.state = "open" /\ w.ready
        /\ w.frames = <<>> /\ w.helloDue = FALSE /\ w.last = m.seq /\ ~w.requiresReset
    BY <1>3, <1>4, <1>9, ViewFields DEF Resumes, Keeps, Idle
  <2>2. WriterInv(w)
    BY <1>1, <2>1 DEF WriterInv, None
  <2>3. ViewBounds(w, n)
    BY <1>1, <2>1 DEF ViewBounds
  <2>4. Engaged(w) /\ Start(w) = m.seq /\ Tip(w) = m.seq /\ FramesLinked(w)
    BY <2>1 DEF Engaged, Start, Tip, FramesLinked
  <2>5. Follows(w, t, rest)
    BY <1>1, <1>2, <1>5, <2>1, <2>4 DEF Follows, Lag
  <2>. QED
    BY <2>1, <2>2, <2>3, <2>4, <2>5 DEF Sync, Handshake
<1>. QED
  BY <1>3, <1>4, <1>7, <1>8, <1>9 DEF rest

\* The end of a reset, up to drain.  `own' says whether its socket is active.
LEMMA ResetDoneSync ==
  ASSUME NEW v \in View, v.writing.kind = "reset",
         v.state \in {"none", "connecting"} => v.writing.socket # v.socket,
         NEW t, NEW d, NEW u, NEW n \in Nat, Sync(v, t, d, u, n),
         v.state = "open" /\ Engaged(v), NEW z \in View, Rewound(v, z)
  PROVE  Sync(z, t, d, u, n) /\ z.ready /\ Engaged(z) /\ (z.ready => z.socket \in Sockets)
<1>1. WriterInv(v) /\ ViewBounds(v, n) /\ v.writing # Idle /\ v.writing.seq \in Nat
  BY WritingFields DEF Sync, Sequence
<1>2. ~v.ready /\ Resetting(v) /\ v.writing.socket = v.socket /\ v.socket \in Sockets
  BY <1>1, WritingFields DEF Engaged, WriterInv, Resetting
<1>3. /\ z.ready /\ Engaged(z) /\ z.writing.kind = "idle" /\ z.writing = Idle
      /\ z.state = "open" /\ z.last = v.writing.seq /\ z.frames = v.frames
      /\ z.socket = v.socket /\ ~z.requiresReset /\ z.helloDue = v.helloDue
  BY <1>2 DEF Rewound, Engaged, Idle
<1>4. WriterInv(z)
  BY <1>1, <1>3 DEF WriterInv, None
<1>5. ViewBounds(z, n)
  BY <1>1, <1>3 DEF ViewBounds
<1>6. Start(z) = Start(v) /\ Tip(z) = Tip(v)
  BY <1>3 DEF Start, Tip
<1>7. Follows(v, t, d)
  BY DEF Sync, Handshake
<1>8. Follows(z, t, d)
  BY <1>3, <1>6, <1>7 DEF Follows, FramesLinked
<1>. QED
  BY <1>2, <1>3, <1>4, <1>5, <1>8 DEF Sync, Handshake

\* The end of an output write, up to drain.
LEMMA OutputDoneSync ==
  ASSUME NEW v \in View, v.writing.kind = "output",
         NEW t, NEW d, NEW u, NEW n \in Nat, Sync(v, t, d, u, n),
         v.state = "open" /\ Engaged(v), NEW z \in View, Wrote(v, z)
  PROVE  Sync(z, t, d, u, n) /\ z.ready /\ Engaged(z)
<1>1. WriterInv(v) /\ ViewBounds(v, n) /\ v.writing # Idle /\ v.writing.frame \in Frame
  BY WritingFields DEF Sync
<1>2. v.ready /\ ~v.requiresReset
  BY <1>1 DEF Engaged, WriterInv, Resetting
<1>3. /\ z.ready /\ Engaged(z) /\ z.writing.kind = "idle" /\ z.writing = Idle
      /\ z.state = "open" /\ z.last = v.writing.frame.end /\ z.frames = v.frames
      /\ z.socket = v.socket /\ ~z.requiresReset /\ z.helloDue = v.helloDue
  BY <1>2 DEF Wrote, Engaged, Idle
<1>4. v.writing.frame.end \in Nat /\ v.writing.frame.end <= n
  BY <1>1, FrameFields DEF ViewBounds, Produced
<1>5. WriterInv(z)
  BY <1>1, <1>3, <1>4 DEF WriterInv, None
<1>6. ViewBounds(z, n)
  BY <1>1, <1>3, <1>4 DEF ViewBounds
<1>7. Start(z) = Start(v) /\ Tip(z) = Tip(v)
  BY <1>3 DEF Start, Tip
<1>8. Follows(v, t, d)
  BY DEF Sync, Handshake
<1>9. Follows(z, t, d)
  BY <1>3, <1>7, <1>8 DEF Follows, FramesLinked
<1>. QED
  BY <1>3, <1>5, <1>6, <1>9 DEF Sync, Handshake

\* A write that ends while its client waits for a ready message or has no
\* open socket: drain has nothing to do.
LEMMA IdleDoneSync ==
  ASSUME NEW v \in View, v.writing # Idle, ~(v.state = "open" /\ Engaged(v)),
         v.state \in {"none", "connecting"} => v.writing.socket # v.socket,
         NEW t, NEW d, NEW u, NEW n \in Nat, Sync(v, t, d, u, n),
         NEW z \in View, v.writing.kind = "reset" => Rewound(v, z),
         v.writing.kind = "output" => Wrote(v, z), NEW w \in Drain(z)
  PROVE  /\ w = z /\ ~z.ready /\ z.writing = Idle /\ z.frames = v.frames
         /\ z.socket = v.socket /\ z.state = v.state /\ z.helloDue = v.helloDue
         /\ v.state # "closing" /\ WriterInv(z) /\ ViewBounds(z, n)
         /\ v.state = "open" => ~Engaged(z)
<1>1. /\ WriterInv(v) /\ ViewBounds(v, n)
      /\ v.writing.kind \in {"reset", "output"}
      /\ v.writing.kind = "output" => v.writing.frame \in Frame
      /\ v.writing.kind = "reset" => v.writing.seq \in Nat
  BY WritingFields DEF Sync, Sequence
<1>2. v.state # "closing" /\ v.state \in {"none", "connecting", "open"}
  BY <1>1, ViewFields DEF WriterInv
<1>3. ~v.ready
  BY <1>1, <1>2 DEF WriterInv, Engaged
<1>4. v.writing.kind = "reset" => v.writing.socket # v.socket
  BY <1>2 DEF Engaged, Resetting
<1>5. /\ ~z.ready /\ z.writing = Idle /\ z.writing.kind = "idle" /\ z.frames = v.frames
      /\ z.socket = v.socket /\ z.state = v.state /\ z.helloDue = v.helloDue
  <2>1. CASE v.writing.kind = "reset"
    <3>1. z.ready = v.ready
      BY <1>4, <2>1 DEF Rewound
    <3>2. z.writing = Idle /\ Idle.kind = "idle"
      BY <2>1 DEF Rewound, Idle
    <3>3. /\ z.frames = v.frames /\ z.socket = v.socket
          /\ z.state = v.state /\ z.helloDue = v.helloDue
      BY <2>1 DEF Rewound
    <3>. QED
      BY <1>3, <3>1, <3>2, <3>3
  <2>2. CASE v.writing.kind = "output"
    BY <1>3, <2>2 DEF Wrote, Idle
  <2>. QED
    BY <1>1, <2>1, <2>2
<1>6. w = z
  BY <1>5 DEF Drain
<1>7. WriterInv(z)
  BY <1>1, <1>2, <1>5 DEF WriterInv
<1>8. z.last <= n
  <2>1. v.writing.kind = "output" =>
          v.writing.frame.end \in Nat /\ v.writing.frame.end <= n
    BY <1>1, FrameFields DEF ViewBounds, Produced
  <2>2. v.writing.kind = "reset" => v.writing.seq <= n
    BY <1>1 DEF ViewBounds
  <2>3. v.writing.kind = "reset" => z.last = v.writing.seq
    BY DEF Rewound
  <2>4. v.writing.kind = "output" => z.last \in {-1, v.writing.frame.end}
    BY DEF Wrote, None
  <2>. QED
    BY <1>1, <2>1, <2>2, <2>3, <2>4
<1>9. ViewBounds(z, n)
  BY <1>1, <1>5, <1>8 DEF ViewBounds
<1>. QED
  BY <1>2, <1>5, <1>6, <1>7, <1>9 DEF Engaged, Resetting

\* Every hello among the messages u2 was in u, or says what m says.
HellosFrom(u2, u, m) ==
  \A i \in 1 .. Len(u2) : u2[i].type = "hello" =>
    (\E j \in 1 .. Len(u) : u2[i] = u[j]) \/ u2[i].last = m.last

\* The end of a write, with the hello it lets out.
LEMMA WriteDoneSync ==
  ASSUME NEW v \in View, v.writing # Idle, v.state # "none" => v.socket \in Sockets,
         v.state \in {"none", "connecting"} => v.writing.socket # v.socket,
         NEW t, NEW d, NEW u, NEW u2, NEW n \in Nat, Sync(v, t, d, u, n),
         NEW z \in View, v.writing.kind = "reset" => Rewound(v, z),
         v.writing.kind = "output" => Wrote(v, z),
         NEW w \in Drain(z), HellosFrom(u2, u, HelloMessage(w)),
         NEW x, x = [w EXCEPT !.helloDue = FALSE]
  PROVE  x \in View /\ Sync(x, t, d, u2, n) /\ Drained(x)
<1>1. v.writing.kind \in {"reset", "output"}
  BY WritingFields
<1>2. ASSUME NEW y \in View, x = [y EXCEPT !.helloDue = FALSE]
      PROVE  /\ x \in View /\ x.helloDue = FALSE
             /\ x.socket = y.socket /\ x.state = y.state /\ x.last = y.last /\ x.ready = y.ready
             /\ x.requiresReset = y.requiresReset /\ x.writing = y.writing
             /\ x.frames = y.frames /\ HelloMessage(x) = HelloMessage(y)
  <2>. HIDE DEF Frame, Sequence
  <2>. QED
    BY <1>2 DEF View, HelloMessage
<1>3. CASE v.state = "open" /\ Engaged(v)
  <2>1. Sync(z, t, d, u, n) /\ z.ready /\ (z.ready => z.socket \in Sockets)
    BY <1>1, <1>3, ResetDoneSync, OutputDoneSync DEF Wrote
  <2>2. w \in View /\ Sync(w, t, d, u, n) /\ Drained(w)
    BY <2>1, DrainSync
  <2>3. w.ready \/ w.state = "closing"
    <3>1. w = z \/ Writes(z, w, Head(z.frames)) \/ Fails(z, w)
      BY <2>1, DrainCases
    <3>. QED
      BY <2>1, <3>1 DEF Writes, Fails
  <2>4. WriterInv(x) /\ Drained(x) /\ ViewBounds(x, n) /\ Engaged(x) = Engaged(w)
    BY <1>2, <2>2 DEF WriterInv, Drained, ViewBounds, Sync, Engaged, Resetting
  <2>5. Handshake(x, t, d, u2)
    <3>1. w.state = "open" => Engaged(w)
      BY <2>3 DEF Engaged
    <3>2. w.state = "open" => Follows(w, t, d)
      BY <2>2, <3>1 DEF Sync, Handshake
    <3>3. w.state = "open" => Follows(x, t, d)
      BY <1>2, <2>2, <3>2 DEF Follows, FramesLinked, Start, Tip
    <3>. QED
      BY <1>2, <2>2, <2>4, <3>1, <3>3 DEF Sync, Handshake
  <2>. QED
    BY <1>2, <2>2, <2>4, <2>5 DEF Sync
<1>4. CASE ~(v.state = "open" /\ Engaged(v))
  <2>1. /\ w = z /\ ~z.ready /\ z.writing = Idle /\ z.frames = v.frames
        /\ z.socket = v.socket /\ z.state = v.state /\ z.helloDue = v.helloDue
        /\ v.state # "closing" /\ WriterInv(z) /\ ViewBounds(z, n)
        /\ v.state = "open" => ~Engaged(z)
    BY <1>4, IdleDoneSync
  <2>2. /\ x \in View /\ x.helloDue = FALSE
        /\ x.socket = z.socket /\ x.state = z.state /\ x.last = z.last /\ x.ready = z.ready
        /\ x.requiresReset = z.requiresReset /\ x.writing = z.writing
        /\ x.frames = z.frames /\ HelloMessage(x) = HelloMessage(z)
    BY <1>2, <2>1
  <2>3. WriterInv(x) /\ Drained(x) /\ ViewBounds(x, n)
    BY <2>1, <2>2 DEF WriterInv, Drained, ViewBounds
  <2>4. Engaged(x) <=> Engaged(z)
    BY <2>2 DEF Engaged, Resetting
  <2>5. ASSUME v.state = "open" PROVE Waits(x, t, d, u2)
    <3>1. Waits(v, t, d, u)
      BY <1>4, <2>5 DEF Sync, Handshake
    <3>2. v.helloDue /\ ~Greeted(d)
      BY <3>1 DEF Waits
    <3>3. t.phase = "hello" => \A i \in 1 .. Len(u2) :
            u2[i].type = "hello" => u2[i].last = HelloMessage(x).last
      BY <2>1, <2>2, <3>1, <3>2 DEF HellosFrom, Waits
    <3>. QED
      BY <2>1, <2>2, <3>1, <3>2, <3>3 DEF Waits
  <2>6. Handshake(x, t, d, u2)
    BY <2>1, <2>2, <2>4, <2>5 DEF Handshake
  <2>. QED
    BY <2>2, <2>3, <2>6 DEF Sync
<1>. QED
  BY <1>3, <1>4

\* Opening: nothing has been said, and the hello goes out when nothing is
\* being parsed.
LEMMA OpenSync ==
  ASSUME NEW v \in View, v.state = "connecting",
         v.writing # Idle => v.writing.socket # v.socket,
         NEW t, NEW t2, t2.phase = "hello", NEW d, d = <<>>, NEW u, NEW n,
         NEW u2, u2 = IF v.writing = Idle THEN <<HelloMessage(v)>> ELSE <<>>,
         Sync(v, t, d, u, n), Drained(v),
         NEW w, w = [[v EXCEPT !.state = "open"] EXCEPT !.helloDue = v.writing # Idle]
  PROVE  w \in View /\ Sync(w, t2, d, u2, n) /\ Drained(w)
<1>1. /\ w \in View /\ w.state = "open" /\ w.helloDue = (v.writing # Idle)
      /\ w.socket = v.socket /\ w.last = v.last /\ w.ready = v.ready
      /\ w.requiresReset = v.requiresReset /\ w.writing = v.writing
      /\ w.frames = v.frames
  <2>. HIDE DEF Frame, Sequence
  <2>. QED
    BY DEF View
<1>2. WriterInv(v) /\ ViewBounds(v, n)
  BY DEF Sync
<1>3. ~w.ready /\ w.frames = <<>>
  BY <1>1, <1>2 DEF WriterInv
<1>4. HelloMessage(w) = HelloMessage(v)
  BY <1>1 DEF HelloMessage
<1>5. WriterInv(w) /\ Drained(w) /\ ViewBounds(w, n)
  BY <1>1, <1>2, <1>3, <1>4 DEF WriterInv, Drained, ViewBounds
<1>6. ~Engaged(w)
  BY <1>1, <1>3 DEF Engaged, Resetting, Idle
<1>7. \A i \in 1 .. Len(u2) : w.writing = Idle /\ u2[i].last = HelloMessage(w).last
  <2>1. CASE v.writing = Idle
    BY <1>1, <1>4, <2>1
  <2>2. CASE v.writing # Idle
    BY <2>2
  <2>. QED
    BY <2>1, <2>2
<1>8. Waits(w, t2, d, u2)
  BY <1>1, <1>3, <1>7 DEF Waits, Greeted
<1>. QED
  BY <1>1, <1>5, <1>6, <1>8 DEF Sync, Handshake

\* Taking a new socket, or none.
LEMMA LeaveSync ==
  ASSUME NEW v \in View, NEW t, NEW d, NEW u, NEW n, Sync(v, t, d, u, n),
         NEW w \in {End(v)} \cup {Begin(v, k) : k \in Sockets}, NEW t2, NEW d2, NEW u2
  PROVE  w \in View /\ Sync(w, t2, d2, u2, n) /\ Drained(w)
<1>1. /\ w \in View /\ w.state \in {"none", "connecting"} /\ w.helloDue = FALSE
      /\ w.last = v.last /\ w.ready = FALSE
      /\ w.requiresReset = v.requiresReset /\ w.writing = v.writing
      /\ w.frames = <<>>
  <2>1. <<>> \in Seq(Frame)
    OBVIOUS
  <2>. HIDE DEF Frame, Sequence
  <2>2. CASE w = End(v)
    BY <2>1, <2>2 DEF View, End, MaybeSocket
  <2>3. ASSUME NEW k \in Sockets, w = Begin(v, k)
        PROVE  /\ w \in View /\ w.state = "connecting" /\ w.helloDue = FALSE
               /\ w.last = v.last /\ w.ready = FALSE
               /\ w.requiresReset = v.requiresReset /\ w.writing = v.writing
               /\ w.frames = <<>>
    BY <2>1, <2>3 DEF View, Begin, MaybeSocket
  <2>. QED
    BY <2>2, <2>3 DEF End, View
<1>2. WriterInv(v) /\ ViewBounds(v, n)
  BY DEF Sync
<1>3. HelloMessage(w) = HelloMessage(v)
  BY <1>1 DEF HelloMessage
<1>4. WriterInv(w) /\ Drained(w) /\ ViewBounds(w, n)
  BY <1>1, <1>2, <1>3 DEF WriterInv, Drained, ViewBounds
<1>5. Handshake(w, t2, d2, u2)
  BY <1>1 DEF Handshake
<1>. QED
  BY <1>1, <1>4, <1>5 DEF Sync

-----------------------------------------------------------------------------
(***************************************************************************)
(* What a step of the task means for the client of its socket.             *)
(***************************************************************************)

\* More output changes nothing for a client.
LEMMA BoundsGrow ==
  ASSUME NEW v \in View, NEW n \in Nat, NEW n2 \in Nat, n <= n2, ViewBounds(v, n)
  PROVE  ViewBounds(v, n2)
<1>1. \A f \in Frame : Produced(f, n) => Produced(f, n2)
  BY FrameFields DEF Produced
<1>2. \A i \in 1 .. Len(v.frames) : v.frames[i] \in Frame
  BY ViewFields, ElementOfSeq
<1>3. v.last \in Int /\ (v.writing.kind = "output" => v.writing.frame \in Frame)
      /\ (v.writing.kind = "reset" => v.writing.seq \in Int)
  BY ViewFields, WritingFields DEF Resume, Sequence, None
<1>. QED
  BY <1>1, <1>2, <1>3 DEF ViewBounds

\* Every message of u2 is one of u.
Among(u2, u) == \A i \in 1 .. Len(u2) : \E j \in 1 .. Len(u) : u2[i] = u[j]

\* The task reads a message, queues output, or ends.
LEMMA QuietSync ==
  ASSUME NEW v \in View, NEW t, NEW t2, NEW d, NEW u, NEW u2, NEW n,
         Sync(v, t, d, u, n), Among(u2, u),
         t2.phase = t.phase \/ t2.phase = "closed",
         t2.phase = "live" => Lag(t2) = Lag(t)
  PROVE  Sync(v, t2, d, u2, n)
<1>1. Waits(v, t, d, u) => Waits(v, t2, d, u2)
  BY DEF Waits, Among
<1>2. Follows(v, t, d) => Follows(v, t2, d)
  BY DEF Follows, Lag
<1>. QED
  BY <1>1, <1>2 DEF Sync, Handshake

\* The task answers the hello.
LEMMA GreetSync ==
  ASSUME NEW v \in View, NEW t, t.phase = "hello", NEW t2, t2.phase = "live",
         NEW d, d = <<>>, NEW u, NEW u2, NEW n, Sync(v, t, d, u, n),
         1 \in 1 .. Len(u), u[1].type = "hello", NEW m \in Ready,
         IF m.reset THEN v.state = "open" => u[1].last < m.seq ELSE u[1].last = m.seq
  PROVE  Sync(v, t2, <<m>>, u2, n)
<1>1. v.state # "closing" /\ (v.state = "open" => ~Engaged(v) /\ Waits(v, t, d, u))
  BY DEF Sync, Handshake, Follows
<1>2. ASSUME v.state = "open" PROVE Waits(v, t2, <<m>>, u2)
  <2>1. ~v.helloDue /\ u[1].last = HelloMessage(v).last /\ v.writing = Idle /\ v.frames = <<>>
    BY <1>1, <1>2, ViewFields DEF Waits
  <2>2. Greeted(<<m>>) /\ <<m>> # <<>> /\ <<m>>[1] = m
    BY DEF Greeted, Ready
  <2>. QED
    BY <1>2, <2>1, <2>2 DEF Waits
<1>. QED
  BY <1>1, <1>2 DEF Sync, Handshake

\* The task sends a frame.
LEMMA SendSync ==
  ASSUME NEW v \in View, NEW t, t.phase = "live", NEW t2, t2.phase = "live",
         NEW d \in Seq(Ready \cup Frame), NEW u, NEW n, Sync(v, t, d, u, n),
         NEW f \in Frame, f.first = Lag(t) + 1, Lag(t2) = f.end
  PROVE  Sync(v, t2, Append(d, f), u, n)
<1>. DEFINE d2 == Append(d, f)
<1>1. /\ d2 # <<>> /\ f.type = "frame"
      /\ d # <<>> => d2[1] = d[1] /\ Greeted(d2) = Greeted(d)
      /\ d = <<>> => d2[1] = f /\ ~Greeted(d2)
  <2>1. Len(d2) = Len(d) + 1 /\ (\A i \in 1 .. Len(d) : d2[i] = d[i]) /\ d2[Len(d) + 1] = f
        /\ d2 # <<>> /\ Len(d) \in Nat /\ f \in Ready \cup Frame /\ d2 \in Seq(Ready \cup Frame)
    BY AppendProperties
  <2>2. d # <<>> => 1 \in 1 .. Len(d)
    <3>1. d # <<>> => Len(d) \in Nat \ {0}
      BY EmptySeq
    <3>. QED
      BY <3>1
  <2>3. d = <<>> => Len(d) = 0
    OBVIOUS
  <2>4. Head(d2) = d2[1] /\ (d # <<>> => Head(d) = d[1])
    BY <2>1, <2>2
  <2>. QED
    BY <2>1, <2>2, <2>3, <2>4, FrameFields DEF Greeted
<1>. HIDE DEF d2
<1>2. v.state = "open" /\ ~Engaged(v) => Waits(v, t2, d2, u)
  BY <1>1 DEF Sync, Handshake, Waits
<1>3. v.state = "open" /\ Engaged(v) => Follows(v, t2, d2)
  BY <1>1 DEF Sync, Handshake, Follows, Lag
<1>4. v.state = "closing" => ~Greeted(d2)
  BY <1>1 DEF Sync, Handshake
<1>. QED
  BY <1>2, <1>3, <1>4 DEF Sync, Handshake, d2

-----------------------------------------------------------------------------
(***************************************************************************)
(* What the screen and the frames are worth.                               *)
(***************************************************************************)

Worth(v, t, d, a, p) == ViewHonest(v, a, p) /\ ScreenInv(v, t, d)

LEMMA FailWorth ==
  ASSUME NEW v \in View, NEW w \in View, Fails(v, w), v.writing = Idle,
         NEW a, NEW p, ViewHonest(v, a, p), NEW t, NEW d
  PROVE  Worth(w, t, d, a, p)
<1>1. /\ w.writing = Idle /\ w.writing.kind = "idle" /\ w.frames = <<>>
      /\ w.state = "closing" /\ w.ready = FALSE /\ HelloMessage(w).last = None
      /\ w.last = v.last /\ w.owes = v.owes
  BY DEF Fails, Keeps, Idle, HelloMessage
<1>2. ViewHonest(w, a, p)
  BY <1>1 DEF ViewHonest
<1>3. ScreenInv(w, t, d)
  BY <1>1 DEF ScreenInv
<1>. QED
  BY <1>2, <1>3 DEF Worth

LEMMA DrainWorth ==
  ASSUME NEW v \in View, v.ready => v.socket \in Sockets, NEW w \in Drain(v),
         WriterInv(v), NEW a, NEW p, NEW t, NEW d, Worth(v, t, d, a, p)
  PROVE  Worth(w, t, d, a, p)
<1>. DEFINE f == Head(v.frames)
<1>1. CASE w = v
  BY <1>1
<1>2. ASSUME v.ready, v.writing = Idle, v.frames # <<>>, Fails(v, w)
      PROVE  Worth(w, t, d, a, p)
  BY <1>2, DrainCases, FailWorth DEF Worth
<1>3. ASSUME v.ready, v.writing = Idle, v.frames # <<>>, Writes(v, w, f),
             w.frames = Tail(v.frames)
      PROVE  Worth(w, t, d, a, p)
  <2>1. ViewHonest(v, a, p) /\ ScreenInv(v, t, d)
    BY DEF Worth
  <2>2. /\ w.writing.kind = "output" /\ w.writing.frame = f /\ w.writing # Idle
        /\ w.ready = v.ready /\ w.state = v.state /\ w.last = v.last /\ w.owes = v.owes
        /\ w.screen = v.screen /\ w.helloDue = v.helloDue
    BY <1>3 DEF Writes, Keeps, Output, Idle
  <2>3. /\ Len(v.frames) \in Nat /\ Len(v.frames) >= 1 /\ f = v.frames[1]
        /\ Len(w.frames) = Len(v.frames) - 1
        /\ \A i \in 1 .. Len(v.frames) - 1 : w.frames[i] = v.frames[i + 1]
    <3>1. Len(v.frames) \in Nat \ {0}
      BY <1>3, ViewFields, EmptySeq
    <3>2. /\ Len(w.frames) = Len(v.frames) - 1
          /\ \A i \in 1 .. Len(w.frames) : w.frames[i] = v.frames[i + 1]
      BY <1>3, ViewFields, HeadTailProperties
    <3>. QED
      BY <3>1, <3>2, ViewFields
  <2>4. \A i \in 1 .. Len(v.frames) : FrameHonest(v.frames[i], a, p)
    BY <2>1 DEF ViewHonest
  <2>5. FrameHonest(f, a, p) /\ \A i \in 1 .. Len(w.frames) : FrameHonest(w.frames[i], a, p)
    <3>. DEFINE len == Len(v.frames)
    <3>1. len \in Nat /\ 1 \in 1 .. len /\ \A i \in 1 .. len - 1 : i + 1 \in 1 .. len
      BY <2>3
    <3>2. \A i \in 1 .. len : FrameHonest(v.frames[i], a, p)
      BY <2>4
    <3>3. Len(w.frames) = len - 1 /\ \A i \in 1 .. len - 1 : w.frames[i] = v.frames[i + 1]
      BY <2>3
    <3>. HIDE DEF len
    <3>4. FrameHonest(v.frames[1], a, p)
      BY <3>1, <3>2
    <3>5. \A i \in 1 .. len - 1 : FrameHonest(v.frames[i + 1], a, p)
      BY <3>1, <3>2
    <3>. QED
      BY <2>3, <3>3, <3>4, <3>5
  <2>6. ViewHonest(w, a, p)
    BY <2>1, <2>2, <2>5 DEF ViewHonest
  <2>7. IF v.owes = NoSocket THEN v.screen = v.last ELSE f.payload[1].snapshot
    <3>1. HelloMessage(v).last = v.last /\ v.last # None
      BY <1>3 DEF WriterInv, HelloMessage
    <3>2. v.owes = NoSocket => v.screen = v.last
      BY <1>3, <2>1, <3>1 DEF ScreenInv
    <3>3. v.owes # NoSocket => SnapshotNext(v.frames, d, t)
      BY <1>3, <2>1 DEF ScreenInv
    <3>. QED
      BY <1>3, <2>3, <3>2, <3>3 DEF SnapshotNext
  <2>8. Engaged(w) /\ ~Resetting(w)
    BY <1>3, <2>2 DEF Engaged, Resetting
  <2>9. ScreenInv(w, t, d)
    <3>1. w.state = "open" /\ Greeted(d) /\ d[1].reset => SnapshotNext(<<>>, Tail(d), t)
      BY <2>1, <2>2 DEF ScreenInv
    <3>. QED
      BY <2>2, <2>7, <2>8, <3>1 DEF ScreenInv
  <2>. QED
    BY <2>6, <2>9 DEF Worth
<1>. QED
  BY <1>1, <1>2, <1>3, DrainCases

LEMMA BufferWorth ==
  ASSUME NEW v \in View, v.state \in {"open", "closing"}, v.state = "open" => Engaged(v),
         NEW d \in Seq(Ready \cup Frame), d # <<>>, ~Greeted(Tail(d)),
         NEW f \in Frame, f = d[1], NEW z, Buffers(v, z, f),
         NEW a, NEW p, NEW t, Worth(v, t, d, a, p), FrameHonest(f, a, p)
  PROVE  Worth(z, t, Tail(d), a, p)
<1>. DEFINE len == Len(v.frames)
<1>1. ViewHonest(v, a, p) /\ ScreenInv(v, t, d)
  BY DEF Worth
<1>2. /\ len \in Nat /\ Len(z.frames) = len + 1
      /\ \A i \in 1 .. len : z.frames[i] = v.frames[i]
      /\ z.frames[len + 1] = f /\ z.frames # <<>>
      /\ v.frames = <<>> => len = 0
      /\ v.frames # <<>> => len >= 1
  <2>1. v.frames # <<>> => len \in Nat \ {0}
    BY ViewFields, EmptySeq
  <2>. QED
    BY <2>1, ViewFields, AppendProperties DEF Buffers
<1>3. ViewHonest(z, a, p)
  <2>1. \A i \in 1 .. len : FrameHonest(v.frames[i], a, p)
    BY <1>1 DEF ViewHonest
  <2>. HIDE DEF len
  <2>2. \A i \in 1 .. len + 1 : FrameHonest(z.frames[i], a, p)
    BY <1>2, <2>1
  <2>. QED
    BY <1>1, <1>2, <2>2 DEF ViewHonest, Buffers, Keeps
<1>4. SnapshotNext(v.frames, d, t) => SnapshotNext(z.frames, Tail(d), t)
  <2>. HIDE DEF len
  <2>1. z.frames[1] = IF v.frames = <<>> THEN f ELSE v.frames[1]
    BY <1>2
  <2>. QED
    BY <1>2, <2>1 DEF SnapshotNext
<1>5. (Engaged(z) <=> Engaged(v)) /\ (Resetting(z) <=> Resetting(v))
  BY DEF Engaged, Resetting, Buffers, Keeps
<1>6. HelloMessage(z) = HelloMessage(v)
  BY DEF HelloMessage, Buffers, Keeps
<1>7. ScreenInv(z, t, Tail(d))
  BY <1>1, <1>4, <1>5, <1>6 DEF ScreenInv, Buffers, Keeps
<1>. QED
  BY <1>3, <1>7 DEF Worth

LEMMA ReadyWorth ==
  ASSUME NEW v \in View, v.state = "open", v.writing = Idle, ~Engaged(v), ~v.helloDue,
         NEW d \in Seq(Ready \cup Frame), d # <<>>, Greeted(d), ~Greeted(Tail(d)),
         NEW m \in Ready, m = d[1], NEW a, NEW p, NEW t, Worth(v, t, d, a, p), NEW w
  PROVE  /\ m.reset /\ Rewinds(v, w, m) => Worth(w, t, Tail(d), a, p)
         /\ HelloMessage(v).last = m.seq /\ Resumes(v, w) => Worth(w, t, Tail(d), a, p)
<1>1. ViewHonest(v, a, p) /\ ScreenInv(v, t, d)
  BY DEF Worth
<1>2. ASSUME m.reset, Rewinds(v, w, m) PROVE Worth(w, t, Tail(d), a, p)
  <2>1. /\ w.writing.kind = "reset" /\ w.writing # Idle /\ w.writing.socket = w.socket
        /\ w.ready = FALSE /\ w.frames = <<>> /\ w.owes = v.owes /\ w.last = v.last
    BY <1>2 DEF Rewinds, Keeps, Reset, Idle
  <2>2. ViewHonest(w, a, p)
    BY <1>1, <2>1 DEF ViewHonest
  <2>3. SnapshotNext(<<>>, Tail(d), t)
    BY <1>1, <1>2 DEF ScreenInv
  <2>4. Engaged(w)
    BY <2>1 DEF Engaged, Resetting
  <2>5. ScreenInv(w, t, Tail(d))
    BY <2>1, <2>3, <2>4 DEF ScreenInv
  <2>. QED
    BY <2>2, <2>5 DEF Worth
<1>3. ASSUME HelloMessage(v).last = m.seq, Resumes(v, w) PROVE Worth(w, t, Tail(d), a, p)
  <2>1. /\ w.writing = Idle /\ w.writing.kind = "idle" /\ w.ready /\ w.frames = <<>>
        /\ w.owes = v.owes /\ w.last = v.last /\ w.screen = v.screen
        /\ HelloMessage(w) = HelloMessage(v)
    BY <1>3 DEF Resumes, Keeps, Idle, HelloMessage
  <2>2. ViewHonest(w, a, p)
    BY <1>1, <2>1 DEF ViewHonest
  <2>3. m.seq # None
    BY DEF Ready, Sequence, None
  <2>4. v.owes = NoSocket
    BY <1>1, <1>3, <2>3 DEF ScreenInv
  <2>5. Engaged(w) /\ ~Resetting(w)
    BY <2>1 DEF Engaged, Resetting
  <2>6. ScreenInv(w, t, Tail(d))
    BY <1>1, <2>1, <2>4, <2>5 DEF ScreenInv
  <2>. QED
    BY <2>2, <2>6 DEF Worth
<1>. QED
  BY <1>2, <1>3

\* More that is parsed serves every frame.
LEMMA ParsingServes ==
  ASSUME NEW a, NEW p, NEW p2, p \subseteq p2
  PROVE  /\ \A f : FrameHonest(f, a, p) => FrameHonest(f, a, p2)
         /\ \A c : ChunkHonest(c, a, p) => ChunkHonest(c, a, p2)
         /\ \A s : DoneUpTo(s, a, p) => DoneUpTo(s, a, p2)
BY DEF FrameHonest, ChunkHonest, DoneUpTo

\* The end of a reset, up to drain: the client is owed a snapshot.
LEMMA ResetDoneWorth ==
  ASSUME NEW v \in View, v.writing.kind = "reset",
         v.state \in {"none", "connecting"} => v.writing.socket # v.socket,
         NEW t, NEW d, NEW u, NEW n, Sync(v, t, d, u, n),
         NEW a, NEW p, Worth(v, t, d, a, p), NEW z, Rewound(v, z)
  PROVE  Worth(z, t, d, a, p)
<1>1. ViewHonest(v, a, p) /\ ScreenInv(v, t, d) /\ WriterInv(v)
  BY DEF Worth, Sync
<1>2. v.writing.socket \in Sockets /\ v.writing # Idle /\ v.writing.socket # NoSocket
  BY WritingFields, ClientAssumption
<1>3. v.state \in {"none", "connecting", "open"} /\ ~v.ready
  BY <1>1, <1>2, ViewFields DEF WriterInv
<1>4. /\ z.writing = Idle /\ z.writing.kind = "idle" /\ z.owes # NoSocket
      /\ z.frames = v.frames /\ z.state = v.state /\ z.socket = v.socket
      /\ z.helloDue = v.helloDue
  BY <1>2 DEF Rewound, Idle
<1>5. z.ready => v.state = "open" /\ Resetting(v)
  BY <1>3 DEF Rewound, Resetting
<1>6. ViewHonest(z, a, p)
  BY <1>1, <1>4 DEF ViewHonest
<1>7. ~Resetting(z)
  BY <1>4 DEF Resetting
<1>8. z.ready => SnapshotNext(z.frames, d, t)
  BY <1>1, <1>4, <1>5 DEF ScreenInv
<1>9. z.state = "open" /\ ~Engaged(z) => z.helloDue
  <2>1. ~z.ready => ~Resetting(v)
    BY DEF Rewound, Resetting
  <2>2. ~z.ready => ~Engaged(v)
    BY <1>3, <2>1 DEF Engaged
  <2>3. v.state = "open" /\ ~z.ready => v.helloDue
    BY <1>2, <2>2, ViewFields DEF Sync, Handshake, Waits
  <2>. QED
    BY <1>4, <2>3 DEF Engaged
<1>10. z.state = "open" /\ Greeted(d) /\ d[1].reset => SnapshotNext(<<>>, Tail(d), t)
  BY <1>1, <1>4 DEF ScreenInv
<1>11. ScreenInv(z, t, d)
  BY <1>4, <1>7, <1>8, <1>9, <1>10 DEF ScreenInv
<1>. QED
  BY <1>6, <1>11 DEF Worth

\* The end of an output write, up to drain: the client is owed no snapshot
\* and has parsed all the queries up to where it stands.
LEMMA OutputDoneWorth ==
  ASSUME NEW v \in View, v.writing.kind = "output",
         NEW t, NEW d, NEW u, NEW n, Sync(v, t, d, u, n),
         NEW a \in SUBSET Nat, NEW p, Worth(v, t, d, a, p), NEW z, Wrote(v, z),
         NEW p2, p2 = p \cup QueriesIn(v.writing.frame.payload)
  PROVE  Worth(z, t, d, a, p2)
<1>. DEFINE f == v.writing.frame
<1>1. ViewHonest(v, a, p) /\ ScreenInv(v, t, d)
  BY DEF Worth
<1>2. f \in Frame /\ f.first \in Nat /\ f.end \in Nat
  BY WritingFields, FrameFields
<1>3. v.last # None /\ f.first = v.last + 1 /\ v.last \in Nat
  BY ViewFields DEF Sync, WriterInv, Resume, Sequence
<1>4. IF v.owes = NoSocket THEN v.screen = v.last ELSE f.payload[1].snapshot
  BY <1>1 DEF ScreenInv
<1>5. /\ z.writing = Idle /\ z.writing.kind = "idle" /\ z.owes = NoSocket
      /\ z.frames = v.frames /\ z.state = v.state /\ z.screen = f.end
      /\ z.last = IF v.requiresReset THEN None ELSE f.end
      /\ z.requiresReset = v.requiresReset
  <2>1. z.writing = Idle /\ Idle.kind = "idle"
    BY DEF Wrote, Idle
  <2>2. z.owes = NoSocket
    BY <1>4 DEF Wrote
  <2>3. Parsed(v.screen, f) = f.end
    BY <1>3, <1>4 DEF Parsed
  <2>. QED
    BY <2>1, <2>2, <2>3 DEF Wrote
<1>6. FrameHonest(f, a, p)
  BY <1>1 DEF ViewHonest
<1>. HIDE DEF f
<1>7. DoneUpTo(f.end, a, p2)
  <2>. SUFFICES ASSUME NEW q \in a, q <= f.end PROVE q \in p2
    BY DEF DoneUpTo
  <2>1. q \in Nat
    OBVIOUS
  <2>2. CASE f.first <= q \/ f.payload[1].snapshot
    BY <1>6, <2>2 DEF FrameHonest, f
  <2>3. CASE ~(f.first <= q \/ f.payload[1].snapshot)
    <3>1. q <= v.last
      BY <1>2, <1>3, <2>1, <2>3
    <3>2. DoneUpTo(v.last, a, p)
      BY <1>1, <1>3, <1>4, <2>3 DEF ViewHonest
    <3>. QED
      BY <3>1, <3>2 DEF DoneUpTo
  <2>. QED
    BY <2>2, <2>3
<1>8. ViewHonest(z, a, p2)
  <2>1. \A i \in 1 .. Len(z.frames) : FrameHonest(z.frames[i], a, p2)
    BY <1>1, <1>5, ParsingServes DEF ViewHonest
  <2>. QED
    BY <1>5, <1>7, <2>1 DEF ViewHonest
<1>9. ScreenInv(z, t, d)
  <2>1. HelloMessage(z).last # None => z.screen = z.last
    BY <1>5 DEF HelloMessage
  <2>2. z.state = "open" /\ Greeted(d) /\ d[1].reset => SnapshotNext(<<>>, Tail(d), t)
    BY <1>1, <1>5 DEF ScreenInv
  <2>3. ~Resetting(z)
    BY <1>5 DEF Resetting
  <2>. QED
    BY <1>5, <2>1, <2>2, <2>3 DEF ScreenInv
<1>. QED
  BY <1>8, <1>9 DEF Worth

\* Saying hello changes nothing, provided that it does not promise a screen
\* which has only been reset.
LEMMA HelloWorth ==
  ASSUME NEW w \in View, NEW x, x = [w EXCEPT !.helloDue = FALSE],
         w.helloDue /\ w.owes # NoSocket => HelloMessage(w).last = None,
         NEW t, NEW d, NEW a, NEW p, Worth(w, t, d, a, p)
  PROVE  Worth(x, t, d, a, p)
<1>1. /\ x.helloDue = FALSE
      /\ x.socket = w.socket /\ x.state = w.state /\ x.last = w.last /\ x.ready = w.ready
      /\ x.requiresReset = w.requiresReset /\ x.writing = w.writing /\ x.screen = w.screen
      /\ x.frames = w.frames /\ x.owes = w.owes /\ HelloMessage(x) = HelloMessage(w)
  <2>. HIDE DEF Frame, Sequence
  <2>. QED
    BY DEF View, HelloMessage
<1>2. ViewHonest(w, a, p) /\ ScreenInv(w, t, d)
  BY DEF Worth
<1>3. ViewHonest(x, a, p)
  BY <1>1, <1>2 DEF ViewHonest
<1>4. (Engaged(x) <=> Engaged(w)) /\ (Resetting(x) <=> Resetting(w))
  BY <1>1 DEF Engaged, Resetting
<1>5. w.helloDue \in BOOLEAN
  BY ViewFields
<1>6. x.state = "open" /\ ~Engaged(x) /\ x.owes # NoSocket => HelloMessage(x).last = None
  BY <1>1, <1>2, <1>4, <1>5 DEF ScreenInv
<1>7. ScreenInv(x, t, d)
  BY <1>1, <1>2, <1>4, <1>6 DEF ScreenInv
<1>. QED
  BY <1>3, <1>7 DEF Worth

\* The end of a write.
LEMMA WriteDoneWorth ==
  ASSUME NEW v \in View, v.writing # Idle, v.state # "none" => v.socket \in Sockets,
         v.state \in {"none", "connecting"} => v.writing.socket # v.socket,
         NEW t, NEW d, NEW u, NEW n \in Nat, Sync(v, t, d, u, n),
         NEW z \in View, v.writing.kind = "reset" => Rewound(v, z),
         v.writing.kind = "output" => Wrote(v, z), NEW w \in Drain(z),
         v.helloDue /\ w.owes # NoSocket => HelloMessage(w).last = None,
         NEW x, x = [w EXCEPT !.helloDue = FALSE],
         NEW a \in SUBSET Nat, NEW p, Worth(v, t, d, a, p),
         NEW p2, p2 = p \cup IF v.writing.kind = "output"
                               THEN QueriesIn(v.writing.frame.payload) ELSE {}
  PROVE  Worth(x, t, d, a, p2)
<1>1. v.writing.kind \in {"reset", "output"}
  BY WritingFields
<1>2. Worth(z, t, d, a, p2)
  <2>1. CASE v.writing.kind = "reset"
    <3>1. p2 = p
      BY <2>1
    <3>. QED
      BY <2>1, <3>1, ResetDoneWorth
  <2>2. CASE v.writing.kind = "output"
    BY <2>2, OutputDoneWorth
  <2>. QED
    BY <1>1, <2>1, <2>2
<1>3. w \in View /\ Worth(w, t, d, a, p2) /\ w.helloDue = z.helloDue
  <2>1. CASE v.state = "open" /\ Engaged(v)
    <3>1. Sync(z, t, d, u, n) /\ (z.ready => z.socket \in Sockets)
      BY <1>1, <2>1, ResetDoneSync, OutputDoneSync DEF Wrote
    <3>2. WriterInv(z)
      BY <3>1 DEF Sync
    <3>3. w = z \/ Writes(z, w, Head(z.frames)) \/ Fails(z, w)
      BY <3>1, DrainCases
    <3>4. w.helloDue = z.helloDue
      BY <3>3 DEF Writes, Fails, Keeps
    <3>. QED
      BY <1>2, <3>1, <3>2, <3>4, DrainCases, DrainWorth
  <2>2. CASE ~(v.state = "open" /\ Engaged(v))
    BY <1>2, <2>2, IdleDoneSync
  <2>. QED
    BY <2>1, <2>2
<1>4. z.helloDue = v.helloDue
  BY <1>1 DEF Rewound, Wrote
<1>. QED
  BY <1>3, <1>4, HelloWorth

\* Opening.
LEMMA OpenWorth ==
  ASSUME NEW v \in View, v.state = "connecting", WriterInv(v),
         v.writing # Idle => v.writing.socket # v.socket,
         v.writing = Idle /\ v.owes # NoSocket => HelloMessage(v).last = None,
         NEW t, NEW t2, NEW d, d = <<>>, NEW a, NEW p, Worth(v, t, d, a, p),
         NEW w, w = [[v EXCEPT !.state = "open"] EXCEPT !.helloDue = v.writing # Idle]
  PROVE  Worth(w, t2, d, a, p)
<1>1. /\ w.state = "open" /\ w.helloDue = (v.writing # Idle)
      /\ w.socket = v.socket /\ w.last = v.last /\ w.ready = v.ready /\ w.owes = v.owes
      /\ w.requiresReset = v.requiresReset /\ w.writing = v.writing /\ w.screen = v.screen
      /\ w.frames = v.frames /\ HelloMessage(w) = HelloMessage(v)
  <2>. HIDE DEF Frame, Sequence
  <2>. QED
    BY DEF View, HelloMessage
<1>2. ViewHonest(v, a, p) /\ ScreenInv(v, t, d)
  BY DEF Worth
<1>3. ViewHonest(w, a, p)
  BY <1>1, <1>2 DEF ViewHonest
<1>4. ~w.ready /\ ~Resetting(w) /\ ~Greeted(d)
  BY <1>1 DEF WriterInv, Resetting, Greeted, Idle
<1>5. ScreenInv(w, t2, d)
  BY <1>1, <1>2, <1>4 DEF ScreenInv
<1>. QED
  BY <1>3, <1>5 DEF Worth

\* Taking a new socket, or none.
LEMMA LeaveWorth ==
  ASSUME NEW v \in View, NEW t, NEW d, NEW a, NEW p, Worth(v, t, d, a, p),
         NEW w \in {End(v)} \cup {Begin(v, k) : k \in Sockets}, NEW t2, NEW d2
  PROVE  Worth(w, t2, d2, a, p)
<1>1. /\ w.state \in {"none", "connecting"} /\ w.ready = FALSE /\ w.frames = <<>>
      /\ w.last = v.last /\ w.owes = v.owes /\ w.screen = v.screen
      /\ w.requiresReset = v.requiresReset /\ w.writing = v.writing
  <2>. HIDE DEF Frame, Sequence
  <2>1. CASE w = End(v)
    BY <2>1 DEF View, End
  <2>2. ASSUME NEW k \in Sockets, w = Begin(v, k)
        PROVE  /\ w.state = "connecting" /\ w.ready = FALSE /\ w.frames = <<>>
               /\ w.last = v.last /\ w.owes = v.owes /\ w.screen = v.screen
               /\ w.requiresReset = v.requiresReset /\ w.writing = v.writing
    BY <2>2 DEF View, Begin
  <2>. QED
    BY <2>1, <2>2
<1>2. ViewHonest(v, a, p) /\ ScreenInv(v, t, d) /\ HelloMessage(w) = HelloMessage(v)
  BY <1>1 DEF Worth, HelloMessage
<1>3. ViewHonest(w, a, p)
  BY <1>1, <1>2 DEF ViewHonest
<1>4. ScreenInv(w, t2, d2)
  BY <1>1, <1>2 DEF ScreenInv
<1>. QED
  BY <1>3, <1>4 DEF Worth

-----------------------------------------------------------------------------
(***************************************************************************)
(* What a step of the task means for the screen of its client.             *)
(***************************************************************************)

\* A task that has its first chunk before and after a step.
KeepsFront(t, t2) ==
  t2.phase = "live" =>
    /\ t.phase = "live"
    /\ t.pending # <<>> => t2.pending # <<>> /\ t2.pending[1] = t.pending[1]

LEMMA QuietWorth ==
  ASSUME NEW v, NEW t, NEW t2, NEW d, NEW a, NEW p, Worth(v, t, d, a, p), KeepsFront(t, t2)
  PROVE  Worth(v, t2, d, a, p)
<1>1. \A fs, ms : SnapshotNext(fs, ms, t) => SnapshotNext(fs, ms, t2)
  BY DEF SnapshotNext, KeepsFront
<1>. QED
  BY <1>1 DEF Worth, ScreenInv

LEMMA GreetWorth ==
  ASSUME NEW v \in View, NEW t, t.phase = "hello", NEW t2, NEW d, d = <<>>, NEW u, NEW n,
         Sync(v, t, d, u, n), NEW m \in Ready,
         m.reset => t2.pending # <<>> /\ t2.pending[1].snapshot,
         NEW a, NEW p, Worth(v, t, d, a, p)
  PROVE  Worth(v, t2, <<m>>, a, p)
<1>1. ViewHonest(v, a, p) /\ ScreenInv(v, t, d)
  BY DEF Worth
<1>2. v.state = "open" => ~Engaged(v)
  BY DEF Sync, Handshake, Follows
<1>3. v.ready => v.state = "open"
  BY ViewFields DEF Sync, WriterInv
<1>4. m.reset => SnapshotNext(<<>>, Tail(<<m>>), t2)
  <2>1. Tail(<<m>>) = <<>>
    OBVIOUS
  <2>. QED
    BY <2>1 DEF SnapshotNext
<1>5. ScreenInv(v, t2, <<m>>)
  BY <1>1, <1>2, <1>3, <1>4 DEF ScreenInv, Engaged
<1>. QED
  BY <1>1, <1>5 DEF Worth

LEMMA SendWorth ==
  ASSUME NEW v, NEW t, t.phase = "live", t.pending # <<>>, NEW t2,
         NEW d \in Seq(Ready \cup Frame), NEW f \in Frame, f.payload[1] = t.pending[1],
         NEW a, NEW p, Worth(v, t, d, a, p)
  PROVE  Worth(v, t2, Append(d, f), a, p)
<1>. DEFINE d2 == Append(d, f)
            len == Len(d)
<1>1. /\ d2 \in Seq(Ready \cup Frame) /\ d2 # <<>>
      /\ Len(d2) = len + 1 /\ len \in Nat
      /\ \A i \in 1 .. len : d2[i] = d[i]
      /\ d2[len + 1] = f
      /\ d = <<>> => len = 0
      /\ d # <<>> => len \in Nat \ {0}
  <2>1. f \in Ready \cup Frame
    OBVIOUS
  <2>. QED
    BY <2>1, AppendProperties, EmptySeq
<1>2. Head(d2) = d2[1] /\ (d # <<>> => Head(d) = d[1])
  BY <1>1
<1>3. d # <<>> => Tail(d2) = Append(Tail(d), f)
  OBVIOUS
<1>4. d # <<>> => /\ Tail(d2) # <<>>
                  /\ Tail(d) # <<>> => Tail(d2)[1] = Tail(d)[1]
                  /\ Tail(d) = <<>> => Tail(d2)[1] = f
  <2>. SUFFICES ASSUME d # <<>>
                PROVE  /\ Tail(d2) # <<>>
                       /\ Tail(d) # <<>> => Tail(d2)[1] = Tail(d)[1]
                       /\ Tail(d) = <<>> => Tail(d2)[1] = f
    OBVIOUS
  <2>. DEFINE e == Tail(d)
  <2>1. e \in Seq(Ready \cup Frame) /\ f \in Ready \cup Frame
    BY HeadTailProperties
  <2>. HIDE DEF e
  <2>2. /\ Append(e, f) # <<>>
        /\ e # <<>> => Append(e, f)[1] = e[1]
        /\ e = <<>> => Append(e, f)[1] = f
    <3>. DEFINE l == Len(e)
    <3>1. /\ Len(Append(e, f)) = l + 1 /\ l \in Nat
          /\ \A i \in 1 .. l : Append(e, f)[i] = e[i]
          /\ Append(e, f)[l + 1] = f /\ Append(e, f) # <<>>
      BY <2>1, AppendProperties
    <3>2. (e = <<>> => l = 0) /\ (e # <<>> => l # 0)
      BY <2>1, EmptySeq
    <3>. HIDE DEF l
    <3>. QED
      BY <3>1, <3>2
  <2>. QED
    BY <1>3, <2>2 DEF e
<1>. HIDE DEF d2, len
<1>5. d2[1] = IF d = <<>> THEN f ELSE d[1]
  BY <1>1
<1>6. \A fs : SnapshotNext(fs, d, t) => SnapshotNext(fs, d2, t2)
  BY <1>1, <1>5 DEF SnapshotNext
<1>7. Greeted(d2) => Greeted(d)
  BY <1>2, <1>5, FrameFields DEF Greeted
<1>8. Greeted(d) /\ SnapshotNext(<<>>, Tail(d), t) => SnapshotNext(<<>>, Tail(d2), t2)
  BY <1>4 DEF SnapshotNext, Greeted
<1>9. Greeted(d2) /\ d2[1].reset => Greeted(d) /\ d[1].reset
  BY <1>5, <1>7 DEF Greeted
<1>10. ViewHonest(v, a, p) /\ ScreenInv(v, t, d)
  BY DEF Worth
<1>11. ScreenInv(v, t2, d2)
  BY <1>6, <1>8, <1>9, <1>10 DEF ScreenInv
<1>. QED
  BY <1>10, <1>11 DEF Worth, d2

\* Queries asked from now on are none of a client's business yet.
LEMMA AskingWorth ==
  ASSUME NEW v \in View, NEW n \in Nat, ViewBounds(v, n),
         NEW a \in SUBSET Nat, NEW a2 \in SUBSET Nat, \A q \in a2 : q <= n => q \in a,
         NEW p, NEW t, NEW d, Worth(v, t, d, a, p)
  PROVE  Worth(v, t, d, a2, p)
<1>1. \A f \in Frame : Produced(f, n) /\ FrameHonest(f, a, p) => FrameHonest(f, a2, p)
  <2>. SUFFICES ASSUME NEW f \in Frame, Produced(f, n), FrameHonest(f, a, p),
                       NEW q \in a2, q <= f.end
                PROVE  q \in a
    BY DEF FrameHonest
  <2>1. f.end \in Nat /\ f.end <= n /\ q \in Nat
    BY FrameFields DEF Produced
  <2>. QED
    BY <2>1
<1>2. \A i \in 1 .. Len(v.frames) : v.frames[i] \in Frame
  BY ViewFields, ElementOfSeq
<1>3. v.writing.kind = "output" => v.writing.frame \in Frame
  BY WritingFields
<1>4. v.last \in Int /\ v.last <= n
  BY ViewFields DEF ViewBounds, Resume, Sequence, None
<1>5. DoneUpTo(v.last, a, p) => DoneUpTo(v.last, a2, p)
  <2>. SUFFICES ASSUME NEW q \in a2, q <= v.last PROVE q \in a
    BY DEF DoneUpTo
  <2>1. q \in Nat
    OBVIOUS
  <2>. QED
    BY <1>4, <2>1
<1>6. ViewHonest(v, a2, p)
  BY <1>1, <1>2, <1>3, <1>5 DEF Worth, ViewHonest, ViewBounds
<1>. QED
  BY <1>6 DEF Worth

-----------------------------------------------------------------------------
(***************************************************************************)
(* What a step of the task is.                                             *)
(***************************************************************************)

\* The task reads a message, queues output, or ends.
Quiet(t, t2, u, u2) ==
  /\ Among(u2, u)
  /\ t2.phase = t.phase \/ t2.phase = "closed"
  /\ t2.phase = "live" => Lag(t2) = Lag(t)
  /\ KeepsFront(t, t2)

AllHonest(chunks, a, p) == \A i \in 1 .. Len(chunks) : ChunkHonest(chunks[i], a, p)

\* What it queues brings its queries.
Queues(t, t2, a) ==
  \A p : AllHonest(t.pending, a, p) /\ t2.phase = "live" => AllHonest(t2.pending, a, p)

LEMMA LiveChunkHonest ==
  ASSUME NEW s, NEW p
  PROVE  ChunkHonest(LiveChunk(s), queryChunks, p)
BY DEF ChunkHonest, LiveChunk

LEMMA CloseQuiet ==
  ASSUME TypeOK, NEW k \in Sockets, Close(k)
  PROVE  /\ Quiet(conn[k], conn'[k], up[k], up'[k])
         /\ Queues(conn[k], conn'[k], queryChunks)
         /\ \A j \in Sockets \ {k} : up'[j] = up[j]
         /\ up'[k] = <<>> /\ conn'[k].phase = "closed"
<1>1. conn'[k].phase = "closed" /\ up'[k] = <<>>
  BY DEF Close, Fresh, TypeOK, DeliveryTypeOK
<1>2. \A j \in Sockets \ {k} : up'[j] = up[j]
  BY DEF Close, TypeOK, DeliveryTypeOK
<1>3. Among(<<>>, up[k])
  BY DEF Among
<1>. QED
  BY <1>1, <1>2, <1>3 DEF Quiet, Queues, KeepsFront

LEMMA ConsumeQuiet ==
  ASSUME TypeOK, NEW k \in Sockets, up[k] # <<>>, Consume(k)
  PROVE  /\ Among(up'[k], up[k])
         /\ \A j \in Sockets \ {k} : up'[j] = up[j]
         /\ 1 \in 1 .. Len(up[k]) /\ Head(up[k]) = up[k][1]
<1>1. up'[k] = Tail(up[k]) /\ \A j \in Sockets \ {k} : up'[j] = up[j]
  BY DEF Consume, TypeOK, DeliveryTypeOK
<1>2. up[k] \in Seq(UpMessage)
  BY DEF TypeOK, DeliveryTypeOK
<1>. DEFINE u == up[k]
            u2 == up'[k]
            len == Len(u)
<1>3. len \in Nat \ {0}
  BY <1>2, EmptySeq
<1>4. Len(u2) = len - 1 /\ \A i \in 1 .. len - 1 : u2[i] = u[i + 1]
  BY <1>1, <1>2, HeadTailProperties
<1>5. Head(u) = u[1]
  BY <1>2
<1>. HIDE DEF u, u2, len
<1>6. \A i \in 1 .. len - 1 : i + 1 \in 1 .. len
  BY <1>3
<1>7. 1 \in 1 .. len
  BY <1>3
<1>8. \A i \in 1 .. Len(u2) : \E j \in 1 .. len : u2[i] = u[j]
  BY <1>3, <1>4, <1>6
<1>. QED
  BY <1>1, <1>5, <1>7, <1>8 DEF Among, u, u2, len

LEMMA ReceiveOutputQuiet ==
  ASSUME TypeOK, NEW k \in Sockets, SocketInv(k), ReceiveOutput(k)
  PROVE  /\ Quiet(conn[k], conn'[k], up[k], up'[k])
         /\ Queues(conn[k], conn'[k], queryChunks)
         /\ \A j \in Sockets \ {k} : up'[j] = up[j]
<1>. DEFINE s == conn[k].rx + 1
            pending == conn[k].pending
            len == Len(pending)
            both == Append(pending, LiveChunk(s))
<1>1. /\ pending \in Seq(Chunk) /\ len \in Nat
      /\ conn[k].lastQueued \in Nat /\ conn[k].rx \in Nat
  BY SocketType
<1>2. conn[k].phase = "live" /\ conn[k].rx <= conn[k].lastQueued
  BY LiveInv DEF ReceiveOutput, Selecting, Live
<1>3. CASE Close(k)
  BY <1>3, CloseQuiet
<1>4. ASSUME up' = up PROVE Among(up'[k], up[k]) /\ \A j \in Sockets \ {k} : up'[j] = up[j]
  BY <1>4 DEF Among
<1>5. CASE s <= conn[k].lastQueued /\ conn' = [conn EXCEPT ![k].rx = s] /\ UNCHANGED up
  <2>. HIDE DEF s, pending
  <2>1. /\ conn'[k].pending = conn[k].pending
        /\ conn'[k].lastQueued = conn[k].lastQueued
        /\ conn'[k].phase = conn[k].phase
    BY <1>5 DEF TypeOK, DeliveryTypeOK, Connection
  <2>. QED
    BY <1>4, <1>5, <2>1 DEF Quiet, Queues, KeepsFront, Lag
<1>6. CASE /\ s > conn[k].lastQueued
           /\ conn' = [conn EXCEPT ![k].rx = s, ![k].lastQueued = s,
                         ![k].pending = Append(@, LiveChunk(s))]
           /\ UNCHANGED up
  <2>1. s = conn[k].lastQueued + 1 /\ s \in Nat
    BY <1>1, <1>2, <1>6
  <2>2. LiveChunk(s) \in Chunk
    BY <2>1 DEF LiveChunk, Chunk, Sequence
  <2>. HIDE DEF s
  <2>3. /\ Len(both) = len + 1
        /\ \A i \in 1 .. len : both[i] = pending[i]
        /\ both[len + 1] = LiveChunk(s)
        /\ both # <<>> /\ (pending # <<>> => len # 0)
    BY <1>1, <2>2, AppendProperties, EmptySeq
  <2>4. /\ conn'[k].pending = both
        /\ conn'[k].lastQueued = s
        /\ conn'[k].phase = conn[k].phase
    BY <1>6 DEF TypeOK, DeliveryTypeOK, Connection
  <2>. HIDE DEF both
  <2>5. pending # <<>> => both[1] = pending[1]
    BY <1>1, <2>3
  <2>6. Lag(conn'[k]) = Lag(conn[k])
    <3>1. Lag(conn'[k]) = s - (len + 1)
      BY <2>3, <2>4 DEF Lag
    <3>2. Lag(conn[k]) = conn[k].lastQueued - len
      BY DEF Lag
    <3>. QED
      BY <1>1, <2>1, <3>1, <3>2
  <2>7. \A p : AllHonest(pending, queryChunks, p) => AllHonest(both, queryChunks, p)
    <3>. SUFFICES ASSUME NEW p, AllHonest(pending, queryChunks, p), NEW i \in 1 .. len + 1
                  PROVE  ChunkHonest(both[i], queryChunks, p)
      BY <2>3 DEF AllHonest
    <3>1. CASE i \in 1 .. len
      BY <2>3, <3>1 DEF AllHonest
    <3>2. CASE i = len + 1
      BY <2>3, <3>2, LiveChunkHonest
    <3>. QED
      BY <1>1, <3>1, <3>2
  <2>8. Quiet(conn[k], conn'[k], up[k], up'[k])
    BY <1>2, <1>4, <1>6, <2>3, <2>4, <2>5, <2>6 DEF Quiet, KeepsFront
  <2>9. Queues(conn[k], conn'[k], queryChunks)
    BY <2>4, <2>7 DEF Queues
  <2>. QED
    BY <1>4, <1>6, <2>8, <2>9
<1>. QED
  BY <1>3, <1>5, <1>6 DEF ReceiveOutput

\* What a replay queues brings all queries that some client has yet to parse.
LEMMA ReplayHonest ==
  ASSUME SessionTypeOK, NEW last \in Resume, NEW p,
         CanResume(last) \/ queryChunks \ pendingQueries \subseteq p
  PROVE  AllHonest(Replay(last).outputs, queryChunks, p)
<1>. USE DEF SessionTypeOK, Sequence, Resume, None
<1>1. CASE CanResume(last)
  <2>. DEFINE n == next - last
              outputs == [i \in 1 .. n |-> LiveChunk(last + i)]
  <2>1. last \in Nat /\ n \in Nat
    BY <1>1 DEF CanResume
  <2>2. Replay(last).outputs = outputs /\ Len(outputs) = n
    <3>1. RetainedAfter(last) = outputs
      BY <1>1 DEF RetainedAfter, CanResume
    <3>. QED
      BY <1>1, <2>1, <3>1 DEF Replay
  <2>. HIDE DEF n
  <2>3. \A i \in 1 .. n : outputs[i] = LiveChunk(last + i)
    OBVIOUS
  <2>. HIDE DEF outputs
  <2>. QED
    BY <2>2, <2>3, LiveChunkHonest DEF AllHonest
<1>2. CASE ~CanResume(last)
  <2>1. Replay(last).outputs = <<SnapshotChunk(next + 1)>>
    BY <1>2 DEF Replay
  <2>2. ChunkHonest(SnapshotChunk(next + 1), queryChunks, p)
    BY <1>2 DEF ChunkHonest, SnapshotChunk
  <2>. QED
    BY <2>1, <2>2 DEF AllHonest
<1>. QED
  BY <1>1, <1>2

LEMMA ReceiveLaggedQuiet ==
  ASSUME TypeOK, NEW k \in Sockets, SocketInv(k), ReceiveLagged(k)
  PROVE  /\ Quiet(conn[k], conn'[k], up[k], up'[k])
         /\ Queues(conn[k], conn'[k], queryChunks)
         /\ \A j \in Sockets \ {k} : up'[j] = up[j]
<1>. DEFINE last == conn[k].lastQueued
            outputs == Replay(last).outputs
            pending == conn[k].pending
            both == pending \o outputs
            len == Len(pending)
            more == Len(outputs)
<1>1. pending \in Seq(Chunk) /\ len \in Nat /\ last \in Nat
  BY SocketType
<1>2. conn[k].phase = "live"
  BY DEF ReceiveLagged, Selecting
<1>3. CASE Close(k)
  BY <1>3, CloseQuiet
<1>4. CASE /\ CanResume(last)
           /\ \E oldest \in conn[k].rx + 1 .. next - ChannelCap :
                conn' = [conn EXCEPT ![k].rx = oldest,
                           ![k].lastQueued = next, ![k].pending = @ \o outputs]
           /\ UNCHANGED up
  <2>0. PICK oldest \in conn[k].rx + 1 .. next - ChannelCap :
          conn' = [conn EXCEPT ![k].rx = oldest,
                     ![k].lastQueued = next, ![k].pending = @ \o outputs]
    BY <1>4
  <2>1. last \in Resume /\ SessionTypeOK
    BY <1>1 DEF Resume, Sequence, TypeOK
  <2>2. \A p : AllHonest(outputs, queryChunks, p)
    BY <1>4, <2>1, ReplayHonest
  <2>3. outputs \in Seq(Chunk) /\ more \in Nat /\ last + more = next
    <3>1. Replay(last).base = last
      BY <1>4 DEF Replay
    <3>2. outputs \in Seq(Chunk) /\ last + more = next
      BY <1>4, <2>1, <3>1, ReplayContiguous
    <3>. QED
      BY <3>2
  <2>. HIDE DEF outputs
  <2>4. /\ conn'[k].pending = both
        /\ conn'[k].lastQueued = next
        /\ conn'[k].phase = conn[k].phase
    BY <2>0 DEF TypeOK, DeliveryTypeOK, Connection
  <2>5. /\ Len(both) = len + more
        /\ \A i \in 1 .. len + more : both[i] = IF i <= len THEN pending[i] ELSE outputs[i - len]
    BY <1>1, <2>3, ConcatProperties
  <2>6. pending # <<>> => len \in Nat \ {0} /\ both # <<>>
    BY <1>1, <2>3, EmptySeq
  <2>. HIDE DEF both, len, more, last
  <2>7. pending # <<>> => both[1] = pending[1]
    <3>1. pending # <<>> => 1 \in 1 .. len + more /\ 1 <= len
      BY <2>3, <2>6
    <3>. QED
      BY <2>5, <3>1
  <2>8. Lag(conn'[k]) = Lag(conn[k])
    <3>1. Lag(conn'[k]) = next - (len + more)
      BY <2>4, <2>5 DEF Lag
    <3>2. Lag(conn[k]) = last - len
      BY DEF Lag, last, len
    <3>. QED
      BY <1>1, <2>3, <3>1, <3>2
  <2>9. \A p : AllHonest(pending, queryChunks, p) => AllHonest(both, queryChunks, p)
    <3>. SUFFICES ASSUME NEW p, AllHonest(pending, queryChunks, p), NEW i \in 1 .. len + more
                  PROVE  ChunkHonest(both[i], queryChunks, p)
      BY <2>5 DEF AllHonest
    <3>1. CASE i <= len
      <4>1. i \in 1 .. len
        BY <1>1, <3>1
      <4>. QED
        BY <2>5, <3>1, <4>1 DEF AllHonest, len
    <3>2. CASE ~(i <= len)
      <4>1. i - len \in 1 .. more
        BY <1>1, <2>3, <3>2
      <4>2. ChunkHonest(outputs[i - len], queryChunks, p)
        BY <2>2, <4>1 DEF AllHonest, more
      <4>. QED
        BY <2>5, <3>2, <4>2
    <3>. QED
      BY <3>1, <3>2
  <2>10. Among(up'[k], up[k]) /\ \A j \in Sockets \ {k} : up'[j] = up[j]
    BY <1>4 DEF Among
  <2>11. Quiet(conn[k], conn'[k], up[k], up'[k])
    BY <1>2, <2>4, <2>6, <2>7, <2>8, <2>10 DEF Quiet, KeepsFront
  <2>12. Queues(conn[k], conn'[k], queryChunks)
    BY <2>4, <2>9 DEF Queues
  <2>. QED
    BY <2>10, <2>11, <2>12
<1>. QED
  BY <1>3, <1>4 DEF ReceiveLagged

\* The actions that only read a message or end the task.
LEMMA OtherTaskQuiet ==
  ASSUME TypeOK, NEW k \in Sockets,
         \/ ReceiveAck(k) \/ IgnoreMessage(k) \/ HelloTimeout(k)
         \/ ReceiveAnswer(k) \/ DetectLoss(k)
  PROVE  /\ Quiet(conn[k], conn'[k], up[k], up'[k])
         /\ Queues(conn[k], conn'[k], queryChunks)
         /\ \A j \in Sockets \ {k} : up'[j] = up[j]
<1>1. ASSUME up[k] # <<>>, Consume(k), conn'[k].phase = conn[k].phase,
             conn'[k].lastQueued = conn[k].lastQueued, conn'[k].pending = conn[k].pending
      PROVE  /\ Quiet(conn[k], conn'[k], up[k], up'[k])
             /\ Queues(conn[k], conn'[k], queryChunks)
             /\ \A j \in Sockets \ {k} : up'[j] = up[j]
  BY <1>1, ConsumeQuiet DEF Quiet, Queues, KeepsFront, Lag
<1>2. CASE ReceiveAck(k)
  <2>1. /\ conn'[k].phase = conn[k].phase
        /\ conn'[k].lastQueued = conn[k].lastQueued
        /\ conn'[k].pending = conn[k].pending
    <3>. DEFINE sent == conn[k].sent
                seq == Head(up[k]).seq
    <3>1. CASE conn' = conn
      BY <3>1
    <3>2. CASE \E n \in 0 .. Len(sent) :
                 conn' = [conn EXCEPT ![k].sent = SubSeq(sent, n + 1, Len(sent)),
                                      ![k].acked = seq]
      <4>1. PICK n \in 0 .. Len(sent) :
              conn' = [conn EXCEPT ![k].sent = SubSeq(sent, n + 1, Len(sent)),
                                   ![k].acked = seq]
        BY <3>2
      <4>. HIDE DEF sent, seq
      <4>. QED
        BY <4>1 DEF TypeOK, DeliveryTypeOK, Connection
    <3>. QED
      BY <1>2, <3>1, <3>2 DEF ReceiveAck
  <2>. QED
    BY <1>1, <1>2, <2>1 DEF ReceiveAck, Arrives
<1>3. CASE IgnoreMessage(k) \/ ReceiveAnswer(k)
  BY <1>1, <1>3 DEF IgnoreMessage, ReceiveAnswer, Arrives
<1>4. CASE HelloTimeout(k) \/ DetectLoss(k)
  BY <1>4, CloseQuiet DEF HelloTimeout, DetectLoss
<1>. QED
  BY <1>2, <1>3, <1>4

\* The answer to the hello.
Greets(t, t2, d, d2, u, u2, gone, n, m) ==
  /\ t.phase = "hello" /\ t2.phase = "live" /\ d = <<>>
  /\ d2 = IF gone THEN d ELSE <<m>>
  /\ 1 \in 1 .. Len(u) /\ u[1].type = "hello" /\ Among(u2, u)
  /\ IF m.reset THEN u[1].last <= n => u[1].last < m.seq ELSE u[1].last = m.seq
  /\ m.reset => t2.pending # <<>> /\ t2.pending[1].snapshot
  /\ m.seq <= n

LEMMA ReceiveHelloEffect ==
  ASSUME TypeOK, NEW k \in Sockets, SocketInv(k), first <= next + 1, ReceiveHello(k)
  PROVE  /\ \E m \in Ready :
              Greets(conn[k], conn'[k], down[k], down'[k], up[k], up'[k], k \in cut, next, m)
         /\ \A p : queryChunks \ pendingQueries \subseteq p =>
              AllHonest(conn'[k].pending, queryChunks, p)
         /\ \A j \in Sockets \ {k} : up'[j] = up[j]
<1>. DEFINE last == Head(up[k]).last
            replay == Replay(last)
            outputs == replay.outputs
            m == [type |-> "ready", reset |-> replay.reset, seq |-> replay.base]
<1>1. TypeOK /\ SessionTypeOK /\ DeliveryTypeOK /\ next \in Nat /\ first \in Nat
  BY DEF TypeOK, SessionTypeOK, Sequence
<1>2. last \in Resume
  BY <1>1, ArrivalType DEF ReceiveHello, Arrives
<1>3. m \in Ready
  BY <1>1, <1>2, ReplayContiguous DEF Ready
<1>4. /\ conn'[k].phase = "live" /\ conn'[k].pending = outputs
      /\ down' = Deliver(k, m) /\ conn[k].phase = "hello"
  BY DEF ReceiveHello, TypeOK, DeliveryTypeOK, Connection
<1>5. down[k] = <<>>
  BY <1>4 DEF SocketInv, Untouched
<1>6. /\ Among(up'[k], up[k]) /\ \A j \in Sockets \ {k} : up'[j] = up[j]
      /\ 1 \in 1 .. Len(up[k]) /\ Head(up[k]) = up[k][1] /\ up[k][1].type = "hello"
  BY ConsumeQuiet DEF ReceiveHello, Arrives
<1>7. down'[k] = IF k \in cut THEN down[k] ELSE <<m>>
  BY <1>1, <1>4, <1>5 DEF Deliver, DeliveryTypeOK
<1>8. CASE CanResume(last)
  <2>1. replay.reset = FALSE /\ replay.base = last /\ last <= next
    BY <1>8 DEF Replay, CanResume
  <2>. QED
    BY <1>1, <1>2, <1>3, <1>4, <1>5, <1>6, <1>7, <1>8, <2>1, ReplayHonest DEF Greets
<1>9. CASE ~CanResume(last)
  <2>1. replay.reset = TRUE /\ replay.base = next /\ outputs = <<SnapshotChunk(next + 1)>>
    BY <1>9 DEF Replay
  <2>2. outputs # <<>> /\ outputs[1].snapshot
    BY <2>1 DEF SnapshotChunk
  <2>3. last <= next => last < next
    BY <1>1, <1>2, <1>9 DEF CanResume, Resume, Sequence, None
  <2>4. m.reset = TRUE /\ m.seq = next /\ last = up[k][1].last
    BY <1>6, <2>1
  <2>. HIDE DEF m, outputs, last
  <2>5. Greets(conn[k], conn'[k], down[k], down'[k], up[k], up'[k], k \in cut, next, m)
    BY <1>1, <1>4, <1>5, <1>6, <1>7, <2>2, <2>3, <2>4 DEF Greets
  <2>6. \A p : queryChunks \ pendingQueries \subseteq p => AllHonest(outputs, queryChunks, p)
    BY <1>1, <1>2, ReplayHonest DEF outputs
  <2>. QED
    BY <1>3, <1>4, <1>6, <2>5, <2>6
<1>. QED
  BY <1>8, <1>9

\* A frame brings what its chunks bring.
LEMMA FrameOfHonest ==
  ASSUME NEW pending \in Seq(Chunk), NEW base \in Int, NumberedFrom(pending, base),
         NEW n \in 1 .. Len(pending), NEW a \in SUBSET Nat, NEW p, AllHonest(pending, a, p),
         NEW f \in Frame, f.first = base + 1, f.end = base + n,
         f.payload = SubSeq(pending, 1, n)
  PROVE  FrameHonest(f, a, p)
<1>. DEFINE payload == SubSeq(pending, 1, n)
            len == Len(pending)
<1>1. len \in Nat /\ n \in 1 .. len /\ n \in Nat
  OBVIOUS
<1>2. /\ DOMAIN payload = 1 .. n
      /\ \A i \in 1 .. n : payload[i] = pending[i]
  BY <1>1
<1>3. \A i \in 1 .. len : pending[i].seq = base + i /\ ChunkHonest(pending[i], a, p)
  BY DEF NumberedFrom, AllHonest
<1>. HIDE DEF payload, len
<1>4. \A i \in 1 .. n : pending[i].queries \subseteq QueriesIn(payload)
  BY <1>2 DEF QueriesIn
<1>5. 1 \in 1 .. n /\ 1 \in 1 .. len
  BY <1>1
<1>. SUFFICES ASSUME NEW q \in a, q <= f.end,
                     f.first <= q \/ f.payload[1].snapshot
              PROVE  q \in QueriesIn(payload) \cup p
  BY DEF FrameHonest, payload
<1>6. q \in Nat
  OBVIOUS
<1>7. CASE f.first <= q
  <2>. DEFINE i == q - base
  <2>1. i \in 1 .. n /\ i \in 1 .. len /\ base + i = q
    BY <1>1, <1>6, <1>7
  <2>. HIDE DEF i
  <2>2. pending[i].seq = q /\ ChunkHonest(pending[i], a, p)
    BY <1>3, <2>1
  <2>3. q \in pending[i].queries \cup p
    BY <2>2 DEF ChunkHonest
  <2>. QED
    BY <1>4, <2>1, <2>3
<1>8. CASE ~(f.first <= q)
  <2>1. pending[1].snapshot
    BY <1>2, <1>5, <1>8 DEF payload
  <2>2. q <= pending[1].seq
    BY <1>3, <1>5, <1>6, <1>8
  <2>3. q \in pending[1].queries \cup p
    BY <1>3, <1>5, <2>1, <2>2 DEF ChunkHonest
  <2>. QED
    BY <1>4, <1>5, <2>3
<1>. QED
  BY <1>7, <1>8

\* A frame: the front of the queue.
Sends(t, t2, d, d2, gone, n, a, f) ==
  /\ t.phase = "live" /\ t2.phase = "live"
  /\ t.pending # <<>> /\ f.payload[1] = t.pending[1]
  /\ f.first = Lag(t) + 1 /\ Lag(t2) = f.end
  /\ d2 = IF gone THEN d ELSE Append(d, f)
  /\ Produced(f, n)
  /\ \A p : AllHonest(t.pending, a, p) => AllHonest(t2.pending, a, p) /\ FrameHonest(f, a, p)

LEMMA SendFrameEffect ==
  ASSUME TypeOK, NEW k \in Sockets, SocketInv(k), SendFrame(k)
  PROVE  \E f \in Frame :
           Sends(conn[k], conn'[k], down[k], down'[k], k \in cut, next, queryChunks, f)
<1>. DEFINE pending == conn[k].pending
            rest(n) == SubSeq(pending, n + 1, Len(pending))
            sent(n) == [end |-> pending[n].seq, size |-> SizeOf(SubSeq(pending, 1, n))]
            frame(n) == [type |-> "frame", first |-> pending[1].seq,
                         end |-> pending[n].seq, payload |-> SubSeq(pending, 1, n)]
<1>1. /\ pending \in Seq(Chunk)
      /\ conn[k].lastQueued \in Nat
      /\ Len(pending) \in Nat
      /\ LastSent(k) \in Int
      /\ LastSent(k) = conn[k].lastQueued - Len(pending)
      /\ down[k] \in Seq(Ready \cup Frame)
      /\ next \in Nat
  BY SocketType
<1>2. conn[k].phase = "live"
  BY DEF SendFrame
<1>3. conn[k].lastQueued <= next /\ NumberedFrom(pending, LastSent(k))
  BY <1>2, LiveInv DEF Live
<1>4. PICK n \in 1 .. Len(pending) :
        /\ conn' = [conn EXCEPT ![k].pending = rest(n), ![k].sent = Append(@, sent(n))]
        /\ down' = Deliver(k, frame(n))
  BY DEF SendFrame
<1>5. queryChunks \in SUBSET Nat
  BY DEF TypeOK, SessionTypeOK, Sequence
<1>. HIDE DEF pending
<1>6. /\ Len(rest(n)) = Len(pending) - n
      /\ pending[1].seq = LastSent(k) + 1
      /\ pending[n].seq = LastSent(k) + n
  BY <1>1, <1>3, NumberedSuffix
<1>7. pending[1] \in Chunk /\ pending[n] \in Chunk /\ SubSeq(pending, 1, n) \in Seq(Chunk)
  BY <1>1, SubSeqProperties
<1>8. /\ frame(n) \in Frame /\ frame(n).first = LastSent(k) + 1
      /\ frame(n).end = LastSent(k) + n /\ frame(n).payload = SubSeq(pending, 1, n)
      /\ frame(n).type = "frame" /\ Covered(frame(n)) = LastSent(k) + n
  BY <1>6, <1>7 DEF Chunk, Frame, Covered
<1>9. /\ SubSeq(pending, 1, n) # <<>> /\ SubSeq(pending, 1, n)[1] = pending[1]
      /\ pending # <<>>
  BY <1>1
<1>10. /\ conn'[k].pending = rest(n)
       /\ conn'[k].lastQueued = conn[k].lastQueued
       /\ conn'[k].phase = conn[k].phase
  BY <1>4 DEF TypeOK, DeliveryTypeOK, Connection
<1>11. down'[k] = IF k \in cut THEN down[k] ELSE Append(down[k], frame(n))
  BY <1>4 DEF Deliver, TypeOK, DeliveryTypeOK
<1>12. \A p : AllHonest(pending, queryChunks, p) => AllHonest(rest(n), queryChunks, p)
  <2>. DEFINE len == Len(pending)
              r == rest(n)
  <2>1. /\ len \in Nat /\ n \in 1 .. len
        /\ Len(r) = len - n
    BY <1>1, <1>6
  <2>2. \A i \in 1 .. len - n : r[i] = pending[n + i]
    <3>1. \A i \in n + 1 .. len : pending[i] \in Chunk
      BY <1>1, <2>1
    <3>. HIDE DEF len
    <3>2. \A i \in 1 .. len - (n + 1) + 1 : r[i] = pending[(n + 1) + i - 1]
      BY <2>1, <3>1, SubSeqProperties DEF len
    <3>. HIDE DEF r
    <3>3. len \in Nat /\ n \in Nat
      BY <2>1
    <3>. QED
      BY <3>2, <3>3
  <2>3. \A i \in 1 .. len - n : n + i \in 1 .. len
    BY <2>1
  <2>. HIDE DEF len, r
  <2>. QED
    BY <2>1, <2>2, <2>3 DEF AllHonest, len, r
<1>13. \A p : AllHonest(pending, queryChunks, p) => FrameHonest(frame(n), queryChunks, p)
  BY <1>1, <1>3, <1>5, <1>8, FrameOfHonest
<1>. HIDE DEF rest, frame, sent
<1>14. Lag(conn[k]) = LastSent(k) /\ Lag(conn'[k]) = LastSent(k) + n
  <2>1. Lag(conn'[k]) = conn[k].lastQueued - (Len(pending) - n)
    BY <1>6, <1>10 DEF Lag
  <2>2. Lag(conn[k]) = conn[k].lastQueued - Len(pending)
    BY DEF Lag, pending
  <2>. QED
    BY <1>1, <2>1, <2>2
<1>15. Produced(frame(n), next)
  <2>1. LastSent(k) + n <= next /\ LastSent(k) + 1 <= LastSent(k) + n
    BY <1>1, <1>3
  <2>. QED
    BY <1>8, <1>9, <2>1 DEF Produced
<1>16. Sends(conn[k], conn'[k], down[k], down'[k], k \in cut, next, queryChunks, frame(n))
  BY <1>2, <1>8, <1>9, <1>10, <1>11, <1>12, <1>13, <1>14, <1>15 DEF Sends, pending
<1>. QED
  BY <1>8, <1>16

-----------------------------------------------------------------------------
(***************************************************************************)
(* The wires.                                                              *)
(***************************************************************************)

LEMMA MessageFields ==
  /\ \A m \in Ready \cup Frame : Covered(m) \in Nat /\ (m.type = "frame" => m \in Frame)
  /\ \A m \in UpMessage : m.type = "ack" => m.seq \in Nat
  /\ \A m \in Ready : m.type = "ready" /\ m.seq \in Nat /\ Covered(m) = m.seq
BY DEF Ready, Frame, UpMessage, Hello, Ack, Answer, Covered, Sequence

\* More output, or another state of the task.
LEMMA WireBoundsGrow ==
  ASSUME NEW t, NEW t2, NEW d \in Seq(Ready \cup Frame), NEW u \in Seq(UpMessage),
         NEW u2 \in Seq(UpMessage), Among(u2, u), t2.phase = "unused" => t.phase = "unused",
         NEW n \in Nat, NEW n2 \in Nat, n <= n2, WireBounds(t, d, u, n)
  PROVE  WireBounds(t2, d, u2, n2)
<1>1. t2.phase = "unused" => u2 = <<>>
  <2>1. u2 # <<>> => 1 \in 1 .. Len(u2)
    <3>1. u2 # <<>> => Len(u2) \in Nat \ {0}
      BY EmptySeq
    <3>. QED
      BY <3>1
  <2>2. u = <<>> => Len(u) = 0
    OBVIOUS
  <2>. QED
    BY <2>1, <2>2 DEF Among, WireBounds
<1>2. \A m \in Ready \cup Frame : Produced(m, n) => Produced(m, n2)
  BY MessageFields DEF Produced
<1>3. \A i \in 1 .. Len(d) : d[i] \in Ready \cup Frame
  BY ElementOfSeq
<1>4. \A i \in 1 .. Len(u) : u[i].type = "ack" => u[i].seq <= n2
  <2>1. \A i \in 1 .. Len(u) : u[i].type = "ack" => u[i].seq \in Nat /\ u[i].seq <= n
    BY MessageFields, ElementOfSeq DEF WireBounds
  <2>. QED
    BY <2>1
<1>5. \A i \in 1 .. Len(u2) : u2[i].type = "ack" => u2[i].seq <= n2
  BY <1>4 DEF Among
<1>. QED
  BY <1>1, <1>2, <1>3, <1>5 DEF WireBounds

LEMMA SendBounds ==
  ASSUME NEW t, NEW t2, t2.phase = "live", NEW d \in Seq(Ready \cup Frame), NEW u, NEW n,
         WireBounds(t, d, u, n), FollowsUpTo(d, Lag(t)),
         NEW f \in Frame, f.first = Lag(t) + 1, Produced(f, n)
  PROVE  WireBounds(t2, Append(d, f), u, n)
<1>. DEFINE d2 == Append(d, f)
            len == Len(d)
<1>1. /\ Len(d2) = len + 1 /\ len \in Nat
      /\ \A i \in 1 .. len : d2[i] = d[i]
      /\ d2[len + 1] = f /\ f.type = "frame"
  <2>1. f \in Ready \cup Frame
    OBVIOUS
  <2>. QED
    BY <2>1, FrameFields, AppendProperties
<1>2. \A i \in 1 .. len :
        /\ Produced(d[i], n)
        /\ d[i].type = "ready" => i = 1
        /\ i < len => d[i + 1].first = Covered(d[i]) + 1
        /\ i = len => Covered(d[i]) = Lag(t)
  BY DEF WireBounds, FollowsUpTo
<1>. HIDE DEF d2, len
<1>3. ASSUME NEW i \in 1 .. len + 1
      PROVE  /\ Produced(d2[i], n)
             /\ d2[i].type = "ready" => i = 1
             /\ i < len + 1 => d2[i + 1].first = Covered(d2[i]) + 1
  <2>1. CASE i = len + 1
    BY <1>1, <2>1
  <2>2. CASE i = len
    <3>1. i \in 1 .. len /\ d2[i] = d[i] /\ d2[i + 1] = f
      BY <1>1, <2>2
    <3>. QED
      BY <1>2, <2>2, <3>1
  <2>3. CASE i < len
    <3>1. i \in 1 .. len /\ i + 1 \in 1 .. len
      BY <1>1, <2>3
    <3>2. d2[i] = d[i] /\ d2[i + 1] = d[i + 1]
      BY <1>1, <3>1
    <3>. QED
      BY <1>2, <2>3, <3>1, <3>2
  <2>. QED
    BY <1>1, <2>1, <2>2, <2>3
<1>4. \A i \in 1 .. Len(u) : u[i].type = "ack" => u[i].seq <= n
  BY DEF WireBounds
<1>5. WireBounds(t2, d2, u, n)
  BY <1>1, <1>3, <1>4 DEF WireBounds
<1>. QED
  BY <1>5 DEF d2

LEMMA GreetBounds ==
  ASSUME NEW t, NEW t2, t2.phase = "live", NEW d, NEW u \in Seq(UpMessage),
         NEW u2 \in Seq(UpMessage), Among(u2, u),
         NEW n, WireBounds(t, d, u, n), NEW m \in Ready, m.seq <= n
  PROVE  WireBounds(t2, <<m>>, u2, n)
<1>1. Covered(m) <= n /\ m.type = "ready" /\ m.type # "frame"
  BY MessageFields
<1>2. Produced(m, n)
  BY <1>1 DEF Produced
<1>3. \A i \in 1 .. Len(u) : u[i].type = "ack" => u[i].seq <= n
  BY DEF WireBounds
<1>4. \A i \in 1 .. Len(u2) : u2[i].type = "ack" => u2[i].seq <= n
  BY <1>3 DEF Among
<1>5. Len(<<m>>) = 1 /\ <<m>>[1] = m
  OBVIOUS
<1>. QED
  BY <1>2, <1>4, <1>5 DEF WireBounds

\* What a step of the task leaves on the wires.
LEMMA QuietHonest ==
  ASSUME NEW t, NEW t2, NEW d, NEW u, NEW u2, Among(u2, u), NEW a, NEW p,
         WireHonest(t, d, u, a, p), t2.phase = "live" => AllHonest(t2.pending, a, p)
  PROVE  WireHonest(t2, d, u2, a, p)
BY DEF WireHonest, AllHonest, Among

LEMMA GreetHonest ==
  ASSUME NEW t, NEW t2, NEW d, NEW u, NEW u2, Among(u2, u), NEW a, NEW p,
         WireHonest(t, d, u, a, p), AllHonest(t2.pending, a, p), NEW m \in Ready
  PROVE  WireHonest(t2, <<m>>, u2, a, p)
<1>1. \A i \in 1 .. Len(<<m>>) : <<m>>[i].type # "frame"
  BY MessageFields
<1>. QED
  BY <1>1 DEF WireHonest, AllHonest, Among

LEMMA SendHonest ==
  ASSUME NEW t, NEW t2, NEW d \in Seq(Ready \cup Frame), NEW u, NEW a, NEW p,
         WireHonest(t, d, u, a, p), AllHonest(t2.pending, a, p),
         NEW f \in Frame, FrameHonest(f, a, p)
  PROVE  WireHonest(t2, Append(d, f), u, a, p)
<1>. DEFINE d2 == Append(d, f)
            len == Len(d)
<1>1. /\ Len(d2) = len + 1 /\ len \in Nat
      /\ \A i \in 1 .. len : d2[i] = d[i]
      /\ d2[len + 1] = f
  <2>1. f \in Ready \cup Frame
    OBVIOUS
  <2>. QED
    BY <2>1, AppendProperties
<1>2. \A i \in 1 .. len : d[i].type = "frame" => FrameHonest(d[i], a, p)
  BY DEF WireHonest
<1>. HIDE DEF d2, len
<1>3. \A i \in 1 .. len + 1 : d2[i].type = "frame" => FrameHonest(d2[i], a, p)
  BY <1>1, <1>2
<1>4. WireHonest(t2, d2, u, a, p)
  BY <1>1, <1>3 DEF WireHonest, AllHonest
<1>. QED
  BY <1>4 DEF d2

\* Queries asked from now on are not under way yet.
LEMMA AskingHonest ==
  ASSUME NEW t, NEW d \in Seq(Ready \cup Frame), NEW u \in Seq(UpMessage), NEW n \in Nat,
         WireBounds(t, d, u, n),
         t.phase = "live" => \A i \in 1 .. Len(t.pending) :
           t.pending[i].seq \in Nat /\ t.pending[i].seq <= n,
         NEW a \in SUBSET Nat, NEW a2 \in SUBSET Nat, \A q \in a2 : q <= n => q \in a,
         NEW p, WireHonest(t, d, u, a, p)
  PROVE  WireHonest(t, d, u, a2, p)
<1>1. \A f \in Frame : Produced(f, n) /\ FrameHonest(f, a, p) => FrameHonest(f, a2, p)
  <2>. SUFFICES ASSUME NEW f \in Frame, Produced(f, n), FrameHonest(f, a, p),
                       NEW q \in a2, q <= f.end
                PROVE  q \in a
    BY DEF FrameHonest
  <2>1. f.end \in Nat /\ f.end <= n /\ q \in Nat
    BY FrameFields DEF Produced
  <2>. QED
    BY <2>1
<1>2. \A c : c.seq \in Nat /\ c.seq <= n /\ ChunkHonest(c, a, p) => ChunkHonest(c, a2, p)
  <2>. SUFFICES ASSUME NEW c, c.seq \in Nat, c.seq <= n, ChunkHonest(c, a, p),
                       NEW q \in a2, q <= c.seq
                PROVE  q \in a
    BY DEF ChunkHonest
  <2>1. q \in Nat
    OBVIOUS
  <2>. QED
    BY <2>1
<1>3. \A s \in Nat : s <= n /\ DoneUpTo(s, a, p) => DoneUpTo(s, a2, p)
  <2>. SUFFICES ASSUME NEW s \in Nat, s <= n, DoneUpTo(s, a, p), NEW q \in a2, q <= s
                PROVE  q \in a
    BY DEF DoneUpTo
  <2>1. q \in Nat
    OBVIOUS
  <2>. QED
    BY <2>1
<1>4. \A i \in 1 .. Len(d) : Produced(d[i], n) /\ (d[i].type = "frame" => d[i] \in Frame)
  BY MessageFields, ElementOfSeq DEF WireBounds
<1>5. \A i \in 1 .. Len(u) : u[i].type = "ack" => u[i].seq \in Nat /\ u[i].seq <= n
  BY MessageFields, ElementOfSeq DEF WireBounds
<1>. QED
  BY <1>1, <1>2, <1>3, <1>4, <1>5 DEF WireHonest

LEMMA TailHonest ==
  ASSUME NEW t, NEW d \in Seq(Ready \cup Frame), d # <<>>, NEW u, NEW a, NEW p,
         WireHonest(t, d, u, a, p)
  PROVE  /\ WireHonest(t, Tail(d), u, a, p)
         /\ d[1].type = "frame" => FrameHonest(d[1], a, p)
<1>. DEFINE rest == Tail(d)
            len == Len(d)
<1>1. len \in Nat \ {0}
  BY EmptySeq
<1>2. Len(rest) = len - 1 /\ \A i \in 1 .. len - 1 : rest[i] = d[i + 1]
  BY HeadTailProperties
<1>3. \A i \in 1 .. len : d[i].type = "frame" => FrameHonest(d[i], a, p)
  BY DEF WireHonest
<1>. HIDE DEF rest, len
<1>4. 1 \in 1 .. len /\ \A i \in 1 .. len - 1 : i + 1 \in 1 .. len
  BY <1>1
<1>5. \A i \in 1 .. len - 1 : rest[i].type = "frame" => FrameHonest(rest[i], a, p)
  BY <1>2, <1>3, <1>4
<1>6. WireHonest(t, rest, u, a, p)
  BY <1>2, <1>5 DEF WireHonest
<1>. QED
  BY <1>3, <1>4, <1>6 DEF rest

-----------------------------------------------------------------------------
(***************************************************************************)
(* A step of the server.                                                   *)
(***************************************************************************)

LEMMA TaskEffect ==
  ASSUME TypeOK, NEW k \in Sockets, SocketInv(k), first <= next + 1, ConnectionTask(k)
  PROVE  /\ \A j \in Sockets \ {k} : up'[j] = up[j]
         /\ \/ /\ \E m \in Ready : Greets(conn[k], conn'[k], down[k], down'[k],
                                          up[k], up'[k], k \in cut, next, m)
               /\ \A p : queryChunks \ pendingQueries \subseteq p =>
                    AllHonest(conn'[k].pending, queryChunks, p)
            \/ /\ \E f \in Frame : Sends(conn[k], conn'[k], down[k], down'[k],
                                         k \in cut, next, queryChunks, f)
               /\ up'[k] = up[k]
            \/ /\ Quiet(conn[k], conn'[k], up[k], up'[k])
               /\ Queues(conn[k], conn'[k], queryChunks)
               /\ down'[k] = down[k]
<1>1. CASE ReceiveHello(k)
  BY <1>1, ReceiveHelloEffect
<1>2. CASE SendFrame(k)
  <2>1. up' = up
    BY <1>2 DEF SendFrame
  <2>. QED
    BY <1>2, <2>1, SendFrameEffect
<1>3. CASE ReceiveOutput(k)
  <2>1. down' = down
    BY <1>3 DEF ReceiveOutput
  <2>. QED
    BY <1>3, <2>1, ReceiveOutputQuiet
<1>4. CASE ReceiveLagged(k)
  <2>1. down' = down
    BY <1>4 DEF ReceiveLagged
  <2>. QED
    BY <1>4, <2>1, ReceiveLaggedQuiet
<1>5. CASE \/ ReceiveAck(k) \/ IgnoreMessage(k) \/ HelloTimeout(k)
           \/ ReceiveAnswer(k) \/ DetectLoss(k)
  <2>1. down' = down
    BY <1>5 DEF ReceiveAck, IgnoreMessage, HelloTimeout, ReceiveAnswer, DetectLoss
  <2>. QED
    BY <1>5, <2>1, OtherTaskQuiet
<1>. QED
  BY <1>1, <1>2, <1>3, <1>4, <1>5 DEF ConnectionTask

\* A push keeps what the session knows of its queries.
LEMMA PushQueries ==
  ASSUME SessionTypeOK, QueriesInv, NEW hasQuery \in BOOLEAN, Push(hasQuery)
  PROVE  /\ first' <= next' + 1
         /\ \A q \in queryChunks' : q <= next'
         /\ \A q \in queryChunks' : q <= next => q \in queryChunks
         /\ queryChunks' \ pendingQueries' \subseteq queryChunks \ pendingQueries
<1>1. /\ next \in Nat /\ first \in Nat /\ queryChunks \in SUBSET Nat
      /\ first <= next + 1 /\ \A q \in queryChunks : q <= next
  BY DEF SessionTypeOK, Sequence, QueriesInv
<1>2. OldestRetained(next + 1) <= next + 2
  BY <1>1, HistoryAssumption DEF OldestRetained
<1>3. /\ next' = next + 1 /\ first' = OldestRetained(next + 1)
      /\ queryChunks' = queryChunks \cup IF hasQuery THEN {next + 1} ELSE {}
      /\ pendingQueries' = pendingQueries \cup IF hasQuery THEN {next + 1} ELSE {}
  BY DEF Push
<1>4. first' <= next' + 1
  BY <1>1, <1>2, <1>3
<1>5. ASSUME NEW q \in queryChunks'
      PROVE  q <= next' /\ (q <= next => q \in queryChunks)
  <2>1. q \in queryChunks \/ q = next + 1
    BY <1>3
  <2>2. CASE q \in queryChunks
    <3>1. q \in Nat /\ q <= next
      BY <1>1, <2>2
    <3>. QED
      BY <1>1, <1>3, <2>2, <3>1
  <2>3. CASE q = next + 1
    BY <1>1, <1>3, <2>3
  <2>. QED
    BY <2>1, <2>2, <2>3
<1>6. queryChunks' \ pendingQueries' \subseteq queryChunks \ pendingQueries
  BY <1>3
<1>. QED
  BY <1>4, <1>5, <1>6

\* No task asks anything, and an acknowledgement only takes back what is
\* parsed.
LEMMA TaskQueries ==
  ASSUME TypeOK, NEW k \in Sockets, QueriesInv, WireInv(k), ConnectionTask(k)
  PROVE  /\ queryChunks' = queryChunks
         /\ first' <= next' + 1
         /\ \A q \in queryChunks : q <= next'
         /\ ~skipped => queryChunks \ pendingQueries' \subseteq parsed
<1>1. /\ next \in Nat /\ queryChunks \in SUBSET Nat /\ SessionTypeOK
      /\ first <= next + 1 /\ \A q \in queryChunks : q <= next
  BY DEF TypeOK, SessionTypeOK, Sequence, QueriesInv
<1>2. ~skipped => queryChunks \ pendingQueries \subseteq parsed
  BY DEF QueriesInv
<1>3. ASSUME NEW last, ReplayEffect(last)
      PROVE  /\ queryChunks' = queryChunks /\ first' <= next' + 1
             /\ \A q \in queryChunks : q <= next'
             /\ pendingQueries' = pendingQueries
  <2>1. CASE UNCHANGED sessionVars
    BY <1>1, <2>1 DEF sessionVars
  <2>2. CASE Push(FALSE)
    <3>1. queryChunks' = queryChunks /\ pendingQueries' = pendingQueries
      BY <2>2 DEF Push
    <3>. QED
      BY <1>1, <2>2, <3>1, PushQueries
  <2>. QED
    BY <1>3, <2>1, <2>2 DEF ReplayEffect
<1>4. CASE ReceiveHello(k) \/ ReceiveLagged(k)
  BY <1>2, <1>3, <1>4 DEF ReceiveHello, ReceiveLagged
<1>5. CASE ReceiveAck(k)
  <2>. DEFINE seq == Head(up[k]).seq
  <2>1. CASE UNCHANGED sessionVars
    BY <1>1, <1>2, <2>1 DEF sessionVars
  <2>2. CASE Acknowledge(seq)
    <3>1. 1 \in 1 .. Len(up[k]) /\ Head(up[k]) = up[k][1]
      BY <1>5, ConsumeQuiet DEF ReceiveAck, Arrives
    <3>2. ~skipped => DoneUpTo(seq, queryChunks, parsed)
      BY <1>5, <3>1 DEF WireInv, WireHonest, ReceiveAck, Arrives
    <3>3. seq \in Nat
      BY <1>5, ArrivalType DEF TypeOK, ReceiveAck, Arrives, Sequence
    <3>. HIDE DEF seq
    <3>4. /\ pendingQueries' = {q \in pendingQueries : q > seq}
          /\ UNCHANGED <<next, first, queryChunks>>
      BY <2>2 DEF Acknowledge
    <3>5. ASSUME ~skipped, NEW q \in queryChunks, q \notin pendingQueries' PROVE q \in parsed
      <4>1. q \in Nat
        BY <1>1
      <4>2. CASE q \in pendingQueries
        <5>1. q <= seq
          BY <3>3, <3>4, <3>5, <4>1, <4>2
        <5>. QED
          BY <3>2, <3>5, <5>1 DEF DoneUpTo
      <4>3. CASE q \notin pendingQueries
        BY <1>2, <3>5, <4>3
      <4>. QED
        BY <4>2, <4>3
    <3>. QED
      BY <1>1, <3>4, <3>5
  <2>. QED
    BY <1>5, <2>1, <2>2 DEF ReceiveAck
<1>6. CASE \/ SendFrame(k) \/ ReceiveOutput(k) \/ IgnoreMessage(k)
           \/ HelloTimeout(k) \/ DetectLoss(k)
  BY <1>1, <1>2, <1>6 DEF SendFrame, ReceiveOutput, IgnoreMessage, HelloTimeout, DetectLoss,
     sessionVars
<1>7. CASE ReceiveAnswer(k)
  BY <1>1, <1>2, <1>7 DEF ReceiveAnswer, WriteAnswer
<1>. QED
  BY <1>4, <1>5, <1>6, <1>7 DEF ConnectionTask

\* The wires of a task that steps.
LEMMA TaskWires ==
  ASSUME TypeOK, DeliveryInv, NEW k \in Sockets, QueriesInv, WireInv(k), ConnectionTask(k)
  PROVE  /\ WireBounds(conn'[k], down'[k], up'[k], next')
         /\ ~skipped => WireHonest(conn'[k], down'[k], up'[k], queryChunks', parsed)
<1>1. /\ down[k] \in Seq(Ready \cup Frame) /\ up[k] \in Seq(UpMessage)
      /\ next \in Nat /\ next' \in Nat /\ next <= next'
  BY TaskFrame DEF TypeOK, DeliveryTypeOK, SessionTypeOK, Sequence
<1>2. TypeOK'
  BY ReceiveHelloType, SendFrameType, ReceiveOutputType, ReceiveLaggedType,
     ReceiveAckType, OtherTaskType DEF ConnectionTask
<1>3. down'[k] \in Seq(Ready \cup Frame) /\ up'[k] \in Seq(UpMessage)
  BY <1>2 DEF TypeOK, DeliveryTypeOK
<1>4. queryChunks' = queryChunks
  BY TaskQueries
<1>5. /\ WireBounds(conn[k], down[k], up[k], next)
      /\ ~skipped => WireHonest(conn[k], down[k], up[k], queryChunks, parsed)
      /\ ~skipped => queryChunks \ pendingQueries \subseteq parsed
      /\ first <= next + 1 /\ SocketInv(k)
  BY DEF WireInv, QueriesInv, DeliveryInv
<1>6. Among(up[k], up[k])
  BY DEF Among
<1>7. ASSUME NEW m \in Ready,
             Greets(conn[k], conn'[k], down[k], down'[k], up[k], up'[k], k \in cut, next, m),
             \A p : queryChunks \ pendingQueries \subseteq p =>
               AllHonest(conn'[k].pending, queryChunks, p)
      PROVE  /\ WireBounds(conn'[k], down'[k], up'[k], next')
             /\ ~skipped => WireHonest(conn'[k], down'[k], up'[k], queryChunks', parsed)
  <2>1. /\ conn'[k].phase = "live" /\ Among(up'[k], up[k]) /\ m.seq <= next
        /\ down'[k] = down[k] \/ down'[k] = <<m>>
    BY <1>7 DEF Greets
  <2>2. WireBounds(conn'[k], down'[k], up'[k], next)
    <3>1. CASE down'[k] = down[k]
      <4>1. conn'[k].phase # "unused" /\ next <= next
        BY <1>1, <2>1
      <4>2. WireBounds(conn'[k], down[k], up'[k], next)
        BY <1>1, <1>3, <1>5, <2>1, <4>1, WireBoundsGrow
      <4>. QED
        BY <3>1, <4>2
    <3>2. CASE down'[k] = <<m>>
      BY <1>1, <1>3, <1>5, <2>1, <3>2, GreetBounds
    <3>. QED
      BY <2>1, <3>1, <3>2
  <2>3. Among(up'[k], up'[k])
    BY DEF Among
  <2>4. WireBounds(conn'[k], down'[k], up'[k], next')
    BY <1>1, <1>3, <2>2, <2>3, WireBoundsGrow
  <2>5. ASSUME ~skipped PROVE WireHonest(conn'[k], down'[k], up'[k], queryChunks, parsed)
    <3>1. AllHonest(conn'[k].pending, queryChunks, parsed)
      BY <1>5, <1>7, <2>5
    <3>. QED
      BY <1>5, <2>1, <2>5, <3>1, QuietHonest, GreetHonest
  <2>. QED
    BY <1>4, <2>4, <2>5
<1>8. ASSUME NEW f \in Frame, up'[k] = up[k],
             Sends(conn[k], conn'[k], down[k], down'[k], k \in cut, next, queryChunks, f)
      PROVE  /\ WireBounds(conn'[k], down'[k], up'[k], next')
             /\ ~skipped => WireHonest(conn'[k], down'[k], up'[k], queryChunks', parsed)
  <2>1. /\ conn[k].phase = "live" /\ conn'[k].phase = "live"
        /\ f.first = Lag(conn[k]) + 1 /\ Produced(f, next)
        /\ down'[k] = IF k \in cut THEN down[k] ELSE Append(down[k], f)
        /\ \A p : AllHonest(conn[k].pending, queryChunks, p) =>
             AllHonest(conn'[k].pending, queryChunks, p) /\ FrameHonest(f, queryChunks, p)
    BY <1>8 DEF Sends
  <2>2. k \notin cut => FollowsUpTo(down[k], Lag(conn[k]))
    BY <1>5, <2>1, LiveInv DEF Live, Lag, LastSent
  <2>3. WireBounds(conn'[k], down'[k], up'[k], next)
    <3>1. CASE k \in cut
      <4>1. conn'[k].phase # "unused" /\ next <= next
        BY <1>1, <2>1
      <4>2. WireBounds(conn'[k], down[k], up[k], next)
        BY <1>1, <1>5, <1>6, <4>1, WireBoundsGrow
      <4>. QED
        BY <1>8, <2>1, <3>1, <4>2
    <3>2. CASE k \notin cut
      BY <1>1, <1>5, <1>8, <2>1, <2>2, <3>2, SendBounds
    <3>. QED
      BY <3>1, <3>2
  <2>4. Among(up'[k], up'[k])
    BY DEF Among
  <2>5. WireBounds(conn'[k], down'[k], up'[k], next')
    BY <1>1, <1>3, <2>3, <2>4, WireBoundsGrow
  <2>6. ASSUME ~skipped PROVE WireHonest(conn'[k], down'[k], up'[k], queryChunks, parsed)
    <3>1. AllHonest(conn[k].pending, queryChunks, parsed)
      BY <1>5, <2>1, <2>6 DEF WireHonest, AllHonest
    <3>2. AllHonest(conn'[k].pending, queryChunks, parsed) /\ FrameHonest(f, queryChunks, parsed)
      BY <2>1, <3>1
    <3>. QED
      BY <1>1, <1>5, <1>6, <1>8, <2>1, <2>6, <3>2, QuietHonest, SendHonest
  <2>. QED
    BY <1>4, <2>5, <2>6
<1>9. ASSUME Quiet(conn[k], conn'[k], up[k], up'[k]), Queues(conn[k], conn'[k], queryChunks),
             down'[k] = down[k]
      PROVE  /\ WireBounds(conn'[k], down'[k], up'[k], next')
             /\ ~skipped => WireHonest(conn'[k], down'[k], up'[k], queryChunks', parsed)
  <2>1. /\ Among(up'[k], up[k])
        /\ conn'[k].phase = "unused" => conn[k].phase = "unused"
        /\ conn'[k].phase = "live" => conn[k].phase = "live"
    BY <1>9 DEF Quiet, KeepsFront
  <2>2. WireBounds(conn'[k], down'[k], up'[k], next')
    BY <1>1, <1>3, <1>5, <1>9, <2>1, WireBoundsGrow
  <2>3. ASSUME ~skipped PROVE WireHonest(conn'[k], down'[k], up'[k], queryChunks, parsed)
    <3>1. conn'[k].phase = "live" => AllHonest(conn'[k].pending, queryChunks, parsed)
      BY <1>5, <1>9, <2>1, <2>3 DEF Queues, WireHonest, AllHonest
    <3>. QED
      BY <1>5, <1>9, <2>1, <2>3, <3>1, QuietHonest
  <2>. QED
    BY <1>4, <2>2, <2>3
<1>. QED
  BY <1>5, <1>7, <1>8, <1>9, TaskEffect

\* The client of a task that steps.
LEMMA TaskServes ==
  ASSUME TypeOK, DeliveryInv, NEW k \in Sockets, QueriesInv, ConnectionTask(k), k \notin cut,
         NEW v \in View, Sync(v, conn[k], down[k], up[k], next)
  PROVE  /\ Sync(v, conn'[k], down'[k], up'[k], next')
         /\ \A p : Worth(v, conn[k], down[k], queryChunks, p) =>
              Worth(v, conn'[k], down'[k], queryChunks, p)
<1>1. /\ down[k] \in Seq(Ready \cup Frame)
      /\ next \in Nat /\ next' \in Nat /\ next <= next'
  BY TaskFrame DEF TypeOK, DeliveryTypeOK, SessionTypeOK, Sequence
<1>2. SocketInv(k) /\ first <= next + 1
  BY DEF QueriesInv, DeliveryInv
<1>3. Sync(v, conn'[k], down'[k], up'[k], next) => Sync(v, conn'[k], down'[k], up'[k], next')
  BY <1>1, BoundsGrow DEF Sync
<1>4. ASSUME NEW m \in Ready,
             Greets(conn[k], conn'[k], down[k], down'[k], up[k], up'[k], k \in cut, next, m)
      PROVE  /\ Sync(v, conn'[k], down'[k], up'[k], next)
             /\ \A p : Worth(v, conn[k], down[k], queryChunks, p) =>
                  Worth(v, conn'[k], down'[k], queryChunks, p)
  <2>1. /\ conn[k].phase = "hello" /\ conn'[k].phase = "live" /\ down[k] = <<>>
        /\ down'[k] = <<m>>
        /\ 1 \in 1 .. Len(up[k]) /\ up[k][1].type = "hello"
        /\ IF m.reset THEN up[k][1].last <= next => up[k][1].last < m.seq
                      ELSE up[k][1].last = m.seq
        /\ m.reset => conn'[k].pending # <<>> /\ conn'[k].pending[1].snapshot
    BY <1>4 DEF Greets
  <2>2. v.state = "open" => up[k][1].last <= next
    <3>1. v.state = "open" => up[k][1].last = HelloMessage(v).last
      BY <2>1 DEF Sync, Handshake, Waits, Follows
    <3>2. HelloMessage(v).last <= next
      BY <1>1, TipType DEF Sync, ViewBounds
    <3>. QED
      BY <3>1, <3>2
  <2>3. IF m.reset THEN v.state = "open" => up[k][1].last < m.seq ELSE up[k][1].last = m.seq
    BY <2>1, <2>2
  <2>4. Sync(v, conn'[k], <<m>>, up'[k], next)
    BY <2>1, <2>3, GreetSync
  <2>5. \A p : Worth(v, conn[k], down[k], queryChunks, p) =>
          Worth(v, conn'[k], <<m>>, queryChunks, p)
    BY <2>1, GreetWorth
  <2>. QED
    BY <2>1, <2>4, <2>5
<1>5. ASSUME NEW f \in Frame, up'[k] = up[k],
             Sends(conn[k], conn'[k], down[k], down'[k], k \in cut, next, queryChunks, f)
      PROVE  /\ Sync(v, conn'[k], down'[k], up'[k], next)
             /\ \A p : Worth(v, conn[k], down[k], queryChunks, p) =>
                  Worth(v, conn'[k], down'[k], queryChunks, p)
  BY <1>1, <1>5, SendSync, SendWorth DEF Sends
<1>6. ASSUME Quiet(conn[k], conn'[k], up[k], up'[k]), down'[k] = down[k]
      PROVE  /\ Sync(v, conn'[k], down'[k], up'[k], next)
             /\ \A p : Worth(v, conn[k], down[k], queryChunks, p) =>
                  Worth(v, conn'[k], down'[k], queryChunks, p)
  BY <1>6, QuietSync, QuietWorth DEF Quiet
<1>. QED
  BY <1>2, <1>3, <1>4, <1>5, <1>6, TaskEffect

\* While a client has no open socket, its state stands alone.
LEMMA AwaySync ==
  ASSUME NEW v, v.state \in {"none", "connecting"}, NEW t, NEW d, NEW u, NEW n,
         Sync(v, t, d, u, n), NEW t2, NEW d2, NEW u2
  PROVE  Sync(v, t2, d2, u2, n)
BY DEF Sync, Handshake

LEMMA AwayWorth ==
  ASSUME NEW v, v.state \in {"none", "connecting"}, WriterInv(v), NEW t, NEW d, NEW a, NEW p,
         Worth(v, t, d, a, p), NEW t2, NEW d2
  PROVE  Worth(v, t2, d2, a, p)
BY DEF Worth, ScreenInv, WriterInv

\* The parts of BrowserInv.
LEMMA BrowserParts ==
  ASSUME StreamInv, NEW c \in Clients
  PROVE  LET v == view[c]
             k == v.socket
         IN  /\ v \in View
             /\ SocketOwned(c)
             /\ Drained(v)
             /\ Sync(v, conn[k], down[k], up[k], next)
             /\ ~skipped => Worth(v, conn[k], down[k], queryChunks, parsed)
             /\ v.state # "none" => k \in Sockets /\ k \notin cut
             /\ v.state \in {"none", "connecting"} /\ v.writing # Idle => v.writing.socket # k
<1>1. view[c] \in View /\ BrowserInv(c)
  BY DEF StreamInv, StreamTypeOK
<1>2. view[c].socket \in MaybeSocket
  BY <1>1, ViewFields
<1>3. SocketOwned(c)
  BY <1>1 DEF BrowserInv
<1>4. view[c].state # "none" => view[c].socket \in Sockets /\ view[c].socket \notin cut
  BY <1>2, <1>3 DEF SocketOwned, MaybeSocket
<1>5. view[c].writing # Idle => view[c].writing.socket \in Sockets
  BY <1>1, WritingFields
<1>6. view[c].state \in {"none", "connecting"} /\ view[c].writing # Idle =>
        view[c].writing.socket # view[c].socket
  BY <1>3, <1>5, ClientAssumption DEF SocketOwned
<1>. QED
  BY <1>1, <1>3, <1>4, <1>6 DEF BrowserInv, Sync, Worth

\* The types of StreamInv.
LEMMA StreamTypes ==
  ASSUME StreamInv
  PROVE  /\ TypeOK /\ DeliveryInv /\ QueriesInv /\ SessionTypeOK
         /\ view \in [Clients -> View] /\ parsed \in SUBSET Nat /\ skipped \in BOOLEAN
         /\ conn \in [Sockets -> Connection]
         /\ down \in [Sockets -> Seq(Ready \cup Frame)]
         /\ up \in [Sockets -> Seq(UpMessage)]
         /\ cut \in SUBSET Sockets
         /\ next \in Nat /\ queryChunks \in SUBSET Nat /\ queryChunks \in SUBSET Sequence
         /\ \A k \in Sockets : WireInv(k)
BY DEF StreamInv, StreamTypeOK, TypeOK, DeliveryTypeOK, SessionTypeOK, Sequence

LEMMA TaskPhase ==
  ASSUME StreamInv, NEW k \in Sockets, ConnectionTask(k)
  PROVE  conn[k].phase # "unused" /\ conn'[k].phase # "unused"
<1>1. conn[k].phase # "unused"
  BY DEF ConnectionTask, ReceiveHello, IgnoreMessage, HelloTimeout, SendFrame, ReceiveOutput,
     ReceiveLagged, ReceiveAck, ReceiveAnswer, DetectLoss, Selecting
<1>2. TypeOK /\ SocketInv(k) /\ first <= next + 1
  BY StreamTypes DEF DeliveryInv, QueriesInv
<1>. QED
  BY <1>1, <1>2, TaskEffect DEF Greets, Sends, Quiet

\* The session's output concerns no client yet.
LEMMA OutputStep ==
  ASSUME StreamInv, PtyOutput, UNCHANGED <<view, parsed, skipped>>
  PROVE  /\ QueriesInv'
         /\ \A k \in Sockets : WireInv(k)'
         /\ \A c \in Clients : BrowserInv(c)'
<1>1. /\ TypeOK /\ DeliveryInv /\ QueriesInv /\ SessionTypeOK /\ next \in Nat
      /\ queryChunks \in SUBSET Nat
      /\ down \in [Sockets -> Seq(Ready \cup Frame)]
      /\ up \in [Sockets -> Seq(UpMessage)]
  BY StreamTypes
<1>2. PICK hasQuery \in BOOLEAN : Push(hasQuery)
  BY DEF PtyOutput
<1>3. UNCHANGED <<conn, up, down, cut, view, parsed, skipped>>
  BY DEF PtyOutput, deliveryVars
<1>4. /\ next' = next + 1 /\ next' \in Nat /\ next <= next'
      /\ queryChunks' \in SUBSET Nat
  BY <1>1, <1>2, PushType DEF SessionTypeOK, Sequence
<1>5. /\ first' <= next' + 1
      /\ \A q \in queryChunks' : q <= next'
      /\ \A q \in queryChunks' : q <= next => q \in queryChunks
      /\ queryChunks' \ pendingQueries' \subseteq queryChunks \ pendingQueries
  BY <1>1, <1>2, PushQueries
<1>6. QueriesInv'
  BY <1>1, <1>3, <1>5 DEF QueriesInv
<1>7. ASSUME NEW k \in Sockets PROVE WireInv(k)'
  <2>1. WireInv(k)
    BY StreamTypes
  <2>2. Among(up[k], up[k])
    BY DEF Among
  <2>3. WireBounds(conn[k], down[k], up[k], next')
    BY <1>1, <1>4, <2>1, <2>2, WireBoundsGrow DEF WireInv
  <2>4. ASSUME ~skipped
        PROVE  WireHonest(conn[k], down[k], up[k], queryChunks', parsed)
    <3>1. conn[k].phase = "live" => \A i \in 1 .. Len(conn[k].pending) :
            conn[k].pending[i].seq \in Nat /\ conn[k].pending[i].seq <= next
      <4>. SUFFICES ASSUME conn[k].phase = "live", NEW i \in 1 .. Len(conn[k].pending)
                    PROVE  conn[k].pending[i].seq \in Nat /\ conn[k].pending[i].seq <= next
        OBVIOUS
      <4>1. /\ conn[k].lastQueued <= next /\ NumberedFrom(conn[k].pending, LastSent(k))
        BY <1>1, LiveInv DEF DeliveryInv, Live
      <4>2. /\ conn[k].pending \in Seq(Chunk) /\ conn[k].lastQueued \in Nat
            /\ LastSent(k) = conn[k].lastQueued - Len(conn[k].pending)
        BY <1>1, SocketType
      <4>3. conn[k].pending[i].seq = LastSent(k) + i
        BY <4>1 DEF NumberedFrom
      <4>4. conn[k].pending[i].seq \in Nat
        <5>1. conn[k].pending[i] \in Chunk
          BY <4>2, ElementOfSeq
        <5>. QED
          BY <5>1 DEF Chunk, Sequence
      <4>. QED
        BY <1>1, <4>1, <4>2, <4>3, <4>4
    <3>2. /\ WireBounds(conn[k], down[k], up[k], next)
          /\ WireHonest(conn[k], down[k], up[k], queryChunks, parsed)
      BY <2>1, <2>4 DEF WireInv
    <3>. QED
      BY <1>1, <1>4, <1>5, <3>1, <3>2, AskingHonest
  <2>. QED
    BY <1>3, <2>3, <2>4 DEF WireInv
<1>8. ASSUME NEW c \in Clients PROVE BrowserInv(c)'
  <2>. DEFINE v == view[c]
              k == v.socket
  <2>1. /\ v \in View /\ SocketOwned(c) /\ Drained(v)
        /\ Sync(v, conn[k], down[k], up[k], next)
        /\ ~skipped => Worth(v, conn[k], down[k], queryChunks, parsed)
    BY BrowserParts
  <2>2. SocketOwned(c)'
    BY <1>3, <2>1 DEF SocketOwned
  <2>3. ViewBounds(v, next) /\ ViewBounds(v, next')
    BY <1>1, <1>4, <2>1, BoundsGrow DEF Sync
  <2>4. Sync(v, conn[k], down[k], up[k], next')
    BY <2>1, <2>3 DEF Sync
  <2>5. ~skipped => Worth(v, conn[k], down[k], queryChunks', parsed)
    BY <1>1, <1>4, <1>5, <2>1, <2>3, AskingWorth
  <2>. QED
    BY <1>3, <2>1, <2>2, <2>4, <2>5 DEF BrowserInv, Sync, Worth
<1>. QED
  BY <1>6, <1>7, <1>8

\* A task's step concerns its own client only.
LEMMA TaskStep ==
  ASSUME StreamInv, NEW k \in Sockets, ConnectionTask(k), UNCHANGED <<view, parsed, skipped>>
  PROVE  /\ QueriesInv'
         /\ \A j \in Sockets : WireInv(j)'
         /\ \A c \in Clients : BrowserInv(c)'
<1>1. /\ TypeOK /\ DeliveryInv /\ QueriesInv /\ next \in Nat
      /\ down \in [Sockets -> Seq(Ready \cup Frame)]
      /\ up \in [Sockets -> Seq(UpMessage)]
      /\ WireInv(k) /\ SocketInv(k) /\ first <= next + 1
  BY StreamTypes DEF DeliveryInv, QueriesInv
<1>2. /\ \A j \in Sockets \ {k} : conn'[j] = conn[j] /\ down'[j] = down[j] /\ up'[j] = up[j]
      /\ cut' = cut /\ next' \in Nat /\ next <= next'
  BY <1>1, TaskFrame, TaskEffect
<1>3. /\ queryChunks' = queryChunks /\ first' <= next' + 1
      /\ \A q \in queryChunks : q <= next'
      /\ ~skipped => queryChunks \ pendingQueries' \subseteq parsed
  BY <1>1, TaskQueries
<1>4. QueriesInv'
  BY <1>3 DEF QueriesInv
<1>5. ASSUME NEW j \in Sockets PROVE WireInv(j)'
  <2>1. CASE j = k
    BY <1>1, <2>1, TaskWires DEF WireInv
  <2>2. CASE j # k
    <3>1. WireInv(j)
      BY StreamTypes
    <3>2. Among(up[j], up[j])
      BY DEF Among
    <3>3. WireBounds(conn[j], down[j], up[j], next')
      BY <1>1, <1>2, <3>1, <3>2, WireBoundsGrow DEF WireInv
    <3>4. conn'[j] = conn[j] /\ down'[j] = down[j] /\ up'[j] = up[j]
      BY <1>2, <2>2
    <3>. QED
      BY <1>3, <3>1, <3>3, <3>4 DEF WireInv
  <2>. QED
    BY <2>1, <2>2
<1>6. ASSUME NEW c \in Clients PROVE BrowserInv(c)'
  <2>. DEFINE v == view[c]
              s == v.socket
  <2>1. /\ v \in View /\ SocketOwned(c) /\ Drained(v)
        /\ Sync(v, conn[s], down[s], up[s], next)
        /\ ~skipped => Worth(v, conn[s], down[s], queryChunks, parsed)
        /\ v.state # "none" => s \in Sockets /\ s \notin cut
    BY BrowserParts
  <2>2. conn[k].phase # "unused" /\ conn'[k].phase # "unused"
    BY TaskPhase
  <2>3. \A j \in Sockets : conn'[j].phase = "unused" <=> conn[j].phase = "unused"
    BY <1>2, <2>2
  <2>4. SocketOwned(c)'
    <3>1. v.writing # Idle => v.writing.socket \in Sockets
      BY <2>1, WritingFields
    <3>. QED
      BY <1>2, <2>1, <2>3, <3>1 DEF SocketOwned
  <2>5. /\ Sync(v, conn'[s], down'[s], up'[s], next')
        /\ ~skipped => Worth(v, conn'[s], down'[s], queryChunks', parsed)
    <3>1. CASE v.state = "none" \/ v.state = "connecting"
      <4>1. ViewBounds(v, next')
        BY <1>1, <1>2, <2>1, BoundsGrow DEF Sync
      <4>2. Sync(v, conn[s], down[s], up[s], next')
        BY <2>1, <4>1 DEF Sync
      <4>3. WriterInv(v)
        BY <2>1 DEF Sync
      <4>. QED
        BY <1>3, <2>1, <3>1, <4>2, <4>3, AwaySync, AwayWorth
    <3>2. CASE v.state \in {"open", "closing"} /\ s = k
      <4>1. s \in Sockets /\ s \notin cut
        BY <2>1, <3>2
      <4>. QED
        BY <1>1, <1>3, <2>1, <3>2, <4>1, TaskServes
    <3>3. CASE v.state \in {"open", "closing"} /\ s # k
      <4>1. conn'[s] = conn[s] /\ down'[s] = down[s] /\ up'[s] = up[s]
        BY <1>2, <2>1, <3>3
      <4>2. ViewBounds(v, next')
        BY <1>1, <1>2, <2>1, BoundsGrow DEF Sync
      <4>3. Sync(v, conn[s], down[s], up[s], next')
        BY <2>1, <4>2 DEF Sync
      <4>. QED
        BY <1>3, <2>1, <4>1, <4>3
    <3>. QED
      BY <2>1, <3>1, <3>2, <3>3, ViewFields
  <2>. QED
    BY <2>1, <2>4, <2>5 DEF BrowserInv, Sync, Worth
<1>. QED
  BY <1>4, <1>5, <1>6

\* A step of the server keeps the invariant.
LEMMA ServerStepInv ==
  ASSUME StreamInv, ServerStep
  PROVE  StreamInv'
<1>1. UNCHANGED <<view, parsed, skipped>> /\ (PtyOutput \/ \E k \in Sockets : ConnectionTask(k))
  BY DEF ServerStep
<1>2. TypeOK' /\ DeliveryInv'
  BY <1>1, StreamTypes, NextType, NextInv DEF Next
<1>3. StreamTypeOK'
  BY <1>1, <1>2 DEF StreamInv, StreamTypeOK
<1>. QED
  BY <1>1, <1>2, <1>3, OutputStep, TaskStep DEF StreamInv

-----------------------------------------------------------------------------
(***************************************************************************)
(* A step of a client.                                                     *)
(***************************************************************************)

LEMMA ParsingWorth ==
  ASSUME NEW v, NEW t, NEW d, NEW a, NEW p, NEW p2, p \subseteq p2, Worth(v, t, d, a, p)
  PROVE  Worth(v, t, d, a, p2)
BY ParsingServes DEF Worth, ViewHonest

LEMMA ParsingHonest ==
  ASSUME NEW t, NEW d, NEW u, NEW a, NEW p, NEW p2, p \subseteq p2, WireHonest(t, d, u, a, p)
  PROVE  WireHonest(t, d, u, a, p2)
BY ParsingServes DEF WireHonest

\* The client c gets the view w and touches no socket but its own.
Moves(c, w) ==
  /\ view' = [view EXCEPT ![c] = w]
  /\ UNCHANGED sessionVars
  /\ cut' \in SUBSET Sockets
  /\ \A j \in Sockets \ {view[c].socket} :
       /\ conn'[j] = conn[j] /\ down'[j] = down[j] /\ up'[j] = up[j]
       /\ j \in cut' => j \in cut
  /\ \A j \in Sockets : conn[j].phase # "unused" => conn'[j].phase # "unused"
  /\ \/ w.socket \in {view[c].socket, NoSocket}
     \/ \A e \in Clients : view[e].socket # w.socket
  /\ parsed \subseteq parsed'
  /\ skipped => skipped'

\* The others do not notice.
LEMMA OthersKeep ==
  ASSUME StreamInv, NEW c \in Clients, NEW w, Moves(c, w), NEW e \in Clients \ {c}
  PROVE  BrowserInv(e)'
<1>. DEFINE v == view[e]
            s == v.socket
<1>1. /\ v \in View /\ SocketOwned(e) /\ Drained(v)
      /\ Sync(v, conn[s], down[s], up[s], next)
      /\ ~skipped => Worth(v, conn[s], down[s], queryChunks, parsed)
      /\ v.state # "none" => s \in Sockets /\ s \notin cut
  BY BrowserParts
<1>2. view \in [Clients -> View] /\ cut \in SUBSET Sockets /\ skipped \in BOOLEAN
  BY StreamTypes
<1>3. /\ view'[c] = w /\ \A x \in Clients \ {c} : view'[x] = view[x]
      /\ next' = next /\ queryChunks' = queryChunks
  BY <1>2 DEF Moves, sessionVars
<1>4. s = view[c].socket => s = NoSocket
  BY <1>1 DEF SocketOwned
<1>5. s \in Sockets =>
        /\ conn'[s] = conn[s] /\ down'[s] = down[s] /\ up'[s] = up[s]
        /\ s \in cut' => s \in cut
  BY <1>4, ClientAssumption DEF Moves
<1>6. v.writing # Idle => v.writing.socket \in Sockets
  BY <1>1, WritingFields
<1>7. s = w.socket => s = NoSocket
  BY <1>4 DEF Moves
<1>8. s = NoSocket \/ (s \in Sockets /\ s \notin cut)
  BY <1>1, ViewFields DEF SocketOwned, MaybeSocket
<1>9. SocketOwned(e)'
  <2>1. view'[e] = v
    BY <1>3
  <2>2. (v.socket = NoSocket) <=> (v.state = "none")
    BY <1>1 DEF SocketOwned
  <2>3. v.socket \notin cut'
    BY <1>5, <1>8, ClientAssumption DEF Moves
  <2>4. \A x \in Clients \ {e} : v.socket = view'[x].socket => v.socket = NoSocket
    <3>1. \A x \in Clients \ {e} : v.socket = view[x].socket => v.socket = NoSocket
      BY <1>1 DEF SocketOwned
    <3>. QED
      BY <1>3, <1>7, <3>1
  <2>5. v.state = "connecting" => conn'[v.socket].phase = "unused"
    BY <1>1, <1>5 DEF SocketOwned
  <2>6. v.state \in {"open", "closing"} => conn'[v.socket].phase # "unused"
    BY <1>1, <1>5 DEF SocketOwned
  <2>7. v.writing # Idle => conn'[v.writing.socket].phase # "unused"
    BY <1>1, <1>6 DEF SocketOwned, Moves
  <2>. QED
    BY <2>1, <2>2, <2>3, <2>4, <2>5, <2>6, <2>7 DEF SocketOwned
<1>10. /\ Sync(v, conn'[s], down'[s], up'[s], next')
       /\ ~skipped' => Worth(v, conn'[s], down'[s], queryChunks', parsed')
  <2>1. ~skipped' => ~skipped /\ parsed \subseteq parsed'
    BY DEF Moves
  <2>2. CASE v.state = "none"
    <3>1. WriterInv(v)
      BY <1>1 DEF Sync
    <3>2. Sync(v, conn'[s], down'[s], up'[s], next)
      BY <1>1, <2>2, AwaySync
    <3>3. ~skipped' => Worth(v, conn'[s], down'[s], queryChunks, parsed)
      BY <1>1, <2>1, <2>2, <3>1, AwayWorth
    <3>. QED
      BY <1>3, <2>1, <3>2, <3>3, ParsingWorth
  <2>3. CASE v.state # "none"
    <3>1. conn'[s] = conn[s] /\ down'[s] = down[s] /\ up'[s] = up[s]
      BY <1>1, <1>5, <2>3
    <3>. QED
      BY <1>1, <1>3, <2>1, <3>1, ParsingWorth
  <2>. QED
    BY <2>2, <2>3
<1>. QED
  BY <1>1, <1>3, <1>9, <1>10 DEF BrowserInv, Sync, Worth

\* What is left to show of a client's step.
LEMMA ClientStepParts ==
  ASSUME StreamInv, NEW c \in Clients, NEW w \in View, Moves(c, w),
         DeliveryTypeOK', DeliveryInv', parsed' \in SUBSET Sequence, skipped' \in BOOLEAN,
         \A j \in Sockets : j = view[c].socket => WireInv(j)',
         BrowserInv(c)'
  PROVE  StreamInv'
<1>1. /\ TypeOK /\ SessionTypeOK /\ QueriesInv /\ view \in [Clients -> View]
      /\ skipped \in BOOLEAN
  BY StreamTypes
<1>2. /\ next' = next /\ first' = first /\ queryChunks' = queryChunks
      /\ pendingQueries' = pendingQueries /\ answered' = answered
      /\ parsed \subseteq parsed' /\ (skipped => skipped')
  BY DEF Moves, sessionVars
<1>3. StreamTypeOK'
  <2>1. SessionTypeOK'
    BY <1>1, <1>2 DEF SessionTypeOK
  <2>2. view' \in [Clients -> View]
    BY <1>1 DEF Moves
  <2>. QED
    BY <2>1, <2>2 DEF StreamTypeOK, TypeOK
<1>4. QueriesInv'
  BY <1>1, <1>2 DEF QueriesInv
<1>5. ASSUME NEW j \in Sockets \ {view[c].socket} PROVE WireInv(j)'
  <2>1. WireInv(j)
    BY StreamTypes
  <2>2. conn'[j] = conn[j] /\ down'[j] = down[j] /\ up'[j] = up[j]
    BY DEF Moves
  <2>. QED
    BY <1>2, <2>1, <2>2, ParsingHonest DEF WireInv
<1>6. \A e \in Clients : BrowserInv(e)'
  BY OthersKeep
<1>7. \A j \in Sockets : WireInv(j)'
  <2>. TAKE j \in Sockets
  <2>1. CASE j # view[c].socket
    BY <1>5, <2>1
  <2>2. CASE j = view[c].socket
    BY <2>2
  <2>. QED
    BY <2>1, <2>2
<1>. QED
  BY <1>3, <1>4, <1>6, <1>7 DEF StreamInv

\* Leaving a socket, perhaps for a new one.
LEMMA LeaveStep ==
  ASSUME StreamInv, NEW c \in Clients,
         NEW w \in {End(view[c])} \cup {Begin(view[c], k) : k \in Sockets},
         w.state # "none" => /\ conn[w.socket].phase = "unused"
                             /\ \A e \in Clients : view[e].socket # w.socket
                             /\ w.socket \notin cut,
         view' = [view EXCEPT ![c] = w], Leave(view[c].socket),
         UNCHANGED <<sessionVars, conn, up, parsed, skipped>>
  PROVE  StreamInv'
<1>. DEFINE v == view[c]
            s == v.socket
<1>1. /\ v \in View /\ SocketOwned(c) /\ Drained(v)
      /\ Sync(v, conn[s], down[s], up[s], next)
      /\ ~skipped => Worth(v, conn[s], down[s], queryChunks, parsed)
  BY BrowserParts
<1>2. /\ view \in [Clients -> View] /\ cut \in SUBSET Sockets /\ skipped \in BOOLEAN
      /\ conn \in [Sockets -> Connection]
      /\ down \in [Sockets -> Seq(Ready \cup Frame)]
      /\ up \in [Sockets -> Seq(UpMessage)]
      /\ TypeOK /\ DeliveryInv /\ next \in Nat /\ parsed \in SUBSET Sequence
  BY StreamTypes DEF Sequence
<1>3. s \in MaybeSocket
  BY <1>1, ViewFields
<1>4. /\ w \in View
      /\ \/ (w.state = "none" /\ w.socket = NoSocket)
         \/ (w.state = "connecting" /\ w.socket \in Sockets)
      /\ w.writing = v.writing
  <2>1. w \in View
    BY <1>1, LeaveSync
  <2>. HIDE DEF Frame, Sequence
  <2>2. ASSUME w = End(v)
        PROVE  w.state = "none" /\ w.socket = NoSocket /\ w.writing = v.writing
    BY <1>1, <2>2 DEF View, End
  <2>3. ASSUME NEW k \in Sockets, w = Begin(v, k)
        PROVE  w.state = "connecting" /\ w.socket = k /\ w.writing = v.writing
    BY <1>1, <2>3 DEF View, Begin
  <2>. QED
    BY <2>1, <2>2, <2>3
<1>5. /\ cut' \in SUBSET Sockets /\ cut \subseteq cut'
      /\ \A j \in Sockets \ {s} : down'[j] = down[j] /\ (j \in cut' => j \in cut)
      /\ s \in Sockets => down'[s] = <<>> /\ s \in cut'
      /\ down' \in [Sockets -> Seq(Ready \cup Frame)]
  <2>1. CASE s = NoSocket
    BY <1>2, <2>1, ClientAssumption DEF Leave
  <2>2. CASE s \in Sockets
    <3>1. cut' = cut \cup {s} /\ down' = [down EXCEPT ![s] = <<>>]
      BY <2>2, ClientAssumption DEF Leave
    <3>2. <<>> \in Seq(Ready \cup Frame)
      OBVIOUS
    <3>. HIDE DEF Ready, Frame
    <3>. QED
      BY <1>2, <2>2, <3>1, <3>2, ClientAssumption
  <2>. QED
    BY <1>3, <2>1, <2>2 DEF MaybeSocket
<1>6. Moves(c, w)
  BY <1>4, <1>5 DEF Moves
<1>7. DeliveryTypeOK'
  BY <1>2, <1>5 DEF DeliveryTypeOK
<1>8. DeliveryInv'
  <2>. SUFFICES ASSUME NEW j \in Sockets PROVE SocketInv(j)'
    BY DEF DeliveryInv
  <2>1. SocketInv(j) /\ next' = next
    BY <1>2 DEF DeliveryInv, sessionVars
  <2>2. CASE j # s
    <3>1. j \notin cut' => j \notin cut
      BY <1>5
    <3>. QED
      BY <1>2, <1>5, <2>1, <2>2, <3>1, Unaffected
  <2>3. CASE j = s
    <3>1. /\ conn' = conn /\ down'[j] = <<>> /\ j \in cut'
      BY <1>5, <2>3
    <3>2. LastSent(j)' = LastSent(j)
      BY <3>1 DEF LastSent
    <3>3. Untouched(j) => Untouched(j)'
      BY <2>1, <3>1 DEF Untouched
    <3>4. Live(j) => QueueIsContiguous(j)' /\ SentIsBehind(j)'
      BY <2>1, <3>1, <3>2 DEF SocketInv, QueueIsContiguous, SentIsBehind
    <3>. QED
      BY <2>1, <3>1, <3>3, <3>4 DEF SocketInv, Live
  <2>. QED
    BY <2>2, <2>3
<1>9. ASSUME NEW j \in Sockets, j = s PROVE WireInv(j)'
  <2>1. WireInv(j) /\ down'[j] = <<>> /\ conn' = conn /\ up' = up
    BY <1>5, <1>9, StreamTypes
  <2>2. Len(<<>>) = 0
    OBVIOUS
  <2>3. WireBounds(conn[j], <<>>, up[j], next)
    BY <2>1, <2>2 DEF WireInv, WireBounds
  <2>4. ~skipped => WireHonest(conn[j], <<>>, up[j], queryChunks, parsed)
    BY <2>1, <2>2 DEF WireInv, WireHonest
  <2>5. /\ next' = next /\ queryChunks' = queryChunks
        /\ parsed' = parsed /\ skipped' = skipped
    BY DEF sessionVars
  <2>6. /\ WireBounds(conn'[j], down'[j], up'[j], next')
        /\ ~skipped' => WireHonest(conn'[j], down'[j], up'[j], queryChunks', parsed')
    BY <2>1, <2>3, <2>4, <2>5
  <2>. QED
    BY <2>6 DEF WireInv
<1>10. view'[c] = w /\ \A e \in Clients \ {c} : view'[e] = view[e]
  BY <1>2
<1>11. SocketOwned(c)'
  <2>1. v.writing # Idle => conn[v.writing.socket].phase # "unused"
    BY <1>1 DEF SocketOwned
  <2>2. w.socket \notin cut'
    <3>1. CASE w.state = "none"
      BY <1>4, <1>5, <3>1, ClientAssumption
    <3>2. CASE w.state # "none"
      BY <1>4, <1>5, <3>2
    <3>. QED
      BY <3>1, <3>2
  <2>. QED
    BY <1>4, <1>10, <2>1, <2>2, ClientAssumption DEF SocketOwned
<1>12. BrowserInv(c)'
  <2>. DEFINE k == w.socket
  <2>1. Sync(w, conn'[k], down'[k], up'[k], next) /\ Drained(w)
    BY <1>1, LeaveSync
  <2>2. ~skipped => Worth(w, conn'[k], down'[k], queryChunks, parsed)
    BY <1>1, LeaveWorth
  <2>. QED
    BY <1>10, <1>11, <2>1, <2>2 DEF BrowserInv, Sync, Worth, sessionVars
<1>. QED
  BY <1>2, <1>4, <1>6, <1>7, <1>8, <1>9, <1>12, ClientStepParts

\* The ways to leave.
LEMMA LeavingInv ==
  ASSUME StreamInv, NEW c \in Clients, Connect(c) \/ CloseEvent(c) \/ DropSocket(c)
  PROVE  StreamInv'
<1>1. CASE Connect(c)
  <2>1. PICK k \in Sockets :
          /\ conn[k].phase = "unused" /\ k \notin cut
          /\ \A e \in Clients : view[e].socket # k
          /\ view' = [view EXCEPT ![c] = Begin(view[c], k)]
    BY <1>1 DEF Connect
  <2>. DEFINE w == Begin(view[c], k)
  <2>2. w.socket = k
    BY BrowserParts DEF Begin, View
  <2>. QED
    BY <1>1, <2>1, <2>2, LeaveStep DEF Connect
<1>2. CASE CloseEvent(c) \/ DropSocket(c)
  <2>1. End(view[c]).state = "none"
    BY BrowserParts DEF End, View
  <2>. QED
    BY <1>2, <2>1, LeaveStep DEF CloseEvent, DropSocket
<1>. QED
  BY <1>1, <1>2

-----------------------------------------------------------------------------
(***************************************************************************)
(* The message event.                                                      *)
(***************************************************************************)

\* A client that keeps its socket keeps it to itself.
LEMMA StaysOwned ==
  ASSUME StreamInv, NEW c \in Clients, NEW w, view' = [view EXCEPT ![c] = w], cut' = cut,
         NEW k, k = view[c].socket, w.socket = k,
         w.state = "none" <=> view[c].state = "none",
         w.state = "connecting" => conn'[k].phase = "unused",
         w.state \in {"open", "closing"} => conn'[k].phase # "unused",
         w.writing # Idle => conn'[w.writing.socket].phase # "unused"
  PROVE  SocketOwned(c)'
<1>1. /\ k = NoSocket <=> view[c].state = "none"
      /\ k \notin cut
      /\ \A d \in Clients \ {c} : k = view[d].socket => k = NoSocket
  BY BrowserParts DEF SocketOwned
<1>2. view \in [Clients -> View]
  BY StreamTypes
<1>3. view'[c] = w /\ \A d \in Clients \ {c} : view'[d] = view[d]
  BY <1>2
<1>. QED
  BY <1>1, <1>3 DEF SocketOwned

\* drain leaves the client at its socket.
LEMMA DrainStays ==
  ASSUME NEW v \in View, v.ready => v.socket \in Sockets, NEW w \in Drain(v)
  PROVE  /\ w.socket = v.socket /\ w.helloDue = v.helloDue /\ w.owes = v.owes
         /\ HelloMessage(w).last # None => HelloMessage(w).last = HelloMessage(v).last
         /\ w.state = v.state \/ (v.ready /\ w.state = "closing")
         /\ w.writing = v.writing \/ (v.ready /\ w.writing.socket = v.socket)
<1>0. w \in View
  BY DrainCases
<1>1. /\ HelloMessage(w).last = IF w.requiresReset THEN None ELSE w.last
      /\ HelloMessage(v).last = IF v.requiresReset THEN None ELSE v.last
  BY <1>0 DEF HelloMessage
<1>2. CASE w = v
  BY <1>2
<1>3. ASSUME v.ready, NEW f, Writes(v, w, f)
      PROVE  /\ Keeps(v, w) /\ w.state = v.state /\ w.requiresReset = v.requiresReset
             /\ w.writing.socket = v.socket
  <2>1. Output(v.socket, f).socket = v.socket
    BY DEF Output
  <2>. QED
    BY <1>3, <2>1 DEF Writes
<1>4. ASSUME v.ready, Fails(v, w)
      PROVE  /\ Keeps(v, w) /\ w.state = "closing" /\ w.requiresReset = TRUE
             /\ w.writing = v.writing
  BY <1>4 DEF Fails
<1>5. \/ w = v
      \/ v.ready /\ \E f : Writes(v, w, f)
      \/ v.ready /\ Fails(v, w)
  BY DrainCases
<1>6. CASE v.ready /\ \E f : Writes(v, w, f)
  <2>1. /\ Keeps(v, w) /\ w.state = v.state /\ w.requiresReset = v.requiresReset
        /\ w.writing.socket = v.socket
    BY <1>3, <1>6
  <2>2. HelloMessage(w).last = HelloMessage(v).last
    BY <1>1, <2>1 DEF Keeps
  <2>. QED
    BY <1>6, <2>1, <2>2 DEF Keeps
<1>7. CASE v.ready /\ Fails(v, w)
  <2>1. /\ Keeps(v, w) /\ w.state = "closing" /\ w.requiresReset = TRUE
        /\ w.writing = v.writing
    BY <1>4, <1>7
  <2>2. HelloMessage(w).last = None
    BY <1>1, <2>1
  <2>. QED
    BY <1>7, <2>1, <2>2 DEF Keeps
<1>. QED
  BY <1>2, <1>5, <1>6, <1>7

\* A client that takes a message stays at its socket, and so does a new write.
StaysThere(v, w) ==
  /\ w.socket = v.socket /\ w.state \in {"open", "closing"}
  /\ w.writing = v.writing \/ w.writing.socket = v.socket

\* What the client becomes when it takes a message: a ready that it acts on.
LEMMA TakeReady ==
  ASSUME NEW v \in View, v.state \in {"open", "closing"}, v.socket \in Sockets,
         NEW t, NEW d \in Seq(Ready \cup Frame), d # <<>>, NEW u, NEW n \in Nat,
         Sync(v, t, d, u, n), WireBounds(t, d, u, n), t.phase # "hello",
         t.phase = "live" => FollowsUpTo(d, Lag(t)), Lag(t) \in Int,
         NEW m \in Ready, m = d[1], NEW w \in AcceptReady(v, m)
  PROVE  /\ w \in View /\ Sync(w, t, Tail(d), u, n) /\ Drained(w)
         /\ \A a, p : Worth(v, t, d, a, p) => Worth(w, t, Tail(d), a, p)
         /\ StaysThere(v, w)
<1>1. /\ v.state = "open" /\ v.writing = Idle /\ ~Engaged(v) /\ ~v.helloDue
      /\ IF m.reset THEN HelloMessage(v).last < m.seq ELSE HelloMessage(v).last = m.seq
  BY ReceiveReadySync
<1>2. Greeted(d) /\ ~Greeted(Tail(d))
  <2>1. m.type = "ready" /\ Head(d) = d[1] /\ ~Greeted(Tail(d))
    BY MessageFields, WireHead
  <2>. QED
    BY <2>1 DEF Greeted
<1>3. CASE w \in View /\ Fails(v, w)
  <2>1. Sync(w, t, Tail(d), u, n) /\ Drained(w)
    BY <1>3, ReceiveReadySync
  <2>2. \A a, p : Worth(v, t, d, a, p) => Worth(w, t, Tail(d), a, p)
    BY <1>1, <1>3, FailWorth DEF Worth
  <2>. QED
    BY <1>3, <2>1, <2>2 DEF Fails, Keeps, StaysThere
<1>4. CASE m.reset /\ w \in View /\ Rewinds(v, w, m)
  <2>1. Sync(w, t, Tail(d), u, n) /\ Drained(w)
    BY <1>4, ReceiveReadySync
  <2>2. \A a, p : Worth(v, t, d, a, p) => Worth(w, t, Tail(d), a, p)
    BY <1>1, <1>2, <1>4, ReadyWorth
  <2>. QED
    BY <1>1, <1>4, <2>1, <2>2 DEF Rewinds, Keeps, Reset, StaysThere
<1>5. ASSUME ~m.reset, ~v.requiresReset, v.last = m.seq,
             NEW z \in View, Resumes(v, z), w \in Drain(z)
      PROVE  /\ w \in View /\ Sync(w, t, Tail(d), u, n) /\ Drained(w)
             /\ \A a, p : Worth(v, t, d, a, p) => Worth(w, t, Tail(d), a, p)
             /\ StaysThere(v, w)
  <2>1. Sync(z, t, Tail(d), u, n)
    BY <1>5, ReceiveReadySync
  <2>2. z.socket = v.socket /\ z.state = v.state /\ z.writing = v.writing
    BY <1>1, <1>5 DEF Resumes, Keeps
  <2>3. w \in View /\ Sync(w, t, Tail(d), u, n) /\ Drained(w)
    BY <1>5, <2>1, <2>2, DrainSync
  <2>4. \A a, p : Worth(v, t, d, a, p) => Worth(w, t, Tail(d), a, p)
    <3>1. \A a, p : Worth(v, t, d, a, p) => Worth(z, t, Tail(d), a, p)
      BY <1>1, <1>2, <1>5, ReadyWorth
    <3>2. WriterInv(z)
      BY <2>1 DEF Sync
    <3>. QED
      BY <1>5, <2>2, <3>1, <3>2, DrainWorth
  <2>5. /\ w.socket = z.socket /\ (w.state = z.state \/ w.state = "closing")
        /\ w.writing = z.writing \/ w.writing.socket = z.socket
    BY <1>5, <2>2, DrainStays
  <2>. QED
    BY <1>1, <2>2, <2>3, <2>4, <2>5 DEF StaysThere
<1>. QED
  BY <1>1, <1>3, <1>4, <1>5, AcceptReadyCases

\* And a frame.
LEMMA TakeFrame ==
  ASSUME NEW v \in View, v.state \in {"open", "closing"}, v.socket \in Sockets,
         NEW t, NEW d \in Seq(Ready \cup Frame), d # <<>>, NEW u, NEW n \in Nat,
         Sync(v, t, d, u, n), Drained(v), WireBounds(t, d, u, n),
         t.phase = "live" => FollowsUpTo(d, Lag(t)), Lag(t) \in Int,
         NEW f \in Frame, f = d[1], NEW w \in AcceptFrame(v, f)
  PROVE  /\ w \in View /\ Sync(w, t, Tail(d), u, n) /\ Drained(w)
         /\ \A a, p : Worth(v, t, d, a, p) /\ FrameHonest(f, a, p) =>
              Worth(w, t, Tail(d), a, p)
         /\ StaysThere(v, w)
<1>1. PICK z \in View : Buffers(v, z, f) /\ w \in Drain(z)
  BY AcceptFrameCases
<1>2. Sync(z, t, Tail(d), u, n) /\ (z.ready => z.socket \in Sockets)
  BY <1>1, ReceiveFrameSync
<1>3. z.socket = v.socket /\ z.state = v.state /\ z.writing = v.writing
  BY <1>1 DEF Buffers, Keeps
<1>4. w \in View /\ Sync(w, t, Tail(d), u, n) /\ Drained(w)
  BY <1>1, <1>2, DrainSync
<1>5. Head(d) = d[1] /\ ~Greeted(Tail(d))
  BY WireHead
<1>6. v.state = "open" => Engaged(v)
  <2>1. ~Greeted(d)
    BY <1>5, FrameFields DEF Greeted
  <2>. QED
    BY <2>1 DEF Sync, Handshake, Waits
<1>7. \A a, p : Worth(v, t, d, a, p) /\ FrameHonest(f, a, p) => Worth(w, t, Tail(d), a, p)
  <2>1. \A a, p : Worth(v, t, d, a, p) /\ FrameHonest(f, a, p) => Worth(z, t, Tail(d), a, p)
    BY <1>1, <1>5, <1>6, BufferWorth
  <2>2. WriterInv(z)
    BY <1>2 DEF Sync
  <2>. QED
    BY <1>1, <1>2, <2>1, <2>2, DrainWorth
<1>8. /\ w.socket = z.socket /\ (w.state = z.state \/ w.state = "closing")
      /\ w.writing = z.writing \/ w.writing.socket = z.socket
  BY <1>1, <1>2, DrainStays
<1>. QED
  BY <1>3, <1>4, <1>7, <1>8 DEF StaysThere

LEMMA ReceiveStep ==
  ASSUME StreamInv, NEW c \in Clients, Receive(c)
  PROVE  StreamInv'
<1>. DEFINE v == view[c]
<1>1. /\ v \in View /\ SocketOwned(c) /\ Drained(v)
      /\ v.state \in {"open", "closing"}
      /\ v.socket \in Sockets /\ v.socket \notin cut
  BY BrowserParts DEF Receive
<1>2. PICK k \in Sockets : k = v.socket
  BY <1>1
<1>3. /\ k \notin cut
      /\ Sync(v, conn[k], down[k], up[k], next)
      /\ ~skipped => Worth(v, conn[k], down[k], queryChunks, parsed)
  BY <1>1, <1>2, BrowserParts
<1>4. /\ TypeOK /\ DeliveryInv /\ next \in Nat /\ WireInv(k)
      /\ view \in [Clients -> View] /\ parsed \in SUBSET Sequence /\ skipped \in BOOLEAN
      /\ conn \in [Sockets -> Connection] /\ cut \in SUBSET Sockets
      /\ down \in [Sockets -> Seq(Ready \cup Frame)]
  BY StreamTypes DEF Sequence
<1>5. /\ down[k] # <<>> /\ down' = [down EXCEPT ![k] = Tail(@)]
      /\ UNCHANGED <<sessionVars, conn, up, cut, parsed, skipped>>
  BY <1>2 DEF Receive
<1>6. TypeOK' /\ DeliveryInv'
  <2>1. Next
    BY <1>5 DEF Next, Client, ClientReceives
  <2>. QED
    BY <1>4, <2>1, NextType, NextInv
<1>. DEFINE t == conn[k]
            d == down[k]
            m == d[1]
<1>7. /\ t.phase \notin {"unused", "hello"}
      /\ Lag(t) \in Int
      /\ t.phase = "live" => FollowsUpTo(d, Lag(t))
  <2>1. SocketInv(k)
    BY <1>4 DEF DeliveryInv
  <2>2. t.phase \notin {"unused", "hello"}
    BY <1>5, <2>1 DEF SocketInv, Untouched
  <2>3. LastSent(k) \in Int /\ LastSent(k) = Lag(t)
    BY <1>4, SocketType DEF Lag
  <2>4. t.phase = "live" => FollowsUpTo(d, LastSent(k))
    BY <1>3, <2>1, LiveInv DEF Live
  <2>. QED
    BY <2>2, <2>3, <2>4
<1>8. d \in Seq(Ready \cup Frame) /\ d # <<>> /\ WireBounds(t, d, up[k], next)
  BY <1>4, <1>5 DEF WireInv
<1>9. /\ m \in Ready \cup Frame /\ Head(d) = m
      /\ WireBounds(t, Tail(d), up[k], next)
  BY <1>4, <1>8, WireHead
<1>10. ~skipped => /\ WireHonest(t, Tail(d), up[k], queryChunks, parsed)
                   /\ m.type = "frame" => FrameHonest(m, queryChunks, parsed)
  BY <1>4, <1>8, TailHonest DEF WireInv
<1>11. PICK w \in IF m.type = "ready" THEN AcceptReady(v, m) ELSE AcceptFrame(v, m) :
         view' = [view EXCEPT ![c] = w]
  BY <1>2, <1>9 DEF Receive
<1>12. /\ w \in View /\ Sync(w, t, Tail(d), up[k], next) /\ Drained(w)
       /\ ~skipped => Worth(w, t, Tail(d), queryChunks, parsed)
       /\ w.socket = k /\ w.state \in {"open", "closing"}
       /\ w.writing = v.writing \/ w.writing.socket = k
  <2>. DEFINE u == up[k]
  <2>0. /\ Sync(v, t, d, u, next) /\ WireBounds(t, d, u, next) /\ m = d[1] /\ next \in Nat
        /\ ~skipped => Worth(v, t, d, queryChunks, parsed)
    BY <1>3, <1>4, <1>8
  <2>. HIDE DEF v, t, d, m, u
  <2>3. /\ v \in View /\ v.state \in {"open", "closing"} /\ v.socket \in Sockets
        /\ d \in Seq(Ready \cup Frame) /\ d # <<>> /\ next \in Nat
        /\ Sync(v, t, d, u, next) /\ Drained(v) /\ WireBounds(t, d, u, next)
        /\ t.phase # "hello" /\ Lag(t) \in Int
        /\ t.phase = "live" => FollowsUpTo(d, Lag(t))
        /\ m = d[1]
    BY <1>1, <1>7, <1>8, <2>0
  <2>1. CASE m \in Ready
    <3>1. m.type = "ready"
      BY <2>1, MessageFields
    <3>2. w \in AcceptReady(v, m)
      BY <1>11, <3>1
    <3>3. /\ w \in View /\ Sync(w, t, Tail(d), u, next) /\ Drained(w)
          /\ \A a, p : Worth(v, t, d, a, p) => Worth(w, t, Tail(d), a, p)
      BY <2>1, <2>3, <3>2, TakeReady
    <3>4. StaysThere(v, w)
      BY <2>1, <2>3, <3>2, <3>3, TakeReady
    <3>. QED
      BY <1>2, <2>0, <3>3, <3>4 DEF u, StaysThere
  <2>2. CASE m \in Frame
    <3>1. m.type = "frame"
      BY <2>2, FrameFields
    <3>2. w \in AcceptFrame(v, m)
      BY <1>11, <3>1
    <3>3. /\ w \in View /\ Sync(w, t, Tail(d), u, next) /\ Drained(w)
          /\ \A a, p : Worth(v, t, d, a, p) /\ FrameHonest(m, a, p) =>
               Worth(w, t, Tail(d), a, p)
      BY <2>2, <2>3, <3>2, TakeFrame
    <3>4. StaysThere(v, w)
      BY <2>2, <2>3, <3>2, <3>3, TakeFrame
    <3>. QED
      BY <1>2, <1>10, <2>0, <3>1, <3>3, <3>4 DEF u, StaysThere
  <2>. QED
    BY <1>9, <2>1, <2>2
<1>13. /\ conn' = conn /\ up' = up /\ cut' = cut /\ down'[k] = Tail(d)
       /\ \A j \in Sockets \ {k} : down'[j] = down[j]
       /\ next' = next /\ queryChunks' = queryChunks /\ parsed' = parsed /\ skipped' = skipped
  BY <1>4, <1>5 DEF sessionVars
<1>14. Moves(c, w)
  BY <1>2, <1>4, <1>5, <1>11, <1>12, <1>13 DEF Moves
<1>15. WireInv(k)'
  <2>1. /\ WireBounds(conn'[k], down'[k], up'[k], next')
        /\ ~skipped' => WireHonest(conn'[k], down'[k], up'[k], queryChunks', parsed')
    BY <1>9, <1>10, <1>13
  <2>. QED
    BY <2>1 DEF WireInv
<1>16. SocketOwned(c)'
  <2>1. w.writing # Idle => conn'[w.writing.socket].phase # "unused"
    BY <1>1, <1>7, <1>12, <1>13 DEF SocketOwned
  <2>2. w.state # "connecting" /\ w.state # "none" /\ v.state # "none" /\ conn'[k].phase # "unused"
    BY <1>1, <1>7, <1>12, <1>13
  <2>. QED
    BY <1>2, <1>11, <1>12, <1>13, <2>1, <2>2, StaysOwned
<1>17. BrowserInv(c)'
  <2>1. view'[c] = w
    BY <1>4, <1>11
  <2>2. /\ Sync(w, conn'[k], down'[k], up'[k], next')
        /\ ~skipped' => Worth(w, conn'[k], down'[k], queryChunks', parsed')
    BY <1>12, <1>13
  <2>. QED
    BY <1>12, <1>16, <2>1, <2>2 DEF BrowserInv, Sync, Worth
<1>. QED
  <2>1. DeliveryTypeOK' /\ parsed' \in SUBSET Sequence /\ skipped' \in BOOLEAN
    BY <1>4, <1>6, <1>13 DEF TypeOK
  <2>2. \A j \in Sockets : j = view[c].socket => WireInv(j)'
    BY <1>2, <1>15
  <2>. QED
    BY <1>6, <1>12, <1>14, <1>17, <2>1, <2>2, ClientStepParts

-----------------------------------------------------------------------------
(***************************************************************************)
(* The open event.                                                         *)
(***************************************************************************)

LEMMA HelloTyped ==
  ASSUME NEW v \in View
  PROVE  HelloMessage(v) \in Hello /\ HelloMessage(v) \in UpMessage
<1>1. v.last \in Resume /\ None \in Resume
  BY ViewFields DEF Resume, None
<1>2. HelloMessage(v) \in Hello
  BY <1>1 DEF HelloMessage, Hello
<1>. QED
  BY <1>2 DEF UpMessage

LEMMA OpenStep ==
  ASSUME StreamInv, NEW c \in Clients, Open(c)
  PROVE  StreamInv'
<1>. DEFINE v == view[c]
<1>1. /\ v \in View /\ SocketOwned(c) /\ Drained(v)
      /\ v.state = "connecting"
      /\ v.socket \in Sockets /\ v.socket \notin cut
      /\ v.writing # Idle => v.writing.socket # v.socket
  BY BrowserParts DEF Open
<1>2. PICK k \in Sockets : k = v.socket
  BY <1>1
<1>3. /\ k \notin cut
      /\ Sync(v, conn[k], down[k], up[k], next)
      /\ ~skipped => Worth(v, conn[k], down[k], queryChunks, parsed)
  BY <1>1, <1>2, BrowserParts
<1>4. /\ TypeOK /\ DeliveryInv /\ next \in Nat /\ WireInv(k)
      /\ view \in [Clients -> View] /\ parsed \in SUBSET Sequence /\ skipped \in BOOLEAN
      /\ conn \in [Sockets -> Connection] /\ cut \in SUBSET Sockets
      /\ down \in [Sockets -> Seq(Ready \cup Frame)]
      /\ up \in [Sockets -> Seq(UpMessage)]
  BY StreamTypes DEF Sequence
<1>5. conn[k].phase = "unused" /\ down[k] = <<>> /\ up[k] = <<>>
  <2>1. conn[k].phase = "unused"
    BY <1>2 DEF Open, Upgrade
  <2>2. SocketInv(k)
    BY <1>4 DEF DeliveryInv
  <2>. QED
    BY <1>4, <2>1, <2>2 DEF SocketInv, WireInv, WireBounds
<1>. DEFINE t2 == [Fresh EXCEPT !.phase = "hello", !.rx = next]
            u2 == IF v.writing = Idle THEN <<HelloMessage(v)>> ELSE <<>>
            w == [[v EXCEPT !.state = "open"] EXCEPT !.helloDue = v.writing # Idle]
<1>6. /\ conn' = [conn EXCEPT ![k] = t2]
      /\ up' = [up EXCEPT ![k] = u2]
      /\ view' = [view EXCEPT ![c] = w]
      /\ UNCHANGED <<sessionVars, down, cut, parsed>>
  <2>1. /\ conn' = [conn EXCEPT ![k] = t2]
        /\ up' = IF v.writing = Idle THEN [up EXCEPT ![k] = <<HelloMessage(v)>>] ELSE up
        /\ view' = [view EXCEPT ![c] = w]
        /\ UNCHANGED <<sessionVars, down, cut, parsed>>
    BY <1>2 DEF Open, Upgrade
  <2>2. up = [up EXCEPT ![k] = <<>>]
    BY <1>4, <1>5
  <2>3. up' = [up EXCEPT ![k] = u2]
    <3>1. CASE v.writing = Idle
      BY <2>1, <3>1
    <3>2. CASE v.writing # Idle
      BY <2>1, <2>2, <3>2
    <3>. QED
      BY <3>1, <3>2
  <2>. QED
    BY <2>1, <2>3
<1>7. /\ skipped' \in BOOLEAN /\ (skipped => skipped')
      /\ ~skipped' => (v.writing = Idle /\ v.owes # NoSocket => HelloMessage(v).last = None)
  BY <1>4 DEF Open
<1>8. t2 \in Connection /\ t2.phase = "hello" /\ t2.rx = next /\ t2.sent = <<>>
  <2>1. <<>> \in Seq(Chunk) /\ <<>> \in Seq(Sent)
    OBVIOUS
  <2>. QED
    BY <1>4, <2>1 DEF Fresh, Connection, Phase, Sequence
<1>9. /\ u2 \in Seq(UpMessage)
      /\ \A i \in 1 .. Len(u2) : u2[i].type # "ack"
  <2>1. HelloMessage(v) \in UpMessage /\ HelloMessage(v).type = "hello"
    BY <1>1, HelloTyped DEF Hello
  <2>. HIDE DEF UpMessage
  <2>. QED
    BY <2>1
<1>. HIDE DEF t2, u2, w
<1>10. /\ w \in View /\ w.socket = v.socket /\ w.state = "open" /\ w.writing = v.writing
       /\ w.ready = v.ready /\ w.frames = v.frames
  <2>1. w \in View
    BY <1>1 DEF View, w
  <2>. QED
    BY <1>1, <2>1 DEF View, w
<1>11. /\ conn'[k] = t2 /\ up'[k] = u2 /\ down' = down /\ cut' = cut
       /\ \A j \in Sockets \ {k} : conn'[j] = conn[j] /\ up'[j] = up[j]
       /\ next' = next /\ queryChunks' = queryChunks /\ parsed' = parsed
  BY <1>4, <1>6 DEF sessionVars
<1>12. DeliveryTypeOK'
  <2>. HIDE DEF Connection, UpMessage
  <2>1. conn' \in [Sockets -> Connection] /\ up' \in [Sockets -> Seq(UpMessage)]
    BY <1>4, <1>6, <1>8, <1>9
  <2>. QED
    BY <1>4, <1>11, <2>1 DEF DeliveryTypeOK
<1>13. DeliveryInv'
  <2>. SUFFICES ASSUME NEW j \in Sockets PROVE SocketInv(j)'
    BY DEF DeliveryInv
  <2>1. CASE j # k
    BY <1>4, <1>11, <2>1, Unaffected DEF DeliveryInv
  <2>2. CASE j = k
    <3>1. conn'[j] = t2 /\ down'[j] = <<>> /\ next' = next
      BY <1>5, <1>11, <2>2
    <3>2. Untouched(j)'
      BY <1>4, <1>8, <3>1 DEF Untouched
    <3>. QED
      BY <1>8, <3>1, <3>2 DEF SocketInv, Live
  <2>. QED
    BY <2>1, <2>2
<1>14. Moves(c, w)
  <2>1. \A j \in Sockets : conn[j].phase # "unused" => conn'[j].phase # "unused"
    BY <1>5, <1>11
  <2>. QED
    BY <1>2, <1>4, <1>6, <1>7, <1>10, <1>11, <2>1 DEF Moves
<1>15. WireInv(k)'
  <2>1. Len(<<>>) = 0
    OBVIOUS
  <2>2. WireBounds(t2, <<>>, u2, next)
    BY <1>8, <1>9, <2>1 DEF WireBounds
  <2>3. WireHonest(t2, <<>>, u2, queryChunks, parsed)
    BY <1>8, <1>9, <2>1 DEF WireHonest
  <2>4. /\ WireBounds(conn'[k], down'[k], up'[k], next')
        /\ WireHonest(conn'[k], down'[k], up'[k], queryChunks', parsed')
    BY <1>5, <1>11, <2>2, <2>3
  <2>. QED
    BY <2>4 DEF WireInv
<1>16. SocketOwned(c)'
  <2>1. v.writing # Idle => conn'[v.writing.socket].phase # "unused"
    <3>1. v.writing # Idle => v.writing.socket \in Sockets \ {k}
      BY <1>1, <1>2, WritingFields
    <3>. QED
      BY <1>1, <1>11, <3>1 DEF SocketOwned
  <2>2. conn'[k].phase # "unused" /\ w.state # "connecting" /\ w.state # "none"
    BY <1>8, <1>10, <1>11
  <2>. QED
    BY <1>1, <1>2, <1>6, <1>10, <1>11, <2>1, <2>2, StaysOwned
<1>17. BrowserInv(c)'
  <2>1. view'[c] = w
    BY <1>4, <1>6
  <2>2. w \in View /\ Sync(w, t2, down[k], u2, next) /\ Drained(w)
    <3>1. /\ u2 = IF v.writing = Idle THEN <<HelloMessage(v)>> ELSE <<>>
          /\ w = [[v EXCEPT !.state = "open"] EXCEPT !.helloDue = v.writing # Idle]
      BY DEF u2, w
    <3>2. Drained(w)
      BY <1>1, <1>10 DEF Drained
    <3>. HIDE DEF v
    <3>3. Sync(w, t2, down[k], u2, next)
      BY <1>1, <1>3, <1>5, <1>8, <3>1, OpenSync
    <3>. QED
      BY <1>10, <3>2, <3>3
  <2>3. ~skipped' => Worth(w, t2, down[k], queryChunks, parsed)
    <3>1. WriterInv(v)
      BY <1>3 DEF Sync
    <3>. QED
      BY <1>1, <1>3, <1>5, <1>7, <3>1, OpenWorth DEF w
  <2>4. /\ Sync(w, conn'[k], down'[k], up'[k], next')
        /\ ~skipped' => Worth(w, conn'[k], down'[k], queryChunks', parsed')
    BY <1>11, <2>2, <2>3
  <2>. QED
    BY <1>2, <1>10, <1>16, <2>1, <2>2, <2>4 DEF BrowserInv, Sync, Worth
<1>. QED
  <2>1. parsed' \in SUBSET Sequence
    BY <1>4, <1>11
  <2>2. \A j \in Sockets : j = view[c].socket => WireInv(j)'
    BY <1>2, <1>15
  <2>. QED
    BY <1>7, <1>10, <1>12, <1>13, <1>14, <1>17, <2>1, <2>2, ClientStepParts

-----------------------------------------------------------------------------
(***************************************************************************)
(* The callback of a write.                                                *)
(***************************************************************************)

\* The view between the callback and drain.
LEMMA WriteDoneCases ==
  ASSUME NEW v \in View, v.writing # Idle, WriterInv(v),
         NEW w \in IF v.writing.kind = "output" THEN OutputDone(v) ELSE ResetDone(v)
  PROVE  \E z \in View :
           /\ w \in Drain(z)
           /\ v.writing.kind = "reset" => Rewound(v, z)
           /\ v.writing.kind = "output" => Wrote(v, z)
<1>1. CASE v.writing.kind = "output"
  BY <1>1, OutputDoneCases
<1>2. CASE v.writing.kind = "reset"
  <2>1. v.ready = FALSE
    BY <1>2, ViewFields DEF WriterInv
  <2>. QED
    BY <1>2, <2>1, ResetDoneCases
<1>. QED
  BY <1>1, <1>2, WritingFields

\* Afterwards the client is still at its socket, and may be writing again if it
\* is open.
Carries(v, z, w) ==
  /\ w \in View
  /\ w.socket = v.socket /\ w.helloDue = v.helloDue
  /\ w.state = v.state \/ (v.state = "open" /\ w.state = "closing")
  /\ w.writing = Idle \/ (v.state = "open" /\ w.writing.socket = v.socket)

LEMMA WrittenReady ==
  ASSUME NEW v \in View, v.writing # Idle, v.state # "none" => v.socket \in Sockets,
         v.state \in {"none", "connecting"} => v.writing.socket # v.socket, WriterInv(v),
         NEW z \in View, v.writing.kind = "reset" => Rewound(v, z),
         v.writing.kind = "output" => Wrote(v, z)
  PROVE  /\ z.socket = v.socket /\ z.state = v.state /\ z.helloDue = v.helloDue
         /\ z.writing = Idle
         /\ z.ready => v.state = "open" /\ z.socket \in Sockets
<1>1. /\ z.socket = v.socket /\ z.state = v.state /\ z.helloDue = v.helloDue
      /\ z.writing = Idle
      /\ z.ready => v.ready \/ (v.writing.kind = "reset" /\ v.writing.socket = v.socket)
  <2>1. CASE v.writing.kind = "output"
    <3>1. Wrote(v, z)
      BY <2>1
    <3>. QED
      BY <3>1 DEF Wrote
  <2>2. CASE v.writing.kind = "reset"
    <3>1. Rewound(v, z)
      BY <2>2
    <3>. QED
      BY <2>2, <3>1 DEF Rewound
  <2>. QED
    BY <2>1, <2>2, WritingFields
<1>2. z.ready => v.state = "open"
  <2>1. v.ready => v.state = "open"
    BY ViewFields DEF WriterInv
  <2>2. v.state # "closing"
    BY DEF WriterInv
  <2>. QED
    BY <1>1, <2>1, <2>2, ViewFields
<1>. QED
  BY <1>1, <1>2

LEMMA AfterWrite ==
  ASSUME NEW v \in View, v.writing # Idle, v.state # "none" => v.socket \in Sockets,
         v.state \in {"none", "connecting"} => v.writing.socket # v.socket, WriterInv(v),
         NEW z \in View, v.writing.kind = "reset" => Rewound(v, z),
         v.writing.kind = "output" => Wrote(v, z), NEW w \in Drain(z)
  PROVE  Carries(v, z, w)
<1>1. /\ z.socket = v.socket /\ z.state = v.state /\ z.helloDue = v.helloDue
      /\ z.writing = Idle
      /\ z.ready => v.state = "open" /\ z.socket \in Sockets
  BY WrittenReady
<1>2. /\ w \in View /\ w.socket = z.socket /\ w.helloDue = z.helloDue
      /\ w.state = z.state \/ (z.ready /\ w.state = "closing")
      /\ w.writing = z.writing \/ (z.ready /\ w.writing.socket = z.socket)
  BY <1>1, DrainCases, DrainStays
<1>. QED
  BY <1>1, <1>2 DEF Carries

\* An acknowledged frame leaves no query behind.
LEMMA AckHonest ==
  ASSUME NEW v \in View, v.writing.kind = "output", ~v.requiresReset,
         NEW t, NEW d, NEW u, NEW n, Sync(v, t, d, u, n),
         NEW a \in SUBSET Nat, NEW p, Worth(v, t, d, a, p), NEW z, Wrote(v, z),
         NEW p2, p2 = p \cup QueriesIn(v.writing.frame.payload)
  PROVE  DoneUpTo(v.writing.frame.end, a, p2)
<1>1. Worth(z, t, d, a, p2)
  BY OutputDoneWorth
<1>2. z.last = v.writing.frame.end /\ z.owes = NoSocket
  BY DEF Worth, ScreenInv, Wrote
<1>3. z.last # None
  <2>1. z.last \in Nat
    BY <1>2, WritingFields, FrameFields
  <2>. QED
    BY <2>1 DEF None
<1>. QED
  BY <1>1, <1>2, <1>3 DEF Worth, ViewHonest

\* What a callback sends: an answer, the acknowledgement of the frame, and the
\* hello that waited for it.
Calls(v, w, asks, acks) ==
  LET answer == IF asks = {} THEN <<>> ELSE <<[type |-> "answer", queries |-> asks]>>
      ack == IF acks THEN <<[type |-> "ack", seq |-> v.writing.frame.end]>> ELSE <<>>
      hello == IF v.helloDue THEN <<HelloMessage(w)>> ELSE <<>>
  IN  answer \o ack \o hello

\* The wire before and after it.
Called(v, w, u, u2, acks) ==
  /\ u2 \in Seq(UpMessage)
  /\ HellosFrom(u2, u, HelloMessage(w))
  /\ \A i \in 1 .. Len(u2) : u2[i].type = "ack" =>
       \/ \E j \in 1 .. Len(u) : u2[i] = u[j]
       \/ acks /\ u2[i].seq = v.writing.frame.end

LEMMA CallbackSends ==
  ASSUME NEW v \in View, NEW w \in View, NEW u \in Seq(UpMessage),
         NEW asks \in SUBSET Sequence, NEW acks \in BOOLEAN,
         acks => v.writing.kind = "output",
         NEW u2 \in {u, u \o Calls(v, w, asks, acks)}
  PROVE  Called(v, w, u, u2, acks)
<1>. DEFINE x == IF asks = {} THEN <<>> ELSE <<[type |-> "answer", queries |-> asks]>>
            y == IF acks THEN <<[type |-> "ack", seq |-> v.writing.frame.end]>> ELSE <<>>
            z == IF v.helloDue THEN <<HelloMessage(w)>> ELSE <<>>
<1>0. u2 \in {u, u \o ((x \o y) \o z)}
  BY DEF Calls
<1>. HIDE DEF x, y, z
<1>. DEFINE answer == [type |-> "answer", queries |-> asks]
            ack == [type |-> "ack", seq |-> v.writing.frame.end]
            hello == HelloMessage(w)
            old == {u[i] : i \in 1 .. Len(u)}
            P == old \cup {answer, hello} \cup {m \in {ack} : acks}
<1>1. answer \in UpMessage /\ answer.type = "answer"
  BY DEF UpMessage, Answer
<1>2. hello \in UpMessage /\ hello.type = "hello"
  BY HelloTyped DEF Hello
<1>3. acks => ack \in UpMessage
  BY WritingFields, FrameFields DEF UpMessage, Ack, Sequence
<1>4. ack.type = "ack" /\ ack.seq = v.writing.frame.end
  OBVIOUS
<1>. HIDE DEF UpMessage, answer, ack, hello
<1>5. old \subseteq UpMessage /\ \A i \in 1 .. Len(u) : u[i] \in old
  BY ElementOfSeq
<1>6. P \subseteq UpMessage
  BY <1>1, <1>2, <1>3, <1>5
<1>7. x \in Seq(P) /\ y \in Seq(P) /\ z \in Seq(P)
  <2>1. answer \in P /\ hello \in P /\ (acks => ack \in P)
    OBVIOUS
  <2>. HIDE DEF P
  <2>2. <<>> \in Seq(P) /\ \A m \in P : <<m>> \in Seq(P)
    OBVIOUS
  <2>3. /\ x = IF asks = {} THEN <<>> ELSE <<answer>>
        /\ y = IF acks THEN <<ack>> ELSE <<>>
        /\ z = IF v.helloDue THEN <<hello>> ELSE <<>>
    BY DEF answer, ack, hello, x, y, z
  <2>. QED
    BY <2>1, <2>2, <2>3
<1>8. u2 \in Seq(UpMessage) /\ \A i \in 1 .. Len(u2) : u2[i] \in P
  <2>1. \A i \in 1 .. Len(u) : u[i] \in P
    BY <1>5
  <2>. HIDE DEF P
  <2>2. u \in Seq(P)
    <3>1. Len(u) \in Nat /\ u \in [1 .. Len(u) -> UpMessage]
      BY LenProperties
    <3>2. u \in [1 .. Len(u) -> P]
      BY <2>1, <3>1
    <3>. QED
      BY <3>1, <3>2, SeqDef
  <2>3. x \o y \in Seq(P)
    BY <1>7, ConcatProperties
  <2>4. (x \o y) \o z \in Seq(P)
    BY <1>7, <2>3, ConcatProperties
  <2>5. u \o ((x \o y) \o z) \in Seq(P)
    BY <2>2, <2>4, ConcatProperties
  <2>6. u2 \in Seq(P)
    BY <1>0, <2>2, <2>5
  <2>7. u2 \in Seq(UpMessage)
    BY <1>6, <2>6, SeqMonotonic
  <2>. QED
    BY <2>6, <2>7, ElementOfSeq
<1>9. ASSUME NEW i \in 1 .. Len(u2)
      PROVE  /\ u2[i].type = "hello" => (\E j \in 1 .. Len(u) : u2[i] = u[j]) \/ u2[i] = hello
             /\ u2[i].type = "ack" => (\E j \in 1 .. Len(u) : u2[i] = u[j]) \/ (acks /\ u2[i] = ack)
  <2>1. u2[i] \in P
    BY <1>8
  <2>2. CASE u2[i] \in old
    BY <2>2
  <2>3. CASE u2[i] \in {answer, hello}
    BY <1>1, <1>2, <2>3
  <2>4. CASE acks /\ u2[i] = ack
    BY <1>4, <2>4
  <2>. QED
    BY <2>1, <2>2, <2>3, <2>4
<1>10. HellosFrom(u2, u, HelloMessage(w))
  BY <1>9 DEF HellosFrom, hello
<1>. QED
  BY <1>4, <1>8, <1>9, <1>10 DEF Called

\* A wire after a callback.
LEMMA CallbackWire ==
  ASSUME NEW v, NEW w, NEW u, NEW u2, NEW acks, Called(v, w, u, u2, acks),
         NEW t, NEW d, NEW n, WireBounds(t, d, u, n), t.phase = "unused" => u2 = u,
         acks => v.writing.frame.end <= n
  PROVE  WireBounds(t, d, u2, n)
<1>1. \A i \in 1 .. Len(u2) : u2[i].type = "ack" => u2[i].seq <= n
  BY DEF WireBounds, Called
<1>. QED
  BY <1>1 DEF WireBounds

LEMMA CallbackHonest ==
  ASSUME NEW v, NEW w, NEW u, NEW u2, NEW acks, Called(v, w, u, u2, acks),
         NEW t, NEW d, NEW a, NEW p, NEW p2, WireHonest(t, d, u, a, p), p \subseteq p2,
         acks => DoneUpTo(v.writing.frame.end, a, p2)
  PROVE  WireHonest(t, d, u2, a, p2)
<1>1. WireHonest(t, d, u, a, p2)
  BY ParsingHonest
<1>2. \A i \in 1 .. Len(u2) : u2[i].type = "ack" => DoneUpTo(u2[i].seq, a, p2)
  BY <1>1 DEF WireHonest, Called
<1>. QED
  BY <1>1, <1>2 DEF WireHonest

LEMMA WriteDoneStep ==
  ASSUME StreamInv, NEW c \in Clients, WriteDone(c)
  PROVE  StreamInv'
<1>. DEFINE v == view[c]
<1>1. /\ v \in View /\ SocketOwned(c) /\ Drained(v)
      /\ v.writing # Idle
      /\ v.state # "none" => v.socket \in Sockets /\ v.socket \notin cut
      /\ v.state \in {"none", "connecting"} => v.writing.socket # v.socket
  BY BrowserParts DEF WriteDone
<1>2. PICK k : k = v.socket
  OBVIOUS
<1>3. /\ Sync(v, conn[k], down[k], up[k], next)
      /\ ~skipped => Worth(v, conn[k], down[k], queryChunks, parsed)
  BY <1>2, BrowserParts
<1>4. /\ TypeOK /\ DeliveryInv /\ next \in Nat /\ queryChunks \in SUBSET Nat
      /\ view \in [Clients -> View] /\ parsed \in SUBSET Sequence /\ skipped \in BOOLEAN
      /\ conn \in [Sockets -> Connection] /\ cut \in SUBSET Sockets
      /\ down \in [Sockets -> Seq(Ready \cup Frame)]
      /\ up \in [Sockets -> Seq(UpMessage)]
      /\ \A j \in Sockets : WireInv(j)
  BY StreamTypes DEF Sequence
<1>5. /\ WriterInv(v)
      /\ v.writing.kind \in {"output", "reset"}
      /\ v.writing.kind = "output" =>
           /\ v.writing.frame \in Frame
           /\ v.writing.frame.end \in Nat /\ v.writing.frame.end <= next
  <2>1. v.writing.kind = "output" =>
          /\ v.writing.frame \in Frame
          /\ v.writing.frame.end \in Nat
          /\ Covered(v.writing.frame) = v.writing.frame.end
    BY <1>1, WritingFields, FrameFields
  <2>2. v.writing.kind = "output" => Covered(v.writing.frame) <= next
    BY <1>3 DEF Sync, ViewBounds, Produced
  <2>3. WriterInv(v)
    BY <1>3 DEF Sync
  <2>. QED
    BY <1>1, <2>1, <2>2, <2>3, WritingFields
<1>. DEFINE isOutput == v.writing.kind = "output"
            asks == IF isOutput THEN QueriesIn(v.writing.frame.payload) ELSE {}
            acks == isOutput /\ ~v.requiresReset /\ v.socket = v.writing.socket
<1>6. PICK w \in IF isOutput THEN OutputDone(v) ELSE ResetDone(v) :
        /\ view' = [view EXCEPT ![c] = [w EXCEPT !.helloDue = FALSE]]
        /\ up' = Post(v, Calls(v, w, asks, acks))
        /\ skipped' = (skipped \/ ((IF v.helloDue THEN <<HelloMessage(w)>> ELSE <<>>) # <<>>
                                     /\ w.owes # NoSocket /\ HelloMessage(w).last # None))
  BY DEF WriteDone, Calls
<1>7. parsed' = parsed \cup asks /\ UNCHANGED <<sessionVars, conn, down, cut>>
  BY DEF WriteDone
<1>8. PICK z \in View : /\ w \in Drain(z)
                        /\ v.writing.kind = "reset" => Rewound(v, z)
                        /\ v.writing.kind = "output" => Wrote(v, z)
  BY <1>1, <1>5, <1>6, WriteDoneCases
<1>9. Carries(v, z, w)
  BY <1>1, <1>5, <1>8, AfterWrite
<1>. DEFINE r == [w EXCEPT !.helloDue = FALSE]
<1>10. /\ r \in View /\ w \in View
       /\ r.socket = v.socket
       /\ r.state = v.state \/ (v.state = "open" /\ r.state = "closing")
       /\ r.writing = Idle \/ (v.state = "open" /\ r.writing.socket = v.socket)
       /\ r.ready = w.ready /\ r.frames = w.frames /\ r.writing = w.writing
  <2>1. w \in View
    BY <1>9 DEF Carries
  <2>2. r \in View
    BY <2>1 DEF View
  <2>3. /\ r.socket = w.socket /\ r.state = w.state /\ r.writing = w.writing
        /\ r.ready = w.ready /\ r.frames = w.frames
    BY <2>1 DEF View
  <2>. QED
    BY <1>9, <2>1, <2>2, <2>3 DEF Carries
<1>11. asks \in SUBSET Sequence
  <2>1. CASE isOutput
    <3>1. v.writing.frame.payload \in Seq(Chunk)
      BY <1>5, <2>1, FrameFields
    <3>2. \A i \in DOMAIN v.writing.frame.payload :
            v.writing.frame.payload[i].queries \in SUBSET Sequence
      <4>. SUFFICES ASSUME NEW i \in DOMAIN v.writing.frame.payload
                    PROVE  v.writing.frame.payload[i].queries \in SUBSET Sequence
        OBVIOUS
      <4>1. v.writing.frame.payload[i] \in Chunk
        BY <3>1, LenProperties, ElementOfSeq
      <4>. QED
        BY <4>1 DEF Chunk
    <3>. QED
      BY <2>1, <3>2 DEF QueriesIn
  <2>2. CASE ~isOutput
    BY <2>2
  <2>. QED
    BY <2>1, <2>2
<1>12. /\ conn' = conn /\ down' = down /\ cut' = cut
       /\ next' = next /\ queryChunks' = queryChunks
       /\ parsed \subseteq parsed' /\ parsed' = parsed \cup asks
       /\ skipped' \in BOOLEAN /\ (skipped => skipped')
       /\ ~skipped' => (v.helloDue /\ w.owes # NoSocket => HelloMessage(w).last = None)
  BY <1>4, <1>6, <1>7 DEF sessionVars
<1>. HIDE DEF r, asks, acks
<1>13. \/ up' = up
       \/ /\ v.state = "open" /\ k \in Sockets
          /\ up' = [up EXCEPT ![k] = @ \o Calls(v, w, asks, acks)]
  BY <1>1, <1>2, <1>6 DEF Post
<1>14. \A j \in Sockets \ {k} : up'[j] = up[j]
  BY <1>4, <1>13
<1>15. k \in Sockets => Called(v, w, up[k], up'[k], acks)
  <2>. SUFFICES ASSUME k \in Sockets PROVE Called(v, w, up[k], up'[k], acks)
    OBVIOUS
  <2>1. up'[k] \in {up[k], up[k] \o Calls(v, w, asks, acks)}
    BY <1>4, <1>13
  <2>2. up[k] \in Seq(UpMessage) /\ acks \in BOOLEAN /\ (acks => v.writing.kind = "output")
    BY <1>4 DEF acks
  <2>. QED
    BY <1>1, <1>10, <1>11, <2>1, <2>2, CallbackSends
<1>16. DeliveryTypeOK'
  <2>1. up' \in [Sockets -> Seq(UpMessage)]
    <3>1. k \in Sockets => up'[k] \in Seq(UpMessage)
      BY <1>15 DEF Called
    <3>2. \A j \in Sockets : up'[j] \in Seq(UpMessage)
      BY <1>4, <1>14, <3>1
    <3>3. \/ up' = up
          \/ k \in Sockets /\ up' = [up EXCEPT ![k] = up'[k]]
      BY <1>4, <1>13
    <3>. HIDE DEF UpMessage
    <3>. QED
      BY <1>4, <3>2, <3>3
  <2>. QED
    BY <1>4, <1>12, <2>1 DEF TypeOK, DeliveryTypeOK
<1>17. DeliveryInv'
  <2>. SUFFICES ASSUME NEW j \in Sockets PROVE SocketInv(j)'
    BY DEF DeliveryInv
  <2>. QED
    BY <1>4, <1>12, Unaffected DEF DeliveryInv
<1>18. Moves(c, r)
  <2>1. r.socket \in {view[c].socket, NoSocket}
    BY <1>10
  <2>2. view' = [view EXCEPT ![c] = r]
    BY <1>6 DEF r
  <2>. QED
    BY <1>2, <1>4, <1>7, <1>12, <1>14, <2>1, <2>2 DEF Moves
<1>19. /\ ~skipped /\ acks => DoneUpTo(v.writing.frame.end, queryChunks, parsed')
       /\ acks => v.writing.frame.end <= next
  <2>1. acks => v.writing.kind = "output" /\ ~v.requiresReset
    BY DEF acks
  <2>2. v.writing.kind = "output" => parsed' = parsed \cup QueriesIn(v.writing.frame.payload)
    BY <1>12 DEF asks
  <2>. QED
    BY <1>1, <1>3, <1>4, <1>5, <1>8, <2>1, <2>2, AckHonest
<1>20. ASSUME NEW j \in Sockets, j = k PROVE WireInv(j)'
  <2>1. /\ WireBounds(conn[k], down[k], up[k], next)
        /\ ~skipped => WireHonest(conn[k], down[k], up[k], queryChunks, parsed)
    BY <1>4, <1>20 DEF WireInv
  <2>2. conn[k].phase = "unused" => up'[k] = up[k]
    BY <1>1, <1>2, <1>13 DEF SocketOwned
  <2>3. WireBounds(conn[k], down[k], up'[k], next)
    BY <1>15, <1>19, <1>20, <2>1, <2>2, CallbackWire
  <2>4. ~skipped => WireHonest(conn[k], down[k], up'[k], queryChunks, parsed')
    BY <1>12, <1>15, <1>19, <1>20, <2>1, CallbackHonest
  <2>5. /\ WireBounds(conn'[j], down'[j], up'[j], next')
        /\ ~skipped' => WireHonest(conn'[j], down'[j], up'[j], queryChunks', parsed')
    BY <1>12, <1>20, <2>3, <2>4
  <2>. QED
    BY <2>5 DEF WireInv
<1>21. SocketOwned(c)'
  <2>1. v.state \in {"open", "closing"} => conn[k].phase # "unused"
    BY <1>1, <1>2 DEF SocketOwned
  <2>2. v.state = "connecting" => conn[k].phase = "unused"
    BY <1>1, <1>2 DEF SocketOwned
  <2>3. view' = [view EXCEPT ![c] = r]
    BY <1>6 DEF r
  <2>. QED
    BY <1>1, <1>2, <1>10, <1>12, <2>1, <2>2, <2>3, StaysOwned
<1>22. /\ Sync(r, conn[k], down[k], up'[k], next)
       /\ Drained(r)
  <2>1. HellosFrom(up'[k], up[k], HelloMessage(w))
    <3>1. CASE k \in Sockets
      BY <1>15, <3>1 DEF Called
    <3>2. CASE k \notin Sockets
      <4>1. up'[k] = up[k]
        BY <1>13, <3>2
      <4>. QED
        BY <4>1 DEF HellosFrom
    <3>. QED
      BY <3>1, <3>2
  <2>2. r = [w EXCEPT !.helloDue = FALSE]
    BY DEF r
  <2>. QED
    BY <1>1, <1>3, <1>4, <1>8, <2>1, <2>2, WriteDoneSync
<1>23. ~skipped' => Worth(r, conn[k], down[k], queryChunks, parsed')
  <2>1. r = [w EXCEPT !.helloDue = FALSE]
    BY DEF r
  <2>2. parsed' = parsed \cup IF v.writing.kind = "output"
                               THEN QueriesIn(v.writing.frame.payload) ELSE {}
    BY <1>12 DEF asks
  <2>. QED
    BY <1>1, <1>3, <1>4, <1>8, <1>12, <2>1, <2>2, WriteDoneWorth
<1>24. BrowserInv(c)'
  <2>1. view'[c] = r
    BY <1>4, <1>6 DEF r
  <2>2. /\ Sync(r, conn'[k], down'[k], up'[k], next')
        /\ ~skipped' => Worth(r, conn'[k], down'[k], queryChunks', parsed')
    BY <1>12, <1>22, <1>23
  <2>. QED
    BY <1>2, <1>10, <1>21, <1>22, <2>1, <2>2 DEF BrowserInv, Sync, Worth
<1>. QED
  <2>1. parsed' \in SUBSET Sequence
    BY <1>4, <1>11, <1>12
  <2>2. \A j \in Sockets : j = view[c].socket => WireInv(j)'
    BY <1>2, <1>20
  <2>. QED
    BY <1>10, <1>12, <1>16, <1>17, <1>18, <1>24, <2>1, <2>2, ClientStepParts

-----------------------------------------------------------------------------
(***************************************************************************)
(* The invariant.                                                          *)
(***************************************************************************)

\* No browser has opened a socket yet.
LEMMA InitStreamInv == StreamInit => StreamInv
<1>. SUFFICES ASSUME StreamInit PROVE StreamInv
  OBVIOUS
<1>1. /\ TypeOK /\ DeliveryInv
      /\ next = 0 /\ first = 1 /\ queryChunks = {} /\ cut = {}
      /\ view = [c \in Clients |-> NewView] /\ parsed = {} /\ skipped = FALSE
      /\ \A k \in Sockets : conn[k] = Fresh /\ up[k] = <<>> /\ down[k] = <<>>
  BY InitType, InitInv DEF StreamInit, Init, SessionInit, DeliveryInit
<1>2. NewView \in View
  <2>1. <<>> \in Seq(Frame)
    OBVIOUS
  <2>. HIDE DEF Frame
  <2>. QED
    BY <2>1 DEF NewView, View, MaybeSocket, Resume, None, Sequence
<1>3. StreamTypeOK
  BY <1>1, <1>2 DEF StreamTypeOK
<1>4. QueriesInv
  BY <1>1 DEF QueriesInv
<1>5. Len(<<>>) = 0
  OBVIOUS
<1>6. ASSUME NEW k \in Sockets PROVE WireInv(k)
  BY <1>1, <1>5 DEF WireInv, WireBounds, WireHonest, Fresh
<1>7. ASSUME NEW c \in Clients PROVE BrowserInv(c)
  <2>. DEFINE v == view[c]
  <2>1. /\ v.socket = NoSocket /\ v.state = "none" /\ ~v.helloDue /\ v.last = -1
        /\ ~v.ready /\ ~v.requiresReset /\ v.writing = Idle /\ v.frames = <<>>
        /\ v.owes = NoSocket
    BY <1>1 DEF NewView, None
  <2>2. v.writing.kind = "idle"
    BY <2>1 DEF Idle
  <2>3. SocketOwned(c)
    <3>1. \A d \in Clients : view[d].socket = NoSocket
      BY <1>1 DEF NewView
    <3>. QED
      BY <1>1, <2>1, <3>1 DEF SocketOwned
  <2>4. HelloMessage(v).last = None
    BY <2>1 DEF HelloMessage, None
  <2>. HIDE DEF v
  <2>5. Drained(v) /\ WriterInv(v) /\ \A t, d, u : Handshake(v, t, d, u)
    BY <2>1, <2>2 DEF Drained, WriterInv, Handshake
  <2>6. ViewBounds(v, next)
    BY <1>1, <1>5, <2>1, <2>2 DEF ViewBounds
  <2>7. /\ ViewHonest(v, queryChunks, parsed)
        /\ \A t, d : ScreenInv(v, t, d)
    BY <1>1, <1>5, <2>1, <2>2, <2>4 DEF ViewHonest, ScreenInv, None
  <2>. QED
    BY <2>3, <2>5, <2>6, <2>7 DEF BrowserInv, v
<1>. QED
  BY <1>1, <1>3, <1>4, <1>6, <1>7 DEF StreamInv

\* Every step of the session, of a task or of a browser keeps it.
LEMMA NextStreamInv == StreamInv /\ [StreamNext]_streamVars => StreamInv'
<1>. SUFFICES ASSUME StreamInv, [StreamNext]_streamVars PROVE StreamInv'
  OBVIOUS
<1>1. CASE ServerStep
  BY <1>1, ServerStepInv
<1>2. ASSUME NEW c \in Clients, ClientStep(c) PROVE StreamInv'
  BY <1>2, LeavingInv, OpenStep, ReceiveStep, WriteDoneStep DEF ClientStep
<1>3. CASE UNCHANGED streamVars
  <2>1. UNCHANGED <<sessionVars, conn, up, down, cut, view, parsed, skipped>>
    BY <1>3 DEF streamVars, deliveryVars
  <2>2. TypeOK' /\ DeliveryInv'
    <3>1. UNCHANGED vars
      BY <2>1 DEF vars, deliveryVars
    <3>. QED
      BY <3>1, StreamTypes, NextType, NextInv
  <2>3. StreamTypeOK'
    BY <2>1, <2>2 DEF StreamInv, StreamTypeOK
  <2>4. QueriesInv'
    BY <2>1 DEF StreamInv, QueriesInv, sessionVars
  <2>5. ASSUME NEW k \in Sockets PROVE WireInv(k)'
    BY <2>1 DEF StreamInv, WireInv, sessionVars
  <2>6. ASSUME NEW c \in Clients PROVE BrowserInv(c)'
    BY <2>1 DEF StreamInv, BrowserInv, SocketOwned, sessionVars
  <2>. QED
    BY <2>2, <2>3, <2>4, <2>5, <2>6 DEF StreamInv
<1>. QED
  BY <1>1, <1>2, <1>3 DEF StreamNext

\* For any number of browsers and sockets, whatever output there is and however
\* sockets are lost and writes called back: who owns a socket, how far the two
\* ends of a wire are with each other, and what frames and screens are worth,
\* stays as StreamInv says.
THEOREM StreamInvariant == StreamSpec => []StreamInv
BY InitStreamInv, NextStreamInv, PTL DEF StreamSpec

\* The invariant keeps the writer's protocol checks from ever tripping.
LEMMA InvNoProtocolError == StreamInv => NoProtocolError
<1>. SUFFICES ASSUME StreamInv, NEW c \in Clients, view[c].state = "open"
              PROVE  LET v == view[c]
                         wire == down[v.socket]
                     IN  /\ Greeted(wire) =>
                              /\ v.writing = Idle
                              /\ ~Head(wire).reset => Position(c) = Head(wire).seq
                         /\ FramesLinked(v)
                         /\ wire # <<>> /\ Head(wire).type = "frame" =>
                              Head(wire).first = Tip(v) + 1
  BY DEF NoProtocolError
<1>. DEFINE v == view[c]
            k == v.socket
            wire == down[k]
<1>1. /\ k \in Sockets /\ wire \in Seq(Ready \cup Frame)
      /\ Handshake(v, conn[k], wire, up[k])
  BY BrowserParts, StreamTypes DEF Sync
<1>2. wire # <<>> => Head(wire) = wire[1]
  BY <1>1
<1>3. CASE Engaged(v)
  BY <1>1, <1>2, <1>3 DEF Handshake, Follows
<1>4. CASE ~Engaged(v)
  <2>1. Waits(v, conn[k], wire, up[k])
    BY <1>1, <1>4 DEF Handshake
  <2>2. v.frames = <<>> /\ (wire # <<>> => Greeted(wire))
    BY <2>1 DEF Waits
  <2>3. FramesLinked(v)
    <3>1. Len(<<>>) = 0
      OBVIOUS
    <3>. QED
      BY <2>2, <3>1 DEF FramesLinked
  <2>4. Greeted(wire) =>
          /\ v.writing = Idle
          /\ ~wire[1].reset => HelloMessage(v).last = wire[1].seq
    BY <2>1 DEF Waits
  <2>5. wire # <<>> => Head(wire).type = "ready"
    BY <2>2 DEF Greeted
  <2>6. Greeted(wire) => wire # <<>>
    BY DEF Greeted
  <2>. QED
    BY <1>2, <2>3, <2>4, <2>5, <2>6 DEF Position
<1>. QED
  BY <1>3, <1>4

\* Output never trips the writer's protocol checks: each ready message finds
\* an open client idle and where the server believes it is, and the frames on
\* the wire and in its buffer continue what it has parsed
\* (terminal-stream.js:69-78, 142-156).
THEOREM OutputNeverTripsTheProtocol == StreamSpec => []NoProtocolError
BY StreamInvariant, InvNoProtocolError, PTL

\* A settled client that is owed no snapshot shows what it claims to have, as
\* long as no client was let to resume on a screen that had only been reset.
THEOREM ScreensAgree == StreamSpec => []ScreenAgreement
<1>1. StreamInv => ScreenAgreement
  BY BrowserParts DEF ScreenAgreement, Settled, Position, Worth, ScreenInv
<1>. QED
  BY <1>1, StreamInvariant, PTL

\* A query leaves the session's snapshots only when some terminal has parsed
\* it, over any reconnects (terminal.rs:528-536, terminal-stream.js:82-94).
THEOREM QueriesSurviveUntilParsed == StreamSpec => []QueriesKeptUntilParsed
<1>1. StreamInv => QueriesKeptUntilParsed
  BY DEF StreamInv, QueriesInv, QueriesKeptUntilParsed
<1>. QED
  BY <1>1, StreamInvariant, PTL

-----------------------------------------------------------------------------
(***************************************************************************)
(* The stream implements the log.                                          *)
(***************************************************************************)

\* The client stays where it is, loses its place, or gets on.
GetsOn(v, w, n) ==
  LET from == HelloMessage(v).last
      to == HelloMessage(w).last
  IN  to \in {from, None} \/ (to \in 0 .. n /\ to > from)

LEMMA LastFields ==
  ASSUME NEW v, NEW w, w.last = v.last, w.requiresReset = v.requiresReset
  PROVE  HelloMessage(w).last = HelloMessage(v).last
BY DEF HelloMessage

LEMMA DrainPlace ==
  ASSUME NEW v \in View, v.ready => v.socket \in Sockets, NEW w \in Drain(v)
  PROVE  HelloMessage(w).last \in {HelloMessage(v).last, None}
BY DrainStays

\* No message moves a client.
LEMMA FramePlace ==
  ASSUME NEW v \in View, v.socket \in Sockets, NEW f \in Frame, NEW w \in AcceptFrame(v, f)
  PROVE  HelloMessage(w).last \in {HelloMessage(v).last, None}
<1>1. PICK z \in View : Buffers(v, z, f) /\ w \in Drain(z)
  BY AcceptFrameCases
<1>2. z.socket = v.socket /\ z.last = v.last /\ z.requiresReset = v.requiresReset
  BY <1>1 DEF Buffers, Keeps
<1>. QED
  BY <1>1, <1>2, DrainPlace, LastFields

LEMMA ReadyPlace ==
  ASSUME NEW v \in View, v.socket \in Sockets, v.writing = Idle,
         NEW m \in Ready, NEW w \in AcceptReady(v, m)
  PROVE  HelloMessage(w).last \in {HelloMessage(v).last, None}
<1>1. CASE Fails(v, w)
  <2>1. w.requiresReset = TRUE
    BY <1>1 DEF Fails
  <2>. QED
    BY <2>1 DEF HelloMessage
<1>2. CASE Rewinds(v, w, m)
  BY <1>2, LastFields DEF Rewinds, Keeps
<1>3. ASSUME NEW z \in View, Resumes(v, z), w \in Drain(z)
      PROVE  HelloMessage(w).last \in {HelloMessage(v).last, None}
  <2>1. z.socket = v.socket /\ z.last = v.last /\ z.requiresReset = v.requiresReset
    BY <1>3 DEF Resumes, Keeps
  <2>. QED
    BY <1>3, <2>1, DrainPlace, LastFields
<1>. QED
  BY <1>1, <1>2, <1>3, AcceptReadyCases

\* A parsed write does, forward.
LEMMA WrittenPlace ==
  ASSUME NEW v \in View, v.writing # Idle, WriterInv(v), NEW n \in Nat, ViewBounds(v, n),
         NEW z \in View, v.writing.kind = "reset" => Rewound(v, z),
         v.writing.kind = "output" => Wrote(v, z)
  PROVE  GetsOn(v, z, n)
<1>1. CASE v.writing.kind = "reset"
  <2>1. HelloMessage(z).last = v.writing.seq
    BY <1>1 DEF Rewound, HelloMessage
  <2>2. /\ v.writing.seq \in Nat /\ v.writing.seq <= n
        /\ HelloMessage(v).last < v.writing.seq
    BY <1>1, WritingFields DEF ViewBounds, WriterInv, Sequence
  <2>3. HelloMessage(v).last \in Int
    BY TipType
  <2>. QED
    BY <2>1, <2>2, <2>3 DEF GetsOn
<1>2. CASE v.writing.kind = "output"
  <2>. DEFINE f == v.writing.frame
  <2>1. f \in Frame /\ f.first \in Nat /\ f.end \in Nat /\ Covered(f) = f.end /\ f.type = "frame"
    BY <1>2, WritingFields, FrameFields
  <2>2. f.first <= f.end /\ f.end <= n /\ f.first = v.last + 1 /\ v.last # None
    BY <1>2, <2>1 DEF ViewBounds, WriterInv, Produced
  <2>3. v.last \in Int /\ Wrote(v, z)
    BY <1>2, ViewFields DEF Resume, None, Sequence
  <2>4. CASE v.requiresReset
    <3>1. HelloMessage(z).last = None
      BY <2>3, <2>4 DEF Wrote, HelloMessage
    <3>. QED
      BY <3>1 DEF GetsOn
  <2>5. CASE ~v.requiresReset
    <3>1. HelloMessage(v).last = v.last /\ HelloMessage(z).last = f.end
      BY <2>3, <2>5 DEF Wrote, HelloMessage
    <3>. QED
      BY <2>1, <2>2, <2>3, <3>1 DEF GetsOn
  <2>. QED
    BY <2>4, <2>5
<1>. QED
  BY <1>1, <1>2, WritingFields

\* What a client does moves it on or takes its place away, and moves nobody else.
LEMMA ClientPlace ==
  ASSUME StreamInv, NEW c \in Clients, ClientStep(c)
  PROVE  /\ \E w : view' = [view EXCEPT ![c] = w] /\ GetsOn(view[c], w, next)
         /\ next' = next
<1>. DEFINE v == view[c]
<1>1. /\ v \in View
      /\ v.state # "none" => v.socket \in Sockets
      /\ v.state \in {"none", "connecting"} /\ v.writing # Idle => v.writing.socket # v.socket
      /\ WriterInv(v) /\ ViewBounds(v, next)
      /\ next \in Nat /\ down \in [Sockets -> Seq(Ready \cup Frame)]
  BY BrowserParts, StreamTypes DEF Sync
<1>2. next' = next
  BY DEF ClientStep, Connect, Open, Receive, WriteDone, CloseEvent, DropSocket, sessionVars
<1>3. ASSUME NEW w, view' = [view EXCEPT ![c] = w],
             HelloMessage(w).last \in {HelloMessage(v).last, None}
      PROVE  \E x : view' = [view EXCEPT ![c] = x] /\ GetsOn(v, x, next)
  BY <1>3 DEF GetsOn
<1>4. CASE Connect(c) \/ CloseEvent(c) \/ DropSocket(c)
  <2>1. PICK w \in {End(v)} \cup {Begin(v, k) : k \in Sockets} : view' = [view EXCEPT ![c] = w]
    BY <1>4 DEF Connect, CloseEvent, DropSocket
  <2>2. w.last = v.last /\ w.requiresReset = v.requiresReset
    BY <1>1 DEF View, End, Begin
  <2>. QED
    BY <1>2, <1>3, <2>1, <2>2, LastFields
<1>5. CASE Open(c)
  <2>. DEFINE w == [[v EXCEPT !.state = "open"] EXCEPT !.helloDue = ~(v.writing = Idle)]
  <2>1. view' = [view EXCEPT ![c] = w]
    BY <1>5 DEF Open
  <2>2. w.last = v.last /\ w.requiresReset = v.requiresReset
    BY <1>1 DEF View
  <2>. HIDE DEF w
  <2>. QED
    BY <1>2, <1>3, <2>1, <2>2, LastFields
<1>6. CASE Receive(c)
  <2>. DEFINE d == down[v.socket]
              m == Head(d)
  <2>1. /\ v.state \in {"open", "closing"} /\ v.socket \in Sockets /\ d # <<>>
        /\ d \in Seq(Ready \cup Frame)
    BY <1>1, <1>6 DEF Receive
  <2>2. m \in Ready \cup Frame
    BY <2>1, HeadTailProperties
  <2>3. PICK w \in IF m.type = "ready" THEN AcceptReady(v, m) ELSE AcceptFrame(v, m) :
          view' = [view EXCEPT ![c] = w]
    BY <1>6 DEF Receive
  <2>4. CASE m \in Ready
    <3>1. m.type = "ready"
      BY <2>4, MessageFields
    <3>2. v.writing = Idle
      <4>1. Greeted(d)
        BY <2>1, <3>1 DEF Greeted
      <4>2. v.state = "open" => v.writing = Idle
        BY <4>1, InvNoProtocolError DEF NoProtocolError
      <4>. QED
        BY <1>1, <2>1, <4>2 DEF WriterInv
    <3>3. w \in AcceptReady(v, m)
      BY <2>3, <3>1
    <3>4. HelloMessage(w).last \in {HelloMessage(v).last, None}
      BY <1>1, <2>1, <2>4, <3>2, <3>3, ReadyPlace
    <3>. QED
      BY <1>2, <1>3, <2>3, <3>4
  <2>5. CASE m \in Frame
    <3>1. w \in AcceptFrame(v, m)
      BY <2>3, <2>5, FrameFields
    <3>2. HelloMessage(w).last \in {HelloMessage(v).last, None}
      BY <1>1, <2>1, <2>5, <3>1, FramePlace
    <3>. QED
      BY <1>2, <1>3, <2>3, <3>2
  <2>. QED
    BY <2>2, <2>4, <2>5
<1>7. CASE WriteDone(c)
  <2>1. PICK w \in IF v.writing.kind = "output" THEN OutputDone(v) ELSE ResetDone(v) :
          view' = [view EXCEPT ![c] = [w EXCEPT !.helloDue = FALSE]]
    BY <1>7 DEF WriteDone
  <2>2. v.writing # Idle
    BY <1>7 DEF WriteDone
  <2>3. PICK z \in View : /\ w \in Drain(z)
                          /\ v.writing.kind = "reset" => Rewound(v, z)
                          /\ v.writing.kind = "output" => Wrote(v, z)
    BY <1>1, <2>1, <2>2, WriteDoneCases
  <2>4. GetsOn(v, z, next)
    BY <1>1, <2>2, <2>3, WrittenPlace
  <2>. DEFINE r == [w EXCEPT !.helloDue = FALSE]
  <2>5. w \in View /\ HelloMessage(r).last = HelloMessage(w).last
    <3>1. w \in View
      BY <1>1, <2>2, <2>3, AfterWrite DEF Carries
    <3>2. r.last = w.last /\ r.requiresReset = w.requiresReset
      BY <3>1 DEF View
    <3>. QED
      BY <3>1, <3>2, LastFields
  <2>6. HelloMessage(w).last \in {HelloMessage(z).last, None}
    <3>1. z.ready => z.socket \in Sockets
      BY <1>1, <2>2, <2>3, WrittenReady
    <3>. QED
      BY <2>3, <3>1, DrainPlace
  <2>7. GetsOn(v, r, next)
    BY <2>4, <2>5, <2>6 DEF GetsOn
  <2>. QED
    BY <1>2, <2>1, <2>7
<1>. QED
  BY <1>4, <1>5, <1>6, <1>7 DEF ClientStep

\* The tasks append to the log, or do not touch it.
LEMMA TaskGrows ==
  ASSUME StreamInv, ServerStep
  PROVE  view' = view /\ next' \in {next, next + 1}
<1>1. TypeOK /\ SessionTypeOK /\ view' = view
  BY StreamTypes DEF ServerStep
<1>2. ASSUME NEW q \in BOOLEAN, Push(q) PROVE next' \in {next, next + 1}
  BY <1>2 DEF Push
<1>3. ASSUME NEW last, ReplayEffect(last) PROVE next' \in {next, next + 1}
  BY <1>2, <1>3 DEF ReplayEffect, sessionVars
<1>4. CASE PtyOutput
  BY <1>1, <1>4 DEF PtyOutput, Push
<1>5. ASSUME NEW k \in Sockets, ConnectionTask(k) PROVE next' \in {next, next + 1}
  <2>1. CASE ReceiveHello(k)
    BY <1>3, <2>1 DEF ReceiveHello
  <2>2. CASE ReceiveLagged(k)
    BY <1>3, <2>2 DEF ReceiveLagged
  <2>3. CASE \/ IgnoreMessage(k) \/ HelloTimeout(k) \/ SendFrame(k) \/ ReceiveOutput(k)
             \/ ReceiveAck(k) \/ ReceiveAnswer(k) \/ DetectLoss(k)
    BY <2>3 DEF IgnoreMessage, HelloTimeout, SendFrame, ReceiveOutput, ReceiveAck,
                ReceiveAnswer, DetectLoss, Acknowledge, WriteAnswer, sessionVars
  <2>. QED
    BY <1>5, <2>1, <2>2, <2>3 DEF ConnectionTask
<1>. QED
  BY <1>1, <1>4, <1>5 DEF ServerStep

\* Every step of the stream is a step of the log, or none.
LEMMA LogStep ==
  StreamInv /\ [StreamNext]_streamVars =>
    [Log!Next]_<<next, [c \in Clients |-> Position(c)]>>
<1>. DEFINE places == [c \in Clients |-> Position(c)]
<1>. SUFFICES ASSUME StreamInv, [StreamNext]_streamVars
              PROVE  Log!Next \/ (next' = next /\ places' = places)
  OBVIOUS
<1>1. /\ view \in [Clients -> View] /\ next \in Nat
  BY StreamTypes
<1>2. places' = [c \in Clients |-> HelloMessage(view'[c]).last]
  BY DEF Position, HelloMessage
<1>3. CASE view' = view /\ next' \in {next, next + 1}
  <2>1. places' = places
    BY <1>2, <1>3 DEF Position
  <2>. QED
    BY <1>3, <2>1 DEF Log!Next, Log!Produce
<1>4. ASSUME NEW c \in Clients, ClientStep(c)
      PROVE  Log!Next \/ (next' = next /\ places' = places)
  <2>1. next' = next
    BY <1>4, ClientPlace
  <2>2. PICK w : view' = [view EXCEPT ![c] = w] /\ GetsOn(view[c], w, next)
    BY <1>4, ClientPlace
  <2>. DEFINE to == HelloMessage(w).last
  <2>3. places' = [places EXCEPT ![c] = to]
    <3>1. view'[c] = w /\ \A d \in Clients \ {c} : view'[d] = view[d]
      BY <1>1, <2>2
    <3>2. \A d \in Clients : HelloMessage(view'[d]).last = IF d = c THEN to ELSE Position(d)
      BY <3>1 DEF Position
    <3>. QED
      BY <1>2, <3>2
  <2>4. places[c] = HelloMessage(view[c]).last
    BY DEF Position
  <2>. HIDE DEF to, places
  <2>5. CASE to = places[c]
    <3>1. places' = places
      BY <2>3, <2>5 DEF places
    <3>. QED
      BY <2>1, <3>1
  <2>6. CASE to = None
    BY <2>1, <2>3, <2>6 DEF Log!Next, Log!LosePlace, Log!Lost, None, places
  <2>7. CASE to \in 0 .. next /\ to > places[c]
    BY <2>1, <2>3, <2>7 DEF Log!Next, Log!Advance, places
  <2>. QED
    BY <2>2, <2>4, <2>5, <2>6, <2>7 DEF GetsOn, to
<1>5. CASE ServerStep
  BY <1>3, <1>5, TaskGrows
<1>6. CASE UNCHANGED streamVars
  BY <1>3, <1>6 DEF streamVars, sessionVars
<1>. QED
  BY <1>4, <1>5, <1>6 DEF StreamNext

\* The stream implements the log that OutputLog describes: every browser reads
\* the session's output forward only, never past what there is, and a lost
\* place is the only way back.
THEOREM StreamImplementsLog == StreamSpec => ImplementsLog
<1>1. StreamInit => Log!Init
  <2>. SUFFICES ASSUME StreamInit PROVE Log!Init
    OBVIOUS
  <2>1. next = 0 /\ view = [c \in Clients |-> NewView]
    BY DEF StreamInit, Init, SessionInit
  <2>2. \A c \in Clients : Position(c) = -1
    BY <2>1 DEF Position, HelloMessage, NewView, None
  <2>. QED
    BY <2>1, <2>2 DEF Log!Init, Log!Lost
<1>. QED
  BY <1>1, LogStep, StreamInvariant, PTL DEF StreamSpec, ImplementsLog, Log!Spec

=============================================================================
