------------------------------ MODULE VideoHub -----------------------------
(***************************************************************************)
(* The viewers of the desktop share one video producer                     *)
(* (NativeVideoHub, src/src/desktop_webrtc/video.rs).  The first viewer    *)
(* starts it, the last one stops it and waits for its thread; a new viewer *)
(* may start the next generation meanwhile.  A producer publishes encoded  *)
(* frames, or its failure, to a watch channel that keeps only the latest;  *)
(* each viewer has a writer task that sends them on.                       *)
(*                                                                         *)
(* All viewers have the same settings: producers of different settings     *)
(* share only the mutex and the counter of the hub.  A frame is "key" or   *)
(* "delta"; what it shows, its geometry and its packets are left out.      *)
(***************************************************************************)
EXTENDS Naturals, FiniteSets

CONSTANTS
  Viewers,      \* desktop sessions; each connects once
  Asking,       \* those whose clients ask for key frames
  MaxChanges,   \* bound: how often the desktop changes
  MayFail       \* whether capturing, encoding and sending may fail

ASSUME HubAssumption ==
  IsFiniteSet(Viewers) /\ Asking \subseteq Viewers /\ MaxChanges \in Nat /\ MayFail \in BOOLEAN

Generations == 1..Cardinality(Viewers)
None == 0       \* no generation

VARIABLES
  active,        \* generation of the producer in the map
  subscribers,   \* its subscribers
  nextGeneration,
  worker,        \* per generation, which pipeline its thread runs
  encoding,      \* per generation, the frame it is encoding
  encoder,       \* per generation, whether its encoder is new, tried or running
  force,         \* per generation, force_keyframe
  stop,          \* per generation, stop_tx was sent
  frame,         \* per generation, the value of the watch channel
  changes,       \* changes of the desktop still to come
  session,       \* per viewer, where the session is with its pipeline
  holds,         \* per viewer, the generation it subscribed to
  writer,        \* per viewer, where write_video_frames is
  unseen,        \* per viewer, frame_rx has an unread value
  pending,       \* per viewer, the event being written
  startup,       \* per viewer, startup_keyframes_remaining
  told           \* per viewer, the client was told of an error

hubVars == <<active, subscribers, nextGeneration>>
workerVars == <<worker, encoding, encoder, force, stop, frame, changes>>
viewerVars == <<session, holds, writer, unseen, pending, startup, told>>
vars == <<hubVars, workerVars, viewerVars>>

Event == {"none", "key", "delta", "error"}
Working == {"gpu", "software"}

TypeOK ==
  /\ active \in Generations \cup {None}
  /\ subscribers \in 0..Cardinality(Viewers)
  /\ nextGeneration \in 1..(Cardinality(Viewers) + 1)
  /\ worker \in [Generations -> {"none", "ended"} \cup Working]
  /\ encoding \in [Generations -> {"idle", "plain", "forced"}]
  /\ encoder \in [Generations -> {"new", "tried", "running"}]
  /\ force \in [Generations -> BOOLEAN]
  /\ stop \in [Generations -> BOOLEAN]
  /\ frame \in [Generations -> Event]
  /\ changes \in 0..MaxChanges
  /\ session \in [Viewers -> {"new", "watching", "stopping", "releasing", "halting",
                              "joining", "gone"}]
  /\ holds \in [Viewers -> Generations \cup {None}]
  /\ writer \in [Viewers -> {"none", "settling", "requesting", "waiting", "writing", "ended"}]
  /\ unseen \in [Viewers -> BOOLEAN]
  /\ pending \in [Viewers -> Event]
  /\ startup \in [Viewers -> 0..2]
  /\ told \in [Viewers -> BOOLEAN]

Init ==
  /\ active = None
  /\ subscribers = 0
  /\ nextGeneration = 1
  /\ worker = [g \in Generations |-> "none"]
  /\ encoding = [g \in Generations |-> "idle"]
  /\ encoder = [g \in Generations |-> "new"]
  /\ force = [g \in Generations |-> FALSE]
  /\ stop = [g \in Generations |-> FALSE]
  /\ frame = [g \in Generations |-> "none"]
  /\ changes = MaxChanges
  /\ session = [v \in Viewers |-> "new"]
  /\ holds = [v \in Viewers |-> None]
  /\ writer = [v \in Viewers |-> "none"]
  /\ unseen = [v \in Viewers |-> FALSE]
  /\ pending = [v \in Viewers |-> "none"]
  /\ startup = [v \in Viewers |-> 2]
  /\ told = [v \in Viewers |-> FALSE]

\* A frame receiver of a generation is alive (frame_tx.is_closed is its negation).
Watched(g) == \E v \in Viewers : holds[v] = g /\ writer[v] # "ended"

\* send_replace
Publish(g, event) ==
  /\ frame' = [frame EXCEPT ![g] = event]
  /\ unseen' = [v \in Viewers |-> unseen[v] \/ (holds[v] = g /\ writer[v] # "ended")]

-----------------------------------------------------------------------------
(***************************************************************************)
(* The producer's thread.                                                  *)
(***************************************************************************)

\* The loop goes on; the software pipeline does not look for receivers.
GoesOn(g) ==
  /\ worker[g] \in Working
  /\ ~stop[g]
  /\ worker[g] = "gpu" => Watched(g)

\* There is something to encode without a change of the desktop: the first
\* frame.  Only the hardware pipeline tries it again.
FirstFrameDue(g) == encoder[g] = "new" \/ (encoder[g] = "tried" /\ worker[g] = "gpu")

\* A frame is encoded when one is forced, the first is due, or the desktop has
\* changed; the force flag is taken.
BeginEncode(g) ==
  /\ GoesOn(g)
  /\ encoding[g] = "idle"
  /\ force[g] \/ FirstFrameDue(g) \/ changes > 0
  /\ encoding' = [encoding EXCEPT ![g] = IF force[g] THEN "forced" ELSE "plain"]
  /\ force' = [force EXCEPT ![g] = FALSE]
  /\ changes' = IF force[g] \/ FirstFrameDue(g) THEN changes ELSE changes - 1
  /\ UNCHANGED <<worker, encoder, stop, frame, hubVars, viewerVars>>

\* The encoder returns a frame: a key frame if it was forced or is the first.
EncodeFrame(g) ==
  /\ encoding[g] # "idle"
  /\ encoding' = [encoding EXCEPT ![g] = "idle"]
  /\ encoder' = [encoder EXCEPT ![g] = "running"]
  /\ \E kind \in {"key", "delta"} :
       /\ encoding[g] = "forced" \/ encoder[g] # "running" => kind = "key"
       /\ Publish(g, kind)
  /\ UNCHANGED <<worker, force, stop, changes, hubVars>>
  /\ UNCHANGED <<session, holds, writer, pending, startup, told>>

\* The encoder skips the frame; a forced one is asked for again.
EncodeNothing(g) ==
  /\ encoding[g] # "idle"
  /\ encoding' = [encoding EXCEPT ![g] = "idle"]
  /\ force' = [force EXCEPT ![g] = @ \/ encoding[g] = "forced"]
  /\ encoder' = [encoder EXCEPT ![g] = IF @ = "new" THEN "tried" ELSE @]
  /\ UNCHANGED <<worker, stop, frame, changes, hubVars, viewerVars>>

\* The hardware pipeline fails: the software pipeline starts with an encoder
\* of its own, unless the producer is stopped.
GpuFails(g) ==
  /\ MayFail
  /\ worker[g] = "gpu"
  /\ worker' = [worker EXCEPT ![g] = IF stop[g] THEN "ended" ELSE "software"]
  /\ encoding' = [encoding EXCEPT ![g] = "idle"]
  /\ encoder' = [encoder EXCEPT ![g] = "new"]
  /\ UNCHANGED <<force, stop, frame, changes, hubVars, viewerVars>>

\* The software pipeline fails and publishes the error; if it is stopped, only
\* a failing encoder still does.
SoftwareFails(g) ==
  /\ MayFail
  /\ worker[g] = "software"
  /\ worker' = [worker EXCEPT ![g] = "ended"]
  /\ encoding' = [encoding EXCEPT ![g] = "idle"]
  /\ \/ Publish(g, "error")
     \/ stop[g] /\ UNCHANGED <<frame, unseen>>
  /\ UNCHANGED <<encoder, force, stop, changes, hubVars>>
  /\ UNCHANGED <<session, holds, writer, pending, startup, told>>

\* Mutant of WorkerReturns: the software pipeline does not look at stop_rx.
WorkerReturnsUnwatched(g) ==
  /\ worker[g] = "gpu"
  /\ ~GoesOn(g)
  /\ encoding[g] = "idle"
  /\ worker' = [worker EXCEPT ![g] = "ended"]
  /\ UNCHANGED <<encoding, encoder, force, stop, frame, changes, hubVars, viewerVars>>

\* The loop ends.
WorkerReturns(g) ==
  /\ worker[g] \in Working
  /\ ~GoesOn(g)
  /\ encoding[g] = "idle"
  /\ worker' = [worker EXCEPT ![g] = "ended"]
  /\ UNCHANGED <<encoding, encoder, force, stop, frame, changes, hubVars, viewerVars>>

-----------------------------------------------------------------------------
(***************************************************************************)
(* The session and the hub.                                                *)
(***************************************************************************)

\* start_video_pipeline: subscribe, and spawn the writer.  The new receiver
\* has seen what the channel holds.  A new producer's thread has a device to
\* set up before it first looks for receivers, so it finds this one.
Subscribe(v) ==
  LET g == IF active = None THEN nextGeneration ELSE active
  IN  /\ session[v] = "new"
      /\ session' = [session EXCEPT ![v] = "watching"]
      /\ active' = g
      /\ subscribers' = IF active = None THEN 1 ELSE subscribers + 1
      /\ nextGeneration' = IF active = None THEN nextGeneration + 1 ELSE nextGeneration
      /\ worker' = IF active = None THEN [worker EXCEPT ![g] = "gpu"] ELSE worker
      /\ force' = [force EXCEPT ![g] = TRUE]
      /\ holds' = [holds EXCEPT ![v] = g]
      /\ writer' = [writer EXCEPT ![v] = "settling"]
      /\ UNCHANGED <<encoding, encoder, stop, frame, changes, unseen, pending, startup, told>>

\* The session ends and stops its pipeline, ...
EndSession(v) ==
  /\ session[v] = "watching"
  /\ session' = [session EXCEPT ![v] = "stopping"]
  /\ UNCHANGED <<hubVars, workerVars, holds, writer, unseen, pending, startup, told>>

\* ... the writer ends by itself or is aborted, and its variables with it, ...
StopWriter(v) ==
  /\ session[v] = "stopping"
  /\ session' = [session EXCEPT ![v] = "releasing"]
  /\ writer' = [writer EXCEPT ![v] = "ended"]
  /\ unseen' = [unseen EXCEPT ![v] = FALSE]
  /\ pending' = [pending EXCEPT ![v] = "none"]
  /\ startup' = [startup EXCEPT ![v] = 2]
  /\ told' = [told EXCEPT ![v] = FALSE]
  /\ UNCHANGED <<hubVars, workerVars, holds>>

\* Mutant of Release: the generation is not compared, and the producer goes
\* with the second last subscriber.
ReleaseEarly(v) ==
  /\ session[v] = "releasing"
  /\ subscribers' = subscribers - 1
  /\ active' = IF subscribers <= 2 THEN None ELSE active
  /\ session' = [session EXCEPT ![v] = IF subscribers <= 2 THEN "halting" ELSE "gone"]
  /\ UNCHANGED <<nextGeneration, workerVars, holds, writer, unseen, pending, startup, told>>

\* ... the subscription is released, and the last one takes the producer out
\* of the map, ...
Release(v) ==
  /\ session[v] = "releasing"
  /\ IF active # holds[v]
       THEN session' = [session EXCEPT ![v] = "gone"] /\ UNCHANGED <<active, subscribers>>
       ELSE /\ subscribers' = subscribers - 1
            /\ active' = IF subscribers = 1 THEN None ELSE active
            /\ session' = [session EXCEPT ![v] = IF subscribers = 1 THEN "halting" ELSE "gone"]
  /\ UNCHANGED <<nextGeneration, workerVars, holds, writer, unseen, pending, startup, told>>

\* Mutant of Halt: the producer is dropped without being stopped.
HaltForgotten(v) ==
  /\ session[v] = "halting"
  /\ session' = [session EXCEPT ![v] = "gone"]
  /\ UNCHANGED <<hubVars, workerVars, holds, writer, unseen, pending, startup, told>>

\* ... stops it, ...
Halt(v) ==
  /\ session[v] = "halting"
  /\ stop' = [stop EXCEPT ![holds[v]] = TRUE]
  /\ session' = [session EXCEPT ![v] = "joining"]
  /\ UNCHANGED <<hubVars, worker, encoding, encoder, force, frame, changes>>
  /\ UNCHANGED <<holds, writer, unseen, pending, startup, told>>

\* ... and waits for its thread; with that the producer is dropped.
Join(v) ==
  /\ session[v] = "joining"
  /\ worker[holds[v]] = "ended"
  /\ session' = [session EXCEPT ![v] = "gone"]
  /\ encoder' = [encoder EXCEPT ![holds[v]] = "new"]
  /\ force' = [force EXCEPT ![holds[v]] = FALSE]
  /\ frame' = [frame EXCEPT ![holds[v]] = "none"]
  /\ UNCHANGED <<hubVars, worker, encoding, stop, changes>>
  /\ UNCHANGED <<holds, writer, unseen, pending, startup, told>>

-----------------------------------------------------------------------------
(***************************************************************************)
(* The writer, write_video_frames.                                         *)
(***************************************************************************)

\* The writer goes on to its next await.
WriterAt(v, place) == writer' = [writer EXCEPT ![v] = place]

\* The 75 ms are over: what has been published so far is discarded.
Settle(v) ==
  /\ writer[v] = "settling"
  /\ WriterAt(v, "requesting")
  /\ unseen' = [unseen EXCEPT ![v] = FALSE]
  /\ UNCHANGED <<hubVars, workerVars, session, holds, pending, startup, told>>

\* Mutant of RequestKeyframe: nothing is requested.
RequestForgotten(v) ==
  /\ writer[v] = "requesting"
  /\ WriterAt(v, "waiting")
  /\ UNCHANGED <<hubVars, workerVars, session, holds, unseen, pending, startup, told>>

\* request_video_keyframe, of whichever producer is in the map.
RequestKeyframe(v) ==
  /\ writer[v] = "requesting"
  /\ WriterAt(v, "waiting")
  /\ force' = IF active = None THEN force ELSE [force EXCEPT ![active] = TRUE]
  /\ UNCHANGED <<hubVars, worker, encoding, encoder, stop, frame, changes>>
  /\ UNCHANGED <<session, holds, unseen, pending, startup, told>>

\* A client asks for a key frame, by RTCP or with a refresh command.
ClientRequest(v) ==
  /\ session[v] # "gone"
  /\ active # None
  /\ force' = [force EXCEPT ![active] = TRUE]
  /\ UNCHANGED <<hubVars, worker, encoding, encoder, stop, frame, changes, viewerVars>>

\* frame_rx has changed: the latest event is taken.
Receive(v) ==
  /\ writer[v] = "waiting"
  /\ unseen[v]
  /\ WriterAt(v, "writing")
  /\ unseen' = [unseen EXCEPT ![v] = FALSE]
  /\ pending' = [pending EXCEPT ![v] = frame[holds[v]]]
  /\ UNCHANGED <<hubVars, workerVars, session, holds, startup, told>>

\* Mutant of ReportError: the writer ends without a word.
ReportNothing(v) ==
  /\ writer[v] = "writing"
  /\ pending[v] = "error"
  /\ WriterAt(v, "ended")
  /\ pending' = [pending EXCEPT ![v] = "none"]
  /\ UNCHANGED <<hubVars, workerVars, session, holds, unseen, startup, told>>

\* A failure is reported to the client, and the writer ends.
ReportError(v) ==
  /\ writer[v] = "writing"
  /\ pending[v] = "error"
  /\ WriterAt(v, "ended")
  /\ told' = [told EXCEPT ![v] = TRUE]
  /\ pending' = [pending EXCEPT ![v] = "none"]
  /\ UNCHANGED <<hubVars, workerVars, session, holds, unseen, startup>>

\* The decoder cannot start with this frame: ask for a key frame.
SkipDelta(v) ==
  /\ writer[v] = "writing"
  /\ pending[v] = "delta"
  /\ startup[v] > 0
  /\ WriterAt(v, "requesting")
  /\ pending' = [pending EXCEPT ![v] = "none"]
  /\ UNCHANGED <<hubVars, workerVars, session, holds, unseen, startup, told>>

\* Mutant of SendFrame: the key frames are counted on.
SendFrameCounting(v) ==
  /\ writer[v] = "writing"
  /\ pending[v] \in {"key", "delta"}
  /\ WriterAt(v, "waiting")
  /\ startup' = [startup EXCEPT ![v] = @ - 1]
  /\ pending' = [pending EXCEPT ![v] = "none"]
  /\ UNCHANGED <<hubVars, workerVars, session, holds, unseen, told>>

\* The frame is sent; after the first one another key frame is requested.
SendFrame(v) ==
  /\ writer[v] = "writing"
  /\ pending[v] = "key" \/ (pending[v] = "delta" /\ startup[v] = 0)
  /\ WriterAt(v, IF startup[v] = 2 THEN "requesting" ELSE "waiting")
  /\ startup' = [startup EXCEPT ![v] = IF @ = 0 THEN 0 ELSE @ - 1]
  /\ pending' = [pending EXCEPT ![v] = "none"]
  /\ UNCHANGED <<hubVars, workerVars, session, holds, unseen, told>>

\* The frame cannot be packetized or sent, and the writer ends.
SendFails(v) ==
  /\ MayFail
  /\ writer[v] = "writing"
  /\ pending[v] = "key" \/ (pending[v] = "delta" /\ startup[v] = 0)
  /\ WriterAt(v, "ended")
  /\ startup' = [startup EXCEPT ![v] = IF @ = 0 THEN 0 ELSE @ - 1]
  /\ pending' = [pending EXCEPT ![v] = "none"]
  /\ UNCHANGED <<hubVars, workerVars, session, holds, unseen, told>>

-----------------------------------------------------------------------------
Producer(g) ==
  \/ BeginEncode(g) \/ EncodeFrame(g) \/ EncodeNothing(g) \/ GpuFails(g)
  \/ SoftwareFails(g) \/ WorkerReturns(g)

Session(v) ==
  \/ Subscribe(v) \/ EndSession(v) \/ StopWriter(v) \/ Release(v) \/ Halt(v) \/ Join(v)

Writer(v) ==
  \/ Settle(v) \/ RequestKeyframe(v) \/ Receive(v) \/ ReportError(v) \/ SkipDelta(v)
  \/ SendFrame(v) \/ SendFails(v)

Next ==
  \/ \E g \in Generations : Producer(g)
  \/ \E v \in Viewers : Session(v) \/ Writer(v)
  \/ \E v \in Asking : ClientRequest(v)

Spec == Init /\ [][Next]_vars

\* Threads and tasks that can go on do.  An encoder may skip a frame, but
\* not every frame.  Nothing has to fail, and no viewer has to leave.
Fairness ==
  /\ \A g \in Generations :
       /\ WF_vars(BeginEncode(g) \/ EncodeFrame(g) \/ EncodeNothing(g) \/ WorkerReturns(g))
       /\ SF_vars(EncodeFrame(g))
  /\ \A v \in Viewers :
       /\ WF_vars(StopWriter(v) \/ Release(v) \/ Halt(v) \/ Join(v))
       /\ WF_vars(Writer(v))

FairSpec == Spec /\ Fairness

-----------------------------------------------------------------------------
(***************************************************************************)
(* Properties.                                                             *)
(***************************************************************************)

\* The viewers that hold a subscription.
Subscribed == {v \in Viewers : session[v] \in {"watching", "stopping", "releasing"}}

\* The producer in the map counts its viewers right, and is there exactly as
\* long as there are any: a viewer's producer is never taken away, or
\* replaced, under it (video.rs:326-341, 362-381).
ProducerShared ==
  /\ subscribers = Cardinality(Subscribed)
  /\ active = None <=> Subscribed = {}
  /\ \A v \in Subscribed : holds[v] = active /\ ~stop[active]

\* A thread that still runs is in the map, or a session is stopping it: no
\* capture goes on for nobody (video.rs:390-408).
NoOrphan ==
  \A g \in Generations :
    worker[g] \in Working =>
      \/ g = active
      \/ \E v \in Viewers : holds[v] = g /\ session[v] \in {"halting", "joining"}

\* A session that ends does end, although it may wait for a thread.
SessionEnds == \A v \in Viewers : session[v] = "stopping" ~> session[v] = "gone"

\* As long as its producer does not end, every viewer gets a key frame, even
\* if the desktop is still and others take frames meanwhile.
KeyFrameArrives ==
  [](active # None => worker[active] # "ended")
    => \A v \in Viewers :
         session[v] = "watching" ~>
           startup[v] < 2 \/ session[v] # "watching" \/ writer[v] = "ended"

\* A failure that a viewer's writer finds after it has settled is reported.
ErrorHeard ==
  \A v \in Viewers :
    (writer[v] \in {"requesting", "waiting"} /\ unseen[v] /\ frame[holds[v]] = "error")
      ~> told[v] \/ session[v] # "watching"

\* README.md:49: a producer that cannot capture returns a capture error.
\* Every viewer of it that stays is told.
CaptureErrorReturned ==
  \A v \in Viewers :
    (session[v] = "watching" /\ frame[holds[v]] = "error")
      ~> told[v] \/ session[v] # "watching" \/ writer[v] = "ended"

=============================================================================
