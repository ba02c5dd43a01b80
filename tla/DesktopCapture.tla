--------------------------- MODULE DesktopCapture ---------------------------
(***************************************************************************)
(* From the screen to the frame that viewers get (desktop_webrtc/gpu.rs,   *)
(* video.rs, desktop/native/input_desktop.rs): the outputs are duplicated, *)
(* what has changed on each is copied into one picture, and the picture is *)
(* encoded, by the hardware pipeline, or, once that has failed, by a       *)
(* capture thread and an encoder thread with a one-place channel between   *)
(* them.  Windows meanwhile draws, moves the pointer and switches between  *)
(* its desktops.  Who watches, and when a producer stops, is in VideoHub.  *)
(***************************************************************************)
EXTENDS Integers, FiniteSets

CONSTANTS
  Outputs,      \* 1..N, in the order they are asked
  Tiles,        \* the parts of an output that can change
  MaxPaints, MaxSwitches, MaxBreaks, MaxAsks   \* bounds

CaptureAssumption ==
  /\ IsFiniteSet(Outputs) /\ Outputs = 1..Cardinality(Outputs)
  /\ {MaxPaints, MaxSwitches, MaxBreaks, MaxAsks} \subseteq Nat

VARIABLES
  screen,       \* what each tile shows: the desktop and a version
  shape,        \* the pointer's
  era,          \* how often Windows has switched the input desktop
  paints,       \* how often something was drawn
  dup,          \* the duplication of each output: what it has to tell
  composite,    \* the picture put together
  ready,        \* outputs that are `initialized'
  worker,       \* the capture thread
  lastCursor,   \* the pointer of the last frame
  force,        \* force_keyframe
  slot,         \* the channel from the capture to the encoder thread
  encoder,      \* the encoder thread, and previous_encoded_frame
  out,          \* what was last sent to the viewers
  skipped,      \* ghost: an encoder made nothing of the last frame it got
  breaks, asks  \* counters for the bounds

vars == <<screen, shape, era, paints, dup, composite, ready, worker, lastCursor, force,
          slot, encoder, out, skipped, breaks, asks>>

windows == <<screen, shape, era, paints, dup>>
bounds == <<breaks, asks>>

Shapes == {"arrow", "text"}
Unattached == -1
Blank == <<0, 0>>
BlankPicture == [o \in Outputs |-> [t \in Tiles |-> Blank]]
NoFrame == [kind |-> "none", picture |-> BlankPicture, cursor |-> "none"]
Error == [NoFrame EXCEPT !.kind = "error"]
Frame(cursor) == [kind |-> "frame", picture |-> composite, cursor |-> cursor]

NewDup == [era |-> era, image |-> TRUE, dirty |-> {}, moved |-> {}]
NoEncoder == [at |-> "idle", frame |-> NoFrame, forced |-> FALSE, previous |-> NoFrame]

Versions == (0..MaxSwitches) \X (0..MaxPaints + 1)

Picture == [Outputs -> [Tiles -> Versions]]
Frames == [kind: {"none", "frame", "error"}, picture: Picture, cursor: Shapes \cup {"none"}]
Duplications == [era: 0..MaxSwitches, image: BOOLEAN, dirty: SUBSET Tiles, moved: SUBSET Tiles]
Workers == [mode: {"gpu", "dxgi", "ended"}, at: {"open", "update", "encode"},
            next: 1..Cardinality(Outputs) + 1, input: Unattached..MaxSwitches, changed: BOOLEAN,
            forced: BOOLEAN, cursor: Shapes \cup {"none"}, failed: BOOLEAN]
Encoders == [at: {"idle", "busy", "ended", "joined"}, frame: Frames, forced: BOOLEAN, previous: Frames]

TypeOK ==
  /\ screen \in Picture /\ shape \in Shapes /\ era \in 0..MaxSwitches /\ paints \in 0..MaxPaints
  /\ dup \in [Outputs -> Duplications] /\ composite \in Picture /\ ready \subseteq Outputs
  /\ worker \in Workers /\ lastCursor \in Shapes \cup {"none"} /\ force \in BOOLEAN
  /\ slot \in [frame: Frames, new: BOOLEAN] /\ encoder \in Encoders /\ skipped \in BOOLEAN
  /\ out \in Frames /\ breaks \in 0..MaxBreaks /\ asks \in 0..MaxAsks

Init ==
  /\ screen = [o \in Outputs |-> [t \in Tiles |-> <<0, 1>>]] /\ shape = "arrow" /\ era = 0
  /\ paints = 0 /\ dup = [o \in Outputs |-> NewDup] /\ composite = BlankPicture /\ ready = {}
  /\ worker = [mode |-> "gpu", at |-> "open", next |-> 1, input |-> 0, changed |-> FALSE,
               forced |-> FALSE, cursor |-> "none", failed |-> FALSE]
  /\ lastCursor = "none" /\ force = FALSE /\ slot = [frame |-> NoFrame, new |-> FALSE]
  /\ encoder = NoEncoder /\ out = NoFrame /\ skipped = FALSE /\ breaks = 0 /\ asks = 0

-----------------------------------------------------------------------------
(***************************************************************************)
(* Windows: it keeps, for each duplication, what was drawn (dirty) or      *)
(* copied from elsewhere on the screen (moved) since it was last asked.    *)
(***************************************************************************)
Apart == UNCHANGED <<composite, ready, worker, lastCursor, force, slot, encoder, out, skipped, bounds>>

Paint(o) ==
  /\ paints < MaxPaints /\ paints' = paints + 1
  /\ \E drawn, moved \in SUBSET Tiles :
       /\ drawn \cup moved # {} /\ drawn \cap moved = {}
       /\ screen' = [screen EXCEPT ![o] =
            [t \in Tiles |-> IF t \in drawn \cup moved THEN <<era, paints + 2>> ELSE @[t]]]
       /\ dup' = [dup EXCEPT ![o].image = TRUE, ![o].dirty = @ \cup drawn, ![o].moved = @ \cup moved]
  /\ UNCHANGED <<shape, era>> /\ Apart

\* The pointer moves to where it looks different; a duplication tells that
\* apart from images.
MovePointer ==
  /\ paints < MaxPaints /\ paints' = paints + 1
  /\ shape' \in Shapes \ {shape}
  /\ UNCHANGED <<screen, era, dup>> /\ Apart

\* A lock screen or a UAC prompt: every duplication is lost.
Switch ==
  /\ era < MaxSwitches /\ era' = era + 1
  /\ screen' = [o \in Outputs |-> [t \in Tiles |-> <<era + 1, 1>>]]
  /\ UNCHANGED <<shape, paints, dup>> /\ Apart

\* A viewer asks for a key frame.
AskKeyframe ==
  /\ asks < MaxAsks /\ asks' = asks + 1 /\ force' = TRUE
  /\ UNCHANGED <<windows, composite, ready, worker, lastCursor, slot, encoder, out, skipped, breaks>>

-----------------------------------------------------------------------------
(***************************************************************************)
(* The capture thread.                                                     *)
(***************************************************************************)
Runs(where) == worker.mode # "ended" /\ worker.at = where
Breaks == breaks < MaxBreaks /\ breaks' = breaks + 1 /\ UNCHANGED asks
AtOutput(o) == Runs("update") /\ worker.next = o
NextRound == [worker EXCEPT !.at = "update", !.next = 1, !.changed = FALSE, !.forced = FALSE,
                           !.cursor = "none"]

\* An error of the hardware pipeline: the software pipeline starts, attached
\* to what is the input desktop now, or to none if that fails.  An error of
\* that one ends the thread.
Failing ==
  IF worker.mode = "gpu"
    THEN \E input \in {era, Unattached} :
           worker' = [NextRound EXCEPT !.mode = "dxgi", !.at = "open", !.input = input]
    ELSE worker' = [worker EXCEPT !.mode = "ended", !.failed = TRUE]

\* Mutant of Open: what was `initialized' stays so.
OpenKeepsReady ==
  /\ Runs("open")
  /\ dup' = [o \in Outputs |-> NewDup] /\ composite' = BlankPicture
  /\ lastCursor' = "none" /\ worker' = NextRound
  /\ UNCHANGED <<screen, shape, era, paints, ready, force, slot, encoder, out, skipped, bounds>>

\* GpuVideoPipeline::new, DxgiSoftwareCapture::new: all outputs, or none.
Open ==
  /\ Runs("open")
  /\ dup' = [o \in Outputs |-> NewDup] /\ composite' = BlankPicture
  /\ ready' = {} /\ lastCursor' = "none" /\ worker' = NextRound
  /\ UNCHANGED <<screen, shape, era, paints, force, slot, encoder, out, skipped, bounds>>

OpenFails ==
  /\ Runs("open") /\ Failing
  /\ Breaks \/ (worker.input # era /\ UNCHANGED bounds)
  /\ UNCHANGED <<windows, composite, ready, lastCursor, force, slot, encoder, out, skipped>>

\* A new round.  Four times a second the software capture looks whether it
\* is on the input desktop (InputDesktop::refresh), or attaches to it if it
\* could not before, and starts anew if that is another.
Follow ==
  /\ AtOutput(1) /\ worker.mode = "dxgi" /\ worker.input # era
  /\ worker' = [worker EXCEPT !.at = "open", !.input = era]
  /\ UNCHANGED <<windows, composite, ready, lastCursor, force, slot, encoder, out, skipped, bounds>>

\* AcquireNextFrame has nothing, not even the first image yet, or nothing but
\* the pointer.
NoImage(o) ==
  /\ AtOutput(o) /\ dup[o].era = era
  /\ (dup[o].image => o \notin ready)
  /\ worker' = [worker EXCEPT !.next = o + 1]
  /\ UNCHANGED <<windows, composite, ready, lastCursor, force, slot, encoder, out, skipped, bounds>>

\* Mutant of Copied: moves are not asked for.
CopiedDirty(o) == IF o \in ready THEN dup[o].dirty ELSE Tiles

\* What is copied: everything the first time and when something was moved,
\* or else what is dirty.
Copied(o) == IF o \notin ready \/ dup[o].moved # {} THEN Tiles ELSE dup[o].dirty

\* The picture with what is copied (copy_full, copy_rect).
Pasted(o) ==
  [composite EXCEPT ![o] = [t \in Tiles |-> IF t \in Copied(o) THEN screen[o][t] ELSE @[t]]]

\* DuplicatedOutput::update
Update(o) ==
  /\ AtOutput(o) /\ dup[o].era = era /\ dup[o].image
  /\ composite' = Pasted(o)
  /\ ready' = IF Copied(o) = {} THEN ready ELSE ready \cup {o}
  /\ worker' = [worker EXCEPT !.next = o + 1, !.changed = @ \/ Copied(o) # {}]
  /\ dup' = [dup EXCEPT ![o].image = FALSE, ![o].dirty = {}, ![o].moved = {}]
  /\ UNCHANGED <<screen, shape, era, paints, lastCursor, force, slot, encoder, out, skipped, bounds>>

\* The desktop was switched: access is lost.
Lost(o) ==
  /\ AtOutput(o) /\ dup[o].era # era /\ Failing
  /\ UNCHANGED <<windows, composite, ready, lastCursor, force, slot, encoder, out, skipped, bounds>>

UpdateFails(o) ==
  /\ AtOutput(o) /\ Failing /\ Breaks
  /\ UNCHANGED <<windows, composite, ready, lastCursor, force, slot, encoder, out, skipped>>

AllAsked == Runs("update") /\ worker.next = Cardinality(Outputs) + 1

\* Mutant of Complete: one output is enough.
CompleteEnough == ready # {}

\* A frame shows every output.
Complete == ready = Outputs

Due(forced) == Complete /\ (worker.changed \/ forced \/ lastCursor # shape)

\* The hardware pipeline takes the request for a key frame, and encodes ...
Process ==
  /\ AllAsked /\ worker.mode = "gpu"
  /\ force' = FALSE
  /\ worker' = IF Due(force) THEN [worker EXCEPT !.at = "encode", !.forced = force, !.cursor = shape]
                ELSE NextRound
  /\ UNCHANGED <<windows, composite, ready, lastCursor, slot, encoder, out, skipped, bounds>>

\* ... with the pointer of then: HardwareH264Encoder::encode ...
Encode ==
  /\ Runs("encode")
  /\ out' = Frame(worker.cursor) /\ lastCursor' = worker.cursor
  /\ skipped' = FALSE /\ worker' = NextRound
  /\ UNCHANGED <<windows, composite, ready, force, slot, encoder, bounds>>

\* ... which may come up empty: only the request is kept ...
EncodeEmpty ==
  /\ Runs("encode") /\ Breaks
  /\ force' = (force \/ worker.forced) /\ skipped' = TRUE /\ worker' = NextRound
  /\ UNCHANGED <<windows, composite, ready, lastCursor, slot, encoder, out>>

\* ... or time out.
EncodeFails ==
  /\ Runs("encode") /\ Failing /\ Breaks
  /\ UNCHANGED <<windows, composite, ready, lastCursor, force, slot, encoder, out, skipped>>

\* The software capture hands its frame on, to whom it may concern ...
Capture ==
  /\ AllAsked /\ worker.mode = "dxgi"
  /\ IF Due(force) THEN slot' = [frame |-> Frame(shape), new |-> TRUE] /\ lastCursor' = shape
                   ELSE UNCHANGED <<slot, lastCursor>>
  /\ worker' = NextRound
  /\ UNCHANGED <<windows, composite, ready, force, encoder, out, skipped, bounds>>

\* ... and ends when the encoder has gone.
CaptureEnds ==
  /\ AtOutput(1) /\ encoder.at = "ended"
  /\ worker' = [worker EXCEPT !.mode = "ended"]
  /\ UNCHANGED <<windows, composite, ready, lastCursor, force, slot, encoder, out, skipped, bounds>>

\* No first frame within ten seconds.
CaptureLate ==
  /\ AllAsked /\ worker.mode = "dxgi" /\ ~Complete /\ Failing /\ Breaks
  /\ UNCHANGED <<windows, composite, ready, lastCursor, force, slot, encoder, out, skipped>>
-----------------------------------------------------------------------------
(***************************************************************************)
(* The encoder thread of the software pipeline (encode_desktop_frames).    *)
(***************************************************************************)
EncoderOnly == UNCHANGED <<windows, composite, ready, worker, lastCursor>>

\* Mutant of Same: the pointer is not looked at.
SamePicture(f) == f.picture = encoder.previous.picture

\* A frame that shows what the last one showed.
Same(f) == f = encoder.previous

\* It takes the newest frame, and the request for a key frame.
TakeFrame ==
  /\ encoder.at = "idle" /\ slot.new /\ slot' = [slot EXCEPT !.new = FALSE]
  /\ force' = FALSE
  /\ encoder' = IF Same(slot.frame) /\ ~force THEN encoder
                ELSE [encoder EXCEPT !.at = "busy", !.frame = slot.frame, !.forced = force]
  /\ EncoderOnly /\ UNCHANGED <<out, skipped, bounds>>

EncodeFrame ==
  /\ encoder.at = "busy" /\ out' = encoder.frame
  /\ encoder' = [NoEncoder EXCEPT !.previous = encoder.frame]
  /\ skipped' = FALSE
  /\ EncoderOnly /\ UNCHANGED <<force, slot, bounds>>

\* skip_frames: the encoder may leave a frame out to keep its bit rate.
SkipFrame ==
  /\ encoder.at = "busy" /\ Breaks
  /\ force' = (force \/ encoder.forced)
  /\ encoder' = [NoEncoder EXCEPT !.previous = encoder.previous]
  /\ skipped' = TRUE
  /\ EncoderOnly /\ UNCHANGED <<slot, out>>

\* It fails, or cannot be made to begin with.
EncoderFails ==
  /\ encoder.at = "busy" \/ (encoder = NoEncoder /\ worker.mode # "gpu")
  /\ Breaks /\ out' = Error
  /\ encoder' = [NoEncoder EXCEPT !.at = "ended"]
  /\ EncoderOnly /\ UNCHANGED <<force, slot, skipped>>

\* The channel is closed and empty.
EncoderEnds ==
  /\ encoder.at = "idle" /\ ~slot.new /\ worker.mode = "ended"
  /\ encoder' = [NoEncoder EXCEPT !.at = "ended"]
  /\ EncoderOnly /\ UNCHANGED <<force, slot, out, skipped, bounds>>

\* Mutant of Join: it returns how the encoder ended.
JoinEncoder ==
  /\ worker.mode = "ended" /\ encoder.at = "ended"
  /\ encoder' = [NoEncoder EXCEPT !.at = "joined"]
  /\ EncoderOnly /\ UNCHANGED <<force, slot, out, skipped, bounds>>

\* Both threads are joined before the capture's error is sent.
Join ==
  /\ worker.mode = "ended" /\ encoder.at = "ended"
  /\ encoder' = [NoEncoder EXCEPT !.at = "joined"]
  /\ out' = IF worker.failed THEN Error ELSE out
  /\ EncoderOnly /\ UNCHANGED <<force, slot, skipped, bounds>>

-----------------------------------------------------------------------------
Next ==
  \/ Switch \/ AskKeyframe \/ Open \/ OpenFails \/ Follow \/ MovePointer
  \/ \E o \in Outputs :
       Paint(o) \/ NoImage(o) \/ Update(o) \/ Lost(o) \/ UpdateFails(o)
  \/ Process \/ Encode \/ EncodeEmpty \/ EncodeFails \/ Capture \/ CaptureEnds \/ CaptureLate
  \/ TakeFrame \/ EncodeFrame \/ SkipFrame \/ EncoderFails \/ EncoderEnds \/ Join

Spec == Init /\ [][Next]_vars

-----------------------------------------------------------------------------
(***************************************************************************)
(* Properties.                                                             *)
(***************************************************************************)
\* A frame is put together output by output while Windows draws and switches
\* desktops: it never shows an output that was not copied yet, nor parts of
\* two desktops.
FramesWhole ==
  \A f \in {out, slot.frame, encoder.frame} : f.kind = "frame" =>
    \E desktop \in 0..era : \A o \in Outputs, t \in Tiles :
      f.picture[o][t][1] = desktop /\ f.picture[o][t] # Blank

\* Everything that Windows had to tell is told and the threads have nothing
\* in hand.
AtRest ==
  /\ AtOutput(1) /\ Complete /\ shape = lastCursor
  /\ \A o \in Outputs : dup[o].era = era /\ ~dup[o].image
  /\ ~slot.new /\ encoder.at = "idle"

\* When the desktop is at rest the viewers' last frame shows it as it is,
\* though only what has changed is copied, encoded and sent; unless the last
\* frame was skipped by an encoder, which nothing makes up for.
LatestShown == AtRest /\ ~skipped => out = [kind |-> "frame", picture |-> screen, cursor |-> shape]

\* README.md:49: "adapters that cannot produce DXGI frames return a capture
\* error": when a pipeline has ended by itself, an error is the last thing
\* sent, and nothing follows it.
ErrorsLast ==
  /\ encoder.at = "joined" => out = Error
  /\ out = Error => encoder.at \in {"ended", "joined"}

-----------------------------------------------------------------------------
(***************************************************************************)
(* The invariant behind the properties.                                    *)
(***************************************************************************)
\* The duplications are of one desktop, and what was copied is of that one;
\* the screen shows the present one.
OneDesktop ==
  /\ \A o \in Outputs, t \in Tiles : screen[o][t][1] = era /\ screen[o][t][2] # 0
  /\ \E desktop \in 0..era : \A o \in Outputs :
       /\ dup[o].era = desktop
       /\ o \in ready =>
            \A t \in Tiles : composite[o][t][1] = desktop /\ composite[o][t][2] # 0

\* What the picture lacks, Windows has yet to tell, together with an image.
LackIsTold ==
  \A o \in Outputs :
    /\ dup[o].dirty \cup dup[o].moved # {} => dup[o].image
    /\ o \in ready /\ dup[o].era = era =>
         \A t \in Tiles \ (dup[o].dirty \cup dup[o].moved) : composite[o][t] = screen[o][t]

\* At which stage what may be.
Stages ==
  /\ worker.mode = "gpu" => ~slot.new /\ encoder = NoEncoder
  /\ worker.at = "encode" => worker.mode = "gpu" /\ Complete /\ worker.cursor \in Shapes
  /\ worker.at = "update" /\ worker.next = 1 => ~worker.changed
  /\ slot.new => slot.frame.kind = "frame"
  /\ encoder.at = "busy" => encoder.frame.kind = "frame"
  /\ encoder.previous.kind = "frame" => out = encoder.previous

\* As long as nothing more was copied, the newest frame is the picture.
PictureSent ==
  Runs("update") /\ Complete /\ lastCursor # "none" /\ ~worker.changed =>
    /\ slot.new => slot.frame = Frame(lastCursor)
    /\ ~slot.new /\ encoder.at = "busy" => encoder.frame = Frame(lastCursor)
    /\ ~slot.new /\ encoder.at = "idle" /\ ~skipped => out = Frame(lastCursor)

\* How the threads end.
EndsInError ==
  /\ worker.mode = "ended" => worker.failed \/ encoder.at \in {"ended", "joined"}
  /\ encoder.at \in {"ended", "joined"} => out = Error \/ (worker.failed /\ encoder.at = "ended")
  /\ encoder.at = "joined" \/ worker.failed => worker.mode = "ended"
  /\ out.kind = "error" => encoder.at \in {"ended", "joined"}

CaptureInv ==
  TypeOK /\ OneDesktop /\ FramesWhole /\ LackIsTold /\ Stages /\ PictureSent /\ EndsInError

=============================================================================
