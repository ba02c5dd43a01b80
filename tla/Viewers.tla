------------------------------- MODULE Viewers ------------------------------
(* What a viewer of the desktop has to do with: the signalling session      *)
(* behind it, the monitors it is shown, and the capture it watches.  Each   *)
(* is explored by itself, in the variables that the components of the suite *)
(* (MCServer) share.                                                        *)
EXTENDS Integers

CONSTANTS
  Displays, Modes, Limit, Caps, MaxMoves,
  Connections, Resolvable, MaxBreaks,
  Outputs, Tiles, MaxPaints, MaxSwitches, MaxAsks

VARIABLES
  s1, s2, s3, s4, s5, s6, s7, s8, s9, s10, s11, s12, s13, s14, s15, s16

Screens == INSTANCE DesktopScreens
  WITH MaxChanges <- MaxMoves, desktop <- s1, plain <- s2, changes <- s3,
       capture <- s4, sent <- s5, greeting <- s6, view <- s7, request <- s8
Peers == INSTANCE PeerSession
  WITH socket <- s1, made <- s2, peerSession <- s3, page <- s4, up <- s5,
       down <- s6, task <- s7, peer <- s8, breaks <- s9
Capture == INSTANCE DesktopCapture
  WITH screen <- s1, shape <- s2, era <- s3, paints <- s4, dup <- s5,
       composite <- s6, ready <- s7, worker <- s8, lastCursor <- s9,
       force <- s10, slot <- s11, encoder <- s12, out <- s13, skipped <- s14,
       breaks <- s15, asks <- s16

\* What a .cfg cannot write: the modes of the monitors, the least that can be
\* asked for, and the largest frame.
SmallModes == {<<640, 480>>, <<320, 200>>, <<1365, 767>>, <<3840, 2160>>}
SmallLimit == <<640, 480>>
SmallCaps == <<1920, 1080>>

\* The constants are such as the code can have them.
ASSUME ViewerAssumptions ==
  /\ Screens!ScreensAssumption
  /\ Peers!PeersAssumption
  /\ Capture!CaptureAssumption

=============================================================================
