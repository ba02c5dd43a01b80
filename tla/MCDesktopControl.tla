-------------------------- MODULE MCDesktopControl -------------------------
(* DesktopControl with a few sessions, explored in two slices: sessions of  *)
(* every kind that use one channel, and controlling sessions that use two.  *)
EXTENDS DesktopControl, TLC

VARIABLE slice

ControlSymmetry == Permutations(Sessions \ ViewOnly) \cup Permutations(Channels)

OneChannel ==
  \E c \in Channels : \A s \in Sessions, d \in Channels \ {c} : channel'[s][d] = "new"

OnlyControlling ==
  /\ \A s \in ViewOnly : phase'[s] = phase[s]
  /\ tracked'.buttons = {} /\ held'.buttons = {}

SliceInit == Init /\ slice \in {"sessions", "channels"}

SliceNext ==
  /\ Next
  /\ slice' = slice
  /\ slice = "sessions" => OneChannel
  /\ slice = "channels" => OnlyControlling

SliceSpec == SliceInit /\ [][SliceNext]_<<vars, slice>>

=============================================================================
