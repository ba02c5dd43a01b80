-------------------------- MODULE MCTerminalControl ------------------------
(* TerminalControl with a few connections and sizes.                        *)
EXTENDS TerminalControl, TLC

ControlSymmetry == Permutations(Tasks) \cup Permutations(Sizes)

=============================================================================
