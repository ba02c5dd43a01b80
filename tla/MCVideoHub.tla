----------------------------- MODULE MCVideoHub ----------------------------
(* VideoHub with one or two viewers, given as model values.                 *)
EXTENDS VideoHub

=============================================================================
