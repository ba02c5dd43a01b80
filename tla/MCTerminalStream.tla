-------------------------- MODULE MCTerminalStream -------------------------
(* TerminalStream on small instances; the sockets are interchangeable.      *)
EXTENDS TerminalStream, TLC

SocketSymmetry == Permutations(Sockets)
StreamSymmetry == SocketSymmetry \cup Permutations(Clients)

=============================================================================
