----------------------------- MODULE OutputLog -----------------------------
(***************************************************************************)
(* What the terminal stream promises: a log of output that each client     *)
(* reads from front to back.  A client may lose its place and start again  *)
(* further on, but it never goes back and never gets ahead of the log.     *)
(***************************************************************************)
EXTENDS Integers

CONSTANT Clients
VARIABLES
  produced,  \* length of the log
  position   \* per client, how much of it the client has; Lost when unknown

Lost == -1

Init == /\ produced = 0
        /\ position = [c \in Clients |-> Lost]

Produce == /\ produced' = produced + 1
           /\ UNCHANGED position

Advance(c) == /\ \E n \in 0 .. produced :
                    /\ n > position[c]
                    /\ position' = [position EXCEPT ![c] = n]
              /\ UNCHANGED produced

LosePlace(c) == /\ position' = [position EXCEPT ![c] = Lost]
                /\ UNCHANGED produced

Next == Produce \/ \E c \in Clients : Advance(c) \/ LosePlace(c)

Spec == Init /\ [][Next]_<<produced, position>>

=============================================================================
