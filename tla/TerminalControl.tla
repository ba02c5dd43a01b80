--------------------------- MODULE TerminalControl -------------------------
(***************************************************************************)
(* Who sets the size of a terminal (TerminalClients and the resize path of *)
(* TerminalSession, src/src/terminal.rs).  The clients of a session are    *)
(* kept in connection order; the first is the controller.  A call decides  *)
(* under the clients lock whether a size is to be applied, lets the lock   *)
(* go, and then applies it to the parser and to the PTY under two other    *)
(* locks.  The connection tasks run in parallel, so the calls of different *)
(* tasks interleave between these three steps.                             *)
(***************************************************************************)
EXTENDS Integers, Sequences, FiniteSets

CONSTANTS
  Tasks,       \* websocket tasks; each handles one connection
  Sizes,       \* clamped sizes a client may ask for
  DefaultSize, \* DEFAULT_TERMINAL_COLS x DEFAULT_TERMINAL_ROWS
  NoSize,      \* Option::None
  MaxResizes   \* bound: resizes of the whole behaviour

SizeAssumption == NoSize \notin Sizes \cup {DefaultSize}
ResizesAssumption == MaxResizes \in Nat

VARIABLES
  clients,     \* TerminalClients.clients
  nextId,      \* TerminalClients.next_id
  parserSize,  \* size of the vt100 screen
  ptySize,     \* size of the PTY
  task,        \* per task: its phase, its client id and the size it applies
  resizes,     \* resizes so far
  overlapped   \* history: a call began while another one was still applying

vars == <<clients, nextId, parserSize, ptySize, task, resizes, overlapped>>

AnySize == Sizes \cup {DefaultSize}
Phase == {"new", "attached", "parser", "pty", "done"}

Client == [id : Nat \ {0}, size : Sizes \cup {NoSize}]
Call == [phase : Phase, id : Nat, size : Sizes \cup {NoSize}, leaving : BOOLEAN]

ClientsOK == clients \in Seq(Client) /\ nextId \in Nat
SizesOK == parserSize \in AnySize /\ ptySize \in AnySize
TasksOK == task \in [Tasks -> Call]
CountsOK == resizes \in 0 .. MaxResizes /\ overlapped \in BOOLEAN

TypeOK == ClientsOK /\ SizesOK /\ TasksOK /\ CountsOK

Init ==
  /\ clients = <<>>
  /\ nextId = 0
  /\ parserSize = DefaultSize
  /\ ptySize = DefaultSize
  /\ task = [t \in Tasks |-> [phase |-> "new", id |-> 0, size |-> NoSize,
                              leaving |-> FALSE]]
  /\ resizes = 0
  /\ overlapped = FALSE

-----------------------------------------------------------------------------
Applying(t) == task[t].phase \in {"parser", "pty"}

\* Mutant of HandedOn: whoever leaves hands on the size of the next client.
HandedOnByAnyone(queue, p) ==
  IF Len(queue) = p THEN NoSize ELSE queue[p + 1].size

\* The size a client hands on when it leaves from position p: that of the
\* next client, if the one that leaves was the controller and the next one
\* has said its size.
HandedOn(queue, p) ==
  IF p = 1 /\ Len(queue) > 1 THEN queue[2].size ELSE NoSize

Without(queue, p) == SubSeq(queue, 1, p - 1) \o SubSeq(queue, p + 1, Len(queue))

\* The call goes on to resize_pty with a size, or returns.
Proceed(t, size, leaving) ==
  /\ task' = [task EXCEPT ![t].size = size, ![t].leaving = leaving,
                ![t].phase = IF size # NoSize THEN "parser"
                             ELSE IF leaving THEN "done" ELSE "attached"]
  /\ overlapped' = (overlapped \/ (size # NoSize /\ \E u \in Tasks : Applying(u)))

\* attach_client, at the start of terminal_websocket_session.
Attach(t) ==
  /\ task[t].phase = "new"
  /\ nextId' = nextId + 1
  /\ clients' = Append(clients, [id |-> nextId + 1, size |-> NoSize])
  /\ task' = [task EXCEPT ![t].phase = "attached", ![t].id = nextId + 1]
  /\ UNCHANGED <<parserSize, ptySize, resizes, overlapped>>

\* TerminalSession::resize up to the release of the clients lock: the hello
\* or a resize message of the client.
Resize(t) ==
  /\ task[t].phase = "attached"
  /\ resizes < MaxResizes
  /\ resizes' = resizes + 1
  /\ \E p \in DOMAIN clients, size \in Sizes :
       /\ clients[p].id = task[t].id
       /\ clients' = [clients EXCEPT ![p].size = size]
       /\ Proceed(t, IF p = 1 THEN size ELSE NoSize, FALSE)
  /\ UNCHANGED <<nextId, parserSize, ptySize>>

\* TerminalSession::detach_client up to the release of the clients lock, on
\* every way out of terminal_websocket_session.
Detach(t) ==
  /\ task[t].phase = "attached"
  /\ \E p \in DOMAIN clients :
       /\ clients[p].id = task[t].id
       /\ clients' = Without(clients, p)
       /\ Proceed(t, HandedOn(clients, p), TRUE)
  /\ UNCHANGED <<nextId, parserSize, ptySize, resizes>>

\* resize_pty, under the state lock.
ResizeParser(t) ==
  /\ task[t].phase = "parser"
  /\ parserSize' = task[t].size
  /\ task' = [task EXCEPT ![t].phase = "pty"]
  /\ UNCHANGED <<clients, nextId, ptySize, resizes, overlapped>>

\* Mutant of ResizePty: the call forgets its size before it applies it.
ResizePtyForgotten(t) ==
  /\ task[t].phase = "pty"
  /\ task' = [task EXCEPT ![t].phase = IF task[t].leaving THEN "done" ELSE "attached",
                          ![t].size = NoSize]
  /\ ptySize' = task'[t].size
  /\ UNCHANGED <<clients, nextId, parserSize, resizes, overlapped>>

\* resize_pty, under the master lock.
ResizePty(t) ==
  /\ task[t].phase = "pty"
  /\ ptySize' = task[t].size
  /\ task' = [task EXCEPT ![t].phase = IF task[t].leaving THEN "done" ELSE "attached",
                          ![t].size = NoSize]
  /\ UNCHANGED <<clients, nextId, parserSize, resizes, overlapped>>

Step(t) == Attach(t) \/ Resize(t) \/ Detach(t) \/ ResizeParser(t) \/ ResizePty(t)

Next == \E t \in Tasks : Step(t)

Spec == Init /\ [][Next]_vars

-----------------------------------------------------------------------------
\* No call is between its decision and its last effect.
Quiet == \A t \in Tasks : ~Applying(t)

\* terminal.rs:937-947 (terminal_resize_control_follows_connection_order):
\* the size of the client in control, by its own resize or by the hand-over
\* when the one before it detaches, is what the terminal is resized to.  So
\* once every call has returned, the PTY has the size its controller said
\* last, and the parser that models the screen has the size of the PTY.
ControllerSizeApplied ==
  Quiet =>
    /\ parserSize = ptySize
    /\ clients # <<>> /\ clients[1].size # NoSize => ptySize = clients[1].size

\* As long as calls do not overlap, the terminal has the size its controller
\* said last, over any hand-over, and the screen model follows the PTY
\* (terminal.rs:352-398, 699-718).
SerialControl == ~overlapped => ControllerSizeApplied

\* What this rests on: a call that applies has a size to apply, and as long
\* as calls do not overlap it is the only one, and what it applies is what
\* the controller said last.
AppliesSize == \A t \in Tasks : Applying(t) => task[t].size # NoSize

AppliesFor(t) ==
  /\ \A u \in Tasks : Applying(u) => u = t
  /\ clients # <<>> /\ clients[1].size # NoSize => clients[1].size = task[t].size
  /\ task[t].phase = "pty" => parserSize = task[t].size

OneApplies == ~overlapped => \A t \in Tasks : Applying(t) => AppliesFor(t)

ControlInv == TypeOK /\ AppliesSize /\ OneApplies /\ SerialControl

=============================================================================
