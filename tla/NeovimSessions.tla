--------------------------- MODULE NeovimSessions ---------------------------
(***************************************************************************)
(* The Neovim of a project (workspace/neovim.rs): an actor owns the process *)
(* and serves one browser at a time.  Connections reach it through a        *)
(* channel and take over from each other; input is queued, since Neovim     *)
(* applies keys at once but pastes and opened files when it gets to them.   *)
(***************************************************************************)
EXTENDS Naturals, Sequences, SequencesExt

CONSTANTS
  Tabs,        \* browser tabs
  NoTab,
  ChannelCap,  \* connections that wait for the actor (4)
  QueueCap,    \* messages that wait for Neovim (4096)
  MaxInputs,     \* bound on the messages of a session
  MaxTakeOvers   \* bound on how often tabs take over

VARIABLES
  tab,      \* what became of each tab's connection
  actor,    \* the actor: its life, why it ended, whom it serves, its queue
  channel,  \* connections that wait
  pipe,     \* requests on Neovim's standard input, not yet carried out
  replies,  \* answers on its standard output
  exited,   \* Neovim has exited
  applied   \* the inputs that took effect, in that order

nvim == <<pipe, replies, exited, applied>>
vars == <<tab, actor, channel, nvim>>

Kinds == {"keys", "paste", "open"}
Numbers == 0..MaxInputs
Messages == [kind: Kinds \cup {"attach"}, n: Numbers]
NoActor == [life |-> "over", cause |-> "none", socket |-> NoTab,
            queue |-> <<>>, pending |-> FALSE, accepted |-> 0, takeOvers |-> 0, refused |-> {}]

SessionAssumption ==
  /\ NoTab \notin Tabs /\ ChannelCap \in Nat \ {0} /\ QueueCap \in Nat \ {0}
  /\ MaxInputs \in Nat /\ MaxTakeOvers \in Nat

Lives == {"new", "serving", "ending", "over"}
Causes == {"none", "spawn", "exit", "rpc", "invalid", "full"}
Actor ==
  [life: Lives, cause: Causes, socket: Tabs \cup {NoTab}, queue: Seq(Messages), pending: BOOLEAN,
   accepted: Numbers, takeOvers: 0..MaxTakeOvers, refused: SUBSET Numbers]
Answer == [to: {"attach", "paste", "open"}, ok: BOOLEAN]

TabsOK ==
  /\ tab \in [Tabs -> {"away", "holding", "stale", "waiting", "served"}]
  /\ channel \in Seq(Tabs) /\ Len(channel) <= ChannelCap
ActorOK == actor \in Actor /\ Len(actor.queue) <= QueueCap
NeovimOK ==
  /\ pipe \in Seq(Messages) /\ replies \in Seq(Answer) /\ applied \in Seq(Numbers)
  /\ exited \in BOOLEAN
TypeOK == TabsOK /\ ActorOK /\ NeovimOK

Init ==
  /\ tab = [t \in Tabs |-> "away"] /\ actor = NoActor
  /\ channel = <<>> /\ pipe = <<>> /\ replies = <<>> /\ exited = FALSE /\ applied = <<>>

-----------------------------------------------------------------------------
Becomes(t, stage) == tab' = [tab EXCEPT ![t] = stage]
Serving == actor.life = "serving"
Request(kind) == [kind |-> kind, n |-> 0]

\* An error leaves the loop: the process is killed and finish will tell the tab.
EndsAs(value, cause) ==
  /\ actor' = [value EXCEPT !.life = "ending", !.cause = cause]
  /\ pipe' = <<>> /\ replies' = <<>> /\ exited' = TRUE /\ UNCHANGED applied
Ends(cause) == EndsAs(actor, cause)

\* A message to Neovim fails when it has exited.
Writes(value, messages) ==
  IF exited THEN EndsAs(value, "exit")
  ELSE actor' = value /\ pipe' = pipe \o messages /\ UNCHANGED <<replies, exited, applied>>

\* NeovimSessions::attach: senders whose actor has gone are dropped, and a new
\* actor is made if there is none.  A page that lost its connection tries again.
Lookup(t) ==
  /\ tab[t] = "away" /\ Becomes(t, "holding")
  /\ actor' = IF actor.life = "over" THEN [NoActor EXCEPT !.life = "new"] ELSE actor
  /\ UNCHANGED <<channel, nvim>>

\* The send waits for room ...
Send(t) ==
  /\ tab[t] = "holding" /\ Len(channel) < ChannelCap
  /\ channel' = Append(channel, t) /\ Becomes(t, "waiting")
  /\ UNCHANGED <<actor, nvim>>

\* ... and when the actor has gone since, another is looked up.
SendFails(t) ==
  /\ tab[t] = "stale" /\ Becomes(t, "away")
  /\ UNCHANGED <<actor, channel, nvim>>

\* The actor's first connection: nvim is started and the UI attached.
Start ==
  /\ actor.life = "new" /\ channel # <<>>
  /\ channel' = Tail(channel) /\ Becomes(Head(channel), "served")
  /\ \/ /\ actor' = [actor EXCEPT !.life = "serving", !.socket = Head(channel)]
        /\ pipe' = <<Request("attach")>> /\ exited' = FALSE
     \/ /\ actor' = [actor EXCEPT !.life = "ending", !.cause = "spawn", !.socket = Head(channel)]
        /\ UNCHANGED <<pipe, exited>>
  /\ UNCHANGED <<replies, applied>>

\* Mutant of TakeOver: the new tab starts afresh.
TakeOverAfresh ==
  /\ Serving /\ channel # <<>> /\ actor.takeOvers < MaxTakeOvers
  /\ channel' = Tail(channel)
  /\ tab' = [t \in Tabs |-> IF t = Head(channel) THEN "served"
                            ELSE IF t = actor.socket THEN "away" ELSE tab[t]]
  /\ Writes([actor EXCEPT !.socket = Head(channel), !.takeOvers = @ + 1,
                         !.queue = <<>>, !.pending = FALSE], <<Request("attach")>>)

\* Another connection: the tab before it is detached, what it has typed stays.
\* The UI is detached and attached again.
TakeOver ==
  /\ Serving /\ channel # <<>> /\ actor.takeOvers < MaxTakeOvers
  /\ channel' = Tail(channel)
  /\ tab' = [t \in Tabs |-> IF t = Head(channel) THEN "served"
                            ELSE IF t = actor.socket THEN "away" ELSE tab[t]]
  /\ Writes([actor EXCEPT !.socket = Head(channel), !.takeOvers = @ + 1], <<Request("attach")>>)

\* A message of the served tab goes to the queue, if it parses and there is room.
Accept(kind) ==
  /\ Serving /\ actor.socket # NoTab /\ actor.accepted < MaxInputs
  /\ IF Len(actor.queue) = QueueCap THEN Ends("full")
     ELSE /\ actor' = [actor EXCEPT !.accepted = @ + 1,
                         !.queue = Append(@, [kind |-> kind, n |-> actor.accepted + 1])]
          /\ UNCHANGED nvim
  /\ UNCHANGED <<tab, channel>>

\* It does not parse or, when its turn comes, is out of range.
Garbled ==
  /\ Serving /\ actor.socket # NoTab /\ Ends("invalid") /\ UNCHANGED <<tab, channel>>

\* The tab goes away, or does not take what it is sent: Neovim runs on.
LoseTab ==
  /\ Serving /\ actor.socket # NoTab
  /\ Becomes(actor.socket, "away") /\ actor' = [actor EXCEPT !.socket = NoTab]
  /\ UNCHANGED <<channel, nvim>>

\* Mutant of Issue: opening a file is not waited for.
IssueAtOnce ==
  /\ Serving /\ ~actor.pending /\ actor.queue # <<>>
  /\ LET input == Head(actor.queue)
         popped == [actor EXCEPT !.queue = Tail(@)]
     IN \/ Writes([popped EXCEPT !.pending = input.kind = "paste"], <<input>>)
        \/ /\ input.kind = "open"
           /\ actor' = [popped EXCEPT !.refused = @ \cup {input.n}] /\ UNCHANGED nvim
  /\ UNCHANGED <<tab, channel>>

\* The next input, unless a paste or a file is on its way.  A path outside the
\* project, or of no file, is refused (open_file_rpc).
Issue ==
  /\ Serving /\ ~actor.pending /\ actor.queue # <<>>
  /\ LET input == Head(actor.queue)
         popped == [actor EXCEPT !.queue = Tail(@)]
     IN \/ Writes([popped EXCEPT !.pending = input.kind \in {"paste", "open"}], <<input>>)
        \/ /\ input.kind = "open"
           /\ actor' = [popped EXCEPT !.refused = @ \cup {input.n}] /\ UNCHANGED nvim
  /\ UNCHANGED <<tab, channel>>

\* A reply, as decode takes it off Neovim's output.
Reply ==
  /\ Serving /\ replies # <<>>
  /\ LET reply == Head(replies)
     IN IF ~reply.ok /\ reply.to # "open" THEN Ends("rpc")
        ELSE /\ actor' = [actor EXCEPT !.pending = reply.to = "attach" /\ @]
             /\ replies' = Tail(replies) /\ UNCHANGED <<pipe, exited, applied>>
  /\ UNCHANGED <<tab, channel>>

\* The end of the output: Neovim has exited.
SeeExit == Serving /\ exited /\ replies = <<>> /\ Ends("exit") /\ UNCHANGED <<tab, channel>>

\* finish, and the actor is gone: connections that still wait are dropped, and
\* those about to be sent find it closed.
Finish ==
  /\ actor.life = "ending" /\ actor' = NoActor
  /\ tab' = [t \in Tabs |-> IF tab[t] \in {"served", "waiting"} THEN "away"
                            ELSE IF tab[t] = "holding" THEN "stale" ELSE tab[t]]
  /\ channel' = <<>> /\ applied' = <<>>
  /\ UNCHANGED <<pipe, replies, exited>>

-----------------------------------------------------------------------------
\* Neovim takes keys from its input as they come ...
Fast(i) == pipe[i].kind = "keys" /\ \A j \in 1..(i - 1) : pipe[j].kind # "keys"

\* ... and requests one after the other, when it gets to them.
Deferred(i) == pipe[i].kind # "keys" /\ i = 1

CarryOut(i) ==
  /\ ~exited
  /\ Fast(i) \/ Deferred(i)
  /\ pipe' = RemoveAt(pipe, i)
  /\ \E ok \in BOOLEAN :
       /\ applied' = IF pipe[i].kind \in {"keys", "paste", "open"} THEN Append(applied, pipe[i].n)
                     ELSE applied
       /\ replies' = IF pipe[i].kind \in {"attach", "paste", "open"}
                     THEN Append(replies, [to |-> pipe[i].kind, ok |-> ok]) ELSE replies
  /\ UNCHANGED <<tab, actor, channel, exited>>

Quit ==
  /\ Serving /\ ~exited /\ exited' = TRUE /\ pipe' = <<>>
  /\ UNCHANGED <<tab, actor, channel, replies, applied>>

Next ==
  \/ \E t \in Tabs : Lookup(t) \/ Send(t) \/ SendFails(t)
  \/ Start \/ TakeOver \/ Garbled \/ LoseTab \/ Issue \/ Reply \/ SeeExit \/ Finish
  \/ \E kind \in Kinds : Accept(kind)
  \/ \E i \in DOMAIN pipe : CarryOut(i)
  \/ Quit

Spec == Init /\ [][Next]_vars

-----------------------------------------------------------------------------
Numbered(messages) == {messages[i].n : i \in DOMAIN messages} \ {0}

\* Inputs take effect in the order they came: keys never overtake a paste or a
\* file that is being opened, whichever tabs they come from.
InputInOrder == \A i, j \in DOMAIN applied : i < j => applied[i] < applied[j]

\* No input gets lost when another tab takes over or the tab goes away.
InputKept ==
  Serving /\ ~exited =>
    1..actor.accepted = Range(applied) \cup Numbered(pipe) \cup Numbered(actor.queue) \cup actor.refused

\* Input is held back exactly while one paste or file is with Neovim, or its
\* answer on the way; so it is never held back for good.
PendingExact ==
  Serving /\ ~exited =>
    LET sent == {i \in DOMAIN pipe : pipe[i].kind \in {"paste", "open"}}
        answered == {i \in DOMAIN replies : replies[i].to # "attach"}
    IN /\ actor.pending <=> sent \cup answered # {}
       /\ \A i, j \in sent : i = j
       /\ sent = {} \/ answered = {}

\* "Only process exit, an unrecoverable RPC error or host shutdown ends a
\* session" (workspace/neovim.rs:403): that a tab types on while Neovim is busy
\* with a paste does not.
SessionSurvivesInput == actor.cause # "full"

\* What these properties rest on.  The queue holds the inputs accepted last, ...
Issued == actor.accepted - Len(actor.queue)
QueueRuns ==
  /\ Len(actor.queue) <= actor.accepted
  /\ \A i \in DOMAIN actor.queue :
       actor.queue[i].kind \in Kinds /\ actor.queue[i].n = Issued + i

\* ... Neovim has those before them, in their order, a paste or a file last, ...
Input(i) == pipe[i].kind # "attach"
PipeRuns ==
  /\ \A i \in DOMAIN pipe : IF Input(i) THEN pipe[i].n \in 1..Issued ELSE pipe[i].n = 0
  /\ \A i, j \in DOMAIN pipe :
       i < j /\ Input(i) /\ Input(j) => pipe[i].kind = "keys" /\ pipe[i].n < pipe[j].n
  /\ \A a \in DOMAIN applied : applied[a] \in 1..Issued
  /\ \A a \in DOMAIN applied, i \in DOMAIN pipe : Input(i) => applied[a] < pipe[i].n

\* ... one answer is on its way, ...
OneAnswer ==
  Serving /\ ~exited =>
    \A i, j \in DOMAIN replies : replies[i].to # "attach" /\ replies[j].to # "attach" => i = j

\* ... and an actor begins with nothing, and ends so.
Unserved ==
  /\ ~Serving => pipe = <<>> /\ replies = <<>>
  /\ actor.life \in {"new", "over"} =>
       /\ actor.queue = <<>> /\ actor.accepted = 0 /\ actor.refused = {}
       /\ actor.pending = FALSE /\ applied = <<>>

NeovimInv ==
  /\ ActorOK /\ NeovimOK /\ QueueRuns /\ PipeRuns /\ OneAnswer /\ Unserved
  /\ InputInOrder /\ InputKept /\ PendingExact
SessionInv == TabsOK /\ NeovimInv

=============================================================================
