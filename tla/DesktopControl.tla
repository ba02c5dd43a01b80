--------------------------- MODULE DesktopControl --------------------------
(***************************************************************************)
(* Who controls the desktop (NativeInputController,                        *)
(* src/src/desktop/native/controller.rs), with the session tasks and the   *)
(* data channel callbacks that call it (src/src/desktop_webrtc/mod.rs and  *)
(* peer.rs).  One session at a time owns the native input; others that are *)
(* allowed to control wait in order of activation.                         *)
(*                                                                         *)
(* Each controller call is one step under the controller's mutex.  A       *)
(* session task, its on_open, on_message and on_close callbacks are tasks  *)
(* of their own, so their steps interleave freely; on_open and on_close    *)
(* first touch the control_channel lock and then call the controller.      *)
(***************************************************************************)
EXTENDS NativeInput, Sequences, FiniteSets

CONSTANTS
  Sessions,    \* session ids; the counter never repeats one
  ViewOnly,    \* the sessions of view-only connections
  Channels,    \* data channels a client opens with the control label
  NoSession, NoChannel   \* Option::None

ASSUME SessionAssumption ==
  /\ NoSession \notin Sessions
  /\ NoChannel \notin Channels
  /\ ViewOnly \subseteq Sessions

VARIABLES
  owner,       \* state.owner
  waiters,     \* state.waiters
  registered,  \* keys of state.sessions
  tracked,     \* state.input
  held,        \* what Windows holds pressed for Latitude
  failed,      \* history: SendInput has rejected an event
  lease,       \* per session, the value of its watch channel
  unseen,      \* per session, the watch has a value its task has not read
  told,        \* per session, the last control message its client was sent
  phase,       \* per session, where run_desktop_session is
  control,     \* per session, control_channel
  channel,     \* per session and channel, its life
  opening      \* per session and channel, where its on_open callback is

controllerVars == <<owner, waiters, registered, tracked, held, failed, lease, unseen>>
sessionVars == <<told, phase, control, channel, opening>>
vars == <<controllerVars, sessionVars>>

Lease == {"disabled", "pending", "granted", "waiting"}

\* The sessions that may control.
Controlling == Sessions \ ViewOnly

TypeOK ==
  /\ owner \in Controlling \cup {NoSession}
  /\ waiters \in Seq(Controlling)
  /\ registered \in SUBSET Controlling
  /\ tracked \in Input
  /\ held \in Input
  /\ failed \in BOOLEAN
  /\ lease \in [Sessions -> Lease]
  /\ unseen \in [Sessions -> BOOLEAN]
  /\ told \in [Sessions -> Lease]
  /\ phase \in [Sessions -> {"new", "setup", "running", "closing", "gone"}]
  /\ control \in [Sessions -> Channels \cup {NoChannel}]
  /\ channel \in [Sessions -> [Channels -> {"new", "open", "releasing", "closed"}]]
  /\ opening \in [Sessions -> [Channels -> {"idle", "set", "activate", "done"}]]

Init ==
  /\ owner = NoSession
  /\ waiters = <<>>
  /\ registered = {}
  /\ tracked = NoInput
  /\ held = NoInput
  /\ failed = FALSE
  /\ lease = [s \in Sessions |-> IF s \in ViewOnly THEN "disabled" ELSE "pending"]
  /\ unseen = [s \in Sessions |-> FALSE]
  /\ told = [s \in Sessions |-> IF s \in ViewOnly THEN "disabled" ELSE "pending"]
  /\ phase = [s \in Sessions |-> "new"]
  /\ control = [s \in Sessions |-> NoChannel]
  /\ channel = [s \in Sessions |-> [c \in Channels |-> "new"]]
  /\ opening = [s \in Sessions |-> [c \in Channels |-> "idle"]]

-----------------------------------------------------------------------------
(***************************************************************************)
(* The controller.                                                         *)
(***************************************************************************)

\* send_replace
Publish(s, value) ==
  /\ lease' = [lease EXCEPT ![s] = value]
  /\ unseen' = [unseen EXCEPT ![s] = TRUE]

\* activate: take control if nobody has it, else wait.
Activate(s) ==
  /\ UNCHANGED <<registered, tracked, held, failed>>
  /\ IF s \notin registered \/ lease[s] # "pending"
       THEN UNCHANGED <<owner, waiters, lease, unseen>>
       ELSE IF owner = NoSession
       THEN owner' = s /\ Publish(s, "granted") /\ UNCHANGED waiters
       ELSE waiters' = Append(waiters, s) /\ Publish(s, "waiting") /\ UNCHANGED owner

\* The queue without the entry of a session (at most one, see LeaseAgrees).
Without(queue, s) ==
  IF \E i \in DOMAIN queue : queue[i] = s
    THEN LET i == CHOOSE i \in DOMAIN queue : queue[i] = s
         IN  SubSeq(queue, 1, i - 1) \o SubSeq(queue, i + 1, Len(queue))
    ELSE queue

\* Mutant of Release: the input state is dropped without releasing anything.
ReleaseForgotten ==
  /\ tracked' = NoInput
  /\ UNCHANGED <<held, failed>>

\* release_native_input: errors are ignored and the tracked state is reset.
Release ==
  /\ tracked' = NoInput
  /\ \E o \in ReleaseInput(tracked, held) :
       held' = o.held /\ failed' = (failed \/ ~o.ok)

\* Mutant of HandOver: control is given up, the queue keeps waiting.
HandOverToNobody(queue, sessions) ==
  /\ owner' = NoSession
  /\ waiters' = queue
  /\ UNCHANGED <<lease, unseen>>

\* The loop of unregister: the first session of the queue that is still
\* registered takes over; those before it are dropped.
HandOver(queue, sessions) ==
  LET live == {i \in DOMAIN queue : queue[i] \in sessions}
  IN  IF live = {}
        THEN owner' = NoSession /\ waiters' = <<>> /\ UNCHANGED <<lease, unseen>>
        ELSE \E i \in live :
               /\ \A j \in live : i <= j
               /\ owner' = queue[i]
               /\ waiters' = SubSeq(queue, i + 1, Len(queue))
               /\ Publish(queue[i], "granted")

\* unregister
Unregister(s) ==
  /\ registered' = registered \ {s}
  /\ IF owner # s
       THEN waiters' = Without(waiters, s)
              /\ UNCHANGED <<owner, tracked, held, failed, lease, unseen>>
       ELSE Release /\ HandOver(Without(waiters, s), registered \ {s})

-----------------------------------------------------------------------------
(***************************************************************************)
(* The session task.                                                       *)
(***************************************************************************)

\* Mutant of Subscribe: a view-only session is registered as well.
SubscribeAnyone(s) ==
  /\ phase[s] = "new"
  /\ phase' = [phase EXCEPT ![s] = "setup"]
  /\ registered' = registered \cup {s}
  /\ UNCHANGED <<owner, waiters, tracked, held, failed, lease, unseen>>
  /\ UNCHANGED <<told, control, channel, opening>>

\* create_session up to subscribe.
Subscribe(s) ==
  /\ phase[s] = "new"
  /\ phase' = [phase EXCEPT ![s] = "setup"]
  /\ registered' = IF s \in ViewOnly THEN registered ELSE registered \cup {s}
  /\ UNCHANGED <<owner, waiters, tracked, held, failed, lease, unseen>>
  /\ UNCHANGED <<told, control, channel, opening>>

\* create_session: the descriptions could not be applied.
SetupFails(s) ==
  /\ phase[s] = "setup"
  /\ phase' = [phase EXCEPT ![s] = "gone"]
  /\ Unregister(s)
  /\ UNCHANGED <<told, control, channel, opening>>

\* create_session returns, and the answer goes out.
SetupDone(s) ==
  /\ phase[s] = "setup"
  /\ phase' = [phase EXCEPT ![s] = "running"]
  /\ UNCHANGED <<controllerVars, told, control, channel, opening>>

\* The branch of the select! loop for the lease: tell the client, over the
\* control channel if there is one and it is open.
TellClient(s) ==
  /\ phase[s] = "running"
  /\ unseen[s]
  /\ unseen' = [unseen EXCEPT ![s] = FALSE]
  /\ told' = IF control[s] # NoChannel /\ channel[s][control[s]] = "open"
               THEN [told EXCEPT ![s] = lease[s]] ELSE told
  /\ UNCHANGED <<owner, waiters, registered, tracked, held, failed, lease>>
  /\ UNCHANGED <<phase, control, channel, opening>>

\* The loop ends: the peer or the signalling socket is gone, or an error.
EndSession(s) ==
  /\ phase[s] = "running"
  /\ phase' = [phase EXCEPT ![s] = "closing"]
  /\ UNCHANGED <<controllerVars, told, control, channel, opening>>

\* Mutant of CleanUp: the session keeps its registration.
CleanUpForgotten(s) ==
  /\ phase[s] = "closing"
  /\ phase' = [phase EXCEPT ![s] = "gone"]
  /\ UNCHANGED <<controllerVars, told, control, channel, opening>>

\* The peer is closed, the pipeline stopped, and the session unregistered.
CleanUp(s) ==
  /\ phase[s] = "closing"
  /\ phase' = [phase EXCEPT ![s] = "gone"]
  /\ Unregister(s)
  /\ UNCHANGED <<told, control, channel, opening>>

-----------------------------------------------------------------------------
(***************************************************************************)
(* The callbacks of the control channels (webrtc starts each on_open in a  *)
(* task of its own, and calls on_close after the last message).            *)
(***************************************************************************)

\* A channel opens once the client has the answer.
ChannelOpens(s, c) ==
  /\ phase[s] = "running"
  /\ channel[s][c] = "new"
  /\ channel' = [channel EXCEPT ![s][c] = "open"]
  /\ opening' = [opening EXCEPT ![s][c] = "set"]
  /\ UNCHANGED <<controllerVars, told, phase, control>>

\* Mutant of OnOpenSet and OnOpenActivate: the session is activated first.
OnOpenSetLate(s, c) ==
  /\ opening[s][c] = "set"
  /\ opening' = [opening EXCEPT ![s][c] = "activate"]
  /\ Activate(s)
  /\ UNCHANGED <<told, phase, control, channel>>

\* on_open remembers the channel, ...
OnOpenSet(s, c) ==
  /\ opening[s][c] = "set"
  /\ opening' = [opening EXCEPT ![s][c] = "activate"]
  /\ control' = [control EXCEPT ![s] = c]
  /\ UNCHANGED <<controllerVars, told, phase, channel>>

\* ... then activates the session.
OnOpenActivate(s, c) ==
  /\ opening[s][c] = "activate"
  /\ opening' = [opening EXCEPT ![s][c] = "done"]
  /\ Activate(s)
  /\ UNCHANGED <<told, phase, control, channel>>

\* Mutant of OnMessage: the lease is not looked at.
OnMessageFromAnyone(s, c) ==
  /\ channel[s][c] = "open"
  /\ s \notin ViewOnly
  /\ \E o \in Commands(tracked, held) :
       tracked' = o.tracked /\ held' = o.held /\ failed' = (failed \/ ~o.ok)
  /\ UNCHANGED <<owner, waiters, registered, lease, unseen, sessionVars>>

\* on_message: a command of the session that has control is applied, any
\* other does nothing.
OnMessage(s, c) ==
  /\ channel[s][c] = "open"
  /\ s \notin ViewOnly
  /\ owner = s
  /\ \E o \in Commands(tracked, held) :
       tracked' = o.tracked /\ held' = o.held /\ failed' = (failed \/ ~o.ok)
  /\ UNCHANGED <<owner, waiters, registered, lease, unseen, sessionVars>>

\* on_close forgets the channel if it is the current one, ...
OnClose(s, c) ==
  /\ channel[s][c] = "open"
  /\ control' = IF control[s] = c THEN [control EXCEPT ![s] = NoChannel] ELSE control
  /\ channel' = [channel EXCEPT ![s][c] = IF control[s] = c THEN "releasing" ELSE "closed"]
  /\ UNCHANGED <<controllerVars, told, phase, opening>>

\* ... and then unregisters the session.
OnCloseRelease(s, c) ==
  /\ channel[s][c] = "releasing"
  /\ channel' = [channel EXCEPT ![s][c] = "closed"]
  /\ Unregister(s)
  /\ UNCHANGED <<told, phase, control, opening>>

-----------------------------------------------------------------------------
SessionTask(s) ==
  \/ Subscribe(s) \/ SetupFails(s) \/ SetupDone(s) \/ TellClient(s)
  \/ EndSession(s) \/ CleanUp(s)

Callback(s, c) ==
  \/ ChannelOpens(s, c) \/ OnOpenSet(s, c) \/ OnOpenActivate(s, c)
  \/ OnMessage(s, c) \/ OnClose(s, c) \/ OnCloseRelease(s, c)

Next == \E s \in Sessions : SessionTask(s) \/ \E c \in Channels : Callback(s, c)

Spec == Init /\ [][Next]_vars

\* Tasks that have something to run run; clients need not come or go.
Fairness ==
  \A s \in Sessions :
    /\ WF_vars(TellClient(s))
    /\ WF_vars(CleanUp(s))
    /\ \A c \in Channels : WF_vars(OnOpenSet(s, c)) /\ WF_vars(OnOpenActivate(s, c))
                             /\ WF_vars(OnCloseRelease(s, c))

FairSpec == Spec /\ Fairness

-----------------------------------------------------------------------------
(***************************************************************************)
(* Properties.                                                             *)
(***************************************************************************)
Waiting(s) == \E i \in DOMAIN waiters : waiters[i] = s

\* The leases the clients act upon, the owner and the queue tell one story:
\* exactly the owner has been granted control, exactly the queue waits, once
\* each, nobody waits while control is free, and only registered sessions
\* that may control take part (controller.rs:85-142).
LeaseAgrees ==
  /\ \A s \in registered :
       /\ lease[s] = "granted" <=> owner = s
       /\ lease[s] = "waiting" <=> Waiting(s)
  /\ owner # NoSession => owner \in registered
  /\ \A i \in DOMAIN waiters : waiters[i] \in registered
  /\ \A i, j \in DOMAIN waiters : waiters[i] = waiters[j] => i = j
  /\ owner = NoSession => waiters = <<>>

\* A session that is not set up yet, or has been cleaned up, has no part in
\* control, however late its callbacks run.
OnlyLiveSessionsControl ==
  \A s \in Sessions :
    s \in registered \/ owner = s \/ Waiting(s) =>
      phase[s] \in {"setup", "running", "closing"}

\* As long as Windows takes every event, Latitude knows what it holds
\* pressed, and while nobody has control nothing is pressed.
NothingStuck ==
  ~failed => held = tracked /\ (owner = NoSession => held = NoInput)

\* Control passes on with nothing pressed, unless an event was rejected: the
\* next controller never finds a key or button of the one before.
HandOverReleases ==
  [][owner' # owner => failed' \/ held' = NoInput]_vars

\* A client whose only control channel is open knows whether it has control
\* as soon as its task has caught up (peer.rs:253-260, mod.rs:164-178).
ClientTold ==
  \A s \in registered :
    phase[s] = "running" /\ ~unseen[s] /\ lease[s] # "pending"
      /\ (\A c \in Channels : channel[s][c] = "open")
      => told[s] = lease[s]

\* README.md:57: a client that waits receives control, or leaves, provided
\* no other client keeps its connection for ever.
WaiterServed ==
  \A s \in Sessions :
    (\A u \in Sessions \ {s} : [](phase[u] = "running" => <>(phase[u] # "running")))
      => [](Waiting(s) => <>~Waiting(s))

=============================================================================
