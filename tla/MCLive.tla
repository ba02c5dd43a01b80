------------------------------- MODULE MCLive ------------------------------
(* What must eventually happen, component by component: `focus` names the   *)
(* one that moves and whose tasks are fair, so the state space is the sum   *)
(* of theirs.                                                               *)
EXTENDS TerminalStream

CONSTANTS Buttons, Keys, Sessions, ViewOnly, Channels, NoSession, NoChannel,
          Callers, MaxAge, MaxNow, Never,
          Users, NoUser, Hosts, NoHost, Ports, Calls, MaxFailures

VARIABLES
  focus,
  owner, waiters, registered, tracked, held, failed, lease, unseen, told, phase,
  control, channel, opening,
  now, queue, leader, completedAt, fetchedAt, caller, snapshotTime, fetchTime,
  blankTime,
  activeSession, service, supervisor, host, endpoint, call, process, failures

Desk == INSTANCE DesktopControl
Refresh == INSTANCE GitRefresh
Hosting == INSTANCE ServiceHosts WITH session <- activeSession

deskVars == <<owner, waiters, registered, tracked, held, failed, lease, unseen, told,
              phase, control, channel, opening>>
refreshVars == <<now, queue, leader, completedAt, fetchedAt, caller, snapshotTime,
                 fetchTime, blankTime>>
hostVars == <<activeSession, service, supervisor, host, endpoint, call, process, failures>>

LiveInit ==
  /\ focus \in {"stream", "desk", "refresh", "hosts"}
  /\ StreamInit /\ Desk!Init /\ Refresh!Init /\ Hosting!Init

LiveNext ==
  \/ focus = "stream" /\ StreamNext /\ UNCHANGED <<focus, deskVars, refreshVars, hostVars>>
  \/ focus = "desk" /\ Desk!Next /\ UNCHANGED <<focus, streamVars, refreshVars, hostVars>>
  \/ focus = "refresh" /\ Refresh!Next /\ UNCHANGED <<focus, streamVars, deskVars, hostVars>>
  \/ focus = "hosts" /\ Hosting!Next /\ UNCHANGED <<focus, streamVars, deskVars, refreshVars>>

-----------------------------------------------------------------------------
(* The fairness of each module, for the component in focus.                 *)
InFocus(action) == focus = "stream" /\ action

FairStream ==
  /\ \A k \in Sockets :
       /\ WF_streamVars(InFocus(SendFrame(k) /\ Unmoved))
       /\ WF_streamVars(InFocus((ReceiveOutput(k) \/ ReceiveLagged(k)) /\ Unmoved))
       /\ WF_streamVars(InFocus((ReceiveHello(k) \/ IgnoreMessage(k) \/ ReceiveAck(k)
                                   \/ ReceiveAnswer(k)) /\ Unmoved))
       /\ WF_streamVars(InFocus(DetectLoss(k) /\ Unmoved))
  /\ \A c \in Clients :
       /\ WF_streamVars(InFocus(Connect(c)))
       /\ WF_streamVars(InFocus(Open(c)))
       /\ WF_streamVars(InFocus(Receive(c)))
       /\ WF_streamVars(InFocus(WriteDone(c)))
       /\ WF_streamVars(InFocus(CloseEvent(c)))

FairDesk ==
  \A s \in Sessions :
    /\ WF_deskVars(focus = "desk" /\ Desk!TellClient(s))
    /\ WF_deskVars(focus = "desk" /\ Desk!CleanUp(s))
    /\ \A c \in Channels :
         /\ WF_deskVars(focus = "desk" /\ Desk!OnOpenSet(s, c))
         /\ WF_deskVars(focus = "desk" /\ Desk!OnOpenActivate(s, c))
         /\ WF_deskVars(focus = "desk" /\ Desk!OnCloseRelease(s, c))

FairRefresh == \A c \in Callers : WF_refreshVars(focus = "refresh" /\ Refresh!Work(c))

FairHosts ==
  /\ WF_hostVars(focus = "hosts" /\ Hosting!Tick)
  /\ WF_hostVars(focus = "hosts" /\ Hosting!DropChild)
  /\ WF_hostVars(focus = "hosts" /\ Hosting!CoolDown)
  /\ WF_hostVars(focus = "hosts" /\ Hosting!SpawnAny)
  /\ WF_hostVars(focus = "hosts" /\ Hosting!Healthy)
  /\ WF_hostVars(focus = "hosts" /\ Hosting!GiveUp)
  /\ WF_hostVars(focus = "hosts" /\ Hosting!Publish)
  /\ \A h \in Hosts : WF_hostVars(focus = "hosts" /\ Hosting!Listen(h))

LiveSpec ==
  /\ LiveInit /\ [][LiveNext]_<<focus, streamVars, deskVars, refreshVars, hostVars>>
  /\ FairStream /\ FairDesk /\ FairRefresh /\ FairHosts

-----------------------------------------------------------------------------
(* DesktopControl: a client that waits gets control once the others leave.  *)
(* GitRefresh: whoever waits for a refresh is answered.                     *)
(* ServiceHosts: a signed-in user gets a helper, and gets it back.          *)
WaitersServed ==
  /\ Desk!WaiterServed /\ Refresh!WaiterAnswered
  /\ focus = "hosts" => Hosting!HelperReturns

=============================================================================
