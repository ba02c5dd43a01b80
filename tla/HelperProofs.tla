---------------------------- MODULE HelperProofs ----------------------------
(***************************************************************************)
(* Theorems of the suite about what the server runs for its users: the     *)
(* helpers of Windows users (ServiceHosts), for all users, helpers, ports  *)
(* and requests, the Neovim of a project (NeovimSessions), for every       *)
(* number of tabs, inputs and take-overs, and what is behind a viewer of   *)
(* the desktop (Viewers), from the invariants of ViewerProofs.             *)
(***************************************************************************)
EXTENDS MCServer, ViewerProofs

-----------------------------------------------------------------------------
(***************************************************************************)
(* Helpers of Windows users (ServiceHosts)                                 *)
(***************************************************************************)

LEMMA HostsInit == Hosting!Init => Hosting!HostsInv
  BY SuiteAssumptions
  DEF Hosting!Init, Hosting!HostsInv, Hosting!TypeOK, Hosting!SupervisorOK, Hosting!HostsOK, Hosting!CallsOK,
      Hosting!Request, Hosting!ProcessesOK, Hosting!ServiceOK, Hosting!Bookkeeping, Hosting!ServedAsUser,
      Hosting!NoneSurvives, Hosting!EndpointCurrent, Hosting!CapturedAwaited, Hosting!Alive,
      Hosting!NoCall, Hosting!Kinds, Hosting!HostsAssumption

\* A request that the helper g has taken on is still a request.
LEMMA HostsTakeOn ==
  ASSUME NEW c \in Hosting!Request, NEW g \in Hosts, NEW stage \in {"running", "open"}
  PROVE  [c EXCEPT !.stage = stage, !.at = g] \in Hosting!Request
  BY DEF Hosting!Request

LEMMA HostsTypes ==
  ASSUME Hosting!TypeOK, [Hosting!Next]_(Hosting!vars)
  PROVE  Hosting!TypeOK'
<1>0. Hosting!HostsAssumption
  BY SuiteAssumptions
<1> USE <1>0 DEF Hosting!TypeOK, Hosting!SupervisorOK, Hosting!HostsOK, Hosting!CallsOK,
      Hosting!Request, Hosting!ProcessesOK, Hosting!ServiceOK,
      Hosting!NoCall, Hosting!Kinds, Hosting!HostsAssumption, Hosting!At,
      Hosting!Update
<1>1. CASE Hosting!Tick
  BY <1>1 DEF Hosting!Tick, Hosting!Stale
<1>2. CASE Hosting!DropChild
  <2>1. Hosting!SupervisorOK'
    BY <1>2 DEF Hosting!DropChild, Hosting!Killed
  <2>2. Hosting!HostsOK'
    BY <1>2 DEF Hosting!DropChild, Hosting!Killed
  <2>3. Hosting!CallsOK'
    BY <1>2 DEF Hosting!DropChild, Hosting!Killed
  <2>4. Hosting!ProcessesOK'
    BY <1>2 DEF Hosting!DropChild, Hosting!Killed
  <2>5. Hosting!ServiceOK'
    BY <1>2 DEF Hosting!DropChild, Hosting!Killed
  <2>6. QED
    BY <2>1, <2>2, <2>3, <2>4, <2>5 DEF Hosting!TypeOK
<1>3. CASE Hosting!CoolDown
  BY <1>3 DEF Hosting!CoolDown
<1>4. CASE Hosting!SpawnAny
  <2> PICK h \in Hosts, p \in Ports : Hosting!Spawn(h, p)
    BY <1>4 DEF Hosting!SpawnAny
  <2>1. Hosting!SupervisorOK'
    BY DEF Hosting!Spawn
  <2>2. Hosting!HostsOK'
    BY DEF Hosting!Spawn
  <2>3. Hosting!CallsOK'
    BY DEF Hosting!Spawn
  <2>4. Hosting!ProcessesOK'
    BY DEF Hosting!Spawn
  <2>5. Hosting!ServiceOK'
    BY DEF Hosting!Spawn
  <2>6. QED
    BY <2>1, <2>2, <2>3, <2>4, <2>5 DEF Hosting!TypeOK
<1>5. CASE Hosting!SpawnFails
  <2>1. Hosting!SupervisorOK'
    BY <1>5 DEF Hosting!SpawnFails, Hosting!Fail
  <2>2. Hosting!HostsOK'
    BY <1>5 DEF Hosting!SpawnFails, Hosting!Fail
  <2>3. Hosting!CallsOK'
    BY <1>5 DEF Hosting!SpawnFails, Hosting!Fail
  <2>4. Hosting!ProcessesOK'
    BY <1>5 DEF Hosting!SpawnFails, Hosting!Fail
  <2>5. Hosting!ServiceOK'
    BY <1>5 DEF Hosting!SpawnFails, Hosting!Fail
  <2>6. QED
    BY <2>1, <2>2, <2>3, <2>4, <2>5 DEF Hosting!TypeOK
<1>6. CASE Hosting!Healthy
  BY <1>6 DEF Hosting!Healthy
<1>7. CASE Hosting!GiveUp
  <2>1. Hosting!SupervisorOK'
    BY <1>7 DEF Hosting!GiveUp, Hosting!Killed
  <2>2. Hosting!HostsOK'
    BY <1>7 DEF Hosting!GiveUp, Hosting!Killed
  <2>3. Hosting!CallsOK'
    BY <1>7 DEF Hosting!GiveUp, Hosting!Killed
  <2>4. Hosting!ProcessesOK'
    BY <1>7 DEF Hosting!GiveUp, Hosting!Killed
  <2>5. Hosting!ServiceOK'
    BY <1>7 DEF Hosting!GiveUp, Hosting!Killed
  <2>6. QED
    BY <2>1, <2>2, <2>3, <2>4, <2>5 DEF Hosting!TypeOK
<1>8. CASE Hosting!Publish
  BY <1>8 DEF Hosting!Publish
<1>9. CASE Hosting!EndService
  <2>1. Hosting!SupervisorOK'
    BY <1>9 DEF Hosting!EndService
  <2>2. Hosting!HostsOK'
    BY ONLY <1>9, Hosting!TypeOK DEF Hosting!EndService, Hosting!TypeOK, Hosting!HostsOK
  <2>3. Hosting!CallsOK'
    BY <1>9 DEF Hosting!EndService
  <2>4. Hosting!ProcessesOK'
    BY <1>9 DEF Hosting!EndService
  <2>5. Hosting!ServiceOK'
    BY <1>9 DEF Hosting!EndService
  <2>6. QED
    BY <2>1, <2>2, <2>3, <2>4, <2>5 DEF Hosting!TypeOK
<1>10. CASE \E h \in Hosts : Hosting!Listen(h)
  BY <1>10 DEF Hosting!Listen
<1>11. CASE \E h \in Hosts : Hosting!Exit(h)
  BY <1>11 DEF Hosting!Exit, Hosting!Fail
<1>12. CASE \E u \in Users \cup {NoUser} : Hosting!SessionChange(u)
  BY <1>12 DEF Hosting!SessionChange
<1>13. ASSUME NEW q \in Calls, Hosting!Call(q)
       PROVE  Hosting!TypeOK'
  <2>1. CASE \E kind \in Hosting!Kinds : Hosting!ReadEndpoint(q, kind)
    BY <2>1 DEF Hosting!ReadEndpoint
  <2>2. CASE Hosting!Refused(q)
    BY <2>2 DEF Hosting!Refused
  <2>3. CASE Hosting!ServeProcess(q)
    <3>1. Hosting!SupervisorOK'
      BY <2>3 DEF Hosting!ServeProcess, Hosting!Reached, Hosting!Authenticated
    <3>2. Hosting!HostsOK'
      BY <2>3 DEF Hosting!ServeProcess, Hosting!Reached, Hosting!Authenticated
    <3>3. Hosting!CallsOK'
      <4> PICK g \in Hosts :
             Hosting!Update(q, [s6[q] EXCEPT !.stage = "running", !.at = g]) /\ s7' = [s7 EXCEPT ![q] = g]
        BY <2>3 DEF Hosting!ServeProcess, Hosting!Reached
      <4> QED
        <5> HIDE DEF Hosting!Request
        <5>0. s6[q] \in Hosting!Request
          BY ONLY Hosting!TypeOK, q \in Calls DEF Hosting!TypeOK, Hosting!CallsOK
        <5>1. [s6[q] EXCEPT !.stage = "running", !.at = g] \in Hosting!Request
          BY <5>0, HostsTakeOn
        <5>2. QED
          BY ONLY <5>1, Hosting!CallsOK, Hosting!Update(q, [s6[q] EXCEPT !.stage = "running", !.at = g])
          DEF Hosting!CallsOK, Hosting!Update
    <3>4. Hosting!ProcessesOK'
      BY <2>3 DEF Hosting!ServeProcess, Hosting!Reached, Hosting!Authenticated
    <3>5. Hosting!ServiceOK'
      BY <2>3 DEF Hosting!ServeProcess, Hosting!Reached, Hosting!Authenticated
    <3>6. QED
      BY <3>1, <3>2, <3>3, <3>4, <3>5 DEF Hosting!TypeOK
  <2>4. CASE Hosting!ServeSocket(q)
    <3>1. Hosting!SupervisorOK'
      BY <2>4 DEF Hosting!ServeSocket, Hosting!Reached, Hosting!Authenticated
    <3>2. Hosting!HostsOK'
      BY <2>4 DEF Hosting!ServeSocket, Hosting!Reached, Hosting!Authenticated
    <3>3. Hosting!CallsOK'
      <4> PICK g \in Hosts :
             Hosting!Update(q, [s6[q] EXCEPT !.stage = "open", !.at = g]) /\ s7' = s7
        BY <2>4 DEF Hosting!ServeSocket, Hosting!Reached
      <4> QED
        <5> HIDE DEF Hosting!Request
        <5>0. s6[q] \in Hosting!Request
          BY ONLY Hosting!TypeOK, q \in Calls DEF Hosting!TypeOK, Hosting!CallsOK
        <5>1. [s6[q] EXCEPT !.stage = "open", !.at = g] \in Hosting!Request
          BY <5>0, HostsTakeOn
        <5>2. QED
          BY ONLY <5>1, Hosting!CallsOK, Hosting!Update(q, [s6[q] EXCEPT !.stage = "open", !.at = g])
          DEF Hosting!CallsOK, Hosting!Update
    <3>4. Hosting!ProcessesOK'
      BY <2>4 DEF Hosting!ServeSocket, Hosting!Reached, Hosting!Authenticated
    <3>5. Hosting!ServiceOK'
      BY <2>4 DEF Hosting!ServeSocket, Hosting!Reached, Hosting!Authenticated
    <3>6. QED
      BY <3>1, <3>2, <3>3, <3>4, <3>5 DEF Hosting!TypeOK
  <2>5. CASE Hosting!Detach(q)
    BY <2>5 DEF Hosting!Detach
  <2>6. CASE Hosting!ProcessEnds(q)
    BY <2>6 DEF Hosting!ProcessEnds
  <2>7. CASE Hosting!TimesOut(q)
    BY <2>7 DEF Hosting!TimesOut
  <2>8. CASE Hosting!CloseSocket(q)
    BY <2>8 DEF Hosting!CloseSocket
  <2>9. CASE Hosting!Broken(q)
    BY <2>9 DEF Hosting!Broken
  <2>10. QED
    BY <1>13, <2>1, <2>2, <2>3, <2>4, <2>5, <2>6, <2>7, <2>8, <2>9 DEF Hosting!Call
<1>14. CASE UNCHANGED Hosting!vars
  BY <1>14 DEF Hosting!vars
<1>15. QED
  BY <1>1, <1>2, <1>3, <1>4, <1>5, <1>6, <1>7, <1>8, <1>9, <1>10, <1>11, <1>12, <1>13, <1>14
  DEF Hosting!Next

LEMMA HostsStep ==
  ASSUME Hosting!HostsInv, [Hosting!Next]_(Hosting!vars)
  PROVE  Hosting!HostsInv'
<1>0. Hosting!HostsAssumption
  BY SuiteAssumptions
<1> USE <1>0
    DEF Hosting!HostsInv, Hosting!TypeOK, Hosting!SupervisorOK, Hosting!HostsOK, Hosting!CallsOK,
      Hosting!Request, Hosting!ProcessesOK, Hosting!ServiceOK, Hosting!Bookkeeping, Hosting!ServedAsUser,
      Hosting!NoneSurvives, Hosting!EndpointCurrent, Hosting!CapturedAwaited, Hosting!Alive,
      Hosting!NoCall, Hosting!Kinds, Hosting!HostsAssumption, Hosting!At, Hosting!Update
<1>1. CASE Hosting!Tick
  BY <1>1 DEF Hosting!Tick, Hosting!Stale
<1>2. CASE Hosting!DropChild
  <2>1. Hosting!TypeOK'
    BY HostsTypes
  <2>2. Hosting!Bookkeeping'
    BY <1>2 DEF Hosting!DropChild, Hosting!Killed
  <2>3. Hosting!ServedAsUser'
    BY <1>2 DEF Hosting!DropChild, Hosting!Killed
  <2>4. Hosting!NoneSurvives'
    BY <1>2 DEF Hosting!DropChild, Hosting!Killed
  <2>5. Hosting!EndpointCurrent'
    BY <1>2 DEF Hosting!DropChild, Hosting!Killed
  <2>6. Hosting!CapturedAwaited'
    BY <1>2 DEF Hosting!DropChild, Hosting!Killed
  <2>7. QED
    BY <2>1, <2>2, <2>3, <2>4, <2>5, <2>6
<1>3. CASE Hosting!CoolDown
  BY <1>3 DEF Hosting!CoolDown
<1>4. CASE Hosting!SpawnAny
  <2> PICK h \in Hosts, p \in Ports : Hosting!Spawn(h, p)
    BY <1>4 DEF Hosting!SpawnAny
  <2>1. Hosting!TypeOK'
    BY HostsTypes
  <2>2. Hosting!Bookkeeping'
    BY DEF Hosting!Spawn, Hosting!Forgotten
  <2>3. Hosting!ServedAsUser'
    BY DEF Hosting!Spawn, Hosting!Forgotten
  <2>4. Hosting!NoneSurvives'
    BY DEF Hosting!Spawn, Hosting!Forgotten
  <2>5. Hosting!EndpointCurrent'
    BY DEF Hosting!Spawn, Hosting!Forgotten
  <2>6. Hosting!CapturedAwaited'
    BY DEF Hosting!Spawn, Hosting!Forgotten
  <2>7. QED
    BY <2>1, <2>2, <2>3, <2>4, <2>5, <2>6
<1>5. CASE Hosting!SpawnFails
  <2>1. Hosting!TypeOK'
    BY HostsTypes
  <2>2. Hosting!Bookkeeping'
    BY <1>5 DEF Hosting!SpawnFails, Hosting!Fail
  <2>3. Hosting!ServedAsUser'
    BY <1>5 DEF Hosting!SpawnFails, Hosting!Fail
  <2>4. Hosting!NoneSurvives'
    BY <1>5 DEF Hosting!SpawnFails, Hosting!Fail
  <2>5. Hosting!EndpointCurrent'
    BY <1>5 DEF Hosting!SpawnFails, Hosting!Fail
  <2>6. Hosting!CapturedAwaited'
    BY <1>5 DEF Hosting!SpawnFails, Hosting!Fail
  <2>7. QED
    BY <2>1, <2>2, <2>3, <2>4, <2>5, <2>6
<1>6. CASE Hosting!Healthy
  BY <1>6 DEF Hosting!Healthy
<1>7. CASE Hosting!GiveUp
  <2>1. Hosting!TypeOK'
    BY HostsTypes
  <2>2. Hosting!Bookkeeping'
    BY <1>7 DEF Hosting!GiveUp, Hosting!Killed
  <2>3. Hosting!ServedAsUser'
    BY <1>7 DEF Hosting!GiveUp, Hosting!Killed
  <2>4. Hosting!NoneSurvives'
    BY <1>7 DEF Hosting!GiveUp, Hosting!Killed
  <2>5. Hosting!EndpointCurrent'
    BY <1>7 DEF Hosting!GiveUp, Hosting!Killed
  <2>6. Hosting!CapturedAwaited'
    BY <1>7 DEF Hosting!GiveUp, Hosting!Killed
  <2>7. QED
    BY <2>1, <2>2, <2>3, <2>4, <2>5, <2>6
<1>8. CASE Hosting!Publish
  BY <1>8 DEF Hosting!Publish
<1>9. CASE Hosting!EndService
  <2>1. Hosting!TypeOK'
    BY HostsTypes
  <2>2. Hosting!Bookkeeping'
    BY <1>9 DEF Hosting!EndService
  <2>3. Hosting!ServedAsUser'
    BY <1>9 DEF Hosting!EndService
  <2>4. Hosting!NoneSurvives'
    BY <1>9 DEF Hosting!EndService
  <2>5. Hosting!EndpointCurrent'
    BY <1>9 DEF Hosting!EndService
  <2>6. Hosting!CapturedAwaited'
    BY <1>9 DEF Hosting!EndService
  <2>7. QED
    BY <2>1, <2>2, <2>3, <2>4, <2>5, <2>6
<1>10. CASE \E h \in Hosts : Hosting!Listen(h)
  BY <1>10 DEF Hosting!Listen
<1>11. CASE \E h \in Hosts : Hosting!Exit(h)
  BY <1>11 DEF Hosting!Exit, Hosting!Fail
<1>12. CASE \E u \in Users \cup {NoUser} : Hosting!SessionChange(u)
  BY <1>12 DEF Hosting!SessionChange
<1>13. ASSUME NEW q \in Calls, Hosting!Call(q)
       PROVE  Hosting!HostsInv'
  <2>1. CASE \E kind \in Hosting!Kinds : Hosting!ReadEndpoint(q, kind)
    BY <2>1 DEF Hosting!ReadEndpoint
  <2>2. CASE Hosting!Refused(q)
    BY <2>2 DEF Hosting!Refused
  <2>3. CASE Hosting!ServeProcess(q)
    <3>1. Hosting!TypeOK'
      BY HostsTypes
    <3>2. Hosting!Bookkeeping'
      BY <2>3 DEF Hosting!ServeProcess, Hosting!Reached, Hosting!Authenticated
    <3>3. Hosting!ServedAsUser'
      BY <2>3 DEF Hosting!ServeProcess, Hosting!Reached, Hosting!Authenticated
    <3>4. Hosting!NoneSurvives'
      BY <2>3 DEF Hosting!ServeProcess, Hosting!Reached, Hosting!Authenticated
    <3>5. Hosting!EndpointCurrent'
      BY <2>3 DEF Hosting!ServeProcess, Hosting!Reached, Hosting!Authenticated
    <3>6. Hosting!CapturedAwaited'
      BY <2>3 DEF Hosting!ServeProcess, Hosting!Reached, Hosting!Authenticated
    <3>7. QED
      BY <3>1, <3>2, <3>3, <3>4, <3>5, <3>6
  <2>4. CASE Hosting!ServeSocket(q)
    <3>1. Hosting!TypeOK'
      BY HostsTypes
    <3>2. Hosting!Bookkeeping'
      BY <2>4 DEF Hosting!ServeSocket, Hosting!Reached, Hosting!Authenticated
    <3>3. Hosting!ServedAsUser'
      BY <2>4 DEF Hosting!ServeSocket, Hosting!Reached, Hosting!Authenticated
    <3>4. Hosting!NoneSurvives'
      BY <2>4 DEF Hosting!ServeSocket, Hosting!Reached, Hosting!Authenticated
    <3>5. Hosting!EndpointCurrent'
      BY <2>4 DEF Hosting!ServeSocket, Hosting!Reached, Hosting!Authenticated
    <3>6. Hosting!CapturedAwaited'
      BY <2>4 DEF Hosting!ServeSocket, Hosting!Reached, Hosting!Authenticated
    <3>7. QED
      BY <3>1, <3>2, <3>3, <3>4, <3>5, <3>6
  <2>5. CASE Hosting!Detach(q)
    BY <2>5 DEF Hosting!Detach
  <2>6. CASE Hosting!ProcessEnds(q)
    BY <2>6 DEF Hosting!ProcessEnds
  <2>7. CASE Hosting!TimesOut(q)
    BY <2>7 DEF Hosting!TimesOut
  <2>8. CASE Hosting!CloseSocket(q)
    BY <2>8 DEF Hosting!CloseSocket
  <2>9. CASE Hosting!Broken(q)
    BY <2>9 DEF Hosting!Broken
  <2>10. QED
    BY <1>13, <2>1, <2>2, <2>3, <2>4, <2>5, <2>6, <2>7, <2>8, <2>9 DEF Hosting!Call
<1>14. CASE UNCHANGED Hosting!vars
  BY <1>14 DEF Hosting!vars
<1>15. QED
  BY <1>1, <1>2, <1>3, <1>4, <1>5, <1>6, <1>7, <1>8, <1>9, <1>10, <1>11, <1>12, <1>13, <1>14
  DEF Hosting!Next

\* Requests work as the user whose helper was published, helpers and processes
\* do not outlive the supervisor's hold, the endpoint is that of the session last
\* seen, and no captured process runs unawaited (windows_service_host/*.rs).
THEOREM ServerHosts == SuiteSpec => []HostsSound
<1> DEFINE Keeps == focus = "hosts" => Hosting!HostsInv
<1>1. SuiteInit => Keeps
  BY HostsInit DEF SuiteInit, FocusInit
<1>2. Keeps /\ [SuiteNext]_suite => Keeps'
  <2> SUFFICES ASSUME Keeps, [SuiteNext]_suite, focus' = "hosts"
               PROVE  Hosting!HostsInv'
    OBVIOUS
  <2>1. Hosting!HostsInv
    BY DEF SuiteNext, suite
  <2>2. [Hosting!Next]_(Hosting!vars)
    BY DEF SuiteNext, FocusNext, suite, Hosting!vars
  <2>3. QED
    BY <2>1, <2>2, HostsStep
<1>3. Keeps => HostsSound
  BY DEF HostsSound, Hosting!HostsInv
<1>4. QED
  BY <1>1, <1>2, <1>3, PTL DEF SuiteSpec

-----------------------------------------------------------------------------
(***************************************************************************)
(* The Neovim of a project (NeovimSessions)                                *)
(***************************************************************************)

\* A sequence with one element more at its end, one less at its front, and one
\* less somewhere.
LEMMA SeqLonger ==
  ASSUME NEW S, NEW q \in Seq(S), NEW e \in S, NEW t, t = Append(q, e) \/ t = q \o <<e>>
  PROVE  /\ t \in Seq(S) /\ Len(t) = Len(q) + 1 /\ t[Len(q) + 1] = e
         /\ \A i \in 1 .. Len(q) : t[i] = q[i]
<1>1. CASE t = Append(q, e)
  BY <1>1, AppendProperties
<1>2. CASE t = q \o <<e>>
  <2>1. <<e>> \in Seq(S) /\ Len(<<e>>) = 1 /\ <<e>>[1] = e
    OBVIOUS
  <2>2. /\ t \in Seq(S) /\ Len(t) = Len(q) + Len(<<e>>)
        /\ \A i \in 1 .. Len(q) + Len(<<e>>) :
             t[i] = IF i <= Len(q) THEN q[i] ELSE <<e>>[i - Len(q)]
    BY <1>2, <2>1, ConcatProperties
  <2>3. Len(q) \in Nat
    BY LenProperties
  <2>4. QED
    BY <2>1, <2>2, <2>3
<1>3. QED
  BY <1>1, <1>2

LEMMA SeqShorter ==
  ASSUME NEW S, NEW q \in Seq(S), q # <<>>, NEW t, t = Tail(q)
  PROVE  /\ t \in Seq(S) /\ Len(t) = Len(q) - 1 /\ Len(q) \in Nat \ {0}
         /\ Head(q) = q[1] /\ Head(q) \in S
         /\ \A i \in 1 .. Len(t) : t[i] = q[i + 1]
BY HeadTailProperties, EmptySeq

LEMMA SeqWithout ==
  ASSUME NEW S, NEW q \in Seq(S), NEW p \in DOMAIN q, NEW t, t = Nvim!RemoveAt(q, p)
  PROVE  /\ t \in Seq(S) /\ Len(t) = Len(q) - 1
         /\ \A i \in 1 .. Len(t) : t[i] = IF i < p THEN q[i] ELSE q[i + 1]
<1>1. Len(q) \in Nat /\ p \in 1 .. Len(q)
  BY LenProperties
<1>2. PICK b : b = SubSeq(q, 1, p - 1)
  OBVIOUS
<1>3. PICK c : c = SubSeq(q, p + 1, Len(q))
  OBVIOUS
<1>4. b \in Seq(S) /\ Len(b) = p - 1 /\ \A i \in 1 .. p - 1 : b[i] = q[i]
  <2>1. \A i \in 1 .. p - 1 : q[i] \in S
    BY <1>1
  <2>2. /\ b \in Seq(S) /\ Len(b) = IF 1 <= p - 1 THEN (p - 1) - 1 + 1 ELSE 0
        /\ \A i \in 1 .. (p - 1) - 1 + 1 : b[i] = q[1 + i - 1]
    BY <1>1, <1>2, <2>1, SubSeqProperties
  <2>3. QED
    BY <1>1, <2>2
<1>5. c \in Seq(S) /\ Len(c) = Len(q) - p /\ \A i \in 1 .. Len(q) - p : c[i] = q[p + i]
  <2>1. \A i \in p + 1 .. Len(q) : q[i] \in S
    BY <1>1
  <2>2. /\ c \in Seq(S) /\ Len(c) = IF p + 1 <= Len(q) THEN Len(q) - (p + 1) + 1 ELSE 0
        /\ \A i \in 1 .. Len(q) - (p + 1) + 1 : c[i] = q[p + 1 + i - 1]
    BY <1>1, <1>3, <2>1, SubSeqProperties
  <2>3. QED
    BY <1>1, <2>2
<1>6. t = b \o c
  BY <1>2, <1>3 DEF Nvim!RemoveAt
<1>7. /\ t \in Seq(S) /\ Len(t) = Len(b) + Len(c)
      /\ \A i \in 1 .. Len(b) + Len(c) : t[i] = IF i <= Len(b) THEN b[i] ELSE c[i - Len(b)]
  <2>1. /\ b \o c \in Seq(S) /\ Len(b \o c) = Len(b) + Len(c)
        /\ \A i \in 1 .. Len(b) + Len(c) :
             (b \o c)[i] = IF i <= Len(b) THEN b[i] ELSE c[i - Len(b)]
    <3>1. b \in Seq(S) /\ c \in Seq(S)
      BY <1>4, <1>5
    <3>2. QED
      BY ONLY <3>1, ConcatProperties
  <2>2. QED
    BY ONLY <1>6, <2>1
<1>8. Len(t) = Len(q) - 1
  BY <1>1, <1>4, <1>5, <1>7
<1>9. ASSUME NEW i \in 1 .. Len(t) PROVE t[i] = IF i < p THEN q[i] ELSE q[i + 1]
  <2>1. CASE i < p
    BY <1>1, <1>4, <1>5, <1>7, <1>8, <2>1
  <2>2. CASE ~(i < p)
    <3>1. t[i] = c[i - (p - 1)] /\ i - (p - 1) \in 1 .. Len(q) - p
      BY <1>1, <1>4, <1>5, <1>7, <1>8, <2>2
    <3>2. c[i - (p - 1)] = q[p + (i - (p - 1))] /\ p + (i - (p - 1)) = i + 1
      BY <1>1, <1>5, <3>1
    <3>3. QED
      BY <2>2, <3>1, <3>2
  <2>3. QED
    BY <2>1, <2>2
<1>10. QED
  BY <1>7, <1>8, <1>9

\* The numbers of such sequences of messages.
LEMMA NumberedLonger ==
  ASSUME NEW q \in Seq(Nvim!Messages), NEW e \in Nvim!Messages, NEW t, t = Append(q, e) \/ t = q \o <<e>>
  PROVE  Nvim!Numbered(t) = Nvim!Numbered(q) \cup ({e.n} \ {0})
<1>1. /\ t \in Seq(Nvim!Messages) /\ Len(t) = Len(q) + 1 /\ t[Len(q) + 1] = e
      /\ \A i \in 1 .. Len(q) : t[i] = q[i]
  BY SeqLonger
<1>2. Len(q) \in Nat /\ DOMAIN q = 1 .. Len(q) /\ DOMAIN t = 1 .. Len(q) + 1
  BY <1>1, LenProperties
<1>3. \A k : (\E i \in DOMAIN t : k = t[i].n) <=> (\E i \in DOMAIN q : k = q[i].n) \/ k = e.n
  BY <1>1, <1>2
<1>4. QED
  BY ONLY <1>3 DEF Nvim!Numbered

LEMMA NumberedWithout ==
  ASSUME NEW q \in Seq(Nvim!Messages), NEW p \in DOMAIN q,
         NEW t \in Seq(Nvim!Messages), Len(t) = Len(q) - 1,
         \A i \in 1 .. Len(t) : t[i] = IF i < p THEN q[i] ELSE q[i + 1]
  PROVE  Nvim!Numbered(q) = Nvim!Numbered(t) \cup ({q[p].n} \ {0})
<1>1. Len(q) \in Nat /\ DOMAIN q = 1 .. Len(q) /\ DOMAIN t = 1 .. Len(q) - 1 /\ p \in 1 .. Len(q)
  BY LenProperties
<1>2. ASSUME NEW i \in DOMAIN q, i # p PROVE \E j \in DOMAIN t : q[i] = t[j]
  <2>1. CASE i < p
    <3>1. i \in DOMAIN t /\ t[i] = q[i]
      BY <1>1, <2>1
    <3>2. QED
      BY <3>1
  <2>2. CASE i > p
    <3>1. i - 1 \in DOMAIN t /\ t[i - 1] = q[i - 1 + 1] /\ i - 1 + 1 = i
      BY <1>1, <2>2
    <3>2. QED
      BY <3>1
  <2>3. QED
    BY <1>1, <1>2, <2>1, <2>2
<1>3. ASSUME NEW j \in DOMAIN t PROVE \E i \in DOMAIN q : q[i] = t[j]
  <2>1. j \in DOMAIN q /\ j + 1 \in DOMAIN q /\ (t[j] = q[j] \/ t[j] = q[j + 1])
    BY <1>1
  <2>2. QED
    BY <2>1
<1>4. \A k : (\E i \in DOMAIN q : k = q[i].n) <=> (\E j \in DOMAIN t : k = t[j].n) \/ k = q[p].n
  BY <1>2, <1>3
<1>5. ASSUME NEW k PROVE k \in Nvim!Numbered(q) <=> k \in Nvim!Numbered(t) \cup ({q[p].n} \ {0})
  BY ONLY <1>4 DEF Nvim!Numbered
<1>6. QED
  BY <1>5

LEMMA NumberedShorter ==
  ASSUME NEW q \in Seq(Nvim!Messages), q # <<>>, NEW t, t = Tail(q)
  PROVE  Nvim!Numbered(q) = Nvim!Numbered(t) \cup ({q[1].n} \ {0})
<1>1. /\ t \in Seq(Nvim!Messages) /\ Len(t) = Len(q) - 1 /\ Len(q) \in Nat \ {0}
      /\ \A i \in 1 .. Len(t) : t[i] = q[i + 1]
  BY SeqShorter
<1>2. PICK p \in DOMAIN q : p = 1
  BY <1>1
<1>3. \A i \in 1 .. Len(t) : t[i] = IF i < p THEN q[i] ELSE q[i + 1]
  BY <1>1, <1>2
<1>4. Nvim!Numbered(q) = Nvim!Numbered(t) \cup ({q[p].n} \ {0})
  BY ONLY <1>1, <1>3, p \in DOMAIN q, q \in Seq(Nvim!Messages), NumberedWithout
<1>5. QED
  BY <1>2, <1>4

LEMMA RangeLonger ==
  ASSUME NEW q \in Seq(Nvim!Numbers), NEW e \in Nvim!Numbers, NEW t, t = Append(q, e)
  PROVE  Nvim!Range(t) = Nvim!Range(q) \cup {e}
<1>1. /\ t \in Seq(Nvim!Numbers) /\ Len(t) = Len(q) + 1 /\ t[Len(q) + 1] = e
      /\ \A i \in 1 .. Len(q) : t[i] = q[i]
  BY SeqLonger
<1>2. Len(q) \in Nat /\ DOMAIN q = 1 .. Len(q) /\ DOMAIN t = 1 .. Len(q) + 1
  BY <1>1, LenProperties
<1>3. \A k : (\E i \in DOMAIN t : k = t[i]) <=> (\E i \in DOMAIN q : k = q[i]) \/ k = e
  BY <1>1, <1>2
<1>4. QED
  BY ONLY <1>3 DEF Nvim!Range

\* What the invariant says of an actor, Neovim's input and output, and what took
\* effect ...
QueueFits(v, m) ==
  /\ Len(v.queue) <= QueueCap /\ Len(v.queue) <= v.accepted /\ m = v.accepted - Len(v.queue)
  /\ \A i \in DOMAIN v.queue : v.queue[i].kind \in Nvim!Kinds /\ v.queue[i].n = m + i
PipeFits(p, a, m) ==
  /\ \A i \in DOMAIN p : IF p[i].kind # "attach" THEN p[i].n \in 1 .. m ELSE p[i].n = 0
  /\ \A i, j \in DOMAIN p : i < j /\ p[i].kind # "attach" /\ p[j].kind # "attach" =>
       p[i].kind = "keys" /\ p[i].n < p[j].n
  /\ \A k \in DOMAIN a : a[k] \in 1 .. m
  /\ \A k \in DOMAIN a, i \in DOMAIN p : p[i].kind # "attach" => a[k] < p[i].n
  /\ \A i, j \in DOMAIN a : i < j => a[i] < a[j]
AtRest(v, p, r, a) ==
  /\ v.life # "serving" => p = <<>> /\ r = <<>>
  /\ v.life \in {"new", "over"} =>
       v.queue = <<>> /\ v.accepted = 0 /\ v.refused = {} /\ v.pending = FALSE /\ a = <<>>
AtWork(v, p, r, a) ==
  /\ \A i, j \in DOMAIN r : r[i].to # "attach" /\ r[j].to # "attach" => i = j
  /\ 1 .. v.accepted = Nvim!Range(a) \cup Nvim!Numbered(p) \cup Nvim!Numbered(v.queue) \cup v.refused
  /\ v.pending <=> \/ \E i \in DOMAIN p : p[i].kind \in {"paste", "open"}
                   \/ \E i \in DOMAIN r : r[i].to # "attach"
  /\ \A i \in DOMAIN p, j \in DOMAIN r : p[i].kind \in {"paste", "open"} => r[j].to = "attach"

\* ... is the invariant of the state that has them.
LEMMA NeovimBecomes ==
  ASSUME NEW v \in Nvim!Actor, NEW p \in Seq(Nvim!Messages), NEW r \in Seq(Nvim!Answer),
         NEW x \in BOOLEAN, NEW a \in Seq(Nvim!Numbers), NEW m, m = v.accepted - Len(v.queue),
         s2' = v, s4' = p, s5' = r, s6' = x, s7' = a,
         QueueFits(v, m), PipeFits(p, a, m), AtRest(v, p, r, a),
         v.life = "serving" /\ ~x => AtWork(v, p, r, a)
  PROVE  Nvim!NeovimInv'
<1>1. Nvim!ActorOK' /\ Nvim!NeovimOK'
  BY DEF Nvim!ActorOK, Nvim!NeovimOK, QueueFits
<1>2. Nvim!Issued' = m
  BY DEF Nvim!Issued
<1>3. Nvim!QueueRuns'
  BY <1>2 DEF Nvim!QueueRuns, QueueFits
<1>4. Nvim!PipeRuns'
  BY <1>2 DEF Nvim!PipeRuns, Nvim!Input, PipeFits
<1>5. Nvim!OneAnswer'
  BY DEF Nvim!OneAnswer, Nvim!Serving, AtWork
<1>6. Nvim!Unserved'
  BY DEF Nvim!Unserved, Nvim!Serving, AtRest
<1>7. Nvim!InputInOrder'
  BY DEF Nvim!InputInOrder, PipeFits
<1>8. Nvim!InputKept'
  BY DEF Nvim!InputKept, Nvim!Serving, Nvim!Numbered, Nvim!Range, AtWork
<1>9. Nvim!PendingExact'
  <2>1. SUFFICES ASSUME v.life = "serving", ~x PROVE Nvim!PendingExact'
    BY DEF Nvim!PendingExact, Nvim!Serving
  <2>2. PICK sent : sent = {i \in DOMAIN p : p[i].kind \in {"paste", "open"}}
    OBVIOUS
  <2>3. PICK replied : replied = {i \in DOMAIN r : r[i].to # "attach"}
    OBVIOUS
  <2>4. v.pending <=> sent \cup replied # {}
    BY <2>1, <2>2, <2>3 DEF AtWork
  <2>5. \A i, j \in sent : i = j
    <3>1. \A i, j \in sent : i \in Nat /\ j \in Nat /\ ~(i < j) /\ ~(j < i)
      BY <2>2, LenProperties DEF PipeFits
    <3>2. QED
      BY <3>1
  <2>6. sent = {} \/ replied = {}
    BY <2>1, <2>2, <2>3 DEF AtWork
  <2>7. QED
    BY <2>2, <2>3, <2>4, <2>5, <2>6 DEF Nvim!PendingExact
<1>10. QED
  BY <1>1, <1>3, <1>4, <1>5, <1>6, <1>7, <1>8, <1>9 DEF Nvim!NeovimInv

\* The same things, said of a state.
LEMMA QueueHas ==
  ASSUME Nvim!NeovimInv, NEW v, v = s2, NEW m, m = v.accepted - Len(v.queue)
  PROVE  /\ v \in Nvim!Actor /\ m \in Nat /\ v.accepted \in Nat /\ Len(v.queue) \in Nat
         /\ v.queue \in Seq(Nvim!Messages) /\ QueueFits(v, m) /\ Nvim!Issued = m
<1>1. v \in Nvim!Actor /\ Len(v.queue) <= QueueCap
  BY DEF Nvim!NeovimInv, Nvim!ActorOK
<1>2. v.accepted \in Nat /\ v.queue \in Seq(Nvim!Messages)
  BY <1>1 DEF Nvim!Actor, Nvim!Numbers
<1>3. Len(v.queue) \in Nat
  BY <1>2
<1>4. /\ Len(v.queue) <= v.accepted
      /\ \A i \in DOMAIN v.queue : v.queue[i].kind \in Nvim!Kinds /\ v.queue[i].n = m + i
  BY DEF Nvim!NeovimInv, Nvim!QueueRuns, Nvim!Issued
<1>5. m \in Nat
  BY <1>2, <1>3, <1>4
<1>6. QueueFits(v, m)
  BY <1>1, <1>4 DEF QueueFits
<1>7. QED
  BY <1>1, <1>2, <1>3, <1>5, <1>6 DEF Nvim!Issued

LEMMA PipeHas ==
  ASSUME Nvim!NeovimInv, NEW p, p = s4, NEW a, a = s7, NEW m, m = s2.accepted - Len(s2.queue)
  PROVE  p \in Seq(Nvim!Messages) /\ a \in Seq(Nvim!Numbers) /\ PipeFits(p, a, m)
<1>1. Nvim!Issued = m
  BY DEF Nvim!Issued
<1>2. s4 \in Seq(Nvim!Messages) /\ s7 \in Seq(Nvim!Numbers)
  BY DEF Nvim!NeovimInv, Nvim!NeovimOK
<1>3. /\ \A i \in DOMAIN s4 : IF s4[i].kind # "attach" THEN s4[i].n \in 1 .. m ELSE s4[i].n = 0
      /\ \A i, j \in DOMAIN s4 : i < j /\ s4[i].kind # "attach" /\ s4[j].kind # "attach" =>
           s4[i].kind = "keys" /\ s4[i].n < s4[j].n
      /\ \A k \in DOMAIN s7 : s7[k] \in 1 .. m
      /\ \A k \in DOMAIN s7, i \in DOMAIN s4 : s4[i].kind # "attach" => s7[k] < s4[i].n
  BY <1>1 DEF Nvim!NeovimInv, Nvim!PipeRuns, Nvim!Input
<1>4. \A i, j \in DOMAIN s7 : i < j => s7[i] < s7[j]
  BY DEF Nvim!NeovimInv, Nvim!InputInOrder
<1>5. PipeFits(p, a, m)
  BY <1>3, <1>4 DEF PipeFits
<1>6. QED
  BY <1>2, <1>5

LEMMA RestHas ==
  ASSUME Nvim!NeovimInv, NEW v, v = s2, NEW p, p = s4, NEW r, r = s5, NEW a, a = s7
  PROVE  r \in Seq(Nvim!Answer) /\ s6 \in BOOLEAN /\ AtRest(v, p, r, a)
BY DEF Nvim!NeovimInv, Nvim!NeovimOK, Nvim!Unserved, Nvim!Serving, AtRest

LEMMA WorkHas ==
  ASSUME Nvim!NeovimInv, NEW v, v = s2, NEW p, p = s4, NEW r, r = s5, NEW a, a = s7,
         v.life = "serving", ~s6
  PROVE  AtWork(v, p, r, a)
<1>1. Nvim!OneAnswer /\ Nvim!InputKept /\ Nvim!PendingExact /\ Nvim!Serving
  BY DEF Nvim!NeovimInv, Nvim!Serving
<1>2. \A i, j \in DOMAIN r : r[i].to # "attach" /\ r[j].to # "attach" => i = j
  BY <1>1 DEF Nvim!OneAnswer
<1>3. 1 .. v.accepted = Nvim!Range(a) \cup Nvim!Numbered(p) \cup Nvim!Numbered(v.queue) \cup v.refused
  BY <1>1 DEF Nvim!InputKept
<1>4. PICK sent : sent = {i \in DOMAIN p : p[i].kind \in {"paste", "open"}}
  OBVIOUS
<1>5. PICK replied : replied = {i \in DOMAIN r : r[i].to # "attach"}
  OBVIOUS
<1>6. (v.pending <=> sent \cup replied # {}) /\ (sent = {} \/ replied = {})
  BY <1>1, <1>4, <1>5 DEF Nvim!PendingExact
<1>7. v.pending <=> \/ \E i \in DOMAIN p : p[i].kind \in {"paste", "open"}
                    \/ \E i \in DOMAIN r : r[i].to # "attach"
  BY ONLY <1>4, <1>5, <1>6
<1>8. \A i \in DOMAIN p, j \in DOMAIN r : p[i].kind \in {"paste", "open"} => r[j].to = "attach"
  BY ONLY <1>4, <1>5, <1>6
<1>9. QED
  BY ONLY <1>2, <1>3, <1>7, <1>8 DEF AtWork

LEMMA NothingNumbered ==
  Nvim!Numbered(<<>>) = {} /\ Nvim!Range(<<>>) = {} /\ DOMAIN <<>> = {}
BY DEF Nvim!Numbered, Nvim!Range

\* An actor that serves nobody, with nothing under way.
LEMMA NeovimEnds ==
  ASSUME NEW v \in Nvim!Actor, v.life # "serving", NEW x \in BOOLEAN,
         NEW a \in Seq(Nvim!Numbers), NEW m, QueueFits(v, m), PipeFits(<<>>, a, m),
         s2' = v, s4' = <<>>, s5' = <<>>, s6' = x, s7' = a,
         v.life \in {"new", "over"} =>
           v.queue = <<>> /\ v.accepted = 0 /\ v.refused = {} /\ v.pending = FALSE /\ a = <<>>
  PROVE  Nvim!NeovimInv'
<1>1. PICK p \in Seq(Nvim!Messages) : p = <<>>
  BY EmptySeq
<1>2. PICK r \in Seq(Nvim!Answer) : r = <<>>
  BY EmptySeq
<1>3. AtRest(v, p, r, a) /\ m = v.accepted - Len(v.queue) /\ PipeFits(p, a, m)
  BY <1>1, <1>2 DEF AtRest, QueueFits
<1>4. s4' = p /\ s5' = r
  BY <1>1, <1>2
<1>5. QED
  BY <1>3, <1>4, NeovimBecomes

LEMMA NothingFits ==
  ASSUME NEW v, v.queue = <<>>, v.accepted = 0, NEW m, m = v.accepted - Len(v.queue)
  PROVE  QueueFits(v, m) /\ PipeFits(<<>>, <<>>, m)
<1>1. Len(v.queue) = 0 /\ QueueCap \in Nat \ {0}
  BY EmptySeq, SuiteAssumptions DEF Nvim!SessionAssumption
<1>2. QED
  BY <1>1, NothingNumbered DEF QueueFits, PipeFits

\* An error ends the actor, which may have taken an input from its queue.
LEMMA EndsSafely ==
  ASSUME Nvim!NeovimInv, NEW v \in Nvim!Actor, NEW cause \in Nvim!Causes, Nvim!EndsAs(v, cause),
         NEW m \in Nat, Nvim!Issued <= m, QueueFits(v, m)
  PROVE  Nvim!NeovimInv'
<1>1. PICK u \in Nvim!Actor : u = [v EXCEPT !.life = "ending", !.cause = cause]
  BY DEF Nvim!Actor, Nvim!Lives
<1>2. u.life = "ending" /\ u.queue = v.queue /\ u.accepted = v.accepted
  BY <1>1 DEF Nvim!Actor
<1>3. QueueFits(u, m)
  BY <1>2 DEF QueueFits
<1>4. PICK old : old = s2
  OBVIOUS
<1>5. PICK k : k = old.accepted - Len(old.queue)
  OBVIOUS
<1>6. PICK a : a = s7
  OBVIOUS
<1>7. a \in Seq(Nvim!Numbers) /\ PipeFits(s4, a, k)
  BY <1>4, <1>5, <1>6, PipeHas
<1>8. k \in Nat /\ k <= m
  BY <1>4, <1>5, QueueHas
<1>9. PipeFits(<<>>, a, m)
  BY <1>7, <1>8, NothingNumbered DEF PipeFits
<1>10. s2' = u /\ s4' = <<>> /\ s5' = <<>> /\ s6' = TRUE /\ s7' = a /\ TRUE \in BOOLEAN
  BY <1>1, <1>6 DEF Nvim!EndsAs
<1>11. QED
  BY <1>2, <1>3, <1>7, <1>9, <1>10, NeovimEnds

LEMMA ActorEnds ==
  ASSUME Nvim!NeovimInv, NEW cause \in Nvim!Causes, Nvim!Ends(cause)
  PROVE  Nvim!NeovimInv'
<1>1. PICK v : v = s2
  OBVIOUS
<1>2. PICK m : m = v.accepted - Len(v.queue)
  OBVIOUS
<1>3. v \in Nvim!Actor /\ m \in Nat /\ Nvim!Issued = m /\ QueueFits(v, m)
  BY <1>1, <1>2, QueueHas
<1>4. Nvim!EndsAs(v, cause)
  BY <1>1 DEF Nvim!Ends
<1>5. QED
  BY <1>3, <1>4, EndsSafely

\* Without an actor; and the request that attaches the UI.
LEMMA NobodyActs ==
  Nvim!NoActor \in Nvim!Actor /\ Len(Nvim!NoActor.queue) = 0
<1>1. Nvim!SessionAssumption
  BY SuiteAssumptions
<1>2. <<>> \in Seq(Nvim!Messages) /\ Len(<<>>) = 0
  BY EmptySeq
<1>3. QED
  BY <1>1, <1>2 DEF Nvim!NoActor, Nvim!Actor, Nvim!Lives, Nvim!Causes, Nvim!Numbers,
     Nvim!SessionAssumption

LEMMA AttachRequested ==
  ASSUME NEW e, e = Nvim!Request("attach")
  PROVE  e \in Nvim!Messages /\ e.kind = "attach" /\ e.n = 0
<1>1. 0 \in Nvim!Numbers
  BY SuiteAssumptions DEF Nvim!SessionAssumption, Nvim!Numbers
<1>2. PICK zero \in Nvim!Numbers : zero = 0
  BY <1>1
<1>3. e = [kind |-> "attach", n |-> zero]
  BY <1>2 DEF Nvim!Request
<1>4. QED
  BY <1>2, <1>3 DEF Nvim!Messages

LEMMA SessionBegins ==
  ASSUME Nvim!Init
  PROVE  Nvim!SessionInv
<1>0. Nvim!SessionAssumption
  BY SuiteAssumptions
<1>1. Nvim!TabsOK
  <2>1. <<>> \in Seq(Tabs) /\ Len(<<>>) = 0
    BY EmptySeq
  <2>2. QED
    BY <1>0, <2>1 DEF Nvim!Init, Nvim!TabsOK, Nvim!SessionAssumption
<1>2. <<>> \in Seq(Nvim!Messages) /\ <<>> \in Seq(Nvim!Answer) /\ <<>> \in Seq(Nvim!Numbers) /\ Len(<<>>) = 0
  BY EmptySeq
<1>3. PICK v \in Nvim!Actor : v = Nvim!NoActor /\ Len(v.queue) = 0
  BY NobodyActs
<1>4. /\ s2 = Nvim!NoActor /\ s4 = <<>> /\ s5 = <<>> /\ s6 = FALSE /\ s7 = <<>>
      /\ s2.life = "over" /\ s2.queue = <<>> /\ s2.accepted = 0 /\ s2.refused = {}
      /\ s2.pending = FALSE
  BY DEF Nvim!Init, Nvim!NoActor
<1>5. Nvim!ActorOK /\ Nvim!NeovimOK
  <2>1. s2 \in Nvim!Actor /\ Len(s2.queue) <= QueueCap
    BY <1>0, <1>3, <1>4 DEF Nvim!SessionAssumption
  <2>2. QED
    BY <1>2, <1>4, <2>1 DEF Nvim!ActorOK, Nvim!NeovimOK
<1>6. Nvim!QueueRuns /\ Nvim!PipeRuns /\ Nvim!InputInOrder
  BY <1>2, <1>4, NothingNumbered DEF Nvim!QueueRuns, Nvim!PipeRuns, Nvim!InputInOrder
<1>7. Nvim!OneAnswer /\ Nvim!Unserved /\ Nvim!InputKept /\ Nvim!PendingExact
  BY <1>4 DEF Nvim!OneAnswer, Nvim!Unserved, Nvim!InputKept, Nvim!PendingExact,
     Nvim!Serving
<1>8. QED
  BY <1>1, <1>5, <1>6, <1>7 DEF Nvim!SessionInv, Nvim!NeovimInv

\* What becomes of connections does not touch Neovim.
LEMMA NeovimStays ==
  ASSUME Nvim!NeovimInv, UNCHANGED <<s2, s4, s5, s6, s7>>
  PROVE  Nvim!NeovimInv'
<1>1. Nvim!ActorOK' /\ Nvim!NeovimOK' /\ Nvim!InputInOrder'
  BY DEF Nvim!NeovimInv, Nvim!ActorOK, Nvim!NeovimOK, Nvim!InputInOrder
<1>2. Nvim!QueueRuns' /\ Nvim!PipeRuns'
  BY DEF Nvim!NeovimInv, Nvim!QueueRuns, Nvim!PipeRuns, Nvim!Issued, Nvim!Input
<1>3. Nvim!OneAnswer' /\ Nvim!Unserved'
  BY DEF Nvim!NeovimInv, Nvim!OneAnswer, Nvim!Unserved, Nvim!Serving
<1>4. Nvim!InputKept' /\ Nvim!PendingExact'
  BY DEF Nvim!NeovimInv, Nvim!InputKept, Nvim!PendingExact, Nvim!Serving,
     Nvim!Numbered, Nvim!Range
<1>5. QED
  BY <1>1, <1>2, <1>3, <1>4 DEF Nvim!NeovimInv

LEMMA LookupLooksUp ==
  ASSUME Nvim!SessionInv, NEW t \in Tabs, Nvim!Lookup(t)
  PROVE  Nvim!SessionInv'
<1>0. Nvim!NeovimInv /\ Nvim!TabsOK
  BY DEF Nvim!SessionInv
<1>1. Nvim!TabsOK'
  BY <1>0 DEF Nvim!TabsOK, Nvim!Lookup, Nvim!Becomes
<1>2. CASE s2.life # "over"
  BY <1>0, <1>1, <1>2, NeovimStays DEF Nvim!Lookup, Nvim!nvim, Nvim!SessionInv
<1>3. CASE s2.life = "over"
  <2>1. s4 = <<>> /\ s5 = <<>> /\ s6 \in BOOLEAN /\ s7 = <<>>
    <3>1. PICK v, p, r, a : v = s2 /\ p = s4 /\ r = s5 /\ a = s7
      OBVIOUS
    <3>2. AtRest(v, p, r, a) /\ s6 \in BOOLEAN
      BY <1>0, <3>1, RestHas
    <3>3. QED
      BY <1>3, <3>1, <3>2 DEF AtRest
  <2>2. <<>> \in Seq(Nvim!Messages) /\ <<>> \in Seq(Nvim!Numbers) /\ Len(<<>>) = 0
    BY EmptySeq
  <2>3. PICK v \in Nvim!Actor : v = [Nvim!NoActor EXCEPT !.life = "new"]
    BY NobodyActs DEF Nvim!Actor, Nvim!Lives
  <2>4. /\ v.life = "new" /\ v.queue = <<>> /\ v.accepted = 0 /\ v.refused = {}
        /\ v.pending = FALSE
    BY <2>3 DEF Nvim!NoActor
  <2>5. s2' = v /\ s4' = <<>> /\ s5' = <<>> /\ s6' = s6 /\ s7' = <<>>
    BY <1>3, <2>1, <2>3 DEF Nvim!Lookup, Nvim!nvim
  <2>6. PICK m : m = v.accepted - Len(v.queue)
    OBVIOUS
  <2>7. QueueFits(v, m) /\ PipeFits(<<>>, <<>>, m)
    BY <2>4, <2>6, NothingFits
  <2>8. Nvim!NeovimInv'
    BY <2>1, <2>2, <2>4, <2>5, <2>7, NeovimEnds
  <2>9. QED
    BY <1>1, <2>8 DEF Nvim!SessionInv
<1>4. QED
  BY <1>2, <1>3

LEMMA SendSends ==
  ASSUME Nvim!SessionInv, NEW t \in Tabs, Nvim!Send(t) \/ Nvim!SendFails(t)
  PROVE  Nvim!SessionInv'
<1>0. Nvim!NeovimInv /\ Nvim!TabsOK
  BY DEF Nvim!SessionInv
<1>1. Nvim!NeovimInv'
  BY <1>0, NeovimStays DEF Nvim!Send, Nvim!SendFails, Nvim!nvim
<1>2. CASE Nvim!Send(t)
  <2>1. PICK q \in Seq(Tabs) : q = s3
    BY <1>0 DEF Nvim!TabsOK
  <2>2. Append(q, t) \in Seq(Tabs) /\ Len(Append(q, t)) = Len(q) + 1 /\ Len(q) \in Nat
    BY AppendProperties, LenProperties
  <2>3. s3' = Append(q, t) /\ Len(q) < ConnectionCap
    BY <1>2, <2>1 DEF Nvim!Send
  <2>4. Len(s3') <= ConnectionCap
    BY <2>2, <2>3, SuiteAssumptions DEF Nvim!SessionAssumption
  <2>5. Nvim!TabsOK'
    BY <1>0, <1>2, <2>2, <2>3, <2>4 DEF Nvim!TabsOK, Nvim!Send, Nvim!Becomes
  <2>6. QED
    BY <1>1, <2>5 DEF Nvim!SessionInv
<1>3. CASE Nvim!SendFails(t)
  BY <1>0, <1>1, <1>3 DEF Nvim!SessionInv, Nvim!TabsOK, Nvim!SendFails, Nvim!Becomes
<1>4. QED
  BY <1>2, <1>3

\* A connection is taken from those that wait.
LEMMA Taken ==
  ASSUME Nvim!TabsOK, s3 # <<>>, NEW t, t = Head(s3), NEW rest, rest = Tail(s3)
  PROVE  t \in Tabs /\ rest \in Seq(Tabs) /\ Len(rest) <= ConnectionCap
<1>1. PICK q \in Seq(Tabs) : q = s3 /\ Len(q) <= ConnectionCap
  BY DEF Nvim!TabsOK
<1>2. t \in Tabs /\ rest \in Seq(Tabs) /\ Len(rest) = Len(q) - 1 /\ Len(q) \in Nat \ {0}
  BY <1>1, SeqShorter
<1>3. QED
  BY <1>1, <1>2, SuiteAssumptions DEF Nvim!SessionAssumption

LEMMA ActorStarts ==
  ASSUME Nvim!SessionInv, Nvim!Start
  PROVE  Nvim!SessionInv'
<1>0. Nvim!NeovimInv /\ Nvim!TabsOK /\ Nvim!SessionAssumption
  BY SuiteAssumptions DEF Nvim!SessionInv
<1>1. s2.life = "new" /\ s3 # <<>> /\ s2 \in Nvim!Actor
  BY <1>0 DEF Nvim!Start, Nvim!NeovimInv, Nvim!ActorOK
<1>2. PICK t \in Tabs, rest \in Seq(Tabs) :
        t = Head(s3) /\ rest = Tail(s3) /\ Len(rest) <= ConnectionCap
  BY <1>0, <1>1, Taken
<1>3. Nvim!TabsOK'
  BY <1>0, <1>2 DEF Nvim!TabsOK, Nvim!Start, Nvim!Becomes
<1>4. /\ s2.queue = <<>> /\ s2.accepted = 0 /\ s2.refused = {} /\ s2.pending = FALSE
      /\ s4 = <<>> /\ s5 = <<>> /\ s6 \in BOOLEAN /\ s7 = <<>>
  BY <1>0, <1>1, RestHas DEF AtRest
<1>5. /\ <<>> \in Seq(Nvim!Messages) /\ <<>> \in Seq(Nvim!Numbers) /\ <<>> \in Seq(Nvim!Answer)
      /\ Len(<<>>) = 0 /\ DOMAIN <<>> = {}
  BY EmptySeq, NothingNumbered
<1>6. CASE s2' = [s2 EXCEPT !.life = "ending", !.cause = "spawn", !.socket = Head(s3)]
           /\ UNCHANGED <<s4, s6>>
  <2>1. PICK v \in Nvim!Actor : v = [s2 EXCEPT !.life = "ending", !.cause = "spawn", !.socket = t]
    BY <1>1 DEF Nvim!Actor, Nvim!Lives, Nvim!Causes
  <2>2. /\ v.life = "ending" /\ v.queue = <<>> /\ v.accepted = 0
    BY <1>1, <1>4, <2>1 DEF Nvim!Actor
  <2>3. s2' = v /\ s4' = <<>> /\ s5' = <<>> /\ s6' = s6 /\ s7' = <<>>
    BY <1>2, <1>4, <1>6, <2>1 DEF Nvim!Start
  <2>4. PICK m : m = v.accepted - Len(v.queue)
    OBVIOUS
  <2>5. QueueFits(v, m) /\ PipeFits(<<>>, <<>>, m)
    BY <2>2, <2>4, NothingFits
  <2>6. Nvim!NeovimInv'
    BY <1>4, <1>5, <2>2, <2>3, <2>4, <2>5, NeovimEnds
  <2>7. QED
    BY <1>3, <2>6 DEF Nvim!SessionInv
<1>7. CASE /\ s2' = [s2 EXCEPT !.life = "serving", !.socket = Head(s3)]
           /\ s4' = <<Nvim!Request("attach")>> /\ s6' = FALSE
  <2>1. PICK v \in Nvim!Actor : v = [s2 EXCEPT !.life = "serving", !.socket = t]
    BY <1>1 DEF Nvim!Actor, Nvim!Lives
  <2>2. /\ v.life = "serving" /\ v.queue = <<>> /\ v.accepted = 0 /\ v.refused = {}
        /\ v.pending = FALSE
    BY <1>1, <1>4, <2>1 DEF Nvim!Actor
  <2>3. PICK e \in Nvim!Messages : e = Nvim!Request("attach")
    BY AttachRequested
  <2>4. e.kind = "attach" /\ e.n = 0 /\ <<e>> \in Seq(Nvim!Messages)
    BY <2>3, AttachRequested
  <2>5. PICK p \in Seq(Nvim!Messages) : p = <<e>>
    BY <2>4
  <2>6. Len(p) = 1 /\ p[1] = e /\ DOMAIN p = {1}
    BY <2>5
  <2>7. Nvim!Numbered(p) = {}
    BY <2>4, <2>6 DEF Nvim!Numbered
  <2>8. s2' = v /\ s4' = p /\ s5' = <<>> /\ s6' = FALSE /\ s7' = <<>>
    BY <1>2, <1>4, <1>7, <2>1, <2>3, <2>5 DEF Nvim!Start
  <2>9. 1 .. v.accepted = {}
    BY <2>2
  <2>10. Nvim!Numbered(<<>>) = {} /\ Nvim!Range(<<>>) = {}
    BY NothingNumbered
  <2>11. PICK r \in Seq(Nvim!Answer), a \in Seq(Nvim!Numbers) :
           r = <<>> /\ a = <<>> /\ DOMAIN r = {} /\ DOMAIN a = {} /\ Nvim!Range(a) = {}
    BY <1>5, <2>10
  <2>12. Nvim!Numbered(v.queue) = {}
    BY <2>2, <2>10
  <2>13. PICK m : m = v.accepted - Len(v.queue)
    OBVIOUS
  <2>14. \A i \in DOMAIN p : i = 1 /\ p[i].kind = "attach" /\ p[i].n = 0
    BY <2>4, <2>6
  <2>15. s5' = r /\ s7' = a /\ FALSE \in BOOLEAN
    BY <2>8, <2>11
  <2>16. AtWork(v, p, r, a)
    BY <2>2, <2>7, <2>9, <2>11, <2>12, <2>14 DEF AtWork
  <2>17. PipeFits(p, a, m)
    BY <2>11, <2>14 DEF PipeFits
  <2>18. QueueFits(v, m) /\ AtRest(v, p, r, a)
    BY <2>2, <2>13, NothingFits DEF AtRest
  <2>19. Nvim!NeovimInv'
    BY <2>8, <2>13, <2>15, <2>16, <2>17, <2>18, NeovimBecomes
  <2>20. QED
    BY <1>3, <2>19 DEF Nvim!SessionInv
<1>8. QED
  BY <1>6, <1>7 DEF Nvim!Start


\* A message written to Neovim: to attach the UI again, or the next input.
LEMMA WritesSafely ==
  ASSUME Nvim!NeovimInv, NEW o \in Nvim!Actor, o = s2, o.life = "serving",
         NEW v \in Nvim!Actor, v.life = "serving", NEW e \in Nvim!Messages, Nvim!Writes(v, <<e>>),
         NEW k \in Nat, k = o.accepted - Len(o.queue),
         NEW m \in Nat, QueueFits(v, m), v.accepted = o.accepted, v.refused = o.refused,
         Nvim!Numbered(o.queue) = Nvim!Numbered(v.queue) \cup ({e.n} \ {0}),
         \/ e.kind = "attach" /\ e.n = 0 /\ m = k /\ v.pending = o.pending
         \/ /\ e.kind # "attach" /\ e.n = m /\ m = k + 1 /\ ~o.pending
            /\ v.pending <=> e.kind \in {"paste", "open"}
  PROVE  Nvim!NeovimInv'
<1>1. k <= m /\ Nvim!Issued = k
  BY DEF Nvim!Issued
<1>2. CASE s6
  <2>1. Nvim!EndsAs(v, "exit") /\ "exit" \in Nvim!Causes
    BY <1>2 DEF Nvim!Writes, Nvim!Causes
  <2>2. QED
    BY <1>1, <2>1, EndsSafely
<1>3. CASE ~s6
  <2>1. PICK q, a : q = s4 /\ a = s7
    OBVIOUS
  <2>2. q \in Seq(Nvim!Messages) /\ a \in Seq(Nvim!Numbers) /\ PipeFits(q, a, k)
    BY <2>1, PipeHas
  <2>3. PICK r \in Seq(Nvim!Answer) : r = s5
    BY RestHas
  <2>4. PICK p : p = q \o <<e>>
    OBVIOUS
  <2>5. /\ p \in Seq(Nvim!Messages) /\ Len(p) = Len(q) + 1 /\ p[Len(q) + 1] = e
        /\ \A i \in 1 .. Len(q) : p[i] = q[i]
    BY <2>2, <2>4, SeqLonger
  <2>6. Nvim!Numbered(p) = Nvim!Numbered(q) \cup ({e.n} \ {0})
    BY <2>2, <2>4, NumberedLonger
  <2>7. /\ Len(q) \in Nat /\ DOMAIN q = 1 .. Len(q) /\ DOMAIN p = 1 .. Len(q) + 1
    BY <2>2, <2>5, LenProperties
  <2>8. s2' = v /\ s4' = p /\ s5' = r /\ s6' = FALSE /\ s7' = a
    BY <1>3, <2>1, <2>3, <2>4, RestHas DEF Nvim!Writes
  <2>9. AtWork(o, q, r, a)
    BY <1>3, <2>1, <2>3, WorkHas
  <2>10. 1 .. v.accepted = Nvim!Range(a) \cup Nvim!Numbered(p) \cup Nvim!Numbered(v.queue) \cup v.refused
    BY ONLY <2>6, <2>9, v.accepted = o.accepted, v.refused = o.refused,
       Nvim!Numbered(o.queue) = Nvim!Numbered(v.queue) \cup ({e.n} \ {0}) DEF AtWork
  <2>11. \A i \in DOMAIN q : q[i].kind \in {"keys", "paste", "open", "attach"}
    <3>1. \A i \in DOMAIN q : q[i] \in Nvim!Messages
      BY ONLY <2>2, <2>7
    <3>2. QED
      BY <3>1 DEF Nvim!Messages, Nvim!Kinds
  <2>12. \A i \in DOMAIN p : (i \in DOMAIN q /\ p[i] = q[i]) \/ (i = Len(q) + 1 /\ p[i] = e)
    BY ONLY <2>5, <2>7
  <2>13. \A i \in DOMAIN q : i \in DOMAIN p /\ p[i] = q[i] /\ i < Len(q) + 1
    BY ONLY <2>5, <2>7
  <2>14. Len(q) + 1 \in DOMAIN p /\ p[Len(q) + 1] = e
    BY ONLY <2>5, <2>7
  <2>15. AtRest(v, p, r, a) /\ FALSE \in BOOLEAN /\ m = v.accepted - Len(v.queue)
    BY DEF AtRest, QueueFits
  <2>16. CASE e.kind = "attach" /\ e.n = 0 /\ m = k /\ v.pending = o.pending
    <3>1. PipeFits(p, a, m)
      BY <2>2, <2>12, <2>16 DEF PipeFits
    <3>2. /\ v.pending <=> \/ \E i \in DOMAIN p : p[i].kind \in {"paste", "open"}
                           \/ \E i \in DOMAIN r : r[i].to # "attach"
      BY <2>9, <2>12, <2>13, <2>16 DEF AtWork
    <3>3. \A i \in DOMAIN p, j \in DOMAIN r : p[i].kind \in {"paste", "open"} => r[j].to = "attach"
      BY <2>9, <2>12, <2>16 DEF AtWork
    <3>4. AtWork(v, p, r, a)
      BY ONLY <2>9, <2>10, <3>2, <3>3 DEF AtWork
    <3>5. QED
      BY <2>2, <2>5, <2>8, <2>15, <3>1, <3>4, NeovimBecomes
  <2>17. CASE /\ e.kind # "attach" /\ e.n = m /\ m = k + 1 /\ ~o.pending
              /\ v.pending <=> e.kind \in {"paste", "open"}
    <3>1. /\ \A i \in DOMAIN q : q[i].kind \in {"keys", "attach"}
          /\ \A i \in DOMAIN r : r[i].to = "attach"
      BY <2>9, <2>11, <2>17 DEF AtWork
    <3>2. \A i \in DOMAIN p : IF p[i].kind # "attach" THEN p[i].n \in 1 .. m ELSE p[i].n = 0
      BY <2>2, <2>12, <2>17 DEF PipeFits
    <3>3. \A i, j \in DOMAIN p : i < j /\ p[i].kind # "attach" /\ p[j].kind # "attach" =>
            p[i].kind = "keys" /\ p[i].n < p[j].n
      <4>1. SUFFICES ASSUME NEW i \in DOMAIN p, NEW j \in DOMAIN p, i < j,
                            p[i].kind # "attach", p[j].kind # "attach"
                     PROVE  p[i].kind = "keys" /\ p[i].n < p[j].n
        OBVIOUS
      <4>2. i \in DOMAIN q /\ p[i] = q[i]
        BY ONLY i \in DOMAIN p, j \in DOMAIN p, i < j, <2>5, <2>7
      <4>3. q[i].n \in 1 .. k /\ q[i].kind = "keys"
        BY <2>2, <3>1, <4>1, <4>2 DEF PipeFits
      <4>4. CASE j \in DOMAIN q /\ p[j] = q[j]
        BY <2>2, <4>1, <4>2, <4>4 DEF PipeFits
      <4>5. CASE p[j] = e
        BY <2>17, <4>2, <4>3, <4>5
      <4>6. QED
        BY <2>12, <4>4, <4>5
    <3>4. /\ \A j \in DOMAIN a : a[j] \in 1 .. m
          /\ \A j \in DOMAIN a, i \in DOMAIN p : p[i].kind # "attach" => a[j] < p[i].n
      <4>1. \A j \in DOMAIN a : a[j] \in 1 .. k
        BY <2>2 DEF PipeFits
      <4>2. \A j \in DOMAIN a : a[j] \in 1 .. m /\ a[j] < e.n
        BY <2>17, <4>1
      <4>3. \A j \in DOMAIN a, i \in DOMAIN q : q[i].kind # "attach" => a[j] < q[i].n
        BY <2>2 DEF PipeFits
      <4>4. QED
        BY ONLY <2>12, <4>2, <4>3
    <3>5. PipeFits(p, a, m)
      BY ONLY <2>2, <3>2, <3>3, <3>4 DEF PipeFits
    <3>6. /\ v.pending <=> \/ \E i \in DOMAIN p : p[i].kind \in {"paste", "open"}
                           \/ \E i \in DOMAIN r : r[i].to # "attach"
      BY <2>12, <2>14, <2>17, <3>1
    <3>7. \A i \in DOMAIN p, j \in DOMAIN r : p[i].kind \in {"paste", "open"} => r[j].to = "attach"
      BY <3>1
    <3>8. AtWork(v, p, r, a)
      BY ONLY <2>9, <2>10, <3>6, <3>7 DEF AtWork
    <3>9. QED
      BY <2>2, <2>5, <2>8, <2>15, <3>5, <3>8, NeovimBecomes
  <2>18. QED
    BY <2>16, <2>17
<1>4. QED
  BY <1>2, <1>3

LEMMA TabTakesOver ==
  ASSUME Nvim!SessionInv, Nvim!TakeOver
  PROVE  Nvim!SessionInv'
<1>1. Nvim!NeovimInv /\ Nvim!TabsOK
  BY DEF Nvim!SessionInv
<1>2. PICK o \in Nvim!Actor : o = s2 /\ o.life = "serving"
  BY <1>1 DEF Nvim!TakeOver, Nvim!Serving, Nvim!NeovimInv, Nvim!ActorOK
<1>3. s3 # <<>> /\ o.takeOvers < MaxTakeOvers
  BY <1>2 DEF Nvim!TakeOver
<1>4. PICK t \in Tabs, rest \in Seq(Tabs) :
        t = Head(s3) /\ rest = Tail(s3) /\ Len(rest) <= ConnectionCap
  BY <1>1, <1>3, Taken
<1>5. PICK stages : stages = s1
  OBVIOUS
<1>6. stages \in [Tabs -> {"away", "holding", "stale", "waiting", "served"}]
  BY <1>1, <1>5 DEF Nvim!TabsOK
<1>7. /\ s1' = [u \in Tabs |-> IF u = t THEN "served" ELSE IF u = o.socket THEN "away" ELSE stages[u]]
      /\ s3' = rest
  BY <1>2, <1>4, <1>5 DEF Nvim!TakeOver
<1>8. Nvim!TabsOK'
  BY <1>4, <1>6, <1>7 DEF Nvim!TabsOK
<1>9. PICK k : k = o.accepted - Len(o.queue)
  OBVIOUS
<1>10. k \in Nat /\ QueueFits(o, k)
  BY <1>1, <1>2, <1>9, QueueHas
<1>11. PICK v \in Nvim!Actor : v = [o EXCEPT !.socket = t, !.takeOvers = o.takeOvers + 1]
  <2>1. o.takeOvers + 1 \in 0 .. MaxTakeOvers
    BY <1>2, <1>3, SuiteAssumptions DEF Nvim!Actor, Nvim!SessionAssumption
  <2>2. QED
    BY <2>1 DEF Nvim!Actor
<1>12. /\ v.life = o.life /\ v.queue = o.queue /\ v.accepted = o.accepted
       /\ v.refused = o.refused /\ v.pending = o.pending
  BY <1>11 DEF Nvim!Actor
<1>13. PICK e \in Nvim!Messages : e = Nvim!Request("attach") /\ e.kind = "attach" /\ e.n = 0
  BY AttachRequested
<1>14. Nvim!Writes(v, <<e>>)
  BY <1>2, <1>4, <1>11, <1>13 DEF Nvim!TakeOver
<1>15. QueueFits(v, k)
  BY <1>10, <1>12 DEF QueueFits
<1>16. Nvim!Numbered(o.queue) = Nvim!Numbered(v.queue) \cup ({e.n} \ {0})
  BY <1>12, <1>13
<1>17. Nvim!NeovimInv'
  BY <1>1, <1>2, <1>9, <1>10, <1>12, <1>13, <1>14, <1>15, <1>16, WritesSafely
<1>18. QED
  BY <1>8, <1>17 DEF Nvim!SessionInv

LEMMA TabTypes ==
  ASSUME Nvim!SessionInv, NEW kind \in Nvim!Kinds, Nvim!Accept(kind)
  PROVE  Nvim!SessionInv'
<1>1. Nvim!NeovimInv /\ Nvim!TabsOK
  BY DEF Nvim!SessionInv
<1>2. Nvim!TabsOK'
  BY <1>1 DEF Nvim!TabsOK, Nvim!Accept
<1>3. PICK o \in Nvim!Actor : o = s2 /\ o.life = "serving" /\ o.accepted < MaxInputs
  BY <1>1 DEF Nvim!Accept, Nvim!Serving, Nvim!NeovimInv, Nvim!ActorOK
<1>4. CASE Len(o.queue) = QueueCap
  <2>1. Nvim!Ends("full") /\ "full" \in Nvim!Causes
    BY <1>3, <1>4 DEF Nvim!Accept, Nvim!Causes
  <2>2. QED
    BY <1>1, <1>2, <2>1, ActorEnds DEF Nvim!SessionInv
<1>5. CASE Len(o.queue) # QueueCap
  <2>1. PICK k : k = o.accepted - Len(o.queue)
    OBVIOUS
  <2>2. /\ k \in Nat /\ QueueFits(o, k) /\ o.accepted \in Nat /\ Len(o.queue) \in Nat
        /\ o.queue \in Seq(Nvim!Messages)
    BY <1>1, <1>3, <2>1, QueueHas
  <2>3. PICK n \in Nvim!Numbers : n = o.accepted + 1 /\ n \in Nat \ {0}
    BY <1>3, <2>2, SuiteAssumptions DEF Nvim!Numbers, Nvim!SessionAssumption
  <2>4. PICK e \in Nvim!Messages : e = [kind |-> kind, n |-> n] /\ e.kind = kind /\ e.n = n
    <3>1. PICK e : e = [kind |-> kind, n |-> n]
      OBVIOUS
    <3>2. e.kind = kind /\ e.n = n
      BY ONLY <3>1
    <3>3. kind \in Nvim!Kinds \cup {"attach"}
      BY ONLY kind \in Nvim!Kinds
    <3>4. e \in Nvim!Messages
      BY ONLY <3>1, <3>3, n \in Nvim!Numbers DEF Nvim!Messages
    <3>5. QED
      BY <3>1, <3>2, <3>4
  <2>5. PICK q \in Seq(Nvim!Messages) : q = Append(o.queue, e)
    BY <2>2, SeqLonger
  <2>6. /\ Len(q) = Len(o.queue) + 1 /\ q[Len(o.queue) + 1] = e
        /\ \A i \in 1 .. Len(o.queue) : q[i] = o.queue[i]
    BY <2>2, <2>5, SeqLonger
  <2>7. Nvim!Numbered(q) = Nvim!Numbered(o.queue) \cup {n}
    <3>1. Nvim!Numbered(q) = Nvim!Numbered(o.queue) \cup ({e.n} \ {0})
      BY <2>2, <2>5, NumberedLonger
    <3>2. {e.n} \ {0} = {n}
      BY ONLY <2>3, <2>4
    <3>3. QED
      BY ONLY <3>1, <3>2
  <2>8. PICK v \in Nvim!Actor : v = [o EXCEPT !.accepted = n, !.queue = q]
    BY DEF Nvim!Actor
  <2>9. /\ v.life = o.life /\ v.queue = q /\ v.accepted = n
        /\ v.refused = o.refused /\ v.pending = o.pending
    BY <2>8 DEF Nvim!Actor
  <2>10. s2' = v /\ UNCHANGED Nvim!nvim
    BY <1>3, <1>5, <2>3, <2>4, <2>5, <2>8 DEF Nvim!Accept
  <2>11. QueueFits(v, k)
    <3>1. DOMAIN q = 1 .. Len(o.queue) + 1 /\ DOMAIN o.queue = 1 .. Len(o.queue)
      BY <2>2, <2>5, <2>6, LenProperties
    <3>2. Len(o.queue) <= QueueCap /\ Len(o.queue) <= o.accepted
      BY <2>2 DEF QueueFits
    <3>3. Len(q) <= QueueCap /\ Len(q) <= n /\ k = n - Len(q)
      <4>1. QueueCap \in Nat
        BY SuiteAssumptions DEF Nvim!SessionAssumption
      <4>2. Len(o.queue) < QueueCap
        BY ONLY <1>5, <2>2, <3>2, <4>1
      <4>3. PICK l \in Nat, c \in Nat : l = Len(o.queue) /\ c = o.accepted
        BY ONLY <2>2
      <4>4. Len(q) = l + 1 /\ n = c + 1 /\ k = c - l /\ l < QueueCap /\ l <= c
        BY ONLY <2>1, <2>3, <2>6, <3>2, <4>2, <4>3
      <4>5. QED
        BY ONLY <4>1, <4>4, l \in Nat, c \in Nat
    <3>4. \A i \in DOMAIN o.queue : o.queue[i].kind \in Nvim!Kinds /\ o.queue[i].n = k + i
      BY <2>2 DEF QueueFits
    <3>5. e.n = k + (Len(o.queue) + 1)
      BY <2>1, <2>2, <2>3, <2>4
    <3>6. \A i \in DOMAIN q : q[i].kind \in Nvim!Kinds /\ q[i].n = k + i
      <4>1. \A i \in DOMAIN q : i \in DOMAIN o.queue \/ i = Len(o.queue) + 1
        BY ONLY <2>2, <3>1
      <4>2. \A i \in DOMAIN o.queue : q[i] = o.queue[i]
        BY ONLY <2>6, <3>1
      <4>3. q[Len(o.queue) + 1].kind \in Nvim!Kinds
        BY <2>4, <2>6
      <4>4. QED
        BY ONLY <2>4, <2>6, <3>4, <3>5, <4>1, <4>2, <4>3
    <3>7. QED
      BY <2>9, <3>3, <3>6 DEF QueueFits
  <2>12. 1 .. v.accepted = 1 .. o.accepted \cup {n}
    BY <2>2, <2>3, <2>9
  <2>13. PICK p, r, x, a : p = s4 /\ r = s5 /\ x = s6 /\ a = s7
    OBVIOUS
  <2>14. /\ p \in Seq(Nvim!Messages) /\ a \in Seq(Nvim!Numbers) /\ PipeFits(p, a, k)
         /\ r \in Seq(Nvim!Answer) /\ x \in BOOLEAN
    BY <1>1, <1>3, <2>1, <2>13, PipeHas, RestHas
  <2>15. AtRest(v, p, r, a)
    BY <1>3, <2>9 DEF AtRest
  <2>16. ASSUME ~x PROVE AtWork(v, p, r, a)
    <3>1. AtWork(o, p, r, a)
      BY <1>1, <1>3, <2>13, <2>16, WorkHas
    <3>2. 1 .. v.accepted = Nvim!Range(a) \cup Nvim!Numbered(p) \cup Nvim!Numbered(v.queue) \cup v.refused
      BY ONLY <2>7, <2>9, <2>12, <3>1 DEF AtWork
    <3>3. QED
      BY ONLY <2>9, <3>1, <3>2 DEF AtWork
  <2>17. s4' = p /\ s5' = r /\ s6' = x /\ s7' = a /\ k = v.accepted - Len(v.queue)
    BY <2>10, <2>11, <2>13 DEF Nvim!nvim, QueueFits
  <2>18. Nvim!NeovimInv'
    BY <2>10, <2>11, <2>14, <2>15, <2>16, <2>17, NeovimBecomes
  <2>19. QED
    BY <1>2, <2>18 DEF Nvim!SessionInv
<1>6. QED
  BY <1>4, <1>5

LEMMA GarbledEnds ==
  ASSUME Nvim!SessionInv, Nvim!Garbled \/ Nvim!SeeExit
  PROVE  Nvim!SessionInv'
<1>1. Nvim!NeovimInv /\ Nvim!TabsOK /\ "invalid" \in Nvim!Causes /\ "exit" \in Nvim!Causes
  BY DEF Nvim!SessionInv, Nvim!Causes
<1>2. (Nvim!Ends("invalid") \/ Nvim!Ends("exit")) /\ UNCHANGED <<s1, s3>>
  BY DEF Nvim!Garbled, Nvim!SeeExit
<1>3. Nvim!NeovimInv'
  BY <1>1, <1>2, ActorEnds
<1>4. Nvim!TabsOK'
  BY <1>1, <1>2 DEF Nvim!TabsOK
<1>5. QED
  BY <1>3, <1>4 DEF Nvim!SessionInv

LEMMA TabGoes ==
  ASSUME Nvim!SessionInv, Nvim!LoseTab
  PROVE  Nvim!SessionInv'
<1>1. Nvim!NeovimInv /\ Nvim!TabsOK
  BY DEF Nvim!SessionInv
<1>2. Nvim!TabsOK'
  BY <1>1 DEF Nvim!TabsOK, Nvim!LoseTab, Nvim!Becomes
<1>3. PICK o \in Nvim!Actor : o = s2 /\ o.life = "serving"
  BY <1>1 DEF Nvim!LoseTab, Nvim!Serving, Nvim!NeovimInv, Nvim!ActorOK
<1>4. PICK v \in Nvim!Actor : v = [o EXCEPT !.socket = NoTab]
  BY DEF Nvim!Actor
<1>5. /\ v.life = o.life /\ v.queue = o.queue /\ v.accepted = o.accepted
      /\ v.refused = o.refused /\ v.pending = o.pending
  BY <1>4 DEF Nvim!Actor
<1>6. PICK p, r, x, a : p = s4 /\ r = s5 /\ x = s6 /\ a = s7
  OBVIOUS
<1>7. PICK k : k = o.accepted - Len(o.queue)
  OBVIOUS
<1>8. /\ p \in Seq(Nvim!Messages) /\ a \in Seq(Nvim!Numbers) /\ PipeFits(p, a, k)
      /\ r \in Seq(Nvim!Answer) /\ x \in BOOLEAN
  BY <1>1, <1>3, <1>6, <1>7, PipeHas, RestHas
<1>9. QueueFits(o, k)
  BY <1>1, <1>3, <1>7, QueueHas
<1>10. QueueFits(v, k) /\ k = v.accepted - Len(v.queue)
  BY <1>5, <1>7, <1>9 DEF QueueFits
<1>11. AtRest(v, p, r, a)
  BY <1>3, <1>5 DEF AtRest
<1>12. ASSUME ~x PROVE AtWork(v, p, r, a)
  <2>1. AtWork(o, p, r, a)
    BY <1>1, <1>3, <1>6, <1>12, WorkHas
  <2>2. QED
    BY ONLY <1>5, <2>1 DEF AtWork
<1>13. s2' = v /\ s4' = p /\ s5' = r /\ s6' = x /\ s7' = a
  BY <1>3, <1>4, <1>6 DEF Nvim!LoseTab, Nvim!nvim
<1>14. Nvim!NeovimInv'
  BY <1>8, <1>10, <1>11, <1>12, <1>13, NeovimBecomes
<1>15. QED
  BY <1>2, <1>14 DEF Nvim!SessionInv

LEMMA InputIssued ==
  ASSUME Nvim!SessionInv, Nvim!Issue
  PROVE  Nvim!SessionInv'
<1>1. Nvim!NeovimInv /\ Nvim!TabsOK
  BY DEF Nvim!SessionInv
<1>2. Nvim!TabsOK'
  BY <1>1 DEF Nvim!TabsOK, Nvim!Issue
<1>3. PICK o \in Nvim!Actor : o = s2 /\ o.life = "serving" /\ ~o.pending /\ o.queue # <<>>
  BY <1>1 DEF Nvim!Issue, Nvim!Serving, Nvim!NeovimInv, Nvim!ActorOK
<1>4. PICK k : k = o.accepted - Len(o.queue)
  OBVIOUS
<1>5. /\ k \in Nat /\ QueueFits(o, k) /\ o.accepted \in Nat /\ o.queue \in Seq(Nvim!Messages)
  BY <1>1, <1>3, <1>4, QueueHas
<1>6. PICK q : q = Tail(o.queue)
  OBVIOUS
<1>7. /\ q \in Seq(Nvim!Messages) /\ Len(q) = Len(o.queue) - 1 /\ Len(o.queue) \in Nat \ {0}
      /\ \A i \in 1 .. Len(q) : q[i] = o.queue[i + 1]
  BY <1>3, <1>5, <1>6, SeqShorter
<1>8. PICK e \in Nvim!Messages : e = Head(o.queue) /\ e = o.queue[1]
  BY <1>3, <1>5, <1>6, SeqShorter
<1>9. PICK m \in Nat : m = k + 1
  BY <1>5
<1>10. DOMAIN o.queue = 1 .. Len(o.queue) /\ DOMAIN q = 1 .. Len(q) /\ Len(q) \in Nat
  BY <1>5, <1>7, LenProperties
<1>11. e.kind \in Nvim!Kinds /\ e.n = m /\ e.kind # "attach"
  <2>1. o.queue[1].kind \in Nvim!Kinds /\ o.queue[1].n = k + 1
    <3>1. 1 \in DOMAIN o.queue
      BY ONLY <1>7, <1>10
    <3>2. QED
      BY ONLY <1>5, <3>1 DEF QueueFits
  <2>2. QED
    BY <1>8, <1>9, <2>1 DEF Nvim!Kinds
<1>12. \A i \in DOMAIN q : q[i].kind \in Nvim!Kinds /\ q[i].n = m + i
  <2>1. SUFFICES ASSUME NEW i \in DOMAIN q PROVE q[i].kind \in Nvim!Kinds /\ q[i].n = m + i
    OBVIOUS
  <2>2. q[i] = o.queue[i + 1] /\ i + 1 \in DOMAIN o.queue /\ i \in Nat
    BY ONLY i \in DOMAIN q, <1>7, <1>10
  <2>3. o.queue[i + 1].kind \in Nvim!Kinds /\ o.queue[i + 1].n = k + (i + 1)
    BY ONLY <1>5, <2>2 DEF QueueFits
  <2>4. k + (i + 1) = m + i
    BY ONLY <1>5, <1>9, <2>2
  <2>5. QED
    BY ONLY <2>2, <2>3, <2>4
<1>13. Len(q) <= QueueCap /\ Len(q) <= o.accepted /\ m = o.accepted - Len(q)
  <2>1. Len(o.queue) <= QueueCap /\ Len(o.queue) <= o.accepted /\ QueueCap \in Nat
    BY <1>5, SuiteAssumptions DEF QueueFits, Nvim!SessionAssumption
  <2>2. QED
    BY ONLY <1>4, <1>5, <1>7, <1>9, <1>10, <2>1
<1>14. Nvim!Numbered(o.queue) = Nvim!Numbered(q) \cup ({e.n} \ {0})
  <2>1. Nvim!Numbered(o.queue) = Nvim!Numbered(q) \cup ({o.queue[1].n} \ {0})
    BY <1>3, <1>5, <1>6, NumberedShorter
  <2>2. QED
    BY ONLY <1>8, <2>1
<1>15. CASE Nvim!Writes([[o EXCEPT !.queue = q] EXCEPT !.pending = e.kind \in {"paste", "open"}], <<e>>)
  <2>1. PICK pending \in BOOLEAN : pending = (e.kind \in {"paste", "open"})
    <3>1. PICK kinds : kinds = {"paste", "open"}
      OBVIOUS
    <3>2. (e.kind \in kinds) \in BOOLEAN
      BY ONLY TRUE
    <3>3. QED
      BY ONLY <3>1, <3>2
  <2>2. PICK v \in Nvim!Actor : v = [[o EXCEPT !.queue = q] EXCEPT !.pending = pending]
    BY <1>7 DEF Nvim!Actor
  <2>3. /\ v.life = o.life /\ v.queue = q /\ v.accepted = o.accepted
        /\ v.refused = o.refused
    BY <2>2 DEF Nvim!Actor
  <2>4. v.pending <=> e.kind \in {"paste", "open"}
    BY <2>1, <2>2 DEF Nvim!Actor
  <2>5. QueueFits(v, m)
    BY <1>12, <1>13, <2>3 DEF QueueFits
  <2>6. Nvim!Numbered(o.queue) = Nvim!Numbered(v.queue) \cup ({e.n} \ {0})
    BY <1>14, <2>3
  <2>7. Nvim!Writes(v, <<e>>)
    BY <1>15, <2>1, <2>2
  <2>8. /\ e.kind # "attach" /\ e.n = m /\ m = k + 1 /\ ~o.pending
        /\ v.pending <=> e.kind \in {"paste", "open"}
    BY <1>3, <1>9, <1>11, <2>4
  <2>9. Nvim!NeovimInv'
    BY <1>1, <1>3, <1>4, <1>5, <2>3, <2>5, <2>6, <2>7, <2>8, WritesSafely
  <2>10. QED
    BY <1>2, <2>9 DEF Nvim!SessionInv
<1>16. CASE /\ s2' = [[o EXCEPT !.queue = q] EXCEPT !.refused = o.refused \cup {e.n}]
            /\ UNCHANGED Nvim!nvim
  <2>1. PICK v : v = [[o EXCEPT !.queue = q] EXCEPT !.refused = o.refused \cup {e.n}]
    OBVIOUS
  <2>2. v \in Nvim!Actor
    <3>1. e.n \in Nvim!Numbers /\ o.refused \in SUBSET Nvim!Numbers
      BY DEF Nvim!Messages, Nvim!Actor
    <3>2. o.refused \cup {e.n} \in SUBSET Nvim!Numbers
      BY ONLY <3>1
    <3>3. QED
      BY <1>7, <2>1, <3>2 DEF Nvim!Actor
  <2>3. /\ v.life = o.life /\ v.queue = q /\ v.accepted = o.accepted
        /\ v.refused = o.refused \cup {e.n} /\ v.pending = o.pending
    BY <2>1 DEF Nvim!Actor
  <2>4. QueueFits(v, m) /\ m = v.accepted - Len(v.queue)
    BY <1>12, <1>13, <2>3 DEF QueueFits
  <2>5. PICK p, r, x, a : p = s4 /\ r = s5 /\ x = s6 /\ a = s7
    OBVIOUS
  <2>6. /\ p \in Seq(Nvim!Messages) /\ a \in Seq(Nvim!Numbers) /\ PipeFits(p, a, k)
        /\ r \in Seq(Nvim!Answer) /\ x \in BOOLEAN
    BY <1>1, <1>3, <1>4, <2>5, PipeHas, RestHas
  <2>7. PipeFits(p, a, m)
    BY <1>5, <1>9, <2>6 DEF PipeFits
  <2>8. AtRest(v, p, r, a)
    BY <1>3, <2>3 DEF AtRest
  <2>9. ASSUME ~x PROVE AtWork(v, p, r, a)
    <3>1. AtWork(o, p, r, a)
      BY <1>1, <1>3, <2>5, <2>9, WorkHas
    <3>2. {e.n} \ {0} = {e.n}
      BY ONLY <1>5, <1>9, <1>11
    <3>3. 1 .. v.accepted = Nvim!Range(a) \cup Nvim!Numbered(p) \cup Nvim!Numbered(v.queue) \cup v.refused
      BY ONLY <1>14, <2>3, <3>1, <3>2 DEF AtWork
    <3>4. QED
      BY ONLY <2>3, <3>1, <3>3 DEF AtWork
  <2>10. s2' = v /\ s4' = p /\ s5' = r /\ s6' = x /\ s7' = a
    BY <1>16, <2>1, <2>5 DEF Nvim!nvim
  <2>11. Nvim!NeovimInv'
    BY <2>2, <2>4, <2>6, <2>7, <2>8, <2>9, <2>10, NeovimBecomes
  <2>12. QED
    BY <1>2, <2>11 DEF Nvim!SessionInv
<1>17. QED
  BY <1>3, <1>6, <1>8, <1>15, <1>16 DEF Nvim!Issue

LEMMA ReplyRead ==
  ASSUME Nvim!SessionInv, Nvim!Reply
  PROVE  Nvim!SessionInv'
<1>1. Nvim!NeovimInv /\ Nvim!TabsOK
  BY DEF Nvim!SessionInv
<1>2. Nvim!TabsOK'
  BY <1>1 DEF Nvim!TabsOK, Nvim!Reply
<1>3. PICK o \in Nvim!Actor : o = s2 /\ o.life = "serving"
  BY <1>1 DEF Nvim!Reply, Nvim!Serving, Nvim!NeovimInv, Nvim!ActorOK
<1>4. PICK q, r, x, a : q = s4 /\ r = s5 /\ x = s6 /\ a = s7
  OBVIOUS
<1>5. PICK k : k = o.accepted - Len(o.queue)
  OBVIOUS
<1>6. /\ q \in Seq(Nvim!Messages) /\ a \in Seq(Nvim!Numbers) /\ PipeFits(q, a, k)
      /\ r \in Seq(Nvim!Answer) /\ x \in BOOLEAN /\ QueueFits(o, k)
  BY <1>1, <1>3, <1>4, <1>5, PipeHas, RestHas, QueueHas
<1>7. PICK t : t = Tail(r)
  OBVIOUS
<1>8. r # <<>>
  BY <1>4 DEF Nvim!Reply
<1>9. /\ t \in Seq(Nvim!Answer) /\ Len(t) = Len(r) - 1 /\ Len(r) \in Nat \ {0}
      /\ Head(r) = r[1] /\ \A i \in 1 .. Len(t) : t[i] = r[i + 1]
  BY <1>6, <1>7, <1>8, SeqShorter
<1>10. DOMAIN r = 1 .. Len(r) /\ DOMAIN t = 1 .. Len(t) /\ Len(t) \in Nat
  BY <1>6, <1>9, LenProperties
<1>11. CASE Nvim!Ends("rpc")
  <2>1. "rpc" \in Nvim!Causes
    BY DEF Nvim!Causes
  <2>2. QED
    BY <1>1, <1>2, <1>11, <2>1, ActorEnds DEF Nvim!SessionInv
<1>12. CASE /\ s2' = [o EXCEPT !.pending = r[1].to = "attach" /\ o.pending]
            /\ s5' = t /\ UNCHANGED <<s4, s6, s7>>
  <2>1. PICK pending \in BOOLEAN : pending = (r[1].to = "attach" /\ o.pending)
    OBVIOUS
  <2>2. PICK v \in Nvim!Actor : v = [o EXCEPT !.pending = pending]
    BY DEF Nvim!Actor
  <2>3. /\ v.life = o.life /\ v.queue = o.queue /\ v.accepted = o.accepted
        /\ v.refused = o.refused
    BY <2>2 DEF Nvim!Actor
  <2>4. v.pending <=> (r[1].to = "attach" /\ o.pending)
    BY <2>1, <2>2 DEF Nvim!Actor
  <2>5. QueueFits(v, k) /\ k = v.accepted - Len(v.queue) /\ AtRest(v, q, t, a)
    BY <1>3, <1>5, <1>6, <2>3 DEF QueueFits, AtRest
  <2>6. ASSUME ~x PROVE AtWork(v, q, t, a)
    <3>1. AtWork(o, q, r, a)
      BY <1>1, <1>3, <1>4, <2>6, WorkHas
    <3>2. \A i \in DOMAIN t : i + 1 \in DOMAIN r /\ t[i] = r[i + 1] /\ i + 1 # 1 /\ i \in Nat
      BY ONLY <1>9, <1>10
    <3>3. \A i, j \in DOMAIN t : t[i].to # "attach" /\ t[j].to # "attach" => i = j
      <4>1. SUFFICES ASSUME NEW i \in DOMAIN t, NEW j \in DOMAIN t,
                            t[i].to # "attach", t[j].to # "attach"
                     PROVE  i = j
        OBVIOUS
      <4>2. i + 1 = j + 1
        BY <3>1, <3>2, <4>1 DEF AtWork
      <4>3. QED
        BY ONLY <4>2, <3>2, i \in DOMAIN t, j \in DOMAIN t
    <3>4. 1 \in DOMAIN r
      BY ONLY <1>9, <1>10
    <3>5. \A i \in DOMAIN r : i = 1 \/ \E j \in DOMAIN t : t[j] = r[i]
      <4>1. SUFFICES ASSUME NEW i \in DOMAIN r, i # 1 PROVE \E j \in DOMAIN t : t[j] = r[i]
        OBVIOUS
      <4>2. i - 1 \in DOMAIN t /\ t[i - 1] = r[i - 1 + 1] /\ i - 1 + 1 = i
        BY ONLY i \in DOMAIN r, i # 1, <1>9, <1>10
      <4>3. QED
        BY <4>2
    <3>6. v.pending <=> \/ \E i \in DOMAIN q : q[i].kind \in {"paste", "open"}
                        \/ \E i \in DOMAIN t : t[i].to # "attach"
      <4>1. CASE r[1].to = "attach"
        BY <2>4, <3>1, <3>2, <3>5, <4>1 DEF AtWork
      <4>2. CASE r[1].to # "attach"
        <5>1. \A i \in DOMAIN q : ~(q[i].kind \in {"paste", "open"})
          BY <3>1, <3>4, <4>2 DEF AtWork
        <5>2. \A i \in DOMAIN t : t[i].to = "attach"
          BY <3>1, <3>2, <3>4, <4>2 DEF AtWork
        <5>3. QED
          BY <2>4, <4>2, <5>1, <5>2
      <4>3. QED
        BY <4>1, <4>2
    <3>7. \A i \in DOMAIN q, j \in DOMAIN t : q[i].kind \in {"paste", "open"} => t[j].to = "attach"
      BY <3>1, <3>2 DEF AtWork
    <3>8. 1 .. v.accepted = Nvim!Range(a) \cup Nvim!Numbered(q) \cup Nvim!Numbered(v.queue) \cup v.refused
      BY ONLY <2>3, <3>1 DEF AtWork
    <3>9. QED
      BY ONLY <3>3, <3>6, <3>7, <3>8 DEF AtWork
  <2>7. s2' = v /\ s4' = q /\ s5' = t /\ s6' = x /\ s7' = a
    BY <1>4, <1>12, <2>1, <2>2
  <2>8. Nvim!NeovimInv'
    BY <1>6, <1>9, <2>5, <2>6, <2>7, NeovimBecomes
  <2>9. QED
    BY <1>2, <2>8 DEF Nvim!SessionInv
<1>13. QED
  BY <1>3, <1>4, <1>7, <1>9, <1>11, <1>12 DEF Nvim!Reply

LEMMA ActorFinishes ==
  ASSUME Nvim!SessionInv, Nvim!Finish
  PROVE  Nvim!SessionInv'
<1>1. Nvim!NeovimInv /\ Nvim!TabsOK
  BY DEF Nvim!SessionInv
<1>2. Nvim!TabsOK'
  <2>1. <<>> \in Seq(Tabs) /\ Len(<<>>) = 0 /\ ConnectionCap \in Nat
    BY EmptySeq, SuiteAssumptions DEF Nvim!SessionAssumption
  <2>2. QED
    BY <1>1, <2>1 DEF Nvim!TabsOK, Nvim!Finish
<1>3. PICK o, p, r, x, a : o = s2 /\ p = s4 /\ r = s5 /\ x = s6 /\ a = s7
  OBVIOUS
<1>4. AtRest(o, p, r, a) /\ x \in BOOLEAN
  BY <1>1, <1>3, RestHas
<1>5. p = <<>> /\ r = <<>>
  BY <1>3, <1>4 DEF AtRest, Nvim!Finish
<1>6. PICK v \in Nvim!Actor : v = Nvim!NoActor
  BY NobodyActs
<1>7. /\ v.life = "over" /\ v.queue = <<>> /\ v.accepted = 0 /\ v.refused = {}
      /\ v.pending = FALSE
  BY <1>6 DEF Nvim!NoActor
<1>8. PICK m : m = v.accepted - Len(v.queue)
  OBVIOUS
<1>9. QueueFits(v, m) /\ PipeFits(<<>>, <<>>, m) /\ <<>> \in Seq(Nvim!Numbers)
  BY <1>7, <1>8, NothingFits, EmptySeq
<1>10. s2' = v /\ s4' = <<>> /\ s5' = <<>> /\ s6' = x /\ s7' = <<>>
  BY <1>3, <1>5, <1>6 DEF Nvim!Finish
<1>11. Nvim!NeovimInv'
  BY <1>4, <1>7, <1>9, <1>10, NeovimEnds
<1>12. QED
  BY <1>2, <1>11 DEF Nvim!SessionInv

LEMMA NeovimQuits ==
  ASSUME Nvim!SessionInv, Nvim!Quit
  PROVE  Nvim!SessionInv'
<1>1. Nvim!NeovimInv /\ Nvim!TabsOK
  BY DEF Nvim!SessionInv
<1>2. Nvim!TabsOK'
  BY <1>1 DEF Nvim!TabsOK, Nvim!Quit
<1>3. PICK o \in Nvim!Actor : o = s2 /\ o.life = "serving"
  BY <1>1 DEF Nvim!Quit, Nvim!Serving, Nvim!NeovimInv, Nvim!ActorOK
<1>4. PICK q, r, x, a : q = s4 /\ r = s5 /\ x = s6 /\ a = s7
  OBVIOUS
<1>5. PICK k : k = o.accepted - Len(o.queue)
  OBVIOUS
<1>6. /\ a \in Seq(Nvim!Numbers) /\ PipeFits(q, a, k) /\ r \in Seq(Nvim!Answer) /\ QueueFits(o, k)
  BY <1>1, <1>3, <1>4, <1>5, PipeHas, RestHas, QueueHas
<1>7. PICK p \in Seq(Nvim!Messages) : p = <<>> /\ DOMAIN p = {}
  BY EmptySeq, NothingNumbered
<1>8. PipeFits(p, a, k) /\ AtRest(o, p, r, a) /\ TRUE \in BOOLEAN
  BY <1>3, <1>6, <1>7 DEF PipeFits, AtRest
<1>9. s2' = o /\ s4' = p /\ s5' = r /\ s6' = TRUE /\ s7' = a
  BY <1>3, <1>4, <1>7 DEF Nvim!Quit
<1>10. Nvim!NeovimInv'
  BY <1>5, <1>6, <1>8, <1>9, NeovimBecomes
<1>11. QED
  BY <1>2, <1>10 DEF Nvim!SessionInv

\* What is left of Neovim's input when it has carried one message out.
LEMMA PipeWithout ==
  ASSUME NEW q \in Seq(Nvim!Messages), NEW i \in DOMAIN q, NEW p, p = Nvim!RemoveAt(q, i)
  PROVE  /\ p \in Seq(Nvim!Messages)
         /\ \A j \in DOMAIN p : \E g \in DOMAIN q : g # i /\ p[j] = q[g]
         /\ \A j, l \in DOMAIN p : j < l => \E g, h \in DOMAIN q : g < h /\ p[j] = q[g] /\ p[l] = q[h]
         /\ \A g \in DOMAIN q : g = i \/ \E j \in DOMAIN p : p[j] = q[g]
         /\ Nvim!Numbered(q) = Nvim!Numbered(p) \cup ({q[i].n} \ {0})
<1>1. /\ p \in Seq(Nvim!Messages) /\ Len(p) = Len(q) - 1
      /\ \A j \in 1 .. Len(p) : p[j] = IF j < i THEN q[j] ELSE q[j + 1]
  BY SeqWithout
<1>2. Len(q) \in Nat /\ DOMAIN q = 1 .. Len(q) /\ DOMAIN p = 1 .. Len(q) - 1 /\ i \in 1 .. Len(q)
  BY <1>1, LenProperties
<1>3. \A j \in DOMAIN p : \E g \in DOMAIN q : g # i /\ p[j] = q[g]
  BY ONLY <1>1, <1>2
<1>4. \A j, l \in DOMAIN p : j < l => \E g, h \in DOMAIN q : g < h /\ p[j] = q[g] /\ p[l] = q[h]
  BY ONLY <1>1, <1>2
<1>5. ASSUME NEW g \in DOMAIN q, g # i PROVE \E j \in DOMAIN p : p[j] = q[g]
  <2>1. CASE g < i
    <3>1. g \in DOMAIN p /\ p[g] = q[g]
      BY <1>1, <1>2, <2>1
    <3>2. QED
      BY <3>1
  <2>2. CASE g > i
    <3>1. g - 1 \in DOMAIN p /\ p[g - 1] = q[g - 1 + 1] /\ g - 1 + 1 = g
      BY <1>1, <1>2, <2>2
    <3>2. QED
      BY <3>1
  <2>3. QED
    BY <1>2, <1>5, <2>1, <2>2
<1>6. Nvim!Numbered(q) = Nvim!Numbered(p) \cup ({q[i].n} \ {0})
  BY ONLY <1>1, q \in Seq(Nvim!Messages), i \in DOMAIN q, NumberedWithout
<1>7. QED
  BY <1>1, <1>3, <1>4, <1>5, <1>6

\* Keys that are taken, and a request carried out, come before every input left.
LEMMA CarriedOut ==
  ASSUME NEW q \in Seq(Nvim!Messages), NEW k \in Nat, NEW a \in Seq(Nvim!Numbers), PipeFits(q, a, k),
         NEW i \in DOMAIN q, NEW e, e = q[i], NEW p, p = Nvim!RemoveAt(q, i), NEW b,
         \/ e.kind = "attach" /\ b = a
         \/ e.kind = "keys" /\ b = Append(a, e.n) /\ \A g \in 1 .. i - 1 : q[g].kind # "keys"
         \/ e.kind \in {"paste", "open"} /\ b = Append(a, e.n) /\ i = 1
  PROVE  /\ p \in Seq(Nvim!Messages) /\ b \in Seq(Nvim!Numbers) /\ PipeFits(p, b, k)
         /\ Nvim!Range(b) \cup Nvim!Numbered(p) = Nvim!Range(a) \cup Nvim!Numbered(q)
<1>1. /\ p \in Seq(Nvim!Messages)
      /\ \A j \in DOMAIN p : \E g \in DOMAIN q : g # i /\ p[j] = q[g]
      /\ \A j, l \in DOMAIN p : j < l => \E g, h \in DOMAIN q : g < h /\ p[j] = q[g] /\ p[l] = q[h]
      /\ Nvim!Numbered(q) = Nvim!Numbered(p) \cup ({e.n} \ {0})
  BY PipeWithout
<1>2. /\ \A g \in DOMAIN q : IF q[g].kind # "attach" THEN q[g].n \in 1 .. k ELSE q[g].n = 0
      /\ \A g, h \in DOMAIN q : g < h /\ q[g].kind # "attach" /\ q[h].kind # "attach" =>
           q[g].kind = "keys" /\ q[g].n < q[h].n
      /\ \A j \in DOMAIN a : a[j] \in 1 .. k
      /\ \A j \in DOMAIN a, g \in DOMAIN q : q[g].kind # "attach" => a[j] < q[g].n
      /\ \A j, l \in DOMAIN a : j < l => a[j] < a[l]
  BY ONLY PipeFits(q, a, k) DEF PipeFits
<1>3. \A j \in DOMAIN p : IF p[j].kind # "attach" THEN p[j].n \in 1 .. k ELSE p[j].n = 0
  BY ONLY <1>1, <1>2
<1>4. \A j, l \in DOMAIN p : j < l /\ p[j].kind # "attach" /\ p[l].kind # "attach" =>
        p[j].kind = "keys" /\ p[j].n < p[l].n
  BY ONLY <1>1, <1>2
<1>5. \A j \in DOMAIN a, l \in DOMAIN p : p[l].kind # "attach" => a[j] < p[l].n
  BY ONLY <1>1, <1>2
<1>6. CASE e.kind = "attach" /\ b = a
  <2>1. PipeFits(p, b, k)
    BY ONLY <1>2, <1>3, <1>4, <1>5, <1>6 DEF PipeFits
  <2>2. e.n = 0
    BY <1>2, <1>6
  <2>3. Nvim!Numbered(q) = Nvim!Numbered(p)
    BY ONLY <1>1, <2>2
  <2>4. QED
    BY <1>1, <1>6, <2>1, <2>3
<1>7. CASE /\ e.kind # "attach" /\ b = Append(a, e.n)
           /\ \/ i = 1
              \/ e.kind = "keys" /\ \A g \in 1 .. i - 1 : q[g].kind # "keys"
  <2>1. e \in Nvim!Messages
    BY ONLY q \in Seq(Nvim!Messages), i \in DOMAIN q, e = q[i]
  <2>2. e.n \in Nvim!Numbers /\ e.n \in 1 .. k
    <3>1. e.n \in Nvim!Numbers
      BY ONLY <2>1 DEF Nvim!Messages
    <3>2. QED
      BY <1>2, <1>7, <3>1
  <2>3. PICK n \in Nvim!Numbers : n = e.n
    BY <2>2
  <2>4. /\ b \in Seq(Nvim!Numbers) /\ Len(b) = Len(a) + 1 /\ b[Len(a) + 1] = n
        /\ \A j \in 1 .. Len(a) : b[j] = a[j]
    BY <1>7, <2>3, SeqLonger
  <2>5. Len(a) \in Nat /\ DOMAIN a = 1 .. Len(a) /\ DOMAIN b = 1 .. Len(a) + 1
    BY <2>4, LenProperties
  <2>6. \A j \in DOMAIN b : (j \in DOMAIN a /\ b[j] = a[j]) \/ (j = Len(a) + 1 /\ b[j] = n)
    BY ONLY <2>4, <2>5
  <2>7. \A l \in DOMAIN p : p[l].kind # "attach" => n < p[l].n
    <3>1. SUFFICES ASSUME NEW l \in DOMAIN p, p[l].kind # "attach" PROVE n < p[l].n
      OBVIOUS
    <3>2. PICK g \in DOMAIN q : g # i /\ p[l] = q[g]
      BY <1>1
    <3>3. g \in Nat \ {0} /\ i \in Nat
      BY ONLY g \in DOMAIN q, i \in DOMAIN q, q \in Seq(Nvim!Messages), LenProperties
    <3>4. CASE i < g
      BY <1>2, <1>7, <2>3, <3>1, <3>2, <3>4
    <3>5. CASE g < i
      <4>1. q[g].kind = "keys"
        BY <1>2, <1>7, <3>1, <3>2, <3>5
      <4>2. g \in 1 .. i - 1 /\ i # 1
        BY ONLY <3>3, <3>5
      <4>3. QED
        BY <1>7, <4>1, <4>2
    <3>6. QED
      BY <3>2, <3>3, <3>4, <3>5
  <2>8. \A j \in DOMAIN b : b[j] \in 1 .. k
    BY ONLY <1>2, <2>2, <2>3, <2>6
  <2>9. \A j \in DOMAIN b, l \in DOMAIN p : p[l].kind # "attach" => b[j] < p[l].n
    BY ONLY <1>5, <2>6, <2>7
  <2>10. \A j \in DOMAIN a : a[j] < n
    BY ONLY <1>2, <1>7, <2>3, i \in DOMAIN q, e = q[i]
  <2>11. \A j, l \in DOMAIN b : j < l => b[j] < b[l]
    <3>1. SUFFICES ASSUME NEW j \in DOMAIN b, NEW l \in DOMAIN b, j < l PROVE b[j] < b[l]
      OBVIOUS
    <3>2. j \in DOMAIN a /\ b[j] = a[j]
      BY ONLY j \in DOMAIN b, l \in DOMAIN b, j < l, <2>4, <2>5
    <3>3. CASE l \in DOMAIN a /\ b[l] = a[l]
      BY ONLY <1>2, <3>2, <3>3, j < l
    <3>4. CASE b[l] = n
      BY ONLY <2>10, <3>2, <3>4
    <3>5. QED
      BY ONLY <2>6, <3>3, <3>4, l \in DOMAIN b
  <2>12. PipeFits(p, b, k)
    BY ONLY <1>3, <1>4, <2>8, <2>9, <2>11 DEF PipeFits
  <2>13. Nvim!Range(b) = Nvim!Range(a) \cup {n}
    BY <1>7, <2>3, RangeLonger
  <2>14. {e.n} \ {0} = {n}
    BY ONLY <2>2, <2>3
  <2>15. QED
    BY ONLY <1>1, <2>4, <2>12, <2>13, <2>14
<1>8. QED
  BY <1>6, <1>7

LEMMA MessageCarriedOut ==
  ASSUME Nvim!SessionInv, NEW i \in DOMAIN s4, Nvim!CarryOut(i)
  PROVE  Nvim!SessionInv'
<1>1. Nvim!NeovimInv /\ Nvim!TabsOK
  BY DEF Nvim!SessionInv
<1>2. Nvim!TabsOK'
  BY <1>1 DEF Nvim!TabsOK, Nvim!CarryOut
<1>3. PICK o, q, r, a : o = s2 /\ q = s4 /\ r = s5 /\ a = s7
  OBVIOUS
<1>4. PICK k : k = o.accepted - Len(o.queue)
  OBVIOUS
<1>5. /\ o \in Nvim!Actor /\ k \in Nat /\ QueueFits(o, k)
      /\ q \in Seq(Nvim!Messages) /\ a \in Seq(Nvim!Numbers) /\ PipeFits(q, a, k)
      /\ r \in Seq(Nvim!Answer) /\ AtRest(o, q, r, a)
  BY <1>1, <1>3, <1>4, QueueHas, PipeHas, RestHas
<1>6. i \in DOMAIN q /\ ~s6
  BY <1>3 DEF Nvim!CarryOut
<1>7. o.life = "serving"
  BY <1>5, <1>6, NothingNumbered DEF AtRest
<1>8. AtWork(o, q, r, a)
  BY <1>1, <1>3, <1>6, <1>7, WorkHas
<1>9. PICK e \in Nvim!Messages : e = q[i]
  BY <1>5, <1>6
<1>10. PICK p : p = Nvim!RemoveAt(q, i)
  OBVIOUS
<1>11. /\ p \in Seq(Nvim!Messages)
       /\ \A j \in DOMAIN p : \E g \in DOMAIN q : g # i /\ p[j] = q[g]
       /\ \A g \in DOMAIN q : g = i \/ \E j \in DOMAIN p : p[j] = q[g]
  BY <1>5, <1>6, <1>10, PipeWithout
<1>12. e.kind \in {"keys", "paste", "open", "attach"}
  BY DEF Nvim!Messages, Nvim!Kinds
<1>13. /\ \/ e.kind = "keys" /\ \A g \in 1 .. i - 1 : q[g].kind # "keys"
          \/ e.kind # "keys" /\ i = 1
       /\ s4' = p /\ s2' = o /\ s6' = FALSE
  BY <1>3, <1>6, <1>9, <1>10 DEF Nvim!CarryOut, Nvim!Fast, Nvim!Deferred
<1>14. PICK ok \in BOOLEAN :
         /\ s7' = IF e.kind \in {"keys", "paste", "open"} THEN Append(a, e.n) ELSE a
         /\ s5' = IF e.kind \in {"attach", "paste", "open"}
                  THEN Append(r, [to |-> e.kind, ok |-> ok]) ELSE r
  BY <1>3, <1>9 DEF Nvim!CarryOut
<1>15. PICK b : b = IF e.kind = "attach" THEN a ELSE Append(a, e.n)
  OBVIOUS
<1>16. s7' = b
  BY <1>12, <1>14, <1>15
<1>17. /\ p \in Seq(Nvim!Messages) /\ b \in Seq(Nvim!Numbers) /\ PipeFits(p, b, k)
       /\ Nvim!Range(b) \cup Nvim!Numbered(p) = Nvim!Range(a) \cup Nvim!Numbered(q)
  <2>1. \/ e.kind = "attach" /\ b = a
        \/ e.kind = "keys" /\ b = Append(a, e.n) /\ \A g \in 1 .. i - 1 : q[g].kind # "keys"
        \/ e.kind \in {"paste", "open"} /\ b = Append(a, e.n) /\ i = 1
    BY ONLY <1>12, <1>13, <1>15
  <2>2. QED
    BY <1>5, <1>6, <1>9, <1>10, <2>1, CarriedOut
<1>18. 1 .. o.accepted = Nvim!Range(b) \cup Nvim!Numbered(p) \cup Nvim!Numbered(o.queue) \cup o.refused
  BY ONLY <1>8, <1>17 DEF AtWork
<1>19. k = o.accepted - Len(o.queue) /\ FALSE \in BOOLEAN
  BY <1>4
<1>20. CASE e.kind = "keys"
  <2>1. s5' = r
    BY <1>14, <1>20
  <2>2. o.pending <=> \/ \E j \in DOMAIN p : p[j].kind \in {"paste", "open"}
                      \/ \E j \in DOMAIN r : r[j].to # "attach"
    BY <1>8, <1>9, <1>11, <1>20 DEF AtWork
  <2>3. \A j \in DOMAIN p, l \in DOMAIN r : p[j].kind \in {"paste", "open"} => r[l].to = "attach"
    BY <1>8, <1>11 DEF AtWork
  <2>4. AtWork(o, p, r, b)
    BY ONLY <1>8, <1>18, <2>2, <2>3 DEF AtWork
  <2>5. AtRest(o, p, r, b)
    BY <1>7 DEF AtRest
  <2>6. Nvim!NeovimInv'
    BY <1>5, <1>13, <1>16, <1>17, <1>19, <2>1, <2>4, <2>5, NeovimBecomes
  <2>7. QED
    BY <1>2, <2>6 DEF Nvim!SessionInv
<1>21. CASE e.kind # "keys"
  <2>1. PICK answer : answer = [to |-> e.kind, ok |-> ok]
    OBVIOUS
  <2>2. answer \in Nvim!Answer /\ answer.to = e.kind
    BY <1>12, <1>21, <2>1 DEF Nvim!Answer
  <2>3. PICK t : t = Append(r, answer)
    OBVIOUS
  <2>4. s5' = t
    BY <1>12, <1>14, <1>21, <2>1, <2>3
  <2>5. /\ t \in Seq(Nvim!Answer) /\ Len(t) = Len(r) + 1 /\ t[Len(r) + 1] = answer
        /\ \A j \in 1 .. Len(r) : t[j] = r[j]
    BY <1>5, <2>2, <2>3, SeqLonger
  <2>6. Len(r) \in Nat /\ DOMAIN r = 1 .. Len(r) /\ DOMAIN t = 1 .. Len(r) + 1
    BY <1>5, <2>5, LenProperties
  <2>7. /\ \A j \in DOMAIN t : (j \in DOMAIN r /\ t[j] = r[j]) \/ (j = Len(r) + 1 /\ t[j] = answer)
        /\ \A j \in DOMAIN r : j \in DOMAIN t /\ t[j] = r[j]
        /\ Len(r) + 1 \in DOMAIN t
    BY ONLY <2>5, <2>6
  <2>8. AtRest(o, p, t, b)
    BY <1>7 DEF AtRest
  <2>9. CASE e.kind = "attach"
    <3>1. o.pending <=> \/ \E j \in DOMAIN p : p[j].kind \in {"paste", "open"}
                        \/ \E j \in DOMAIN t : t[j].to # "attach"
      <4>1. (\E j \in DOMAIN p : p[j].kind \in {"paste", "open"})
              <=> (\E g \in DOMAIN q : q[g].kind \in {"paste", "open"})
        BY <1>9, <1>11, <2>9
      <4>2. (\E j \in DOMAIN t : t[j].to # "attach") <=> (\E j \in DOMAIN r : r[j].to # "attach")
        BY <2>2, <2>7, <2>9
      <4>3. QED
        BY ONLY <1>8, <4>1, <4>2 DEF AtWork
    <3>2. \A j \in DOMAIN p, l \in DOMAIN t : p[j].kind \in {"paste", "open"} => t[l].to = "attach"
      BY <1>8, <1>11, <2>2, <2>7, <2>9 DEF AtWork
    <3>3. \A j, l \in DOMAIN t : t[j].to # "attach" /\ t[l].to # "attach" => j = l
      BY <1>8, <2>2, <2>7, <2>9 DEF AtWork
    <3>4. AtWork(o, p, t, b)
      BY ONLY <1>18, <3>1, <3>2, <3>3 DEF AtWork
    <3>5. Nvim!NeovimInv'
      BY <1>5, <1>13, <1>16, <1>17, <1>19, <2>4, <2>5, <2>8, <3>4, NeovimBecomes
    <3>6. QED
      BY <1>2, <3>5 DEF Nvim!SessionInv
  <2>10. CASE e.kind \in {"paste", "open"}
    <3>1. i = 1
      BY <1>13, <1>21
    <3>2. \A j \in DOMAIN r : r[j].to = "attach"
      BY <1>6, <1>8, <1>9, <2>10 DEF AtWork
    <3>3. \A g \in DOMAIN q : g # i => q[g].kind = "attach"
      <4>1. \A g \in DOMAIN q : g \in Nat \ {0}
        BY <1>5, LenProperties
      <4>2. \A g \in DOMAIN q : i < g /\ q[g].kind # "attach" => q[i].kind = "keys"
        BY <1>5, <1>6, <1>9, <2>10 DEF PipeFits
      <4>3. QED
        BY <1>9, <1>21, <3>1, <4>1, <4>2
    <3>4. \A j \in DOMAIN p : p[j].kind = "attach"
      BY ONLY <1>11, <3>3
    <3>5. o.pending
      BY <1>6, <1>8, <1>9, <2>10 DEF AtWork
    <3>6. \E j \in DOMAIN t : t[j].to # "attach"
      BY <2>2, <2>5, <2>7, <2>10
    <3>7. o.pending <=> \/ \E j \in DOMAIN p : p[j].kind \in {"paste", "open"}
                        \/ \E j \in DOMAIN t : t[j].to # "attach"
      BY ONLY <3>5, <3>6
    <3>8. \A j \in DOMAIN p, l \in DOMAIN t : p[j].kind \in {"paste", "open"} => t[l].to = "attach"
      BY <3>4
    <3>9. \A j, l \in DOMAIN t : t[j].to # "attach" /\ t[l].to # "attach" => j = l
      BY <2>7, <3>2
    <3>10. AtWork(o, p, t, b)
      BY ONLY <1>18, <3>7, <3>8, <3>9 DEF AtWork
    <3>11. Nvim!NeovimInv'
      BY <1>5, <1>13, <1>16, <1>17, <1>19, <2>4, <2>5, <2>8, <3>10, NeovimBecomes
    <3>12. QED
      BY <1>2, <3>11 DEF Nvim!SessionInv
  <2>11. QED
    BY <1>12, <1>21, <2>9, <2>10
<1>22. QED
  BY <1>20, <1>21

LEMMA SessionStep ==
  ASSUME Nvim!SessionInv, [Nvim!Next]_(Nvim!vars)
  PROVE  Nvim!SessionInv'
<1>1. ASSUME NEW t \in Tabs, Nvim!Lookup(t) \/ Nvim!Send(t) \/ Nvim!SendFails(t) PROVE Nvim!SessionInv'
  BY <1>1, LookupLooksUp, SendSends
<1>2. CASE Nvim!Start
  BY <1>2, ActorStarts
<1>3. CASE Nvim!TakeOver
  BY <1>3, TabTakesOver
<1>4. CASE Nvim!Garbled \/ Nvim!SeeExit
  BY <1>4, GarbledEnds
<1>5. CASE Nvim!LoseTab
  BY <1>5, TabGoes
<1>6. CASE Nvim!Issue
  BY <1>6, InputIssued
<1>7. CASE Nvim!Reply
  BY <1>7, ReplyRead
<1>8. CASE Nvim!Finish
  BY <1>8, ActorFinishes
<1>9. ASSUME NEW kind \in Nvim!Kinds, Nvim!Accept(kind) PROVE Nvim!SessionInv'
  BY <1>9, TabTypes
<1>10. ASSUME NEW i \in DOMAIN s4, Nvim!CarryOut(i) PROVE Nvim!SessionInv'
  BY <1>10, MessageCarriedOut
<1>11. CASE Nvim!Quit
  BY <1>11, NeovimQuits
<1>12. CASE UNCHANGED Nvim!vars
  <2>1. Nvim!NeovimInv' /\ Nvim!TabsOK'
    BY <1>12, NeovimStays DEF Nvim!SessionInv, Nvim!TabsOK, Nvim!vars, Nvim!nvim
  <2>2. QED
    BY <2>1 DEF Nvim!SessionInv
<1>13. QED
  BY <1>1, <1>2, <1>3, <1>4, <1>5, <1>6, <1>7, <1>8, <1>9, <1>10, <1>11, <1>12 DEF
     Nvim!Next

\* Input takes effect in its order, gets lost neither to another tab nor without
\* one, and is held back exactly while a paste or a file is under way
\* (workspace/neovim.rs).
THEOREM ServerNeovim == SuiteSpec => []NeovimInputSound
<1> DEFINE Keeps == focus = "neovim" => Nvim!SessionInv
<1>1. SuiteInit => Keeps
  BY SessionBegins DEF SuiteInit, FocusInit
<1>2. Keeps /\ [SuiteNext]_suite => Keeps'
  <2> SUFFICES ASSUME Keeps, [SuiteNext]_suite, focus' = "neovim"
               PROVE  Nvim!SessionInv'
    OBVIOUS
  <2>1. Nvim!SessionInv
    BY DEF SuiteNext, suite
  <2>2. [Nvim!Next]_(Nvim!vars)
    BY DEF SuiteNext, FocusNext, suite, Nvim!vars, Nvim!nvim
  <2>3. QED
    BY <2>1, <2>2, SessionStep
<1>3. Keeps => NeovimInputSound
  BY DEF NeovimInputSound, Nvim!SessionInv, Nvim!NeovimInv
<1>4. QED
  BY <1>1, <1>2, <1>3, PTL DEF SuiteSpec

-----------------------------------------------------------------------------
(***************************************************************************)
(* Viewers of the desktop (PeerSession, DesktopScreens, DesktopCapture)    *)
(***************************************************************************)

\* A page and its session task understand each other however the page changes
\* its WebSocket, and leave nothing behind (desktop_webrtc/mod.rs, peer.rs); a
\* screen of the viewer stands for its monitor, and a new resolution is told as
\* it was asked for (desktop_api.rs); what is sent shows one whole desktop and,
\* at rest, the one that is (gpu.rs, video.rs).
THEOREM ServerViewers == SuiteSpec => []ViewersServed
<1> DEFINE Keeps ==
      /\ focus = "peers" => Peers!PeersInv
      /\ focus = "screens" => Screens!ScreensInv
      /\ focus = "capture" => Capture!CaptureInv
<1>1. SuiteInit => Keeps
  BY PeersInit, ScreensInit, CaptureInit DEF SuiteInit, FocusInit
<1>2. (focus = "peers" => Peers!PeersInv) /\ [SuiteNext]_suite => (focus = "peers" => Peers!PeersInv)'
  <2> SUFFICES ASSUME focus = "peers" => Peers!PeersInv, [SuiteNext]_suite, focus' = "peers"
               PROVE  Peers!PeersInv'
    OBVIOUS
  <2>1. Peers!PeersInv
    BY DEF SuiteNext, suite
  <2>2. [Peers!Next]_(Peers!vars)
    BY DEF SuiteNext, FocusNext, suite, Peers!vars
  <2>3. QED
    BY <2>1, <2>2, PeersStep
<1>3. (focus = "screens" => Screens!ScreensInv) /\ [SuiteNext]_suite => (focus = "screens" => Screens!ScreensInv)'
  <2> SUFFICES ASSUME focus = "screens" => Screens!ScreensInv, [SuiteNext]_suite, focus' = "screens"
               PROVE  Screens!ScreensInv'
    OBVIOUS
  <2>1. Screens!ScreensInv
    BY DEF SuiteNext, suite
  <2>2. [Screens!Next]_(Screens!vars)
    BY DEF SuiteNext, FocusNext, suite, Screens!vars
  <2>3. QED
    BY <2>1, <2>2, ScreensStep
<1>4. (focus = "capture" => Capture!CaptureInv) /\ [SuiteNext]_suite => (focus = "capture" => Capture!CaptureInv)'
  <2> SUFFICES ASSUME focus = "capture" => Capture!CaptureInv, [SuiteNext]_suite, focus' = "capture"
               PROVE  Capture!CaptureInv'
    OBVIOUS
  <2>1. Capture!CaptureInv
    BY DEF SuiteNext, suite
  <2>2. [Capture!Next]_(Capture!vars)
    BY DEF SuiteNext, FocusNext, suite, Capture!vars, Capture!bounds
  <2>3. QED
    BY <2>1, <2>2, CaptureStep
<1>5. Keeps /\ [SuiteNext]_suite => Keeps'
  BY <1>2, <1>3, <1>4
<1>6. Keeps => ViewersServed
  <2>1. Capture!CaptureInv => Capture!FramesWhole
    BY DEF Capture!CaptureInv
  <2>2. QED
    BY <2>1, PeersUnderstood, PeersGiven, ScreensTold, CaptureShows DEF ViewersServed
<1>7. QED
  BY <1>1, <1>5, <1>6, PTL DEF SuiteSpec

=============================================================================
