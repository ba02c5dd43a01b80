---------------------------- MODULE RequestProofs ----------------------------
(***************************************************************************)
(* Theorems of the suite about requests that meet others on the way: a     *)
(* shared refresh of the Git status (GitRefresh), logins and share links   *)
(* that are revoked meanwhile (Gateway), a file that changes while it is   *)
(* sent (StaticServing), the git commands of the workspace (GitActions)    *)
(* and the size control of a shared terminal (TerminalControl), for every  *)
(* number of requests, files and clients.                                  *)
(***************************************************************************)
EXTENDS MCServer, FiniteSetTheorems, SequenceTheorems, TLAPS

-----------------------------------------------------------------------------
(***************************************************************************)
(* GitRefresh.                                                             *)
(***************************************************************************)
LEMMA RefreshInit == Refresh!Init => Refresh!RefreshInv
  BY SuiteAssumptions
  DEF Refresh!Init, Refresh!RefreshInv, Refresh!TimesOK, Refresh!CallersOK,
      Refresh!NotesTrue, Refresh!AnswersCurrent, Refresh!RefreshAssumption,
      Refresh!Time, Refresh!Maybe, Refresh!Idle, Refresh!Backed

LEMMA RefreshStep ==
  ASSUME Refresh!RefreshInv, [Refresh!Next]_(Refresh!vars)
  PROVE  Refresh!RefreshInv'
<1>0. Refresh!RefreshAssumption
  BY SuiteAssumptions
<1> USE <1>0 DEF Refresh!RefreshInv, Refresh!TimesOK, Refresh!CallersOK,
      Refresh!NotesTrue, Refresh!AnswersCurrent, Refresh!RefreshAssumption,
      Refresh!Time, Refresh!Maybe, Refresh!times, Refresh!Backed, Refresh!LateEnough
<1>1. ASSUME NEW c \in Callers, \E kind \in {"auto", "interactive"}, fetch \in BOOLEAN : Refresh!Request(c, kind, fetch)
      PROVE  Refresh!RefreshInv'
  <2>0. PICK kind \in {"auto", "interactive"}, fetch \in BOOLEAN : Refresh!Request(c, kind, fetch)
    BY <1>1
  <2>1. Refresh!TimesOK'
    BY <2>0 DEF Refresh!Request
  <2>2. Refresh!CallersOK'
    BY <2>0 DEF Refresh!Request
  <2>3. Refresh!NotesTrue'
    BY <2>0 DEF Refresh!Request
  <2>4. Refresh!AnswersCurrent'
    BY <2>0 DEF Refresh!Request
  <2>5. QED
    BY <2>1, <2>2, <2>3, <2>4 DEF Refresh!RefreshInv
<1>2. ASSUME NEW c \in Callers, Refresh!Acquire(c)
      PROVE  Refresh!RefreshInv'
  <2>0. PICK stage \in {"answered", "discovering"} : s6' = [s6 EXCEPT ![c].stage = stage]
    BY ONLY <1>2 DEF Refresh!Acquire, Refresh!Enter
  <2>1. \A d \in Callers : s6'[d].requested = s6[d].requested /\ s6'[d].fetch = s6[d].fetch
    BY ONLY <2>0, Refresh!CallersOK DEF Refresh!CallersOK
  <2>2. \A d \in Callers \ {c} : s6'[d] = s6[d]
    BY ONLY <2>0, Refresh!CallersOK DEF Refresh!CallersOK
  <2>3. s6'[c].stage = "answered" => Refresh!Reusable(c)
    BY <1>2, <2>1, <2>2 DEF Refresh!Acquire, Refresh!Enter
  <2>4. UNCHANGED <<s1, s4, s5, s7, s8, s9>>
    BY <1>2, <2>1, <2>2, <2>3 DEF Refresh!Acquire
  <2>5. Refresh!TimesOK'
    BY <1>2 DEF Refresh!Acquire
  <2>6. Refresh!CallersOK'
    <3>1. s3' \in {s3, c}
      BY ONLY <1>2 DEF Refresh!Acquire
    <3>2. QED
      BY ONLY <2>0, <3>1, Refresh!CallersOK DEF Refresh!CallersOK
  <2>7. Refresh!NotesTrue'
    BY <2>1, <2>4
  <2>8. Refresh!AnswersCurrent'
    BY <2>1, <2>2, <2>3, <2>4 DEF Refresh!Reusable, Refresh!Current
  <2>9. QED
    BY <2>5, <2>6, <2>7, <2>8 DEF Refresh!RefreshInv
<1>3. ASSUME NEW c \in Callers, Refresh!Discover(c)
      PROVE  Refresh!RefreshInv'
  BY <1>3 DEF Refresh!Discover, Refresh!Enter, Refresh!gate
<1>4. ASSUME NEW c \in Callers, Refresh!Fetch(c)
      PROVE  Refresh!RefreshInv'
  BY <1>4 DEF Refresh!Fetch, Refresh!Enter, Refresh!gate
<1>5. ASSUME NEW c \in Callers, Refresh!Complete(c)
      PROVE  Refresh!RefreshInv'
  <2>1. Refresh!TimesOK'
    BY <1>5 DEF Refresh!Complete, Refresh!Noted, Refresh!Enter, Refresh!Pooled, Refresh!ReleasedBy
  <2>2. Refresh!CallersOK'
    BY <1>5 DEF Refresh!Complete, Refresh!Noted, Refresh!Enter, Refresh!Pooled, Refresh!ReleasedBy
  <2>3. Refresh!NotesTrue'
    BY <1>5 DEF Refresh!Complete, Refresh!Noted, Refresh!Enter, Refresh!Pooled, Refresh!ReleasedBy
  <2>4. Refresh!AnswersCurrent'
    BY <1>5 DEF Refresh!Complete, Refresh!Noted, Refresh!Enter, Refresh!Pooled, Refresh!ReleasedBy
  <2>5. QED
    BY <2>1, <2>2, <2>3, <2>4 DEF Refresh!RefreshInv
<1>5a. ASSUME NEW c \in Callers, Refresh!ListFails(c)
      PROVE  Refresh!RefreshInv'
  <2>1. Refresh!TimesOK'
    BY <1>5a DEF Refresh!ListFails, Refresh!Noted, Refresh!Enter, Refresh!Pooled, Refresh!ReleasedBy
  <2>2. Refresh!CallersOK'
    BY <1>5a DEF Refresh!ListFails, Refresh!Noted, Refresh!Enter, Refresh!Pooled, Refresh!ReleasedBy
  <2>3. Refresh!NotesTrue'
    BY <1>5a DEF Refresh!ListFails, Refresh!Noted, Refresh!Enter, Refresh!Pooled, Refresh!ReleasedBy
  <2>4. Refresh!AnswersCurrent'
    BY <1>5a DEF Refresh!ListFails, Refresh!Noted, Refresh!Enter, Refresh!Pooled, Refresh!ReleasedBy
  <2>5. QED
    BY <2>1, <2>2, <2>3, <2>4 DEF Refresh!RefreshInv
<1>6. ASSUME NEW c \in Callers, Refresh!GoAway(c)
      PROVE  Refresh!RefreshInv'
  BY <1>6 DEF Refresh!GoAway, Refresh!ReleasedBy, Refresh!Idle
<1>7. CASE Refresh!Tick
  BY <1>7 DEF Refresh!Tick, Refresh!gate
<1>8. CASE UNCHANGED Refresh!vars
  BY <1>8 DEF Refresh!vars, Refresh!gate, Refresh!times
<1>9. QED
  BY <1>1, <1>2, <1>3, <1>4, <1>5, <1>5a, <1>6, <1>7, <1>8 DEF Refresh!Next, Refresh!Work

\* Who is answered sees a snapshot of the kind it asked for, taken since it asked
\* or not longer before than it accepts, whatever leaders and clients that go away
\* do (state.rs:142-185).
THEOREM ServerRefresh == SuiteSpec => []RefreshAnswersCurrent
<1> DEFINE Keeps == focus = "refresh" => Refresh!RefreshInv
<1>1. SuiteInit => Keeps
  BY RefreshInit DEF SuiteInit, FocusInit
<1>2. Keeps /\ [SuiteNext]_suite => Keeps'
  <2> SUFFICES ASSUME Keeps, [SuiteNext]_suite, focus' = "refresh"
               PROVE  Refresh!RefreshInv'
    OBVIOUS
  <2>1. Refresh!RefreshInv
    BY DEF SuiteNext, suite
  <2>2. [Refresh!Next]_(Refresh!vars)
    BY DEF SuiteNext, FocusNext, suite, Refresh!vars, Refresh!gate, Refresh!times
  <2>3. QED
    BY <2>1, <2>2, RefreshStep
<1>3. Keeps => RefreshAnswersCurrent
  BY DEF RefreshAnswersCurrent, Refresh!RefreshInv
<1>4. QED
  BY <1>1, <1>2, <1>3, PTL DEF SuiteSpec

-----------------------------------------------------------------------------
(***************************************************************************)
(* Gateway.                                                                *)
(***************************************************************************)
\* What a lookup, or a deployment that is archived or not, makes of a request.
LEMMA GatewayLooked ==
  ASSUME NEW r \in Gate!Asked, NEW stage \in {"looking", "login"},
         NEW password \in Passwords \cup {Absent}
  PROVE  [r EXCEPT !.stage = stage, !.password = password] \in Gate!Asked
  BY DEF Gate!Asked

LEMMA GatewayEnabled ==
  ASSUME NEW r \in Gate!Asked, NEW archived \in BOOLEAN
  PROVE  [r EXCEPT !.enabled = @ \/ ~archived] \in Gate!Asked
  BY DEF Gate!Asked

LEMMA GatewayInit ==
  ASSUME Gate!Init
  PROVE  Gate!GatewayInv
<1>0. Gate!GatewayAssumption
  BY SuiteAssumptions
<1> USE <1>0 DEF Gate!Init, Gate!GatewayInv, Gate!TypeOK, Gate!ConfigsOK, Gate!SharesOK,
      Gate!ValuesOK, Gate!RequestsOK, Gate!HeldProved, Gate!PassedOpen, Gate!AlonePuts,
      Gate!AccessProved, Gate!DisabledRefused, Gate!SerialConfigAgrees,
      Gate!GatewayAssumption, Gate!Site, Gate!Locks, Gate!Times, Gate!Link, Gate!Value,
      Gate!Asked, Gate!Served, Gate!Passed, Gate!configs, Gate!shares, Gate!NoRequest,
      Gate!Closed, Gate!Live
<1>1. Gate!ConfigsOK
  <2>1. s2 \in Passwords
    BY ONLY Gate!Init, <1>0 DEF Gate!Init, Gate!GatewayAssumption
  <2>2. s3 = s2 /\ s5 = 0 /\ s4 = [p \in Putters |-> [stage |-> "idle", password |-> s2]]
    BY DEF Gate!Init
  <2>3. MaxPuts \in Nat
    BY ONLY <1>0 DEF Gate!GatewayAssumption
  <2>4. s4 \in [Putters -> [stage: {"idle", "saving", "writing", "publishing"}, password: Passwords]]
    BY ONLY <2>1, <2>2
  <2>5. s6 \in BOOLEAN /\ s13 \in BOOLEAN
    BY ONLY Gate!Init, Zenon DEF Gate!Init
  <2>6. QED
    BY ONLY <2>1, <2>2, <2>3, <2>4, <2>5 DEF Gate!ConfigsOK
<1>2. Gate!SharesOK
  OBVIOUS
<1>3. Gate!ValuesOK
  OBVIOUS
<1>4. Gate!RequestsOK
  OBVIOUS
<1>5. Gate!HeldProved
  OBVIOUS
<1>6. Gate!PassedOpen
  OBVIOUS
<1>7. Gate!AlonePuts
  OBVIOUS
<1>8. Gate!AccessProved
  OBVIOUS
<1>9. Gate!DisabledRefused
  OBVIOUS
<1>10. Gate!SerialConfigAgrees
  OBVIOUS
<1>11. QED
  BY <1>1, <1>2, <1>3, <1>4, <1>5, <1>6, <1>7, <1>8, <1>9, <1>10
  DEF Gate!GatewayInv, Gate!TypeOK

LEMMA GatewayStep ==
  ASSUME Gate!GatewayInv, [Gate!Next]_(Gate!vars)
  PROVE  Gate!GatewayInv'
<1>0. Gate!GatewayAssumption
  BY SuiteAssumptions
<1> USE <1>0 DEF Gate!GatewayInv, Gate!TypeOK, Gate!ConfigsOK, Gate!SharesOK,
      Gate!ValuesOK, Gate!RequestsOK, Gate!HeldProved, Gate!PassedOpen, Gate!AlonePuts,
      Gate!AccessProved, Gate!DisabledRefused, Gate!SerialConfigAgrees,
      Gate!GatewayAssumption, Gate!Site, Gate!Locks, Gate!Times, Gate!Link, Gate!Value,
      Gate!Asked, Gate!Served, Gate!Passed, Gate!configs, Gate!shares
<1>1. ASSUME NEW p \in Putters, \E password \in Passwords : Gate!Put(p, password)
      PROVE  Gate!GatewayInv'
  <2>0. PICK password \in Passwords : Gate!Put(p, password)
    BY <1>1
  <2>1. Gate!ConfigsOK'
    BY <2>0 DEF Gate!Put, Gate!Closed, Gate!Live
  <2>2. Gate!SharesOK'
    BY <2>0 DEF Gate!Put, Gate!Closed, Gate!Live
  <2>3. Gate!ValuesOK'
    BY <2>0 DEF Gate!Put, Gate!Closed, Gate!Live
  <2>4. Gate!RequestsOK'
    BY <2>0 DEF Gate!Put, Gate!Closed, Gate!Live
  <2>5. Gate!HeldProved'
    BY <2>0 DEF Gate!Put, Gate!Closed, Gate!Live
  <2>6. Gate!PassedOpen'
    BY <2>0 DEF Gate!Put, Gate!Closed, Gate!Live
  <2>7. Gate!AlonePuts'
    <3> SUFFICES ASSUME ~s6' PROVE Gate!AlonePuts'
      BY DEF Gate!AlonePuts
    <3>1. ~s6 /\ \A r \in Putters : s4[r].stage = "idle"
      BY <2>0 DEF Gate!Put
    <3>2. s3 = IF s13 THEN Absent ELSE s2
      BY ONLY <3>1, Gate!AlonePuts DEF Gate!AlonePuts
    <3>3. \A r \in Putters : s4'[r].stage \in {"idle", "saving"} /\ (r # p => s4'[r].stage = "idle")
      BY ONLY <3>1, <2>0, Gate!ConfigsOK DEF Gate!Put, Gate!ConfigsOK
    <3>4. UNCHANGED <<s2, s3, s13>>
      BY <2>0 DEF Gate!Put
    <3>5. QED
      BY ONLY <3>2, <3>3, <3>4 DEF Gate!AlonePuts
  <2>8. Gate!AccessProved'
    BY <2>0 DEF Gate!Put, Gate!Closed, Gate!Live
  <2>9. Gate!DisabledRefused'
    BY <2>0 DEF Gate!Put, Gate!Closed, Gate!Live
  <2>10. Gate!SerialConfigAgrees'
    BY <2>0 DEF Gate!Put, Gate!Closed, Gate!Live
  <2>11. QED
    BY <2>1, <2>2, <2>3, <2>4, <2>5, <2>6, <2>7, <2>8, <2>9, <2>10
    DEF Gate!GatewayInv, Gate!TypeOK
<1>2. ASSUME NEW p \in Putters, Gate!Truncate(p)
      PROVE  Gate!GatewayInv'
  <2>1. Gate!ConfigsOK'
    BY <1>2 DEF Gate!Truncate, Gate!Closed, Gate!Live
  <2>2. Gate!SharesOK'
    BY <1>2 DEF Gate!Truncate, Gate!Closed, Gate!Live
  <2>3. Gate!ValuesOK'
    BY <1>2 DEF Gate!Truncate, Gate!Closed, Gate!Live
  <2>4. Gate!RequestsOK'
    BY <1>2 DEF Gate!Truncate, Gate!Closed, Gate!Live
  <2>5. Gate!HeldProved'
    BY <1>2 DEF Gate!Truncate, Gate!Closed, Gate!Live
  <2>6. Gate!PassedOpen'
    BY <1>2 DEF Gate!Truncate, Gate!Closed, Gate!Live
  <2>7. Gate!AlonePuts'
    BY <1>2 DEF Gate!Truncate, Gate!Closed, Gate!Live
  <2>8. Gate!AccessProved'
    BY <1>2 DEF Gate!Truncate, Gate!Closed, Gate!Live
  <2>9. Gate!DisabledRefused'
    BY <1>2 DEF Gate!Truncate, Gate!Closed, Gate!Live
  <2>10. Gate!SerialConfigAgrees'
    BY <1>2 DEF Gate!Truncate, Gate!Closed, Gate!Live
  <2>11. QED
    BY <2>1, <2>2, <2>3, <2>4, <2>5, <2>6, <2>7, <2>8, <2>9, <2>10
    DEF Gate!GatewayInv, Gate!TypeOK
<1>3. ASSUME NEW p \in Putters, Gate!Save(p)
      PROVE  Gate!GatewayInv'
  <2>1. Gate!ConfigsOK'
    <3>1. s6' \in BOOLEAN /\ s13' \in BOOLEAN
      BY ONLY <1>3, Gate!ConfigsOK, Zenon DEF Gate!Save, Gate!ConfigsOK
    <3>2. QED
      BY ONLY <1>3, <3>1, Gate!ConfigsOK, p \in Putters DEF Gate!Save, Gate!ConfigsOK
  <2>2. Gate!SharesOK'
    BY <1>3 DEF Gate!Save, Gate!Closed, Gate!Live
  <2>3. Gate!ValuesOK'
    BY <1>3 DEF Gate!Save, Gate!Closed, Gate!Live
  <2>4. Gate!RequestsOK'
    BY <1>3 DEF Gate!Save, Gate!Closed, Gate!Live
  <2>5. Gate!HeldProved'
    BY <1>3 DEF Gate!Save, Gate!Closed, Gate!Live
  <2>6. Gate!PassedOpen'
    BY <1>3 DEF Gate!Save, Gate!Closed, Gate!Live
  <2>7. Gate!AlonePuts'
    BY <1>3 DEF Gate!Save, Gate!Closed, Gate!Live
  <2>8. Gate!AccessProved'
    BY <1>3 DEF Gate!Save, Gate!Closed, Gate!Live
  <2>9. Gate!DisabledRefused'
    BY <1>3 DEF Gate!Save, Gate!Closed, Gate!Live
  <2>10. Gate!SerialConfigAgrees'
    BY <1>3 DEF Gate!Save, Gate!Closed, Gate!Live
  <2>11. QED
    BY <2>1, <2>2, <2>3, <2>4, <2>5, <2>6, <2>7, <2>8, <2>9, <2>10
    DEF Gate!GatewayInv, Gate!TypeOK
<1>4. ASSUME NEW p \in Putters, Gate!SaveFails(p)
      PROVE  Gate!GatewayInv'
  <2>1. Gate!ConfigsOK'
    BY <1>4 DEF Gate!SaveFails, Gate!Closed, Gate!Live
  <2>2. Gate!SharesOK'
    BY <1>4 DEF Gate!SaveFails, Gate!Closed, Gate!Live
  <2>3. Gate!ValuesOK'
    BY <1>4 DEF Gate!SaveFails, Gate!Closed, Gate!Live
  <2>4. Gate!RequestsOK'
    BY <1>4 DEF Gate!SaveFails, Gate!Closed, Gate!Live
  <2>5. Gate!HeldProved'
    BY <1>4 DEF Gate!SaveFails, Gate!Closed, Gate!Live
  <2>6. Gate!PassedOpen'
    BY <1>4 DEF Gate!SaveFails, Gate!Closed, Gate!Live
  <2>7. Gate!AlonePuts'
    BY <1>4 DEF Gate!SaveFails, Gate!Closed, Gate!Live
  <2>8. Gate!AccessProved'
    BY <1>4 DEF Gate!SaveFails, Gate!Closed, Gate!Live
  <2>9. Gate!DisabledRefused'
    BY <1>4 DEF Gate!SaveFails, Gate!Closed, Gate!Live
  <2>10. Gate!SerialConfigAgrees'
    BY <1>4 DEF Gate!SaveFails, Gate!Closed, Gate!Live
  <2>11. QED
    BY <2>1, <2>2, <2>3, <2>4, <2>5, <2>6, <2>7, <2>8, <2>9, <2>10
    DEF Gate!GatewayInv, Gate!TypeOK
<1>4a. ASSUME NEW p \in Putters, Gate!WriteFails(p)
      PROVE  Gate!GatewayInv'
  <2>1. Gate!ConfigsOK'
    <3>1. s6' \in BOOLEAN /\ s13' \in BOOLEAN
      BY ONLY <1>4a, Gate!ConfigsOK, Zenon DEF Gate!WriteFails, Gate!ConfigsOK
    <3>2. QED
      BY ONLY <1>4a, <3>1, Gate!ConfigsOK, p \in Putters DEF Gate!WriteFails, Gate!ConfigsOK
  <2>2. Gate!SharesOK'
    BY <1>4a DEF Gate!WriteFails, Gate!Closed, Gate!Live
  <2>3. Gate!ValuesOK'
    BY <1>4a DEF Gate!WriteFails, Gate!Closed, Gate!Live
  <2>4. Gate!RequestsOK'
    BY <1>4a DEF Gate!WriteFails, Gate!Closed, Gate!Live
  <2>5. Gate!HeldProved'
    BY <1>4a DEF Gate!WriteFails, Gate!Closed, Gate!Live
  <2>6. Gate!PassedOpen'
    BY <1>4a DEF Gate!WriteFails, Gate!Closed, Gate!Live
  <2>7. Gate!AlonePuts'
    BY <1>4a DEF Gate!WriteFails, Gate!Closed, Gate!Live
  <2>8. Gate!AccessProved'
    BY <1>4a DEF Gate!WriteFails, Gate!Closed, Gate!Live
  <2>9. Gate!DisabledRefused'
    BY <1>4a DEF Gate!WriteFails, Gate!Closed, Gate!Live
  <2>10. Gate!SerialConfigAgrees'
    BY <1>4a DEF Gate!WriteFails, Gate!Closed, Gate!Live
  <2>11. QED
    BY <2>1, <2>2, <2>3, <2>4, <2>5, <2>6, <2>7, <2>8, <2>9, <2>10
    DEF Gate!GatewayInv, Gate!TypeOK
<1>5. ASSUME NEW p \in Putters, Gate!Publish(p)
      PROVE  Gate!GatewayInv'
  <2>1. Gate!ConfigsOK'
    BY <1>5 DEF Gate!Publish, Gate!Closed, Gate!Live
  <2>2. Gate!SharesOK'
    BY <1>5 DEF Gate!Publish, Gate!Closed, Gate!Live
  <2>3. Gate!ValuesOK'
    BY <1>5 DEF Gate!Publish, Gate!Closed, Gate!Live
  <2>4. Gate!RequestsOK'
    BY <1>5 DEF Gate!Publish, Gate!Closed, Gate!Live
  <2>5. Gate!HeldProved'
    BY <1>5 DEF Gate!Publish, Gate!Closed, Gate!Live
  <2>6. Gate!PassedOpen'
    BY <1>5 DEF Gate!Publish, Gate!Closed, Gate!Live
  <2>7. Gate!AlonePuts'
    BY <1>5 DEF Gate!Publish, Gate!Closed, Gate!Live
  <2>8. Gate!AccessProved'
    BY <1>5 DEF Gate!Publish, Gate!Closed, Gate!Live
  <2>9. Gate!DisabledRefused'
    BY <1>5 DEF Gate!Publish, Gate!Closed, Gate!Live
  <2>10. Gate!SerialConfigAgrees'
    BY <1>5 DEF Gate!Publish, Gate!Closed, Gate!Live
  <2>11. QED
    BY <2>1, <2>2, <2>3, <2>4, <2>5, <2>6, <2>7, <2>8, <2>9, <2>10
    DEF Gate!GatewayInv, Gate!TypeOK
<1>6. CASE Gate!Restart
  <2>1. Gate!ConfigsOK'
    BY <1>6 DEF Gate!Restart, Gate!NoRequest, Gate!Closed, Gate!Live
  <2>2. Gate!SharesOK'
    BY <1>6 DEF Gate!Restart, Gate!NoRequest, Gate!Closed, Gate!Live
  <2>3. Gate!ValuesOK'
    BY <1>6 DEF Gate!Restart, Gate!NoRequest, Gate!Closed, Gate!Live
  <2>4. Gate!RequestsOK'
    BY <1>6 DEF Gate!Restart, Gate!NoRequest, Gate!Closed, Gate!Live
  <2>5. Gate!HeldProved'
    BY <1>6 DEF Gate!Restart, Gate!NoRequest, Gate!Closed, Gate!Live
  <2>6. Gate!PassedOpen'
    BY <1>6 DEF Gate!Restart, Gate!NoRequest, Gate!Closed, Gate!Live
  <2>7. Gate!AlonePuts'
    BY <1>6 DEF Gate!Restart, Gate!NoRequest, Gate!Closed, Gate!Live
  <2>8. Gate!AccessProved'
    BY <1>6 DEF Gate!Restart, Gate!NoRequest, Gate!Closed, Gate!Live
  <2>9. Gate!DisabledRefused'
    BY <1>6 DEF Gate!Restart, Gate!NoRequest, Gate!Closed, Gate!Live
  <2>10. Gate!SerialConfigAgrees'
    BY <1>6 DEF Gate!Restart, Gate!NoRequest, Gate!Closed, Gate!Live
  <2>11. QED
    BY <2>1, <2>2, <2>3, <2>4, <2>5, <2>6, <2>7, <2>8, <2>9, <2>10
    DEF Gate!GatewayInv, Gate!TypeOK
<1>7. CASE Gate!DeleteDeployment
  <2>1. Gate!ConfigsOK'
    BY <1>7 DEF Gate!DeleteDeployment, Gate!Closed, Gate!Live
  <2>2. Gate!SharesOK'
    BY <1>7 DEF Gate!DeleteDeployment, Gate!Closed, Gate!Live
  <2>3. Gate!ValuesOK'
    BY <1>7 DEF Gate!DeleteDeployment, Gate!Closed, Gate!Live
  <2>4. Gate!RequestsOK'
    BY <1>7 DEF Gate!DeleteDeployment, Gate!Closed, Gate!Live
  <2>5. Gate!HeldProved'
    BY <1>7 DEF Gate!DeleteDeployment, Gate!Closed, Gate!Live
  <2>6. Gate!PassedOpen'
    BY <1>7 DEF Gate!DeleteDeployment, Gate!Closed, Gate!Live
  <2>7. Gate!AlonePuts'
    BY <1>7 DEF Gate!DeleteDeployment, Gate!Closed, Gate!Live
  <2>8. Gate!AccessProved'
    BY <1>7 DEF Gate!DeleteDeployment, Gate!Closed, Gate!Live
  <2>9. Gate!DisabledRefused'
    BY <1>7 DEF Gate!DeleteDeployment, Gate!Closed, Gate!Live
  <2>10. Gate!SerialConfigAgrees'
    BY <1>7 DEF Gate!DeleteDeployment, Gate!Closed, Gate!Live
  <2>11. QED
    BY <2>1, <2>2, <2>3, <2>4, <2>5, <2>6, <2>7, <2>8, <2>9, <2>10
    DEF Gate!GatewayInv, Gate!TypeOK
<1>8. CASE Gate!Tick
  <2>1. Gate!ConfigsOK'
    BY <1>8 DEF Gate!Tick, Gate!Closed, Gate!Live
  <2>2. Gate!SharesOK'
    BY <1>8 DEF Gate!Tick, Gate!Closed, Gate!Live
  <2>3. Gate!ValuesOK'
    BY <1>8 DEF Gate!Tick, Gate!Closed, Gate!Live
  <2>4. Gate!RequestsOK'
    BY <1>8 DEF Gate!Tick, Gate!Closed, Gate!Live
  <2>5. Gate!HeldProved'
    BY <1>8 DEF Gate!Tick, Gate!Closed, Gate!Live
  <2>6. Gate!PassedOpen'
    BY <1>8 DEF Gate!Tick, Gate!Closed, Gate!Live
  <2>7. Gate!AlonePuts'
    BY <1>8 DEF Gate!Tick, Gate!Closed, Gate!Live
  <2>8. Gate!AccessProved'
    BY <1>8 DEF Gate!Tick, Gate!Closed, Gate!Live
  <2>9. Gate!DisabledRefused'
    BY <1>8 DEF Gate!Tick, Gate!Closed, Gate!Live
  <2>10. Gate!SerialConfigAgrees'
    BY <1>8 DEF Gate!Tick, Gate!Closed, Gate!Live
  <2>11. QED
    BY <2>1, <2>2, <2>3, <2>4, <2>5, <2>6, <2>7, <2>8, <2>9, <2>10
    DEF Gate!GatewayInv, Gate!TypeOK
<1>9. ASSUME NEW password \in Passwords, Gate!LoginApi(password)
      PROVE  Gate!GatewayInv'
  <2>1. Gate!ConfigsOK'
    BY <1>9 DEF Gate!LoginApi, Gate!Prove, Gate!Key, Gate!Closed, Gate!Live
  <2>2. Gate!SharesOK'
    BY <1>9 DEF Gate!LoginApi, Gate!Prove, Gate!Key, Gate!Closed, Gate!Live
  <2>3. Gate!ValuesOK'
    BY <1>9 DEF Gate!LoginApi, Gate!Prove, Gate!Key, Gate!Closed, Gate!Live
  <2>4. Gate!RequestsOK'
    BY <1>9 DEF Gate!LoginApi, Gate!Prove, Gate!Key, Gate!Closed, Gate!Live
  <2>5. Gate!HeldProved'
    BY <1>9 DEF Gate!LoginApi, Gate!Prove, Gate!Key, Gate!Closed, Gate!Live
  <2>6. Gate!PassedOpen'
    BY <1>9 DEF Gate!LoginApi, Gate!Prove, Gate!Key, Gate!Closed, Gate!Live
  <2>7. Gate!AlonePuts'
    BY <1>9 DEF Gate!LoginApi, Gate!Prove, Gate!Key, Gate!Closed, Gate!Live
  <2>8. Gate!AccessProved'
    BY <1>9 DEF Gate!LoginApi, Gate!Prove, Gate!Key, Gate!Closed, Gate!Live
  <2>9. Gate!DisabledRefused'
    BY <1>9 DEF Gate!LoginApi, Gate!Prove, Gate!Key, Gate!Closed, Gate!Live
  <2>10. Gate!SerialConfigAgrees'
    BY <1>9 DEF Gate!LoginApi, Gate!Prove, Gate!Key, Gate!Closed, Gate!Live
  <2>11. QED
    BY <2>1, <2>2, <2>3, <2>4, <2>5, <2>6, <2>7, <2>8, <2>9, <2>10
    DEF Gate!GatewayInv, Gate!TypeOK
<1>10. ASSUME NEW k \in Tokens, \E password \in Passwords \cup {Absent}, expires \in Gate!Times \cup {Absent} :
        Gate!CreateShare(k, password, expires)
       PROVE  Gate!GatewayInv'
  <2>0. PICK password \in Passwords \cup {Absent}, expires \in Gate!Times \cup {Absent} :
           Gate!CreateShare(k, password, expires)
    BY <1>10
  <2>1. Gate!ConfigsOK'
    BY <2>0 DEF Gate!CreateShare, Gate!Closed, Gate!Live
  <2>2. Gate!SharesOK'
    BY <2>0 DEF Gate!CreateShare, Gate!Closed, Gate!Live
  <2>3. Gate!ValuesOK'
    BY <2>0 DEF Gate!CreateShare, Gate!Closed, Gate!Live
  <2>4. Gate!RequestsOK'
    BY <2>0 DEF Gate!CreateShare, Gate!Closed, Gate!Live
  <2>5. Gate!HeldProved'
    BY <2>0 DEF Gate!CreateShare, Gate!Closed, Gate!Live
  <2>6. Gate!PassedOpen'
    BY <2>0 DEF Gate!CreateShare, Gate!Closed, Gate!Live
  <2>7. Gate!AlonePuts'
    BY <2>0 DEF Gate!CreateShare, Gate!Closed, Gate!Live
  <2>8. Gate!AccessProved'
    BY <2>0 DEF Gate!CreateShare, Gate!Closed, Gate!Live
  <2>9. Gate!DisabledRefused'
    BY <2>0 DEF Gate!CreateShare, Gate!Closed, Gate!Live
  <2>10. Gate!SerialConfigAgrees'
    BY <2>0 DEF Gate!CreateShare, Gate!Closed, Gate!Live
  <2>11. QED
    BY <2>1, <2>2, <2>3, <2>4, <2>5, <2>6, <2>7, <2>8, <2>9, <2>10
    DEF Gate!GatewayInv, Gate!TypeOK
<1>11. ASSUME NEW k \in Tokens, Gate!DeleteShare(k)
       PROVE  Gate!GatewayInv'
  <2>1. Gate!ConfigsOK'
    BY <1>11 DEF Gate!DeleteShare, Gate!Closed, Gate!Live
  <2>2. Gate!SharesOK'
    BY <1>11 DEF Gate!DeleteShare, Gate!Closed, Gate!Live
  <2>3. Gate!ValuesOK'
    BY <1>11 DEF Gate!DeleteShare, Gate!Closed, Gate!Live
  <2>4. Gate!RequestsOK'
    BY <1>11 DEF Gate!DeleteShare, Gate!Closed, Gate!Live
  <2>5. Gate!HeldProved'
    BY <1>11 DEF Gate!DeleteShare, Gate!Closed, Gate!Live
  <2>6. Gate!PassedOpen'
    BY <1>11 DEF Gate!DeleteShare, Gate!Closed, Gate!Live
  <2>7. Gate!AlonePuts'
    BY <1>11 DEF Gate!DeleteShare, Gate!Closed, Gate!Live
  <2>8. Gate!AccessProved'
    BY <1>11 DEF Gate!DeleteShare, Gate!Closed, Gate!Live
  <2>9. Gate!DisabledRefused'
    BY <1>11 DEF Gate!DeleteShare, Gate!Closed, Gate!Live
  <2>10. Gate!SerialConfigAgrees'
    BY <1>11 DEF Gate!DeleteShare, Gate!Closed, Gate!Live
  <2>11. QED
    BY <2>1, <2>2, <2>3, <2>4, <2>5, <2>6, <2>7, <2>8, <2>9, <2>10
    DEF Gate!GatewayInv, Gate!TypeOK
<1>12. ASSUME NEW archived \in BOOLEAN, Gate!SetArchived(archived)
       PROVE  Gate!GatewayInv'
  <2>1. UNCHANGED <<s1, s7, s8, s12>> /\ (s9' = "enabled" => ~archived)
    BY <1>12 DEF Gate!SetArchived
  <2>2. \A q \in Requests : s10'[q] = [s10[q] EXCEPT !.enabled = @ \/ ~archived]
    BY <1>12, <2>1 DEF Gate!SetArchived
  <2>3. Gate!ConfigsOK'
    BY <1>12, <2>1, <2>2 DEF Gate!SetArchived, Gate!Closed, Gate!Live
  <2>4. Gate!SharesOK'
    BY <1>12, <2>1, <2>2 DEF Gate!SetArchived, Gate!Closed, Gate!Live
  <2>5. Gate!ValuesOK'
    BY <1>12, <2>1, <2>2 DEF Gate!SetArchived, Gate!Closed, Gate!Live
  <2>6. Gate!RequestsOK'
    <3> HIDE DEF Gate!Asked
    <3>1. ASSUME NEW q \in Requests
          PROVE  [s10[q] EXCEPT !.enabled = @ \/ ~archived] \in Gate!Asked
      BY GatewayEnabled
    <3>2. QED
      BY <1>12, <3>1 DEF Gate!SetArchived
  <2>7. Gate!HeldProved'
    BY <1>12, <2>1, <2>2 DEF Gate!SetArchived, Gate!Closed, Gate!Live
  <2>8. Gate!PassedOpen'
    <3>1. ASSUME NEW q \in Requests
          PROVE  /\ s10'[q].stage = s10[q].stage /\ s10'[q].lock = s10[q].lock
                 /\ s10'[q].closed = s10[q].closed /\ s10'[q].password = s10[q].password
                 /\ s10'[q].enabled = (s10[q].enabled \/ ~archived)
      BY ONLY <2>2, Gate!RequestsOK, q \in Requests DEF Gate!RequestsOK, Gate!Asked
    <3>2. QED
      BY ONLY <2>1, <3>1, Gate!PassedOpen DEF Gate!PassedOpen, Gate!Passed, Gate!Closed, Gate!Live
  <2>9. Gate!AlonePuts'
    BY <1>12, <2>1, <2>2 DEF Gate!SetArchived, Gate!Closed, Gate!Live
  <2>10. Gate!AccessProved'
    BY <1>12, <2>1, <2>2 DEF Gate!SetArchived, Gate!Closed, Gate!Live
  <2>11. Gate!DisabledRefused'
    BY <1>12, <2>1, <2>2 DEF Gate!SetArchived, Gate!Closed, Gate!Live
  <2>12. Gate!SerialConfigAgrees'
    BY <1>12, <2>1, <2>2 DEF Gate!SetArchived, Gate!Closed, Gate!Live
  <2>13. QED
    BY <2>3, <2>4, <2>5, <2>6, <2>7, <2>8, <2>9, <2>10, <2>11, <2>12
    DEF Gate!GatewayInv, Gate!TypeOK
<1>13. ASSUME NEW q \in Requests, \E lock \in Gate!Locks, stage \in {"begun", "posted"} : Gate!Begin(q, lock, stage)
       PROVE  Gate!GatewayInv'
  <2>0. PICK lock \in Gate!Locks, stage \in {"begun", "posted"} : Gate!Begin(q, lock, stage)
    BY <1>13
  <2>1. Gate!ConfigsOK'
    BY <2>0 DEF Gate!Begin, Gate!NoRequest, Gate!Closed, Gate!Live
  <2>2. Gate!SharesOK'
    BY <2>0 DEF Gate!Begin, Gate!NoRequest, Gate!Closed, Gate!Live
  <2>3. Gate!ValuesOK'
    BY <2>0 DEF Gate!Begin, Gate!NoRequest, Gate!Closed, Gate!Live
  <2>4. Gate!RequestsOK'
    BY <2>0 DEF Gate!Begin, Gate!NoRequest, Gate!Closed, Gate!Live
  <2>5. Gate!HeldProved'
    BY <2>0 DEF Gate!Begin, Gate!NoRequest, Gate!Closed, Gate!Live
  <2>6. Gate!PassedOpen'
    <3>1. /\ s10'[q].stage = stage /\ s10'[q].lock = lock
          /\ s10'[q].closed => lock # Gate!Site /\ Gate!Closed(lock)
          /\ s9 = "enabled" => s10'[q].enabled
      BY ONLY <2>0, Gate!RequestsOK, q \in Requests DEF Gate!RequestsOK, Gate!Begin, Gate!NoRequest
    <3>2. \A r \in Requests \ {q} : s10'[r] = s10[r]
      BY ONLY <2>0, Gate!RequestsOK, q \in Requests DEF Gate!RequestsOK, Gate!Begin
    <3>3. UNCHANGED <<s1, s7, s8, s9, s12>>
      BY <2>0 DEF Gate!Begin
    <3>4. Gate!Passed(q)'
      BY ONLY <3>1, <3>3, stage \in {"begun", "posted"} DEF Gate!Passed, Gate!Closed, Gate!Live
    <3>5. ASSUME NEW r \in Requests \ {q}
          PROVE  Gate!Passed(r)'
      BY ONLY <3>2, <3>3, Gate!PassedOpen, r \in Requests \ {q}
      DEF Gate!PassedOpen, Gate!Passed, Gate!Closed, Gate!Live
    <3>6. QED
      BY <3>4, <3>5 DEF Gate!PassedOpen
  <2>7. Gate!AlonePuts'
    BY <2>0 DEF Gate!Begin, Gate!NoRequest, Gate!Closed, Gate!Live
  <2>8. Gate!AccessProved'
    BY <2>0 DEF Gate!Begin, Gate!NoRequest, Gate!Closed, Gate!Live
  <2>9. Gate!DisabledRefused'
    BY <2>0 DEF Gate!Begin, Gate!NoRequest, Gate!Closed, Gate!Live
  <2>10. Gate!SerialConfigAgrees'
    BY <2>0 DEF Gate!Begin, Gate!NoRequest, Gate!Closed, Gate!Live
  <2>11. QED
    BY <2>1, <2>2, <2>3, <2>4, <2>5, <2>6, <2>7, <2>8, <2>9, <2>10
    DEF Gate!GatewayInv, Gate!TypeOK
<1>14. ASSUME NEW q \in Requests, Gate!Handle(q)
       PROVE  Gate!GatewayInv'
  <2>1. CASE Gate!LookSite(q)
    <3>1. Gate!ConfigsOK'
      BY <2>1 DEF Gate!LookSite, Gate!Closed, Gate!Live
    <3>2. Gate!SharesOK'
      BY <2>1 DEF Gate!LookSite, Gate!Closed, Gate!Live
    <3>3. Gate!ValuesOK'
      BY <2>1 DEF Gate!LookSite, Gate!Closed, Gate!Live
    <3>4. Gate!RequestsOK'
      <4> HIDE DEF Gate!Asked
      <4>1. s10[q] \in Gate!Asked
        OBVIOUS
      <4>2. PICK stage \in {"looking", "login"} :
              s10' = [s10 EXCEPT ![q] = [s10[q] EXCEPT !.stage = stage, !.password = s2]]
        BY <2>1 DEF Gate!LookSite
      <4>3. [s10[q] EXCEPT !.stage = stage, !.password = s2] \in Gate!Asked
        BY <4>1, GatewayLooked
      <4>4. QED
        BY <4>2, <4>3
    <3>5. Gate!HeldProved'
      BY <2>1 DEF Gate!LookSite, Gate!Closed, Gate!Live
    <3>6. Gate!PassedOpen'
      BY <2>1 DEF Gate!LookSite, Gate!Closed, Gate!Live
    <3>7. Gate!AlonePuts'
      BY <2>1 DEF Gate!LookSite, Gate!Closed, Gate!Live
    <3>8. Gate!AccessProved'
      BY <2>1 DEF Gate!LookSite, Gate!Closed, Gate!Live
    <3>9. Gate!DisabledRefused'
      BY <2>1 DEF Gate!LookSite, Gate!Closed, Gate!Live
    <3>10. Gate!SerialConfigAgrees'
      BY <2>1 DEF Gate!LookSite, Gate!Closed, Gate!Live
    <3>11. QED
      BY <3>1, <3>2, <3>3, <3>4, <3>5, <3>6, <3>7, <3>8, <3>9, <3>10
      DEF Gate!GatewayInv, Gate!TypeOK
  <2>2. CASE Gate!LookShare(q)
    <3>1. Gate!ConfigsOK'
      BY <2>2 DEF Gate!LookShare, Gate!Answer, Gate!IsExpired, Gate!Closed, Gate!Live
    <3>2. Gate!SharesOK'
      BY <2>2 DEF Gate!LookShare, Gate!Answer, Gate!IsExpired, Gate!Closed, Gate!Live
    <3>3. Gate!ValuesOK'
      BY <2>2 DEF Gate!LookShare, Gate!Answer, Gate!IsExpired, Gate!Closed, Gate!Live
    <3>4. Gate!RequestsOK'
      BY <2>2 DEF Gate!LookShare, Gate!Answer, Gate!IsExpired, Gate!Closed, Gate!Live
    <3>5. Gate!HeldProved'
      BY <2>2 DEF Gate!LookShare, Gate!Answer, Gate!IsExpired, Gate!Closed, Gate!Live
    <3>6. Gate!PassedOpen'
      BY ONLY <2>2, <1>0, Gate!PassedOpen, Gate!RequestsOK, Gate!SharesOK, q \in Requests, SMTT(60)
      DEF Gate!PassedOpen, Gate!Passed, Gate!RequestsOK, Gate!SharesOK, Gate!Asked, Gate!Link,
          Gate!GatewayAssumption, Gate!Site, Gate!LookShare, Gate!Answer, Gate!IsExpired,
          Gate!Closed, Gate!Live
    <3>7. Gate!AlonePuts'
      BY <2>2 DEF Gate!LookShare, Gate!Answer, Gate!IsExpired, Gate!Closed, Gate!Live
    <3>8. Gate!AccessProved'
      BY <2>2 DEF Gate!LookShare, Gate!Answer, Gate!IsExpired, Gate!Closed, Gate!Live
    <3>9. Gate!DisabledRefused'
      BY <2>2 DEF Gate!LookShare, Gate!Answer, Gate!IsExpired, Gate!Closed, Gate!Live
    <3>10. Gate!SerialConfigAgrees'
      BY <2>2 DEF Gate!LookShare, Gate!Answer, Gate!IsExpired, Gate!Closed, Gate!Live
    <3>11. QED
      BY <3>1, <3>2, <3>3, <3>4, <3>5, <3>6, <3>7, <3>8, <3>9, <3>10
      DEF Gate!GatewayInv, Gate!TypeOK
  <2>3. CASE Gate!Authenticate(q)
    <3>1. Gate!ConfigsOK'
      BY <2>3
      DEF Gate!Authenticate, Gate!Accepted, Gate!Answer, Gate!Key, Gate!Closed,
          Gate!Live
    <3>2. Gate!SharesOK'
      BY <2>3
      DEF Gate!Authenticate, Gate!Accepted, Gate!Answer, Gate!Key, Gate!Closed,
          Gate!Live
    <3>3. Gate!ValuesOK'
      BY <2>3
      DEF Gate!Authenticate, Gate!Accepted, Gate!Answer, Gate!Key, Gate!Closed,
          Gate!Live
    <3>4. Gate!RequestsOK'
      BY <2>3
      DEF Gate!Authenticate, Gate!Accepted, Gate!Answer, Gate!Key, Gate!Closed,
          Gate!Live
    <3>5. Gate!HeldProved'
      BY <2>3
      DEF Gate!Authenticate, Gate!Accepted, Gate!Answer, Gate!Key, Gate!Closed,
          Gate!Live
    <3>6. Gate!PassedOpen'
      BY <2>3
      DEF Gate!Authenticate, Gate!Accepted, Gate!Answer, Gate!Key, Gate!Closed,
          Gate!Live
    <3>7. Gate!AlonePuts'
      BY <2>3
      DEF Gate!Authenticate, Gate!Accepted, Gate!Answer, Gate!Key, Gate!Closed,
          Gate!Live
    <3>8. Gate!AccessProved'
      BY <2>3
      DEF Gate!Authenticate, Gate!Accepted, Gate!Answer, Gate!Key, Gate!Closed,
          Gate!Live
    <3>9. Gate!DisabledRefused'
      BY <2>3
      DEF Gate!Authenticate, Gate!Accepted, Gate!Answer, Gate!Key, Gate!Closed,
          Gate!Live
    <3>10. Gate!SerialConfigAgrees'
      BY <2>3
      DEF Gate!Authenticate, Gate!Accepted, Gate!Answer, Gate!Key, Gate!Closed,
          Gate!Live
    <3>11. QED
      BY <3>1, <3>2, <3>3, <3>4, <3>5, <3>6, <3>7, <3>8, <3>9, <3>10
      DEF Gate!GatewayInv, Gate!TypeOK
  <2>4. CASE Gate!Challenge(q)
    <3>1. Gate!ConfigsOK'
      BY <2>4 DEF Gate!Challenge, Gate!Answer, Gate!Closed, Gate!Live
    <3>2. Gate!SharesOK'
      BY <2>4 DEF Gate!Challenge, Gate!Answer, Gate!Closed, Gate!Live
    <3>3. Gate!ValuesOK'
      BY <2>4 DEF Gate!Challenge, Gate!Answer, Gate!Closed, Gate!Live
    <3>4. Gate!RequestsOK'
      BY <2>4 DEF Gate!Challenge, Gate!Answer, Gate!Closed, Gate!Live
    <3>5. Gate!HeldProved'
      BY <2>4 DEF Gate!Challenge, Gate!Answer, Gate!Closed, Gate!Live
    <3>6. Gate!PassedOpen'
      BY <2>4 DEF Gate!Challenge, Gate!Answer, Gate!Closed, Gate!Live
    <3>7. Gate!AlonePuts'
      BY <2>4 DEF Gate!Challenge, Gate!Answer, Gate!Closed, Gate!Live
    <3>8. Gate!AccessProved'
      BY <2>4 DEF Gate!Challenge, Gate!Answer, Gate!Closed, Gate!Live
    <3>9. Gate!DisabledRefused'
      BY <2>4 DEF Gate!Challenge, Gate!Answer, Gate!Closed, Gate!Live
    <3>10. Gate!SerialConfigAgrees'
      BY <2>4 DEF Gate!Challenge, Gate!Answer, Gate!Closed, Gate!Live
    <3>11. QED
      BY <3>1, <3>2, <3>3, <3>4, <3>5, <3>6, <3>7, <3>8, <3>9, <3>10
      DEF Gate!GatewayInv, Gate!TypeOK
  <2>5. CASE Gate!Serve(q)
    <3>1. Gate!ConfigsOK'
      BY <2>5 DEF Gate!Serve, Gate!Answer, Gate!Closed, Gate!Live
    <3>2. Gate!SharesOK'
      BY <2>5 DEF Gate!Serve, Gate!Answer, Gate!Closed, Gate!Live
    <3>3. Gate!ValuesOK'
      BY <2>5 DEF Gate!Serve, Gate!Answer, Gate!Closed, Gate!Live
    <3>4. Gate!RequestsOK'
      BY <2>5 DEF Gate!Serve, Gate!Answer, Gate!Closed, Gate!Live
    <3>5. Gate!HeldProved'
      BY <2>5 DEF Gate!Serve, Gate!Answer, Gate!Closed, Gate!Live
    <3>6. Gate!PassedOpen'
      BY <2>5 DEF Gate!Serve, Gate!Answer, Gate!Closed, Gate!Live
    <3>7. Gate!AlonePuts'
      BY <2>5 DEF Gate!Serve, Gate!Answer, Gate!Closed, Gate!Live
    <3>8. Gate!AccessProved'
      BY <2>5 DEF Gate!Serve, Gate!Answer, Gate!Closed, Gate!Live
    <3>9. Gate!DisabledRefused'
      <4>1. ~s10[q].closed /\ (s9 = "enabled" => s10[q].enabled)
        BY <2>5 DEF Gate!Serve
      <4>2. /\ s10'[q].closed = s10[q].closed /\ s10'[q].enabled = s10[q].enabled
            /\ s10'[q].stage = "served" => s9 = "enabled"
        BY ONLY <2>5, Gate!RequestsOK, q \in Requests
        DEF Gate!RequestsOK, Gate!Asked, Gate!Serve, Gate!Answer
      <4>3. \A r \in Requests \ {q} : s10'[r] = s10[r]
        BY ONLY <2>5, Gate!RequestsOK, q \in Requests DEF Gate!RequestsOK, Gate!Serve, Gate!Answer
      <4>4. SUFFICES ASSUME NEW r \in Requests, Gate!Served(r)', s10'[r].lock # Gate!Site
                     PROVE  (~s10[r].closed /\ s10[r].enabled)'
        BY DEF Gate!DisabledRefused
      <4>5. CASE r = q
        BY ONLY <4>1, <4>2, <4>4, <4>5 DEF Gate!Served
      <4>6. CASE r # q
        BY ONLY <4>3, <4>4, <4>6, Gate!DisabledRefused DEF Gate!DisabledRefused, Gate!Served
      <4>7. QED
        BY <4>5, <4>6
    <3>10. Gate!SerialConfigAgrees'
      BY <2>5 DEF Gate!Serve, Gate!Answer, Gate!Closed, Gate!Live
    <3>11. QED
      BY <3>1, <3>2, <3>3, <3>4, <3>5, <3>6, <3>7, <3>8, <3>9, <3>10
      DEF Gate!GatewayInv, Gate!TypeOK
  <2>6. CASE \E password \in Passwords : Gate!SubmitSite(q, password) \/ Gate!SubmitShare(q, password)
    <3>0. PICK password \in Passwords : Gate!Submit(q, password) /\ s10[q].stage = "login"
      BY <2>6 DEF Gate!SubmitSite, Gate!SubmitShare
    <3>1. UNCHANGED <<s1, s7, s8, s9>> /\ s12 \subseteq s12'
      BY <3>0 DEF Gate!Submit, Gate!Prove
    <3>2. s10' \in {[s10 EXCEPT ![q] = Gate!NoRequest], [s10 EXCEPT ![q].stage = "refused"]}
      BY <3>0, <3>1 DEF Gate!Submit, Gate!Answer
    <3>3. Gate!ConfigsOK'
      BY <3>0, <3>1, <3>2
      DEF Gate!Submit, Gate!Answer, Gate!Prove, Gate!Key, Gate!NoRequest, Gate!Closed,
          Gate!Live
    <3>4. Gate!SharesOK'
      BY <3>0, <3>1, <3>2
      DEF Gate!Submit, Gate!Answer, Gate!Prove, Gate!Key, Gate!NoRequest, Gate!Closed,
          Gate!Live
    <3>5. Gate!ValuesOK'
      BY <3>0, <3>1, <3>2
      DEF Gate!Submit, Gate!Answer, Gate!Prove, Gate!Key, Gate!NoRequest, Gate!Closed,
          Gate!Live
    <3>6. Gate!RequestsOK'
      <4>1. Gate!NoRequest \in Gate!Asked
        BY DEF Gate!NoRequest
      <4>2. CASE s10' = [s10 EXCEPT ![q] = Gate!NoRequest]
        BY <4>1, <4>2
      <4>3. CASE s10' = [s10 EXCEPT ![q].stage = "refused"]
        BY <4>3
      <4>4. QED
        BY <3>2, <4>2, <4>3
    <3>7. Gate!HeldProved'
      BY <3>0, <3>1, <3>2
      DEF Gate!Submit, Gate!Answer, Gate!Prove, Gate!Key, Gate!NoRequest, Gate!Closed,
          Gate!Live
    <3>8. Gate!PassedOpen'
      <4>1. CASE s10' = [s10 EXCEPT ![q] = Gate!NoRequest]
        BY ONLY <4>1, <3>1, Gate!PassedOpen, Gate!RequestsOK, q \in Requests
        DEF Gate!PassedOpen, Gate!Passed, Gate!RequestsOK, Gate!NoRequest, Gate!Closed, Gate!Live
      <4>2. CASE s10' = [s10 EXCEPT ![q].stage = "refused"]
        BY ONLY <4>2, <3>0, <3>1, Gate!PassedOpen, Gate!RequestsOK, q \in Requests
        DEF Gate!PassedOpen, Gate!Passed, Gate!RequestsOK, Gate!Asked, Gate!Closed, Gate!Live
      <4>3. QED
        BY <3>2, <4>1, <4>2
    <3>9. Gate!AlonePuts'
      BY <3>0, <3>1, <3>2
      DEF Gate!Submit, Gate!Answer, Gate!Prove, Gate!Key, Gate!NoRequest, Gate!Closed,
          Gate!Live
    <3>10. Gate!AccessProved'
      <4>1. CASE s10' = [s10 EXCEPT ![q] = Gate!NoRequest]
        BY ONLY <4>1, <3>1, Gate!AccessProved, Gate!RequestsOK, q \in Requests
        DEF Gate!AccessProved, Gate!Served, Gate!RequestsOK, Gate!NoRequest
      <4>2. CASE s10' = [s10 EXCEPT ![q].stage = "refused"]
        BY ONLY <4>2, <3>1, Gate!AccessProved, Gate!RequestsOK, q \in Requests
        DEF Gate!AccessProved, Gate!Served, Gate!RequestsOK, Gate!Asked
      <4>3. QED
        BY <3>2, <4>1, <4>2
    <3>11. Gate!DisabledRefused'
      BY <3>0, <3>1, <3>2
      DEF Gate!Submit, Gate!Answer, Gate!Prove, Gate!Key, Gate!NoRequest, Gate!Closed,
          Gate!Live
    <3>12. Gate!SerialConfigAgrees'
      BY <3>0, <3>1, <3>2
      DEF Gate!Submit, Gate!Answer, Gate!Prove, Gate!Key, Gate!NoRequest, Gate!Closed,
          Gate!Live
    <3>13. QED
      BY <3>3, <3>4, <3>5, <3>6, <3>7, <3>8, <3>9, <3>10, <3>11, <3>12
      DEF Gate!GatewayInv, Gate!TypeOK
  <2>7. QED
    BY <1>14, <2>1, <2>2, <2>3, <2>4, <2>5, <2>6 DEF Gate!Handle
<1>15. CASE UNCHANGED Gate!vars
  BY <1>15 DEF Gate!vars, Gate!Closed, Gate!Live
<1>16. QED
  BY <1>1, <1>2, <1>3, <1>4, <1>4a, <1>5, <1>6, <1>7, <1>8, <1>9, <1>10, <1>11, <1>12,
     <1>13, <1>14, <1>15
  DEF Gate!Next

\* Whoever is let in has told this process the password of this very lock, a link
\* that is out of use, or an archived deployment, is not served, and replacements
\* one at a time leave file and process alike unless the file was cut by a write
\* that failed (serve.rs, config API).
THEOREM ServerGateway == SuiteSpec => []GateSound
<1> DEFINE Keeps == focus = "gateway" => Gate!GatewayInv
<1>1. SuiteInit => Keeps
  BY GatewayInit DEF SuiteInit, FocusInit
<1>2. Keeps /\ [SuiteNext]_suite => Keeps'
  <2> SUFFICES ASSUME Keeps, [SuiteNext]_suite, focus' = "gateway"
               PROVE  Gate!GatewayInv'
    OBVIOUS
  <2>1. Gate!GatewayInv
    BY DEF SuiteNext, suite
  <2>2. [Gate!Next]_(Gate!vars)
    BY DEF SuiteNext, FocusNext, suite, Gate!vars, Gate!configs, Gate!shares
  <2>3. QED
    BY <2>1, <2>2, GatewayStep
<1>3. Keeps => GateSound
  BY DEF GateSound, Gate!GatewayInv
<1>4. QED
  BY <1>1, <1>2, <1>3, PTL DEF SuiteSpec

-----------------------------------------------------------------------------
(***************************************************************************)
(* The answers of a static share link (StaticServing)                      *)
(***************************************************************************)

\* Cardinality is the same operator wherever its module is instantiated.
LEMMA CountedAlike == \A S : Static!Cardinality(S) = Cardinality(S)
BY DEF Cardinality, Static!Cardinality, IsFiniteSet, Static!IsFiniteSet

\* parse_byte_range: it refuses a range that names nothing of the file, and
\* otherwise gives the bounds of what the range names.
LEMMA ParsedRange ==
  ASSUME NEW range \in Static!Ranges, NEW length \in Nat, range.form # "none"
  PROVE  /\ Static!Parse(range, length) = {} => Static!Named(range, length) = {}
         /\ \A p \in Static!Parse(range, length) :
              /\ p[1] \in Nat /\ p[2] \in Nat /\ p[1] <= p[2] /\ p[2] < length
              /\ Static!Named(range, length) = p[1] .. p[2]
<1> DEFINE from == CASE range.form = "suffix" -> IF range.last > length THEN 0 ELSE length - range.last
                      [] OTHER -> range.first
           until == IF range.form = "closed" /\ range.last < length THEN range.last ELSE length - 1
           refused == length = 0 \/ range.form = "malformed" \/ from >= length \/ until < from
<1>1. /\ range.form \in {"malformed", "closed", "open", "suffix"}
      /\ range.first \in Nat /\ range.last \in Nat
  BY SuiteAssumptions DEF Static!Ranges, Static!NoRange, Static!Bounds,
     Static!ServingAssumption
<1>2. Static!Parse(range, length) = IF refused THEN {} ELSE {<<from, until>>}
  BY DEF Static!Parse
<1>3. from \in Nat /\ (length # 0 => until \in Nat /\ until < length)
  BY <1>1
<1>4. ASSUME range.form # "malformed", length # 0, NEW i \in 0 .. length - 1
      PROVE  i \in Static!Named(range, length) <=> (from <= i /\ i <= until)
  BY <1>1, <1>4 DEF Static!Named
<1>5. range.form = "malformed" \/ length = 0 => Static!Named(range, length) = {}
  BY <1>1 DEF Static!Named
<1>6. Static!Named(range, length) \subseteq 0 .. length - 1
  BY DEF Static!Named
<1> HIDE DEF from, until
<1>7. ASSUME refused PROVE Static!Named(range, length) = {}
  <2>1. CASE range.form = "malformed" \/ length = 0
    BY <1>5, <2>1
  <2>2. CASE range.form # "malformed" /\ length # 0
    BY <1>3, <1>4, <1>6, <1>7, <2>2
  <2>3. QED
    BY <2>1, <2>2
<1>8. ASSUME ~refused PROVE Static!Named(range, length) = from .. until /\ from <= until /\ until \in Nat
                            /\ until < length
  <2>1. from <= until /\ until \in Nat /\ until < length /\ from \in Nat
        /\ range.form # "malformed" /\ length # 0
    BY <1>3, <1>8
  <2>2. \A i : i \in Static!Named(range, length) => i \in from .. until
    BY <1>4, <1>6, <2>1
  <2>3. \A i : i \in from .. until => i \in Static!Named(range, length)
    <3>1. ASSUME NEW i \in from .. until PROVE i \in Static!Named(range, length)
      <4>1. i \in 0 .. length - 1 /\ from <= i /\ i <= until
        BY ONLY <2>1, i \in from .. until, length \in Nat
      <4>2. QED
        BY <1>4, <2>1, <4>1
    <3>2. QED
      BY <3>1
  <2>4. QED
    BY <2>1, <2>2, <2>3
<1>9. CASE refused
  BY <1>2, <1>7, <1>9
<1>10. CASE ~refused
  <2>1. Static!Parse(range, length) = {<<from, until>>}
    BY <1>2, <1>10
  <2> HIDE DEF refused
  <2>2. <<from, until>>[1] = from /\ <<from, until>>[2] = until
    OBVIOUS
  <2>3. QED
    BY <1>3, <1>8, <1>10, <2>1, <2>2
<1>11. QED
  BY <1>9, <1>10

\* Whoever asks for no range is meant all of the file.
LEMMA WholeNamed ==
  ASSUME NEW length \in Nat
  PROVE  Static!Named(Static!NoRange, length) = 0 .. length - 1
BY DEF Static!Named, Static!NoRange

LEMMA PartCounted ==
  ASSUME NEW a \in Nat, NEW b \in Int
  PROVE  Static!Cardinality(a .. b) = IF a > b THEN 0 ELSE b - a + 1
<1>1. Cardinality(a .. b) = IF a > b THEN 0 ELSE b - a + 1
  BY FS_Interval
<1>2. QED
  BY <1>1, CountedAlike

LEMMA ServingInit == Static!Init => Static!ServingInv
<1> SUFFICES ASSUME Static!Init PROVE Static!ServingInv
  OBVIOUS
<1>1. MaxLength \in Nat \ {0}
  BY SuiteAssumptions DEF Static!ServingAssumption
<1>2. Static!TreeOK
  BY DEF Static!Init, Static!TreeOK, Static!Entry, Static!Names
<1>3. Static!AskOK
  BY DEF Static!Init, Static!AskOK, Static!NoAsk, Static!Asks, Static!NoRange
<1>4. Static!AnswerOK
  <2>1. 0 \in Static!Lengths
    BY <1>1 DEF Static!Lengths
  <2>2. QED
    BY <2>1 DEF Static!Init, Static!AnswerOK, Static!Answer, Static!Waiting,
       Static!Stages, Static!Statuses, Static!Names
<1>5. s3.stage = "idle" /\ s3.body = {}
  BY DEF Static!Init, Static!Waiting
<1>6. QED
  BY <1>2, <1>3, <1>4, <1>5 DEF Static!ServingInv, Static!TypeOK, Static!Underway,
     Static!Looking, Static!Held, Static!Announced,
     Static!RangesExact, Static!Exchanged

\* What an answer becomes: one that ends, and one that goes on.
LEMMA AnswerEnds ==
  ASSUME Static!ServingInv, NEW status \in {200, 400, 404, 405, 416, 500, 502, 504}, Static!Finish(status),
         UNCHANGED <<s1, s2, s4>>, s3.stage # "done",
         \/ status \notin {200, 404, 416}
         \/ s2.target # "files"
         \/ s2.at = "root" /\ s2.wrapped
         \/ status = 404 /\ (s4 => Static!Asked = {})
         \/ /\ status = 416
            /\ s4 => /\ s3.file \in Static!Asked
                     /\ Static!Named(s2.range, s1[s3.file].length) = {} /\ s2.range # Static!NoRange
  PROVE  Static!ServingInv'
<1>1. Static!TypeOK /\ s3 \in Static!Answer /\ s3.body = {}
  BY DEF Static!ServingInv, Static!TypeOK, Static!AnswerOK, Static!Underway
<1>2. PICK a \in Static!Answer : a = [s3 EXCEPT !.stage = "done", !.status = status]
  <2>1. "done" \in Static!Stages /\ status \in Static!Statuses
    BY DEF Static!Stages, Static!Statuses
  <2>2. QED
    BY ONLY <1>1, <2>1 DEF Static!Answer
<1>3. s3' = a /\ a.stage = "done" /\ a.status = status /\ a.file = s3.file /\ a.body = {}
  BY <1>1, <1>2 DEF Static!Finish, Static!Answer
<1>4. Static!TypeOK'
  BY <1>1, <1>3 DEF Static!TypeOK, Static!TreeOK, Static!AskOK, Static!AnswerOK
<1>5. Static!Underway' /\ Static!Looking' /\ Static!Held' /\ Static!Announced'
  BY <1>3 DEF Static!Underway, Static!Looking, Static!Held, Static!Announced
<1>6. Static!Asked' = Static!Asked
  BY DEF Static!Asked, Static!At
<1>7. Static!RangesExact'
  BY <1>3, <1>6 DEF Static!RangesExact, Static!Exchanged
<1>8. QED
  BY <1>4, <1>5, <1>7 DEF Static!ServingInv

LEMMA AnswerGoes ==
  ASSUME Static!ServingInv, UNCHANGED <<s1, s2, s4>>, NEW a \in Static!Answer, s3' = a, a.body = {},
         a.stage \notin {"done"}, Static!Underway', Static!Looking', Static!Held', Static!Announced'
  PROVE  Static!ServingInv'
<1>1. Static!TypeOK'
  BY DEF Static!ServingInv, Static!TypeOK, Static!TreeOK, Static!AskOK, Static!AnswerOK
<1>2. Static!RangesExact'
  BY DEF Static!RangesExact, Static!Exchanged
<1>3. QED
  BY <1>1, <1>2 DEF Static!ServingInv

\* Only the stage, or the stage and the file, change.
LEMMA AnswerMoves ==
  ASSUME Static!ServingInv, UNCHANGED <<s1, s2, s4>>, s3.stage # "done",
         NEW stage \in {"looked", "found", "opened", "upstream"},
         NEW file \in Static!Names,
         s3' = [s3 EXCEPT !.stage = stage, !.file = file]
  PROVE  /\ s3' \in Static!Answer /\ s3'.stage = stage /\ s3'.file = file /\ s3'.body = {}
         /\ s3'.whole = s3.whole /\ s3'.first = s3.first /\ s3'.announced = s3.announced
         /\ s3'.status = s3.status /\ Static!Asked' = Static!Asked
<1>1. s3 \in Static!Answer /\ s3.body = {}
  BY DEF Static!ServingInv, Static!TypeOK, Static!AnswerOK, Static!Underway
<1>2. Static!Asked' = Static!Asked
  BY DEF Static!Asked, Static!At
<1>3. stage \in Static!Stages
  BY DEF Static!Stages
<1>4. QED
  BY <1>1, <1>2, <1>3 DEF Static!Answer

\* serve_static before the file is measured.
LEMMA FileSought ==
  ASSUME Static!ServingInv, Static!Reject \/ Static!Look \/ Static!Confirm
  PROVE  Static!ServingInv'
<1>1. UNCHANGED <<s1, s2, s4>> /\ s3.stage \in {"new", "looked"}
  BY DEF Static!Reject, Static!Look, Static!Confirm
<1>2. Static!TreeOK /\ Static!AskOK /\ s3 \in Static!Answer
  BY DEF Static!ServingInv, Static!TypeOK, Static!AnswerOK
<1>3. s2.at \in {"root", "path", "bad"}
  BY <1>2 DEF Static!AskOK, Static!Asks
<1>4. CASE Static!Reject
  BY <1>1, <1>4, AnswerEnds DEF Static!Reject
<1>5. CASE Static!Look
  <2>1. /\ s2.target = "files" /\ s2.at # "bad"
        /\ LET kind == IF s2.at = "root" THEN "directory" ELSE s1["path"].kind
               use(file) == s3' = [s3 EXCEPT !.stage = "looked", !.file = file]
           IN \/ kind = "directory" /\ use(IF s2.at = "root" THEN "index" ELSE "nested")
              \/ kind = "file" /\ use("path")
              \/ kind = "absent" /\ s2.spa /\ use("index")
              \/ kind = "absent" /\ ~s2.spa /\ Static!Finish(404)
    BY <1>5 DEF Static!Look
  <2>2. CASE Static!Finish(404) /\ s2.at = "path" /\ s1["path"].kind = "absent" /\ ~s2.spa
    <3>1. Static!Asked = {}
      BY <2>2 DEF Static!Asked, Static!At, Static!Gone
    <3>2. QED
      BY <1>1, <2>2, <3>1, AnswerEnds
  <2>3. ASSUME NEW file \in Static!Names,
               s3' = [s3 EXCEPT !.stage = "looked", !.file = file],
               file = "path" => s2.at = "path" /\ s1["path"].kind = "file",
               file = "nested" => s2.at = "path" /\ s1["path"].kind = "directory",
               file = "index" =>
                 s2.at = "root" \/ (s2.at = "path" /\ s2.spa /\ s1["path"].kind = "absent")
        PROVE  Static!ServingInv'
    <3>1. /\ s3' \in Static!Answer /\ s3'.stage = "looked" /\ s3'.file = file /\ s3'.body = {}
          /\ s3'.first = s3.first
      BY <1>1, <2>3, AnswerMoves
    <3>2. Static!Looking' /\ Static!Underway' /\ Static!Held' /\ Static!Announced'
      BY <1>1, <2>3, <3>1 DEF Static!ServingInv, Static!Looking, Static!Underway,
         Static!Held, Static!Announced
    <3>3. QED
      BY <1>1, <3>1, <3>2, AnswerGoes
  <2>4. CASE s2.at = "root"
    BY <2>1, <2>3, <2>4 DEF Static!Names
  <2>5. CASE s2.at # "root"
    BY <1>3, <2>1, <2>2, <2>3, <2>5 DEF Static!Names
  <2>6. QED
    BY <2>4, <2>5
<1>6. CASE Static!Confirm
  <2>1. /\ s3.stage = "looked" /\ s3.file \in Static!Names
        /\ IF Static!At(s3.file).kind = "file" THEN Static!To("found")
           ELSE IF s2.spa /\ Static!At("index").kind = "file"
                THEN s3' = [s3 EXCEPT !.stage = "found", !.file = "index"]
           ELSE Static!Finish(404)
    BY <1>2, <1>6 DEF Static!Confirm, Static!Answer
  <2>2. s4 => /\ s3.file = "path" => s2.at = "path" /\ s1["path"].kind = "file"
              /\ s3.file = "nested" => s2.at = "path" /\ s1["path"].kind = "directory"
              /\ s3.file = "index" =>
                   s2.at = "root" \/ (s2.at = "path" /\ s2.spa /\ s1["path"].kind = "absent")
    BY <2>1 DEF Static!ServingInv, Static!Looking
  <2>3. ASSUME NEW file \in Static!Names, s3' = [s3 EXCEPT !.stage = "found", !.file = file],
               s4 => file \in Static!Asked
        PROVE  Static!ServingInv'
    <3>1. /\ s3' \in Static!Answer /\ s3'.stage = "found" /\ s3'.file = file /\ s3'.body = {}
          /\ Static!Asked' = Static!Asked /\ s3'.first = s3.first
      BY <1>1, <2>3, AnswerMoves
    <3>2. Static!Looking' /\ Static!Underway' /\ Static!Held' /\ Static!Announced'
      BY <1>1, <2>3, <3>1 DEF Static!ServingInv, Static!Looking, Static!Underway,
         Static!Held, Static!Announced
    <3>3. QED
      BY <1>1, <3>1, <3>2, AnswerGoes
  <2>4. CASE Static!At(s3.file).kind = "file"
    <3>1. ASSUME s4 PROVE s3.file \in Static!Asked
      <4>1. CASE s3.file = "path"
        BY <2>2, <2>4, <3>1, <4>1 DEF Static!Asked
      <4>2. CASE s3.file = "nested"
        BY <2>2, <2>4, <3>1, <4>2 DEF Static!Asked, Static!At
      <4>3. CASE s3.file = "index"
        BY <2>2, <2>4, <3>1, <4>3 DEF Static!Asked, Static!At, Static!Gone
      <4>4. QED
        BY <2>1, <4>1, <4>2, <4>3 DEF Static!Names
    <3>2. s3' = [s3 EXCEPT !.stage = "found", !.file = s3.file]
      BY <1>2, <2>1, <2>4 DEF Static!To, Static!Answer
    <3>3. QED
      BY <2>1, <2>3, <3>1, <3>2
  <2>5. CASE Static!At(s3.file).kind # "file" /\ s2.spa /\ Static!At("index").kind = "file"
    <3>1. ASSUME s4 PROVE "index" \in Static!Asked
      <4>1. CASE s3.file = "path"
        BY <2>2, <2>5, <3>1, <4>1 DEF Static!At
      <4>2. CASE s3.file = "nested"
        BY <2>2, <2>5, <3>1, <4>2 DEF Static!Asked, Static!At
      <4>3. CASE s3.file = "index"
        BY <2>5, <4>3
      <4>4. QED
        BY <2>1, <4>1, <4>2, <4>3 DEF Static!Names
    <3>2. QED
      BY <2>1, <2>3, <2>5, <3>1 DEF Static!Names
  <2>6. CASE Static!At(s3.file).kind # "file" /\ ~(s2.spa /\ Static!At("index").kind = "file")
    <3>1. ASSUME s4 PROVE Static!Asked = {}
      <4>1. CASE s3.file = "path"
        BY <2>2, <2>6, <3>1, <4>1 DEF Static!At
      <4>2. CASE s3.file = "nested"
        BY <2>2, <2>6, <3>1, <4>2 DEF Static!Asked, Static!At
      <4>3. CASE s3.file = "index"
        BY <2>2, <2>6, <3>1, <4>3 DEF Static!Asked, Static!At, Static!Gone
      <4>4. QED
        BY <2>1, <4>1, <4>2, <4>3 DEF Static!Names
    <3>2. QED
      BY <1>1, <2>1, <2>6, <3>1, AnswerEnds
  <2>7. QED
    BY <2>4, <2>5, <2>6
<1>7. QED
  BY <1>4, <1>5, <1>6

\* The lengths of files are numbers.
LEMMA FileMeasured ==
  ASSUME Static!TreeOK, NEW file \in Static!Names
  PROVE  /\ Static!At(file).kind = "file" => Static!At(file) = s1[file]
         /\ Static!At(file).length \in Static!Lengths /\ Static!Lengths \subseteq Nat
         /\ file \in Static!Asked => Static!At(file).kind = "file"
<1>1. Static!Lengths = 0 .. MaxLength /\ MaxLength \in Nat
  BY SuiteAssumptions DEF Static!Lengths, Static!ServingAssumption
<1>2. s1[file] \in Static!Entry
  BY DEF Static!TreeOK
<1>3. s1[file].length \in Static!Lengths
  BY <1>1, <1>2 DEF Static!Entry, Static!File, Static!Gone, Static!Directory
<1>4. Static!At(file).length \in Static!Lengths
  BY <1>1, <1>3 DEF Static!At, Static!Gone
<1>5. QED
  BY <1>1, <1>4 DEF Static!At, Static!Gone, Static!Asked

\* file_response: what is announced is what the range names.
LEMMA FileAnnounced ==
  ASSUME Static!ServingInv, Static!Measure
  PROVE  Static!ServingInv'
<1>1. UNCHANGED <<s1, s2, s4>> /\ s3.stage = "found"
  BY DEF Static!Measure
<1>2. Static!TreeOK /\ Static!AskOK /\ s3 \in Static!Answer /\ s3.body = {} /\ s3.file \in Static!Names
      /\ s3.first \in Static!Lengths
  BY <1>1 DEF Static!ServingInv, Static!TypeOK, Static!AnswerOK, Static!Underway,
     Static!Answer
<1>3. s4 => s3.file \in Static!Asked
  BY <1>1 DEF Static!ServingInv, Static!Held
<1>4. PICK length \in Static!Lengths : length = Static!At(s3.file).length
  BY <1>2, FileMeasured
<1>5. length \in Nat /\ Static!Lengths = 0 .. MaxLength /\ MaxLength \in Nat
  BY <1>2, FileMeasured, SuiteAssumptions DEF Static!Lengths, Static!ServingAssumption
<1>6. Static!At(s3.file).kind = "file" => length = s1[s3.file].length
  BY <1>2, <1>4, FileMeasured
<1>7. s2.range \in Static!Ranges /\ (s2.range.form = "none" <=> s2.range = Static!NoRange)
  <2>1. Static!NoRange \in Static!Ranges
    BY DEF Static!Ranges
  <2>2. s2.range \in Static!Ranges
    BY <1>2, <2>1 DEF Static!AskOK, Static!Asks
  <2>3. QED
    BY <2>2 DEF Static!Ranges, Static!NoRange
<1>8. Static!Asked' = Static!Asked
  BY <1>1 DEF Static!Asked, Static!At
<1>9. ASSUME NEW status \in {200, 206}, NEW from \in Static!Lengths, NEW announced \in Static!Lengths,
             s3' = [s3 EXCEPT !.stage = "measured", !.status = status, !.whole = length,
                              !.first = from, !.announced = announced],
             Static!At(s3.file).kind = "file",
             status = 200 <=> s2.range = Static!NoRange,
             status = 206 => announced > 0,
             Static!Named(s2.range, length) = from .. from + announced - 1,
             Static!Cardinality(Static!Named(s2.range, length)) = announced
      PROVE  Static!ServingInv'
  <2>1. PICK a \in Static!Answer : a = s3'
    <3>1. "measured" \in Static!Stages /\ status \in Static!Statuses
      BY DEF Static!Stages, Static!Statuses
    <3>2. QED
      BY <1>2, <1>9, <3>1 DEF Static!Answer
  <2>2. /\ a.stage = "measured" /\ a.status = status /\ a.whole = length /\ a.first = from
        /\ a.announced = announced /\ a.file = s3.file /\ a.body = {}
    BY <1>2, <1>9, <2>1 DEF Static!Answer
  <2>3. Static!Sent(a) = Static!Named(s2.range, length)
    <3>1. Static!Named(s2.range, length) \subseteq 0 .. length - 1
      BY DEF Static!Named
    <3>2. Static!Sent(a) = {i \in 0 .. MaxLength : from <= i /\ i < from + announced}
      BY <1>5, <2>2 DEF Static!Sent
    <3>3. \A i : i \in from .. from + announced - 1 => i \in 0 .. MaxLength
      BY <1>4, <1>5, <1>9, <3>1
    <3>4. from \in Nat /\ announced \in Nat
      BY <1>5
    <3>5. QED
      BY ONLY <1>5, <1>9, <3>2, <3>3, <3>4
  <2>4. Static!Announced'
    <3>1. Static!Sent(s3)' = Static!Sent(a) /\ Static!Named(s2.range, s3.whole)' = Static!Named(s2.range, length)
      BY ONLY <1>1, <2>1, <2>2 DEF Static!Sent, Static!Named
    <3>2. QED
      BY <1>1, <1>9, <2>1, <2>2, <2>3, <3>1 DEF Static!Announced
  <2>5. Static!Underway' /\ Static!Looking' /\ Static!Held'
    BY <1>1, <1>3, <1>6, <1>8, <1>9, <2>1, <2>2 DEF Static!Underway, Static!Looking,
       Static!Held
  <2>6. QED
    BY <1>1, <2>1, <2>2, <2>4, <2>5, AnswerGoes
<1>10. CASE Static!At(s3.file).kind # "file"
  <2>1. Static!Finish(500)
    BY <1>10 DEF Static!Measure
  <2>2. QED
    BY <1>1, <2>1, AnswerEnds
<1>11. CASE Static!At(s3.file).kind = "file" /\ s2.range = Static!NoRange
  <2>1. s3' = [s3 EXCEPT !.stage = "measured", !.status = 200, !.whole = length, !.announced = length]
    BY <1>4, <1>11 DEF Static!Measure
  <2>2. Static!Named(s2.range, length) = 0 .. 0 + length - 1
    BY <1>5, <1>11, WholeNamed
  <2>3. Static!Cardinality(0 .. length - 1) = length
    BY <1>5, PartCounted
  <2>4. s3' = [s3 EXCEPT !.stage = "measured", !.status = 200, !.whole = length,
                         !.first = 0, !.announced = length]
    BY <1>1, <1>2, <2>1 DEF Static!ServingInv, Static!Underway, Static!Answer
  <2>5. 0 \in Static!Lengths
    BY <1>5
  <2>6. Static!Cardinality(Static!Named(s2.range, length)) = length
    BY <1>5, <2>2, <2>3
  <2>7. 200 \in {200, 206} /\ (200 = 200 <=> s2.range = Static!NoRange) /\ (200 = 206 => length > 0)
    BY <1>11
  <2>8. QED
    BY ONLY <1>9, <1>11, <2>2, <2>4, <2>5, <2>6, <2>7, length \in Static!Lengths
<1>12. CASE Static!At(s3.file).kind = "file" /\ s2.range # Static!NoRange
  <2>1. IF Static!Parse(s2.range, length) = {} THEN Static!Finish(416)
        ELSE \E p \in Static!Parse(s2.range, length) :
               s3' = [s3 EXCEPT !.stage = "measured", !.status = 206, !.whole = length,
                                !.first = p[1], !.announced = p[2] - p[1] + 1]
    BY <1>4, <1>12 DEF Static!Measure
  <2>2. CASE Static!Parse(s2.range, length) = {}
    <3>1. Static!Named(s2.range, length) = {}
      BY <1>5, <1>7, <1>12, <2>2, ParsedRange
    <3>2. QED
      BY <1>1, <1>3, <1>6, <1>12, <2>1, <2>2, <3>1, AnswerEnds
  <2>3. CASE Static!Parse(s2.range, length) # {}
    <3>1. PICK p \in Static!Parse(s2.range, length) :
               s3' = [s3 EXCEPT !.stage = "measured", !.status = 206, !.whole = length,
                                !.first = p[1], !.announced = p[2] - p[1] + 1]
      BY <2>1, <2>3
    <3>2. /\ p[1] \in Nat /\ p[2] \in Nat /\ p[1] <= p[2] /\ p[2] < length
          /\ Static!Named(s2.range, length) = p[1] .. p[2]
      BY <1>5, <1>7, <1>12, ParsedRange
    <3>3. PICK from, announced \in Static!Lengths : from = p[1] /\ announced = p[2] - p[1] + 1 /\ announced > 0
      BY <1>4, <1>5, <3>2
    <3>4. Static!Cardinality(Static!Named(s2.range, length)) = announced
      BY <3>2, <3>3, PartCounted
    <3>5. Static!Named(s2.range, length) = from .. from + announced - 1
      BY <3>2, <3>3
    <3>6. 206 \in {200, 206} /\ (206 = 200 <=> s2.range = Static!NoRange) /\ (206 = 206 => announced > 0)
      BY <1>12, <3>3
    <3>7. s3' = [s3 EXCEPT !.stage = "measured", !.status = 206, !.whole = length,
                           !.first = from, !.announced = announced]
      BY <3>1, <3>3
    <3>8. QED
      BY ONLY <1>9, <1>12, <3>4, <3>5, <3>6, <3>7, from \in Static!Lengths,
         announced \in Static!Lengths
  <2>4. QED
    BY <2>2, <2>3
<1>13. QED
  BY <1>10, <1>11, <1>12

\* The answer ends with a body that is part of what was announced, and all
\* of it if nothing has changed.
LEMMA AnswerSent ==
  ASSUME Static!ServingInv, UNCHANGED <<s1, s2, s4>>, s3.stage \in {"measured", "opened"},
         NEW body \in SUBSET Static!Named(s2.range, s3.whole),
         s3' = [s3 EXCEPT !.stage = "done", !.body = body],
         s4 /\ s2.method = "GET" => body = Static!Named(s2.range, s3.whole)
  PROVE  Static!ServingInv'
<1>1. /\ Static!TypeOK /\ Static!TreeOK /\ s3 \in Static!Answer /\ s3.first \in Static!Lengths /\ s3.announced \in Static!Lengths
      /\ s3.file \in Static!Names /\ s3.whole \in Static!Lengths
  BY DEF Static!ServingInv, Static!TypeOK, Static!AnswerOK, Static!Answer
<1>2. /\ s3.status \in {200, 206}
      /\ s3.status = 200 <=> s2.range = Static!NoRange
      /\ s3.status = 206 => s3.announced > 0
      /\ Static!Sent(s3) = Static!Named(s2.range, s3.whole)
      /\ s3.announced = Static!Cardinality(Static!Named(s2.range, s3.whole))
  BY DEF Static!ServingInv, Static!Announced
<1>3. Static!Lengths = 0 .. MaxLength /\ MaxLength \in Nat
  BY SuiteAssumptions DEF Static!Lengths, Static!ServingAssumption
<1>4. body \subseteq Static!Lengths
  BY <1>2 DEF Static!Sent
<1>5. PICK a \in Static!Answer : a = [s3 EXCEPT !.stage = "done", !.body = body]
  <2>1. "done" \in Static!Stages
    BY DEF Static!Stages
  <2>2. QED
    BY <1>1, <1>4, <2>1 DEF Static!Answer
<1>6. /\ s3' = a /\ a.stage = "done" /\ a.status = s3.status /\ a.file = s3.file /\ a.body = body
      /\ a.whole = s3.whole /\ a.announced = s3.announced
  BY <1>1, <1>5 DEF Static!Answer
<1>7. Static!TypeOK'
  BY <1>1, <1>6 DEF Static!TypeOK, Static!TreeOK, Static!AskOK, Static!AnswerOK
<1>8. Static!Underway' /\ Static!Looking' /\ Static!Held' /\ Static!Announced'
  BY <1>6 DEF Static!Underway, Static!Looking, Static!Held, Static!Announced
<1>9. Static!Asked' = Static!Asked
  BY DEF Static!Asked, Static!At
<1>10. s3.status = 206 => Static!Named(s2.range, s3.whole) # {}
  <2>1. s3.status = 206 => s3.first \in Static!Sent(s3)
    BY <1>1, <1>2, <1>3 DEF Static!Sent
  <2>2. QED
    BY <1>2, <2>1
<1>11. s4 => s3.file \in Static!Asked /\ s3.whole = s1[s3.file].length
  BY DEF Static!ServingInv, Static!Held
<1>12. PICK whole : whole = s3.whole
  OBVIOUS
<1>13. PICK named : named = Static!Named(s2.range, whole)
  OBVIOUS
<1>14. Static!Named(s2.range, whole)' = named
  BY ONLY <1>13, UNCHANGED <<s1, s2, s4>> DEF Static!Named
<1>15. Static!RangesExact'
  <2>1. /\ s3'.announced = Static!Cardinality(Static!Named(s2.range, s3.whole)')
        /\ s3'.body \subseteq Static!Named(s2.range, s3.whole)'
    <3>1. Static!Named(s2.range, s3.whole)' = Static!Named(s2.range, whole)'
      BY ONLY <1>6, <1>12 DEF Static!Named
    <3>2. QED
      BY <1>2, <1>6, <1>12, <1>13, <1>14, <3>1
  <2>2. ASSUME s4
        PROVE  /\ s3'.status # 404 /\ Static!Asked' # {} /\ s3'.file \in Static!Asked'
               /\ s3'.status # 416 /\ ~(named = {} /\ s2.range # Static!NoRange)
               /\ s2.method = "GET" => s3'.body = named
    BY <1>2, <1>6, <1>9, <1>10, <1>11, <1>12, <1>13, <2>2
  <2>3. s4 => Static!Named(s2.range, s1[s3.file].length)' = named
    <3>1. s4 => s1'[s3'.file].length = whole
      BY <1>6, <1>11, <1>12
    <3>2. QED
      BY ONLY <1>13, <1>14, <3>1 DEF Static!Named
  <2>4. QED
    BY <2>1, <2>2, <2>3 DEF Static!RangesExact
<1>16. QED
  BY <1>7, <1>8, <1>15 DEF Static!ServingInv

\* file_response after that: a header alone, or the file as it is then.
LEMMA FileSent ==
  ASSUME Static!ServingInv, Static!Head \/ Static!Open \/ Static!Stream
  PROVE  Static!ServingInv'
<1>1. UNCHANGED <<s1, s2, s4>> /\ s3.stage \in {"measured", "opened"}
  BY DEF Static!Head, Static!Open, Static!Stream
<1>2. /\ Static!TreeOK /\ s3 \in Static!Answer /\ s3.body = {} /\ s3.file \in Static!Names
      /\ s3.whole \in Static!Lengths
  BY <1>1 DEF Static!ServingInv, Static!TypeOK, Static!AnswerOK, Static!Underway,
     Static!Answer
<1>3. /\ s4 => s3.file \in Static!Asked /\ s3.whole = s1[s3.file].length
      /\ Static!Sent(s3) = Static!Named(s2.range, s3.whole)
  BY <1>1 DEF Static!ServingInv, Static!Held, Static!Announced
<1>4. CASE Static!Head
  <2>1. s3' = [s3 EXCEPT !.stage = "done", !.body = {}] /\ s2.method = "HEAD"
    BY <1>2, <1>4 DEF Static!Head, Static!To, Static!Answer
  <2>2. QED
    BY <1>1, <2>1, AnswerSent
<1>5. CASE Static!Open
  <2>1. s3.stage = "measured" /\ IF Static!At(s3.file).kind = "file" THEN Static!To("opened") ELSE Static!Finish(500)
    BY <1>5 DEF Static!Open
  <2>2. CASE Static!Finish(500)
    BY <1>1, <2>2, AnswerEnds
  <2>3. CASE Static!To("opened")
    <3>1. s3' = [s3 EXCEPT !.stage = "opened", !.file = s3.file]
      BY <1>2, <2>3 DEF Static!To, Static!Answer
    <3>2. /\ s3' \in Static!Answer /\ s3'.stage = "opened" /\ s3'.file = s3.file /\ s3'.body = {}
          /\ s3'.whole = s3.whole /\ s3'.first = s3.first /\ s3'.announced = s3.announced
          /\ s3'.status = s3.status /\ Static!Asked' = Static!Asked
      BY <1>1, <1>2, <3>1, AnswerMoves
    <3>3. Static!Underway' /\ Static!Looking' /\ Static!Held'
      BY <1>1, <1>3, <3>2 DEF Static!Underway, Static!Looking, Static!Held
    <3>4. Static!Sent(s3)' = Static!Sent(s3) /\ Static!Named(s2.range, s3.whole)' = Static!Named(s2.range, s3.whole)
      BY ONLY <1>1, <3>2 DEF Static!Sent, Static!Named
    <3>5. Static!Announced'
      BY <1>1, <3>2, <3>4 DEF Static!ServingInv, Static!Announced
    <3>6. QED
      BY <1>1, <3>2, <3>3, <3>5, AnswerGoes
  <2>4. QED
    BY <2>1, <2>2, <2>3
<1>6. CASE Static!Stream
  <2> DEFINE length == IF Static!At(s3.file).kind = "file" THEN Static!At(s3.file).length ELSE s3.whole
             body == {i \in Static!Lengths : s3.first <= i /\ i < s3.first + s3.announced /\ i < length}
  <2>1. s3' = [s3 EXCEPT !.stage = "done", !.body = body]
    BY <1>6 DEF Static!Stream
  <2>2. body \subseteq Static!Named(s2.range, s3.whole)
    BY <1>3 DEF Static!Sent
  <2>3. s4 => body = Static!Named(s2.range, s3.whole)
    <3>1. ASSUME s4 PROVE length = s3.whole
      BY <1>2, <1>3, <3>1, FileMeasured
    <3>2. \A i \in Static!Named(s2.range, s3.whole) : i < s3.whole
      BY <1>2, FileMeasured DEF Static!Named
    <3>3. QED
      BY <1>3, <3>1, <3>2 DEF Static!Sent
  <2> HIDE DEF body
  <2>4. QED
    BY <1>1, <2>1, <2>2, <2>3, AnswerSent
<1>7. QED
  BY <1>4, <1>5, <1>6

\* Pages and proxies.
LEMMA OthersServed ==
  ASSUME Static!ServingInv, Static!ServePage \/ Static!Forward \/ Static!Upstream
  PROVE  Static!ServingInv'
<1>1. UNCHANGED <<s1, s2, s4>> /\ s3.stage \in {"new", "upstream"} /\ s2.target # "files"
  BY DEF Static!ServePage, Static!Forward, Static!Upstream, Static!ServingInv,
     Static!Underway
<1>2. ASSUME NEW status \in {200, 404, 405, 500, 502, 504}, Static!Finish(status)
      PROVE  Static!ServingInv'
  BY <1>1, <1>2, AnswerEnds
<1>3. CASE Static!Forward /\ Static!To("upstream")
  <2>1. s3 \in Static!Answer /\ s3.file \in Static!Names /\ s2.target = "proxy"
    BY <1>3 DEF Static!ServingInv, Static!TypeOK, Static!AnswerOK, Static!Answer,
       Static!Forward
  <2>2. s3' = [s3 EXCEPT !.stage = "upstream", !.file = s3.file]
    BY <1>3, <2>1 DEF Static!To, Static!Answer
  <2>3. s3' \in Static!Answer /\ s3'.stage = "upstream" /\ s3'.body = {}
    BY <1>1, <2>1, <2>2, AnswerMoves
  <2>4. Static!Underway' /\ Static!Looking' /\ Static!Held' /\ Static!Announced'
    BY <1>1, <2>1, <2>3 DEF Static!Underway, Static!Looking, Static!Held,
       Static!Announced
  <2>5. QED
    BY <1>1, <2>3, <2>4, AnswerGoes
<1>4. QED
  BY <1>2, <1>3 DEF Static!ServePage, Static!Forward, Static!Upstream

\* A request comes, or the files change under one.
LEMMA AroundRequests ==
  ASSUME Static!ServingInv,
         \/ Static!Receive
         \/ \E file \in Static!Names, entry \in {Static!Gone, Static!Directory,
                [kind |-> "file", length |-> 1]} : Static!Change(file, entry)
         \/ UNCHANGED Static!vars
  PROVE  Static!ServingInv'
<1>1. Static!TreeOK /\ Static!AskOK /\ Static!AnswerOK /\ MaxLength \in Nat \ {0}
  BY SuiteAssumptions DEF Static!ServingInv, Static!TypeOK, Static!ServingAssumption
<1>2. 0 \in Static!Lengths /\ 1 \in Static!Lengths /\ MaxLength \in Static!Lengths
  BY <1>1 DEF Static!Lengths
<1>3. CASE Static!Receive
  <2>1. Static!TreeOK'
    BY <1>2, <1>3 DEF Static!Receive, Static!TreeOK, Static!Entry, Static!File,
       Static!Names
  <2>2. Static!AskOK' /\ Static!AnswerOK' /\ s3'.stage = "new" /\ s3'.body = {} /\ s3'.first = 0
    BY <1>1, <1>2, <1>3 DEF Static!Receive, Static!AskOK, Static!AnswerOK,
       Static!Answer, Static!Waiting, Static!Stages, Static!Statuses, Static!Names
  <2>3. QED
    BY <2>1, <2>2 DEF Static!ServingInv, Static!TypeOK, Static!Underway,
       Static!Looking, Static!Held, Static!Announced,
       Static!RangesExact, Static!Exchanged
<1>4. ASSUME NEW file \in Static!Names,
             NEW entry \in {Static!Gone, Static!Directory, [kind |-> "file", length |-> 1]},
             Static!Change(file, entry)
      PROVE  Static!ServingInv'
  <2>1. /\ s1' = [s1 EXCEPT ![file] = entry] /\ s4' = FALSE /\ UNCHANGED <<s2, s3>>
        /\ s3.stage \notin {"idle", "done"}
    BY <1>4 DEF Static!Change
  <2>2. entry \in Static!Entry
    BY <1>2 DEF Static!Entry, Static!File
  <2>3. Static!TypeOK'
    BY <1>1, <2>1, <2>2 DEF Static!TypeOK, Static!TreeOK, Static!AskOK, Static!AnswerOK
  <2>4. Static!Underway' /\ Static!Looking' /\ Static!Held' /\ Static!RangesExact'
    BY <2>1 DEF Static!ServingInv, Static!Underway, Static!Looking, Static!Held,
       Static!RangesExact, Static!Exchanged
  <2>5. Static!Announced'
    <3>1. Static!Sent(s3)' = Static!Sent(s3) /\ Static!Named(s2.range, s3.whole)' = Static!Named(s2.range, s3.whole)
      BY <2>1 DEF Static!Sent, Static!Named
    <3>2. QED
      BY <2>1, <3>1 DEF Static!ServingInv, Static!Announced
  <2>6. QED
    BY <2>3, <2>4, <2>5 DEF Static!ServingInv
<1>5. CASE UNCHANGED Static!vars
  BY <1>5 DEF Static!vars, Static!ServingInv, Static!TypeOK, Static!TreeOK,
     Static!AskOK, Static!AnswerOK, Static!Underway, Static!Looking,
     Static!Held, Static!Announced, Static!RangesExact, Static!Exchanged, Static!Asked, Static!At, Static!Sent, Static!Named
<1>6. QED
  BY <1>3, <1>4, <1>5

LEMMA ServingStep == Static!ServingInv /\ [Static!Next]_(Static!vars) => Static!ServingInv'
<1> SUFFICES ASSUME Static!ServingInv, [Static!Next]_(Static!vars) PROVE Static!ServingInv'
  OBVIOUS
<1>1. CASE Static!Reject \/ Static!Look \/ Static!Confirm
  BY <1>1, FileSought
<1>2. CASE Static!Head \/ Static!Open \/ Static!Stream
  BY <1>2, FileSent
<1>3. CASE Static!ServePage \/ Static!Forward \/ Static!Upstream
  BY <1>3, OthersServed
<1>4. CASE \/ Static!Receive
           \/ \E file \in Static!Names, entry \in {Static!Gone, Static!Directory,
                  [kind |-> "file", length |-> 1]} : Static!Change(file, entry)
           \/ UNCHANGED Static!vars
  BY <1>4, AroundRequests
<1>5. QED
  BY <1>1, <1>2, <1>3, <1>4, FileAnnounced DEF Static!Next, Static!Names

\* What is sent of a file is what was announced, and without a change in between
\* exactly what the request asked for (http_stream.rs, deployment.rs).
THEOREM ServerStatic == SuiteSpec => []StaticRangesExact
<1> DEFINE Keeps == focus = "static" => Static!ServingInv
<1>1. SuiteInit => Keeps
  BY ServingInit DEF SuiteInit, FocusInit
<1>2. Keeps /\ [SuiteNext]_suite => Keeps'
  <2> SUFFICES ASSUME Keeps, [SuiteNext]_suite, focus' = "static"
               PROVE  Static!ServingInv'
    OBVIOUS
  <2>1. Static!ServingInv
    BY DEF SuiteNext, suite
  <2>2. [Static!Next]_(Static!vars)
    BY DEF SuiteNext, FocusNext, suite, Static!vars
  <2>3. QED
    BY <2>1, <2>2, ServingStep
<1>3. Keeps => StaticRangesExact
  BY DEF StaticRangesExact, Static!ServingInv
<1>4. QED
  BY <1>1, <1>2, <1>3, PTL DEF SuiteSpec

-----------------------------------------------------------------------------
(***************************************************************************)
(* The git commands of the workspace (GitActions)                          *)
(***************************************************************************)

LEMMA ActionsInit == Actions!Init => Actions!ActionsInv
<1> SUFFICES ASSUME Actions!Init PROVE Actions!ActionsInv
  OBVIOUS
<1>1. Actions!TreeTypeOK /\ Actions!UnbornEmpty
  BY DEF Actions!Init, Actions!TreeInit, Actions!TreeTypeOK, Actions!UnbornEmpty,
     Actions!Content
<1>2. Actions!Idle \in Actions!Request /\ Actions!Named(Actions!Idle)
  BY DEF Actions!Idle, Actions!Request, Actions!Ops, Actions!Named
<1>3. Actions!RequestsOK /\ Actions!NamesFit
  BY <1>2 DEF Actions!Init, Actions!RequestsOK, Actions!NamesFit, Actions!Named
<1>4. QED
  BY <1>1, <1>3 DEF Actions!ActionsInv, Actions!TypeOK

\* Whatever git does, or an editor: the trees stay trees, and HEAD is empty
\* until there is a commit.
LEMMA TreeKept ==
  ASSUME Actions!TreeTypeOK, Actions!UnbornEmpty,
         \/ \E paths \in SUBSET GitPaths : \/ Actions!Add(paths)
                                           \/ Actions!Reset(paths) \/ Actions!RmCached(paths)
                                           \/ Actions!Restore(paths) \/ Actions!Clean(paths)
         \/ \E p \in GitPaths, version \in Actions!Content : Actions!Pull(p, version) \/ Actions!Edit(p, version)
         \/ Actions!Commit
         \/ UNCHANGED Actions!tree
  PROVE  Actions!TreeTypeOK' /\ Actions!UnbornEmpty'
<1>1. ASSUME NEW paths \in SUBSET GitPaths,
             Actions!Add(paths) \/ Actions!Reset(paths) \/ Actions!RmCached(paths)
      PROVE  Actions!TreeTypeOK' /\ Actions!UnbornEmpty'
  BY <1>1 DEF Actions!TreeTypeOK, Actions!UnbornEmpty, Actions!Add, Actions!Reset,
     Actions!RmCached, Actions!Mixed, Actions!Content
<1>2. ASSUME NEW paths \in SUBSET GitPaths, Actions!Restore(paths) \/ Actions!Clean(paths)
      PROVE  Actions!TreeTypeOK' /\ Actions!UnbornEmpty'
  BY <1>2 DEF Actions!TreeTypeOK, Actions!UnbornEmpty, Actions!Restore, Actions!Clean,
     Actions!Content
<1>3. ASSUME NEW p \in GitPaths, NEW version \in Actions!Content, Actions!Pull(p, version) \/ Actions!Edit(p, version)
      PROVE  Actions!TreeTypeOK' /\ Actions!UnbornEmpty'
  BY <1>3 DEF Actions!TreeTypeOK, Actions!UnbornEmpty, Actions!Pull, Actions!Edit
<1>4. CASE Actions!Commit
  BY <1>4 DEF Actions!TreeTypeOK, Actions!UnbornEmpty, Actions!Commit
<1>5. CASE UNCHANGED Actions!tree
  BY <1>5 DEF Actions!TreeTypeOK, Actions!UnbornEmpty, Actions!tree
<1>6. QED
  BY <1>1, <1>2, <1>3, <1>4, <1>5

\* One request is as the step leaves it, the others are as they were.
LEMMA RequestsKept ==
  ASSUME Actions!RequestsOK, Actions!NamesFit, NEW r \in Requests, NEW v \in Actions!Request,
         s5' = [s5 EXCEPT ![r] = v],
         Actions!Named(v)
  PROVE  Actions!RequestsOK' /\ Actions!NamesFit' /\ s5'[r] = v /\ \A u \in Requests \ {r} : s5'[u] = s5[u]
BY DEF Actions!RequestsOK, Actions!NamesFit

LEMMA RequestGoes ==
  ASSUME Actions!RequestsOK, Actions!NamesFit, NEW r \in Requests,
         NEW stage \in {"checked", "cleaning", "done", "failed"}, NEW found \in BOOLEAN,
         \/ Actions!Goes(r, stage)
         \/ stage = "checked" /\ Actions!Checked(r, found),
         stage = "cleaning" => s5[r].all
  PROVE  /\ Actions!RequestsOK' /\ Actions!NamesFit' /\ s5'[r].stage = stage
         /\ \A u \in Requests \ {r} : s5'[u] = s5[u]
<1> DEFINE v0 == [s5[r] EXCEPT !.stage = stage, !.found = IF Actions!Goes(r, stage) THEN s5[r].found ELSE found]
<1>1. s5[r] \in Actions!Request
  BY DEF Actions!RequestsOK
<1>2. s5' = [s5 EXCEPT ![r] = v0]
  <2>1. CASE Actions!Goes(r, stage)
    BY <1>1, <2>1 DEF Actions!Goes, Actions!RequestsOK, Actions!Request
  <2>2. CASE ~Actions!Goes(r, stage)
    BY <2>2 DEF Actions!Checked, Actions!RequestsOK
  <2>3. QED
    BY <2>1, <2>2
<1>3. PICK v \in Actions!Request : v = v0
  BY <1>1 DEF Actions!Request
<1>4. v.stage = stage /\ v.op = s5[r].op /\ v.all = s5[r].all /\ v.paths = s5[r].paths
  BY <1>1, <1>3 DEF Actions!Request
<1> HIDE DEF v0
<1>5. s5' = [s5 EXCEPT ![r] = v]
  BY <1>2, <1>3
<1>6. Actions!Named(v)
  BY <1>4 DEF Actions!NamesFit, Actions!Named
<1>7. QED
  BY <1>4, <1>5, <1>6, RequestsKept

\* A step of a request keeps what its kind is not about.
LEMMA RequestSpares ==
  ASSUME Actions!ActionsInv, NEW r \in Requests,
         \/ \E op \in Actions!Ops, paths \in SUBSET GitPaths, all \in BOOLEAN : Actions!Ask(r, op, paths, all)
         \/ Actions!Fails(r) \/ Actions!Stage(r) \/ Actions!CheckHead(r) \/ Actions!Unstage(r) \/ Actions!CheckDiscard(r)
         \/ Actions!DiscardFile(r) \/ Actions!DiscardAll(r) \/ Actions!DiscardRest(r) \/ Actions!DiscardCut(r)
         \/ Actions!CommitIndex(r) \/ Actions!PullHead(r) \/ Actions!Remote(r) \/ Actions!Respond(r)
  PROVE  /\ Actions!ActionsInv' /\ Actions!SparedBy(r) /\ Actions!UnstagedBy(r)
         /\ \A u \in Requests \ {r} : s5'[u] = s5[u]
<1> DEFINE Others == \A u \in Requests \ {r} : s5'[u] = s5[u]
<1>1. /\ Actions!TreeTypeOK /\ Actions!UnbornEmpty /\ Actions!RequestsOK /\ Actions!NamesFit
      /\ s5[r] \in Actions!Request /\ s5[r].paths \in SUBSET GitPaths /\ s5[r].all \in BOOLEAN
      /\ s5[r].found \in BOOLEAN
  BY DEF Actions!ActionsInv, Actions!TypeOK, Actions!RequestsOK, Actions!Request
<1>0. Actions!Reached(r) \in SUBSET GitPaths /\ (s5[r].all => Actions!Reached(r) = GitPaths)
  BY <1>1, SuiteAssumptions DEF Actions!ActionsAssumption, Actions!Reached
<1>2. ASSUME Actions!TreeTypeOK', Actions!UnbornEmpty', Actions!RequestsOK', Actions!NamesFit' PROVE Actions!ActionsInv'
  BY <1>2 DEF Actions!ActionsInv, Actions!TypeOK
\* The tree is as it was.
<1>3. ASSUME UNCHANGED Actions!tree, Actions!RequestsOK', Actions!NamesFit', Others,
             s5'[r].stage = "done" => s5[r].stage # "checked"
      PROVE  Actions!ActionsInv' /\ Actions!SparedBy(r) /\ Actions!UnstagedBy(r) /\ Others
  <2>1. Actions!TreeTypeOK' /\ Actions!UnbornEmpty'
    BY <1>1, <1>3, TreeKept
  <2>2. Actions!SparedBy(r)
    BY <1>3 DEF Actions!SparedBy, Actions!tree
  <2>3. Actions!UnstagedBy(r)
    BY <1>3 DEF Actions!UnstagedBy, Actions!At
  <2>4. QED
    BY <1>2, <1>3, <2>1, <2>2, <2>3
<1>4. ASSUME NEW op \in Actions!Ops, NEW paths \in SUBSET GitPaths, NEW all \in BOOLEAN, Actions!Ask(r, op, paths, all)
      PROVE  Actions!ActionsInv' /\ Actions!SparedBy(r) /\ Actions!UnstagedBy(r) /\ Others
  <2>1. PICK v \in Actions!Request : v = [stage |-> "asked", op |-> op, paths |-> paths, all |-> all,
                                    found |-> FALSE]
    BY DEF Actions!Request
  <2>2. /\ s5' = [s5 EXCEPT ![r] = v] /\ UNCHANGED Actions!tree /\ v.stage = "asked"
        /\ Actions!Named(v)
    BY <1>4, <2>1 DEF Actions!Ask, Actions!Named
  <2>3. QED
    BY <1>1, <1>3, <2>2, RequestsKept
<1>5. ASSUME Actions!Respond(r)
      PROVE  Actions!ActionsInv' /\ Actions!SparedBy(r) /\ Actions!UnstagedBy(r) /\ Others
  <2>1. PICK v \in Actions!Request : v = Actions!Idle
    BY DEF Actions!Request, Actions!Idle, Actions!Ops
  <2>2. s5' = [s5 EXCEPT ![r] = v] /\ UNCHANGED Actions!tree /\ v.stage = "idle" /\ Actions!Named(v)
    BY <1>5, <2>1 DEF Actions!Respond, Actions!Idle, Actions!Named
  <2>3. QED
    BY <1>1, <1>3, <2>2, RequestsKept
<1>6. ASSUME Actions!Fails(r) \/ Actions!Remote(r)
      PROVE  Actions!ActionsInv' /\ Actions!SparedBy(r) /\ Actions!UnstagedBy(r) /\ Others
  <2>1. PICK stage \in {"failed", "done"} :
          Actions!Goes(r, stage) /\ UNCHANGED Actions!tree /\ (stage = "done" => s5[r].stage = "asked")
    BY <1>6 DEF Actions!Fails, Actions!Remote, Actions!At
  <2>2. Actions!RequestsOK' /\ Actions!NamesFit' /\ s5'[r].stage = stage /\ Others
    BY <1>1, <2>1, RequestGoes
  <2>3. QED
    BY <1>3, <2>1, <2>2
<1>7. ASSUME Actions!CheckHead(r) \/ Actions!CheckDiscard(r)
      PROVE  Actions!ActionsInv' /\ Actions!SparedBy(r) /\ Actions!UnstagedBy(r) /\ Others
  <2>1. PICK found \in BOOLEAN : Actions!Checked(r, found) /\ UNCHANGED Actions!tree
    <3>1. CASE Actions!CheckHead(r)
      BY <1>1, <3>1 DEF Actions!CheckHead, Actions!TreeTypeOK
    <3>2. CASE Actions!CheckDiscard(r)
      BY <3>2 DEF Actions!CheckDiscard
    <3>3. QED
      BY <1>7, <3>1, <3>2
  <2>2. Actions!RequestsOK' /\ Actions!NamesFit' /\ s5'[r].stage = "checked" /\ Others
    BY <1>1, <2>1, RequestGoes
  <2>3. QED
    BY <1>3, <2>1, <2>2
\* A command is run and the request goes on.
<1>8. ASSUME NEW stage \in {"cleaning", "done", "failed"}, Actions!Goes(r, stage),
             stage = "cleaning" => s5[r].all,
             Actions!TreeTypeOK', Actions!UnbornEmpty', Actions!SparedBy(r), Actions!UnstagedBy(r)
      PROVE  Actions!ActionsInv' /\ Actions!SparedBy(r) /\ Actions!UnstagedBy(r) /\ Others
  BY <1>1, <1>2, <1>8, RequestGoes
<1>9. CASE Actions!Stage(r)
  <2>1. PICK stage \in {"done", "failed"} :
          Actions!Add(Actions!Reached(r)) /\ Actions!Goes(r, stage) /\ s5[r].op = "stage" /\ s5[r].stage = "asked"
    BY <1>9 DEF Actions!Stage, Actions!At, Actions!Ends
  <2>2. Actions!TreeTypeOK' /\ Actions!UnbornEmpty'
    BY <1>0, <1>1, <2>1, TreeKept
  <2>3. Actions!SparedBy(r)
    BY <1>0, <1>1, <2>1 DEF Actions!SparedBy, Actions!Add, Actions!Mixed
  <2>4. Actions!UnstagedBy(r)
    BY <2>1 DEF Actions!UnstagedBy, Actions!At
  <2>5. QED
    BY <1>8, <2>1, <2>2, <2>3, <2>4
<1>10. CASE Actions!Unstage(r)
  <2>1. PICK stage \in {"done", "failed"} :
          /\ IF s5[r].found THEN Actions!Reset(Actions!Reached(r)) ELSE Actions!RmCached(Actions!Reached(r))
          /\ Actions!Goes(r, stage) /\ s5[r].op = "unstage" /\ s5[r].stage = "checked"
    BY <1>10 DEF Actions!Unstage, Actions!At, Actions!Ends
  <2>2. Actions!TreeTypeOK' /\ Actions!UnbornEmpty'
    BY <1>0, <1>1, <2>1, TreeKept
  <2>3. Actions!SparedBy(r)
    BY <1>0, <1>1, <2>1 DEF Actions!SparedBy, Actions!Reset, Actions!RmCached, Actions!Mixed
  <2>4. Actions!UnstagedBy(r)
    BY <1>0, <1>1, <2>1 DEF Actions!UnstagedBy, Actions!Reset, Actions!RmCached,
       Actions!Mixed, Actions!UnbornEmpty
  <2>5. QED
    BY <1>8, <2>1, <2>2, <2>3, <2>4
<1>11. CASE Actions!DiscardFile(r)
  <2>1. PICK stage \in {"done", "failed"} :
          /\ IF s5[r].found THEN Actions!Clean(Actions!Reached(r)) ELSE Actions!Restore(Actions!Reached(r))
          /\ Actions!Goes(r, stage) /\ s5[r].op = "discard"
    BY <1>11 DEF Actions!DiscardFile, Actions!At, Actions!Ends
  <2>2. Actions!TreeTypeOK' /\ Actions!UnbornEmpty'
    BY <1>0, <1>1, <2>1, TreeKept
  <2>3. Actions!SparedBy(r)
    BY <1>0, <1>1, <2>1 DEF Actions!SparedBy, Actions!Clean, Actions!Restore
  <2>4. Actions!UnstagedBy(r)
    BY <2>1 DEF Actions!UnstagedBy, Actions!At
  <2>5. QED
    BY <1>8, <2>1, <2>2, <2>3, <2>4
<1>12. CASE Actions!DiscardAll(r)
  <2>1. /\ IF s5[r].found THEN Actions!Restore(GitPaths) ELSE UNCHANGED Actions!tree
        /\ Actions!Goes(r, "cleaning") /\ s5[r].op = "discard" /\ s5[r].all
    BY <1>12 DEF Actions!DiscardAll, Actions!At
  <2>2. Actions!TreeTypeOK' /\ Actions!UnbornEmpty'
    BY <1>0, <1>1, <2>1, TreeKept
  <2>3. Actions!Reached(r) = GitPaths
    BY <1>0, <1>1, <2>1 DEF Actions!NamesFit, Actions!Named
  <2>4. Actions!SparedBy(r)
    BY <1>1, <2>1, <2>3 DEF Actions!SparedBy, Actions!Restore, Actions!tree
  <2>5. Actions!UnstagedBy(r)
    BY <2>1 DEF Actions!UnstagedBy, Actions!At
  <2>6. QED
    BY <1>8, <2>1, <2>2, <2>4, <2>5
<1>13. CASE Actions!DiscardRest(r)
  <2>1. PICK stage \in {"done", "failed"} :
          Actions!Clean(GitPaths) /\ Actions!Goes(r, stage) /\ s5[r].op = "discard" /\ s5[r].stage = "cleaning"
    BY <1>13 DEF Actions!DiscardRest, Actions!At, Actions!Ends
  <2>2. Actions!TreeTypeOK' /\ Actions!UnbornEmpty'
    BY <1>0, <1>1, <2>1, TreeKept
  <2>3. Actions!Reached(r) = GitPaths
    BY <1>0, <1>1, <2>1 DEF Actions!NamesFit, Actions!Named
  <2>4. Actions!SparedBy(r)
    BY <1>1, <2>1, <2>3 DEF Actions!SparedBy, Actions!Clean
  <2>5. Actions!UnstagedBy(r)
    BY <2>1 DEF Actions!UnstagedBy, Actions!At
  <2>6. QED
    BY <1>8, <2>1, <2>2, <2>4, <2>5
<1>14. CASE Actions!CommitIndex(r)
  <2>1. PICK stage \in {"done", "failed"} :
          Actions!Commit /\ Actions!Goes(r, stage) /\ s5[r].op = "commit" /\ s5[r].stage = "asked"
    BY <1>14 DEF Actions!CommitIndex, Actions!At, Actions!Ends
  <2>2. Actions!TreeTypeOK' /\ Actions!UnbornEmpty'
    BY <1>0, <1>1, <2>1, TreeKept
  <2>3. Actions!SparedBy(r)
    BY <1>0, <1>1, <2>1 DEF Actions!SparedBy, Actions!Commit
  <2>4. Actions!UnstagedBy(r)
    BY <2>1 DEF Actions!UnstagedBy, Actions!At
  <2>5. QED
    BY <1>8, <2>1, <2>2, <2>3, <2>4
<1>15. CASE Actions!PullHead(r)
  <2>1. PICK stage \in {"done", "failed"} :
          /\ UNCHANGED Actions!tree \/ \E p \in GitPaths, version \in Actions!Content : Actions!Pull(p, version)
          /\ Actions!Goes(r, stage) /\ s5[r].op = "pull" /\ s5[r].stage = "asked"
    BY <1>15 DEF Actions!PullHead, Actions!At, Actions!Ends
  <2>2. Actions!TreeTypeOK' /\ Actions!UnbornEmpty'
    BY <1>0, <1>1, <2>1, TreeKept
  <2>3. Actions!UnstagedBy(r)
    BY <2>1 DEF Actions!UnstagedBy, Actions!At
  <2>4. s5[r].paths = {}
    BY <2>1 DEF Actions!NamesFit, Actions!Named, Actions!ActionsInv
  <2>5. Actions!SparedBy(r)
    BY <2>1, <2>4 DEF Actions!SparedBy
  <2>6. QED
    BY <1>8, <2>1, <2>2, <2>3, <2>5
<1>16. CASE Actions!DiscardCut(r)
  <2>1. PICK some \in SUBSET Actions!Reached(r) :
          /\ Actions!Clean(some) \/ Actions!Restore(some)
          /\ Actions!Goes(r, "failed") /\ s5[r].op = "discard"
    BY <1>16 DEF Actions!DiscardCut, Actions!At
  <2>2. Actions!TreeTypeOK' /\ Actions!UnbornEmpty'
    BY <1>0, <1>1, <2>1, TreeKept
  <2>3. Actions!SparedBy(r)
    BY <1>0, <1>1, <2>1 DEF Actions!SparedBy, Actions!Clean, Actions!Restore
  <2>4. Actions!UnstagedBy(r)
    BY <2>1 DEF Actions!UnstagedBy, Actions!At
  <2>5. QED
    BY <1>8, <2>1, <2>2, <2>3, <2>4
<1>17. QED
  BY <1>4, <1>5, <1>6, <1>7, <1>9, <1>10, <1>11, <1>12, <1>13, <1>14, <1>15, <1>16

LEMMA ActionsStep ==
  Actions!ActionsInv /\ [Actions!Next]_(Actions!vars) => Actions!ActionsInv' /\ Actions!StepsSpare /\ Actions!UnstagedAsCommitted
<1> SUFFICES ASSUME Actions!ActionsInv, [Actions!Next]_(Actions!vars)
             PROVE  Actions!ActionsInv' /\ Actions!StepsSpare /\ Actions!UnstagedAsCommitted
  OBVIOUS
<1>1. ASSUME UNCHANGED s5, Actions!TreeTypeOK', Actions!UnbornEmpty'
      PROVE  Actions!ActionsInv' /\ Actions!StepsSpare /\ Actions!UnstagedAsCommitted
  <2>1. Actions!ActionsInv' /\ Actions!StepsSpare
    BY <1>1 DEF Actions!ActionsInv, Actions!TypeOK, Actions!RequestsOK,
       Actions!NamesFit, Actions!Named, Actions!StepsSpare
  <2>2. Actions!UnstagedAsCommitted
    BY <1>1 DEF Actions!UnstagedAsCommitted, Actions!UnstagedBy, Actions!At
  <2>3. QED
    BY <2>1, <2>2
<1>2. Actions!TreeTypeOK /\ Actions!UnbornEmpty
  BY DEF Actions!ActionsInv, Actions!TypeOK
<1>3. CASE Actions!Elsewhere /\ UNCHANGED s5
  <2>1. Actions!TreeTypeOK' /\ Actions!UnbornEmpty'
    <3>1. ASSUME NEW p \in GitPaths, Actions!Add({p}) \/ Actions!Reset({p}) \/ Actions!RmCached({p})
          PROVE  Actions!TreeTypeOK' /\ Actions!UnbornEmpty'
      BY <1>2, <3>1, TreeKept
    <3>2. QED
      BY <1>2, <1>3, <3>1, TreeKept DEF Actions!Elsewhere
  <2>2. QED
    BY <1>1, <1>3, <2>1
<1>4. CASE UNCHANGED Actions!vars
  <2>1. UNCHANGED Actions!tree /\ UNCHANGED s5
    BY <1>4 DEF Actions!vars
  <2>2. QED
    BY <1>1, <1>2, <2>1, TreeKept
<1>5. ASSUME NEW r \in Requests,
             \/ \E op \in Actions!Ops, paths \in SUBSET GitPaths, all \in BOOLEAN : Actions!Ask(r, op, paths, all)
             \/ Actions!Fails(r) \/ Actions!Stage(r) \/ Actions!CheckHead(r) \/ Actions!Unstage(r) \/ Actions!CheckDiscard(r)
             \/ Actions!DiscardFile(r) \/ Actions!DiscardAll(r) \/ Actions!DiscardRest(r) \/ Actions!DiscardCut(r)
             \/ Actions!CommitIndex(r) \/ Actions!PullHead(r) \/ Actions!Remote(r) \/ Actions!Respond(r)
      PROVE  Actions!ActionsInv' /\ Actions!StepsSpare /\ Actions!UnstagedAsCommitted
  <2>1. /\ Actions!ActionsInv' /\ Actions!SparedBy(r) /\ Actions!UnstagedBy(r)
        /\ \A u \in Requests \ {r} : s5'[u] = s5[u]
    BY <1>5, RequestSpares
  <2>2. Actions!StepsSpare
    BY <2>1 DEF Actions!StepsSpare
  <2>3. ASSUME NEW u \in Requests PROVE Actions!UnstagedBy(u)
    <3>1. CASE u = r
      BY <2>1, <3>1
    <3>2. CASE u # r
      BY <2>1, <3>2 DEF Actions!UnstagedBy, Actions!At
    <3>3. QED
      BY <3>1, <3>2
  <2>4. QED
    BY <2>1, <2>2, <2>3 DEF Actions!UnstagedAsCommitted
<1>6. QED
  BY <1>3, <1>4, <1>5 DEF Actions!Next

\* A Git action spares the files and paths it is not about, however stale its
\* answers are, and what it unstages is as committed (server/git/actions.rs).
THEOREM ServerGitActions == SuiteSpec => GitActionsSpare
<1> DEFINE Keeps == focus = "gitActions" => Actions!ActionsInv
<1>1. SuiteInit => Keeps
  BY ActionsInit DEF SuiteInit, FocusInit
<1>2. Keeps /\ [SuiteNext]_suite =>
        Keeps' /\ (focus = "gitActions" => Actions!StepsSpare /\ Actions!UnstagedAsCommitted)
  <2> SUFFICES ASSUME Keeps, [SuiteNext]_suite, focus = "gitActions"
               PROVE  Actions!ActionsInv' /\ Actions!StepsSpare /\ Actions!UnstagedAsCommitted
    BY DEF SuiteNext, suite
  <2>1. Actions!ActionsInv
    OBVIOUS
  <2>2. [Actions!Next]_(Actions!vars)
    BY DEF SuiteNext, FocusNext, suite, Actions!vars, Actions!tree
  <2>3. QED
    BY <2>1, <2>2, ActionsStep
<1>3. QED
  BY <1>1, <1>2, PTL DEF SuiteSpec, GitActionsSpare

-----------------------------------------------------------------------------
(***************************************************************************)
(* The size control of a shared terminal (TerminalControl)                 *)
(***************************************************************************)

\* The list of clients without the one at a position.
LEMMA ClientRemoved ==
  ASSUME NEW q \in Seq(Control!Client), NEW p \in DOMAIN q
  PROVE  /\ Control!Without(q, p) \in Seq(Control!Client)
         /\ Len(Control!Without(q, p)) = Len(q) - 1
         /\ Control!Without(q, p) # <<>> => Control!Without(q, p)[1] = IF p = 1 THEN q[2] ELSE q[1]
<1> DEFINE a == SubSeq(q, 1, p - 1)
           b == SubSeq(q, p + 1, Len(q))
<1>1. Len(q) \in Nat /\ p \in 1 .. Len(q)
  OBVIOUS
<1>2. a \in Seq(Control!Client) /\ Len(a) = p - 1 /\ (p # 1 => a[1] = q[1])
  <2>1. \A i \in 1 .. p - 1 : q[i] \in Control!Client
    BY <1>1
  <2>2. /\ a \in Seq(Control!Client) /\ Len(a) = IF 1 <= p - 1 THEN (p - 1) - 1 + 1 ELSE 0
        /\ \A i \in 1 .. (p - 1) - 1 + 1 : a[i] = q[1 + i - 1]
    BY <1>1, <2>1, SubSeqProperties
  <2>3. QED
    BY <1>1, <2>2
<1>3. b \in Seq(Control!Client) /\ Len(b) = Len(q) - p /\ (p # Len(q) => b[1] = q[p + 1])
  <2>1. \A i \in p + 1 .. Len(q) : q[i] \in Control!Client
    BY <1>1
  <2>2. /\ b \in Seq(Control!Client) /\ Len(b) = IF p + 1 <= Len(q) THEN Len(q) - (p + 1) + 1 ELSE 0
        /\ \A i \in 1 .. Len(q) - (p + 1) + 1 : b[i] = q[p + 1 + i - 1]
    BY <1>1, <2>1, SubSeqProperties
  <2>3. QED
    BY <1>1, <2>2
<1> HIDE DEF a, b
<1>4. /\ a \o b \in Seq(Control!Client) /\ Len(a \o b) = Len(a) + Len(b)
      /\ \A i \in 1 .. Len(a) + Len(b) : (a \o b)[i] = IF i <= Len(a) THEN a[i] ELSE b[i - Len(a)]
  BY <1>2, <1>3, ConcatProperties
<1>5. Control!Without(q, p) = a \o b
  BY DEF Control!Without, a, b
<1>6. ASSUME a \o b # <<>> PROVE (a \o b)[1] = IF p = 1 THEN q[2] ELSE q[1]
  <2>1. Len(a) + Len(b) \in Nat \ {0}
    BY <1>4, <1>6, EmptySeq
  <2>2. (a \o b)[1] = IF 1 <= Len(a) THEN a[1] ELSE b[1 - Len(a)]
    BY <1>4, <2>1
  <2>3. QED
    BY <1>1, <1>2, <1>3, <2>1, <2>2
<1>7. Len(a \o b) = Len(q) - 1
  BY ONLY <1>1, <1>2, <1>3, <1>4
<1>8. QED
  BY ONLY <1>4, <1>5, <1>6, <1>7

LEMMA ControlInit == Control!Init => Control!ControlInv
<1> SUFFICES ASSUME Control!Init PROVE Control!ControlInv
  OBVIOUS
<1>1. Control!ClientsOK /\ Control!SizesOK
  BY DEF Control!Init, Control!ClientsOK, Control!SizesOK, Control!AnySize
<1>2. Control!TasksOK
  BY DEF Control!Init, Control!TasksOK, Control!Call, Control!Phase
<1>3. Control!CountsOK
  <2>1. s6 = 0 /\ 0 \in 0 .. MaxResizes
    BY SuiteAssumptions DEF Control!Init, Control!ResizesAssumption
  <2>2. s7 \in BOOLEAN
    BY Zenon DEF Control!Init
  <2>3. QED
    BY <2>1, <2>2 DEF Control!CountsOK
<1>4. \A t \in Tasks : ~Control!Applying(t)
  BY DEF Control!Init, Control!Applying
<1>5. QED
  BY <1>1, <1>2, <1>3, <1>4 DEF Control!Init, Control!ControlInv, Control!TypeOK,
     Control!AppliesSize, Control!OneApplies,
     Control!SerialControl, Control!ControllerSizeApplied

\* A call that returns, or never has to apply anything.
LEMMA CallReturns ==
  ASSUME Control!ControlInv, NEW t \in Tasks, NEW v \in Control!Call, v.phase \notin {"parser", "pty"},
         s5' = [s5 EXCEPT ![t] = v],
         Control!ClientsOK', Control!SizesOK', Control!CountsOK', s7' = s7,
         ~s7 /\ Control!Applying(t) => Control!ControllerSizeApplied',
         ~Control!Applying(t) => UNCHANGED <<s3, s4>>,
         ~Control!Applying(t) /\ s1' # <<>> /\ s1'[1].size # NoSize =>
           s1 # <<>> /\ s1[1].size = s1'[1].size
  PROVE  Control!ControlInv'
<1>1. Control!TasksOK /\ Control!AppliesSize /\ Control!OneApplies /\ Control!SerialControl
  BY DEF Control!ControlInv, Control!TypeOK
<1>2. s5'[t] = v /\ \A u \in Tasks \ {t} : s5'[u] = s5[u]
  BY <1>1 DEF Control!TasksOK
<1>3. /\ ~Control!Applying(t)'
      /\ \A u \in Tasks \ {t} : Control!Applying(u)' <=> Control!Applying(u)
  BY <1>2 DEF Control!Applying
<1>4. Control!TypeOK'
  <2>1. Control!TasksOK'
    BY <1>1 DEF Control!TasksOK
  <2>2. QED
    BY <2>1 DEF Control!TypeOK
<1>5. Control!AppliesSize'
  BY <1>1, <1>2, <1>3 DEF Control!AppliesSize
<1>6. Control!OneApplies'
  <2> SUFFICES ASSUME ~s7, NEW u \in Tasks \ {t}, Control!Applying(u) PROVE Control!AppliesFor(u)'
    BY <1>3 DEF Control!OneApplies
  <2>1. Control!AppliesFor(u)
    BY <1>1 DEF Control!OneApplies
  <2>2. ~Control!Applying(t)
    BY <2>1 DEF Control!AppliesFor
  <2>3. s5'[u] = s5[u] /\ \A x \in Tasks : Control!Applying(x)' => x = u
    BY <1>2, <1>3, <2>1 DEF Control!AppliesFor
  <2>4. QED
    BY <2>1, <2>2, <2>3 DEF Control!AppliesFor
<1>7. Control!SerialControl'
  <2> SUFFICES ASSUME ~s7, Control!Quiet' PROVE Control!ControllerSizeApplied'
    BY DEF Control!SerialControl, Control!ControllerSizeApplied
  <2>1. CASE Control!Applying(t)
    BY <2>1
  <2>2. CASE ~Control!Applying(t)
    <3>1. Control!Quiet
      BY <1>3, <2>2 DEF Control!Quiet
    <3>2. Control!ControllerSizeApplied
      BY <1>1 DEF Control!SerialControl
    <3>3. QED
      BY <2>2, <3>1, <3>2 DEF Control!ControllerSizeApplied
  <2>3. QED
    BY <2>1, <2>2
<1>8. QED
  BY <1>4, <1>5, <1>6, <1>7 DEF Control!ControlInv

\* A call that goes on with a size: if no other one applies, it is the size
\* of whoever is in control then.
LEMMA CallApplies ==
  ASSUME Control!ControlInv, NEW t \in Tasks, NEW v \in Control!Call, v.phase \in {"parser", "pty"},
         v.size # NoSize,
         s5' = [s5 EXCEPT ![t] = v], Control!ClientsOK', Control!SizesOK', Control!CountsOK',
         s7' = (s7 \/ \E u \in Tasks \ {t} : Control!Applying(u)),
         ~s7' => /\ s1' # <<>> /\ s1'[1].size # NoSize => s1'[1].size = v.size
                 /\ v.phase = "pty" => s3' = v.size
  PROVE  Control!ControlInv'
<1>1. Control!TasksOK /\ Control!AppliesSize
  BY DEF Control!ControlInv, Control!TypeOK
<1>2. s5'[t] = v /\ \A u \in Tasks \ {t} : s5'[u] = s5[u]
  BY <1>1 DEF Control!TasksOK
<1>3. /\ Control!Applying(t)'
      /\ \A u \in Tasks \ {t} : Control!Applying(u)' <=> Control!Applying(u)
  BY <1>2 DEF Control!Applying
<1>4. Control!TypeOK'
  <2>1. Control!TasksOK'
    BY <1>1 DEF Control!TasksOK
  <2>2. QED
    BY <2>1 DEF Control!TypeOK
<1>5. Control!AppliesSize'
  BY <1>1, <1>2, <1>3 DEF Control!AppliesSize
<1>6. ~s7' => \A u \in Tasks : Control!Applying(u)' => u = t
  BY <1>3
<1>7. ~s7' => Control!AppliesFor(t)'
  BY <1>2, <1>6 DEF Control!AppliesFor
<1>8. Control!OneApplies'
  <2> SUFFICES ASSUME ~s7', NEW u \in Tasks, Control!Applying(u)' PROVE Control!AppliesFor(u)'
    BY DEF Control!OneApplies
  <2>1. u = t
    BY <1>6
  <2>2. QED
    BY ONLY <1>7, <2>1, ~s7' DEF Control!AppliesFor, Control!Applying
<1>9. Control!SerialControl'
  BY <1>3 DEF Control!SerialControl, Control!ControllerSizeApplied, Control!Quiet
<1>10. QED
  BY <1>4, <1>5, <1>8, <1>9 DEF Control!ControlInv

\* What Proceed makes of the call.
LEMMA CallProceeds ==
  ASSUME Control!ControlInv, NEW t \in Tasks, s5[t].phase = "attached",
         NEW size \in Sizes \cup {NoSize}, NEW leaving \in BOOLEAN, Control!Proceed(t, size, leaving),
         Control!ClientsOK', UNCHANGED <<s3, s4>>, s6' \in 0 .. MaxResizes,
         IF size # NoSize
         THEN s1' # <<>> /\ s1'[1].size # NoSize => s1'[1].size = size
         ELSE s1' # <<>> /\ s1'[1].size # NoSize => s1 # <<>> /\ s1[1].size = s1'[1].size
  PROVE  Control!ControlInv'
<1>1. Control!TasksOK /\ Control!SizesOK /\ Control!CountsOK /\ s5[t] \in Control!Call /\ ~Control!Applying(t)
  BY DEF Control!ControlInv, Control!TypeOK, Control!TasksOK, Control!Applying
<1>2. Control!SizesOK'
  BY <1>1 DEF Control!SizesOK
<1>3. s7' = (s7 \/ (size # NoSize /\ \E u \in Tasks : Control!Applying(u)))
  BY DEF Control!Proceed
<1>4. Control!CountsOK'
  <2>1. s7' \in BOOLEAN
    BY ONLY <1>3, Zenon
  <2>2. QED
    BY <2>1 DEF Control!CountsOK
<1>5. PICK phase \in Control!Phase : phase = IF size # NoSize THEN "parser"
                                         ELSE IF leaving THEN "done" ELSE "attached"
  BY DEF Control!Phase
<1>6. PICK v \in Control!Call : v = [s5[t] EXCEPT !.size = size, !.leaving = leaving, !.phase = phase]
  BY <1>1 DEF Control!Call
<1>7. v.size = size /\ v.phase = phase
  BY <1>1, <1>6 DEF Control!Call
<1>8. s5' = [s5 EXCEPT ![t] = v]
  <2>1. s5' = [s5 EXCEPT ![t].size = size, ![t].leaving = leaving, ![t].phase = phase]
    BY <1>5 DEF Control!Proceed
  <2>2. QED
    BY <1>1, <1>6, <2>1 DEF Control!TasksOK, Control!Call
<1>9. CASE size = NoSize
  <2>1. v.phase \notin {"parser", "pty"}
    BY <1>5, <1>7, <1>9
  <2>2. s7' = s7
    BY <1>1, <1>3, <1>9 DEF Control!CountsOK
  <2>3. QED
    BY <1>1, <1>2, <1>4, <1>8, <1>9, <2>1, <2>2, CallReturns
<1>10. CASE size # NoSize
  <2>1. v.phase = "parser"
    BY <1>5, <1>7, <1>10
  <2>2. s7' = (s7 \/ \E u \in Tasks \ {t} : Control!Applying(u))
    BY <1>1, <1>3, <1>10
  <2>3. QED
    BY <1>2, <1>4, <1>7, <1>8, <1>10, <2>1, <2>2, CallApplies
<1>11. QED
  BY <1>9, <1>10

\* Clients come and ask.
LEMMA ClientSteps ==
  ASSUME Control!ControlInv, NEW t \in Tasks, Control!Attach(t) \/ Control!Resize(t) \/ Control!Detach(t)
  PROVE  Control!ControlInv'
<1>1. /\ Control!ClientsOK /\ Control!SizesOK /\ Control!TasksOK /\ Control!CountsOK /\ s5[t] \in Control!Call
      /\ s1 \in Seq(Control!Client) /\ s2 \in Nat
  BY DEF Control!ControlInv, Control!TypeOK, Control!TasksOK, Control!ClientsOK
<1>2. NoSize \notin Sizes
  BY SuiteAssumptions DEF Control!SizeAssumption
<1>3. CASE Control!Attach(t)
  <2>1. PICK c \in Control!Client : c = [id |-> s2 + 1, size |-> NoSize]
    <3>1. s2 + 1 \in Nat \ {0}
      BY <1>1
    <3>2. QED
      BY <3>1 DEF Control!Client
  <2>2. /\ s5[t].phase = "new" /\ s1' = Append(s1, c) /\ UNCHANGED <<s3, s4, s6, s7>>
        /\ s2' = s2 + 1
    BY <1>3, <2>1 DEF Control!Attach
  <2>3. /\ s1' \in Seq(Control!Client) /\ \A i \in 1 .. Len(s1) : s1'[i] = s1[i]
        /\ s1'[Len(s1) + 1] = c
    BY <1>1, <2>2, AppendProperties
  <2>4. s1'[1].size # NoSize => s1 # <<>> /\ s1'[1] = s1[1]
    <3>1. CASE s1 = <<>>
      BY <2>1, <2>3, <3>1
    <3>2. CASE s1 # <<>>
      <4>1. 1 \in 1 .. Len(s1)
        BY <1>1, <3>2
      <4>2. QED
        BY <2>3, <3>2, <4>1
    <3>3. QED
      BY <3>1, <3>2
  <2>5. PICK v \in Control!Call : v = [s5[t] EXCEPT !.phase = "attached", !.id = s2 + 1]
    <3>1. s2 + 1 \in Nat /\ "attached" \in Control!Phase
      BY <1>1 DEF Control!Phase
    <3>2. QED
      BY <1>1, <3>1 DEF Control!Call
  <2>6. v.phase = "attached" /\ s5' = [s5 EXCEPT ![t] = v]
    BY <1>1, <1>3, <2>5 DEF Control!Attach, Control!TasksOK, Control!Call
  <2>7. Control!ClientsOK' /\ Control!SizesOK' /\ Control!CountsOK' /\ ~Control!Applying(t)
    BY <1>1, <2>2, <2>3 DEF Control!ClientsOK, Control!SizesOK, Control!CountsOK,
       Control!Applying
  <2>8. QED
    BY <2>2, <2>4, <2>6, <2>7, CallReturns
<1>4. CASE Control!Resize(t)
  <2>1. /\ s5[t].phase = "attached" /\ s6 < MaxResizes /\ s6' = s6 + 1 /\ UNCHANGED <<s2, s3, s4>>
        /\ \E p \in DOMAIN s1, size \in Sizes :
             /\ s1' = [s1 EXCEPT ![p].size = size]
             /\ Control!Proceed(t, IF p = 1 THEN size ELSE NoSize, FALSE)
    BY <1>4 DEF Control!Resize
  <2>2. PICK p \in DOMAIN s1, size \in Sizes :
             /\ s1' = [s1 EXCEPT ![p].size = size]
             /\ Control!Proceed(t, IF p = 1 THEN size ELSE NoSize, FALSE)
    BY <2>1
  <2>3. PICK c \in Control!Client : c = [s1[p] EXCEPT !.size = size]
    <3>1. s1[p] \in Control!Client
      BY <1>1
    <3>2. QED
      BY <3>1 DEF Control!Client
  <2>4. c.size = size
    <3>1. s1[p] \in Control!Client
      BY <1>1
    <3>2. QED
      BY <2>3, <3>1 DEF Control!Client
  <2>5. s1' = [s1 EXCEPT ![p] = c]
    BY <1>1, <2>2, <2>3
  <2>6. s1' \in Seq(Control!Client) /\ Len(s1') = Len(s1) /\ \A i \in 1 .. Len(s1) : s1'[i] = IF i = p THEN c ELSE s1[i]
    BY <1>1, <2>5, ExceptSeq
  <2>7. 1 \in 1 .. Len(s1) /\ s1 # <<>>
    BY <1>1
  <2>8. s1'[1] = IF p = 1 THEN c ELSE s1[1]
    BY <2>6, <2>7
  <2>9. Control!ClientsOK' /\ s6' \in 0 .. MaxResizes
    BY <1>1, <2>1, <2>6, SuiteAssumptions DEF Control!ClientsOK, Control!CountsOK,
       Control!ResizesAssumption
  <2>10. PICK applied \in Sizes \cup {NoSize} : applied = IF p = 1 THEN size ELSE NoSize
    OBVIOUS
  <2>11. Control!Proceed(t, applied, FALSE)
    BY <2>2, <2>10
  <2>12. IF applied # NoSize
         THEN s1' # <<>> /\ s1'[1].size # NoSize => s1'[1].size = applied
         ELSE s1' # <<>> /\ s1'[1].size # NoSize => s1 # <<>> /\ s1[1].size = s1'[1].size
    BY <1>2, <2>4, <2>7, <2>8, <2>10
  <2>13. QED
    BY <2>1, <2>9, <2>11, <2>12, CallProceeds
<1>5. CASE Control!Detach(t)
  <2>1. PICK p \in DOMAIN s1 : s1' = Control!Without(s1, p) /\ Control!Proceed(t, Control!HandedOn(s1, p), TRUE)
    BY <1>5 DEF Control!Detach
  <2>2. s5[t].phase = "attached" /\ UNCHANGED <<s2, s3, s4, s6>>
    BY <1>5 DEF Control!Detach
  <2>3. /\ s1' \in Seq(Control!Client) /\ Len(s1') = Len(s1) - 1
        /\ s1' # <<>> => s1'[1] = IF p = 1 THEN s1[2] ELSE s1[1]
    BY <1>1, <2>1, ClientRemoved
  <2>4. PICK applied : applied = Control!HandedOn(s1, p)
    OBVIOUS
  <2>5. applied \in Sizes \cup {NoSize}
    <3>1. Len(s1) > 1 => s1[2] \in Control!Client
      BY <1>1
    <3>2. QED
      BY <2>4, <3>1 DEF Control!HandedOn, Control!Client
  <2>6. s1' # <<>> => Len(s1) > 1 /\ s1 # <<>>
    BY <1>1, <2>3
  <2>7. IF applied # NoSize
        THEN s1' # <<>> /\ s1'[1].size # NoSize => s1'[1].size = applied
        ELSE s1' # <<>> /\ s1'[1].size # NoSize => s1 # <<>> /\ s1[1].size = s1'[1].size
    BY <2>3, <2>4, <2>6 DEF Control!HandedOn
  <2>8. Control!ClientsOK' /\ s6' \in 0 .. MaxResizes
    BY <1>1, <2>2, <2>3 DEF Control!ClientsOK, Control!CountsOK
  <2>9. QED
    BY <2>1, <2>2, <2>4, <2>5, <2>7, <2>8, CallProceeds
<1>6. QED
  BY <1>3, <1>4, <1>5

\* The parser and the PTY take the size, one after the other.
LEMMA SizeSteps ==
  ASSUME Control!ControlInv, NEW t \in Tasks, Control!ResizeParser(t) \/ Control!ResizePty(t)
  PROVE  Control!ControlInv'
<1>1. /\ Control!ClientsOK /\ Control!SizesOK /\ Control!TasksOK /\ Control!CountsOK /\ s5[t] \in Control!Call
      /\ Control!AppliesSize /\ Control!OneApplies
  BY DEF Control!ControlInv, Control!TypeOK, Control!TasksOK
<1>2. UNCHANGED <<s1, s2, s6, s7>> /\ Control!Applying(t)
  BY DEF Control!ResizeParser, Control!ResizePty, Control!Applying
<1>3. s5[t].size # NoSize /\ s5[t].size \in Sizes
  BY <1>1, <1>2 DEF Control!AppliesSize, Control!Call
<1>4. Control!ClientsOK' /\ Control!CountsOK'
  BY <1>1, <1>2 DEF Control!ClientsOK, Control!CountsOK
<1>5. ~s7 => Control!AppliesFor(t)
  BY <1>1, <1>2 DEF Control!OneApplies
<1>6. CASE Control!ResizeParser(t)
  <2>1. s3' = s5[t].size /\ s4' = s4 /\ s5' = [s5 EXCEPT ![t].phase = "pty"]
    BY <1>6 DEF Control!ResizeParser
  <2>2. PICK v \in Control!Call : v = [s5[t] EXCEPT !.phase = "pty"]
    BY <1>1 DEF Control!Call, Control!Phase
  <2>3. v.phase = "pty" /\ v.size = s5[t].size /\ s5' = [s5 EXCEPT ![t] = v]
    BY <1>1, <2>1, <2>2 DEF Control!TasksOK, Control!Call
  <2>4. Control!SizesOK'
    BY <1>1, <1>3, <2>1 DEF Control!SizesOK, Control!AnySize
  <2>5. s7' = (s7 \/ \E u \in Tasks \ {t} : Control!Applying(u))
    <3>1. s7 \in BOOLEAN
      BY <1>1 DEF Control!CountsOK
    <3>2. ~s7 => ~(\E u \in Tasks \ {t} : Control!Applying(u))
      BY <1>5 DEF Control!AppliesFor
    <3>3. QED
      BY <1>2, <3>1, <3>2
  <2>6. ~s7' => (s1' # <<>> /\ s1'[1].size # NoSize => s1'[1].size = v.size)
    BY <1>2, <1>5, <2>3 DEF Control!AppliesFor
  <2>7. QED
    BY <1>3, <1>4, <2>1, <2>3, <2>4, <2>5, <2>6, CallApplies
<1>7. CASE Control!ResizePty(t)
  <2>1. PICK phase \in Control!Phase : /\ phase = IF s5[t].leaving THEN "done" ELSE "attached"
                                 /\ phase \notin {"parser", "pty"}
    BY DEF Control!Phase
  <2>2. /\ s4' = s5[t].size /\ s3' = s3 /\ s5[t].phase = "pty"
        /\ s5' = [s5 EXCEPT ![t].phase = phase, ![t].size = NoSize]
    BY <1>7, <2>1 DEF Control!ResizePty
  <2>3. PICK v \in Control!Call : v = [s5[t] EXCEPT !.phase = phase, !.size = NoSize]
    BY <1>1 DEF Control!Call
  <2>4. v.phase = phase /\ s5' = [s5 EXCEPT ![t] = v]
    BY <1>1, <2>2, <2>3 DEF Control!TasksOK, Control!Call
  <2>5. Control!SizesOK'
    BY <1>1, <1>3, <2>2 DEF Control!SizesOK, Control!AnySize
  <2>6. ~s7 => Control!ControllerSizeApplied'
    BY <1>2, <1>5, <2>2 DEF Control!AppliesFor, Control!ControllerSizeApplied
  <2>7. QED
    BY <1>2, <1>4, <2>1, <2>4, <2>5, <2>6, CallReturns
<1>8. QED
  BY <1>6, <1>7

LEMMA ControlStep == Control!ControlInv /\ [Control!Next]_(Control!vars) => Control!ControlInv'
<1> SUFFICES ASSUME Control!ControlInv, [Control!Next]_(Control!vars) PROVE Control!ControlInv'
  OBVIOUS
<1>1. ASSUME NEW t \in Tasks, Control!Step(t) PROVE Control!ControlInv'
  BY <1>1, ClientSteps, SizeSteps DEF Control!Step
<1>2. CASE UNCHANGED Control!vars
  BY <1>2 DEF Control!vars, Control!ControlInv, Control!TypeOK, Control!ClientsOK,
     Control!SizesOK, Control!TasksOK, Control!CountsOK,
     Control!AppliesSize, Control!OneApplies, Control!AppliesFor, Control!SerialControl, Control!ControllerSizeApplied, Control!Quiet,
     Control!Applying
<1>3. QED
  BY <1>1, <1>2 DEF Control!Next

\* As long as calls do not overlap, a terminal has the size its controller said
\* last, over every hand-over (terminal.rs:352-398, 699-718).
THEOREM ServerControl == SuiteSpec => []ControlSerial
<1> DEFINE Keeps == focus = "control" => Control!ControlInv
<1>1. SuiteInit => Keeps
  BY ControlInit DEF SuiteInit, FocusInit
<1>2. Keeps /\ [SuiteNext]_suite => Keeps'
  <2> SUFFICES ASSUME Keeps, [SuiteNext]_suite, focus' = "control"
               PROVE  Control!ControlInv'
    OBVIOUS
  <2>1. Control!ControlInv
    BY DEF SuiteNext, suite
  <2>2. [Control!Next]_(Control!vars)
    BY DEF SuiteNext, FocusNext, suite, Control!vars
  <2>3. QED
    BY <2>1, <2>2, ControlStep
<1>3. Keeps => ControlSerial
  BY DEF ControlSerial, Control!ControlInv
<1>4. QED
  BY <1>1, <1>2, <1>3, PTL DEF SuiteSpec

=============================================================================
