--------------------------- MODULE WorkspaceProofs ---------------------------
(***************************************************************************)
(* Theorems of the suite about the terminal sessions of a process and the  *)
(* launches of T3 Code, and about what a browser sees of a project: its    *)
(* files, and the reports and the history of git.  The invariants of       *)
(* TerminalManager, T3Launch, FileService, GitReports and GitHistory,      *)
(* their initial states and their steps, proved for every number of        *)
(* sessions, launches, projects, entries, paths and versions.              *)
(***************************************************************************)
EXTENDS MCServer, FiniteSetTheorems, SequenceTheorems, TLAPS

-----------------------------------------------------------------------------
(***************************************************************************)
(* Terminal sessions by scope (TerminalManager)                            *)
(***************************************************************************)

\* Cardinality is the same operator wherever its module is instantiated.
LEMMA CountedAlike == \A S : Terminals!Cardinality(S) = Cardinality(S)
BY DEF Cardinality, Terminals!Cardinality, IsFiniteSet, Terminals!IsFiniteSet

\* Sets of sessions can be counted, and a set that is not all has fewer.
LEMMA SessionsCounted ==
  ASSUME NEW S \in SUBSET Terminals!Ids
  PROVE  /\ IsFiniteSet(S) /\ Terminals!Cardinality(S) \in Nat
         /\ Terminals!Cardinality(Terminals!Ids) \in Nat /\ Terminals!Cardinality(S) <= Terminals!Cardinality(Terminals!Ids)
         /\ \A i \in Terminals!Ids \ S : Terminals!Cardinality(S) < Terminals!Cardinality(Terminals!Ids)
<1>1. IsFiniteSet(Terminals!Ids) /\ Terminals!Cardinality(Terminals!Ids) \in Nat
  <2>1. MaxSessions \in Int /\ 1 \in Int
    BY SuiteAssumptions DEF Terminals!TerminalsAssumption
  <2>2. IsFiniteSet(Terminals!Ids)
    BY <2>1, FS_Interval DEF Terminals!Ids
  <2>3. QED
    BY <2>2, FS_CardinalityType, CountedAlike
<1>2. /\ IsFiniteSet(S) /\ Terminals!Cardinality(S) <= Terminals!Cardinality(Terminals!Ids)
      /\ Terminals!Cardinality(S) = Terminals!Cardinality(Terminals!Ids) => S = Terminals!Ids
  BY <1>1, FS_Subset, CountedAlike
<1>3. Terminals!Cardinality(S) \in Nat
  BY <1>2, FS_CardinalityType, CountedAlike
<1>4. QED
  BY <1>1, <1>2, <1>3

LEMMA TerminalsInit == Terminals!Init => Terminals!TerminalsInv
<1> SUFFICES ASSUME Terminals!Init PROVE Terminals!TerminalsInv
  OBVIOUS
<1>1. s3 = {} /\ s5 = {} /\ s6 = {} /\ \A c \in Clients : s4[c] = Terminals!Idle
  BY DEF Terminals!Init
<1>2. Terminals!Listed("root") = {} /\ Terminals!Listed("project") = {}
  BY <1>1 DEF Terminals!Listed
<1>3. 0 \in 0..Terminals!Cardinality(Terminals!Ids)
  BY SessionsCounted, Terminals!Ids \in SUBSET Terminals!Ids
<1>4. Terminals!NoSession \in Terminals!Session /\ Terminals!Idle \in Terminals!Client
  BY <1>3 DEF Terminals!NoSession, Terminals!Session, Terminals!Idle, Terminals!Client, Terminals!Scopes,
              Terminals!NoId
<1>5. Terminals!TypeOK
  BY <1>4 DEF Terminals!Init, Terminals!TypeOK, Terminals!ListsOK, Terminals!SessionsOK, Terminals!ClientsOK
<1>6. \A c \in Clients : s4[c].stage = "idle"
  BY <1>1 DEF Terminals!Idle
<1>7. Terminals!HandsRight
  BY <1>1, <1>6 DEF Terminals!HandsRight, Terminals!Holds
<1>8. Terminals!TitlesCount /\ Terminals!TitlesDistinct
  BY <1>2, <1>6 DEF Terminals!TitlesCount, Terminals!Counts, Terminals!TitlesDistinct, Terminals!Scopes
<1>9. Terminals!ShellsReachable /\ Terminals!ScopeKept /\ Terminals!AliveTold
  BY <1>1, <1>6 DEF Terminals!Init, Terminals!ShellsReachable, Terminals!ScopeKept, Terminals!AliveTold
<1>10. QED
  BY <1>5, <1>7, <1>8, <1>9 DEF Terminals!TerminalsInv

\* What a step that makes no session and lists none may do to the sessions.
TerminalsGoOn ==
  \A i \in Terminals!Made :
    /\ i \in Terminals!Made'
    /\ s2'[i].scope = s2[i].scope /\ s2'[i].title = s2[i].title
    /\ s2[i].alive \/ s1[i] = "ended" => s2'[i].alive \/ s1'[i] = "ended"

\* What a handler holds, it still holds after a step of another.
LEMMA HoldsStays ==
  ASSUME NEW c \in Clients, Terminals!Holds(c), s4'[c] = s4[c], TerminalsGoOn,
         s4[c].stage = "spawned" => s4[c].id \notin s3',
         s4[c].stage = "counted" => s4[c].count <= Terminals!Cardinality(Terminals!Made')
  PROVE  Terminals!Holds(c)'
<1>1. /\ s4[c].stage \in {"spawned", "attached", "removed"}
            => s4[c].id \in Terminals!Made /\ s2[s4[c].id].scope = s4[c].scope
      /\ s4[c].stage = "spawned" => s2[s4[c].id].alive \/ s1[s4[c].id] = "ended"
  BY DEF Terminals!Holds
<1>2. /\ s4[c].stage \in {"spawned", "attached", "removed"}
            => s4[c].id \in Terminals!Made' /\ s2'[s4[c].id].scope = s4[c].scope
      /\ s4[c].stage = "spawned" => s2'[s4[c].id].alive \/ s1'[s4[c].id] = "ended"
  BY ONLY <1>1, TerminalsGoOn DEF TerminalsGoOn
<1>3. QED
  BY ONLY <1>2, s4'[c] = s4[c],
     s4[c].stage = "spawned" => s4[c].id \notin s3',
     s4[c].stage = "counted" => s4[c].count <= Terminals!Cardinality(Terminals!Made')
  DEF Terminals!Holds

\* The titles of a scope in which no session is listed and no creation begins or
\* goes on.
LEMMA CountsStays ==
  ASSUME Terminals!HandsRight, NEW scope \in Terminals!Scopes, Terminals!Counts(scope),
         TerminalsGoOn, Terminals!Listed(scope)' = Terminals!Listed(scope),
         \A c \in Clients : s4'[c] = s4[c] \/ s4'[c].stage \notin {"counted", "spawned"}
                                           \/ s4'[c].scope # scope
  PROVE  Terminals!Counts(scope)'
<1>1. \A i \in Terminals!Listed(scope) : i \in Terminals!Made /\ s2'[i].title = s2[i].title
  BY DEF Terminals!HandsRight, Terminals!Listed, TerminalsGoOn
<1>2. \A c \in Clients : s4[c].stage = "spawned" => s2'[s4[c].id].title = s2[s4[c].id].title
  BY DEF Terminals!HandsRight, Terminals!Holds, TerminalsGoOn
<1> DEFINE creating == {c \in Clients : s4[c].scope = scope /\ s4[c].stage \in {"counted", "spawned"}}
<1>3. creating' \subseteq creating /\ \A c \in creating' : s4'[c] = s4[c]
  OBVIOUS
<1>4. QED
  BY ONLY <1>1, <1>2, <1>3, Terminals!Counts(scope), Terminals!Listed(scope)' = Terminals!Listed(scope)
  DEF Terminals!Counts

LEMMA DistinctStays ==
  ASSUME Terminals!HandsRight, NEW scope \in Terminals!Scopes, scope \notin s6,
         Terminals!TitlesDistinct,
         TerminalsGoOn, Terminals!Listed(scope)' = Terminals!Listed(scope)
  PROVE  \A i, j \in Terminals!Listed(scope)' : s2'[i].title = s2'[j].title => i = j
<1>1. \A i \in Terminals!Listed(scope) : i \in Terminals!Made /\ s2'[i].title = s2[i].title
  BY DEF Terminals!HandsRight, Terminals!Listed, TerminalsGoOn
<1>2. QED
  BY <1>1 DEF Terminals!TitlesDistinct

\* A step that leaves the list as it is and makes no session: what has to be
\* shown of it is what it does to the types, to those who hold something, and to
\* what can be reached.
LEMMA QuietStep ==
  ASSUME Terminals!TerminalsInv, Terminals!TypeOK', UNCHANGED <<s3, s6>>, TerminalsGoOn,
         Terminals!Made' = Terminals!Made,
         \A c \in Clients : \/ s4'[c] = s4[c]
                            \/ s4'[c].stage \in {"idle", "attached"} /\ Terminals!Holds(c)',
         Terminals!ShellsReachable'
  PROVE  Terminals!TerminalsInv'
<1>1. Terminals!HandsRight /\ s3 \subseteq Terminals!Made /\ \A c \in Clients : Terminals!Holds(c)
  BY DEF Terminals!TerminalsInv, Terminals!HandsRight
<1>2. \A c \in Clients : Terminals!Holds(c)'
  <2> SUFFICES ASSUME NEW c \in Clients, s4'[c] = s4[c]
               PROVE  Terminals!Holds(c)'
    OBVIOUS
  <2>1. /\ s4[c].stage = "spawned" => s4[c].id \notin s3
        /\ s4[c].stage = "counted" => s4[c].count <= Terminals!Cardinality(Terminals!Made)
    BY <1>1 DEF Terminals!Holds
  <2>2. QED
    BY <1>1, <2>1, HoldsStays
<1>3. Terminals!HandsRight'
  <2>1. \A c \in Clients : s4'[c].stage = "spawned" => s4'[c] = s4[c]
    OBVIOUS
  <2>2. QED
    BY <1>1, <1>2, <2>1 DEF Terminals!HandsRight
<1>4. \A scope \in Terminals!Scopes : Terminals!Listed(scope)' = Terminals!Listed(scope)
  BY <1>1 DEF Terminals!Listed, TerminalsGoOn
<1>5. Terminals!TitlesCount'
  <2> SUFFICES ASSUME NEW scope \in Terminals!Scopes, scope \notin s6
               PROVE  Terminals!Counts(scope)'
    BY DEF Terminals!TitlesCount
  <2>1. Terminals!Counts(scope)
    BY DEF Terminals!TerminalsInv, Terminals!TitlesCount
  <2>2. QED
    BY <1>1, <1>4, <2>1, CountsStays
<1>6. Terminals!TitlesDistinct'
  <2> SUFFICES ASSUME NEW scope \in Terminals!Scopes, scope \notin s6
               PROVE  \A i, j \in Terminals!Listed(scope)' : s2'[i].title = s2'[j].title => i = j
    BY DEF Terminals!TitlesDistinct
  <2>1. QED
    BY <1>1, <1>4, DistinctStays DEF Terminals!TerminalsInv
<1>7. Terminals!ScopeKept'
  BY <1>2 DEF Terminals!ScopeKept, Terminals!Holds
<1>8. Terminals!AliveTold'
  BY <1>1 DEF Terminals!TerminalsInv, Terminals!AliveTold, TerminalsGoOn
<1>9. QED
  BY <1>3, <1>5, <1>6, <1>7, <1>8 DEF Terminals!TerminalsInv

\* A handler whose request is over.
LEMMA LeavesIdle ==
  ASSUME Terminals!TypeOK, NEW c \in Clients, Terminals!Leaves(c)
  PROVE  /\ Terminals!ClientsOK'
         /\ s4'[c].stage = "idle" /\ Terminals!Holds(c)'
         /\ \A d \in Clients \ {c} : s4'[d] = s4[d]
<1>1. 0 \in 0..Terminals!Cardinality(Terminals!Ids)
  BY SessionsCounted, Terminals!Ids \in SUBSET Terminals!Ids
<1>2. Terminals!Idle \in Terminals!Client /\ Terminals!Idle.stage = "idle"
  BY <1>1 DEF Terminals!Idle, Terminals!Client, Terminals!Scopes, Terminals!NoId
<1>3. s4'[c] = Terminals!Idle /\ \A d \in Clients \ {c} : s4'[d] = s4[d]
  BY DEF Terminals!TypeOK, Terminals!ClientsOK, Terminals!Leaves
<1>4. Terminals!ClientsOK'
  BY <1>2 DEF Terminals!TypeOK, Terminals!ClientsOK, Terminals!Leaves
<1>5. QED
  BY ONLY <1>2, <1>3, <1>4 DEF Terminals!Holds

\* The steps that end a request without a trace in the list.
LEMMA TerminalsLeave ==
  ASSUME Terminals!TerminalsInv, NEW c \in Clients,
         \/ Terminals!SpawnFails(c) \/ Terminals!Detach(c) \/ Terminals!Kill(c) \/ Terminals!GoAway(c)
  PROVE  Terminals!TerminalsInv'
<1> USE DEF Terminals!At
<1>1. Terminals!TypeOK /\ Terminals!HandsRight /\ Terminals!Holds(c) /\ Terminals!ShellsReachable
  BY DEF Terminals!TerminalsInv, Terminals!HandsRight
<1>2. /\ Terminals!ClientsOK'
      /\ s4'[c].stage = "idle" /\ Terminals!Holds(c)'
      /\ \A d \in Clients \ {c} : s4'[d] = s4[d]
  <2>1. Terminals!Leaves(c)
    BY DEF Terminals!SpawnFails, Terminals!Detach, Terminals!Kill, Terminals!GoAway
  <2>2. QED
    BY <1>1, <2>1, LeavesIdle
<1>3. s4[c].id \in Terminals!Ids \/ s4[c].stage \notin {"spawned", "removed"}
  BY <1>1 DEF Terminals!Holds, Terminals!Made
<1>4. CASE Terminals!SpawnFails(c) \/ Terminals!Detach(c)
  <2>1. UNCHANGED <<s1, s2, s3, s5, s6>> /\ s4[c].stage \notin {"spawned", "removed"}
    BY <1>4 DEF Terminals!SpawnFails, Terminals!Detach
  <2>2. Terminals!TypeOK'
    BY <1>1, <1>2, <2>1 DEF Terminals!TypeOK, Terminals!ListsOK, Terminals!SessionsOK
  <2>3. TerminalsGoOn /\ Terminals!Made' = Terminals!Made
    BY <2>1 DEF TerminalsGoOn, Terminals!Made
  <2>4. Terminals!ShellsReachable'
    BY <1>1, <1>2, <2>1 DEF Terminals!ShellsReachable, Terminals!InHand
  <2>5. QED
    BY <1>2, <2>1, <2>2, <2>3, <2>4, QuietStep
<1>5. CASE Terminals!Kill(c)
  <2> DEFINE i == s4[c].id
  <2>1. /\ UNCHANGED <<s3, s5, s6>> /\ s4[c].stage = "removed"
        /\ s2' = [s2 EXCEPT ![i].alive = FALSE] /\ s1' = [s1 EXCEPT ![i] = "ended"]
    BY <1>5 DEF Terminals!Kill
  <2>2. i \in Terminals!Ids /\ i \in Terminals!Made
    BY <1>1, <1>3, <2>1 DEF Terminals!Holds
  <2>3. Terminals!TypeOK'
    BY <1>1, <1>2, <2>1 DEF Terminals!TypeOK, Terminals!ListsOK, Terminals!SessionsOK, Terminals!Session
  <2>4. TerminalsGoOn /\ Terminals!Made' = Terminals!Made
    BY <1>1, <2>1, <2>2 DEF TerminalsGoOn, Terminals!Made, Terminals!TypeOK, Terminals!SessionsOK,
       Terminals!Session
  <2>5. Terminals!ShellsReachable'
    BY <1>1, <1>2, <2>1, <2>2 DEF Terminals!ShellsReachable, Terminals!InHand, Terminals!TypeOK,
       Terminals!SessionsOK
  <2>6. QED
    BY <1>2, <2>1, <2>3, <2>4, <2>5, QuietStep
<1>6. CASE Terminals!GoAway(c)
  <2>1. UNCHANGED <<s1, s2, s3, s6>> /\ s4[c].stage = "spawned" /\ s5' = s5 \cup {s4[c].id}
    BY <1>6 DEF Terminals!GoAway
  <2>2. Terminals!TypeOK'
    BY <1>1, <1>2, <1>3, <2>1 DEF Terminals!TypeOK, Terminals!ListsOK, Terminals!SessionsOK
  <2>3. TerminalsGoOn /\ Terminals!Made' = Terminals!Made
    BY <2>1 DEF TerminalsGoOn, Terminals!Made
  <2>4. Terminals!ShellsReachable'
    BY <1>1, <1>2, <2>1 DEF Terminals!ShellsReachable, Terminals!InHand
  <2>5. QED
    BY <1>2, <2>1, <2>2, <2>3, <2>4, QuietStep
<1>7. QED
  BY <1>4, <1>5, <1>6

\* The end of a shell, and of the reader of its output.
LEMMA TerminalsEnd ==
  ASSUME Terminals!TerminalsInv, NEW i \in Terminals!Ids, Terminals!Exit(i) \/ Terminals!ReaderEnds(i)
  PROVE  Terminals!TerminalsInv'
<1>1. UNCHANGED <<s3, s4, s5, s6>>
  BY DEF Terminals!Exit, Terminals!ReaderEnds
<1>2. \/ s1[i] = "running" /\ s1' = [s1 EXCEPT ![i] = "ended"] /\ s2' = s2
      \/ s1[i] = "ended" /\ s1' = s1 /\ s2' = [s2 EXCEPT ![i].alive = FALSE]
  BY DEF Terminals!Exit, Terminals!ReaderEnds
<1>3. Terminals!TypeOK
  BY DEF Terminals!TerminalsInv
<1>4. Terminals!TypeOK'
  BY <1>1, <1>2, <1>3 DEF Terminals!TypeOK, Terminals!ListsOK, Terminals!SessionsOK, Terminals!Session,
     Terminals!ClientsOK
<1>5. TerminalsGoOn /\ Terminals!Made' = Terminals!Made
  BY <1>2, <1>3 DEF TerminalsGoOn, Terminals!Made, Terminals!TypeOK, Terminals!SessionsOK,
     Terminals!Session
<1>6. Terminals!ShellsReachable'
  BY <1>1, <1>2, <1>3 DEF Terminals!TerminalsInv, Terminals!ShellsReachable, Terminals!InHand,
     Terminals!TypeOK, Terminals!SessionsOK
<1>7. QED
  BY <1>1, <1>4, <1>5, <1>6, QuietStep

\* A WebSocket finds its session in the list.
LEMMA TerminalsFind ==
  ASSUME Terminals!TerminalsInv, NEW c \in Clients, NEW scope \in Terminals!Scopes,
         NEW i \in Terminals!Ids, Terminals!Find(c, scope, i)
  PROVE  Terminals!TerminalsInv'
<1> DEFINE v == [Terminals!Idle EXCEPT !.stage = "attached", !.op = "open", !.scope = scope, !.id = i]
<1>1. UNCHANGED <<s1, s2, s3, s5, s6>> /\ s4' = [s4 EXCEPT ![c] = v] /\ s4[c].stage = "idle"
  BY DEF Terminals!Find, Terminals!At
<1>2. Terminals!TypeOK /\ Terminals!HandsRight /\ Terminals!ShellsReachable
  BY DEF Terminals!TerminalsInv
<1>3. i \in Terminals!Made /\ s2[i].scope = scope
  BY <1>2 DEF Terminals!Find, Terminals!Listed, Terminals!HandsRight
<1>4. v.stage = "attached" /\ v.scope = scope /\ v.id = i /\ v \in Terminals!Client
  <2>1. 0 \in 0..Terminals!Cardinality(Terminals!Ids)
    BY SessionsCounted, Terminals!Ids \in SUBSET Terminals!Ids
  <2>2. QED
    BY <2>1 DEF Terminals!Idle, Terminals!Client
<1>5. s4'[c] = v /\ \A d \in Clients \ {c} : s4'[d] = s4[d]
  BY <1>1, <1>2 DEF Terminals!TypeOK, Terminals!ClientsOK
<1>6. Terminals!Holds(c)'
  BY <1>1, <1>3, <1>4, <1>5 DEF Terminals!Holds, Terminals!Made
<1>7. Terminals!TypeOK'
  BY <1>1, <1>2, <1>4 DEF Terminals!TypeOK, Terminals!ListsOK, Terminals!SessionsOK, Terminals!ClientsOK
<1>8. TerminalsGoOn /\ Terminals!Made' = Terminals!Made
  BY <1>1 DEF TerminalsGoOn, Terminals!Made
<1>9. Terminals!ShellsReachable'
  BY <1>1, <1>2, <1>5 DEF Terminals!ShellsReachable, Terminals!InHand
<1>10. QED
  BY <1>1, <1>4, <1>5, <1>6, <1>7, <1>8, <1>9, QuietStep

\* A creation begins with a count of the sessions of its scope.
LEMMA TerminalsCount ==
  ASSUME Terminals!TerminalsInv, NEW c \in Clients, NEW scope \in Terminals!Scopes,
         NEW op \in {"create", "connect"}, Terminals!Count(c, op, scope)
  PROVE  Terminals!TerminalsInv'
<1> DEFINE size == Terminals!Cardinality(Terminals!Listed(scope))
           v == [Terminals!Idle EXCEPT !.stage = "counted", !.op = op, !.scope = scope, !.count = size]
           Creates(d) == s4[d].scope = scope /\ s4[d].stage \in {"counted", "spawned"}
<1>1. /\ UNCHANGED <<s1, s2, s3, s5>> /\ s4' = [s4 EXCEPT ![c] = v] /\ s4[c].stage = "idle"
      /\ s6' = IF \E d \in Clients : Creates(d) THEN s6 \cup {scope} ELSE s6
  BY DEF Terminals!Count, Terminals!At
<1>2. Terminals!TypeOK /\ Terminals!HandsRight /\ Terminals!TitlesCount
  BY DEF Terminals!TerminalsInv
<1>3. /\ Terminals!Listed(scope) \subseteq Terminals!Ids
      /\ Terminals!Listed(scope) \subseteq Terminals!Made
      /\ Terminals!Made \subseteq Terminals!Ids
  BY <1>2 DEF Terminals!HandsRight, Terminals!Listed, Terminals!Made
<1>4. size \in 0..Terminals!Cardinality(Terminals!Ids) /\ size <= Terminals!Cardinality(Terminals!Made)
  <2>1. size \in Nat /\ size <= Terminals!Cardinality(Terminals!Ids)
    BY <1>3, SessionsCounted
  <2>2. IsFiniteSet(Terminals!Made)
    BY <1>3, SessionsCounted
  <2>3. size <= Terminals!Cardinality(Terminals!Made)
    BY <1>3, <2>2, FS_Subset, CountedAlike
  <2>4. QED
    BY <2>1, <2>3, SessionsCounted, Terminals!Ids \in SUBSET Terminals!Ids
<1>5. v \in Terminals!Client /\ v.stage = "counted" /\ v.scope = scope /\ v.count = size
  BY <1>4 DEF Terminals!Idle, Terminals!Client, Terminals!NoId
<1>6. s4'[c] = v /\ \A d \in Clients \ {c} : s4'[d] = s4[d]
  BY <1>1, <1>2 DEF Terminals!TypeOK, Terminals!ClientsOK
<1>7. Terminals!TypeOK'
  BY <1>1, <1>2, <1>5 DEF Terminals!TypeOK, Terminals!ListsOK, Terminals!SessionsOK, Terminals!ClientsOK
<1>8. TerminalsGoOn /\ Terminals!Made' = Terminals!Made
  BY <1>1 DEF TerminalsGoOn, Terminals!Made
<1>9. \A d \in Clients : Terminals!Holds(d)'
  <2>1. Terminals!Holds(c)'
    BY <1>4, <1>5, <1>6, <1>8 DEF Terminals!Holds
  <2>2. ASSUME NEW d \in Clients \ {c} PROVE Terminals!Holds(d)'
    <3>1. Terminals!Holds(d)
      BY <1>2 DEF Terminals!HandsRight
    <3>2. s4[d].stage = "spawned" => s4[d].id \notin s3'
      BY <1>1, <3>1 DEF Terminals!Holds
    <3>3. s4[d].stage = "counted" => s4[d].count <= Terminals!Cardinality(Terminals!Made')
      BY <1>8, <3>1 DEF Terminals!Holds
    <3>4. QED
      BY <1>6, <1>8, <3>1, <3>2, <3>3, HoldsStays
  <2>3. QED
    BY <2>1, <2>2
<1>10. Terminals!HandsRight'
  <2>1. \A d \in Clients : s4'[d].stage = "spawned" => s4'[d] = s4[d]
    BY <1>5, <1>6
  <2>2. s3' \subseteq Terminals!Made'
    BY <1>1, <1>2, <1>8 DEF Terminals!HandsRight
  <2>3. QED
    BY <1>2, <1>9, <2>1, <2>2 DEF Terminals!HandsRight
<1>11. \A t \in Terminals!Scopes : Terminals!Listed(t)' = Terminals!Listed(t)
  BY <1>1 DEF Terminals!Listed
<1>12. Terminals!TitlesCount'
  <2> SUFFICES ASSUME NEW t \in Terminals!Scopes, t \notin s6'
               PROVE  Terminals!Counts(t)'
    BY DEF Terminals!TitlesCount
  <2>1. t \notin s6 /\ Terminals!Counts(t)
    BY <1>1, <1>2 DEF Terminals!TitlesCount
  <2>2. CASE t # scope
    BY <1>2, <1>5, <1>6, <1>8, <1>11, <2>1, <2>2, CountsStays
  <2>3. CASE t = scope
    <3>1. \A d \in Clients : ~Creates(d)
      BY <1>1, <2>3
    <3>2. \A d \in Clients : (s4'[d].scope = scope /\ s4'[d].stage \in {"counted", "spawned"}) => d = c
      BY <1>6, <3>1
    <3>3. \A i \in Terminals!Listed(scope) : s2'[i].title <= size
      BY <1>1, <2>1, <2>3 DEF Terminals!Counts
    <3>4. Terminals!Listed(scope)' = Terminals!Listed(scope)
      BY <1>11
    <3>5. QED
      BY ONLY <1>5, <1>6, <2>3, <3>2, <3>3, <3>4 DEF Terminals!Counts
  <2>4. QED
    BY <2>2, <2>3
<1>13. Terminals!TitlesDistinct'
  <2> SUFFICES ASSUME NEW t \in Terminals!Scopes, t \notin s6'
               PROVE  \A i, j \in Terminals!Listed(t)' : s2'[i].title = s2'[j].title => i = j
    BY DEF Terminals!TitlesDistinct
  <2>1. t \notin s6
    BY <1>1
  <2>2. QED
    BY <1>2, <1>8, <1>11, <2>1, DistinctStays DEF Terminals!TerminalsInv
<1>14. Terminals!ShellsReachable'
  BY <1>1, <1>6 DEF Terminals!TerminalsInv, Terminals!ShellsReachable, Terminals!InHand
<1>15. Terminals!ScopeKept'
  BY <1>9 DEF Terminals!ScopeKept, Terminals!Holds
<1>16. Terminals!AliveTold'
  BY <1>1 DEF Terminals!TerminalsInv, Terminals!AliveTold
<1>17. QED
  BY <1>7, <1>10, <1>12, <1>13, <1>14, <1>15, <1>16 DEF Terminals!TerminalsInv

\* A session is closed: it leaves the list and is in the hand of the closer.
LEMMA TerminalsRemove ==
  ASSUME Terminals!TerminalsInv, NEW c \in Clients, NEW scope \in Terminals!Scopes,
         NEW i \in Terminals!Ids, Terminals!Remove(c, scope, i)
  PROVE  Terminals!TerminalsInv'
<1> DEFINE v == [Terminals!Idle EXCEPT !.stage = "removed", !.op = "delete", !.scope = scope, !.id = i]
<1>1. /\ UNCHANGED <<s1, s2, s5>> /\ s4' = [s4 EXCEPT ![c] = v] /\ s4[c].stage = "idle"
      /\ s3' = s3 \ {i} /\ s6' = s6 \cup {scope}
  BY DEF Terminals!Remove, Terminals!At
<1>2. Terminals!TypeOK /\ Terminals!HandsRight /\ Terminals!TitlesCount
  BY DEF Terminals!TerminalsInv
<1>3. i \in Terminals!Made /\ s2[i].scope = scope
  BY <1>2 DEF Terminals!Remove, Terminals!Listed, Terminals!HandsRight
<1>4. v.stage = "removed" /\ v.scope = scope /\ v.id = i /\ v \in Terminals!Client
  <2>1. 0 \in 0..Terminals!Cardinality(Terminals!Ids)
    BY SessionsCounted, Terminals!Ids \in SUBSET Terminals!Ids
  <2>2. QED
    BY <2>1 DEF Terminals!Idle, Terminals!Client
<1>5. s4'[c] = v /\ \A d \in Clients \ {c} : s4'[d] = s4[d]
  BY <1>1, <1>2 DEF Terminals!TypeOK, Terminals!ClientsOK
<1>6. Terminals!TypeOK'
  BY <1>1, <1>2, <1>4 DEF Terminals!TypeOK, Terminals!ListsOK, Terminals!SessionsOK, Terminals!ClientsOK
<1>7. TerminalsGoOn /\ Terminals!Made' = Terminals!Made
  BY <1>1 DEF TerminalsGoOn, Terminals!Made
<1>8. \A d \in Clients : Terminals!Holds(d)'
  <2>1. Terminals!Holds(c)'
    BY <1>1, <1>3, <1>4, <1>5, <1>7 DEF Terminals!Holds
  <2>2. ASSUME NEW d \in Clients \ {c} PROVE Terminals!Holds(d)'
    <3>1. Terminals!Holds(d)
      BY <1>2 DEF Terminals!HandsRight
    <3>2. s4[d].stage = "spawned" => s4[d].id \notin s3'
      BY <1>1, <3>1 DEF Terminals!Holds
    <3>3. s4[d].stage = "counted" => s4[d].count <= Terminals!Cardinality(Terminals!Made')
      BY <1>7, <3>1 DEF Terminals!Holds
    <3>4. QED
      BY <1>5, <1>7, <3>1, <3>2, <3>3, HoldsStays
  <2>3. QED
    BY <2>1, <2>2
<1>9. Terminals!HandsRight'
  <2>1. \A d \in Clients : s4'[d].stage = "spawned" => s4'[d] = s4[d]
    BY <1>4, <1>5
  <2>2. s3' \subseteq Terminals!Made'
    BY <1>1, <1>2, <1>7 DEF Terminals!HandsRight
  <2>3. QED
    BY <1>2, <1>8, <2>1, <2>2 DEF Terminals!HandsRight
<1>10. ASSUME NEW t \in Terminals!Scopes, t \notin s6'
       PROVE  t \notin s6 /\ t # scope /\ Terminals!Listed(t)' = Terminals!Listed(t)
  BY <1>1, <1>3, <1>10 DEF Terminals!Listed
<1>11. Terminals!TitlesCount'
  <2> SUFFICES ASSUME NEW t \in Terminals!Scopes, t \notin s6'
               PROVE  Terminals!Counts(t)'
    BY DEF Terminals!TitlesCount
  <2>1. t \notin s6 /\ Terminals!Counts(t) /\ Terminals!Listed(t)' = Terminals!Listed(t)
    BY <1>2, <1>10 DEF Terminals!TitlesCount
  <2>2. QED
    BY <1>2, <1>4, <1>5, <1>7, <2>1, CountsStays
<1>12. Terminals!TitlesDistinct'
  <2> SUFFICES ASSUME NEW t \in Terminals!Scopes, t \notin s6'
               PROVE  \A a, b \in Terminals!Listed(t)' : s2'[a].title = s2'[b].title => a = b
    BY DEF Terminals!TitlesDistinct
  <2>1. QED
    BY <1>2, <1>7, <1>10, DistinctStays DEF Terminals!TerminalsInv
<1>13. Terminals!ShellsReachable'
  <2> SUFFICES ASSUME NEW j \in Terminals!Ids, s1'[j] = "running"
               PROVE  \/ j \in s3' \cup s5'
                      \/ \E d \in Clients : s4'[d].stage \in {"spawned", "removed"} /\ s4'[d].id = j
    BY DEF Terminals!ShellsReachable, Terminals!InHand
  <2>1. \/ j \in s3 \cup s5
        \/ \E d \in Clients : s4[d].stage \in {"spawned", "removed"} /\ s4[d].id = j
    BY <1>1 DEF Terminals!TerminalsInv, Terminals!ShellsReachable, Terminals!InHand
  <2>2. s4'[c].stage = "removed" /\ s4'[c].id = i
    BY <1>4, <1>5
  <2>3. QED
    BY <1>1, <1>5, <2>1, <2>2
<1>14. Terminals!ScopeKept'
  BY <1>8 DEF Terminals!ScopeKept, Terminals!Holds
<1>15. Terminals!AliveTold'
  BY <1>1 DEF Terminals!TerminalsInv, Terminals!AliveTold
<1>16. QED
  BY <1>6, <1>9, <1>11, <1>12, <1>13, <1>14, <1>15 DEF Terminals!TerminalsInv

\* A shell of its own for a creation.
LEMMA TerminalsSpawn ==
  ASSUME Terminals!TerminalsInv, NEW c \in Clients, NEW i \in Terminals!Ids, Terminals!Spawn(c, i)
  PROVE  Terminals!TerminalsInv'
<1> DEFINE r == s4[c]
           new == [scope |-> r.scope, title |-> r.count + 1, alive |-> TRUE]
           v == [r EXCEPT !.stage = "spawned", !.id = i, !.count = 0]
<1>1. /\ UNCHANGED <<s3, s5, s6>> /\ r.stage = "counted" /\ s1[i] = "none"
      /\ s1' = [s1 EXCEPT ![i] = "running"] /\ s2' = [s2 EXCEPT ![i] = new]
  BY DEF Terminals!Spawn, Terminals!At
<1>2. Terminals!TypeOK /\ Terminals!HandsRight /\ Terminals!TitlesCount
  BY DEF Terminals!TerminalsInv
<1>3. r \in Terminals!Client /\ Terminals!Holds(c)
  BY <1>2 DEF Terminals!TypeOK, Terminals!ClientsOK, Terminals!HandsRight
<1>4. /\ Terminals!Made \subseteq Terminals!Ids /\ i \notin Terminals!Made
      /\ Terminals!Made' = Terminals!Made \cup {i}
  BY <1>1, <1>2 DEF Terminals!Made, Terminals!TypeOK, Terminals!SessionsOK
<1>5. /\ Terminals!Cardinality(Terminals!Made) \in Nat
      /\ Terminals!Cardinality(Terminals!Made) <= Terminals!Cardinality(Terminals!Made')
      /\ Terminals!Cardinality(Terminals!Made) < Terminals!Cardinality(Terminals!Ids)
      /\ Terminals!Cardinality(Terminals!Ids) \in Nat
  <2>1. /\ IsFiniteSet(Terminals!Made) /\ Terminals!Cardinality(Terminals!Made) \in Nat
        /\ Terminals!Cardinality(Terminals!Made) < Terminals!Cardinality(Terminals!Ids)
        /\ Terminals!Cardinality(Terminals!Ids) \in Nat
    BY <1>4, SessionsCounted
  <2>2. Cardinality(Terminals!Made \cup {i}) = Cardinality(Terminals!Made) + 1
    BY <1>4, <2>1, FS_AddElement
  <2>3. QED
    BY <1>4, <2>1, <2>2, CountedAlike
<1>6. r.count \in 0..Terminals!Cardinality(Terminals!Ids) /\ r.count <= Terminals!Cardinality(Terminals!Made)
  BY <1>1, <1>3 DEF Terminals!Client, Terminals!Holds
<1>7. new \in Terminals!Session
  BY <1>3, <1>5, <1>6 DEF Terminals!Session, Terminals!Client
<1>8. v \in Terminals!Client /\ v.stage = "spawned" /\ v.scope = r.scope /\ v.id = i
  <2>1. 0 \in 0..Terminals!Cardinality(Terminals!Ids)
    BY <1>5
  <2>2. QED
    BY ONLY <1>3, <2>1, i \in Terminals!Ids DEF Terminals!Client
<1>9. s4' = [s4 EXCEPT ![c] = v]
  BY <1>1, <1>2 DEF Terminals!Spawn, Terminals!TypeOK, Terminals!ClientsOK
<1>10. s4'[c] = v /\ \A d \in Clients \ {c} : s4'[d] = s4[d]
  BY <1>2, <1>9 DEF Terminals!TypeOK, Terminals!ClientsOK
<1>11. /\ s1'[i] = "running" /\ \A j \in Terminals!Ids \ {i} : s1'[j] = s1[j]
       /\ s2'[i] = new /\ \A j \in Terminals!Ids \ {i} : s2'[j] = s2[j]
  BY <1>1, <1>2 DEF Terminals!TypeOK, Terminals!SessionsOK
<1>12. Terminals!TypeOK'
  BY <1>1, <1>2, <1>7, <1>8, <1>9 DEF Terminals!TypeOK, Terminals!ListsOK, Terminals!SessionsOK, Terminals!ClientsOK
<1>13. TerminalsGoOn
  BY <1>4, <1>11 DEF TerminalsGoOn
<1>14. i \notin s3 /\ s3 \subseteq Terminals!Made
  BY <1>2, <1>4 DEF Terminals!HandsRight
<1>15. \A d \in Clients : Terminals!Holds(d)'
  <2>1. Terminals!Holds(c)'
    BY <1>1, <1>4, <1>8, <1>10, <1>11, <1>14 DEF Terminals!Holds
  <2>2. ASSUME NEW d \in Clients \ {c} PROVE Terminals!Holds(d)'
    <3>1. Terminals!Holds(d) /\ s4[d] \in Terminals!Client
      BY <1>2 DEF Terminals!HandsRight, Terminals!TypeOK, Terminals!ClientsOK
    <3>2. s4[d].stage = "spawned" => s4[d].id \notin s3'
      BY <1>1, <3>1 DEF Terminals!Holds
    <3>3. s4[d].count \in Nat /\ Terminals!Cardinality(Terminals!Made') \in Nat
      <4>1. s4[d].count \in 0..Terminals!Cardinality(Terminals!Ids)
        BY <3>1 DEF Terminals!Client
      <4>2. Terminals!Made' \in SUBSET Terminals!Ids
        BY <1>4
      <4>3. QED
        BY <1>5, <4>1, <4>2, SessionsCounted
    <3>4. s4[d].stage = "counted" => s4[d].count <= Terminals!Cardinality(Terminals!Made')
      BY <1>5, <3>1, <3>3 DEF Terminals!Holds
    <3>5. QED
      BY <1>10, <1>13, <3>1, <3>2, <3>4, HoldsStays
  <2>3. QED
    BY <2>1, <2>2
<1>16. Terminals!HandsRight'
  <2>1. \A d \in Clients \ {c} : s4'[d].stage = "spawned" => s4'[d] = s4[d] /\ s4[d].id # i
    BY <1>2, <1>4, <1>10 DEF Terminals!HandsRight, Terminals!Holds
  <2>2. s3' \subseteq Terminals!Made'
    BY <1>1, <1>4, <1>14
  <2>3. ASSUME NEW d \in Clients, NEW e \in Clients, s4'[d].stage = "spawned",
               s4'[e].stage = "spawned", s4'[d].id = s4'[e].id
        PROVE  d = e
    <3>0. s4'[c].id = i
      BY <1>8, <1>10
    <3>1. CASE d = c \/ e = c
      <4>1. \A k \in Clients \ {c} : s4'[k].stage = "spawned" => s4'[k].id # i
        BY <2>1
      <4>2. QED
        BY ONLY <3>0, <2>3, <3>1, <4>1, d \in Clients, e \in Clients
    <3>2. CASE d # c /\ e # c
      BY <1>2, <2>1, <2>3, <3>2 DEF Terminals!HandsRight
    <3>3. QED
      BY <3>1, <3>2
  <2>4. QED
    BY <1>15, <2>2, <2>3 DEF Terminals!HandsRight
<1>17. \A t \in Terminals!Scopes : Terminals!Listed(t)' = Terminals!Listed(t)
  BY <1>1, <1>4, <1>11, <1>14 DEF Terminals!Listed
<1>18. Terminals!TitlesCount'
  <2> SUFFICES ASSUME NEW t \in Terminals!Scopes, t \notin s6'
               PROVE  Terminals!Counts(t)'
    BY DEF Terminals!TitlesCount
  <2>1. t \notin s6 /\ Terminals!Counts(t)
    BY <1>1, <1>2 DEF Terminals!TitlesCount
  <2>2. CASE t # r.scope
    BY <1>2, <1>8, <1>10, <1>13, <1>17, <2>1, <2>2, CountsStays
  <2>3. CASE t = r.scope
    <3> DEFINE size == Terminals!Cardinality(Terminals!Listed(t))
    <3>1. /\ r.count = size
          /\ \A d \in Clients : (s4[d].scope = t /\ s4[d].stage \in {"counted", "spawned"}) => d = c
          /\ \A j \in Terminals!Listed(t) : s2[j].title <= size
      BY <1>1, <2>1, <2>3 DEF Terminals!Counts
    <3>2. \A d \in Clients : (s4'[d].scope = t /\ s4'[d].stage \in {"counted", "spawned"}) => d = c
      BY <1>10, <3>1
    <3>3. \A j \in Terminals!Listed(t) : s2'[j].title <= size
      BY <1>4, <1>11, <1>14, <3>1 DEF Terminals!Listed
    <3>4. Terminals!Listed(t)' = Terminals!Listed(t) /\ s2'[i].title = size + 1
      BY <1>11, <1>17, <3>1
    <3>5. QED
      BY ONLY <1>8, <1>10, <3>2, <3>3, <3>4 DEF Terminals!Counts
  <2>4. QED
    BY <2>2, <2>3
<1>19. Terminals!TitlesDistinct'
  <2> SUFFICES ASSUME NEW t \in Terminals!Scopes, t \notin s6'
               PROVE  \A a, b \in Terminals!Listed(t)' : s2'[a].title = s2'[b].title => a = b
    BY DEF Terminals!TitlesDistinct
  <2>1. t \notin s6
    BY <1>1
  <2>2. QED
    BY <1>2, <1>13, <1>17, <2>1, DistinctStays DEF Terminals!TerminalsInv
<1>20. Terminals!ShellsReachable'
  <2> SUFFICES ASSUME NEW j \in Terminals!Ids, s1'[j] = "running"
               PROVE  \/ j \in s3' \cup s5'
                      \/ \E d \in Clients : s4'[d].stage \in {"spawned", "removed"} /\ s4'[d].id = j
    BY DEF Terminals!ShellsReachable, Terminals!InHand
  <2>1. \/ j = i
        \/ j \in s3 \cup s5
        \/ \E d \in Clients : s4[d].stage \in {"spawned", "removed"} /\ s4[d].id = j
    BY <1>11 DEF Terminals!TerminalsInv, Terminals!ShellsReachable, Terminals!InHand
  <2>2. s4'[c].stage = "spawned" /\ s4'[c].id = i
    BY <1>8, <1>10
  <2>3. QED
    BY <1>1, <1>10, <2>1, <2>2
<1>21. Terminals!ScopeKept'
  BY <1>15 DEF Terminals!ScopeKept, Terminals!Holds
<1>22. Terminals!AliveTold'
  BY <1>1, <1>4, <1>11, <1>14 DEF Terminals!TerminalsInv, Terminals!AliveTold
<1>23. QED
  BY <1>12, <1>16, <1>18, <1>19, <1>20, <1>21, <1>22 DEF Terminals!TerminalsInv

\* The session of a creation is listed.
LEMMA TerminalsInsert ==
  ASSUME Terminals!TerminalsInv, NEW c \in Clients, Terminals!Insert(c)
  PROVE  Terminals!TerminalsInv'
<1> DEFINE r == s4[c]
           i == s4[c].id
           v == [r EXCEPT !.stage = "attached", !.op = "open"]
<1>1. UNCHANGED <<s1, s2, s5, s6>> /\ r.stage = "spawned" /\ s3' = s3 \cup {i}
  BY DEF Terminals!Insert, Terminals!At
<1>2. Terminals!TypeOK /\ Terminals!HandsRight /\ Terminals!TitlesCount
  BY DEF Terminals!TerminalsInv
<1>3. r \in Terminals!Client /\ Terminals!Holds(c)
  BY <1>2 DEF Terminals!TypeOK, Terminals!ClientsOK, Terminals!HandsRight
<1>4. /\ i \in Terminals!Ids /\ i \in Terminals!Made /\ i \notin s3
      /\ s2[i].scope = r.scope /\ (s2[i].alive \/ s1[i] = "ended")
  BY <1>1, <1>3 DEF Terminals!Holds, Terminals!Made
<1>5. TerminalsGoOn /\ Terminals!Made' = Terminals!Made
  BY <1>1 DEF TerminalsGoOn, Terminals!Made
<1>6. /\ Terminals!ClientsOK' /\ \A d \in Clients \ {c} : s4'[d] = s4[d]
      /\ s4'[c].stage \in {"idle", "attached"} /\ Terminals!Holds(c)'
  <2>1. CASE Terminals!Leaves(c)
    BY <1>2, <2>1, LeavesIdle
  <2>2. CASE Terminals!Connects(c)
    <3>1. v \in Terminals!Client /\ v.stage = "attached" /\ v.id = i /\ v.scope = r.scope
      BY <1>3 DEF Terminals!Client
    <3>2. s4' = [s4 EXCEPT ![c] = v]
      BY <1>2, <2>2 DEF Terminals!Connects, Terminals!TypeOK, Terminals!ClientsOK
    <3>3. s4'[c] = v /\ \A d \in Clients \ {c} : s4'[d] = s4[d]
      BY <1>2, <3>2 DEF Terminals!TypeOK, Terminals!ClientsOK
    <3>4. Terminals!ClientsOK'
      BY <1>2, <3>1, <3>2 DEF Terminals!TypeOK, Terminals!ClientsOK
    <3>5. Terminals!Holds(c)'
      BY <1>1, <1>4, <1>5, <3>1, <3>3 DEF Terminals!Holds
    <3>6. QED
      BY <3>1, <3>3, <3>4, <3>5
  <2>3. QED
    BY <2>1, <2>2 DEF Terminals!Insert
<1>7. Terminals!TypeOK'
  BY <1>1, <1>2, <1>4, <1>6 DEF Terminals!TypeOK, Terminals!ListsOK, Terminals!SessionsOK
<1>8. \A d \in Clients \ {c} : s4[d].stage = "spawned" => s4[d].id # i
  BY <1>1, <1>2 DEF Terminals!HandsRight
<1>9. \A d \in Clients : Terminals!Holds(d)'
  <2>1. ASSUME NEW d \in Clients \ {c} PROVE Terminals!Holds(d)'
    <3>1. Terminals!Holds(d)
      BY <1>2 DEF Terminals!HandsRight
    <3>2. s4[d].stage = "spawned" => s4[d].id \notin s3'
      BY <1>1, <1>8, <3>1 DEF Terminals!Holds
    <3>3. s4[d].stage = "counted" => s4[d].count <= Terminals!Cardinality(Terminals!Made')
      BY <1>5, <3>1 DEF Terminals!Holds
    <3>4. QED
      BY <1>5, <1>6, <3>1, <3>2, <3>3, HoldsStays
  <2>2. QED
    BY <1>6, <2>1
<1>10. Terminals!HandsRight'
  <2>1. \A d \in Clients : s4'[d].stage = "spawned" => s4'[d] = s4[d]
    BY <1>6
  <2>2. s3' \subseteq Terminals!Made'
    BY <1>1, <1>2, <1>4, <1>5 DEF Terminals!HandsRight
  <2>3. QED
    BY <1>2, <1>9, <2>1, <2>2 DEF Terminals!HandsRight
<1> PICK scope \in Terminals!Scopes : scope = r.scope
  BY <1>3 DEF Terminals!Client
<1>11. /\ \A t \in Terminals!Scopes \ {scope} : Terminals!Listed(t)' = Terminals!Listed(t)
       /\ Terminals!Listed(scope)' = Terminals!Listed(scope) \cup {i}
       /\ i \notin Terminals!Listed(scope)
  BY <1>1, <1>4 DEF Terminals!Listed
<1>12. ASSUME scope \notin s6
       PROVE  LET size == Terminals!Cardinality(Terminals!Listed(scope))
              IN /\ size \in Nat /\ Terminals!Cardinality(Terminals!Listed(scope)') = size + 1
                 /\ s2[i].title = size + 1
                 /\ \A j \in Terminals!Listed(scope) : s2[j].title <= size /\ s2[j].title \in Nat
                 /\ \A d \in Clients : ~(s4'[d].scope = scope /\ s4'[d].stage \in {"counted", "spawned"})
  <2> DEFINE size == Terminals!Cardinality(Terminals!Listed(scope))
  <2>1. scope \in Terminals!Scopes /\ Terminals!Counts(scope)
    BY <1>2, <1>12 DEF Terminals!TitlesCount
  <2>2. /\ s2[i].title = size + 1
        /\ \A d \in Clients : (s4[d].scope = scope /\ s4[d].stage \in {"counted", "spawned"}) => d = c
        /\ \A j \in Terminals!Listed(scope) : s2[j].title <= size
    BY <1>1, <2>1 DEF Terminals!Counts
  <2>3. Terminals!Listed(scope) \in SUBSET Terminals!Ids
    BY <1>2 DEF Terminals!Listed, Terminals!TypeOK, Terminals!ListsOK
  <2>4. size \in Nat /\ IsFiniteSet(Terminals!Listed(scope))
    BY <2>3, SessionsCounted
  <2>5. Cardinality(Terminals!Listed(scope)') = Cardinality(Terminals!Listed(scope)) + 1
    BY <1>11, <2>4, FS_AddElement
  <2>6. \A j \in Terminals!Listed(scope) : s2[j].title \in Nat
    <3>1. \A j \in Terminals!Ids : s2[j].title \in 0..Terminals!Cardinality(Terminals!Ids)
      BY <1>2 DEF Terminals!TypeOK, Terminals!SessionsOK, Terminals!Session
    <3>2. QED
      BY <2>3, <3>1, SessionsCounted
  <2>7. QED
    BY <1>6, <2>2, <2>4, <2>5, <2>6, CountedAlike
<1>13. Terminals!TitlesCount'
  <2> SUFFICES ASSUME NEW t \in Terminals!Scopes, t \notin s6'
               PROVE  Terminals!Counts(t)'
    BY DEF Terminals!TitlesCount
  <2>1. t \notin s6 /\ Terminals!Counts(t)
    BY <1>1, <1>2 DEF Terminals!TitlesCount
  <2>2. CASE t # scope
    BY <1>2, <1>5, <1>6, <1>11, <2>1, <2>2, CountsStays
  <2>3. CASE t = scope
    <3>1. /\ Terminals!Listed(t)' = Terminals!Listed(t) \cup {i}
          /\ \A d \in Clients : ~(s4'[d].scope = t /\ s4'[d].stage \in {"counted", "spawned"})
      BY <1>11, <1>12, <2>1, <2>3
    <3>2. \A j \in Terminals!Listed(t)' : s2'[j].title <= Terminals!Cardinality(Terminals!Listed(t)')
      BY <1>1, <1>12, <2>1, <2>3, <3>1
    <3>3. QED
      BY ONLY <3>1, <3>2 DEF Terminals!Counts
  <2>4. QED
    BY <2>2, <2>3
<1>14. Terminals!TitlesDistinct'
  <2> SUFFICES ASSUME NEW t \in Terminals!Scopes, t \notin s6'
               PROVE  \A a, b \in Terminals!Listed(t)' : s2'[a].title = s2'[b].title => a = b
    BY DEF Terminals!TitlesDistinct
  <2>1. t \notin s6
    BY <1>1
  <2>2. CASE t # scope
    BY <1>2, <1>5, <1>11, <2>1, <2>2, DistinctStays DEF Terminals!TerminalsInv
  <2>3. CASE t = scope
    <3>1. \A a, b \in Terminals!Listed(t) : s2[a].title = s2[b].title => a = b
      BY <2>1 DEF Terminals!TerminalsInv, Terminals!TitlesDistinct
    <3>2. \A a \in Terminals!Listed(t) : s2[a].title # s2[i].title
      BY <1>12, <2>1, <2>3
    <3>3. QED
      BY <1>1, <1>11, <2>3, <3>1, <3>2
  <2>4. QED
    BY <2>2, <2>3
<1>15. Terminals!ShellsReachable'
  BY <1>1, <1>6 DEF Terminals!TerminalsInv, Terminals!ShellsReachable, Terminals!InHand
<1>16. Terminals!ScopeKept'
  BY <1>9 DEF Terminals!ScopeKept, Terminals!Holds
<1>17. Terminals!AliveTold'
  BY <1>1, <1>4 DEF Terminals!TerminalsInv, Terminals!AliveTold
<1>18. QED
  BY <1>7, <1>10, <1>13, <1>14, <1>15, <1>16, <1>17 DEF Terminals!TerminalsInv

\* A new helper has no sessions, and nobody waits for it.
LEMMA TerminalsReplace ==
  ASSUME Terminals!TerminalsInv, Terminals!Replace
  PROVE  Terminals!TerminalsInv'
<1>1. s3' = {} /\ s5' = {} /\ s6' = {} /\ \A c \in Clients : s4'[c] = Terminals!Idle
  BY DEF Terminals!Replace
<1>2. \A t : Terminals!Listed(t)' = {}
  BY <1>1 DEF Terminals!Listed
<1>3. 0 \in 0..Terminals!Cardinality(Terminals!Ids)
  BY SessionsCounted, Terminals!Ids \in SUBSET Terminals!Ids
<1>4. Terminals!NoSession \in Terminals!Session /\ Terminals!Idle \in Terminals!Client
  BY <1>3 DEF Terminals!NoSession, Terminals!Session, Terminals!Idle, Terminals!Client, Terminals!Scopes,
              Terminals!NoId
<1>5. Terminals!TypeOK'
  BY <1>4 DEF Terminals!Replace, Terminals!TerminalsInv, Terminals!TypeOK, Terminals!ListsOK,
     Terminals!SessionsOK, Terminals!ClientsOK
<1>6. \A c \in Clients : s4'[c].stage = "idle"
  BY <1>1 DEF Terminals!Idle
<1>7. Terminals!HandsRight'
  BY <1>1, <1>6 DEF Terminals!HandsRight, Terminals!Holds
<1>8. Terminals!TitlesCount' /\ Terminals!TitlesDistinct'
  BY <1>2, <1>6 DEF Terminals!TitlesCount, Terminals!Counts, Terminals!TitlesDistinct, Terminals!Scopes
<1>9. Terminals!ShellsReachable'
  BY DEF Terminals!Replace, Terminals!TerminalsInv, Terminals!TypeOK, Terminals!SessionsOK, Terminals!ShellsReachable
<1>10. Terminals!ScopeKept' /\ Terminals!AliveTold'
  BY <1>1, <1>6 DEF Terminals!ScopeKept, Terminals!AliveTold
<1>11. QED
  BY <1>5, <1>7, <1>8, <1>9, <1>10 DEF Terminals!TerminalsInv

LEMMA TerminalsStep ==
  ASSUME Terminals!TerminalsInv, [Terminals!Next]_(Terminals!vars)
  PROVE  Terminals!TerminalsInv'
<1>1. ASSUME NEW c \in Clients, NEW scope \in Terminals!Scopes,
             Terminals!Create(c, scope) \/ Terminals!Connect(c, scope) \/ Terminals!Delete(c, scope)
      PROVE  Terminals!TerminalsInv'
  BY <1>1, TerminalsCount, TerminalsFind, TerminalsRemove
  DEF Terminals!Create, Terminals!Connect, Terminals!Delete
<1>2. ASSUME NEW c \in Clients,
             \/ Terminals!SpawnFails(c) \/ Terminals!Detach(c) \/ Terminals!Kill(c) \/ Terminals!GoAway(c)
             \/ Terminals!Insert(c) \/ \E i \in Terminals!Ids : Terminals!Spawn(c, i)
      PROVE  Terminals!TerminalsInv'
  BY <1>2, TerminalsLeave, TerminalsInsert, TerminalsSpawn
<1>3. CASE UNCHANGED Terminals!vars
  <2>1. UNCHANGED <<s1, s2, s3, s4, s5, s6>>
    BY <1>3 DEF Terminals!vars
  <2>2. Terminals!TypeOK' /\ Terminals!ShellsReachable'
    BY <2>1 DEF Terminals!TerminalsInv, Terminals!TypeOK, Terminals!ListsOK, Terminals!SessionsOK,
       Terminals!ClientsOK, Terminals!ShellsReachable, Terminals!InHand
  <2>3. TerminalsGoOn /\ Terminals!Made' = Terminals!Made
    BY <2>1 DEF TerminalsGoOn, Terminals!Made
  <2>4. QED
    BY <2>1, <2>2, <2>3, QuietStep
<1>4. QED
  BY <1>1, <1>2, <1>3, TerminalsEnd, TerminalsReplace DEF Terminals!Next

\* No shell is lost, nobody is connected to a session of another scope, and what
\* the list of sessions tells of them is true (terminal.rs).
THEOREM ServerTerminals == SuiteSpec => []TerminalsSound
<1> DEFINE Keeps == focus = "terminals" => Terminals!TerminalsInv
<1>1. SuiteInit => Keeps
  BY TerminalsInit DEF SuiteInit, FocusInit
<1>2. Keeps /\ [SuiteNext]_suite => Keeps'
  <2> SUFFICES ASSUME Keeps, [SuiteNext]_suite, focus' = "terminals"
               PROVE  Terminals!TerminalsInv'
    OBVIOUS
  <2>1. Terminals!TerminalsInv
    BY DEF SuiteNext, suite
  <2>2. [Terminals!Next]_(Terminals!vars)
    BY DEF SuiteNext, FocusNext, suite, Terminals!vars
  <2>3. QED
    BY <2>1, <2>2, TerminalsStep
<1>3. Keeps => TerminalsSound
  BY DEF TerminalsSound, Terminals!TerminalsInv
<1>4. QED
  BY <1>1, <1>2, <1>3, PTL DEF SuiteSpec

-----------------------------------------------------------------------------
(***************************************************************************)
(* Launches of T3 Code (T3Launch)                                          *)
(***************************************************************************)

LEMMA LaunchInit == T3!Init => T3!LaunchInv
<1> SUFFICES ASSUME T3!Init PROVE T3!LaunchInv
  OBVIOUS
<1>0. T3!LaunchAssumption
  BY SuiteAssumptions
<1>1. \A l \in Launches : s6[l] = T3!NoLaunch
  BY DEF T3!Init
<1>2. T3!CatalogOK
  <2>1. s5 \in BOOLEAN
    BY DEF T3!Init
  <2>2. QED
    BY <1>0, <2>1 DEF T3!Init, T3!CatalogOK, T3!LaunchAssumption
<1>3. T3!LaunchesOK
  BY DEF T3!Init, T3!LaunchesOK, T3!Launch, T3!NoLaunch
<1>4. T3!ReadsTrue /\ T3!RedirectConsistent
  BY <1>1 DEF T3!ReadsTrue, T3!Reads, T3!AllRead, T3!RedirectConsistent, T3!Redirected,
              T3!At, T3!NoLaunch
<1>5. QED
  BY <1>2, <1>3, <1>4 DEF T3!LaunchInv, T3!TypeOK

\* What stands for the repository of a project is a project, and if it is where
\* its row says, in that repository.
LEMMA LaunchRoots ==
  ASSUME NEW n \in LaunchProjects, s3[n] # Absent, NEW root \in T3!Roots(n), T3!CatalogOK
  PROVE  /\ root \in LaunchProjects /\ s3[n].dir \in LaunchDirs
         /\ T3!Placed(root) => /\ s1[root] = s3[root].dir
                               /\ T3!Repository[s1[root]] = T3!Repository[s3[n].dir]
<1>1. T3!LaunchAssumption
  BY SuiteAssumptions
<1>2. s3[n] \in T3!Row /\ s3[n].dir \in LaunchDirs
  BY DEF T3!CatalogOK, T3!Row
<1>3. CASE root = n
  BY <1>2, <1>3 DEF T3!Placed
<1>4. CASE root # n
  <2>1. root \in {c \in LaunchProjects : s3[c] # Absent
                    /\ T3!Repository[s3[c].dir] = T3!Repository[s3[n].dir]}
    BY <1>4 DEF T3!Roots
  <2>2. QED
    BY <1>2, <2>1 DEF T3!Placed
<1>5. QED
  BY <1>3, <1>4

\* A redirect is made of what has been read.
LEMMA LaunchRedirect ==
  ASSUME T3!ReadsTrue
  PROVE  T3!RedirectConsistent
BY DEF T3!ReadsTrue, T3!Reads, T3!AllRead, T3!RedirectConsistent, T3!Redirected, T3!At

\* What has to be shown of a step of a launch: the record it leaves.
LEMMA LaunchSet ==
  ASSUME T3!LaunchInv, NEW l \in Launches, NEW v \in T3!Launch, T3!Set(l, v), T3!Reads(v)
  PROVE  T3!LaunchInv'
<1>1. UNCHANGED <<s1, s2, s3, s4, s5>> /\ s6' = [s6 EXCEPT ![l] = v]
  BY DEF T3!Set, T3!catalog
<1>2. T3!TypeOK'
  BY <1>1 DEF T3!LaunchInv, T3!TypeOK, T3!CatalogOK, T3!LaunchesOK
<1>3. s6'[l] = v /\ \A k \in Launches \ {l} : s6'[k] = s6[k]
  BY <1>1 DEF T3!LaunchInv, T3!TypeOK, T3!LaunchesOK
<1>4. T3!ReadsTrue'
  <2>1. ASSUME NEW r, T3!Reads(r) PROVE T3!Reads(r)'
    BY <1>1, <2>1 DEF T3!Reads
  <2>2. QED
    BY <1>3, <2>1 DEF T3!LaunchInv, T3!ReadsTrue
<1>5. T3!RedirectConsistent'
  BY <1>4, LaunchRedirect, PTL
<1>6. QED
  BY <1>2, <1>4, <1>5 DEF T3!LaunchInv

\* An edit moves what a launch is to read, or not.
LEMMA LaunchEdit ==
  ASSUME T3!LaunchInv, NEW n \in LaunchProjects, T3!Edit(n),
         s2' \in [LaunchProjects -> BOOLEAN], s3' \in [LaunchProjects -> T3!Row \cup {Absent}],
         NEW dir \in LaunchDirs \cup {Absent}, s1' = [s1 EXCEPT ![n] = dir]
  PROVE  T3!LaunchInv'
<1>0. T3!LaunchAssumption
  BY SuiteAssumptions
<1>1. T3!CatalogOK /\ T3!LaunchesOK
  BY DEF T3!LaunchInv, T3!TypeOK
<1>2. T3!CatalogOK'
  BY <1>0, <1>1 DEF T3!Edit, T3!CatalogOK, T3!LaunchAssumption
<1>3. ASSUME NEW l \in Launches
      PROVE  /\ s6'[l] \in T3!Launch
             /\ T3!Reads(s6[l])'
  <2>0. s6[l] \in T3!Launch /\ T3!Reads(s6[l])
    BY <1>1 DEF T3!LaunchesOK, T3!LaunchInv, T3!ReadsTrue
  <2>1. PICK lapsed \in BOOLEAN :
          lapsed = (s6[l].lapsed \/ (n \in T3!Awaited(l) /\ s1'[n] # s1[n]))
    OBVIOUS
  <2>2. PICK r \in T3!Launch : r = [s6[l] EXCEPT !.lapsed = lapsed]
    BY <2>0 DEF T3!Launch
  <2>3. s6'[l] = r
    BY <2>0, <2>1, <2>2 DEF T3!Edit, T3!Launch
  <2>4. /\ r.stage = s6[l].stage /\ r.project = s6[l].project /\ r.dir = s6[l].dir
        /\ r.root = s6[l].root /\ r.rootDir = s6[l].rootDir /\ r.worktree = s6[l].worktree
        /\ r.lapsed = lapsed
    BY <2>0, <2>2 DEF T3!Launch
  <2>5. ~lapsed => ~s6[l].lapsed
    BY <2>1
  <2>6. ASSUME r.stage = "found", ~lapsed PROVE s1'[r.project] = r.dir
    <3>1. s1[r.project] = r.dir /\ r.project \in LaunchProjects
      BY <2>0, <2>4, <2>5, <2>6 DEF T3!Reads, T3!Launch
    <3>2. T3!Awaited(l) = {r.project}
      BY <2>4, <2>6 DEF T3!Awaited, T3!At
    <3>3. QED
      BY <1>1, <2>1, <2>6, <3>1, <3>2 DEF T3!CatalogOK
  <2>7. ASSUME r.stage = "mapped", ~lapsed, r.worktree # Absent
        PROVE  LET d == IF r.root = r.project THEN r.dir ELSE s1'[r.root]
               IN d # Absent => T3!Repository[d] = T3!Repository[r.worktree]
    <3>1. LET d == IF r.root = r.project THEN r.dir ELSE s1[r.root]
          IN d # Absent => T3!Repository[d] = T3!Repository[r.worktree]
      BY <2>0, <2>4, <2>5, <2>7 DEF T3!Reads
    <3>2. CASE r.root = r.project
      BY <3>1, <3>2
    <3>3. CASE r.root # r.project
      <4>1. T3!Awaited(l) = {r.root}
        BY <2>4, <2>7, <3>3 DEF T3!Awaited, T3!At
      <4>2. s1'[r.root] = s1[r.root]
        <5>1. r.root \in LaunchProjects
          BY <2>0, <2>4, <2>7 DEF T3!Reads, T3!Launch
        <5>2. n = r.root => s1'[n] = s1[n]
          BY <2>1, <2>7, <4>1
        <5>3. QED
          BY <1>1, <5>1, <5>2 DEF T3!CatalogOK
      <4>3. QED
        BY <3>1, <3>3, <4>2
    <3>4. QED
      BY <3>2, <3>3
  <2>8. T3!Reads(r)'
    BY <2>0, <2>4, <2>5, <2>6, <2>7 DEF T3!Reads, T3!AllRead, T3!Repository
  <2>9. QED
    BY <2>2, <2>3, <2>8
<1>4. T3!LaunchesOK'
  <2>1. s6' = [l \in Launches |-> s6'[l]]
    BY DEF T3!Edit
  <2>2. QED
    BY <1>3, <2>1 DEF T3!LaunchesOK, T3!Launch
<1>5. T3!ReadsTrue'
  BY <1>3 DEF T3!ReadsTrue
<1>6. T3!RedirectConsistent'
  BY <1>5, LaunchRedirect, PTL
<1>7. QED
  BY <1>2, <1>4, <1>5, <1>6 DEF T3!LaunchInv, T3!TypeOK

LEMMA LaunchStep ==
  ASSUME T3!LaunchInv, [T3!Next]_(T3!vars)
  PROVE  T3!LaunchInv'
<1> USE DEF T3!At, T3!Goes, T3!Fails
<1>0. T3!LaunchAssumption
  BY SuiteAssumptions
<1>1. T3!CatalogOK /\ T3!LaunchesOK
  BY DEF T3!LaunchInv, T3!TypeOK
<1>2. ASSUME NEW l \in Launches
      PROVE  /\ s6[l] \in T3!Launch /\ T3!Reads(s6[l])
             /\ T3!Fails(l) => T3!LaunchInv'
  <2>1. s6[l] \in T3!Launch /\ T3!Reads(s6[l])
    BY <1>1 DEF T3!LaunchesOK, T3!LaunchInv, T3!ReadsTrue
  <2>2. T3!NoLaunch \in T3!Launch /\ T3!Reads(T3!NoLaunch)
    BY DEF T3!NoLaunch, T3!Launch, T3!Reads, T3!AllRead
  <2>3. QED
    BY <2>1, <2>2, LaunchSet
<1>3. ASSUME NEW l \in Launches, NEW stage \in T3!AllRead, s6[l].stage \in T3!AllRead, T3!Goes(l, stage)
      PROVE  T3!LaunchInv'
  <2>1. PICK v \in T3!Launch : v = [s6[l] EXCEPT !.stage = stage]
    BY <1>2 DEF T3!Launch, T3!AllRead
  <2>2. /\ v.stage = stage /\ v.project = s6[l].project /\ v.rootDir = s6[l].rootDir
        /\ v.worktree = s6[l].worktree /\ v.lapsed = s6[l].lapsed
    BY <1>2, <2>1 DEF T3!Launch
  <2>3. T3!Reads(v)
    BY <1>2, <1>3, <2>2 DEF T3!Reads, T3!AllRead
  <2>4. QED
    BY <1>3, <2>1, <2>3, LaunchSet
<1>4. ASSUME NEW l \in Launches, NEW n \in LaunchProjects \cup {Absent}, NEW c \in T3!Config,
             T3!Begin(l, n, c)
      PROVE  T3!LaunchInv'
  <2>0. PICK stage \in {"rooted", "begun"} : stage = IF n = Absent THEN "rooted" ELSE "begun"
    OBVIOUS
  <2>1. PICK v \in T3!Launch :
          v = [T3!NoLaunch EXCEPT !.stage = stage, !.start = c.start, !.project = n]
    BY DEF T3!NoLaunch, T3!Launch, T3!Config
  <2>2. /\ v.stage = (IF n = Absent THEN "rooted" ELSE "begun") /\ v.project = n
        /\ v.worktree = Absent
    BY <2>0, <2>1 DEF T3!NoLaunch
  <2>3. T3!Reads(v)
    BY <2>2 DEF T3!Reads, T3!AllRead
  <2>4. QED
    BY <1>4, <2>0, <2>1, <2>3, LaunchSet DEF T3!Begin
<1>5. ASSUME NEW l \in Launches, T3!FindProject(l)
      PROVE  T3!LaunchInv'
  <2>1. CASE T3!Fails(l)
    BY <1>2, <2>1
  <2>2. CASE ~T3!Fails(l)
    <3>1. PICK n \in LaunchProjects : n = s6[l].project
      BY <1>2, <1>5 DEF T3!FindProject, T3!Reads, T3!Launch
    <3>2. /\ s1[n] \in LaunchDirs
          /\ T3!Set(l, [s6[l] EXCEPT !.stage = "found", !.dir = s1[n]])
      BY <1>1, <1>5, <2>2, <3>1 DEF T3!FindProject, T3!Open, T3!CatalogOK
    <3>3. PICK v \in T3!Launch : v = [s6[l] EXCEPT !.stage = "found", !.dir = s1[n]]
      BY <1>2, <3>2 DEF T3!Launch
    <3>4. v.stage = "found" /\ v.dir = s1[n] /\ v.project = n /\ v.worktree = s6[l].worktree
      BY <1>2, <3>1, <3>3 DEF T3!Launch
    <3>5. s6[l].worktree = Absent
      BY <1>2, <1>5 DEF T3!FindProject, T3!Reads
    <3>6. n # Absent /\ s1[n] # Absent
      BY <1>0, <3>2 DEF T3!LaunchAssumption
    <3>7. T3!Reads(v)
      BY <3>4, <3>5, <3>6 DEF T3!Reads, T3!AllRead
    <3>8. QED
      BY <3>2, <3>3, <3>7, LaunchSet
  <2>3. QED
    BY <2>1, <2>2
<1>6. ASSUME NEW l \in Launches, T3!MapWorktree(l)
      PROVE  T3!LaunchInv'
  <2>1. PICK n \in LaunchProjects : n = s6[l].project
    BY <1>2, <1>6 DEF T3!MapWorktree, T3!Reads, T3!Launch
  <2>2. /\ s6[l].stage = "found" /\ s6[l].worktree = Absent /\ n # Absent /\ s6[l].dir # Absent
        /\ ~s6[l].lapsed => s1[n] = s6[l].dir
    BY <1>2, <1>6, <2>1 DEF T3!MapWorktree, T3!Reads
  <2>3. CASE s3[n] = Absent
    <3>1. T3!Set(l, [s6[l] EXCEPT !.stage = "mapped", !.root = n])
      BY <1>6, <2>1, <2>3 DEF T3!MapWorktree
    <3>2. PICK v \in T3!Launch : v = [s6[l] EXCEPT !.stage = "mapped", !.root = n]
      BY <1>2 DEF T3!Launch
    <3>3. /\ v.stage = "mapped" /\ v.dir = s6[l].dir /\ v.project = n /\ v.root = n
          /\ v.worktree = Absent
      BY <1>2, <2>1, <2>2, <3>2 DEF T3!Launch
    <3>4. T3!Reads(v)
      BY <2>2, <3>3 DEF T3!Reads, T3!AllRead
    <3>5. QED
      BY <3>1, <3>2, <3>4, LaunchSet
  <2>4. CASE s3[n] # Absent
    <3>1. PICK root \in T3!Roots(n) :
            T3!Set(l, [s6[l] EXCEPT !.stage = "mapped", !.root = root, !.worktree = s3[n].dir,
                         !.lapsed = @ \/ ~T3!Placed(root)])
      BY <1>6, <2>1, <2>4 DEF T3!MapWorktree
    <3>2. /\ root \in LaunchProjects /\ s3[n].dir \in LaunchDirs
          /\ T3!Placed(root) => /\ s1[root] = s3[root].dir
                                /\ T3!Repository[s1[root]] = T3!Repository[s3[n].dir]
      BY <1>1, <2>4, LaunchRoots
    <3>3. PICK lapsed \in BOOLEAN : lapsed = (s6[l].lapsed \/ ~T3!Placed(root))
      OBVIOUS
    <3>4. PICK v \in T3!Launch : v = [s6[l] EXCEPT !.stage = "mapped", !.root = root,
                                        !.worktree = s3[n].dir, !.lapsed = lapsed]
      BY <1>2, <3>2 DEF T3!Launch
    <3>5. /\ v.stage = "mapped" /\ v.dir = s6[l].dir /\ v.project = n /\ v.root = root
          /\ v.worktree = s3[n].dir /\ v.lapsed = lapsed
      BY <1>2, <2>1, <3>4 DEF T3!Launch
    <3>6. root # Absent
      BY <1>0, <3>2 DEF T3!LaunchAssumption
    <3>7. ASSUME ~lapsed
          PROVE  T3!Repository[IF root = n THEN s6[l].dir ELSE s1[root]] = T3!Repository[s3[n].dir]
      BY <2>2, <3>2, <3>3, <3>7
    <3>8. T3!Reads(v)
      BY <2>2, <3>5, <3>6, <3>7 DEF T3!Reads, T3!AllRead
    <3>9. T3!Set(l, v)
      <4>1. v = [s6[l] EXCEPT !.stage = "mapped", !.root = root, !.worktree = s3[n].dir,
                   !.lapsed = @ \/ ~T3!Placed(root)]
        BY <1>2, <3>3, <3>4 DEF T3!Launch
      <4>2. QED
        BY <3>1, <4>1
    <3>10. QED
      BY <3>8, <3>9, LaunchSet
  <2>5. QED
    BY <2>3, <2>4
<1>7. ASSUME NEW l \in Launches, T3!FindRoot(l)
      PROVE  T3!LaunchInv'
  <2>1. CASE T3!Fails(l)
    BY <1>2, <2>1
  <2>2. CASE ~T3!Fails(l)
    <3>1. /\ s6[l].stage = "mapped" /\ s6[l].dir # Absent /\ s6[l].root # Absent
          /\ s6[l].project # Absent
      BY <1>2, <1>7 DEF T3!FindRoot, T3!Reads
    <3>2. PICK dir \in LaunchDirs :
            /\ dir = IF s6[l].root = s6[l].project THEN s6[l].dir ELSE s1[s6[l].root]
            /\ T3!Set(l, [s6[l] EXCEPT !.stage = "rooted", !.rootDir = dir])
      <4>1. s6[l].root \in LaunchProjects /\ s6[l].dir \in LaunchDirs
        BY <1>2, <3>1 DEF T3!Launch
      <4>2. QED
        BY <1>1, <1>7, <2>2, <4>1 DEF T3!FindRoot, T3!Open, T3!CatalogOK
    <3>3. PICK v \in T3!Launch : v = [s6[l] EXCEPT !.stage = "rooted", !.rootDir = dir]
      BY <1>2 DEF T3!Launch
    <3>4. /\ v.stage = "rooted" /\ v.rootDir = dir /\ v.worktree = s6[l].worktree
          /\ v.lapsed = s6[l].lapsed /\ v.project = s6[l].project
      BY <1>2, <3>3 DEF T3!Launch
    <3>5. dir # Absent
      BY <1>0 DEF T3!LaunchAssumption
    <3>6. v.worktree # Absent /\ ~v.lapsed => T3!Repository[dir] = T3!Repository[v.worktree]
      BY <1>2, <3>1, <3>2, <3>4, <3>5 DEF T3!Reads
    <3>7. T3!Reads(v)
      BY <3>4, <3>5, <3>6 DEF T3!Reads, T3!AllRead
    <3>8. QED
      BY <3>2, <3>3, <3>7, LaunchSet
  <2>3. QED
    BY <2>1, <2>2
<1>8. ASSUME NEW l \in Launches, T3!EnsureServer(l) \/ T3!StartServer(l) \/ T3!ServerReady(l)
                                 \/ T3!ServerLate(l) \/ T3!Register(l) \/ T3!Pair(l) \/ T3!Done(l)
      PROVE  T3!LaunchInv'
  <2>1. CASE T3!Fails(l)
    BY <1>2, <2>1
  <2>2. CASE s6[l].stage \in T3!AllRead /\ \E stage \in T3!AllRead : T3!Goes(l, stage)
    BY <1>3, <2>2
  <2>3. QED
    BY <1>8, <2>1, <2>2
    DEF T3!EnsureServer, T3!StartServer, T3!ServerReady, T3!ServerLate, T3!Register, T3!Pair, T3!Done,
        T3!AllRead
<1>9. ASSUME NEW n \in LaunchProjects, NEW dir \in LaunchDirs, NEW on \in BOOLEAN, T3!Put(n, dir, on)
      PROVE  T3!LaunchInv'
  BY <1>1, <1>9, LaunchEdit DEF T3!Put, T3!CatalogOK
<1>10. ASSUME NEW n \in LaunchProjects, T3!Delete(n)
       PROVE  T3!LaunchInv'
  BY <1>1, <1>10, LaunchEdit DEF T3!Delete, T3!CatalogOK
<1>11. ASSUME NEW n \in LaunchProjects, NEW row \in T3!Row, T3!Reconcile(n, row)
       PROVE  T3!LaunchInv'
  <2>1. PICK dir \in LaunchDirs \cup {Absent} : dir = IF s1[n] = Absent THEN row.dir ELSE s1[n]
    BY <1>1 DEF T3!Row, T3!CatalogOK
  <2>2. s1' = [s1 EXCEPT ![n] = dir]
    BY <1>1, <1>11, <2>1 DEF T3!Reconcile, T3!CatalogOK
  <2>3. s2' \in [LaunchProjects -> BOOLEAN]
    <3>1. PICK on \in BOOLEAN : on = (s1[n] = Absent \/ s2[n])
      OBVIOUS
    <3>2. s2' = [s2 EXCEPT ![n] = on]
      BY <1>1, <1>11, <3>1 DEF T3!Reconcile, T3!CatalogOK
    <3>3. QED
      BY <1>1, <3>2 DEF T3!CatalogOK
  <2>4. s3' \in [LaunchProjects -> T3!Row \cup {Absent}]
    BY <1>1, <1>11 DEF T3!Reconcile, T3!CatalogOK
  <2>5. T3!Edit(n)
    BY <1>11 DEF T3!Reconcile
  <2>6. QED
    BY <2>2, <2>3, <2>4, <2>5, LaunchEdit
<1>12. ASSUME NEW now \in BOOLEAN, T3!T3Runs(now)
       PROVE  T3!LaunchInv'
  <2>1. UNCHANGED <<s1, s2, s3, s4, s6>> /\ s5' = now
    BY <1>12 DEF T3!T3Runs, T3!catalog
  <2>2. QED
    BY <2>1 DEF T3!LaunchInv, T3!TypeOK, T3!CatalogOK, T3!LaunchesOK, T3!ReadsTrue,
       T3!Reads, T3!RedirectConsistent, T3!Redirected
<1>13. CASE UNCHANGED T3!vars
  <2>1. UNCHANGED <<s1, s2, s3, s4, s5, s6>>
    BY <1>13 DEF T3!vars, T3!catalog
  <2>2. QED
    BY <2>1 DEF T3!LaunchInv, T3!TypeOK, T3!CatalogOK, T3!LaunchesOK, T3!ReadsTrue,
       T3!Reads, T3!RedirectConsistent, T3!Redirected
<1>14. QED
  BY <1>4, <1>5, <1>6, <1>7, <1>8, <1>9, <1>10, <1>11, <1>12, <1>13 DEF T3!Next

\* The worktree a redirect leads to is of the repository that was registered,
\* however the catalog changes between the reads, unless that very project was
\* moved, or not where its row says (t3code.rs).
THEOREM ServerT3 == SuiteSpec => []T3LaunchesSound
<1> DEFINE Keeps == focus = "t3" => T3!LaunchInv
<1>1. SuiteInit => Keeps
  BY LaunchInit DEF SuiteInit, FocusInit
<1>2. Keeps /\ [SuiteNext]_suite => Keeps'
  <2> SUFFICES ASSUME Keeps, [SuiteNext]_suite, focus' = "t3"
               PROVE  T3!LaunchInv'
    OBVIOUS
  <2>1. T3!LaunchInv
    BY DEF SuiteNext, suite
  <2>2. [T3!Next]_(T3!vars)
    BY DEF SuiteNext, FocusNext, suite, T3!vars, T3!catalog
  <2>3. QED
    BY <2>1, <2>2, LaunchStep
<1>3. Keeps => T3LaunchesSound
  BY DEF T3LaunchesSound, T3!LaunchInv
<1>4. QED
  BY <1>1, <1>2, <1>3, PTL DEF SuiteSpec

-----------------------------------------------------------------------------
(***************************************************************************)
(* Files of a project in the browser (FileService)                         *)
(***************************************************************************)

\* Where the links of a name end is a name, and what is no link ends itself.
LEMMA LinksEnd ==
  ASSUME NEW n \in EntryNames
  PROVE  /\ Editor!Ends(n) # {} => Editor!End(n) \in EntryNames /\ ~Editor!Onward(Editor!End(n))
         /\ ~Editor!Onward(n) => Editor!Ends(n) # {} /\ Editor!End(n) = n
<1>1. Editor!Ends(n) # {} => Editor!End(n) \in Editor!Ends(n)
  BY DEF Editor!End
<1>2. \A m \in Editor!Ends(n) : m \in EntryNames /\ ~Editor!Onward(m)
  BY DEF Editor!Ends, Editor!Trail
<1>3. ASSUME ~Editor!Onward(n) PROVE Editor!Ends(n) = {n}
  <2>1. {n} \in SUBSET EntryNames /\ \A m \in {n} : Editor!Onward(m) => s1[m].to \in {n}
    BY <1>3
  <2>2. Editor!Trail(n) \subseteq {n}
    BY <2>1 DEF Editor!Trail
  <2>3. n \in Editor!Trail(n)
    BY DEF Editor!Trail
  <2>4. QED
    BY <1>3, <2>2, <2>3 DEF Editor!Ends
<1>4. QED
  BY <1>1, <1>2, <1>3

\* What a name leads to in the project leads to itself, and is there.
LEMMA Followed ==
  ASSUME Editor!DiskOK, NEW n \in EntryNames, NEW r, r = Editor!Resolved(n), r \notin {Outside, Absent}
  PROVE  /\ r \in EntryNames /\ s1[r].kind \in {"file", "directory"} /\ Editor!Resolved(r) = r
         /\ Editor!Ends(r) # {} /\ Editor!End(r) = r
<1>1. PICK e : e = Editor!End(n)
  OBVIOUS
<1>2. Editor!Ends(n) # {} /\ s1[e].kind \notin {"link", "absent"} /\ r = e
  BY <1>1 DEF Editor!Resolved
<1>3. r \in EntryNames
  BY <1>1, <1>2, LinksEnd
<1>4. s1[r].kind \in {"file", "directory"}
  <2>1. s1[r] \in Editor!Nodes
    BY <1>3 DEF Editor!DiskOK
  <2>2. s1[r].kind \in {"absent", "file", "directory", "link"}
    BY <2>1 DEF Editor!Nodes, Editor!Nothing, Editor!File, Editor!Directory, Editor!Link
  <2>3. QED
    BY <1>2, <2>2
<1>5. Editor!Ends(r) # {} /\ Editor!End(r) = r
  BY <1>3, <1>4, LinksEnd DEF Editor!Onward
<1>6. Editor!Resolved(r) = r
  BY <1>4, <1>5 DEF Editor!Resolved
<1>7. QED
  BY <1>3, <1>4, <1>5, <1>6

\* A path that canonicalize gives is that of a directory, of a file or of the
\* one in a directory; it leads to itself, and what is written there is the file.
LEMMA Found ==
  ASSUME Editor!DiskOK, Editor!FilesHold, NEW p \in Editor!Paths \cup {Editor!Root}, NEW q, q = Editor!Canonical(p),
         q \notin {Outside, Absent}
  PROVE  /\ q \in Editor!Paths \cup {Editor!Root} /\ Editor!Canonical(q) = q
         /\ p # Editor!Root => q # Editor!Root
         /\ Editor!IsFile(q) => q \in Editor!Paths /\ Editor!Target(q) = q
         /\ ~Editor!IsFile(q) /\ q # Editor!Root => Editor!Target(q) = Absent
<1>0. Editor!FilesAssumption
  BY SuiteAssumptions
<1>1. CASE p = Editor!Root
  BY <1>1 DEF Editor!Canonical, Editor!IsFile
<1>2. CASE p # Editor!Root
  <2>1. p \in Editor!Paths /\ p.name \in EntryNames /\ p.inner \in BOOLEAN
    BY <1>2 DEF Editor!Paths
  <2>2. PICK r : r = Editor!Resolved(p.name)
    OBVIOUS
  <2>3. r \notin {Outside, Absent}
    BY <1>2, <2>2 DEF Editor!Canonical
  <2>4. /\ r \in EntryNames /\ s1[r].kind \in {"file", "directory"} /\ Editor!Resolved(r) = r
        /\ Editor!Ends(r) # {} /\ Editor!End(r) = r
    BY <2>1, <2>2, <2>3, Followed
  <2>5. q = [p EXCEPT !.name = r] /\ (p.inner => s1[r].kind = "directory" /\ s2[r] # Absent)
    BY <1>2, <2>2, <2>3 DEF Editor!Canonical
  <2>6. q \in Editor!Paths /\ q.name = r /\ q.inner = p.inner /\ [q EXCEPT !.name = r] = q
    BY <2>1, <2>4, <2>5 DEF Editor!Paths
  <2>7. q # Editor!Root
    BY <1>0, <2>4, <2>6 DEF Editor!Root, Editor!FilesAssumption
  <2>8. Editor!Canonical(q) = q
    BY <2>1, <2>3, <2>4, <2>5, <2>6, <2>7 DEF Editor!Canonical
  <2>9. ASSUME Editor!IsFile(q) PROVE Editor!Target(q) = q
    <3>1. s1[r].kind = IF q.inner THEN "directory" ELSE "file"
      BY <2>6, <2>7, <2>9 DEF Editor!IsFile
    <3>2. QED
      BY <2>4, <2>6, <3>1 DEF Editor!Target
  <2>10. ASSUME ~Editor!IsFile(q) PROVE Editor!Target(q) = Absent
    <3>1. ~q.inner /\ s1[r].kind = "directory"
      BY <2>1, <2>4, <2>5, <2>6, <2>7, <2>10 DEF Editor!IsFile, Editor!FilesHold
    <3>2. QED
      BY <2>4, <2>6, <3>1 DEF Editor!Target
  <2>11. QED
    BY <2>6, <2>7, <2>8, <2>9, <2>10
<1>3. QED
  BY <1>1, <1>2

\* As long as nothing changes, paths lead where they led.
LEMMA Standing ==
  ASSUME s1' = s1, s2' = s2
  PROVE  /\ \A n : Editor!Resolved(n)' = Editor!Resolved(n)
         /\ \A p : Editor!Canonical(p)' = Editor!Canonical(p)
         /\ \A p : Editor!IsFile(p)' = Editor!IsFile(p)
         /\ \A p : Editor!Sight(p)' = Editor!Sight(p)
<1>1. ASSUME NEW n PROVE Editor!Resolved(n)' = Editor!Resolved(n)
  <2>1. Editor!Ends(n)' = Editor!Ends(n)
    BY DEF Editor!Ends, Editor!Trail, Editor!Onward
  <2>2. Editor!End(n)' = Editor!End(n)
    BY <2>1 DEF Editor!End
  <2>3. QED
    BY <2>1, <2>2 DEF Editor!Resolved
<1>2. ASSUME NEW p PROVE Editor!Canonical(p)' = Editor!Canonical(p)
  <2>1. PICK r : r = Editor!Resolved(p.name)
    OBVIOUS
  <2>2. Editor!Resolved(p.name)' = r
    BY <1>1, <2>1
  <2>3. QED
    BY <2>1, <2>2 DEF Editor!Canonical
<1>3. ASSUME NEW p PROVE Editor!IsFile(p)' = Editor!IsFile(p)
  BY DEF Editor!IsFile
<1>4. ASSUME NEW p PROVE Editor!Sight(p)' = Editor!Sight(p)
  <2>1. PICK q : q = Editor!Canonical(p)
    OBVIOUS
  <2>2. Editor!Canonical(p)' = q /\ Editor!IsFile(q)' = Editor!IsFile(q)
    BY <1>2, <1>3, <2>1
  <2>3. QED
    BY <2>1, <2>2 DEF Editor!Sight
<1>5. QED
  BY <1>1, <1>2, <1>3, <1>4

\* Contents that change and stay do not change where paths lead.
LEMMA PathsLeadOn ==
  ASSUME Editor!DiskOK, s1' = s1, \A n \in EntryNames : s2'[n] = Absent <=> s2[n] = Absent
  PROVE  \A p \in Editor!Paths \cup {Editor!Root} : Editor!Canonical(p)' = Editor!Canonical(p)
<1> SUFFICES ASSUME NEW p \in Editor!Paths \cup {Editor!Root} PROVE Editor!Canonical(p)' = Editor!Canonical(p)
  OBVIOUS
<1>1. CASE p = Editor!Root
  BY <1>1 DEF Editor!Canonical
<1>2. CASE p # Editor!Root
  <2>1. PICK r : r = Editor!Resolved(p.name)
    OBVIOUS
  <2>2. Editor!Resolved(p.name)' = r
    <3>1. Editor!Ends(p.name)' = Editor!Ends(p.name)
      BY DEF Editor!Ends, Editor!Trail, Editor!Onward
    <3>2. Editor!End(p.name)' = Editor!End(p.name)
      BY <3>1 DEF Editor!End
    <3>3. QED
      BY <2>1, <3>1, <3>2 DEF Editor!Resolved
  <2>3. p.name \in EntryNames
    BY <1>2 DEF Editor!Paths
  <2>4. CASE r \in {Outside, Absent}
    BY <1>2, <2>1, <2>2, <2>4 DEF Editor!Canonical
  <2>5. CASE r \notin {Outside, Absent}
    <3>1. r \in EntryNames
      BY <2>1, <2>3, <2>5, Followed
    <3>2. s2'[r] = Absent <=> s2[r] = Absent
      BY <3>1
    <3>3. QED
      BY <1>2, <2>1, <2>2, <2>5, <3>2 DEF Editor!Canonical
  <2>6. QED
    BY <2>4, <2>5
<1>3. QED
  BY <1>1, <1>2

\* A path leads to contents, to a directory or to nothing, also after a step.
LEMMA SightLater ==
  ASSUME Editor!DiskOK', NEW p \in Editor!Paths \cup {Editor!Root}
  PROVE  Editor!Sight(p)' \in Editor!Contents \cup {Absent, Editor!Directory}
<1>1. PICK q : q = Editor!Canonical(p)'
  OBVIOUS
<1>2. CASE q \in {Outside, Absent} \/ ~Editor!IsFile(q)'
  BY <1>1, <1>2 DEF Editor!Sight
<1>3. CASE q \notin {Outside, Absent} /\ Editor!IsFile(q)'
  <2>1. q # Editor!Root /\ s2'[q.name] # Absent
    BY <1>3 DEF Editor!IsFile
  <2>2. p # Editor!Root
    BY <1>1, <2>1 DEF Editor!Canonical
  <2>3. p \in Editor!Paths /\ p.name \in EntryNames
    BY <2>2 DEF Editor!Paths
  <2>4. PICK r : r = Editor!Resolved(p.name)'
    OBVIOUS
  <2>5. r \notin {Outside, Absent} /\ q = [p EXCEPT !.name = r]
    BY <1>1, <1>3, <2>2, <2>4 DEF Editor!Canonical
  <2>6. r \in EntryNames
    <3>1. Editor!Ends(p.name)' # {} /\ r = Editor!End(p.name)'
      BY <2>4, <2>5 DEF Editor!Resolved
    <3>2. r \in Editor!Ends(p.name)'
      BY <3>1 DEF Editor!End
    <3>3. QED
      BY <3>2 DEF Editor!Ends, Editor!Trail
  <2>7. q.name = r
    BY <2>3, <2>5 DEF Editor!Paths
  <2>8. s2'[r] \in Editor!Contents
    BY <2>1, <2>6, <2>7 DEF Editor!DiskOK
  <2>9. Editor!Sight(p)' = s2'[r]
    BY <1>1, <1>3, <2>7 DEF Editor!Sight
  <2>10. QED
    BY <2>8, <2>9
<1>4. QED
  BY <1>2, <1>3

LEMMA FilesInit == Editor!Init => Editor!FilesInv
<1> SUFFICES ASSUME Editor!Init PROVE Editor!FilesInv
  OBVIOUS
<1>0. Editor!FilesAssumption
  BY SuiteAssumptions
<1>1. Editor!DiskOK /\ Editor!FilesHold
  BY DEF Editor!Init, Editor!DiskOK, Editor!FilesHold, Editor!Nodes, Editor!Nothing
<1>2. Editor!RequestOK
  BY DEF Editor!Init, Editor!Idle, Editor!RequestOK, Editor!Request
<1>3. s4 \in 0 .. MaxChanges
  BY <1>0 DEF Editor!Init, Editor!FilesAssumption
<1>4. s5 \in BOOLEAN /\ s6 = {} /\ s3.stage = "idle" /\ s3.op = "read" /\ ~s3.kept
  BY DEF Editor!Init, Editor!Idle
<1>5. QED
  BY <1>1, <1>2, <1>3, <1>4 DEF Editor!FilesInv, Editor!TypeOK, Editor!StagesFit,
     Editor!OpenedHolds, Editor!PlaceHolds, Editor!ListingOpens, Editor!EditorFaithful,
     Editor!Shows

\* Only the request changes.
LEMMA RequestBecomes ==
  ASSUME Editor!FilesInv, UNCHANGED <<s1, s2, s4, s5, s6>>, NEW r \in Editor!Request, s3' = r,
         r.op = "write" => r.content # Absent /\ r.path # Editor!Root,
         r.stage = "emptied" => r.op = "write" /\ r.answer = "none",
         r.stage = "opened" => r.place # Editor!Root,
         r.stage \in {"asked", "resolved", "opened"} => ~r.kept /\ r.answer = "none",
         r.op = "write" /\ r.kept => r.place # Editor!Root /\ Editor!IsFile(r.place),
         r.op = "read" /\ r.stage # "idle" => Editor!Sight(r.path) \in s6,
         r.op = "read" /\ r.stage = "opened" => s6 \cap Editor!Contents # {} \/ s5,
         ~s5 /\ r.stage \in {"resolved", "opened", "emptied"} => Editor!Canonical(r.path) = r.place,
         r.stage = "done" /\ r.answer = "directory" /\ r.place = Editor!Root /\ r.kept =>
           /\ \A e \in r.entries : Editor!Canonical(e.path) = e.path /\ Editor!Resolved(e.name) = e.path.name
           /\ \A n \in EntryNames : s1[n].kind \in {"file", "directory"} =>
                \E e \in r.entries : e.name = n,
         r.stage = "done" /\ r.answer = "text" => r.content \in s6 \/ s5,
         r.stage = "done" /\ r.answer = "refused" /\ r.op = "read" =>
           Absent \in s6 \/ (Editor!Directory \in s6 /\ s6 # {Editor!Directory}) \/ s5,
         r.stage = "done" /\ r.answer = "saved" =>
           /\ r.kept => s2[r.place.name] = r.content
           /\ Editor!Canonical(r.path) = r.place \/ s5
  PROVE  Editor!FilesInv'
<1>1. Editor!TypeOK' /\ Editor!FilesHold'
  BY DEF Editor!FilesInv, Editor!TypeOK, Editor!DiskOK, Editor!RequestOK,
     Editor!FilesHold
<1>2. Editor!StagesFit'
  BY DEF Editor!StagesFit, Editor!Root
<1>3. /\ \A p : Editor!Canonical(p)' = Editor!Canonical(p)
      /\ \A n : Editor!Resolved(n)' = Editor!Resolved(n)
      /\ \A p : Editor!IsFile(p)' = Editor!IsFile(p)
      /\ \A p : Editor!Sight(p)' = Editor!Sight(p)
  BY Standing
<1>4. Editor!Root' = Editor!Root /\ Editor!Contents' = Editor!Contents /\ Editor!Directory' = Editor!Directory
  BY DEF Editor!Root, Editor!Contents, Editor!Directory
<1>5. Editor!OpenedHolds'
  BY <1>3, <1>4 DEF Editor!OpenedHolds
<1>6. Editor!PlaceHolds'
  BY <1>3, <1>4 DEF Editor!PlaceHolds
<1>7. Editor!ListingOpens'
  <2>1. CASE r.stage = "done" /\ r.answer = "directory" /\ r.place = Editor!Root /\ r.kept
    <3>1. \A e \in r.entries : Editor!Canonical(e.path)' = e.path /\ Editor!Resolved(e.name)' = e.path.name
      BY <1>3, <2>1
    <3>2. \A n \in EntryNames : s1'[n].kind \in {"file", "directory"} =>
            \E e \in r.entries : e.name = n
      BY <2>1
    <3>3. QED
      BY <3>1, <3>2 DEF Editor!ListingOpens
  <2>2. CASE ~(r.stage = "done" /\ r.answer = "directory" /\ r.place = Editor!Root /\ r.kept)
    BY <1>4, <2>2 DEF Editor!ListingOpens, Editor!Shows
  <2>3. QED
    BY <2>1, <2>2
<1>8. Editor!EditorFaithful'
  BY <1>3, <1>4 DEF Editor!EditorFaithful, Editor!Shows
<1>9. QED
  BY <1>1, <1>2, <1>5, <1>6, <1>7, <1>8 DEF Editor!FilesInv

\* A request that is refused, or answered in a way that nothing is said of.
LEMMA RequestAnswered ==
  ASSUME Editor!FilesInv, NEW answer \in {"refused", "other"}, Editor!Answers(answer), s3.stage # "idle",
         answer = "refused" /\ s3.op = "read" =>
           Absent \in s6 \/ (Editor!Directory \in s6 /\ s6 # {Editor!Directory}) \/ s5
  PROVE  Editor!FilesInv'
<1>1. s3 \in Editor!Request /\ Editor!StagesFit /\ Editor!OpenedHolds /\ Editor!PlaceHolds
  BY DEF Editor!FilesInv, Editor!TypeOK, Editor!RequestOK
<1>2. PICK r \in Editor!Request : r = [s3 EXCEPT !.stage = "done", !.answer = answer]
  BY <1>1 DEF Editor!Request
<1>3. /\ r.stage = "done" /\ r.answer = answer /\ r.op = s3.op /\ r.path = s3.path
      /\ r.content = s3.content /\ r.kept = s3.kept /\ r.place = s3.place
  BY <1>1, <1>2 DEF Editor!Request
<1>4. s3' = r /\ UNCHANGED <<s1, s2, s4, s5, s6>>
  BY <1>2 DEF Editor!Answers, Editor!Becomes, Editor!disk
<1>5. r.op = "write" => r.content # Absent /\ r.path # Editor!Root
  BY <1>1, <1>3 DEF Editor!StagesFit
<1>6. r.op = "write" /\ r.kept => r.place # Editor!Root /\ Editor!IsFile(r.place)
  BY <1>1, <1>3 DEF Editor!OpenedHolds
<1>7. r.op = "read" => Editor!Sight(r.path) \in s6
  BY <1>1, <1>3 DEF Editor!PlaceHolds
<1>8. QED
  BY <1>3, <1>4, <1>5, <1>6, <1>7, RequestBecomes

\* A request goes on to a stage before it touches or shows anything.
LEMMA RequestGoesOn ==
  ASSUME Editor!FilesInv, s3.stage \in {"asked", "resolved"}, NEW stage \in {"resolved", "opened"},
         NEW place \in Editor!Paths \cup {Editor!Root},
         Editor!Becomes([s3 EXCEPT !.stage = stage, !.place = place]),
         ~s5 => Editor!Canonical(s3.path) = place,
         stage = "opened" => place # Editor!Root,
         stage = "opened" /\ s3.op = "read" => s6 \cap Editor!Contents # {} \/ s5
  PROVE  Editor!FilesInv'
<1>1. s3 \in Editor!Request /\ Editor!StagesFit /\ Editor!PlaceHolds
  BY DEF Editor!FilesInv, Editor!TypeOK, Editor!RequestOK
<1>2. PICK r \in Editor!Request : r = [s3 EXCEPT !.stage = stage, !.place = place]
  BY <1>1 DEF Editor!Request
<1>3. /\ r.stage = stage /\ r.place = place /\ r.op = s3.op /\ r.path = s3.path
      /\ r.content = s3.content /\ ~r.kept /\ r.answer = "none"
  BY <1>1, <1>2 DEF Editor!Request, Editor!StagesFit
<1>4. s3' = r /\ UNCHANGED <<s1, s2, s4, s5, s6>>
  BY <1>2 DEF Editor!Becomes, Editor!disk
<1>5. r.op = "write" => r.content # Absent /\ r.path # Editor!Root
  BY <1>1, <1>3 DEF Editor!StagesFit
<1>6. r.op = "read" => Editor!Sight(r.path) \in s6
  BY <1>1, <1>3 DEF Editor!PlaceHolds
<1>7. QED
  BY <1>3, <1>4, <1>5, <1>6, RequestBecomes

\* While a path is not redirected, its place is where it leads.
LEMMA PlaceStays ==
  ASSUME Editor!FilesInv, s3.stage \in {"resolved", "opened"}, ~s5
  PROVE  /\ Editor!Canonical(s3.place) = s3.place /\ s3.place \notin {Outside, Absent}
         /\ Editor!Found(s3.place) = IF Editor!IsFile(s3.place) THEN {s2[s3.place.name]} ELSE {}
         /\ Editor!Sight(s3.path) = IF Editor!IsFile(s3.place) THEN s2[s3.place.name] ELSE Editor!Directory
         /\ Editor!IsFile(s3.place) => s3.place \in Editor!Paths /\ Editor!Target(s3.place) = s3.place
         /\ ~Editor!IsFile(s3.place) /\ s3.place # Editor!Root => Editor!Target(s3.place) = Absent
<1>1. /\ s3 \in Editor!Request /\ Editor!DiskOK /\ Editor!FilesHold
      /\ Editor!Canonical(s3.path) = s3.place
  BY DEF Editor!FilesInv, Editor!TypeOK, Editor!RequestOK, Editor!PlaceHolds
<1>2. /\ s3.place \in Editor!Paths \cup {Editor!Root} /\ s3.path \in Editor!Paths \cup {Editor!Root}
  BY <1>1 DEF Editor!Request
<1>3. s3.place \notin {Outside, Absent}
  BY <1>2, SuiteAssumptions DEF Editor!FilesAssumption
<1>4. PICK q : q = s3.place
  OBVIOUS
<1>5. /\ Editor!Canonical(q) = q
      /\ Editor!IsFile(q) => q \in Editor!Paths /\ Editor!Target(q) = q
      /\ ~Editor!IsFile(q) /\ q # Editor!Root => Editor!Target(q) = Absent
  BY <1>1, <1>2, <1>3, <1>4, Found
<1>6. Editor!Found(q) = IF Editor!IsFile(q) THEN {s2[q.name]} ELSE {}
  BY <1>3, <1>4, <1>5 DEF Editor!Found
<1>7. Editor!Sight(s3.path) = IF Editor!IsFile(q) THEN s2[q.name] ELSE Editor!Directory
  BY <1>1, <1>3, <1>4 DEF Editor!Sight
<1>8. QED
  BY <1>3, <1>4, <1>5, <1>6, <1>7

LEMMA AskAsks ==
  ASSUME Editor!FilesInv, NEW op \in {"read", "write"}, NEW path \in Editor!Paths \cup {Editor!Root},
         NEW content \in Editor!Contents \cup {Absent}, Editor!Ask(op, path, content)
  PROVE  Editor!FilesInv'
<1>1. PICK r \in Editor!Request :
        r = [Editor!Idle EXCEPT !.stage = "asked", !.op = op, !.path = path, !.content = content]
  BY DEF Editor!Idle, Editor!Request
<1>2. /\ r.stage = "asked" /\ r.op = op /\ r.path = path /\ r.content = content
      /\ r.kept = FALSE /\ r.answer = "none"
  BY <1>1 DEF Editor!Idle
<1>3. /\ s3' = r /\ s5' = FALSE /\ s6' = {Editor!Sight(path)} /\ UNCHANGED <<s1, s2, s4>>
      /\ op = "write" => content # Absent /\ path # Editor!Root
  BY <1>1 DEF Editor!Ask, Editor!disk
<1>4. Editor!DiskOK' /\ Editor!FilesHold'
  BY <1>3 DEF Editor!FilesInv, Editor!TypeOK, Editor!DiskOK, Editor!FilesHold
<1>5. Editor!Sight(path)' = Editor!Sight(path)
  BY <1>3, Standing
<1>6. Editor!TypeOK'
  <2>1. Editor!Sight(path) \in Editor!Contents \cup {Absent, Editor!Directory}
    BY <1>4, <1>5, SightLater
  <2>2. QED
    BY <1>3, <1>4, <2>1 DEF Editor!FilesInv, Editor!TypeOK, Editor!RequestOK
<1>7. Editor!Root' = Editor!Root
  BY DEF Editor!Root
<1>8. Editor!StagesFit' /\ Editor!OpenedHolds' /\ Editor!ListingOpens' /\ Editor!EditorFaithful'
  BY <1>2, <1>3, <1>7 DEF Editor!StagesFit, Editor!OpenedHolds, Editor!ListingOpens,
     Editor!EditorFaithful, Editor!Shows
<1>9. Editor!PlaceHolds'
  BY <1>2, <1>3, <1>5 DEF Editor!PlaceHolds
<1>10. QED
  BY <1>4, <1>6, <1>8, <1>9 DEF Editor!FilesInv

LEMMA ResolveFinds ==
  ASSUME Editor!FilesInv, Editor!Resolve
  PROVE  Editor!FilesInv'
<1>1. s3 \in Editor!Request /\ Editor!PlaceHolds /\ Editor!DiskOK /\ Editor!FilesHold
  BY DEF Editor!FilesInv, Editor!TypeOK, Editor!RequestOK
<1>2. s3.stage = "asked"
  BY DEF Editor!Resolve
<1>3. PICK q : q = Editor!Canonical(s3.path)
  OBVIOUS
<1>4. CASE q \in {Outside, Absent}
  <2>1. Editor!Answers("refused")
    BY <1>3, <1>4 DEF Editor!Resolve
  <2>2. Editor!Sight(s3.path) = Absent
    BY <1>3, <1>4 DEF Editor!Sight
  <2>3. s3.op = "read" => Absent \in s6
    BY <1>1, <1>2, <2>2 DEF Editor!PlaceHolds
  <2>4. QED
    BY <1>2, <2>1, <2>3, RequestAnswered
<1>5. CASE q \notin {Outside, Absent}
  <2>1. s3.path \in Editor!Paths \cup {Editor!Root}
    BY <1>1 DEF Editor!Request
  <2>2. q \in Editor!Paths \cup {Editor!Root}
    BY <1>1, <1>3, <1>5, <2>1, Found
  <2>3. Editor!Becomes([s3 EXCEPT !.stage = "resolved", !.place = q])
    BY <1>3, <1>5 DEF Editor!Resolve
  <2>4. QED
    BY <1>2, <1>3, <2>2, <2>3, RequestGoesOn
<1>6. QED
  BY <1>4, <1>5

LEMMA ListAnswers ==
  ASSUME Editor!FilesInv, Editor!List
  PROVE  Editor!FilesInv'
<1>0. Editor!FilesAssumption
  BY SuiteAssumptions
<1>1. s3 \in Editor!Request /\ Editor!DiskOK /\ Editor!PlaceHolds
  BY DEF Editor!FilesInv, Editor!TypeOK, Editor!RequestOK
<1>2. s3.op = "read" /\ s3.stage = "resolved"
  BY DEF Editor!List, Editor!At
<1>3. PICK listed : listed = {Editor!Entry(n) : n \in {m \in EntryNames :
                                Editor!Resolved(m) \notin {Outside, Absent}}}
  OBVIOUS
<1>4. /\ listed \subseteq [name: EntryNames, path: Editor!Paths, kind: {"directory", "file"}]
      /\ \A e \in listed : Editor!Canonical(e.path) = e.path /\ Editor!Resolved(e.name) = e.path.name
  <2> SUFFICES ASSUME NEW n \in EntryNames, Editor!Resolved(n) \notin {Outside, Absent}
               PROVE  /\ Editor!Entry(n) \in [name: EntryNames, path: Editor!Paths,
                                         kind: {"directory", "file"}]
                      /\ Editor!Canonical(Editor!Entry(n).path) = Editor!Entry(n).path
                      /\ Editor!Resolved(Editor!Entry(n).name) = Editor!Entry(n).path.name
    BY <1>3
  <2>1. PICK q : q = Editor!Resolved(n)
    OBVIOUS
  <2>2. q \in EntryNames /\ s1[q].kind \in {"file", "directory"} /\ Editor!Resolved(q) = q
    BY <1>1, <2>1, Followed
  <2>3. PICK p \in Editor!Paths : p = [name |-> q, inner |-> FALSE]
    BY <2>2 DEF Editor!Paths
  <2>4. p.name = q /\ p.inner = FALSE /\ p # Editor!Root /\ [p EXCEPT !.name = q] = p
    <3>1. p.name = q /\ p.inner = FALSE
      BY <2>3
    <3>2. [p EXCEPT !.name = q] = p
      BY ONLY p \in Editor!Paths, <3>1 DEF Editor!Paths
    <3>3. Editor!Root.name = Absent /\ q # Absent
      BY <1>0, <2>2 DEF Editor!Root, Editor!FilesAssumption
    <3>4. QED
      BY <3>1, <3>2, <3>3
  <2>5. Editor!Canonical(p) = p
    BY <1>0, <2>2, <2>4 DEF Editor!Canonical, Editor!FilesAssumption
  <2>6. PICK k \in {"directory", "file"} :
          k = IF s1[n].kind = "directory" THEN "directory" ELSE "file"
    OBVIOUS
  <2>7. Editor!Entry(n) = [name |-> n, path |-> p, kind |-> k]
    BY <2>1, <2>3, <2>6 DEF Editor!Entry
  <2>8. QED
    BY <2>1, <2>4, <2>5, <2>7
<1>5. \A n \in EntryNames : s1[n].kind \in {"file", "directory"} => \E e \in listed : e.name = n
  <2> SUFFICES ASSUME NEW n \in EntryNames, s1[n].kind \in {"file", "directory"}
               PROVE  \E e \in listed : e.name = n
    OBVIOUS
  <2>1. Editor!Ends(n) # {} /\ Editor!End(n) = n
    BY LinksEnd DEF Editor!Onward
  <2>2. Editor!Resolved(n) = n
    BY <2>1 DEF Editor!Resolved
  <2>3. n \notin {Outside, Absent}
    BY <1>0 DEF Editor!FilesAssumption
  <2>4. Editor!Entry(n) \in listed /\ Editor!Entry(n).name = n
    BY <1>3, <2>2, <2>3 DEF Editor!Entry
  <2>5. QED
    BY <2>4
<1>6. PICK shown : shown = IF s3.place # Editor!Root THEN {} ELSE listed
  OBVIOUS
<1>7. PICK r \in Editor!Request :
        r = [s3 EXCEPT !.stage = "done", !.answer = "directory", !.kept = TRUE, !.entries = shown]
  <2>1. shown \in SUBSET [name: EntryNames, path: Editor!Paths, kind: {"directory", "file"}]
    BY <1>4, <1>6
  <2>2. QED
    BY ONLY <1>1, <2>1 DEF Editor!Request
<1>8. /\ r.stage = "done" /\ r.answer = "directory" /\ r.op = s3.op /\ r.place = s3.place
      /\ r.entries = shown /\ r.path = s3.path
  BY <1>1, <1>7 DEF Editor!Request
<1>9. s3' = r /\ UNCHANGED <<s1, s2, s4, s5, s6>>
  BY <1>3, <1>6, <1>7 DEF Editor!List, Editor!Becomes, Editor!disk
<1>10. r.place = Editor!Root => r.entries = listed
  BY <1>6, <1>8
<1>11. Editor!Sight(r.path) \in s6
  BY <1>1, <1>2, <1>8 DEF Editor!PlaceHolds
<1>12. QED
  BY <1>2, <1>4, <1>5, <1>8, <1>9, <1>10, <1>11, RequestBecomes

\* The file that a path leads to is opened.
LEMMA FileOpens ==
  ASSUME Editor!FilesInv, s3.stage = "resolved", Editor!Found(s3.place) # {},
         Editor!Becomes([s3 EXCEPT !.stage = "opened"])
  PROVE  Editor!FilesInv'
<1>1. s3 \in Editor!Request /\ Editor!DiskOK /\ Editor!PlaceHolds
  BY DEF Editor!FilesInv, Editor!TypeOK, Editor!RequestOK
<1>2. PICK place \in Editor!Paths \cup {Editor!Root} : place = s3.place
  BY <1>1 DEF Editor!Request
<1>3. [s3 EXCEPT !.stage = "opened"] = [s3 EXCEPT !.stage = "opened", !.place = place]
  BY <1>1, <1>2 DEF Editor!Request
<1>4. place # Editor!Root
  <2>1. {Outside, Absent} \cap (Editor!Paths \cup {Editor!Root}) = {}
    BY SuiteAssumptions DEF Editor!FilesAssumption
  <2>2. Editor!Root \notin {Outside, Absent}
    BY <2>1
  <2>3. Editor!Found(Editor!Root) = {}
    BY <2>2 DEF Editor!Found, Editor!Canonical, Editor!IsFile
  <2>4. QED
    BY <1>2, <2>3
<1>5. ASSUME s3.op = "read", ~s5 PROVE s6 \cap Editor!Contents # {}
  <2>1. Editor!IsFile(place) /\ place \in Editor!Paths /\ Editor!Sight(s3.path) = s2[place.name]
    BY <1>2, <1>5, PlaceStays
  <2>2. s2[place.name] \in Editor!Contents
    BY <1>1, <2>1 DEF Editor!DiskOK, Editor!IsFile, Editor!Paths
  <2>3. QED
    BY <1>1, <1>5, <2>1, <2>2 DEF Editor!PlaceHolds
<1>6. ~s5 => Editor!Canonical(s3.path) = place
  BY <1>1, <1>2 DEF Editor!PlaceHolds
<1>7. Editor!Becomes([s3 EXCEPT !.stage = "opened", !.place = place])
  BY <1>3
<1>8. QED
  BY <1>4, <1>5, <1>6, <1>7, RequestGoesOn

LEMMA OpenOpens ==
  ASSUME Editor!FilesInv, Editor!Open
  PROVE  Editor!FilesInv'
<1>1. s3.op = "read" /\ s3.stage = "resolved"
  BY DEF Editor!Open, Editor!At
<1>2. CASE Editor!Answers("refused") /\ Editor!Canonical(s3.place) = Absent
  <2>1. s5
    BY <1>1, <1>2, PlaceStays
  <2>2. QED
    BY <1>1, <1>2, <2>1, RequestAnswered
<1>3. CASE Editor!Answers("other")
  BY <1>1, <1>3, RequestAnswered
<1>4. CASE Editor!Found(s3.place) # {} /\ Editor!Becomes([s3 EXCEPT !.stage = "opened"])
  BY <1>1, <1>4, FileOpens
<1>5. QED
  BY <1>2, <1>3, <1>4 DEF Editor!Open

LEMMA SaveOpens ==
  ASSUME Editor!FilesInv, Editor!Save
  PROVE  Editor!FilesInv'
<1>1. s3.op = "write" /\ s3.stage = "resolved"
  BY DEF Editor!Save, Editor!At
<1>2. CASE Editor!Answers("refused")
  BY <1>1, <1>2, RequestAnswered
<1>3. CASE Editor!Found(s3.place) # {} /\ Editor!Becomes([s3 EXCEPT !.stage = "opened"])
  BY <1>1, <1>3, FileOpens
<1>4. QED
  BY <1>2, <1>3 DEF Editor!Save

LEMMA ReadReads ==
  ASSUME Editor!FilesInv, Editor!Read
  PROVE  Editor!FilesInv'
<1>1. s3 \in Editor!Request /\ Editor!DiskOK /\ Editor!PlaceHolds /\ Editor!StagesFit
  BY DEF Editor!FilesInv, Editor!TypeOK, Editor!RequestOK
<1>2. s3.op = "read" /\ s3.stage = "opened" /\ Editor!Sight(s3.path) \in s6
  BY <1>1 DEF Editor!Read, Editor!At, Editor!PlaceHolds
<1>3. CASE Editor!Found(s3.place) = {}
  <2>1. Editor!Answers("refused")
    BY <1>3 DEF Editor!Read
  <2>2. ASSUME ~s5 PROVE Editor!Directory \in s6 /\ s6 # {Editor!Directory}
    <3>1. Editor!Sight(s3.path) = Editor!Directory
      BY <1>2, <1>3, <2>2, PlaceStays
    <3>2. s6 \cap Editor!Contents # {}
      BY <1>1, <1>2, <2>2 DEF Editor!PlaceHolds
    <3>3. Absent \notin Editor!Contents /\ Editor!Directory \notin Editor!Contents
      BY SuiteAssumptions DEF Editor!FilesAssumption
    <3>4. QED
      BY <1>2, <3>1, <3>2, <3>3
  <2>3. QED
    BY <1>2, <2>1, <2>2, RequestAnswered
<1>4. CASE Editor!Found(s3.place) # {}
  <2>1. PICK content \in Editor!Found(s3.place) :
          Editor!Becomes([s3 EXCEPT !.stage = "done", !.content = content,
                            !.answer = IF content = Blob THEN "other" ELSE "text"])
    BY <1>4 DEF Editor!Read
  <2>2. content \in Editor!Contents \cup {Absent}
    <3>1. PICK q : q = Editor!Canonical(s3.place)
      OBVIOUS
    <3>2. CASE q = Outside
      BY <2>1, <3>1, <3>2 DEF Editor!Found
    <3>3. CASE q # Outside
      <4>1. q \notin {Outside, Absent} /\ Editor!IsFile(q) /\ content = s2[q.name]
        BY <2>1, <3>1, <3>3 DEF Editor!Found
      <4>2. s3.place \in Editor!Paths \cup {Editor!Root} /\ Editor!FilesHold
        BY <1>1 DEF Editor!Request, Editor!FilesInv
      <4>3. q \in Editor!Paths
        BY <1>1, <3>1, <4>1, <4>2, Found
      <4>4. q.name \in EntryNames
        BY <4>3 DEF Editor!Paths
      <4>5. QED
        BY <1>1, <4>1, <4>4 DEF Editor!DiskOK
    <3>4. QED
      BY <3>2, <3>3
  <2>3. PICK answer \in {"other", "text"} : answer = IF content = Blob THEN "other" ELSE "text"
    OBVIOUS
  <2>4. PICK r \in Editor!Request :
          r = [s3 EXCEPT !.stage = "done", !.content = content, !.answer = answer]
    BY ONLY <1>1, <2>2, answer \in {"other", "text"} DEF Editor!Request
  <2>5. /\ r.stage = "done" /\ r.op = "read" /\ r.path = s3.path /\ r.content = content
        /\ r.answer = answer
    BY <1>1, <1>2, <2>4 DEF Editor!Request
  <2>6. s3' = r /\ UNCHANGED <<s1, s2, s4, s5, s6>>
    BY <2>1, <2>3, <2>4 DEF Editor!Becomes, Editor!disk
  <2>7. content \in s6 \/ s5
    BY <1>2, <2>1, PlaceStays
  <2>8. QED
    BY <1>2, <2>5, <2>6, <2>7, RequestBecomes
<1>5. QED
  BY <1>3, <1>4

LEMMA EmptyEmpties ==
  ASSUME Editor!FilesInv, Editor!Empty
  PROVE  Editor!FilesInv'
<1>0. Editor!FilesAssumption
  BY SuiteAssumptions
<1>1. s3 \in Editor!Request /\ Editor!DiskOK /\ Editor!FilesHold /\ Editor!PlaceHolds /\ Editor!StagesFit /\ Editor!TypeOK
  BY DEF Editor!FilesInv, Editor!TypeOK, Editor!RequestOK
<1>2. /\ s3.op = "write" /\ s3.stage = "opened" /\ s3.place # Editor!Root /\ s3.content # Absent
      /\ s3.path # Editor!Root /\ ~s3.kept /\ s3.answer = "none"
  BY <1>1 DEF Editor!Empty, Editor!At, Editor!StagesFit
<1>3. PICK place \in Editor!Paths : place = s3.place
  BY <1>1, <1>2 DEF Editor!Request
<1>4. PICK t : t = Editor!Target(place)
  OBVIOUS
<1>5. CASE t = Absent
  <2>1. Editor!Answers("refused")
    BY <1>0, <1>3, <1>4, <1>5 DEF Editor!Empty, Editor!FilesAssumption
  <2>2. QED
    BY <1>2, <2>1, RequestAnswered
<1>6. CASE t # Absent /\ t = Outside
  <2>1. PICK r \in Editor!Request : r = [s3 EXCEPT !.stage = "emptied", !.place = Editor!Root]
    BY <1>1 DEF Editor!Request
  <2>2. s3' = r /\ UNCHANGED <<s1, s2, s4, s5, s6>>
    BY <1>3, <1>4, <1>6, <2>1 DEF Editor!Empty, Editor!Becomes, Editor!disk
  <2>3. /\ r.stage = "emptied" /\ r.op = "write" /\ r.path = s3.path
        /\ r.content = s3.content /\ ~r.kept /\ r.answer = "none"
    BY <1>1, <1>2, <2>1 DEF Editor!Request
  <2>4. s5
    <3> SUFFICES ASSUME ~s5 PROVE FALSE
      OBVIOUS
    <3>1. t \in {place, Absent} /\ place \notin {Outside, Absent}
      BY <1>2, <1>3, <1>4, PlaceStays
    <3>2. QED
      BY <1>6, <3>1
  <2>5. QED
    BY <1>2, <2>2, <2>3, <2>4, RequestBecomes
<1>7. CASE t # Absent /\ t # Outside
  <2>1. PICK m \in EntryNames : /\ t = [place EXCEPT !.name = m]
                                /\ s1[m].kind \in IF place.inner THEN {"directory"} ELSE {"file", "absent"}
    <3>1. place.name \in EntryNames
      BY DEF Editor!Paths
    <3>2. Editor!Ends(place.name) # {}
      BY <1>4, <1>7 DEF Editor!Target
    <3>3. Editor!End(place.name) \in EntryNames
      BY <3>1, <3>2, LinksEnd
    <3>4. QED
      BY <1>4, <1>7, <3>2, <3>3 DEF Editor!Target
  <2>2. t \in Editor!Paths /\ t.name = m /\ t.inner = place.inner /\ t.inner \in BOOLEAN
    BY <2>1 DEF Editor!Paths
  <2>3. t # Editor!Root
    BY <1>0, <2>2 DEF Editor!Root, Editor!FilesAssumption
  <2>4. PICK r \in Editor!Request :
          r = [s3 EXCEPT !.stage = "emptied", !.place = t, !.kept = TRUE]
    BY <1>1, <2>2 DEF Editor!Request
  <2>5. /\ s2' = [s2 EXCEPT ![m] = BlankText]
        /\ s1' = [s1 EXCEPT ![m] = IF t.inner THEN @ ELSE Editor!File]
        /\ s3' = r /\ UNCHANGED <<s4, s5, s6>>
    BY <1>3, <1>4, <1>7, <2>2, <2>4 DEF Editor!Empty
  <2>6. /\ r.stage = "emptied" /\ r.op = "write" /\ r.path = s3.path /\ r.kept
        /\ r.content = s3.content /\ r.place = t /\ r.answer = "none"
    BY <1>1, <1>2, <2>4 DEF Editor!Request
  <2>7. BlankText \in Editor!Contents /\ BlankText # Absent
    BY <1>0 DEF Editor!Contents, Editor!FilesAssumption
  <2>8. Editor!DiskOK'
    <3>1. Editor!File \in Editor!Nodes
      BY DEF Editor!Nodes
    <3>2. QED
      BY <1>1, <2>5, <2>7, <3>1 DEF Editor!DiskOK
  <2>9. Editor!TypeOK'
    BY <1>1, <2>5, <2>8 DEF Editor!TypeOK, Editor!RequestOK
  <2>10. Editor!FilesHold'
    BY <1>1, <2>5, <2>7 DEF Editor!FilesHold, Editor!DiskOK
  <2>11. Editor!Root' = Editor!Root
    BY DEF Editor!Root
  <2>12. Editor!StagesFit'
    BY <1>2, <2>5, <2>6, <2>11 DEF Editor!StagesFit
  <2>13. Editor!IsFile(t)'
    <3>1. s1'[m].kind = IF t.inner THEN "directory" ELSE "file"
      BY <1>1, <2>1, <2>2, <2>5 DEF Editor!DiskOK, Editor!File
    <3>2. s2'[m] = BlankText
      BY <1>1, <2>5 DEF Editor!DiskOK
    <3>3. QED
      BY <2>2, <2>3, <2>7, <2>11, <3>1, <3>2 DEF Editor!IsFile
  <2>14. Editor!OpenedHolds'
    BY <2>3, <2>5, <2>6, <2>11, <2>13 DEF Editor!OpenedHolds
  <2>15. ASSUME ~s5 PROVE Editor!Canonical(r.path)' = t
    <3>1. Editor!IsFile(t) /\ t = place
      BY <1>2, <1>3, <1>4, <1>7, <2>15, PlaceStays
    <3>2. s1[m].kind = (IF t.inner THEN "directory" ELSE "file") /\ s2[m] # Absent
      BY <2>2, <3>1 DEF Editor!IsFile
    <3>3. s1' = s1
      <4>1. ~t.inner => s1[m] = Editor!File
        BY <1>1, <3>2 DEF Editor!DiskOK, Editor!Nodes, Editor!Nothing,
           Editor!Directory, Editor!File, Editor!Link
      <4>2. QED
        BY <1>1, <2>5, <4>1 DEF Editor!DiskOK
    <3>4. \A n \in EntryNames : s2'[n] = Absent <=> s2[n] = Absent
      BY <1>1, <2>5, <2>7, <3>2 DEF Editor!DiskOK
    <3>5. r.path \in Editor!Paths \cup {Editor!Root} /\ Editor!Canonical(r.path) = t
      BY <1>1, <1>2, <1>3, <2>6, <2>15, <3>1 DEF Editor!Request, Editor!PlaceHolds
    <3>6. QED
      BY <1>1, <3>3, <3>4, <3>5, PathsLeadOn
  <2>16. Editor!PlaceHolds'
    BY <2>5, <2>6, <2>15 DEF Editor!PlaceHolds
  <2>17. Editor!ListingOpens' /\ Editor!EditorFaithful'
    BY <2>5, <2>6 DEF Editor!ListingOpens, Editor!EditorFaithful, Editor!Shows
  <2>18. QED
    BY <2>9, <2>10, <2>12, <2>14, <2>16, <2>17 DEF Editor!FilesInv
<1>8. QED
  BY <1>5, <1>6, <1>7

LEMMA WriteWrites ==
  ASSUME Editor!FilesInv, Editor!Write
  PROVE  Editor!FilesInv'
<1>1. /\ s3 \in Editor!Request /\ Editor!DiskOK /\ Editor!FilesHold /\ Editor!PlaceHolds
      /\ Editor!StagesFit /\ Editor!TypeOK /\ Editor!OpenedHolds
  BY DEF Editor!FilesInv, Editor!TypeOK, Editor!RequestOK
<1>2. s3.op = "write" /\ s3.stage = "emptied" /\ s3.content # Absent /\ s3.path # Editor!Root
  BY <1>1 DEF Editor!Write, Editor!At, Editor!StagesFit
<1>3. PICK q \in Editor!Paths \cup {Editor!Root} : q = s3.place
  BY <1>1 DEF Editor!Request
<1>4. PICK c \in Editor!Contents \cup {Absent} :
        /\ s3.kept => c = s3.content
        /\ s2' = IF c # Absent /\ Editor!IsFile(q) THEN [s2 EXCEPT ![q.name] = c] ELSE s2
  BY <1>1, <1>3 DEF Editor!Write, Editor!Request
<1>5. Editor!IsFile(q) => q.name \in EntryNames /\ q # Editor!Root /\ s2[q.name] # Absent
  BY DEF Editor!IsFile, Editor!Paths
<1>6. PICK r \in Editor!Request : r = [s3 EXCEPT !.stage = "done", !.answer = "saved"]
  BY <1>1 DEF Editor!Request
<1>7. /\ r.stage = "done" /\ r.answer = "saved" /\ r.op = "write" /\ r.path = s3.path
      /\ r.content = s3.content /\ r.place = q /\ r.kept = s3.kept
  BY <1>1, <1>2, <1>3, <1>6 DEF Editor!Request
<1>8. s3' = r /\ UNCHANGED <<s1, s4, s5, s6>>
  BY <1>6 DEF Editor!Write
<1>9. Editor!DiskOK'
  BY <1>1, <1>4, <1>5, <1>8 DEF Editor!DiskOK
<1>10. Editor!TypeOK'
  BY <1>1, <1>8, <1>9 DEF Editor!TypeOK, Editor!RequestOK
<1>11. \A n \in EntryNames : s2'[n] = Absent <=> s2[n] = Absent
  BY <1>1, <1>4, <1>5 DEF Editor!DiskOK
<1>12. Editor!FilesHold'
  BY <1>1, <1>8, <1>11 DEF Editor!FilesHold
<1>13. Editor!Root' = Editor!Root
  BY DEF Editor!Root
<1>14. Editor!StagesFit' /\ Editor!PlaceHolds' /\ Editor!ListingOpens'
  BY <1>2, <1>7, <1>8, <1>13 DEF Editor!StagesFit, Editor!PlaceHolds, Editor!ListingOpens,
     Editor!Shows
<1>15. r.kept => Editor!IsFile(q) /\ q # Editor!Root
  BY <1>1, <1>2, <1>3, <1>7 DEF Editor!OpenedHolds
<1>16. Editor!OpenedHolds'
  <2>1. Editor!IsFile(q) => Editor!IsFile(q)'
    BY <1>5, <1>8, <1>11, <1>13 DEF Editor!IsFile
  <2>2. QED
    BY <1>7, <1>8, <1>13, <1>15, <2>1 DEF Editor!OpenedHolds
<1>17. r.kept => s2'[q.name] = r.content
  BY <1>1, <1>2, <1>4, <1>5, <1>7, <1>15 DEF Editor!DiskOK
<1>18. ~s5 => Editor!Canonical(r.path)' = q
  <2>1. ~s5 => Editor!Canonical(r.path) = q
    BY <1>1, <1>2, <1>3, <1>7 DEF Editor!PlaceHolds
  <2>2. r.path \in Editor!Paths \cup {Editor!Root}
    BY DEF Editor!Request
  <2>3. QED
    BY <1>1, <1>8, <1>11, <2>1, <2>2, PathsLeadOn
<1>19. Editor!EditorFaithful'
  BY <1>7, <1>8, <1>17, <1>18 DEF Editor!EditorFaithful, Editor!Shows
<1>20. QED
  BY <1>10, <1>12, <1>14, <1>16, <1>19 DEF Editor!FilesInv

LEMMA WriteFailing ==
  ASSUME Editor!FilesInv, Editor!WriteFails
  PROVE  Editor!FilesInv'
<1>1. Editor!Answers("refused") /\ s3.op = "write" /\ s3.stage # "idle"
  BY DEF Editor!WriteFails, Editor!At
<1>2. QED
  BY <1>1, RequestAnswered

LEMMA ChangeChanges ==
  ASSUME Editor!FilesInv, NEW name \in EntryNames, NEW new \in Editor!Nodes,
         NEW content \in Editor!Contents \cup {Absent}, Editor!Change(name, new, content)
  PROVE  Editor!FilesInv'
<1>1. s3 \in Editor!Request /\ Editor!DiskOK /\ Editor!TypeOK
  BY DEF Editor!FilesInv, Editor!TypeOK, Editor!RequestOK
<1>2. PICK kept \in BOOLEAN : kept = (s3.kept /\ s3.place # Editor!Root /\ s3.place.name # name)
  OBVIOUS
<1>3. PICK r \in Editor!Request : r = [s3 EXCEPT !.kept = kept]
  BY <1>1 DEF Editor!Request
<1>4. /\ r.stage = s3.stage /\ r.op = s3.op /\ r.path = s3.path /\ r.place = s3.place
      /\ r.content = s3.content /\ r.answer = s3.answer /\ r.entries = s3.entries /\ r.kept = kept
  BY <1>1, <1>3 DEF Editor!Request
<1>5. /\ s1' = [s1 EXCEPT ![name] = new] /\ s2' = [s2 EXCEPT ![name] = content] /\ s3' = r
      /\ s4' = s4 + 1 /\ s4 < MaxChanges /\ (new.kind = "file" => content # Absent)
  BY <1>1, <1>2, <1>3 DEF Editor!Change, Editor!Request
<1>6. Editor!DiskOK' /\ Editor!FilesHold'
  BY <1>1, <1>5 DEF Editor!FilesInv, Editor!DiskOK, Editor!FilesHold
<1>7. r.path \in Editor!Paths \cup {Editor!Root} /\ r.place \in Editor!Paths \cup {Editor!Root}
  BY DEF Editor!Request
<1>8. s6' = IF r.stage = "idle" THEN s6 ELSE s6 \cup {Editor!Sight(r.path)'}
  BY <1>4, <1>5 DEF Editor!Change
<1>9. s5' = (s5 \/ (/\ r.stage \in {"resolved", "opened", "emptied"} \/ r.answer = "saved"
                    /\ Editor!Canonical(r.path)' # r.place))
  BY <1>4, <1>5 DEF Editor!Change
<1>10. Editor!TypeOK'
  <2>1. s4' \in 0 .. MaxChanges
    BY <1>1, <1>5, SuiteAssumptions DEF Editor!TypeOK, Editor!FilesAssumption
  <2>2. Editor!Sight(r.path)' \in Editor!Contents \cup {Absent, Editor!Directory}
    BY <1>6, <1>7, SightLater
  <2>3. s6' \subseteq Editor!Contents \cup {Absent, Editor!Directory}
    BY <1>1, <1>8, <2>2 DEF Editor!TypeOK
  <2>4. s5' \in BOOLEAN
    BY <1>1, <1>9 DEF Editor!TypeOK
  <2>5. QED
    BY <1>5, <1>6, <2>1, <2>3, <2>4 DEF Editor!TypeOK, Editor!RequestOK, Editor!Contents, Editor!Directory
<1>11. Editor!Root' = Editor!Root
  BY DEF Editor!Root
<1>12. Editor!StagesFit'
  BY <1>2, <1>4, <1>5, <1>11 DEF Editor!FilesInv, Editor!StagesFit
<1>13. kept => /\ r.place \in Editor!Paths /\ r.place.name \in EntryNames /\ r.place # Editor!Root
               /\ s1'[r.place.name] = s1[r.place.name] /\ s2'[r.place.name] = s2[r.place.name]
  BY <1>1, <1>2, <1>4, <1>5, <1>7 DEF Editor!DiskOK, Editor!Paths
<1>14. Editor!OpenedHolds'
  <2>1. kept /\ Editor!IsFile(r.place) => Editor!IsFile(r.place)'
    BY <1>11, <1>13 DEF Editor!IsFile
  <2>2. r.op = "write" /\ kept => Editor!IsFile(r.place)
    BY <1>2, <1>4 DEF Editor!FilesInv, Editor!OpenedHolds
  <2>3. QED
    BY <1>4, <1>5, <1>11, <1>13, <2>1, <2>2 DEF Editor!OpenedHolds
<1>15. Editor!PlaceHolds'
  <2>1. s6 \subseteq s6' /\ (s5 => s5')
    BY <1>8, <1>9
  <2>2. r.stage # "idle" => Editor!Sight(r.path)' \in s6'
    BY <1>8
  <2>3. r.op = "read" /\ r.stage = "opened" => s6' \cap Editor!Contents # {} \/ s5'
    BY <1>4, <2>1 DEF Editor!FilesInv, Editor!PlaceHolds
  <2>4. ~s5' /\ r.stage \in {"resolved", "opened", "emptied"} => Editor!Canonical(r.path)' = r.place
    BY <1>9
  <2>5. Editor!Contents' = Editor!Contents
    BY DEF Editor!Contents
  <2>6. QED
    BY <1>5, <2>2, <2>3, <2>4, <2>5 DEF Editor!PlaceHolds
<1>16. Editor!ListingOpens'
  BY <1>2, <1>4, <1>5, <1>11 DEF Editor!ListingOpens, Editor!Shows
<1>17. Editor!EditorFaithful'
  <2>1. s6 \subseteq s6' /\ (s5 => s5') /\ Editor!Directory' = Editor!Directory
    BY <1>8, <1>9 DEF Editor!Directory
  <2>2. r.stage = "done" /\ r.answer = "text" => r.content \in s6' \/ s5'
    BY <1>4, <2>1 DEF Editor!FilesInv, Editor!EditorFaithful, Editor!Shows
  <2>3. r.stage = "done" /\ r.answer = "refused" /\ r.op = "read" =>
          Absent \in s6' \/ (Editor!Directory \in s6' /\ s6' # {Editor!Directory}) \/ s5'
    BY <1>4, <2>1 DEF Editor!FilesInv, Editor!EditorFaithful, Editor!Shows
  <2>4. r.stage = "done" /\ r.answer = "saved" /\ kept => s2'[r.place.name] = r.content
    BY <1>2, <1>4, <1>13 DEF Editor!FilesInv, Editor!EditorFaithful, Editor!Shows
  <2>5. r.answer = "saved" => Editor!Canonical(r.path)' = r.place \/ s5'
    BY <1>9
  <2>6. QED
    BY <1>4, <1>5, <2>1, <2>2, <2>3, <2>4, <2>5 DEF Editor!EditorFaithful, Editor!Shows
<1>18. QED
  BY <1>6, <1>10, <1>12, <1>14, <1>15, <1>16, <1>17 DEF Editor!FilesInv

LEMMA FilesStep ==
  ASSUME Editor!FilesInv, [Editor!Next]_(Editor!vars)
  PROVE  Editor!FilesInv'
<1>1. CASE Editor!Done
  <2>1. PICK r \in Editor!Request : r = Editor!Idle
    BY DEF Editor!Idle, Editor!Request
  <2>2. r.stage = "idle" /\ r.op = "read" /\ r.kept = FALSE /\ r.answer = "none"
    BY <2>1 DEF Editor!Idle
  <2>3. s3' = r /\ UNCHANGED <<s1, s2, s4, s5, s6>>
    BY <1>1, <2>1 DEF Editor!Done, Editor!Becomes, Editor!disk
  <2>4. QED
    BY <2>2, <2>3, RequestBecomes
<1>2. CASE UNCHANGED Editor!vars
  <2>1. s1' = s1 /\ s2' = s2 /\ s3' = s3 /\ s4' = s4 /\ s5' = s5 /\ s6' = s6
    BY <1>2 DEF Editor!vars, Editor!disk
  <2>2. s3 \in Editor!Request
    BY DEF Editor!FilesInv, Editor!TypeOK, Editor!RequestOK
  <2>3. /\ s3.op = "write" => s3.content # Absent /\ s3.path # Editor!Root
        /\ s3.stage = "emptied" => s3.op = "write" /\ s3.answer = "none"
        /\ s3.stage = "opened" => s3.place # Editor!Root
        /\ s3.stage \in {"asked", "resolved", "opened"} => ~s3.kept /\ s3.answer = "none"
        /\ s3.op = "write" /\ s3.kept => s3.place # Editor!Root /\ Editor!IsFile(s3.place)
    BY DEF Editor!FilesInv, Editor!StagesFit, Editor!OpenedHolds
  <2>4. /\ s3.op = "read" /\ s3.stage # "idle" => Editor!Sight(s3.path) \in s6
        /\ s3.op = "read" /\ s3.stage = "opened" => s6 \cap Editor!Contents # {} \/ s5
        /\ ~s5 /\ s3.stage \in {"resolved", "opened", "emptied"} => Editor!Canonical(s3.path) = s3.place
    BY DEF Editor!FilesInv, Editor!PlaceHolds
  <2>5. s3.stage = "done" /\ s3.answer = "directory" /\ s3.place = Editor!Root /\ s3.kept =>
          /\ \A e \in s3.entries : Editor!Canonical(e.path) = e.path /\ Editor!Resolved(e.name) = e.path.name
          /\ \A n \in EntryNames : s1[n].kind \in {"file", "directory"} =>
               \E e \in s3.entries : e.name = n
    BY DEF Editor!FilesInv, Editor!ListingOpens, Editor!Shows
  <2>6. /\ s3.stage = "done" /\ s3.answer = "text" => s3.content \in s6 \/ s5
        /\ s3.stage = "done" /\ s3.answer = "refused" /\ s3.op = "read" =>
             Absent \in s6 \/ (Editor!Directory \in s6 /\ s6 # {Editor!Directory}) \/ s5
        /\ s3.stage = "done" /\ s3.answer = "saved" =>
             /\ s3.kept => s2[s3.place.name] = s3.content
             /\ Editor!Canonical(s3.path) = s3.place \/ s5
    BY DEF Editor!FilesInv, Editor!EditorFaithful, Editor!Shows
  <2>7. QED
    BY <2>1, <2>2, <2>3, <2>4, <2>5, <2>6, RequestBecomes
<1>3. QED
  BY <1>1, <1>2, AskAsks, ResolveFinds, ListAnswers, OpenOpens, ReadReads, SaveOpens,
     EmptyEmpties, WriteWrites, WriteFailing, ChangeChanges DEF Editor!Next

\* What a listing shows can be opened; whatever others do meanwhile, the editor
\* shows contents the file in the project has had since it was asked for, what
\* was saved stays, and is where the path leads (project_files.rs).
THEOREM ServerFiles == SuiteSpec => []FilesFaithful
<1> DEFINE Keeps == focus = "files" => Editor!FilesInv
<1>1. SuiteInit => Keeps
  BY FilesInit DEF SuiteInit, FocusInit
<1>2. Keeps /\ [SuiteNext]_suite => Keeps'
  <2> SUFFICES ASSUME Keeps, [SuiteNext]_suite, focus' = "files"
               PROVE  Editor!FilesInv'
    OBVIOUS
  <2>1. Editor!FilesInv
    BY DEF SuiteNext, suite
  <2>2. [Editor!Next]_(Editor!vars)
    BY DEF SuiteNext, FocusNext, suite, Editor!vars, Editor!disk
  <2>3. QED
    BY <2>1, <2>2, FilesStep
<1>3. Keeps => FilesFaithful
  BY DEF FilesFaithful, Editor!FilesInv
<1>4. QED
  BY <1>1, <1>2, <1>3, PTL DEF SuiteSpec

-----------------------------------------------------------------------------
(***************************************************************************)
(* Reports and history of git (GitReports, GitHistory)                     *)
(***************************************************************************)

\* git keeps a tree of contents.
LEMMA ReportTreeKept ==
  ASSUME Reports!TreeTypeOK, Reports!Elsewhere
  PROVE  Reports!TreeTypeOK'
<1> USE DEF Reports!TreeTypeOK
<1>1. ASSUME NEW p \in ReportPaths, NEW version \in Reports!Content, Reports!Edit(p, version)
      PROVE  Reports!TreeTypeOK'
  BY <1>1 DEF Reports!Edit
<1>2. ASSUME NEW p \in ReportPaths, Reports!Add({p})
      PROVE  Reports!TreeTypeOK'
  BY <1>2 DEF Reports!Add, Reports!Mixed
<1>3. ASSUME NEW p \in ReportPaths, Reports!Reset({p})
      PROVE  Reports!TreeTypeOK'
  BY <1>3 DEF Reports!Reset, Reports!Mixed
<1>4. ASSUME NEW p \in ReportPaths, Reports!RmCached({p})
      PROVE  Reports!TreeTypeOK'
  BY <1>4 DEF Reports!RmCached, Reports!Content
<1>5. CASE Reports!Commit
  BY <1>5 DEF Reports!Commit
<1>6. QED
  BY <1>1, <1>2, <1>3, <1>4, <1>5 DEF Reports!Elsewhere

LEMMA ReportsInit == Reports!Init => Reports!ReportsInv
<1> SUFFICES ASSUME Reports!Init PROVE Reports!ReportsInv
  OBVIOUS
<1>1. Reports!TreeTypeOK
  BY DEF Reports!Init, Reports!TreeInit, Reports!TreeTypeOK, Reports!Content
<1>2. Reports!ReaderOK
  BY DEF Reports!Init, Reports!NoReport, Reports!ReaderOK, Reports!Report,
     Reports!Stages, Reports!Kinds, Reports!Nothing, Reports!Columns,
     Reports!Labels
<1>3. s5.stage = "idle" /\ s5.diffs = Reports!Nothing
  BY DEF Reports!Init, Reports!NoReport
<1>4. Reports!ReportFits /\ Reports!ReadSoFar /\ Reports!ReportExact /\ Reports!BaselineRight
  BY <1>3 DEF Reports!ReportFits, Reports!ReadSoFar, Reports!ReportExact,
     Reports!BaselineRight, Reports!Shown
<1>5. Reports!MadeSoFar
  BY <1>3 DEF Reports!MadeSoFar, Reports!Made
<1>6. Reports!DiffsListed
  BY <1>3 DEF Reports!DiffsListed, Reports!Nothing
<1>7. QED
  BY <1>1, <1>2, <1>4, <1>5, <1>6 DEF Reports!ReportsInv, Reports!TypeOK

\* Only the report changes.
LEMMA ReportBecomes ==
  ASSUME Reports!ReportsInv, UNCHANGED <<s1, s2, s3, s4>>, NEW r \in Reports!Report, s5' = r,
         NEW scope, scope = IF r.kind = "file" THEN {r.path} ELSE ReportPaths,
         r.stage # "idle" => (r.kind = "view" <=> r.path = Absent),
         r.stage \in {"idle", "summary", "status"} => r.diffs = Reports!Nothing,
         r.steady /\ r.kind # "baseline" /\ r.stage \notin {"idle", "summary"} =>
           /\ r.dirty <=> \E p \in ReportPaths : s1[p] # s3[p] \/ s3[p] # s4[p]
           /\ ~r.dirty => r.counted = {},
         r.steady /\ r.stage \in {"listed", "unstaged", "staged"} =>
           \A p \in ReportPaths : r.listed[p] = IF p \in scope THEN Reports!Entries(p) ELSE {},
         r.steady /\ r.stage = "tracked" => s4[r.path] # Absent /\ s3[r.path] # Absent,
         r.steady /\ r.kind # "baseline" /\ r.stage \in {"listed", "unstaged", "staged", "done"} =>
           \A p \in scope \ Unreadable : r.diffs[p] = Reports!Due(p) \cap Reports!Made[r.stage],
         \A p \in ReportPaths :
           r.diffs[p] # {} => r.listed[p] # {} /\ (r.kind = "file" => p = r.path),
         r.steady /\ r.kind = "baseline" /\ r.stage = "done" =>
           r.base = IF s4[r.path] = Absent THEN "none"
                    ELSE IF s1[r.path] = Absent \/ s3[r.path] = Absent THEN "empty"
                    ELSE s1[r.path]
  PROVE  Reports!ReportsInv'
<1>1. Reports!TypeOK'
  BY DEF Reports!ReportsInv, Reports!TypeOK, Reports!TreeTypeOK, Reports!ReaderOK
<1>2. Reports!Scope' = scope
  BY DEF Reports!Scope
<1>3. \A p : Reports!Entries(p)' = Reports!Entries(p) /\ Reports!Due(p)' = Reports!Due(p)
  BY DEF Reports!Entries, Reports!Due, Reports!Staged, Reports!Unstaged,
     Reports!Untracked
<1>4. Reports!ReportFits'
  BY DEF Reports!ReportFits
<1>5. Reports!ReadSoFar'
  BY <1>2, <1>3 DEF Reports!ReadSoFar
<1>6. Reports!MadeSoFar'
  BY <1>2, <1>3 DEF Reports!MadeSoFar, Reports!Made
<1>7. Reports!DiffsListed'
  BY DEF Reports!DiffsListed
<1>8. Reports!ReportExact'
  <2>1. SUFFICES ASSUME s5'.stage = "done", s5'.kind \in {"view", "file"}, s5'.steady
                 PROVE  Reports!ReportExact'
    BY DEF Reports!ReportExact, Reports!Shown
  <2>2. r.stage = "done" /\ r.kind # "baseline" /\ r.steady
    BY <2>1
  <2>3. ASSUME NEW p \in scope \ Unreadable PROVE r.diffs[p] = Reports!Due(p)
    <3>1. r.diffs[p] = Reports!Due(p) \cap Reports!Made["done"]
      BY <2>2
    <3>2. Reports!Made["done"] = {"Unstaged", "Staged", "Untracked"}
      BY DEF Reports!Made
    <3>3. Reports!Due(p) \subseteq {"Unstaged", "Staged", "Untracked"}
      BY DEF Reports!Due
    <3>4. QED
      BY <3>1, <3>2, <3>3
  <2>4. /\ r.dirty <=> \E p \in ReportPaths : s1[p] # s3[p] \/ s3[p] # s4[p]
        /\ ~r.dirty => r.counted = {}
    BY <2>2
  <2>5. QED
    BY <1>2, <1>3, <2>3, <2>4 DEF Reports!ReportExact
<1>9. Reports!BaselineRight'
  BY DEF Reports!BaselineRight, Reports!Shown
<1>10. QED
  BY <1>1, <1>4, <1>5, <1>6, <1>7, <1>8, <1>9 DEF Reports!ReportsInv

LEMMA StartStarts ==
  ASSUME Reports!ReportsInv, NEW kind \in Reports!Kinds, NEW p \in ReportPaths \cup {Absent},
         Reports!Start(kind, p)
  PROVE  Reports!ReportsInv'
<1>1. PICK stage \in {"status", "summary"} :
        stage = IF kind = "baseline" THEN "status" ELSE "summary"
  OBVIOUS
<1>2. PICK r \in Reports!Report : r = [Reports!NoReport EXCEPT !.stage = stage, !.kind = kind, !.path = p]
  BY DEF Reports!NoReport, Reports!Report, Reports!Stages, Reports!Nothing,
     Reports!Columns, Reports!Labels, Reports!Kinds
<1>3. r.stage = stage /\ r.kind = kind /\ r.path = p /\ r.diffs = Reports!Nothing
  BY <1>2 DEF Reports!NoReport
<1>4. s5' = r /\ UNCHANGED <<s1, s2, s3, s4>> /\ (kind = "view" <=> p = Absent)
  BY <1>1, <1>2 DEF Reports!Start, Reports!Becomes, Reports!tree
<1>5. \A f \in ReportPaths : r.diffs[f] = {}
  BY <1>3 DEF Reports!Nothing
<1>6. PICK scope : scope = IF r.kind = "file" THEN {r.path} ELSE ReportPaths
  OBVIOUS
<1>7. r.stage \notin {"tracked", "listed", "unstaged", "staged", "done", "idle"}
  BY <1>1, <1>3
<1>8. r.kind = "baseline" \/ r.stage = "summary"
  BY <1>1, <1>3
<1>9. QED
  BY <1>3, <1>4, <1>5, <1>6, <1>7, <1>8, ReportBecomes

\* A tree without changes is one that is the same everywhere.
LEMMA ChangesSeen ==
  /\ \A p \in ReportPaths : Reports!Staged(p) \/ Reports!Unstaged(p) \/ Reports!Untracked(p)
                              <=> s1[p] # s3[p] \/ s3[p] # s4[p]
  /\ (\A p \in ReportPaths : s1[p] = s3[p] /\ s3[p] = s4[p]) =>
       Reports!Counted = {} /\ \A p \in ReportPaths : ~Reports!Untracked(p)
BY DEF Reports!Staged, Reports!Unstaged, Reports!Untracked, Reports!Counted

LEMMA SummaryReads ==
  ASSUME Reports!ReportsInv, Reports!Summary
  PROVE  Reports!ReportsInv'
<1>1. s5 \in Reports!Report /\ Reports!ReportFits /\ Reports!DiffsListed
  BY DEF Reports!ReportsInv, Reports!TypeOK, Reports!ReaderOK
<1>2. s5.stage = "summary" /\ s5.kind \in {"view", "file"}
  BY DEF Reports!Summary, Reports!In
<1>3. PICK counts \in BOOLEAN, states \in BOOLEAN :
        LET untracked == IF states THEN {p \in ReportPaths : Reports!Untracked(p)} ELSE {}
        IN Reports!Becomes([s5 EXCEPT
             !.stage = "status",
             !.counted = (IF counts THEN Reports!Counted ELSE {}) \cup untracked,
             !.dirty = states /\ \E p \in ReportPaths :
                                    Reports!Staged(p) \/ Reports!Unstaged(p) \/ Reports!Untracked(p),
             !.steady = @ /\ counts /\ states])
  BY DEF Reports!Summary
<1>4. PICK counted \in SUBSET ReportPaths :
        counted = (IF counts THEN Reports!Counted ELSE {})
                    \cup (IF states THEN {p \in ReportPaths : Reports!Untracked(p)} ELSE {})
  BY DEF Reports!Counted
<1>5. PICK dirty \in BOOLEAN :
        dirty <=> states /\ \E p \in ReportPaths :
                               Reports!Staged(p) \/ Reports!Unstaged(p) \/ Reports!Untracked(p)
  OBVIOUS
<1>6. PICK steady \in BOOLEAN : steady <=> s5.steady /\ counts /\ states
  OBVIOUS
<1>7. PICK r \in Reports!Report :
        r = [s5 EXCEPT !.stage = "status", !.counted = counted, !.dirty = dirty, !.steady = steady]
  <2>1. "status" \in Reports!Stages
    BY DEF Reports!Stages
  <2>2. QED
    BY ONLY <1>1, <2>1, counted \in SUBSET ReportPaths, dirty \in BOOLEAN, steady
       \in BOOLEAN
       DEF Reports!Report
<1>8. /\ r.stage = "status" /\ r.counted = counted /\ r.dirty = dirty /\ r.steady = steady
      /\ r.kind = s5.kind /\ r.path = s5.path /\ r.diffs = s5.diffs /\ r.listed = s5.listed
  BY <1>1, <1>7 DEF Reports!Report
<1>9. s5' = r /\ UNCHANGED <<s1, s2, s3, s4>>
  BY <1>1, <1>3, <1>4, <1>5, <1>6, <1>7 DEF Reports!Becomes, Reports!tree,
     Reports!Report
<1>10. ASSUME r.steady
       PROVE  /\ r.dirty <=> \E p \in ReportPaths : s1[p] # s3[p] \/ s3[p] # s4[p]
              /\ ~r.dirty => r.counted = {}
  <2>1. counts /\ states
    BY <1>6, <1>8, <1>10
  <2>2. r.dirty <=> \E p \in ReportPaths : s1[p] # s3[p] \/ s3[p] # s4[p]
    BY <1>5, <1>8, <2>1, ChangesSeen
  <2>3. ~r.dirty => r.counted = {}
    BY <1>4, <1>8, <2>1, <2>2, ChangesSeen
  <2>4. QED
    BY <2>2, <2>3
<1>11. r.diffs = Reports!Nothing /\ (r.kind = "view" <=> r.path = Absent)
  BY <1>1, <1>2, <1>8 DEF Reports!ReportFits
<1>12. \A p \in ReportPaths : r.diffs[p] = {}
  BY <1>11 DEF Reports!Nothing
<1>13. PICK scope : scope = IF r.kind = "file" THEN {r.path} ELSE ReportPaths
  OBVIOUS
<1>14. r.stage = "status"
  BY <1>8
<1>15. QED
  BY <1>9, <1>10, <1>11, <1>12, <1>13, <1>14, ReportBecomes

LEMMA StatusFailsSafely ==
  ASSUME Reports!ReportsInv, Reports!StatusFails
  PROVE  Reports!ReportsInv'
<1>1. s5 \in Reports!Report /\ Reports!ReportFits
  BY DEF Reports!ReportsInv, Reports!TypeOK, Reports!ReaderOK
<1>2. s5.stage = "status" /\ s5.kind \in {"view", "file"}
  BY DEF Reports!StatusFails, Reports!In
<1>3. PICK r \in Reports!Report : r = [s5 EXCEPT !.stage = "done", !.failed = TRUE, !.steady = FALSE]
  BY <1>1 DEF Reports!Report, Reports!Stages
<1>4. /\ r.stage = "done" /\ r.steady = FALSE /\ r.kind = s5.kind /\ r.path = s5.path
      /\ r.diffs = s5.diffs
  BY <1>1, <1>3 DEF Reports!Report
<1>5. s5' = r /\ UNCHANGED <<s1, s2, s3, s4>>
  BY <1>3 DEF Reports!StatusFails, Reports!Becomes, Reports!tree
<1>6. (r.kind = "view" <=> r.path = Absent) /\ \A p \in ReportPaths : r.diffs[p] = {}
  BY <1>1, <1>2, <1>4 DEF Reports!ReportFits, Reports!Nothing
<1>7. PICK scope : scope = IF r.kind = "file" THEN {r.path} ELSE ReportPaths
  OBVIOUS
<1>8. QED
  BY <1>4, <1>5, <1>6, <1>7, ReportBecomes

LEMMA ListLists ==
  ASSUME Reports!ReportsInv, Reports!List
  PROVE  Reports!ReportsInv'
<1>1. s5 \in Reports!Report /\ Reports!ReportFits /\ Reports!ReadSoFar
  BY DEF Reports!ReportsInv, Reports!TypeOK, Reports!ReaderOK
<1>2. s5.stage = "status" /\ s5.kind \in {"view", "file"}
  BY DEF Reports!List, Reports!In
<1>3. PICK scope : scope = IF s5.kind = "file" THEN {s5.path} ELSE ReportPaths
  OBVIOUS
<1>4. Reports!Scope = scope
  BY <1>3 DEF Reports!Scope
<1>5. PICK fails \in BOOLEAN :
        LET listed == [p \in ReportPaths |-> IF fails \/ p \notin Reports!Scope THEN {} ELSE Reports!Entries(p)]
        IN Reports!Becomes([s5 EXCEPT
             !.stage = IF s5.kind = "file" /\ listed = Reports!Nothing THEN "done" ELSE "listed",
             !.listed = listed, !.steady = @ /\ ~fails])
  BY DEF Reports!List
<1>6. PICK listed \in [ReportPaths -> SUBSET Reports!Columns] :
        listed = [p \in ReportPaths |-> IF fails \/ p \notin scope THEN {} ELSE Reports!Entries(p)]
  BY DEF Reports!Entries, Reports!Columns
<1>7. PICK stage \in {"done", "listed"} :
        stage = IF s5.kind = "file" /\ listed = Reports!Nothing THEN "done" ELSE "listed"
  OBVIOUS
<1>8. PICK steady \in BOOLEAN : steady <=> s5.steady /\ ~fails
  OBVIOUS
<1>9. PICK r \in Reports!Report : r = [s5 EXCEPT !.stage = stage, !.listed = listed, !.steady = steady]
  <2>1. stage \in Reports!Stages
    BY DEF Reports!Stages
  <2>2. QED
    BY ONLY <1>1, <2>1, listed \in [ReportPaths -> SUBSET Reports!Columns], steady
       \in BOOLEAN
       DEF Reports!Report
<1>10. /\ r.stage = stage /\ r.listed = listed /\ r.steady = steady /\ r.kind = s5.kind
       /\ r.path = s5.path /\ r.diffs = s5.diffs /\ r.dirty = s5.dirty
       /\ r.counted = s5.counted
  BY <1>1, <1>9 DEF Reports!Report
<1>11. s5' = r /\ UNCHANGED <<s1, s2, s3, s4>>
  <2>1. listed = [p \in ReportPaths |-> IF fails \/ p \notin Reports!Scope THEN {} ELSE Reports!Entries(p)]
    BY <1>4, <1>6
  <2>2. (s5.steady /\ ~fails) = steady
    BY <1>1, <1>8 DEF Reports!Report
  <2>3. Reports!Becomes([s5 EXCEPT !.stage = stage, !.listed = listed, !.steady = s5.steady /\ ~fails])
    BY <1>5, <1>7, <2>1
  <2>4. QED
    BY <1>9, <2>2, <2>3 DEF Reports!Becomes, Reports!tree
<1>12. (r.kind = "view" <=> r.path = Absent) /\ r.diffs = Reports!Nothing
  BY <1>1, <1>2, <1>10 DEF Reports!ReportFits
<1>13. \A p \in ReportPaths : r.diffs[p] = {}
  BY <1>12 DEF Reports!Nothing
<1>14. r.steady =>
         /\ r.dirty <=> \E p \in ReportPaths : s1[p] # s3[p] \/ s3[p] # s4[p]
         /\ ~r.dirty => r.counted = {}
  BY <1>1, <1>2, <1>8, <1>10 DEF Reports!ReadSoFar
<1>15. r.steady => \A p \in ReportPaths : r.listed[p] = IF p \in scope THEN Reports!Entries(p) ELSE {}
  BY <1>6, <1>8, <1>10
<1>16. scope \subseteq ReportPaths
  BY <1>1, <1>2, <1>3 DEF Reports!ReportFits, Reports!Report
<1>17. ASSUME r.steady, r.stage \in {"listed", "unstaged", "staged", "done"}, NEW p \in scope
       PROVE  r.diffs[p] = Reports!Due(p) \cap Reports!Made[r.stage]
  <2>1. r.diffs[p] = {}
    BY <1>13, <1>16
  <2>2. CASE stage = "listed"
    BY <1>10, <2>1, <2>2 DEF Reports!Made
  <2>3. CASE stage = "done"
    <3>1. listed = Reports!Nothing
      BY <1>7, <2>3
    <3>2. Reports!Entries(p) = {}
      BY <1>10, <1>15, <1>16, <1>17, <3>1 DEF Reports!Nothing
    <3>3. Reports!Due(p) = {}
      BY <3>2 DEF Reports!Entries, Reports!Due
    <3>4. QED
      BY <2>1, <3>3
  <2>4. QED
    BY <2>2, <2>3
<1>18. scope = IF r.kind = "file" THEN {r.path} ELSE ReportPaths
  BY <1>3, <1>10
<1>19. r.stage \in {"listed", "done"} /\ r.kind # "baseline"
  BY <1>2, <1>10
<1>20. QED
  BY <1>11, <1>12, <1>13, <1>14, <1>15, <1>17, <1>18, <1>19, ReportBecomes

\* A command adds the diffs of its label.
LEMMA AttachAttaches ==
  ASSUME Reports!ReportsInv,
         NEW from \in {"listed", "unstaged", "staged"},
         NEW to \in {"unstaged", "staged", "done"},
         NEW label \in Reports!Labels, NEW paths,
         Reports!Attach(from, to, label, paths),
         Reports!Made[to] = Reports!Made[from] \cup {label},
         s5.steady => \A p \in ReportPaths : s5.listed[p] = Reports!Entries(p) =>
                        (p \in paths <=> label \in Reports!Due(p))
  PROVE  Reports!ReportsInv'
<1>1. s5 \in Reports!Report /\ Reports!ReportFits /\ Reports!ReadSoFar /\ Reports!MadeSoFar /\ Reports!DiffsListed
  BY DEF Reports!ReportsInv, Reports!TypeOK, Reports!ReaderOK
<1>2. s5.stage = from /\ s5.kind \in {"view", "file"}
  BY DEF Reports!Attach, Reports!In
<1>3. PICK scope : scope = IF s5.kind = "file" THEN {s5.path} ELSE ReportPaths
  OBVIOUS
<1>4. Reports!Scope = scope /\ scope \subseteq ReportPaths
  BY <1>1, <1>2, <1>3 DEF Reports!Scope, Reports!ReportFits, Reports!Report
<1>5. PICK fails \in BOOLEAN :
        Reports!Becomes([s5 EXCEPT
          !.stage = to, !.steady = @ /\ ~fails,
          !.diffs = [p \in ReportPaths |->
            IF ~fails /\ p \in (paths \cap Reports!Scope) \ Unreadable /\ s5.listed[p] # {}
            THEN s5.diffs[p] \cup {label} ELSE s5.diffs[p]]])
  BY DEF Reports!Attach
<1>6. s5.diffs \in [ReportPaths -> SUBSET Reports!Labels]
  BY <1>1 DEF Reports!Report
<1>7. PICK diffs \in [ReportPaths -> SUBSET Reports!Labels] :
        diffs = [p \in ReportPaths |->
                   IF ~fails /\ p \in (paths \cap scope) \ Unreadable /\ s5.listed[p] # {}
                   THEN s5.diffs[p] \cup {label} ELSE s5.diffs[p]]
  <2>1. \A p \in ReportPaths : s5.diffs[p] \in SUBSET Reports!Labels
                                 /\ s5.diffs[p] \cup {label} \in SUBSET Reports!Labels
    BY <1>6
  <2>2. QED
    BY <2>1
<1>8. PICK steady \in BOOLEAN : steady <=> s5.steady /\ ~fails
  OBVIOUS
<1>9. PICK r \in Reports!Report : r = [s5 EXCEPT !.stage = to, !.steady = steady, !.diffs = diffs]
  <2>1. to \in Reports!Stages
    BY DEF Reports!Stages
  <2>2. QED
    BY ONLY <1>1, <2>1, diffs \in [ReportPaths -> SUBSET Reports!Labels], steady \in
       BOOLEAN
       DEF Reports!Report
<1>10. /\ r.stage = to /\ r.diffs = diffs /\ r.steady = steady /\ r.kind = s5.kind
       /\ r.path = s5.path /\ r.listed = s5.listed /\ r.dirty = s5.dirty
       /\ r.counted = s5.counted
  BY <1>1, <1>9 DEF Reports!Report
<1>11. s5' = r /\ UNCHANGED <<s1, s2, s3, s4>>
  BY <1>1, <1>4, <1>5, <1>7, <1>8, <1>9 DEF Reports!Becomes, Reports!tree,
     Reports!Report
<1>12. r.kind = "view" <=> r.path = Absent
  BY <1>1, <1>2, <1>10 DEF Reports!ReportFits
<1>13. r.steady =>
         /\ r.dirty <=> \E p \in ReportPaths : s1[p] # s3[p] \/ s3[p] # s4[p]
         /\ ~r.dirty => r.counted = {}
  BY <1>1, <1>2, <1>8, <1>10 DEF Reports!ReadSoFar
<1>14. r.steady => \A p \in ReportPaths : r.listed[p] = IF p \in scope THEN Reports!Entries(p) ELSE {}
  BY <1>1, <1>2, <1>4, <1>8, <1>10 DEF Reports!ReadSoFar
<1>15. ASSUME r.steady, NEW p \in scope \ Unreadable
       PROVE  r.diffs[p] = Reports!Due(p) \cap Reports!Made[to]
  <2>1. s5.steady /\ ~fails
    BY <1>8, <1>10, <1>15
  <2>2. s5.diffs[p] = Reports!Due(p) \cap Reports!Made[from]
    <3>1. from \in DOMAIN Reports!Made
      BY DEF Reports!Made
    <3>2. QED
      BY <1>1, <1>2, <1>4, <2>1, <3>1 DEF Reports!MadeSoFar
  <2>3. p \in ReportPaths /\ s5.listed[p] = Reports!Entries(p)
    BY <1>4, <1>10, <1>14, <1>15
  <2>4. p \in paths <=> label \in Reports!Due(p)
    BY <2>1, <2>3
  <2>5. label \in Reports!Due(p) => s5.listed[p] # {}
    BY <2>3 DEF Reports!Due, Reports!Entries
  <2>6. diffs[p] = IF label \in Reports!Due(p) THEN s5.diffs[p] \cup {label} ELSE s5.diffs[p]
    BY <1>7, <2>1, <2>3, <2>4, <2>5
  <2>7. QED
    BY <1>10, <2>2, <2>6
<1>16. \A p \in ReportPaths : r.diffs[p] # {} =>
         r.listed[p] # {} /\ (r.kind = "file" => p = r.path)
  <2> SUFFICES ASSUME NEW p \in ReportPaths, r.diffs[p] # {}
               PROVE  r.listed[p] # {} /\ (r.kind = "file" => p = r.path)
    OBVIOUS
  <2>1. CASE s5.diffs[p] # {}
    BY <1>1, <1>10, <2>1 DEF Reports!DiffsListed
  <2>2. CASE s5.diffs[p] = {}
    BY <1>3, <1>7, <1>10, <2>2
  <2>3. QED
    BY <2>1, <2>2
<1>17. scope = IF r.kind = "file" THEN {r.path} ELSE ReportPaths
  BY <1>3, <1>10
<1>18. r.stage = to /\ r.stage \in {"unstaged", "staged", "done"} /\ r.kind # "baseline"
  BY <1>2, <1>10
<1>19. QED
  BY <1>11, <1>12, <1>13, <1>14, <1>15, <1>16, <1>17, <1>18, ReportBecomes

LEMMA DiffsAttach ==
  ASSUME Reports!ReportsInv, Reports!DiffUnstaged \/ Reports!DiffStaged \/ Reports!DiffUntracked
  PROVE  Reports!ReportsInv'
<1>1. CASE Reports!DiffUnstaged
  <2>1. Reports!Made["unstaged"] = Reports!Made["listed"] \cup {"Unstaged"} /\ "Unstaged" \in Reports!Labels
    BY DEF Reports!Made, Reports!Labels
  <2>2. PICK paths : paths = {p \in ReportPaths : Reports!Unstaged(p)}
    OBVIOUS
  <2>3. \A p \in ReportPaths : p \in paths <=> "Unstaged" \in Reports!Due(p)
    BY <2>2 DEF Reports!Due
  <2>4. Reports!Attach("listed", "unstaged", "Unstaged", paths)
    BY <1>1, <2>2 DEF Reports!DiffUnstaged
  <2>5. QED
    BY <2>1, <2>3, <2>4, AttachAttaches
<1>2. CASE Reports!DiffStaged
  <2>1. Reports!Made["staged"] = Reports!Made["unstaged"] \cup {"Staged"} /\ "Staged" \in Reports!Labels
    BY DEF Reports!Made, Reports!Labels
  <2>2. PICK paths : paths = {p \in ReportPaths : Reports!Staged(p)}
    OBVIOUS
  <2>3. \A p \in ReportPaths : p \in paths <=> "Staged" \in Reports!Due(p)
    BY <2>2 DEF Reports!Due
  <2>4. Reports!Attach("unstaged", "staged", "Staged", paths)
    BY <1>2, <2>2 DEF Reports!DiffStaged
  <2>5. QED
    BY <2>1, <2>3, <2>4, AttachAttaches
<1>3. CASE Reports!DiffUntracked
  <2>1. Reports!Made["done"] = Reports!Made["staged"] \cup {"Untracked"} /\ "Untracked" \in Reports!Labels
    BY DEF Reports!Made, Reports!Labels
  <2>2. PICK paths :
          paths = IF s5.kind = "view" THEN {p \in ReportPaths : Reports!Untracked(p)}
                  ELSE {p \in ReportPaths : "untracked" \in s5.listed[p] /\ s4[p] # Absent}
    OBVIOUS
  <2>3. ASSUME NEW p \in ReportPaths, s5.listed[p] = Reports!Entries(p)
        PROVE  p \in paths <=> "Untracked" \in Reports!Due(p)
    BY <2>2, <2>3 DEF Reports!Due, Reports!Entries, Reports!Untracked
  <2>4. Reports!Attach("staged", "done", "Untracked", paths)
    BY <1>3, <2>2 DEF Reports!DiffUntracked
  <2>5. QED
    BY <2>1, <2>3, <2>4, AttachAttaches
<1>4. QED
  BY <1>1, <1>2, <1>3

LEMMA FindTrackedFinds ==
  ASSUME Reports!ReportsInv, Reports!FindTracked
  PROVE  Reports!ReportsInv'
<1>1. s5 \in Reports!Report /\ Reports!ReportFits
  BY DEF Reports!ReportsInv, Reports!TypeOK, Reports!ReaderOK
<1>2. s5.stage = "status" /\ s5.kind = "baseline"
  BY DEF Reports!FindTracked, Reports!In
<1>3. PICK fails \in BOOLEAN :
        LET p == s5.path
            tracked == ~fails /\ s4[p] # Absent /\ s3[p] # Absent
        IN Reports!Becomes([s5 EXCEPT
             !.stage = IF tracked THEN "tracked" ELSE "done",
             !.base = IF ~fails /\ Reports!Untracked(p) THEN "empty" ELSE "none",
             !.steady = @ /\ ~fails])
  BY DEF Reports!FindTracked
<1>4. PICK f \in ReportPaths : f = s5.path
  BY <1>1, <1>2 DEF Reports!ReportFits, Reports!Report
<1>5. PICK stage \in {"tracked", "done"} :
        stage = IF ~fails /\ s4[f] # Absent /\ s3[f] # Absent THEN "tracked" ELSE "done"
  OBVIOUS
<1>6. PICK base \in {"none", "empty"} :
        base = IF ~fails /\ Reports!Untracked(f) THEN "empty" ELSE "none"
  OBVIOUS
<1>7. PICK steady \in BOOLEAN : steady <=> s5.steady /\ ~fails
  OBVIOUS
<1>8. PICK r \in Reports!Report : r = [s5 EXCEPT !.stage = stage, !.base = base, !.steady = steady]
  <2>1. stage \in Reports!Stages
    BY DEF Reports!Stages
  <2>2. base \in {"none", "empty"} \cup GitVersions
    OBVIOUS
  <2>3. QED
    BY ONLY <1>1, <2>1, <2>2, steady \in BOOLEAN DEF Reports!Report
<1>9. /\ r.stage = stage /\ r.base = base /\ r.steady = steady /\ r.kind = s5.kind
      /\ r.path = f /\ r.diffs = s5.diffs
  BY <1>1, <1>4, <1>8 DEF Reports!Report
<1>10. s5' = r /\ UNCHANGED <<s1, s2, s3, s4>>
  BY <1>1, <1>3, <1>4, <1>5, <1>6, <1>7, <1>8 DEF Reports!Becomes, Reports!tree,
     Reports!Report
<1>11. (r.kind = "view" <=> r.path = Absent) /\ \A p \in ReportPaths : r.diffs[p] = {}
  BY <1>1, <1>2, <1>4, <1>9 DEF Reports!ReportFits, Reports!Nothing
<1>12. r.stage = "tracked" => s4[r.path] # Absent /\ s3[r.path] # Absent
  BY <1>5, <1>9
<1>13. r.steady /\ r.stage = "done" =>
         r.base = IF s4[r.path] = Absent THEN "none"
                  ELSE IF s1[r.path] = Absent \/ s3[r.path] = Absent THEN "empty"
                  ELSE s1[r.path]
  BY <1>5, <1>6, <1>7, <1>9 DEF Reports!Untracked
<1>14. PICK scope : scope = IF r.kind = "file" THEN {r.path} ELSE ReportPaths
  OBVIOUS
<1>15. r.stage \in {"tracked", "done"} /\ r.kind = "baseline"
  BY <1>2, <1>9
<1>16. QED
  BY <1>10, <1>11, <1>12, <1>13, <1>14, <1>15, ReportBecomes

LEMMA ShowHeadShows ==
  ASSUME Reports!ReportsInv, Reports!ShowHead
  PROVE  Reports!ReportsInv'
<1>1. s5 \in Reports!Report /\ Reports!ReportFits /\ Reports!ReadSoFar /\ Reports!DiffsListed /\ Reports!TreeTypeOK
  BY DEF Reports!ReportsInv, Reports!TypeOK, Reports!ReaderOK
<1>2. s5.stage = "tracked" /\ s5.kind = "baseline"
  BY DEF Reports!ShowHead, Reports!In
<1>3. PICK fails \in BOOLEAN :
        Reports!Becomes([s5 EXCEPT !.stage = "done", !.steady = @ /\ ~fails,
                     !.base = IF fails \/ s1[s5.path] = Absent THEN "empty" ELSE s1[s5.path]])
  BY DEF Reports!ShowHead
<1>4. PICK f \in ReportPaths : f = s5.path
  BY <1>1, <1>2 DEF Reports!ReportFits, Reports!Report
<1>5. PICK base \in {"none", "empty"} \cup GitVersions :
        base = IF fails \/ s1[f] = Absent THEN "empty" ELSE s1[f]
  BY <1>1 DEF Reports!TreeTypeOK, Reports!Content
<1>6. PICK steady \in BOOLEAN : steady <=> s5.steady /\ ~fails
  OBVIOUS
<1>7. PICK r \in Reports!Report : r = [s5 EXCEPT !.stage = "done", !.steady = steady, !.base = base]
  <2>1. "done" \in Reports!Stages
    BY DEF Reports!Stages
  <2>2. QED
    BY ONLY <1>1, <2>1, base \in {"none", "empty"} \cup GitVersions, steady \in BOOLEAN
       DEF Reports!Report
<1>8. /\ r.stage = "done" /\ r.base = base /\ r.steady = steady /\ r.kind = "baseline"
      /\ r.path = f /\ r.diffs = s5.diffs /\ r.listed = s5.listed
  BY <1>1, <1>2, <1>4, <1>7 DEF Reports!Report
<1>9. s5' = r /\ UNCHANGED <<s1, s2, s3, s4>>
  BY <1>1, <1>3, <1>4, <1>5, <1>6, <1>7 DEF Reports!Becomes, Reports!tree,
     Reports!Report
<1>10. r.kind = "view" <=> r.path = Absent
  BY <1>1, <1>2, <1>4, <1>8 DEF Reports!ReportFits
<1>11. r.steady =>
         r.base = IF s4[r.path] = Absent THEN "none"
                  ELSE IF s1[r.path] = Absent \/ s3[r.path] = Absent THEN "empty"
                  ELSE s1[r.path]
  BY <1>1, <1>2, <1>4, <1>5, <1>6, <1>8 DEF Reports!ReadSoFar
<1>12. \A p \in ReportPaths : r.diffs[p] # {} => r.listed[p] # {}
  BY <1>1, <1>8 DEF Reports!DiffsListed
<1>13. PICK scope : scope = IF r.kind = "file" THEN {r.path} ELSE ReportPaths
  OBVIOUS
<1>14. QED
  BY <1>8, <1>9, <1>10, <1>11, <1>12, <1>13, ReportBecomes

\* What changes meanwhile is no longer claimed to be shown exactly.
LEMMA ChangeUnsteadies ==
  ASSUME Reports!ReportsInv, Reports!Change
  PROVE  Reports!ReportsInv'
<1>1. s5 \in Reports!Report /\ Reports!ReportFits /\ Reports!DiffsListed /\ Reports!TreeTypeOK
  BY DEF Reports!ReportsInv, Reports!TypeOK, Reports!ReaderOK
<1>2. Reports!TreeTypeOK'
  BY <1>1, ReportTreeKept DEF Reports!Change
<1>3. PICK steady \in BOOLEAN : steady <=> s5.stage = "idle"
  OBVIOUS
<1>4. PICK r \in Reports!Report : r = [s5 EXCEPT !.steady = steady]
  BY <1>1 DEF Reports!Report
<1>5. /\ r.steady = steady /\ r.stage = s5.stage /\ r.kind = s5.kind /\ r.path = s5.path
      /\ r.diffs = s5.diffs /\ r.listed = s5.listed
  BY <1>1, <1>4 DEF Reports!Report
<1>6. s5' = r
  BY <1>3, <1>4 DEF Reports!Change
<1>7. s5'.steady => s5'.stage = "idle"
  BY <1>3, <1>5, <1>6
<1>8. Reports!TypeOK' /\ Reports!ReportFits' /\ Reports!DiffsListed'
  BY <1>1, <1>2, <1>5, <1>6 DEF Reports!TypeOK, Reports!ReaderOK, Reports!ReportFits,
     Reports!DiffsListed
<1>9. Reports!ReadSoFar' /\ Reports!ReportExact' /\ Reports!BaselineRight'
  BY <1>7 DEF Reports!ReadSoFar, Reports!ReportExact, Reports!BaselineRight,
     Reports!Shown
<1>10. Reports!MadeSoFar'
  BY <1>7 DEF Reports!MadeSoFar, Reports!Made
<1>11. QED
  BY <1>8, <1>9, <1>10 DEF Reports!ReportsInv

LEMMA ReportsStep ==
  ASSUME Reports!ReportsInv, [Reports!Next]_(Reports!vars)
  PROVE  Reports!ReportsInv'
<1>1. CASE Reports!Answer
  <2>1. PICK r \in Reports!Report : r = Reports!NoReport
    BY DEF Reports!NoReport, Reports!Report, Reports!Stages, Reports!Nothing,
       Reports!Columns, Reports!Labels, Reports!Kinds
  <2>2. r.stage = "idle" /\ r.diffs = Reports!Nothing
    BY <2>1 DEF Reports!NoReport
  <2>3. s5' = r /\ UNCHANGED <<s1, s2, s3, s4>>
    BY <1>1, <2>1 DEF Reports!Answer, Reports!Becomes, Reports!tree
  <2>4. \A p \in ReportPaths : r.diffs[p] = {}
    BY <2>2 DEF Reports!Nothing
  <2>5. PICK scope : scope = IF r.kind = "file" THEN {r.path} ELSE ReportPaths
    OBVIOUS
  <2>6. QED
    BY <2>2, <2>3, <2>4, <2>5, ReportBecomes
<1>2. CASE UNCHANGED Reports!vars
  <2>1. s1' = s1 /\ s2' = s2 /\ s3' = s3 /\ s4' = s4 /\ s5' = s5
    BY <1>2 DEF Reports!vars, Reports!tree
  <2>2. \A p : Reports!Entries(p)' = Reports!Entries(p) /\ Reports!Due(p)' = Reports!Due(p)
    BY <2>1 DEF Reports!Entries, Reports!Due, Reports!Staged, Reports!Unstaged,
       Reports!Untracked
  <2>3. Reports!Scope' = Reports!Scope
    BY <2>1 DEF Reports!Scope
  <2>4. Reports!TypeOK' /\ Reports!ReportFits' /\ Reports!DiffsListed'
    BY <2>1 DEF Reports!ReportsInv, Reports!TypeOK, Reports!TreeTypeOK,
       Reports!ReaderOK, Reports!ReportFits, Reports!DiffsListed
  <2>5. Reports!ReadSoFar' /\ Reports!ReportExact' /\ Reports!BaselineRight'
    BY <2>1, <2>2, <2>3 DEF Reports!ReportsInv, Reports!ReadSoFar,
       Reports!ReportExact, Reports!BaselineRight, Reports!Shown
  <2>6. Reports!MadeSoFar'
    BY <2>1, <2>2, <2>3 DEF Reports!ReportsInv, Reports!MadeSoFar, Reports!Made
  <2>7. QED
    BY <2>4, <2>5, <2>6 DEF Reports!ReportsInv
<1>3. QED
  BY <1>1, <1>2, StartStarts, SummaryReads, StatusFailsSafely, ListLists, DiffsAttach,
     FindTrackedFinds, ShowHeadShows, ChangeUnsteadies DEF Reports!Next

LEMMA HistoryInit == History!Init => History!HistoryInv
<1> SUFFICES ASSUME History!Init PROVE History!HistoryInv
  OBVIOUS
<1>1. MaxCommits \in Nat
  BY SuiteAssumptions DEF History!HistoryAssumption
<1>2. s1 = 0 /\ s2 = [loaded |-> FALSE, snapshot |-> 0, shown |-> <<>>, more |-> FALSE]
  BY DEF History!Init, History!NoPager
<1>3. 0 \in 0 .. MaxCommits /\ <<>> \in Seq(1 .. MaxCommits) /\ Len(<<>>) = 0
  BY <1>1, EmptySeq
<1>4. History!TypeOK
  BY <1>2, <1>3 DEF History!TypeOK, History!Pager
<1>5. QED
  BY <1>2, <1>3, <1>4 DEF History!HistoryInv, History!PagesContiguous

\* A page is as long as there are commits for it, and continues what is shown.
PageFits(page, more, snapshot, offset) ==
  /\ page \in Seq(1 .. MaxCommits) /\ offset + Len(page) <= snapshot
  /\ \A i \in 1 .. Len(page) : page[i] = snapshot - offset - i + 1
  /\ more \in BOOLEAN /\ (more <=> offset + Len(page) < snapshot)

LEMMA PageContinues ==
  ASSUME NEW snapshot \in 0 .. MaxCommits, NEW offset \in Nat, offset <= snapshot,
         NEW page, page = History!Log(snapshot, offset).page, NEW more, more = History!Log(snapshot, offset).more
  PROVE  PageFits(page, more, snapshot, offset)
<1>1. PageSize \in Nat /\ MaxCommits \in Nat
  BY SuiteAssumptions DEF History!HistoryAssumption
<1>2. PICK n \in Nat : n = History!Least(PageSize, snapshot - offset)
  BY <1>1 DEF History!Least
<1>3. page = [i \in 1 .. n |-> snapshot - offset - i + 1] /\ more = (snapshot - offset > PageSize)
  BY <1>2 DEF History!Log
<1>4. n <= snapshot - offset /\ (snapshot - offset > PageSize <=> offset + n < snapshot)
  BY <1>1, <1>2 DEF History!Least
<1>5. \A i \in 1 .. n : snapshot - offset - i + 1 \in 1 .. MaxCommits
  BY <1>1, <1>4
<1>6. page \in Seq(1 .. MaxCommits) /\ Len(page) = n
  BY <1>3, <1>5
<1>7. \A i \in 1 .. Len(page) : page[i] = snapshot - offset - i + 1
  BY <1>3, <1>6
<1>8. more \in BOOLEAN
  BY <1>1, <1>3
<1>9. more <=> snapshot - offset > PageSize
  BY <1>1, <1>3
<1>10. offset + Len(page) <= snapshot /\ (more <=> offset + Len(page) < snapshot)
  BY <1>4, <1>6, <1>9
<1>11. QED
  BY ONLY <1>6, <1>7, <1>8, <1>10 DEF PageFits

LEMMA HistoryStep ==
  ASSUME History!HistoryInv, [History!Next]_(History!vars)
  PROVE  History!HistoryInv'
<1>1. MaxCommits \in Nat
  BY SuiteAssumptions DEF History!HistoryAssumption
<1>2. s1 \in 0 .. MaxCommits /\ s2 \in History!Pager /\ History!PagesContiguous /\ Len(s2.shown) <= s2.snapshot
      /\ (s2.more => s2.loaded)
  BY DEF History!HistoryInv, History!TypeOK
<1>3. CASE History!FirstPage
  <2>1. PICK page : page = History!Log(s1, 0).page
    OBVIOUS
  <2>2. PICK more : more = History!Log(s1, 0).more
    OBVIOUS
  <2>3. /\ page \in Seq(1 .. MaxCommits) /\ 0 + Len(page) <= s1
        /\ \A i \in 1 .. Len(page) : page[i] = s1 - 0 - i + 1
        /\ more \in BOOLEAN /\ (more <=> 0 + Len(page) < s1)
    <3>1. PICK snapshot \in 0 .. MaxCommits : snapshot = s1
      BY <1>2
    <3>2. PageFits(page, more, snapshot, 0)
      BY <1>1, <2>1, <2>2, <3>1, PageContinues
    <3>3. QED
      BY ONLY <3>1, <3>2 DEF PageFits
  <2>4. s2' = [loaded |-> TRUE, snapshot |-> s1, shown |-> page, more |-> more] /\ s1' = s1
    BY <1>3, <2>1, <2>2 DEF History!FirstPage
  <2>5. History!TypeOK'
    BY <1>2, <2>3, <2>4 DEF History!TypeOK, History!Pager
  <2>6. QED
    BY <1>2, <2>3, <2>4, <2>5 DEF History!HistoryInv, History!PagesContiguous
<1>4. CASE History!NextPage
  <2>1. PICK shown \in Seq(1 .. MaxCommits), snapshot \in 0 .. MaxCommits :
          shown = s2.shown /\ snapshot = s2.snapshot
    BY <1>2 DEF History!Pager
  <2>2. Len(shown) \in Nat /\ Len(shown) <= snapshot
    BY <1>2, <2>1
  <2>3. PICK page : page = History!Log(snapshot, Len(shown)).page
    OBVIOUS
  <2>4. PICK more : more = History!Log(snapshot, Len(shown)).more
    OBVIOUS
  <2>5. /\ page \in Seq(1 .. MaxCommits) /\ Len(shown) + Len(page) <= snapshot
        /\ \A i \in 1 .. Len(page) : page[i] = snapshot - Len(shown) - i + 1
        /\ more \in BOOLEAN /\ (more <=> Len(shown) + Len(page) < snapshot)
    <3>1. PICK offset \in Nat : offset = Len(shown)
      BY <2>2
    <3>2. page = History!Log(snapshot, offset).page /\ more = History!Log(snapshot, offset).more
      BY <2>3, <2>4, <3>1
    <3>3. /\ page \in Seq(1 .. MaxCommits) /\ offset + Len(page) <= snapshot
          /\ \A i \in 1 .. Len(page) : page[i] = snapshot - offset - i + 1
          /\ more \in BOOLEAN /\ (more <=> offset + Len(page) < snapshot)
      <4>1. offset <= snapshot
        BY <2>2, <3>1
      <4>2. PageFits(page, more, snapshot, offset)
        BY ONLY <3>2, <4>1, snapshot \in 0 .. MaxCommits, offset \in Nat, PageContinues
      <4>3. QED
        BY ONLY <4>2 DEF PageFits
    <3>4. QED
      BY <3>1, <3>3
  <2>6. s2' = [s2 EXCEPT !.shown = shown \o page, !.more = more] /\ s1' = s1 /\ s2.more
    BY <1>4, <2>1, <2>3, <2>4 DEF History!NextPage
  <2>7. /\ shown \o page \in Seq(1 .. MaxCommits)
        /\ Len(shown \o page) = Len(shown) + Len(page)
        /\ \A i \in 1 .. Len(shown) + Len(page) :
              (shown \o page)[i] = IF i <= Len(shown) THEN shown[i] ELSE page[i - Len(shown)]
    BY <2>1, <2>5, ConcatProperties
  <2>8. PICK r \in History!Pager : r = [s2 EXCEPT !.shown = shown \o page, !.more = more]
    BY <1>2, <2>5, <2>7 DEF History!Pager
  <2>9. /\ s2' = r /\ r.shown = shown \o page /\ r.more = more /\ r.snapshot = snapshot
        /\ r.loaded = s2.loaded
    BY <1>2, <2>1, <2>6, <2>8 DEF History!Pager
  <2>10. \A i \in 1 .. Len(shown) : shown[i] = snapshot - i + 1
    BY <1>2, <2>1 DEF History!PagesContiguous
  <2>11. \A i \in 1 .. Len(shown) + Len(page) : (shown \o page)[i] = snapshot - i + 1
    <3> SUFFICES ASSUME NEW i \in 1 .. Len(shown) + Len(page)
                 PROVE  (shown \o page)[i] = snapshot - i + 1
      OBVIOUS
    <3>1. Len(page) \in Nat
      BY <2>5
    <3>2. CASE i <= Len(shown)
      BY <2>2, <2>7, <2>10, <3>1, <3>2
    <3>3. CASE ~(i <= Len(shown))
      <4>1. i - Len(shown) \in 1 .. Len(page)
        BY <2>2, <3>1, <3>3
      <4>2. page[i - Len(shown)] = snapshot - Len(shown) - (i - Len(shown)) + 1
        BY <2>5, <4>1
      <4>3. QED
        BY <2>2, <2>7, <3>1, <3>3, <4>2
    <3>4. QED
      BY <3>2, <3>3
  <2>12. History!TypeOK'
    BY <1>2, <2>6, <2>9 DEF History!TypeOK
  <2>13. History!PagesContiguous'
    BY <2>5, <2>7, <2>9, <2>11 DEF History!PagesContiguous
  <2>14. QED
    BY <1>2, <2>5, <2>6, <2>7, <2>9, <2>12, <2>13 DEF History!HistoryInv
<1>5. CASE History!Reload
  <2>1. s1' = s1 /\ s2' = [loaded |-> FALSE, snapshot |-> 0, shown |-> <<>>, more |-> FALSE]
    BY <1>5 DEF History!Reload, History!NoPager
  <2>2. 0 \in 0 .. MaxCommits /\ <<>> \in Seq(1 .. MaxCommits) /\ Len(<<>>) = 0
    BY <1>1, EmptySeq
  <2>3. History!TypeOK'
    BY <1>2, <2>1, <2>2 DEF History!TypeOK, History!Pager
  <2>4. QED
    BY <2>1, <2>2, <2>3 DEF History!HistoryInv, History!PagesContiguous
<1>6. CASE History!CommitElsewhere \/ UNCHANGED History!vars
  <2>1. s2' = s2 /\ s1' \in 0 .. MaxCommits
    BY <1>1, <1>2, <1>6 DEF History!CommitElsewhere, History!vars
  <2>2. QED
    BY <2>1 DEF History!HistoryInv, History!TypeOK, History!PagesContiguous
<1>7. QED
  BY <1>3, <1>4, <1>5, <1>6 DEF History!Next

\* A report of a tree that stands still shows exactly its changes, the editor's
\* baseline is what HEAD has, and the pages of the history put together are the
\* history at the first of them (diff.rs).
THEOREM ServerReports == SuiteSpec => []GitReportsExact
<1> DEFINE Keeps ==
      (focus = "gitReports" => Reports!ReportsInv) /\ (focus = "gitHistory" => History!HistoryInv)
<1>1. SuiteInit => Keeps
  BY ReportsInit, HistoryInit DEF SuiteInit, FocusInit
<1>2. Keeps /\ [SuiteNext]_suite => Keeps'
  <2> SUFFICES ASSUME Keeps, [SuiteNext]_suite
               PROVE  Keeps'
    OBVIOUS
  <2>1. CASE focus = "gitReports"
    <3>1. focus' = "gitReports" /\ Reports!ReportsInv
      BY <2>1 DEF SuiteNext, suite
    <3>2. [Reports!Next]_(Reports!vars)
      BY <2>1 DEF SuiteNext, FocusNext, suite, Reports!vars, Reports!tree
    <3>3. QED
      BY <3>1, <3>2, ReportsStep
  <2>2. CASE focus = "gitHistory"
    <3>1. focus' = "gitHistory" /\ History!HistoryInv
      BY <2>2 DEF SuiteNext, suite
    <3>2. [History!Next]_(History!vars)
      BY <2>2 DEF SuiteNext, FocusNext, suite, History!vars
    <3>3. QED
      BY <3>1, <3>2, HistoryStep
  <2>3. CASE focus \notin {"gitReports", "gitHistory"}
    BY <2>3 DEF SuiteNext, suite
  <2>4. QED
    BY <2>1, <2>2, <2>3
<1>3. Keeps => GitReportsExact
  BY DEF GitReportsExact, Reports!ReportsInv, History!HistoryInv
<1>4. QED
  BY <1>1, <1>2, <1>3, PTL DEF SuiteSpec

=============================================================================
