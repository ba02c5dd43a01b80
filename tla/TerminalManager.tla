-------------------------- MODULE TerminalManager ---------------------------
(***************************************************************************)
(* The terminal sessions of a process by scope: the handlers that list,    *)
(* create, open and close them (server/public/api/terminals.rs), the way   *)
(* there, in this process or through the bridge to a helper                *)
(* (workspace/terminal.rs), and TerminalSessionManager (terminal.rs).      *)
(* What a session does with its output is in TerminalSession.              *)
(***************************************************************************)
EXTENDS Naturals, FiniteSets

CONSTANTS
  MaxSessions,  \* bound: sessions that are ever made
  Clients       \* whoever asks

VARIABLES
  shell,      \* the process behind each id
  session,    \* TerminalSession: scope, title and alive flag
  listed,     \* TerminalSessionManager.sessions
  client,     \* the handlers
  abandoned,  \* sessions whose creator went away before they were listed
  disturbed   \* scopes in which two creations overlapped or a session was closed

vars == <<shell, session, listed, client, abandoned, disturbed>>

\* Session ids are random; they are told apart by the order of the sessions.
Ids == 1..MaxSessions
NoId == 0

Scopes == {"root", "project"}
NoSession == [scope |-> "root", title |-> 0, alive |-> FALSE]
Idle == [stage |-> "idle", op |-> "create", scope |-> "root", id |-> NoId, count |-> 0]

TerminalsAssumption == MaxSessions \in Nat

ListsOK == listed \subseteq Ids /\ abandoned \subseteq Ids /\ disturbed \subseteq Scopes

Session == [scope: Scopes, title: 0..Cardinality(Ids), alive: BOOLEAN]

SessionsOK == shell \in [Ids -> {"none", "running", "ended"}] /\ session \in [Ids -> Session]

Client ==
  [stage: {"idle", "counted", "spawned", "attached", "removed"},
   op: {"create", "connect", "open", "delete"}, scope: Scopes, id: Ids \cup {NoId},
   count: 0..Cardinality(Ids)]

ClientsOK == client \in [Clients -> Client]

TypeOK == ListsOK /\ SessionsOK /\ ClientsOK

Init ==
  /\ listed = {} /\ abandoned = {} /\ disturbed = {}
  /\ shell = [i \in Ids |-> "none"] /\ session = [i \in Ids |-> NoSession]
  /\ client = [c \in Clients |-> Idle]

-----------------------------------------------------------------------------
At(c, stage) == client[c].stage = stage
Connects(c) == client' = [client EXCEPT ![c].stage = "attached", ![c].op = "open"]
Leaves(c) == client' = [client EXCEPT ![c] = Idle]

\* Mutant of Listed: ids are looked up in all scopes.
ListedAnywhere(scope) == listed

\* list_scope
Listed(scope) == {i \in listed : session[i].scope = scope}

\* A request that makes a session ("create"), or a WebSocket that wants a new
\* one ("connect"): create_scoped_session, under the read lock ...  A project
\* must be there and enabled (project_target), or nothing happens; sessions of
\* a project that is deleted stay, for the next one of its name.
Count(c, op, scope) ==
  /\ At(c, "idle")
  /\ client' = [client EXCEPT ![c] =
       [Idle EXCEPT !.stage = "counted", !.op = op, !.scope = scope, !.count = Cardinality(Listed(scope))]]
  /\ disturbed' = IF \E d \in Clients : client[d].scope = scope
                                         /\ client[d].stage \in {"counted", "spawned"}
                  THEN disturbed \cup {scope} ELSE disturbed
  /\ UNCHANGED <<shell, session, listed, abandoned>>

\* ... then a shell of its own, with a thread that reads its output ...
Spawn(c, i) ==
  /\ At(c, "counted") /\ shell[i] = "none" /\ \A j \in 1..(i - 1) : shell[j] # "none"
  /\ shell' = [shell EXCEPT ![i] = "running"]
  /\ session' = [session EXCEPT ![i] = [scope |-> client[c].scope, title |-> client[c].count + 1,
                                        alive |-> TRUE]]
  /\ client' = [client EXCEPT ![c].stage = "spawned", ![c].id = i, ![c].count = 0]
  /\ UNCHANGED <<listed, abandoned, disturbed>>

SpawnFails(c) ==
  /\ At(c, "counted") /\ Leaves(c)
  /\ UNCHANGED <<shell, session, listed, abandoned, disturbed>>

\* ... and under the write lock the session is listed.
Insert(c) ==
  /\ At(c, "spawned")
  /\ listed' = listed \cup {client[c].id}
  /\ IF client[c].op = "create" THEN Leaves(c) ELSE Connects(c)
  /\ UNCHANGED <<shell, session, abandoned, disturbed>>

\* open_terminal with a session: it must be one of the scope.  The WebSocket
\* is served by terminal_websocket_session, or by the proxy to it.
Find(c, scope, i) ==
  /\ At(c, "idle") /\ i \in Listed(scope)
  /\ client' = [client EXCEPT ![c] =
       [Idle EXCEPT !.stage = "attached", !.op = "open", !.scope = scope, !.id = i]]
  /\ UNCHANGED <<shell, session, listed, abandoned, disturbed>>

Detach(c) ==
  /\ At(c, "attached") /\ Leaves(c)
  /\ UNCHANGED <<shell, session, listed, abandoned, disturbed>>

\* close_scope_session: out of the map, under the write lock, ...
Remove(c, scope, i) ==
  /\ At(c, "idle") /\ i \in Listed(scope)
  /\ client' = [client EXCEPT ![c] =
       [Idle EXCEPT !.stage = "removed", !.op = "delete", !.scope = scope, !.id = i]]
  /\ listed' = listed \ {i}
  /\ disturbed' = disturbed \cup {scope}
  /\ UNCHANGED <<shell, session, abandoned>>

\* Mutant of Kill: only the flag is set.
KillNothing(c) ==
  LET i == client[c].id
  IN /\ At(c, "removed") /\ Leaves(c)
     /\ session' = [session EXCEPT ![i].alive = FALSE]
     /\ UNCHANGED <<shell, listed, abandoned, disturbed>>

\* ... then the shell is ended.  Connections stay attached.
Kill(c) ==
  LET i == client[c].id
  IN /\ At(c, "removed") /\ Leaves(c)
     /\ session' = [session EXCEPT ![i].alive = FALSE]
     /\ shell' = [shell EXCEPT ![i] = "ended"]
     /\ UNCHANGED <<listed, abandoned, disturbed>>

\* A client goes away and its handler is dropped where it waits for the write
\* lock: the session runs on, held by its reader, and is not listed.
GoAway(c) ==
  /\ At(c, "spawned") /\ Leaves(c)
  /\ abandoned' = abandoned \cup {client[c].id}
  /\ UNCHANGED <<shell, session, listed, disturbed>>

\* The shell ends ...
Exit(i) ==
  /\ shell[i] = "running" /\ shell' = [shell EXCEPT ![i] = "ended"]
  /\ UNCHANGED <<session, listed, client, abandoned, disturbed>>

\* ... and start_reader sees the end of its output.
ReaderEnds(i) ==
  /\ shell[i] = "ended" /\ session[i].alive
  /\ session' = [session EXCEPT ![i].alive = FALSE]
  /\ UNCHANGED <<shell, listed, client, abandoned, disturbed>>

\* Through the bridge: the helper is replaced by a new one (ServiceHosts).
Replace ==
  /\ listed' = {} /\ abandoned' = {} /\ disturbed' = {}
  /\ shell' = [i \in Ids |-> IF shell[i] = "running" THEN "ended" ELSE shell[i]]
  /\ session' = [i \in Ids |-> NoSession]
  /\ client' = [c \in Clients |-> Idle]

-----------------------------------------------------------------------------
\* The requests: POST makes a session, DELETE closes one, and a WebSocket is
\* for one it names, or wants a new one.
Create(c, scope) == Count(c, "create", scope)
Delete(c, scope) == \E i \in Ids : Remove(c, scope, i)
Connect(c, scope) == Count(c, "connect", scope) \/ \E i \in Ids : Find(c, scope, i)

Next ==
  \/ \E c \in Clients :
       \/ \E scope \in Scopes : Create(c, scope) \/ Connect(c, scope) \/ Delete(c, scope)
       \/ SpawnFails(c) \/ Insert(c) \/ Detach(c) \/ Kill(c) \/ GoAway(c)
       \/ \E i \in Ids : Spawn(c, i)
  \/ \E i \in Ids : Exit(i) \/ ReaderEnds(i)
  \/ Replace

Spec == Init /\ [][Next]_vars

-----------------------------------------------------------------------------
InHand(stages) == {client[c].id : c \in {d \in Clients : client[d].stage \in stages}}

\* A shell that runs can be found and closed, or a handler has it in hand,
\* however creations, closes and helpers that are replaced interleave; only
\* a creator that goes away while it waits for the lock leaves one behind.
ShellsReachable ==
  \A i \in Ids : shell[i] = "running" => i \in listed \cup abandoned \cup InHand({"spawned", "removed"})

\* Nobody is connected to a session of another scope, or closes one.
ScopeKept ==
  \A c \in Clients : client[c].stage \in {"attached", "removed"} =>
    session[client[c].id].scope = client[c].scope

\* A session in the list that is not said to be alive has no shell any more.
AliveTold == \A i \in listed : session[i].alive \/ shell[i] = "ended"

\* The sessions of a scope have titles of their own, unless two were created
\* at once or one was closed.
TitlesDistinct ==
  \A scope \in Scopes \ disturbed : \A i, j \in Listed(scope) :
    session[i].title = session[j].title => i = j

\* What these rest on: the ids that handlers hold are of sessions that have been
\* made, in the scope they are about, ...
Made == {i \in Ids : shell[i] # "none"}

Holds(c) ==
  LET i == client[c].id
  IN /\ client[c].stage \in {"spawned", "attached", "removed"} =>
          i \in Made /\ session[i].scope = client[c].scope
     /\ client[c].stage = "spawned" => session[i].alive \/ shell[i] = "ended"
     /\ client[c].stage = "spawned" => i \notin listed
     /\ client[c].stage = "counted" => client[c].count <= Cardinality(Made)

HandsRight ==
  /\ listed \subseteq Made
  /\ \A c \in Clients : Holds(c)
  /\ \A c, d \in Clients :
       client[c].stage = "spawned" /\ client[d].stage = "spawned" /\ client[c].id = client[d].id
         => c = d

\* ... and in a scope where creations come one at a time and nothing is closed,
\* the titles count the sessions.
Counts(scope) ==
  LET size == Cardinality(Listed(scope))
      creating == {c \in Clients : client[c].scope = scope /\ client[c].stage \in {"counted", "spawned"}}
  IN /\ \A i \in Listed(scope) : session[i].title <= size
     /\ \A c, d \in creating : c = d
     /\ \A c \in creating :
          IF client[c].stage = "counted" THEN client[c].count = size
                                         ELSE session[client[c].id].title = size + 1

TitlesCount == \A scope \in Scopes \ disturbed : Counts(scope)

TerminalsInv ==
  TypeOK /\ HandsRight /\ TitlesCount /\ ShellsReachable /\ ScopeKept /\ AliveTold /\ TitlesDistinct

=============================================================================
