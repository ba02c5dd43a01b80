---------------------------- MODULE ServiceHosts ----------------------------
(***************************************************************************)
(* The helper process that the Windows service runs in the interactive     *)
(* session, its supervisor, the endpoint through which the server reaches  *)
(* it, and the requests that go there (windows_service_host/*.rs,          *)
(* workspace/bridge.rs, host.rs, process.rs, desktop/session_host.rs).     *)
(* The desktop helper and the workspace helper have a supervisor each, of  *)
(* the same code: this is one of them.                                     *)
(***************************************************************************)
EXTENDS Naturals

CONSTANTS
  Users,        \* interactive sessions, a user each
  NoUser,       \* NO_CONSOLE_SESSION
  Hosts,        \* helper processes, an address and a token each; reused when forgotten
  NoHost,
  Ports,        \* loopback ports the system hands out
  Calls,        \* requests of the server
  MaxFailures   \* helpers that fail (bound)

VARIABLES
  session,      \* active_interactive_session_id()
  service,      \* "running" | "ended"
  supervisor,   \* the loop of supervise_host
  host,         \* the helpers
  endpoint,     \* WorkspaceBridge.endpoint
  call,         \* requests at the bridge
  process,      \* the process a request has started, by its helper
  failures

vars == <<session, service, supervisor, host, endpoint, call, process, failures>>

HostsAssumption ==
  /\ NoUser \notin Users /\ NoHost \notin Hosts /\ Ports # {} /\ MaxFailures \in Nat

\* What a request may want: a process whose output is awaited, one that is
\* not, or a WebSocket (a terminal, an editor or a desktop).
Kinds == {"captured", "detached", "socket"}

NoCall == [stage |-> "idle", kind |-> "captured", aim |-> NoHost, user |-> NoUser, at |-> NoHost]

SupervisorOK ==
  supervisor \in [stage: {"idle", "dropping", "spawning", "connecting", "publishing"},
                  seen: Users \cup {NoUser}, child: Hosts \cup {NoHost},
                  pending: Hosts \cup {NoHost}, cooling: BOOLEAN]

HostsOK ==
  host \in [Hosts -> [stage: {"gone", "starting", "ready"}, user: Users \cup {NoUser}, port: Ports]]

Request ==
  [stage: {"idle", "read", "running", "open"}, kind: Kinds, aim: Hosts \cup {NoHost},
   user: Users \cup {NoUser}, at: Hosts \cup {NoHost}]

CallsOK == call \in [Calls -> Request]

ProcessesOK == process \in [Calls -> Hosts \cup {NoHost}]

ServiceOK ==
  /\ session \in Users \cup {NoUser} /\ service \in {"running", "ended"}
  /\ endpoint \in Hosts \cup {NoHost} /\ failures \in 0..MaxFailures

TypeOK == SupervisorOK /\ HostsOK /\ CallsOK /\ ProcessesOK /\ ServiceOK

Init ==
  /\ session = NoUser /\ service = "running" /\ endpoint = NoHost /\ failures = 0
  /\ supervisor = [stage |-> "idle", seen |-> NoUser, child |-> NoHost, pending |-> NoHost,
                   cooling |-> FALSE]
  /\ host = [h \in Hosts |-> [stage |-> "gone", user |-> NoUser, port |-> CHOOSE p \in Ports : TRUE]]
  /\ call = [q \in Calls |-> NoCall] /\ process = [q \in Calls |-> NoHost]

-----------------------------------------------------------------------------
(***************************************************************************)
(* The supervisor.                                                         *)
(***************************************************************************)
At(stage) == service = "running" /\ supervisor.stage = stage

\* Mutant of Killed: the job is closed, the processes stay.
KilledAlone(h) ==
  /\ host' = IF h = NoHost THEN host ELSE [host EXCEPT ![h].stage = "gone"]
  /\ UNCHANGED process

\* Drop of a ChildProcess: the helper is terminated, and closing its job
\* ends every process it has started.
Killed(h) ==
  /\ host' = IF h = NoHost THEN host ELSE [host EXCEPT ![h].stage = "gone"]
  /\ process' = [q \in Calls |-> IF process[q] = h THEN NoHost ELSE process[q]]

\* Mutant of Stale: a helper that has exited is kept.
StaleSession == supervisor.child # NoHost /\ host[supervisor.child].user # session

\* The helper is of another session, or has exited.
Stale == supervisor.child # NoHost /\ (host[supervisor.child].user # session
                                         \/ host[supervisor.child].stage = "gone")

\* A tick (each second): a helper of another session, or one that has
\* exited, loses the endpoint.
Tick ==
  /\ At("idle")
  /\ \/ Stale \/ session = NoUser
     \/ supervisor.child = NoHost
     \/ supervisor.seen # session
  /\ LET drops == Stale \/ session = NoUser
         stage == IF drops THEN "dropping"
                  ELSE IF supervisor.child # NoHost \/ supervisor.cooling THEN "idle"
                  ELSE "spawning"
     IN /\ endpoint' = IF drops THEN NoHost ELSE endpoint
        /\ supervisor' = [supervisor EXCEPT !.stage = stage, !.seen = session]
  /\ UNCHANGED <<session, service, host, call, process, failures>>

\* child.take(), after the endpoint has been cleared.
DropChild ==
  /\ At("dropping")
  /\ Killed(supervisor.child)
  /\ supervisor' = [supervisor EXCEPT !.child = NoHost,
       !.stage = IF supervisor.seen = NoUser \/ supervisor.cooling THEN "idle" ELSE "spawning"]
  /\ UNCHANGED <<session, service, endpoint, call, failures>>

\* Two seconds after a failure.
CoolDown ==
  /\ service = "running" /\ supervisor.cooling
  /\ supervisor' = [supervisor EXCEPT !.cooling = FALSE]
  /\ UNCHANGED <<session, service, host, endpoint, call, process, failures>>

\* Nobody holds the address and the token of a helper that is gone.
Forgotten(h) ==
  /\ host[h].stage = "gone" /\ h \notin {supervisor.child, supervisor.pending, endpoint}
  /\ \A q \in Calls : h \notin {call[q].aim, process[q]}

\* reserve_loopback_address: a port nobody listens at; the token is new.
Spawn(h, p) ==
  /\ At("spawning") /\ Forgotten(h)
  /\ \A g \in Hosts : host[g].stage # "gone" => host[g].port # p
  /\ host' = [host EXCEPT ![h] = [stage |-> "starting", user |-> supervisor.seen, port |-> p]]
  /\ supervisor' = [supervisor EXCEPT !.stage = "connecting", !.pending = h]
  /\ UNCHANGED <<session, service, endpoint, call, process, failures>>

Fail == failures < MaxFailures /\ failures' = failures + 1

\* The token cannot be had, or the process cannot enter its job: it is ended.
SpawnFails ==
  /\ At("spawning") /\ Fail
  /\ supervisor' = [supervisor EXCEPT !.stage = "idle", !.cooling = TRUE]
  /\ UNCHANGED <<session, service, host, endpoint, call, process>>

\* run_workspace_host, run_native_session_host: the helper listens.
Listen(h) ==
  /\ host[h].stage = "starting"
  /\ host' = [host EXCEPT ![h].stage = "ready"]
  /\ UNCHANGED <<session, service, supervisor, endpoint, call, process, failures>>

\* A helper ends by itself; its job stays open until it is dropped.
Exit(h) ==
  /\ host[h].stage # "gone" /\ Fail
  /\ host' = [host EXCEPT ![h].stage = "gone"]
  /\ UNCHANGED <<session, service, supervisor, endpoint, call, process>>

\* wait_for_host: the health endpoint answers ...
Healthy ==
  /\ At("connecting") /\ host[supervisor.pending].stage = "ready"
  /\ supervisor' = [supervisor EXCEPT !.stage = "publishing"]
  /\ UNCHANGED <<session, service, host, endpoint, call, process, failures>>

\* ... or has not for ten seconds, or the process has exited: it is dropped.
GiveUp ==
  /\ At("connecting") /\ Killed(supervisor.pending)
  /\ host[supervisor.pending].stage = "gone" \/ failures < MaxFailures
  /\ failures' = IF host[supervisor.pending].stage = "gone" THEN failures ELSE failures + 1
  /\ supervisor' = [supervisor EXCEPT !.stage = "idle", !.pending = NoHost, !.cooling = TRUE]
  /\ UNCHANGED <<session, service, endpoint, call>>

\* set_endpoint: requests find the helper.
Publish ==
  /\ At("publishing")
  /\ endpoint' = supervisor.pending
  /\ supervisor' = [supervisor EXCEPT !.stage = "idle", !.child = supervisor.pending,
                                      !.pending = NoHost]
  /\ UNCHANGED <<session, service, host, call, process, failures>>

\* run_service_tasks: stopped, or the server or a supervisor fails.  All
\* tasks are dropped, and the helpers with them.
EndService ==
  /\ service = "running"
  /\ service' = "ended" /\ endpoint' = NoHost
  /\ supervisor' = [supervisor EXCEPT !.stage = "idle", !.child = NoHost, !.pending = NoHost]
  /\ host' = [h \in Hosts |-> IF h \in {supervisor.child, supervisor.pending}
                              THEN [host[h] EXCEPT !.stage = "gone"] ELSE host[h]]
  /\ process' = [q \in Calls |-> IF process[q] \in {supervisor.child, supervisor.pending}
                                 THEN NoHost ELSE process[q]]
  /\ call' = [q \in Calls |-> NoCall]
  /\ UNCHANGED <<session, failures>>

\* A user signs in, signs out, or another session becomes the active one.
SessionChange(u) ==
  /\ service = "running" /\ u # session /\ session' = u
  /\ UNCHANGED <<service, supervisor, host, endpoint, call, process, failures>>

-----------------------------------------------------------------------------
(***************************************************************************)
(* A request at the bridge.                                                *)
(***************************************************************************)
Update(q, value) ==
  /\ call' = [call EXCEPT ![q] = value]
  /\ UNCHANGED <<session, service, supervisor, host, endpoint, failures>>

\* endpoint(): the address and the token, or "no signed-in ... session".
ReadEndpoint(q, kind) ==
  /\ service = "running" /\ call[q].stage = "idle" /\ process[q] = NoHost
  /\ endpoint # NoHost
  /\ Update(q, [stage |-> "read", kind |-> kind, aim |-> endpoint, user |-> host[endpoint].user,
                at |-> NoHost])
  /\ UNCHANGED process

\* Who listens at the address that was read.
Reached(q) == {g \in Hosts : host[g].stage = "ready" /\ host[g].port = host[call[q].aim].port}

\* Mutant of Authenticated: whoever listens there serves the request.
AuthenticatedAnyway(q, g) == TRUE

\* require_bearer_auth
Authenticated(q, g) == g = call[q].aim

Refused(q) ==
  /\ call[q].stage = "read" /\ \A g \in Reached(q) : ~Authenticated(q, g)
  /\ Update(q, NoCall) /\ UNCHANGED process

\* workspace_exec: the helper starts a process.
ServeProcess(q) ==
  /\ call[q].stage = "read" /\ call[q].kind # "socket"
  /\ \E g \in Reached(q) :
       /\ Authenticated(q, g)
       /\ Update(q, [call[q] EXCEPT !.stage = "running", !.at = g])
       /\ process' = [process EXCEPT ![q] = g]

\* The helper accepts the WebSocket of a terminal, an editor or a desktop.
ServeSocket(q) ==
  /\ call[q].stage = "read" /\ call[q].kind = "socket"
  /\ \E g \in Reached(q) :
       Authenticated(q, g) /\ Update(q, [call[q] EXCEPT !.stage = "open", !.at = g])
  /\ UNCHANGED process

\* A detached process has been started: its request is answered.
Detach(q) ==
  /\ call[q].stage = "running" /\ call[q].kind = "detached"
  /\ Update(q, [NoCall EXCEPT !.kind = "detached"])
  /\ UNCHANGED process

\* The process ends; whoever waits is answered.
ProcessEnds(q) ==
  /\ process[q] # NoHost
  /\ process' = [process EXCEPT ![q] = NoHost]
  /\ Update(q, IF call[q].kind = "detached" /\ call[q].stage = "running" THEN call[q] ELSE NoCall)

\* It has not ended in time, or nobody waits for it any longer: the future
\* is dropped, and with it the process (kill_on_drop).
TimesOut(q) ==
  /\ call[q].stage = "running" /\ call[q].kind = "captured"
  /\ host[call[q].at].stage = "ready"
  /\ process' = [process EXCEPT ![q] = NoHost] /\ Update(q, NoCall)

\* One side of a WebSocket closes: forward_websocket closes the other.
CloseSocket(q) ==
  /\ call[q].stage = "open" /\ Update(q, NoCall) /\ UNCHANGED process

\* The connection to a helper that has gone breaks.
Broken(q) ==
  /\ call[q].stage \in {"running", "open"} /\ host[call[q].at].stage = "gone"
  /\ Update(q, NoCall) /\ UNCHANGED process

-----------------------------------------------------------------------------
SpawnAny == \E h \in Hosts, p \in Ports : Spawn(h, p)

Call(q) ==
  \/ \E kind \in Kinds : ReadEndpoint(q, kind)
  \/ Refused(q) \/ ServeProcess(q) \/ ServeSocket(q) \/ Detach(q) \/ ProcessEnds(q)
  \/ TimesOut(q) \/ CloseSocket(q) \/ Broken(q)

Next ==
  \/ Tick \/ DropChild \/ CoolDown \/ SpawnAny \/ SpawnFails
  \/ Healthy \/ GiveUp \/ Publish \/ EndService
  \/ \E h \in Hosts : Listen(h) \/ Exit(h)
  \/ \E u \in Users \cup {NoUser} : SessionChange(u)
  \/ \E q \in Calls : Call(q)

Spec == Init /\ [][Next]_vars

\* The supervisor's task runs, and a helper that has been started listens.
Fairness ==
  /\ WF_vars(Tick) /\ WF_vars(DropChild) /\ WF_vars(CoolDown)
  /\ WF_vars(Healthy) /\ WF_vars(GiveUp) /\ WF_vars(Publish)
  /\ WF_vars(SpawnAny)
  /\ \A h \in Hosts : WF_vars(Listen(h))

-----------------------------------------------------------------------------
Alive(h) == h # NoHost /\ host[h].stage # "gone"

\* A request works as the user whose helper was published when it read the
\* endpoint, although helpers are replaced and ports handed out again.
ServedAsUser ==
  \A q \in Calls : call[q].stage \in {"running", "open"} => host[call[q].at].user = call[q].user

\* "Placed in kill-on-close Windows jobs so they cannot survive the service"
\* (README.md): every helper that runs is held by the supervisor, and so is the
\* job of every process that a request has started.
NoneSurvives ==
  /\ \A h \in Hosts : Alive(h) => h \in {supervisor.child, supervisor.pending}
  /\ \A q \in Calls : process[q] # NoHost => process[q] \in {supervisor.child, supervisor.pending}

\* "Replaced if that session changes" (README.md): what the server uses is the
\* helper that the supervisor holds, of the session its last tick has seen.
EndpointCurrent ==
  endpoint # NoHost => endpoint = supervisor.child /\ host[endpoint].user = supervisor.seen

\* A process whose output nobody awaits any longer does not run on, unless
\* its helper has gone.
CapturedAwaited ==
  \A q \in Calls : Alive(process[q]) /\ call[q].kind = "captured" => call[q].stage = "running"

\* What these rest on: which helper the supervisor holds at which point of its
\* loop, that the endpoint is only set while it waits for the next tick, and
\* that a request keeps to the helper whose address it has read.
Bookkeeping ==
  /\ supervisor.stage \in {"connecting", "publishing"} <=> supervisor.pending # NoHost
  /\ supervisor.stage \in {"spawning", "connecting", "publishing"} => supervisor.child = NoHost
  /\ supervisor.pending # NoHost => host[supervisor.pending].user = supervisor.seen
  /\ endpoint # NoHost => supervisor.stage = "idle"
  /\ \A q \in Calls :
       LET c == call[q]
       IN /\ c.stage # "idle" => c.aim # NoHost /\ host[c.aim].user = c.user
          /\ c.stage \in {"running", "open"} => c.at = c.aim
          /\ c.stage \in {"read", "open"} => process[q] = NoHost
          /\ c.stage = "running" => process[q] \in {c.at, NoHost} /\ c.kind # "socket"
          /\ c.stage = "open" => c.kind = "socket"

HostsInv ==
  TypeOK /\ Bookkeeping /\ ServedAsUser /\ NoneSurvives /\ EndpointCurrent /\ CapturedAwaited

\* While a user stays signed in and helpers stop failing, the server gets a
\* helper of that user that runs, and keeps it (README.md: "replaced if that
\* session changes").
HelperReturns ==
  \A u \in Users : <>[](session = u) =>
    <>[](service = "ended" \/ (Alive(endpoint) /\ host[endpoint].user = u))

=============================================================================
