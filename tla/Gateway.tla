------------------------------- MODULE Gateway ------------------------------
(* Who gets through the public address.  A login proves a password and      *)
(* returns a value that is a keyed hash of it; later requests present such  *)
(* values for the site or for a share link.  Meanwhile the configuration is *)
(* replaced, links are made, revoked and expire, deployments are archived   *)
(* and deleted, and the process restarts with a new secret.                 *)
EXTENDS Naturals, FiniteSets

CONSTANTS
  Passwords,
  Tokens,       \* tokens of share links; a token is never used twice
  Requests,     \* requests of one client that are in flight
  Putters,      \* requests to replace the configuration
  Absent,
  Revoked,      \* what is left of a token that was used
  MaxNow,       \* bound on the clock
  MaxPuts,      \* bound on replacements of the configuration
  MaxRestarts   \* bound on restarts

VARIABLES
  clock,
  memory,       \* the password of the configuration in use
  disk,         \* and of the file, Absent while it is being written
  put,          \* [Putters -> [stage, password]]
  putCount,
  raced,        \* history: two replacements overlapped, or one was cut off
  secret,       \* public_auth_secret, one per process
  link,         \* share_links
  target,       \* the deployment they all lead to
  request,
  held,         \* the values the client was given
  proved,       \* history: what it knew the password of, and which
  spoiled       \* history: the last to empty the file failed to fill it

configs == <<memory, disk, put, putCount, raced, spoiled>>
shares == <<link, target>>
vars == <<clock, configs, secret, shares, request, held, proved>>

Site == "site"
Locks == Tokens \cup {Site}
Times == 0..MaxNow
Link == [password : Passwords \cup {Absent}, expires : Times \cup {Absent}]
\* What an HMAC is made of; the share's token tells the links apart.
Value == [secret : 0..MaxRestarts, lock : Locks, password : Passwords]
NoRequest == [stage |-> "idle", lock |-> Site, password |-> Absent,
              closed |-> FALSE, enabled |-> FALSE]

GatewayAssumption ==
  /\ Passwords # {} /\ Site \notin Tokens
  /\ {Absent, Revoked} \cap (Passwords \cup Times \cup Link) = {} /\ Absent # Revoked
  /\ MaxNow \in Nat /\ MaxPuts \in Nat /\ MaxRestarts \in Nat

ConfigsOK ==
  /\ memory \in Passwords /\ disk \in Passwords \cup {Absent}
  /\ put \in [Putters -> [stage : {"idle", "saving", "writing", "publishing"},
                          password : Passwords]]
  /\ putCount \in 0..MaxPuts /\ raced \in BOOLEAN /\ spoiled \in BOOLEAN

SharesOK ==
  /\ clock \in Times /\ target \in {"enabled", "archived", "gone"}
  /\ link \in [Tokens -> Link \cup {Absent, Revoked}]

ValuesOK == secret \in 0..MaxRestarts /\ held \in SUBSET Value /\ proved \in SUBSET Value

Asked ==
  [stage : {"idle", "begun", "posted", "looking", "posting", "login", "authorised",
            "served", "refused"},
   lock : Locks, password : Passwords \cup {Absent}, closed : BOOLEAN, enabled : BOOLEAN]

RequestsOK == request \in [Requests -> Asked]

TypeOK == ConfigsOK /\ SharesOK /\ ValuesOK /\ RequestsOK

Init ==
  /\ clock = 0
  /\ memory = CHOOSE password \in Passwords : TRUE
  /\ disk = memory
  /\ put = [p \in Putters |-> [stage |-> "idle", password |-> memory]]
  /\ putCount = 0 /\ raced = FALSE /\ spoiled = FALSE
  /\ secret = 0
  /\ link = [k \in Tokens |-> Absent]
  /\ target = "enabled"
  /\ request = [q \in Requests |-> NoRequest]
  /\ held = {} /\ proved = {}

Live(k) == link[k] \in Link

-----------------------------------------------------------------------------
(* replace_config: validate, save, publish.                                 *)
Put(p, password) ==
  /\ put[p].stage = "idle"
  /\ putCount < MaxPuts
  /\ putCount' = putCount + 1
  /\ put' = [put EXCEPT ![p] = [stage |-> "saving", password |-> password]]
  /\ raced' = (raced \/ \E r \in Putters \ {p} : put[r].stage # "idle")
  /\ UNCHANGED <<clock, memory, disk, spoiled, secret, shares, request, held, proved>>

\* fs::write empties the file before it fills it.
Truncate(p) ==
  /\ put[p].stage = "saving"
  /\ disk' = Absent
  /\ put' = [put EXCEPT ![p].stage = "writing"]
  /\ UNCHANGED <<clock, memory, putCount, raced, spoiled, secret, shares, request, held, proved>>

Save(p) ==
  /\ put[p].stage = "writing"
  /\ disk' = put[p].password
  /\ spoiled' = FALSE
  /\ put' = [put EXCEPT ![p].stage = "publishing"]
  /\ UNCHANGED <<clock, memory, putCount, raced, secret, shares, request, held, proved>>

\* The directory or the file cannot be opened: the error is the answer.
SaveFails(p) ==
  /\ put[p].stage = "saving"
  /\ put' = [put EXCEPT ![p].stage = "idle"]
  /\ UNCHANGED <<clock, memory, disk, putCount, raced, spoiled, secret, shares, request, held, proved>>

\* The disk is full or fails: the error is the answer, and the file that was
\* emptied stays as it is.
WriteFails(p) ==
  /\ put[p].stage = "writing"
  /\ disk' = Absent
  /\ spoiled' = TRUE
  /\ put' = [put EXCEPT ![p].stage = "idle"]
  /\ UNCHANGED <<clock, memory, putCount, raced, secret, shares, request, held, proved>>

\* Mutant of Publish: the lock is taken but the value is not assigned.
PublishNothing(p) ==
  /\ put[p].stage = "publishing"
  /\ put' = [put EXCEPT ![p].stage = "idle"]
  /\ UNCHANGED <<clock, memory, disk, putCount, raced, spoiled, secret, shares, request, held, proved>>

Publish(p) ==
  /\ put[p].stage = "publishing"
  /\ memory' = put[p].password
  /\ put' = [put EXCEPT ![p].stage = "idle"]
  /\ UNCHANGED <<clock, disk, putCount, raced, spoiled, secret, shares, request, held, proved>>

\* The process ends and another reads the file; an unreadable one stops it.
Restart ==
  /\ secret < MaxRestarts
  /\ disk # Absent
  /\ secret' = secret + 1
  /\ memory' = disk
  /\ raced' = (raced \/ \E p \in Putters : put[p].stage # "idle")
  /\ put' = [p \in Putters |-> [stage |-> "idle", password |-> disk]]
  /\ request' = [q \in Requests |-> NoRequest]
  /\ UNCHANGED <<clock, disk, putCount, spoiled, shares, held, proved>>

-----------------------------------------------------------------------------
(* Share links and the deployment.                                          *)

\* A link is made for an expiry that is some time ahead.
CreateShare(k, password, expires) ==
  /\ link[k] = Absent
  /\ target = "enabled"
  /\ expires # Absent => expires > clock
  /\ link' = [link EXCEPT ![k] = [password |-> password, expires |-> expires]]
  /\ UNCHANGED <<clock, configs, secret, target, request, held, proved>>

DeleteShare(k) ==
  /\ Live(k)
  /\ link' = [link EXCEPT ![k] = Revoked]
  /\ UNCHANGED <<clock, configs, secret, target, request, held, proved>>

SetArchived(archived) ==
  /\ target # "gone"
  /\ target' = IF archived THEN "archived" ELSE "enabled"
  /\ request' = [q \in Requests |->
       [request[q] EXCEPT !.enabled = @ \/ ~archived]]
  /\ UNCHANGED <<clock, configs, secret, link, held, proved>>

DeleteDeployment ==
  /\ target # "gone"
  /\ target' = "gone"
  /\ link' = [k \in Tokens |-> IF Live(k) THEN Revoked ELSE link[k]]
  /\ UNCHANGED <<clock, configs, secret, request, held, proved>>

Tick ==
  /\ clock < MaxNow
  /\ clock' = clock + 1
  /\ UNCHANGED <<configs, secret, shares, request, held, proved>>

-----------------------------------------------------------------------------
(* A request.  `closed` and `enabled` are history: whether the link was out *)
(* of use when the request began, and the deployment at any moment since.          *)

\* Mutant of IsExpired: the last second is still good.
IsExpiredLate(l) == l.expires # Absent /\ l.expires < clock

IsExpired(l) == l.expires # Absent /\ l.expires <= clock

Closed(k) ==
  \/ link[k] = Revoked
  \/ Live(k) /\ link[k].expires # Absent /\ link[k].expires <= clock

Begin(q, lock, stage) ==
  /\ request[q].stage \in {"idle", "served", "refused", "login"}
  /\ request' = [request EXCEPT ![q] =
       [NoRequest EXCEPT
          !.stage = stage, !.lock = lock,
          !.closed = lock # Site /\ Closed(lock),
          !.enabled = target = "enabled"]]
  /\ UNCHANGED <<clock, configs, secret, shares, held, proved>>

Answer(q, stage) == request' = [request EXCEPT ![q].stage = stage]

\* Mutant of Key: a share's value is made of its password only.
KeyOfPassword(lock, password) ==
  [secret |-> secret, lock |-> Site, password |-> password]

\* public_auth_cookie_value, and share_auth_key for a share.
Key(lock, password) == [secret |-> secret, lock |-> lock, password |-> password]

\* The middleware, or the handler of the login page, reads the configuration.
LookSite(q) ==
  /\ request[q].lock = Site
  /\ request[q].stage \in {"begun", "posted"}
  /\ request' = [request EXCEPT
       ![q].stage = IF request[q].stage = "posted" THEN "login" ELSE "looking",
       ![q].password = memory]
  /\ UNCHANGED <<clock, configs, secret, shares, held, proved>>

\* serve_shared_deployment reads the link once.
LookShare(q) ==
  LET lock == request[q].lock
  IN /\ lock # Site
     /\ request[q].stage \in {"begun", "posted"}
     /\ IF ~Live(lock) \/ IsExpired(link[lock]) THEN Answer(q, "refused")
        ELSE request' = [request EXCEPT
               ![q].stage = IF link[lock].password = Absent THEN "authorised"
                            ELSE IF request[q].stage = "posted" THEN "posting" ELSE "looking",
               ![q].password = link[lock].password]
     /\ UNCHANGED <<clock, configs, secret, shares, held, proved>>

\* The client presents what it has, under whatever name.
Accepted(q) == Key(request[q].lock, request[q].password) \in held

Authenticate(q) ==
  /\ request[q].stage \in {"looking", "posting"}
  /\ Accepted(q)
  /\ Answer(q, IF request[q].lock = Site THEN "served" ELSE "authorised")
  /\ UNCHANGED <<clock, configs, secret, shares, held, proved>>

\* It presents nothing, or nothing that counts: what it posted to a link is
\* then taken for the form of a login.
Challenge(q) ==
  /\ request[q].stage \in {"looking", "posting"}
  /\ Answer(q, IF request[q].stage = "posting" THEN "login" ELSE "refused")
  /\ UNCHANGED <<clock, configs, secret, shares, held, proved>>

Prove(lock, password) ==
  /\ held' = held \cup {Key(lock, password)}
  /\ proved' = proved \cup {[secret |-> secret, lock |-> lock, password |-> password]}

\* The body of the form has arrived; what it is compared with was read before.
Submit(q, password) ==
  /\ IF password = request[q].password
     THEN /\ Prove(request[q].lock, password)
          /\ request' = [request EXCEPT ![q] = NoRequest]
     ELSE Answer(q, "refused") /\ UNCHANGED <<held, proved>>
  /\ UNCHANGED <<clock, configs, secret, shares>>

SubmitSite(q, password) ==
  /\ request[q].stage = "login" /\ request[q].lock = Site
  /\ Submit(q, password)

SubmitShare(q, password) ==
  /\ request[q].stage = "login" /\ request[q].lock # Site
  /\ Submit(q, password)

\* The JSON login has its body before it reads the configuration.
LoginApi(password) ==
  /\ password = memory
  /\ Prove(Site, password)
  /\ UNCHANGED <<clock, configs, secret, shares, request>>

\* Mutant of Serve: the deployment is not looked up again.
ServeAny(q) ==
  /\ request[q].stage = "authorised"
  /\ Answer(q, "served")
  /\ UNCHANGED <<clock, configs, secret, shares, held, proved>>

\* The project and its deployment are read after the link was.
Serve(q) ==
  /\ request[q].stage = "authorised"
  /\ Answer(q, IF target = "enabled" THEN "served" ELSE "refused")
  /\ UNCHANGED <<clock, configs, secret, shares, held, proved>>

Handle(q) ==
  \/ LookSite(q) \/ LookShare(q) \/ Authenticate(q) \/ Challenge(q) \/ Serve(q)
  \/ \E password \in Passwords : SubmitSite(q, password) \/ SubmitShare(q, password)

Next ==
  \/ \E p \in Putters :
       \/ \E password \in Passwords : Put(p, password)
       \/ Truncate(p) \/ Save(p) \/ SaveFails(p) \/ WriteFails(p) \/ Publish(p)
  \/ Restart \/ DeleteDeployment \/ Tick
  \/ \E password \in Passwords : LoginApi(password)
  \/ \E k \in Tokens :
       \/ \E password \in Passwords \cup {Absent}, expires \in Times \cup {Absent} :
            CreateShare(k, password, expires)
       \/ DeleteShare(k)
  \/ \E archived \in BOOLEAN : SetArchived(archived)
  \/ \E q \in Requests :
       \/ \E lock \in Locks, stage \in {"begun", "posted"} : Begin(q, lock, stage)
       \/ Handle(q)

Spec == Init /\ [][Next]_vars

-----------------------------------------------------------------------------
Served(q) == request[q].stage = "served"

\* Whoever is let in has told this process the password of this very lock:
\* not of another link, not before a restart, and for a link with none, nothing.
AccessProved ==
  \A q \in Requests : Served(q) /\ request[q].password # Absent =>
    [secret |-> secret, lock |-> request[q].lock, password |-> request[q].password] \in proved

\* "Deleting the token or reaching expires_at immediately disables that share
\* path" (README.md), and the same holds of archiving the deployment: a
\* link that serves was in use when the request began, and the deployment
\* was enabled at some moment since.
DisabledRefused ==
  \A q \in Requests : Served(q) /\ request[q].lock # Site =>
    ~request[q].closed /\ request[q].enabled

\* One replacement at a time that is not cut off leaves the file and the
\* process with the same configuration, also when it was refused before the
\* file was touched.  A write that fails half-way is the one way to part them:
\* the file is cut then, until a later replacement fills it, and never another
\* configuration than the one in use.
SerialConfigAgrees ==
  ~raced /\ (\A p \in Putters : put[p].stage = "idle") =>
    disk = IF spoiled THEN Absent ELSE memory

\* What these rest on: the client's values are of passwords it has proved, ...
HeldProved == held \subseteq proved

\* ... a request that passed a link's lookup passed it as the link was, ...
Passed(q) ==
  LET r == request[q]
  IN /\ r.closed => r.lock # Site /\ Closed(r.lock)
     /\ r.stage \in {"looking", "posting", "login", "authorised", "served"} => ~r.closed
     /\ r.stage # "idle" /\ target = "enabled" => r.enabled
     /\ r.stage = "authorised" /\ r.password # Absent =>
          [secret |-> secret, lock |-> r.lock, password |-> r.password] \in proved

PassedOpen == \A q \in Requests : Passed(q)

\* ... and where a replacement is that runs alone.
AlonePuts ==
  ~raced =>
    /\ \A p, r \in Putters : put[p].stage # "idle" /\ put[r].stage # "idle" => p = r
    /\ (\A p \in Putters : put[p].stage \in {"idle", "saving"}) =>
         disk = IF spoiled THEN Absent ELSE memory
    /\ \A p \in Putters : put[p].stage = "publishing" =>
         disk = put[p].password /\ ~spoiled

GatewayInv ==
  /\ TypeOK /\ HeldProved /\ PassedOpen /\ AlonePuts
  /\ AccessProved /\ DisabledRefused /\ SerialConfigAgrees

=============================================================================
