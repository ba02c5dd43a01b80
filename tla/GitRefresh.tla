----------------------------- MODULE GitRefresh ----------------------------
(* Refreshes of the Git status that pages ask for.  Those of the timer go   *)
(* through a mutex: whoever gets it either reuses what was completed        *)
(* meanwhile or lately, or leads a refresh and says so at its end.          *)
(* Interactive ones just run.  A client that goes away ends its request     *)
(* wherever it is.                                                          *)
EXTENDS Integers, Sequences, SequencesExt

CONSTANTS
  Callers,
  MaxAge,    \* *_GIT_SNAPSHOT_MAX_AGE
  MaxNow,    \* bound on the clock
  Never      \* Option::None for an Instant

VARIABLES
  now,
  queue,         \* waiters of the git_refresh mutex, first come first served
  leader,        \* who holds it, or Never
  completedAt,   \* GitRefreshState.completed_at
  fetchedAt,     \* GitRefreshState.remote_fetch_completed_at
  caller,        \* per caller, its request
  snapshotTime,  \* history: when a refresh last ended
  fetchTime,     \* history: when a refresh that asked the remotes last ended
  blankTime      \* history: when one that could not list the projects last did

gate == <<queue, leader, completedAt, fetchedAt>>
times == <<snapshotTime, fetchTime, blankTime>>
vars == <<now, gate, caller, times>>

Time == 0..MaxNow
RefreshAssumption == MaxAge \in Nat /\ MaxNow \in Nat /\ Never \notin Time \cup Callers
Maybe == Time \cup {Never}
Pooled(c) == caller[c].kind = "auto"
Idle == [kind |-> "auto", fetch |-> FALSE, stage |-> "idle", requested |-> 0]

TimesOK ==
  /\ now \in Time
  /\ completedAt \in Maybe /\ fetchedAt \in Maybe
  /\ snapshotTime \in Maybe /\ fetchTime \in Maybe /\ blankTime \in Maybe

CallersOK ==
  /\ leader \in Callers \cup {Never}
  /\ caller \in [Callers -> [kind : {"auto", "interactive"}, fetch : BOOLEAN,
                   stage : {"idle", "waiting", "discovering", "fetching", "checking", "answered"},
                   requested : Time]]

TypeOK == TimesOK /\ CallersOK /\ queue \in Seq(Callers)

Init ==
  /\ now = 0
  /\ queue = <<>> /\ leader = Never /\ completedAt = Never /\ fetchedAt = Never
  /\ caller = [c \in Callers |-> Idle]
  /\ snapshotTime = Never /\ fetchTime = Never /\ blankTime = Never

Enter(c, stage) == caller' = [caller EXCEPT ![c].stage = stage]
ReleasedBy(c) == leader' = IF leader = c THEN Never ELSE leader

-----------------------------------------------------------------------------
(* A page asks for its project list.                                        *)
Request(c, kind, fetch) ==
  /\ caller[c].stage \in {"idle", "answered"}
  /\ caller' = [caller EXCEPT ![c] =
       [kind |-> kind, fetch |-> fetch, requested |-> now,
        stage |-> IF kind = "auto" THEN "waiting" ELSE "discovering"]]
  /\ queue' = IF kind = "auto" THEN Append(queue, c) ELSE queue
  /\ UNCHANGED <<now, leader, completedAt, fetchedAt, times>>

\* completed_since_or_recent.
Current(completed, requested) ==
  completed # Never /\ (completed >= requested \/ now - completed <= MaxAge)

\* Mutant of Reusable: any refresh will do.
ReusableUnfetched(c) == Current(completedAt, caller[c].requested)

Reusable(c) ==
  /\ Current(completedAt, caller[c].requested)
  /\ caller[c].fetch => Current(fetchedAt, caller[c].requested)

\* acquire_git_refresh, once the mutex is free.
Acquire(c) ==
  /\ leader = Never
  /\ queue # <<>> /\ Head(queue) = c
  /\ queue' = Tail(queue)
  /\ IF Reusable(c) THEN Enter(c, "answered") /\ leader' = leader
                    ELSE Enter(c, "discovering") /\ leader' = c
  /\ UNCHANGED <<now, completedAt, fetchedAt, times>>

\* discover_worktrees, then the fetches of refresh_project_list, then the
\* statuses.
Discover(c) ==
  /\ caller[c].stage = "discovering"
  /\ Enter(c, IF caller[c].fetch THEN "fetching" ELSE "checking")
  /\ UNCHANGED <<now, gate, times>>

\* A fetch that fails is ignored: the refresh counts as one that fetched.
Fetch(c) ==
  /\ caller[c].stage = "fetching"
  /\ Enter(c, "checking")
  /\ UNCHANGED <<now, gate, times>>

\* What a leader notes with GitRefreshPermit::complete; the permit goes with it.
Noted(c) ==
  /\ completedAt' = IF Pooled(c) THEN now ELSE completedAt
  /\ fetchedAt' = IF Pooled(c) /\ caller[c].fetch THEN now ELSE fetchedAt
  /\ ReleasedBy(c)
  /\ Enter(c, "answered")
  /\ UNCHANGED <<now, queue>>

\* The statuses are stored, and the refresh is noted.
Complete(c) ==
  /\ caller[c].stage = "checking"
  /\ snapshotTime' = now
  /\ fetchTime' = IF caller[c].fetch THEN now ELSE fetchTime
  /\ Noted(c)
  /\ UNCHANGED blankTime

\* refresh_project_list cannot list the projects: it looks at none, and the
\* refresh is noted all the same.
ListFails(c) ==
  /\ caller[c].stage = "discovering"
  /\ blankTime' = now
  /\ Noted(c)
  /\ UNCHANGED <<snapshotTime, fetchTime>>

\* Mutant of GoAway: a leader that goes away keeps the permit.
GoAwayLeading(c) ==
  /\ caller[c].stage \notin {"idle", "answered"}
  /\ caller' = [caller EXCEPT ![c] = Idle]
  /\ queue' = SelectSeq(queue, LAMBDA d : d # c)
  /\ UNCHANGED <<now, leader, completedAt, fetchedAt, times>>

\* The request's future is dropped, and with it its place in the queue or
\* its permit; nothing is completed.
GoAway(c) ==
  /\ caller[c].stage \notin {"idle", "answered"}
  /\ caller' = [caller EXCEPT ![c] = Idle]
  /\ queue' = SelectSeq(queue, LAMBDA d : d # c)
  /\ ReleasedBy(c)
  /\ UNCHANGED <<now, completedAt, fetchedAt, times>>

Tick == now < MaxNow /\ now' = now + 1 /\ UNCHANGED <<gate, caller, times>>

Work(c) == Acquire(c) \/ Discover(c) \/ Fetch(c) \/ Complete(c)

Next ==
  \/ \E c \in Callers :
       \/ \E kind \in {"auto", "interactive"}, fetch \in BOOLEAN : Request(c, kind, fetch)
       \/ Work(c) \/ ListFails(c) \/ GoAway(c)
  \/ Tick

Spec == Init /\ [][Next]_vars

-----------------------------------------------------------------------------
\* Who is answered sees a snapshot that was completed after it asked, or no
\* longer before than the age it accepts; and who asked for the remote sees
\* one that fetched, although it may have been waiting for a refresh that
\* did not, or for one that was given up (state.rs:142-185).  The one way to
\* see an older one is a refresh as late as that which could not list the
\* projects and passed for a snapshot.
LateEnough(c, time) == time # Never /\ time >= caller[c].requested - MaxAge

AnswersCurrent ==
  \A c \in Callers : caller[c].stage = "answered" =>
    \/ LateEnough(c, snapshotTime) /\ (caller[c].fetch => LateEnough(c, fetchTime))
    \/ LateEnough(c, blankTime)

\* What that rests on: nobody asks in the future, and what a leader has noted
\* is the end of a refresh that has been.
Backed(noted, ended) ==
  \E time \in {ended, blankTime} : time # Never /\ noted <= time

NotesTrue ==
  /\ \A c \in Callers : caller[c].requested <= now
  /\ snapshotTime # Never => snapshotTime <= now
  /\ fetchTime # Never => fetchTime <= now
  /\ blankTime # Never => blankTime <= now
  /\ completedAt # Never => Backed(completedAt, snapshotTime)
  /\ fetchedAt # Never => Backed(fetchedAt, fetchTime)

RefreshInv == TimesOK /\ CallersOK /\ NotesTrue /\ AnswersCurrent

\* Whoever waits is answered or goes away, whatever leaders do.
WaiterAnswered == \A c \in Callers : caller[c].stage = "waiting" ~> caller[c].stage # "waiting"

=============================================================================
