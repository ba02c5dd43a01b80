------------------------------ MODULE T3Launch ------------------------------
(***************************************************************************)
(* Opening a project in T3 Code, an external program (server/t3code.rs).   *)
(* A launch reads the configuration, the project, the worktrees and the    *)
(* repository's root project one after the other, makes sure that T3 Code  *)
(* runs, registers the root with it, creates a pairing credential and      *)
(* redirects the browser to a worktree of what it has registered.          *)
(* Meanwhile the catalog changes, and T3 Code comes and goes.              *)
(***************************************************************************)
EXTENDS Naturals

CONSTANTS
  Projects,     \* names of projects
  First,        \* the one that is there in the beginning
  Dirs,
  LinkedDirs,   \* linked worktrees of the repository at MainDir
  MainDir,
  Absent,       \* no project, no directory, no row
  Launches,
  MaxEdits      \* bound on changes of the catalog

VARIABLES
  dirOf,    \* projects: the directory of each name
  enabled,
  record,   \* worktrees: the row of each name
  edits,
  up,       \* whether T3 Code answers
  launch

catalog == <<dirOf, enabled, record>>
vars == <<catalog, edits, up, launch>>

\* The parent of common_git_dir.
Repository == [d \in Dirs |-> IF d \in LinkedDirs THEN MainDir ELSE d]

Row == [dir: Dirs, discovered: BOOLEAN]
Config == [enabled: BOOLEAN, start: BOOLEAN]

\* dir: of the project clicked on; rootDir: of the project that is registered.
\* lapsed: history, one of the two was moved between two reads that it is part
\* of, or was not where its row says when the rows were read.
NoLaunch == [stage |-> "idle", start |-> FALSE, project |-> Absent, dir |-> Absent,
             root |-> Absent, rootDir |-> Absent, worktree |-> Absent, lapsed |-> FALSE]

LaunchAssumption ==
  /\ LinkedDirs \subseteq Dirs /\ MainDir \in Dirs \ LinkedDirs
  /\ First \in Projects /\ Absent \notin Dirs \cup Projects \cup Row
  /\ MaxEdits \in Nat

CatalogOK ==
  /\ dirOf \in [Projects -> Dirs \cup {Absent}] /\ enabled \in [Projects -> BOOLEAN]
  /\ record \in [Projects -> Row \cup {Absent}]
  /\ edits \in 0..MaxEdits /\ up \in BOOLEAN

Launch ==
  [stage: {"idle", "begun", "found", "mapped", "rooted", "starting", "ready",
           "registered", "redirected"},
   start: BOOLEAN, project: Projects \cup {Absent}, dir: Dirs \cup {Absent},
   root: Projects \cup {Absent}, rootDir: Dirs \cup {Absent},
   worktree: Dirs \cup {Absent}, lapsed: BOOLEAN]

LaunchesOK == launch \in [Launches -> Launch]

TypeOK == CatalogOK /\ LaunchesOK

Init ==
  /\ dirOf = [n \in Projects |-> IF n = First THEN MainDir ELSE Absent]
  /\ enabled = [n \in Projects |-> TRUE] /\ record = [n \in Projects |-> Absent]
  /\ edits = 0 /\ up = FALSE
  /\ launch = [l \in Launches |-> NoLaunch]

-----------------------------------------------------------------------------
At(l, stage) == launch[l].stage = stage
Set(l, value) == launch' = [launch EXCEPT ![l] = value] /\ UNCHANGED <<catalog, edits, up>>
Goes(l, stage) == Set(l, [launch[l] EXCEPT !.stage = stage])
Fails(l) == Set(l, NoLaunch)

\* open_t3code (no project) and open_project_in_t3code read the configuration.
Begin(l, project, config) ==
  /\ At(l, "idle") /\ config.enabled
  /\ Set(l, [NoLaunch EXCEPT !.stage = IF project = Absent THEN "rooted" ELSE "begun",
               !.start = config.start, !.project = project])

Open(n) == dirOf[n] # Absent /\ enabled[n]

FindProject(l) ==
  /\ At(l, "begun")
  /\ LET n == launch[l].project
     IN IF Open(n) THEN Set(l, [launch[l] EXCEPT !.stage = "found", !.dir = dirOf[n]])
        ELSE Fails(l)

\* Mutant of Roots: the rows of other repositories count.
RootsAnywhere(n) ==
  LET users == {c \in Projects : record[c] # Absent /\ ~record[c].discovered}
  IN IF users # {} THEN users ELSE {n}

\* The project that stands for the repository of n: the one with the row at its
\* root, else the first that a user has made, else the project itself.
Roots(n) ==
  LET repository == Repository[record[n].dir]
      rows == {c \in Projects : record[c] # Absent /\ Repository[record[c].dir] = repository}
      main == {c \in rows : record[c].dir = repository}
      users == {c \in rows : ~record[c].discovered}
  IN IF main # {} THEN main ELSE IF users # {} THEN users ELSE {n}

\* Its row, if there is one, is of the directory it is in.
Placed(n) == record[n] # Absent /\ record[n].dir = dirOf[n]

\* resolve_t3code_launch_mapping, of the worktrees as they are by now.
MapWorktree(l) ==
  /\ At(l, "found")
  /\ LET n == launch[l].project
     IN \/ /\ record[n] = Absent
           /\ Set(l, [launch[l] EXCEPT !.stage = "mapped", !.root = n])
        \/ /\ record[n] # Absent
           /\ \E root \in Roots(n) :
                Set(l, [launch[l] EXCEPT !.stage = "mapped", !.root = root, !.worktree = record[n].dir,
                          !.lapsed = @ \/ ~Placed(root)])

\* The project is not read again if it is the root.
FindRoot(l) ==
  /\ At(l, "mapped")
  /\ LET r == launch[l]
     IN IF r.root = r.project THEN Set(l, [r EXCEPT !.stage = "rooted", !.rootDir = r.dir])
        ELSE IF Open(r.root) THEN Set(l, [r EXCEPT !.stage = "rooted", !.rootDir = dirOf[r.root]])
        ELSE Fails(l)

\* ensure_server: it answers, or nobody asked to start it ...
EnsureServer(l) ==
  /\ At(l, "rooted") /\ (launch[l].start => up)
  /\ Goes(l, "ready")

\* ... or it is started, as a process that is not waited for.
StartServer(l) ==
  /\ At(l, "rooted") /\ launch[l].start /\ ~up
  /\ Goes(l, "starting") \/ Fails(l)

\* Ten seconds of polling.
ServerReady(l) == At(l, "starting") /\ up /\ Goes(l, "ready")
ServerLate(l) == At(l, "starting") /\ Fails(l)

\* run_cli: `project add --if-missing` returns the id that T3 Code now has for
\* the directory of the root.
Register(l) ==
  /\ At(l, "ready") /\ launch[l].project # Absent
  /\ Goes(l, "registered") \/ Fails(l)

\* create_pairing_url: a credential of five minutes, for one use; then the
\* browser is redirected to the id, the worktree and its branch.
Pair(l) ==
  /\ At(l, "registered") \/ (At(l, "ready") /\ launch[l].project = Absent)
  /\ Goes(l, "redirected") \/ Fails(l)

Done(l) == At(l, "redirected") /\ Set(l, NoLaunch)

-----------------------------------------------------------------------------
\* The project that the next read of a launch goes by, after an earlier one.
Awaited(l) ==
  CASE At(l, "found") -> {launch[l].project}
    [] At(l, "mapped") -> {launch[l].root} \ {launch[l].project}
    [] OTHER -> {}

\* The catalog changes (Catalog, WorktreeDiscovery).
Edit(n) ==
  /\ edits < MaxEdits /\ edits' = edits + 1
  /\ launch' = [l \in Launches |->
                  [launch[l] EXCEPT !.lapsed = @ \/ (n \in Awaited(l) /\ dirOf'[n] # dirOf[n])]]
  /\ UNCHANGED up

\* A project is put: the row goes with the one it replaces, ...
Put(n, dir, on) ==
  /\ dirOf' = [dirOf EXCEPT ![n] = dir] /\ enabled' = [enabled EXCEPT ![n] = on]
  /\ record' = [record EXCEPT ![n] = Absent] /\ Edit(n)

\* ... or deleted with its row, ...
Delete(n) ==
  /\ dirOf' = [dirOf EXCEPT ![n] = Absent] /\ record' = [record EXCEPT ![n] = Absent]
  /\ UNCHANGED enabled /\ Edit(n)

\* ... or a refresh gives it a row, and a new one for a worktree a directory.
Reconcile(n, row) ==
  /\ dirOf' = [dirOf EXCEPT ![n] = IF @ = Absent THEN row.dir ELSE @]
  /\ dirOf[n] = Absent => row.discovered
  /\ enabled' = [enabled EXCEPT ![n] = dirOf[n] = Absent \/ @]
  /\ record' = [record EXCEPT ![n] = row] /\ Edit(n)

\* T3 Code comes up, started by whomever, or stops.
T3Runs(now) ==
  /\ up # now /\ up' = now
  /\ UNCHANGED <<catalog, edits, launch>>

Next ==
  \/ \E l \in Launches :
       \/ \E n \in Projects \cup {Absent}, c \in Config : Begin(l, n, c)
       \/ FindProject(l) \/ MapWorktree(l) \/ FindRoot(l) \/ EnsureServer(l) \/ StartServer(l)
       \/ ServerReady(l) \/ ServerLate(l) \/ Register(l) \/ Pair(l) \/ Done(l)
  \/ \E n \in Projects :
       \/ \E dir \in Dirs, on \in BOOLEAN : Put(n, dir, on)
       \/ Delete(n) \/ \E row \in Row : Reconcile(n, row)
  \/ \E now \in BOOLEAN : T3Runs(now)

Spec == Init /\ [][Next]_vars

-----------------------------------------------------------------------------
Redirected(l) == At(l, "redirected") /\ launch[l].project # Absent

\* The id and the worktree of a redirect are of one repository, although they
\* come from three reads with the catalog changing in between: only a project
\* that is itself moved between two of them, or that was not where its row
\* says, is registered in another repository than the worktree is of.
RedirectConsistent ==
  \A l \in Launches : Redirected(l) =>
    LET r == launch[l]
    IN /\ r.rootDir # Absent
       /\ r.worktree # Absent /\ ~r.lapsed => Repository[r.rootDir] = Repository[r.worktree]

\* What a launch rests on at each point of its way.
AllRead == {"rooted", "starting", "ready", "registered", "redirected"}
Reads(r) ==
  /\ r.stage \in {"begun", "found", "mapped"} => r.project # Absent
  /\ r.stage \in {"begun", "found"} => r.worktree = Absent
  /\ r.stage \in {"found", "mapped"} => r.dir # Absent
  /\ r.stage = "found" /\ ~r.lapsed => dirOf[r.project] = r.dir
  /\ r.stage = "mapped" => r.root # Absent
  /\ r.stage = "mapped" /\ ~r.lapsed /\ r.worktree # Absent =>
       LET dir == IF r.root = r.project THEN r.dir ELSE dirOf[r.root]
       IN dir # Absent => Repository[dir] = Repository[r.worktree]
  /\ r.stage \in AllRead /\ r.project # Absent =>
       /\ r.rootDir # Absent
       /\ r.worktree # Absent /\ ~r.lapsed => Repository[r.rootDir] = Repository[r.worktree]

ReadsTrue == \A l \in Launches : Reads(launch[l])

LaunchInv == TypeOK /\ ReadsTrue /\ RedirectConsistent

=============================================================================
