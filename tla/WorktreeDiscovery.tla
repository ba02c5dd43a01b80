-------------------------- MODULE WorktreeDiscovery ------------------------
(* The linked Git worktrees of a repository become projects of their own.   *)
(* A refresh reads the projects, then has Git list the worktrees from the   *)
(* directory of one of them, its source, and reconciles the catalog with    *)
(* the list in one transaction, led by what it read of the source; users    *)
(* put, delete and archive projects all the while.  Refreshes from the      *)
(* timer and requests to create a project hold DISCOVERY_LOCK, interactive  *)
(* ones do not.  Directories are numbers: Git lists the main worktree first *)
(* and the linked ones in their order.  A directory is its own branch.      *)
EXTENDS Naturals, FiniteSets

CONSTANTS
  Primary,      \* the project at the main worktree in the beginning
  Linked,       \* directories of linked worktrees
  UserNames,    \* names users give to other projects
  Absent,
  Refreshers,
  MaxPuts,      \* bound on the projects users put
  MaxRefreshes  \* bound on the refreshes of a behaviour

VARIABLES
  life,       \* [Linked -> {"new", "present", "gone"}]: the worktree on disk
  dirOf,      \* projects: the directory of each name
  record,     \* worktrees: the row of each name
  refresher,  \* [Refreshers -> the refresh in progress]
  lock,       \* who holds DISCOVERY_LOCK
  puts,
  refreshes,
  collided,   \* history: a user put a project where one is
  unlocked,   \* history: an interactive refresh has run
  settled,    \* the catalog was last changed by a refresh that knew the disk
  made,       \* history: the projects users made
  misled      \* history: a source was moved before its list was reconciled

tables == <<dirOf, record>>
history == <<puts, made, collided>>
vars == <<life, tables, refresher, lock, history, refreshes, misled, unlocked, settled>>

Main == 0
Dirs == Linked \cup {Main}
\* unique_worktree_name_tx: a name of the directory, with a suffix if it is taken.
Derived == Dirs \X (1..MaxPuts + 1)
Names == {Primary} \cup UserNames \cup Derived
Row == [dir : Dirs, discovered : BOOLEAN, archived : BOOLEAN]
Idle == [kind |-> "auto", stage |-> "idle", dir |-> Main, source |-> Primary, at |-> Main, scan |-> {}]
OnDisk == {Main} \cup {d \in Linked : life[d] = "present"}

\* A list has an end, and names that users give to projects of their own are
\* not those of worktrees.
WorktreeAssumption ==
  /\ MaxPuts \in Nat /\ MaxRefreshes \in Nat
  /\ Linked \subseteq Nat \ {Main}
  /\ \A dirs \in SUBSET Dirs : dirs # {} => \E d \in dirs : \A e \in dirs : e <= d
  /\ Absent \notin Dirs \cup Refreshers \cup Row
  /\ (UserNames \cup {Primary}) \cap Derived = {}

TablesOK == dirOf \in [Names -> Dirs \cup {Absent}] /\ record \in [Names -> Row \cup {Absent}]

\* dir: where a project is to be created; source, at: the project that leads
\* the refresh, and where it was when it was read.
Refresher ==
  [kind : {"auto", "interactive", "create"},
   stage : {"idle", "lock", "list", "scan", "reconcile", "look", "insert"},
   dir : Dirs, source : Names, at : Dirs, scan : SUBSET Dirs]

RefreshersOK == refresher \in [Refreshers -> Refresher] /\ lock \in Refreshers \cup {Absent}

MarksOK ==
  /\ life \in [Linked -> {"new", "present", "gone"}]
  /\ puts \in 0..MaxPuts /\ refreshes \in 0..MaxRefreshes
  /\ made \in SUBSET Names
  /\ collided \in BOOLEAN /\ misled \in BOOLEAN /\ unlocked \in BOOLEAN /\ settled \in BOOLEAN

TypeOK == TablesOK /\ RefreshersOK /\ MarksOK

Init ==
  /\ life = [d \in Linked |-> "new"]
  /\ dirOf = [n \in Names |-> IF n = Primary THEN Main ELSE Absent]
  /\ record = [n \in Names |-> Absent]
  /\ refresher = [r \in Refreshers |-> Idle]
  /\ lock = Absent
  /\ puts = 0 /\ refreshes = 0 /\ made = {Primary}
  /\ collided = FALSE /\ misled = FALSE /\ unlocked = FALSE /\ settled = FALSE

-----------------------------------------------------------------------------
(* reconcile_worktrees, for a source that was at `at`: `name` is what it    *)
(* takes for the project of each directory, in the order of the list.       *)
Discovered(n) == record[n] # Absent /\ record[n].discovered

Latest(dirs) == CHOOSE d \in dirs : \A e \in dirs : e <= d

\* The row of n says "discovered" when the list has come to d.
Marked(n, d, name, scan, at) ==
  LET earlier == {e \in scan : e < d /\ name[e] = n}
  IN IF earlier = {} THEN Discovered(n) ELSE Latest(earlier) # at

\* The projects a user made for a directory, of several the query takes any;
\* where the source was, it is the source, wherever it is now.
Configured(d, name, scan, source, at) ==
  IF d = at THEN {source}
  ELSE {n \in Names : dirOf[n] = d /\ ~Marked(n, d, name, scan, at)}

Existing(d) == {n \in Names : record[n] # Absent /\ record[n].dir = d}
Fresh(d) == {p \in {d} \X (1..MaxPuts + 1) :
               dirOf[p] = Absent /\ \A i \in 1..p[2] - 1 : dirOf[<<d, i>>] # Absent}

Choices(d, name, scan, source, at) ==
  LET configured == Configured(d, name, scan, source, at)
  IN IF configured # {} THEN configured ELSE IF Existing(d) # {} THEN Existing(d) ELSE Fresh(d)

\* Mutant of Conflicts: the column is not unique.
ConflictsNever(name, scan) == FALSE

\* The insert of a row whose directory is unique: another name may have it.
Conflicts(name, scan) ==
  \E d \in scan : \E n \in Existing(d) \ {name[d]} : \A e \in scan : e < d => name[e] # n

Unarchived(n) == IF record[n] = Absent THEN FALSE ELSE record[n].archived

\* Mutant of Stale: worktrees that are archived are kept.
StaleActive(scan) ==
  {n \in Names : Discovered(n) /\ ~record[n].archived /\ record[n].dir \notin scan}

Stale(scan) == {n \in Names : Discovered(n) /\ record[n].dir \notin scan}

\* The row of a name that is taken for directories: the last one stays.
Written(n, dirs, name, scan, source, at, archived) ==
  LET d == Latest(dirs)
  IN [dir |-> d, discovered |-> n \notin Configured(d, name, scan, source, at), archived |-> archived]

\* Mutant of Reconciled: the row is written as a new one.
ReconciledAnew(name, scan, source, at) ==
  LET dirs(n) == {d \in scan : name[d] = n}
      gone == {n \in Stale(scan) : dirs(n) = {}}
  IN /\ dirOf' = [n \in Names |-> CASE n \in gone -> Absent
                                    [] dirs(n) # {} /\ dirOf[n] = Absent -> Latest(dirs(n))
                                    [] OTHER -> dirOf[n]]
     /\ record' = [n \in Names |->
          CASE n \in gone -> Absent
            [] dirs(n) # {} -> Written(n, dirs(n), name, scan, source, at, FALSE)
            [] OTHER -> record[n]]

Reconciled(name, scan, source, at) ==
  LET dirs(n) == {d \in scan : name[d] = n}
      gone == {n \in Stale(scan) : dirs(n) = {}}
  IN /\ dirOf' = [n \in Names |-> CASE n \in gone -> Absent
                                    [] dirs(n) # {} /\ dirOf[n] = Absent -> Latest(dirs(n))
                                    [] OTHER -> dirOf[n]]
     /\ record' = [n \in Names |->
          CASE n \in gone -> Absent
            [] dirs(n) # {} -> Written(n, dirs(n), name, scan, source, at, Unarchived(n))
            [] OTHER -> record[n]]

-----------------------------------------------------------------------------
Enter(r, stage) == refresher' = [refresher EXCEPT ![r].stage = stage]
Finish(r) ==
  /\ refresher' = [refresher EXCEPT ![r] = Idle]
  /\ lock' = IF lock = r THEN Absent ELSE lock

\* discover_worktree_project returns, and the lock goes with it.
Decline(r) ==
  /\ refresher' = [refresher EXCEPT
       ![r] = [Idle EXCEPT !.kind = "create", !.stage = "insert", !.dir = refresher[r].dir]]
  /\ lock' = IF lock = r THEN Absent ELSE lock

\* A refresh, or a request to create a project at a directory, arrives.
Begin(r, kind, dir) ==
  /\ refresher[r].stage = "idle"
  /\ refreshes < MaxRefreshes
  /\ kind # "create" => dir = Main
  /\ refresher' = [refresher EXCEPT ![r] =
       [Idle EXCEPT !.kind = kind, !.stage = IF kind = "interactive" THEN "list" ELSE "lock",
                    !.dir = dir]]
  /\ refreshes' = refreshes + 1
  /\ unlocked' = (unlocked \/ kind = "interactive")
  /\ UNCHANGED <<life, tables, lock, history, misled, settled>>

\* Mutant of Lock: it is not held.
LockNothing(r) ==
  /\ refresher[r].stage = "lock"
  /\ Enter(r, IF refresher[r].kind = "create" THEN "scan" ELSE "list")
  /\ UNCHANGED <<life, tables, lock, history, refreshes, misled, unlocked, settled>>

Lock(r) ==
  /\ refresher[r].stage = "lock"
  /\ lock = Absent
  /\ lock' = r
  /\ Enter(r, IF refresher[r].kind = "create" THEN "scan" ELSE "list")
  /\ UNCHANGED <<life, tables, history, refreshes, misled, unlocked, settled>>

\* list_worktree_roots: the one whose scan will answer first.
ListRoots(r, n) ==
  /\ refresher[r].stage = "list" /\ refresher[r].kind # "create"
  /\ dirOf[n] # Absent /\ ~Discovered(n)
  /\ refresher' = [refresher EXCEPT ![r].stage = "scan", ![r].source = n, ![r].at = dirOf[n]]
  /\ UNCHANGED <<life, tables, lock, history, refreshes, misled, unlocked, settled>>

\* git worktree list, from the source or from the directory asked for.
Scan(r) ==
  LET create == refresher[r].kind = "create"
  IN /\ refresher[r].stage = "scan"
     /\ (IF create THEN refresher[r].dir ELSE refresher[r].at) \in OnDisk
     /\ refresher' = [refresher EXCEPT ![r].stage = IF create THEN "list" ELSE "reconcile",
                                       ![r].scan = OnDisk]
     /\ UNCHANGED <<life, tables, lock, history, refreshes, misled, unlocked, settled>>

\* The directory of a project to create is not that of a worktree.
ScanElsewhere(r) ==
  /\ refresher[r].stage = "scan" /\ refresher[r].kind = "create"
  /\ refresher[r].dir \notin OnDisk
  /\ Decline(r)
  /\ UNCHANGED <<life, tables, history, refreshes, misled, unlocked, settled>>

\* A request to create one is led by any project at the main worktree.
FindRoot(r, n) ==
  /\ refresher[r].stage = "list" /\ refresher[r].kind = "create"
  /\ dirOf[n] = Main
  /\ refresher' = [refresher EXCEPT ![r].stage = "reconcile", ![r].source = n, ![r].at = Main]
  /\ UNCHANGED <<life, tables, lock, history, refreshes, misled, unlocked, settled>>

FindNoRoot(r) ==
  /\ refresher[r].stage = "list" /\ refresher[r].kind = "create"
  /\ \A n \in Names : dirOf[n] # Main
  /\ Decline(r)
  /\ UNCHANGED <<life, tables, history, refreshes, misled, unlocked, settled>>

\* There is no root, Git cannot be run, or the request is dropped: the lock
\* goes with it.
Abandon(r) ==
  /\ refresher[r].stage # "idle"
  /\ Finish(r)
  /\ UNCHANGED <<life, tables, history, refreshes, misled, unlocked, settled>>

\* The transaction.  It fails when the source is no project any more (the
\* foreign key) or a directory has a row of another name.
Reconcile(r) ==
  LET scan == refresher[r].scan
      source == refresher[r].source
      at == refresher[r].at
  IN /\ refresher[r].stage = "reconcile"
     /\ \E name \in [scan -> Names] :
          /\ \A d \in scan : name[d] \in Choices(d, name, scan, source, at)
          /\ IF dirOf[source] = Absent \/ Conflicts(name, scan)
             THEN /\ Finish(r)
                  /\ UNCHANGED <<tables, misled>>
                  /\ settled' = (settled \/ (dirOf[source] = at /\ scan = OnDisk))
             ELSE /\ Reconciled(name, scan, source, at)
                  /\ misled' = (misled \/ dirOf[source] # at)
                  /\ settled' = (scan = OnDisk)
                  /\ IF refresher[r].kind = "create"
                     THEN /\ refresher' = [refresher EXCEPT ![r].stage = "look", ![r].scan = {}]
                          /\ UNCHANGED lock
                     ELSE Finish(r)
     /\ UNCHANGED <<life, history, refreshes, unlocked>>

\* A create request looks whether its directory has a project now.
Look(r) ==
  /\ refresher[r].stage = "look"
  /\ IF \E n \in Names : dirOf[n] = refresher[r].dir THEN Finish(r) ELSE Decline(r)
  /\ UNCHANGED <<life, tables, history, refreshes, misled, unlocked, settled>>

\* create_project, refused if the name is taken.
Insert(r, n) ==
  LET free == dirOf[n] = Absent
  IN /\ refresher[r].stage = "insert"
     /\ dirOf' = IF free THEN [dirOf EXCEPT ![n] = refresher[r].dir] ELSE dirOf
     /\ made' = IF free THEN made \cup {n} ELSE made
     /\ collided' = (collided \/ \E k \in Names : dirOf[k] = refresher[r].dir)
     /\ settled' = FALSE
     /\ Finish(r)
     /\ UNCHANGED <<life, record, puts, refreshes, misled, unlocked>>

-----------------------------------------------------------------------------
(* Users, and Git.                                                          *)

\* replace_project: the row goes with the old project.
PutProject(n, d) ==
  /\ puts < MaxPuts
  /\ puts' = puts + 1
  /\ dirOf' = [dirOf EXCEPT ![n] = d]
  /\ record' = [record EXCEPT ![n] = Absent]
  /\ made' = made \cup {n}
  /\ collided' = (collided \/ \E k \in Names \ {n} : dirOf[k] = d)
  /\ settled' = FALSE
  /\ UNCHANGED <<life, refresher, lock, refreshes, misled, unlocked>>

DeleteProject(n) ==
  /\ dirOf[n] # Absent
  /\ dirOf' = [dirOf EXCEPT ![n] = Absent]
  /\ record' = [record EXCEPT ![n] = Absent]
  /\ made' = made \ {n}
  /\ settled' = FALSE
  /\ UNCHANGED <<life, refresher, lock, puts, refreshes, collided, misled, unlocked>>

\* set_worktree_archived: discovered worktrees only.
SetArchived(n, archived) ==
  /\ Discovered(n)
  /\ record' = [record EXCEPT ![n].archived = archived]
  /\ UNCHANGED <<life, dirOf, refresher, lock, history, refreshes, misled, unlocked, settled>>

AddWorktree(d) ==
  /\ life[d] = "new"
  /\ life' = [life EXCEPT ![d] = "present"]
  /\ settled' = FALSE
  /\ UNCHANGED <<tables, refresher, lock, history, refreshes, misled, unlocked>>

RemoveWorktree(d) ==
  /\ life[d] = "present"
  /\ life' = [life EXCEPT ![d] = "gone"]
  /\ settled' = FALSE
  /\ UNCHANGED <<tables, refresher, lock, history, refreshes, misled, unlocked>>

Refresh(r) ==
  \/ \E kind \in {"auto", "interactive", "create"}, d \in Dirs : Begin(r, kind, d)
  \/ Lock(r) \/ Scan(r) \/ ScanElsewhere(r) \/ FindNoRoot(r) \/ Abandon(r) \/ Reconcile(r) \/ Look(r)
  \/ \E n \in Names : ListRoots(r, n) \/ FindRoot(r, n)
  \/ \E n \in UserNames : Insert(r, n)

\* Users put projects under names of their own, or under that of a worktree.
Next ==
  \/ \E r \in Refreshers : Refresh(r)
  \/ \E n \in {Primary} \cup UserNames \cup {<<d, 1>> : d \in Linked}, d \in Dirs : PutProject(n, d)
  \/ \E n \in Names : DeleteProject(n)
  \/ \E n \in Names, archived \in BOOLEAN : SetArchived(n, archived)
  \/ \E d \in Linked : AddWorktree(d) \/ RemoveWorktree(d)

Spec == Init /\ [][Next]_vars

-----------------------------------------------------------------------------
\* No directory has two rows, and the rows of the two tables speak of the
\* same directories, although rows are written from lists that may be older
\* than the projects (storage/worktrees.rs:48-166): as long as no refresh was
\* led by a project that had moved away since it was read.
RecordsAgree ==
  /\ \A m, n \in Names : record[m] # Absent /\ record[n] # Absent /\ record[m].dir = record[n].dir
       => m = n
  /\ ~misled => \A n \in Names : record[n] # Absent => dirOf[n] = record[n].dir

\* What a refresh that knows the disk leaves: a project for every worktree,
\* and no discovered project for a directory that is none.
Mirrored ==
  settled =>
    /\ \A d \in OnDisk : \E n \in Names : dirOf[n] = d /\ record[n] # Absent
    /\ \A n \in Names : Discovered(n) => record[n].dir \in OnDisk

\* It does, as long as no user puts a second project at a directory and no
\* refresh was misled.
DiscoveryMirrorsDisk == ~collided /\ ~misled => Mirrored

\* ... wherever users put their projects between the refreshes: storage.rs:818
\* (reconciles_archives_and_removes_discovered_worktrees).
DiscoveryFollowsDisk == ~misled => Mirrored

\* Of each step: the lock keeps a list from being reconciled after a newer one:
\* a refresh drops a project only if its worktree is gone.  Interactive
\* refreshes do not take it (discovery.rs:16-24).
LockedDropsOnlyGone ==
  ~unlocked /\ refresher' # refresher =>
    \A n \in Names : dirOf[n] # Absent /\ dirOf'[n] = Absent =>
      record[n].dir \in Linked /\ life[record[n].dir] = "gone"

\* Whatever list it has, a refresh leaves alone what users decide: the
\* projects they made stay where they put them, unless a source was moved
\* during its refresh, and a worktree stays archived.
UserChoicesKept ==
  refresher' # refresher =>
    /\ ~misled' => \A n \in made : dirOf'[n] = dirOf[n]
    /\ \A n \in Names : record[n] # Absent /\ record'[n] # Absent =>
         record'[n].archived = record[n].archived

\* What these rest on: what users made is theirs, ...
MadeStands == ~misled => \A n \in made : dirOf[n] # Absent /\ ~Discovered(n)

\* ... a directory has one project until a user puts a second one there, ...
OneProject ==
  ~collided /\ ~misled =>
    \A m, n \in Names : dirOf[m] # Absent /\ dirOf[m] = dirOf[n] => m = n

\* ... what rows and lists name has been on disk, ...
Lists(r) ==
  LET scan == refresher[r].scan
      listed == \/ refresher[r].stage = "reconcile"
                \/ refresher[r].stage = "list" /\ refresher[r].kind = "create"
  IN /\ scan # {} <=> listed
     /\ listed => Main \in scan
     /\ \A d \in Linked : life[d] = "new" => d \notin scan

Seen ==
  /\ \A n \in Names : record[n] # Absent /\ record[n].dir \in Linked => life[record[n].dir] # "new"
  /\ \A r \in Refreshers : Lists(r)

\* ... and while the lock is taken by all, the list of its holder lacks only
\* discovered worktrees that are gone.
Knows(r) ==
  /\ refresher[r].stage \in {"list", "scan", "reconcile", "look"} => lock = r
  /\ refresher[r].scan # {} => \A n \in Names : Discovered(n) =>
       \/ record[n].dir \in refresher[r].scan
       \/ record[n].dir \in Linked /\ life[record[n].dir] = "gone"

HolderKnows == ~unlocked => \A r \in Refreshers : Knows(r)

WorktreesInv ==
  TypeOK /\ RecordsAgree /\ DiscoveryMirrorsDisk /\ MadeStands /\ OneProject /\ Seen /\ HolderKnows

=============================================================================
