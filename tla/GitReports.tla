----------------------------- MODULE GitReports -----------------------------
(* What Latitude shows of a Git worktree (server/git/diff.rs): the diff of  *)
(* the repository or of one file, each read with several git commands one   *)
(* after the other, and the baseline of a file in the editor.  Meanwhile    *)
(* the tree changes.                                                        *)
EXTENDS GitTree

CONSTANT Unreadable  \* paths that diff_git_line_path does not read back as they are

VARIABLE reader   \* the report that is being made

vars == <<tree, reader>>

Kinds == {"view", "file", "baseline"}
Labels == {"Unstaged", "Staged", "Untracked"}
Nothing == [p \in Paths |-> {}]
NoReport == [stage |-> "idle", kind |-> "view", path |-> Absent, dirty |-> FALSE,
             counted |-> {}, listed |-> Nothing, diffs |-> Nothing, base |-> "none",
             failed |-> FALSE, steady |-> TRUE]

\* The two columns of the short status of a path: they may be of two entries.
Columns == {"index", "worktree", "untracked"}

Stages ==
  {"idle", "summary", "status", "listed", "unstaged", "staged", "tracked", "done"}
Report ==
  [stage: Stages, kind: Kinds, path: Paths \cup {Absent}, dirty: BOOLEAN,
   counted: SUBSET Paths, listed: [Paths -> SUBSET Columns], diffs: [Paths -> SUBSET Labels],
   base: {"none", "empty"} \cup Versions, failed: BOOLEAN, steady: BOOLEAN]

ReaderOK == reader \in Report
TypeOK == TreeTypeOK /\ ReaderOK

Init == TreeInit /\ reader = NoReport

-----------------------------------------------------------------------------
Becomes(value) == reader' = value /\ UNCHANGED tree
In(kinds, stage) == reader.kind \in kinds /\ reader.stage = stage

Staged(p) == index[p] # head[p]
Unstaged(p) == index[p] # Absent /\ work[p] # index[p]

\* What a command is about: everything, or the file.
Scope == IF reader.kind = "file" THEN {reader.path} ELSE Paths

Start(kind, p) ==
  /\ reader.stage = "idle"
  /\ kind = "view" <=> p = Absent
  /\ Becomes([NoReport EXCEPT !.stage = IF kind = "baseline" THEN "status" ELSE "summary",
                              !.kind = kind, !.path = p])

\* collect_repository_status: the changes that `diff HEAD` counts, or, if
\* there is no HEAD, those of the index and of the files.
Counted ==
  IF born THEN {p \in Paths : (IF index[p] = Absent THEN Absent ELSE work[p]) # head[p]}
  ELSE {p \in Paths : Staged(p) \/ Unstaged(p)}

\* Two commands side by side: either may fail and is then left out.
Summary ==
  /\ In({"view", "file"}, "summary")
  /\ \E counts, states \in BOOLEAN :
       LET untracked == IF states THEN {p \in Paths : Untracked(p)} ELSE {}
       IN Becomes([reader EXCEPT
            !.stage = "status",
            !.counted = (IF counts THEN Counted ELSE {}) \cup untracked,
            !.dirty = states /\ \E p \in Paths : Staged(p) \/ Unstaged(p) \/ Untracked(p),
            !.steady = @ /\ counts /\ states])

\* A report that cannot be made at all.
StatusFails ==
  /\ In({"view", "file"}, "status")
  /\ Becomes([reader EXCEPT !.stage = "done", !.failed = TRUE, !.steady = FALSE])

\* Mutant of Entries: what is staged and then forgotten is not listed.
EntriesTracked(p) ==
  (IF index[p] # Absent /\ Staged(p) THEN {"index"} ELSE {})
    \cup (IF Unstaged(p) THEN {"worktree"} ELSE {})
    \cup (IF Untracked(p) THEN {"untracked"} ELSE {})

\* parse_porcelain_status
Entries(p) ==
  (IF Staged(p) THEN {"index"} ELSE {}) \cup (IF Unstaged(p) THEN {"worktree"} ELSE {})
    \cup (IF Untracked(p) THEN {"untracked"} ELSE {})

\* collect_git_file_changes: a failure lists nothing.  A file without
\* changes is done.
List ==
  /\ In({"view", "file"}, "status")
  /\ \E fails \in BOOLEAN :
       LET listed == [p \in Paths |-> IF fails \/ p \notin Scope THEN {} ELSE Entries(p)]
       IN /\ fails => reader.kind = "view"
          /\ Becomes([reader EXCEPT
               !.stage = IF reader.kind = "file" /\ listed = Nothing THEN "done" ELSE "listed",
               !.listed = listed, !.steady = @ /\ ~fails])

\* attach_file_diffs: a diff of a path that is not listed is left out, and so
\* are those of a command that failed and of a path whose name git quotes in
\* its headers or that has ` b/' in it.
Attach(from, to, label, paths) ==
  /\ In({"view", "file"}, from)
  /\ \E fails \in BOOLEAN :
       Becomes([reader EXCEPT
         !.stage = to, !.steady = @ /\ ~fails,
         !.diffs = [p \in Paths |->
           IF ~fails /\ p \in (paths \cap Scope) \ Unreadable /\ reader.listed[p] # {}
           THEN reader.diffs[p] \cup {label} ELSE reader.diffs[p]]])

DiffUnstaged == Attach("listed", "unstaged", "Unstaged", {p \in Paths : Unstaged(p)})
DiffStaged == Attach("unstaged", "staged", "Staged", {p \in Paths : Staged(p)})

\* Mutant of DiffUntracked: a file that has become untracked is left out.
DiffUntrackedNew ==
  Attach("staged", "done", "Untracked", {p \in Paths : Untracked(p) /\ head[p] = Absent})

\* collect_untracked_diff; collect_untracked_file_diff, which compares the
\* file with nothing if the list says that it is untracked.
DiffUntracked ==
  Attach("staged", "done", "Untracked",
         IF reader.kind = "view" THEN {p \in Paths : Untracked(p)}
         ELSE {p \in Paths : "untracked" \in reader.listed[p] /\ work[p] # Absent})

-----------------------------------------------------------------------------
\* file_baseline: tracked, untracked or neither ...
FindTracked ==
  /\ In({"baseline"}, "status")
  /\ \E fails \in BOOLEAN :
       LET p == reader.path
           tracked == ~fails /\ work[p] # Absent /\ index[p] # Absent
       IN Becomes([reader EXCEPT
            !.stage = IF tracked THEN "tracked" ELSE "done",
            !.base = IF ~fails /\ Untracked(p) THEN "empty" ELSE "none",
            !.steady = @ /\ ~fails])

\* ... and then what HEAD has of it; any failure says that it is new.
ShowHead ==
  /\ In({"baseline"}, "tracked")
  /\ \E fails \in BOOLEAN :
       Becomes([reader EXCEPT !.stage = "done", !.steady = @ /\ ~fails,
                !.base = IF fails \/ head[reader.path] = Absent THEN "empty"
                         ELSE head[reader.path]])

Answer == reader.stage = "done" /\ Becomes(NoReport)

-----------------------------------------------------------------------------
Change ==
  /\ Elsewhere /\ tree' # tree
  /\ reader' = [reader EXCEPT !.steady = reader.stage = "idle"]

Next ==
  \/ \E kind \in Kinds, p \in Paths \cup {Absent} : Start(kind, p)
  \/ Summary \/ StatusFails \/ List \/ DiffUnstaged \/ DiffStaged \/ DiffUntracked
  \/ FindTracked \/ ShowHead \/ Answer
  \/ Change

Spec == Init /\ [][Next]_vars

-----------------------------------------------------------------------------
\* The diffs that there are of a path.
Due(p) ==
  (IF Unstaged(p) THEN {"Unstaged"} ELSE {}) \cup (IF Staged(p) THEN {"Staged"} ELSE {})
    \cup (IF Untracked(p) THEN {"Untracked"} ELSE {})

Shown(kinds) == reader.stage = "done" /\ reader.kind \in kinds

\* If nothing changed and no command failed, the report shows exactly the
\* changes there are, each with its diffs unless its name is garbled, although
\* it is put together from up to six commands, and a tree without changes
\* counts none.
ReportExact ==
  Shown({"view", "file"}) /\ reader.steady =>
    /\ \A p \in Scope \ Unreadable : reader.diffs[p] = Due(p)
    /\ reader.dirty <=> \E p \in Paths : head[p] # index[p] \/ index[p] # work[p]
    /\ ~reader.dirty => reader.counted = {}

\* Whatever changed meanwhile, there is no diff of a path that is not listed,
\* and a report of a file is of that file.
DiffsListed ==
  \A p \in Paths :
    reader.diffs[p] # {} => reader.listed[p] # {} /\ (reader.kind = "file" => p = reader.path)

\* The editor compares a file with what HEAD has of it.
BaselineRight ==
  Shown({"baseline"}) /\ reader.steady =>
    reader.base = LET p == reader.path
                  IN IF work[p] = Absent THEN "none"
                     ELSE IF head[p] = Absent \/ index[p] = Absent THEN "empty" ELSE head[p]

\* What these properties rest on: a report of a file has its path, and no diffs
\* before the changes are listed; ...
ReportFits ==
  /\ reader.stage # "idle" => (reader.kind = "view" <=> reader.path = Absent)
  /\ reader.stage \in {"idle", "summary", "status"} => reader.diffs = Nothing

\* ... as long as nothing has changed and no command failed, what has been read
\* is so, ...
ReadSoFar ==
  /\ reader.steady /\ reader.kind # "baseline" /\ reader.stage \notin {"idle", "summary"} =>
       /\ reader.dirty <=> \E p \in Paths : head[p] # index[p] \/ index[p] # work[p]
       /\ ~reader.dirty => reader.counted = {}
  /\ reader.steady /\ reader.stage \in {"listed", "unstaged", "staged"} =>
       \A p \in Paths : reader.listed[p] = IF p \in Scope THEN Entries(p) ELSE {}
  /\ reader.steady /\ reader.stage = "tracked" =>
       work[reader.path] # Absent /\ index[reader.path] # Absent

\* ... and each command has left its diffs.
Made ==
  [stage \in {"listed", "unstaged", "staged", "done"} |->
     (IF stage = "listed" THEN {} ELSE {"Unstaged"})
       \cup (IF stage \in {"staged", "done"} THEN {"Staged"} ELSE {})
       \cup (IF stage = "done" THEN {"Untracked"} ELSE {})]
MadeSoFar ==
  reader.steady /\ reader.kind # "baseline" /\ reader.stage \in DOMAIN Made =>
    \A p \in Scope \ Unreadable : reader.diffs[p] = Due(p) \cap Made[reader.stage]

ReportsInv ==
  TypeOK /\ ReportFits /\ ReadSoFar /\ MadeSoFar /\ DiffsListed /\ ReportExact /\ BaselineRight

=============================================================================
