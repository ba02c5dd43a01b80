------------------------------- MODULE GitTree ------------------------------
(* A Git worktree as far as Latitude acts on it and reports it: the last    *)
(* commit, the index and the files, and the git commands that Latitude runs *)
(* (server/git/command.rs) on the paths that their arguments match.         *)
EXTENDS Naturals, FiniteSets

CONSTANTS
  Paths,
  Versions,   \* contents of a file
  Absent

VARIABLES
  head,   \* the tree of HEAD
  born,   \* whether there is a commit
  index,
  work    \* the files; ignored ones are left out

tree == <<head, born, index, work>>

Content == Versions \cup {Absent}

TreeTypeOK ==
  /\ head \in [Paths -> Content] /\ index \in [Paths -> Content]
  /\ work \in [Paths -> Content] /\ born \in BOOLEAN

TreeInit ==
  /\ head = [p \in Paths |-> Absent] /\ index = head /\ work = head /\ born = FALSE

Untracked(p) == index[p] = Absent /\ work[p] # Absent

\* Which of two trees holds a path.
Mixed(paths, new, old) == [p \in Paths |-> IF p \in paths THEN new[p] ELSE old[p]]

\* add --all, add -- <paths>
Add(paths) == index' = Mixed(paths, work, index) /\ UNCHANGED <<head, born, work>>

\* reset -q HEAD -- <paths>
Reset(paths) ==
  /\ born /\ index' = Mixed(paths, head, index) /\ UNCHANGED <<head, born, work>>

\* rm --cached -r --ignore-unmatch -- <paths>: git refuses to forget what is
\* neither in the file nor in HEAD.
RmCached(paths) ==
  /\ \A p \in paths : index[p] = Absent \/ work[p] \in {Absent, index[p]}
                      \/ (born /\ index[p] = head[p])
  /\ index' = [p \in Paths |-> IF p \in paths THEN Absent ELSE index[p]]
  /\ UNCHANGED <<head, born, work>>

\* restore --worktree -- <paths>
Restore(paths) ==
  /\ \E p \in paths : index[p] # Absent
  /\ work' = [p \in Paths |-> IF p \in paths /\ index[p] # Absent THEN index[p] ELSE work[p]]
  /\ UNCHANGED <<head, born, index>>

\* Mutant of Clean: the files are removed, whatever git thinks of them.
CleanAnyway(paths) ==
  /\ work' = [p \in Paths |-> IF p \in paths THEN Absent ELSE work[p]]
  /\ UNCHANGED <<head, born, index>>

\* clean -fd -- <paths>
Clean(paths) ==
  /\ work' = [p \in Paths |-> IF p \in paths /\ Untracked(p) THEN Absent ELSE work[p]]
  /\ UNCHANGED <<head, born, index>>

\* commit -m
Commit ==
  /\ index # head /\ head' = index /\ born' = TRUE /\ UNCHANGED <<index, work>>

\* pull --ff-only: the path changes in the index and the file too, which
\* must have been as they were committed.
Pull(p, version) ==
  /\ born /\ head[p] = index[p] /\ index[p] = work[p]
  /\ head' = [head EXCEPT ![p] = version] /\ index' = [index EXCEPT ![p] = version]
  /\ work' = [work EXCEPT ![p] = version] /\ UNCHANGED born

\* Files are edited.
Edit(p, version) ==
  /\ work' = [work EXCEPT ![p] = version] /\ UNCHANGED <<head, born, index>>

\* Whatever somebody does at a terminal meanwhile.
Elsewhere ==
  \/ \E p \in Paths, version \in Content : Edit(p, version)
  \/ \E p \in Paths : Add({p}) \/ Reset({p}) \/ RmCached({p})
  \/ Commit

=============================================================================
