----------------------------- MODULE GitActions -----------------------------
(* The Git actions of the diff page (server/git/actions.rs): each request   *)
(* asks git once or twice and then runs a command that rests on the         *)
(* answers, while somebody else works in the same tree.                     *)
EXTENDS GitTree

CONSTANTS
  Requests,
  Matches   \* [Paths -> SUBSET Paths]: what git takes a name after -- for, a
            \* pathspec with wildcards and directories, of the name as cleaned

VARIABLE req

vars == <<tree, req>>

Ops == {"stage", "unstage", "discard", "commit", "pull", "remote"}
Idle == [stage |-> "idle", op |-> "remote", paths |-> {}, all |-> FALSE, found |-> FALSE]

Request == [stage: {"idle", "asked", "checked", "cleaning", "done", "failed"}, op: Ops,
            paths: SUBSET Paths, all: BOOLEAN, found: BOOLEAN]

RequestsOK == req \in [Requests -> Request]

TypeOK == TreeTypeOK /\ RequestsOK

Init == TreeInit /\ req = [r \in Requests |-> Idle]

ActionsAssumption == Matches \in [Paths -> SUBSET Paths]

-----------------------------------------------------------------------------
At(r, stage, op) == req[r].stage = stage /\ req[r].op = op
Goes(r, stage) == req' = [req EXCEPT ![r].stage = stage]
Checked(r, found) == req' = [req EXCEPT ![r].stage = "checked", ![r].found = found]

\* A command that is killed at its time limit may have done its work.
Ends(r) == Goes(r, "done") \/ Goes(r, "failed")

\* The paths a request is about: all, or those its pathspecs match.
Reached(r) == IF req[r].all THEN Paths ELSE UNION {Matches[p] : p \in req[r].paths}

\* A command that git refuses, that cannot be run or that times out before it
\* has done anything: the request fails with its message.
Fails(r) ==
  /\ req[r].stage \in {"asked", "checked", "cleaning"}
  /\ Goes(r, "failed") /\ UNCHANGED tree

\* parse_git_action_form, parse_public_git_action_payload: an action and the
\* paths it names, one for a file, at least one for a selection.
Ask(r, op, paths, all) ==
  /\ req[r].stage = "idle"
  /\ CASE op \in {"stage", "unstage"} -> paths # {} /\ (all => paths = Paths)
       [] op = "discard" -> IF all THEN paths = Paths ELSE Cardinality(paths) = 1
       [] OTHER -> paths = {} /\ ~all
  /\ req' = [req EXCEPT ![r] = [stage |-> "asked", op |-> op, paths |-> paths, all |-> all,
                                found |-> FALSE]]
  /\ UNCHANGED tree

\* git add refuses a pathspec that matches nothing.
Stage(r) ==
  /\ At(r, "asked", "stage")
  /\ ~req[r].all => \A p \in req[r].paths : \E q \in Matches[p] : {work[q], index[q]} # {Absent}
  /\ Add(Reached(r)) /\ Ends(r)

\* unstage_all, unstage_file, unstage_files: is there a HEAD?  Any failure
\* of the command counts as no.
CheckHead(r) ==
  /\ At(r, "asked", "unstage")
  /\ Checked(r, born) \/ Checked(r, FALSE)
  /\ UNCHANGED tree

\* Mutant of Unstage: what is unstaged is forgotten, HEAD or not.
UnstageCached(r) ==
  /\ At(r, "checked", "unstage") /\ RmCached(Reached(r)) /\ Ends(r)

Unstage(r) ==
  /\ At(r, "checked", "unstage")
  /\ IF req[r].found THEN Reset(Reached(r)) ELSE RmCached(Reached(r))
  /\ Ends(r)

\* discard_unstaged_file: does it match something untracked?
\* discard_unstaged_all: are there tracked files that have changed?
CheckDiscard(r) ==
  /\ At(r, "asked", "discard")
  /\ Checked(r, IF req[r].all THEN \E p \in Paths : index[p] # Absent /\ work[p] # index[p]
                ELSE \E p \in Reached(r) : Untracked(p))
  /\ UNCHANGED tree

DiscardFile(r) ==
  /\ At(r, "checked", "discard") /\ ~req[r].all
  /\ IF req[r].found THEN Clean(Reached(r)) ELSE Restore(Reached(r))
  /\ Ends(r)

\* First the tracked files, if there were any, then the others.
DiscardAll(r) ==
  /\ At(r, "checked", "discard") /\ req[r].all
  /\ IF req[r].found THEN Restore(Paths) ELSE UNCHANGED tree
  /\ Goes(r, "cleaning")

DiscardRest(r) == At(r, "cleaning", "discard") /\ Clean(Paths) /\ Ends(r)

\* A command that changes files and is killed half-way has changed some.
DiscardCut(r) ==
  /\ At(r, "checked", "discard") \/ At(r, "cleaning", "discard")
  /\ \E some \in SUBSET Reached(r) :
       IF req[r].stage = "cleaning" \/ (req[r].found /\ ~req[r].all) THEN Clean(some)
       ELSE req[r].found = req[r].all /\ Restore(some)
  /\ Goes(r, "failed")

CommitIndex(r) == At(r, "asked", "commit") /\ Commit /\ Ends(r)

PullHead(r) ==
  /\ At(r, "asked", "pull")
  /\ UNCHANGED tree \/ \E p \in Paths, version \in Content : Pull(p, version)
  /\ Ends(r)

\* fetch, push: the tree stays.
Remote(r) == At(r, "asked", "remote") /\ UNCHANGED tree /\ Goes(r, "done")

\* The response says how it went, and shows the tree as it is then.
Respond(r) ==
  /\ req[r].stage \in {"done", "failed"}
  /\ req' = [req EXCEPT ![r] = Idle] /\ UNCHANGED tree

Next ==
  \/ \E r \in Requests :
       \/ \E op \in Ops, paths \in SUBSET Paths, all \in BOOLEAN : Ask(r, op, paths, all)
       \/ Fails(r) \/ Stage(r) \/ CheckHead(r) \/ Unstage(r) \/ CheckDiscard(r)
       \/ DiscardFile(r) \/ DiscardAll(r) \/ DiscardRest(r) \/ DiscardCut(r) \/ CommitIndex(r)
       \/ PullHead(r) \/ Remote(r) \/ Respond(r)
  \/ Elsewhere /\ UNCHANGED req

Spec == Init /\ [][Next]_vars

-----------------------------------------------------------------------------
\* What a step of a request may do, however old the answers it rests on are:
\* only a discard or a pull changes files, a discard leaves the index and the
\* commits and turns a file into what is staged, or removes one that git does
\* not track, and nothing happens to paths that the pathspecs do not match: to
\* no other file where a name matches itself only, and to more than the file
\* on the page where it reads as a pattern.
SparedBy(r) ==
  /\ req[r].op \in {"stage", "unstage", "commit"} => work' = work
  /\ req[r].op = "discard" =>
       /\ index' = index /\ head' = head
       /\ \A p \in Paths : work'[p] # work[p] =>
            work'[p] = index[p] \/ (Untracked(p) /\ work'[p] = Absent)
  /\ req[r].paths # {} =>
       \A p \in Paths \ Reached(r) : index'[p] = index[p] /\ work'[p] = work[p]

StepsSpare == \A r \in Requests : req'[r] # req[r] => SparedBy(r)

\* What an unstage that succeeds is about is in the index as it is in HEAD,
\* unless the request was told that there is none.
UnstagedBy(r) ==
  At(r, "checked", "unstage") /\ req'[r].stage = "done" /\ (req[r].found \/ ~born) =>
    \A p \in Reached(r) : index'[p] = head[p]

UnstagedAsCommitted == \A r \in Requests : UnstagedBy(r)

\* What these rest on: a tree without a commit has nothing in HEAD, who
\* discards all names all, and who pulls names none.
UnbornEmpty == ~born => \A p \in Paths : head[p] = Absent
Named(q) ==
  /\ q.op = "discard" /\ q.all => q.paths = Paths
  /\ q.stage = "cleaning" => q.all
  /\ q.op = "pull" => q.paths = {}

NamesFit == \A r \in Requests : Named(req[r])

ActionsInv == TypeOK /\ UnbornEmpty /\ NamesFit

=============================================================================
