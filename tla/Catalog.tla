------------------------------ MODULE Catalog ------------------------------
(* The catalog store: projects, their deployments and share links as rows   *)
(* of SQLite, page content as files named by the hash of their bytes.  A    *)
(* row changes in a transaction, a file outside of it, so a request is a    *)
(* sequence of steps between which another request may run.  A content is   *)
(* its own hash and path.                                                   *)
EXTENDS Naturals, FiniteSets

CONSTANTS Projects, Names, Contents, Tokens, Writers,
          Absent,       \* no such row
          Site,         \* the target of a proxy or static deployment
          MaxRequests   \* bound on the requests of a behaviour

VARIABLES
  project,     \* [Projects -> {"absent", "enabled"}]
  row,         \* [Projects \X Names -> Absent or the target of a deployment]
  share,       \* [Tokens -> Absent or the key of a deployment]
  file,        \* the content files on disk
  writer,      \* [Writers -> the request in flight]
  requests,    \* how many requests began
  overlapped,  \* history: two requests were in flight at once
  leaked       \* history: content whose last row went, or whose request ended, without a prune

vars == <<project, row, share, file, writer, requests, overlapped, leaked>>

Keys == Projects \X Names
Targets == Contents \cup {Site}
Ops == {"page", "site", "create", "drop", "replace", "drop_project", "share"}
Stages == {"idle", "check", "old", "write", "commit", "prune", "remove"}
Idle == [op |-> "page", stage |-> "idle", key |-> CHOOSE k \in Keys : TRUE,
         content |-> Site, old |-> {}]
Request == [op : Ops, stage : Stages, key : Keys,
            content : Targets, old : SUBSET Contents]

CatalogAssumption ==
  /\ Keys # {} /\ Site \notin Contents
  /\ Absent \notin Targets \cup Keys
  /\ MaxRequests \in Nat

TablesOK ==
  /\ project \in [Projects -> {"absent", "enabled"}]
  /\ row \in [Keys -> Targets \cup {Absent}]
  /\ share \in [Tokens -> Keys \cup {Absent}]

FilesOK == file \subseteq Contents /\ leaked \subseteq Contents

RequestsOK ==
  /\ writer \in [Writers -> Request]
  /\ requests \in 0..MaxRequests
  /\ overlapped \in BOOLEAN

TypeOK == TablesOK /\ FilesOK /\ RequestsOK

Init ==
  /\ project = [p \in Projects |-> "absent"]
  /\ row = [k \in Keys |-> Absent]
  /\ share = [t \in Tokens |-> Absent]
  /\ file = {}
  /\ writer = [w \in Writers |-> Idle]
  /\ requests = 0
  /\ overlapped = FALSE
  /\ leaked = {}

ContentsOf(keys) == {row[k] : k \in keys} \ {Site, Absent}
Referenced == ContentsOf(Keys)
KeysOf(p) == {k \in Keys : k[1] = p}
Busy == {w \in Writers : writer[w].stage # "idle"}

(* What the rows become when the rows of `gone` are deleted: the foreign    *)
(* keys take the share links of a deleted deployment along.                 *)
Cascade(gone) ==
  /\ row' = [k \in Keys |-> IF k \in gone THEN Absent ELSE row[k]]
  /\ share' = [t \in Tokens |-> IF share[t] \in gone THEN Absent ELSE share[t]]

Finish(w) == writer' = [writer EXCEPT ![w] = Idle]
Enter(w, stage) == writer' = [writer EXCEPT ![w].stage = stage]

-----------------------------------------------------------------------------
(* A request arrives.  Deletions and a project's replacement read content   *)
(* paths first, everything else looks for the project or the deployment.    *)
FirstStage(op) == IF op \in {"drop", "replace", "drop_project"} THEN "old" ELSE "check"
Begin(w, op, key, content) ==
  /\ writer[w].stage = "idle"
  /\ requests < MaxRequests
  /\ writer' = [writer EXCEPT ![w] = [op |-> op, stage |-> FirstStage(op), key |-> key,
                                      content |-> content, old |-> {}]]
  /\ requests' = requests + 1
  /\ overlapped' = (overlapped \/ Busy # {})
  /\ UNCHANGED <<project, row, share, file, leaked>>

UpsertPage(w, key, content) == Begin(w, "page", key, content)
ReplaceDeployment(w, key) == Begin(w, "site", key, Site)
CreateDeployment(w, key) == Begin(w, "create", key, Site)
DeleteDeployment(w, key) == Begin(w, "drop", key, Site)
ReplaceProject(w, key) == Begin(w, "replace", key, Site)
DeleteProject(w, key) == Begin(w, "drop_project", key, Site)
CreateShare(w, key) == Begin(w, "share", key, Site)

(* get_project and get_deployment: without them the request is refused.     *)
Check(w) ==
  LET r == writer[w]
      found == CASE r.op = "share"  -> row[r.key] # Absent
                 [] r.op = "create" -> project[r.key[1]] # "absent" /\ row[r.key] = Absent
                 [] OTHER           -> project[r.key[1]] # "absent"
  IN /\ r.stage = "check"
     /\ IF ~found THEN Finish(w) ELSE Enter(w, IF r.op = "share" THEN "commit" ELSE "old")
     /\ UNCHANGED <<project, row, share, file, requests, overlapped, leaked>>

(* Mutant of ReadOld: a project's replacement looks at one deployment only. *)
ReadOldOfOne(w) ==
  /\ writer[w].stage = "old"
  /\ writer' = [writer EXCEPT ![w].old = ContentsOf({writer[w].key}),
                               ![w].stage = IF writer[w].op = "page" THEN "write" ELSE "commit"]
  /\ UNCHANGED <<project, row, share, file, requests, overlapped, leaked>>

(* deployment_content_paths or project_content_paths.                       *)
Scope(r) == IF r.op \in {"replace", "drop_project"} THEN KeysOf(r.key[1]) ELSE {r.key}
ReadOld(w) ==
  LET r == writer[w]
  IN /\ r.stage = "old"
     /\ writer' = [writer EXCEPT ![w].old = ContentsOf(Scope(r)),
                                 ![w].stage = IF r.op = "page" THEN "write" ELSE "commit"]
     /\ UNCHANGED <<project, row, share, file, requests, overlapped, leaked>>

(* A file already there is kept, else a temporary one is renamed into       *)
(* place: in both cases the file is there when the call returns.            *)
WriteContentFile(w) ==
  /\ writer[w].stage = "write"
  /\ file' = file \cup {writer[w].content}
  /\ Enter(w, "commit")
  /\ UNCHANGED <<project, row, share, requests, overlapped, leaked>>

-----------------------------------------------------------------------------
(* The transaction.  An insert whose parent row is gone fails on its        *)
(* foreign key; the request ends there, and a page's file stays behind.     *)
InsertDeployment(w) ==
  LET r == writer[w]
  IN /\ r.stage = "commit"
     /\ r.op \in {"page", "site", "create"}
     /\ IF project[r.key[1]] = "absent"
        THEN /\ Finish(w)
             /\ leaked' = leaked \cup ({r.content} \ {Site})
             /\ row' = row
        ELSE /\ row' = [row EXCEPT ![r.key] = r.content]
             /\ Enter(w, "prune")
             /\ leaked' = leaked
     /\ UNCHANGED <<project, share, file, requests, overlapped>>

(* Mutant of InsertShare: no foreign key.                                   *)
InsertShareUnchecked(w, t) ==
  /\ writer[w].stage = "commit"
  /\ writer[w].op = "share"
  /\ share[t] = Absent
  /\ share' = [share EXCEPT ![t] = writer[w].key]
  /\ Finish(w)
  /\ UNCHANGED <<project, row, file, requests, overlapped, leaked>>

InsertShare(w, t) ==
  /\ writer[w].stage = "commit"
  /\ writer[w].op = "share"
  /\ share[t] = Absent
  /\ share' = IF row[writer[w].key] # Absent THEN [share EXCEPT ![t] = writer[w].key] ELSE share
  /\ Finish(w)
  /\ UNCHANGED <<project, row, file, requests, overlapped, leaked>>

RemoveDeployment(w) ==
  LET r == writer[w]
  IN /\ r.stage = "commit"
     /\ r.op = "drop"
     /\ Cascade({r.key})
     /\ IF row[r.key] = Absent THEN Finish(w) ELSE Enter(w, "prune")
     /\ UNCHANGED <<project, file, requests, overlapped, leaked>>

RemoveProject(w) ==
  LET r == writer[w]
      p == r.key[1]
  IN /\ r.stage = "commit"
     /\ r.op = "drop_project"
     /\ project' = [project EXCEPT ![p] = "absent"]
     /\ Cascade(KeysOf(p))
     /\ IF project[p] = "absent" THEN Finish(w) ELSE Enter(w, "prune")
     /\ UNCHANGED <<file, requests, overlapped, leaked>>

(* Delete and insert in one transaction: what the body does not list is     *)
(* gone, and so are the share links of what it does list.                   *)
RewriteProject(w, listed) ==
  LET r == writer[w]
      p == r.key[1]
  IN /\ r.stage = "commit"
     /\ r.op = "replace"
     /\ project' = [project EXCEPT ![p] = "enabled"]
     /\ row' = [k \in Keys |-> CASE k[1] # p -> row[k]
                                 [] k[1] = p /\ k[2] \in listed -> Site
                                 [] OTHER -> Absent]
     /\ share' = [t \in Tokens |-> IF share[t] \in KeysOf(p) THEN Absent ELSE share[t]]
     /\ Enter(w, "prune")
     /\ UNCHANGED <<file, requests, overlapped, leaked>>

-----------------------------------------------------------------------------
(* Mutant of CountReferences: the count is dropped.                         *)
CountNothing(w) ==
  /\ writer[w].stage = "prune"
  /\ IF writer[w].old = {} THEN Finish(w)
     ELSE LET path == CHOOSE c \in writer[w].old : TRUE
          IN writer' = [writer EXCEPT ![w].content = path, ![w].stage = "remove"]
  /\ UNCHANGED <<project, row, share, file, requests, overlapped, leaked>>

(* prune_content_paths: a count in the database, then the removal.          *)
CountReferences(w) ==
  LET r == writer[w]
  IN /\ r.stage = "prune"
     /\ IF r.old = {} THEN Finish(w)
        ELSE LET path == CHOOSE c \in r.old : TRUE
             IN writer' = [writer EXCEPT ![w] =
                  IF path \in Referenced THEN [r EXCEPT !.old = r.old \ {path}]
                                         ELSE [r EXCEPT !.content = path, !.stage = "remove"]]
     /\ UNCHANGED <<project, row, share, file, requests, overlapped, leaked>>

RemoveFile(w) ==
  /\ writer[w].stage = "remove"
  /\ file' = file \ {writer[w].content}
  /\ writer' = [writer EXCEPT ![w].old = @ \ {writer[w].content}, ![w].stage = "prune"]
  /\ UNCHANGED <<project, row, share, requests, overlapped, leaked>>

(* The file cannot be removed: the request ends with an error.              *)
RemoveFails(w) ==
  /\ writer[w].stage = "remove"
  /\ Finish(w)
  /\ leaked' = leaked \cup writer[w].old
  /\ UNCHANGED <<project, row, share, file, requests, overlapped>>

(* The process ends: committed rows and renamed files stay, requests do not.*)
Crash ==
  /\ Busy # {}
  /\ writer' = [w \in Writers |-> Idle]
  /\ leaked' = leaked \cup UNION {writer[w].old \cup ({writer[w].content} \ {Site}) : w \in Busy}
  /\ UNCHANGED <<project, row, share, file, requests, overlapped>>

-----------------------------------------------------------------------------
(* Requests of one statement.                                               *)
CreateProject(p) ==
  /\ project[p] = "absent"
  /\ project' = [project EXCEPT ![p] = "enabled"]
  /\ UNCHANGED <<row, share, file, writer, requests, overlapped, leaked>>

DeleteShare(t) ==
  /\ share[t] # Absent
  /\ share' = [share EXCEPT ![t] = Absent]
  /\ UNCHANGED <<project, row, file, writer, requests, overlapped, leaked>>

(* The page's dialog revokes only a link of its own deployment; nothing     *)
(* gives a token to another deployment between the look and the deletion.   *)
RevokeShare(k, t) == share[t] = k /\ DeleteShare(t)

(* Reconciliation drops the project of a worktree that is gone, in its own  *)
(* transaction and without a prune.                                         *)
DropStaleWorktree(p) ==
  /\ project[p] # "absent"
  /\ project' = [project EXCEPT ![p] = "absent"]
  /\ Cascade(KeysOf(p))
  /\ leaked' = leaked \cup ContentsOf(KeysOf(p))
  /\ UNCHANGED <<file, writer, requests, overlapped>>

Step(w) ==
  \/ Check(w) \/ ReadOld(w) \/ WriteContentFile(w)
  \/ InsertDeployment(w) \/ RemoveDeployment(w) \/ RemoveProject(w)
  \/ \E t \in Tokens : InsertShare(w, t)
  \/ \E listed \in SUBSET Names : RewriteProject(w, listed)
  \/ CountReferences(w) \/ RemoveFile(w) \/ RemoveFails(w)

Next ==
  \/ \E w \in Writers, k \in Keys :
       \/ \E c \in Contents : UpsertPage(w, k, c)
       \/ ReplaceDeployment(w, k) \/ CreateDeployment(w, k) \/ DeleteDeployment(w, k)
       \/ ReplaceProject(w, k) \/ DeleteProject(w, k) \/ CreateShare(w, k)
  \/ \E w \in Writers : Step(w)
  \/ \E p \in Projects : CreateProject(p) \/ DropStaleWorktree(p)
  \/ \E t \in Tokens : DeleteShare(t) \/ \E k \in Keys : RevokeShare(k, t)
  \/ Crash

Spec == Init /\ [][Next]_vars

-----------------------------------------------------------------------------
(* Foreign keys: a share link always leads to a deployment and a deployment *)
(* to a project, although both are looked up some awaits before the insert. *)
ReferencesHold ==
  /\ \A t \in Tokens : share[t] # Absent => row[share[t]] # Absent
  /\ \A k \in Keys : row[k] # Absent => project[k[1]] # "absent"

(* As long as requests ran one after another, every page has its content    *)
(* file, though deployments share files and each request prunes the files   *)
(* it replaced.  The worktree reconciliation may run at any time.           *)
SerialPagesReadable == ~overlapped => Referenced \subseteq file

(* ... and when none is in flight no file is left that no page refers to,   *)
(* except for content that reconciliation, a crash or a failure left.       *)
SerialStoreClean == ~overlapped /\ Busy = {} => file \subseteq Referenced \cup leaked

(* "Prunes unreferenced content files": the file of a page that is stored   *)
(* is never removed, whatever other requests do.                            *)
PageContentKept == Referenced \subseteq file

(* What these rest on: only a page has content of its own, ...              *)
Fits(r) ==
  /\ r.stage = "write" => r.op = "page"
  /\ r.stage \in {"check", "old", "write", "commit"} => (r.content = Site <=> r.op # "page")
  /\ r.stage \in {"prune", "remove"} => r.op # "share"
  /\ r.stage = "remove" => r.content # Site

(* ... and while requests run one after another, the one in flight has seen *)
(* all contents that its rows have, prunes none that a row has, and knows   *)
(* every file that no row has.                                              *)
Left(r) == IF r.stage = "commit" /\ r.op = "page" THEN {r.content}
           ELSE IF r.stage \in {"prune", "remove"} THEN r.old ELSE {}

Alone(r) ==
  /\ r.stage = "commit" /\ r.op = "page" => r.content \in file
  /\ r.stage = "remove" => r.content \notin Referenced /\ r.content \in r.old
  /\ r.stage \in {"write", "commit"} /\ r.op # "share" => ContentsOf(Scope(r)) \subseteq r.old
  /\ file \subseteq Referenced \cup leaked \cup Left(r)

InTurn ==
  /\ \A w \in Writers : Fits(writer[w])
  /\ ~overlapped => /\ \A v, w \in Busy : v = w
                    /\ \A w \in Busy : Alone(writer[w])

StoreInv == TypeOK /\ ReferencesHold /\ SerialPagesReadable /\ SerialStoreClean /\ InTurn

=============================================================================
