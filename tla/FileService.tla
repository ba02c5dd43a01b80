----------------------------- MODULE FileService ----------------------------
(***************************************************************************)
(* The files of a project in the browser (project_files.rs): directories   *)
(* are listed, files read into the editor and saved.  A project has files, *)
(* directories with one file each, and links; meanwhile others work in it. *)
(***************************************************************************)
EXTENDS Naturals

CONSTANTS
  Names,       \* what the project directory may hold
  Outside,     \* where links out of the project lead
  Texts,       \* contents the editor takes
  Blank,       \* the one that is empty
  Blob,        \* contents that are not text, or too long for the editor
  Absent,
  MaxChanges   \* bound on the changes by others

VARIABLES
  node,     \* each name: a file, a directory, a link or nothing
  text,     \* the file of that name, or the one in the directory of that name
  request,  \* what the browser is waiting for
  changes,
  astray,   \* history: the path has led elsewhere since it was resolved
  had       \* history: what it has led to since the request

disk == <<node, text>>
vars == <<disk, request, changes, astray, had>>

Nothing == [kind |-> "absent", to |-> Absent]
File == [kind |-> "file", to |-> Absent]
Directory == [kind |-> "directory", to |-> Absent]
Link(to) == [kind |-> "link", to |-> to]
Nodes == {Nothing, File, Directory} \cup {Link(to) : to \in Names \cup {Outside}}

Contents == Texts \cup {Blank, Blob}

\* A path names something in the project directory, or the file in it.
Paths == [name: Names, inner: BOOLEAN]
Root == [name |-> Absent, inner |-> FALSE]
Idle == [stage |-> "idle", op |-> "read", path |-> Root, place |-> Root, kept |-> FALSE,
         content |-> Absent, answer |-> "none", entries |-> {}]

\* The names of the model stand for different things.
FilesAssumption ==
  /\ {Absent, Directory} \cap (Names \cup Contents) = {} /\ Outside \notin Names \cup {Absent}
  /\ {Outside, Absent} \cap (Paths \cup {Root}) = {}
  /\ MaxChanges \in Nat

\* kept: nobody else has touched what was listed, or opened to be written.
Request ==
  [stage: {"idle", "asked", "resolved", "opened", "emptied", "done"}, op: {"read", "write"},
   path: Paths \cup {Root}, place: Paths \cup {Root}, kept: BOOLEAN,
   content: Contents \cup {Absent},
   answer: {"none", "directory", "text", "other", "saved", "refused"},
   entries: SUBSET [name: Names, path: Paths, kind: {"directory", "file"}]]

DiskOK == node \in [Names -> Nodes] /\ text \in [Names -> Contents \cup {Absent}]
RequestOK == request \in Request
TypeOK ==
  /\ DiskOK /\ RequestOK /\ changes \in 0..MaxChanges /\ astray \in BOOLEAN
  /\ had \subseteq Contents \cup {Absent, Directory}

Init ==
  /\ node = [n \in Names |-> Nothing] /\ text = [n \in Names |-> Absent]
  /\ request = Idle /\ changes = 0 /\ astray = FALSE /\ had = {}

-----------------------------------------------------------------------------
(* What the file system makes of a path.                                    *)
Onward(n) == node[n].kind = "link" /\ node[n].to # Outside

\* The names that are passed from one on, link by link.
Trail(name) ==
  {m \in Names : \A names \in SUBSET Names :
     name \in names /\ (\A n \in names : Onward(n) => node[n].to \in names) => m \in names}

\* Where the links end, if they do not go round in a circle.
Ends(name) == {m \in Trail(name) : ~Onward(m)}
End(name) == CHOOSE m \in Ends(name) : TRUE

\* fs::canonicalize: Root, a path without links, Outside, or Absent.
Resolved(name) ==
  IF Ends(name) = {} THEN Absent
  ELSE CASE node[End(name)].kind = "link" -> Outside
         [] node[End(name)].kind = "absent" -> Absent
         [] OTHER -> End(name)

Canonical(path) ==
  IF path = Root THEN Root
  ELSE LET name == Resolved(path.name)
       IN IF name \in {Outside, Absent} THEN name
          ELSE IF ~path.inner THEN [path EXCEPT !.name = name]
          ELSE IF node[name].kind = "directory" /\ text[name] # Absent
          THEN [path EXCEPT !.name = name] ELSE Absent

IsDirectory(path) ==
  IF path = Root THEN TRUE ELSE ~path.inner /\ node[path.name].kind = "directory"
IsFile(path) ==
  /\ path # Root
  /\ node[path.name].kind = IF path.inner THEN "directory" ELSE "file"
  /\ text[path.name] # Absent

\* The contents that a read through a path may find.
Found(path) ==
  LET place == Canonical(path)
  IN CASE place = Outside -> Contents
       [] place = Absent -> {}
       [] OTHER -> IF IsFile(place) THEN {text[place.name]} ELSE {}

\* Where a file is opened to be written, or made if it is not there.
Target(path) ==
  IF Ends(path.name) = {} THEN Absent
  ELSE LET end == End(path.name)
       IN CASE node[end].kind = "link" -> Outside
            [] node[end].kind \in (IF path.inner THEN {"directory"} ELSE {"file", "absent"}) ->
                 [path EXCEPT !.name = end]
            [] OTHER -> Absent

-----------------------------------------------------------------------------
Becomes(value) == request' = value /\ UNCHANGED <<disk, changes, astray, had>>
Answers(answer) == Becomes([request EXCEPT !.stage = "done", !.answer = answer])
At(op, stage) == request.op = op /\ request.stage = stage

\* What a path leads to in the project, for the history.
Sight(path) ==
  LET place == Canonical(path)
  IN IF place \in {Outside, Absent} THEN Absent
     ELSE IF IsFile(place) THEN text[place.name] ELSE Directory

Ask(op, path, content) ==
  /\ request.stage = "idle"
  /\ op = "write" <=> content # Absent
  /\ op = "write" => path # Root
  /\ request' = [Idle EXCEPT !.stage = "asked", !.op = op, !.path = path, !.content = content]
  /\ astray' = FALSE /\ had' = {Sight(path)} /\ UNCHANGED <<disk, changes>>

\* Mutant of Resolve: what lies outside the project is not refused.
ResolveAnywhere ==
  /\ request.stage = "asked"
  /\ LET place == Canonical(request.path)
     IN IF place = Absent THEN Answers("refused")
        ELSE Becomes([request EXCEPT !.stage = "resolved",
               !.place = IF place = Outside THEN request.path ELSE place])

\* resolve_project_target
Resolve ==
  /\ request.stage = "asked"
  /\ LET place == Canonical(request.path)
     IN IF place \in {Outside, Absent} THEN Answers("refused")
        ELSE Becomes([request EXCEPT !.stage = "resolved", !.place = place])

\* Mutant of Entry: the path of an entry is its name.
EntryByName(name) ==
  [name |-> name, path |-> [name |-> name, inner |-> FALSE],
   kind |-> IF node[name].kind = "directory" THEN "directory" ELSE "file"]

\* An entry has the path of what it leads to, but its own kind.
Entry(name) ==
  [name |-> name, path |-> [name |-> Resolved(name), inner |-> FALSE],
   kind |-> IF node[name].kind = "directory" THEN "directory" ELSE "file"]

\* read_directory: what leads out of the project, or nowhere, is left out.  (The
\* entries of an inner directory are not told apart.)
List ==
  /\ At("read", "resolved")
  /\ LET place == Canonical(request.place)
     IN CASE place = Outside -> TRUE [] place = Absent -> FALSE [] OTHER -> IsDirectory(place)
  /\ Becomes([request EXCEPT !.stage = "done", !.answer = "directory", !.kept = TRUE,
       !.entries = IF request.place # Root THEN {}
                   ELSE {Entry(n) : n \in {m \in Names : Resolved(m) \notin {Outside, Absent}}}])

\* The size of a file decides whether it is read for the editor ...
Open ==
  /\ At("read", "resolved")
  /\ IF Canonical(request.place) = Absent THEN Answers("refused")
     ELSE \E content \in Found(request.place) :
            \/ Becomes([request EXCEPT !.stage = "opened"])
            \/ content = Blob /\ Answers("other")

\* ... and then its contents are read, and those at HEAD (GitReports).
Read ==
  /\ At("read", "opened")
  /\ IF Found(request.place) = {} THEN Answers("refused")
     ELSE \E content \in Found(request.place) :
            Becomes([request EXCEPT !.stage = "done", !.content = content,
                       !.answer = IF content = Blob THEN "other" ELSE "text"])

\* ProjectFileService::write: only existing files can be edited, ...
Save ==
  /\ At("write", "resolved")
  /\ \/ /\ request.content # Blob /\ Found(request.place) # {}
        /\ Becomes([request EXCEPT !.stage = "opened"])
     \/ /\ \/ request.content = Blob \/ Found(request.place) = {}
           \/ Canonical(request.place) = Outside
        /\ Answers("refused")

\* ... but fs::write follows what the place has become, and makes the file
\* again if it has gone meanwhile.  It empties the file ...
Empty ==
  /\ At("write", "opened")
  /\ LET target == Target(request.place)
     IN CASE target = Absent -> Answers("refused")
          [] target = Outside -> Becomes([request EXCEPT !.stage = "emptied", !.place = Root])
          [] OTHER ->
               /\ text' = [text EXCEPT ![target.name] = Blank]
               /\ node' = [node EXCEPT ![target.name] = IF target.inner THEN @ ELSE File]
               /\ request' = [request EXCEPT !.stage = "emptied", !.place = target, !.kept = TRUE]
               /\ UNCHANGED <<changes, astray, had>>

\* ... and then writes it, unless what was opened is not what is there by now.
Write ==
  /\ At("write", "emptied")
  /\ \E content \in IF request.kept THEN {request.content} ELSE Contents \cup {Absent} :
       text' = IF content # Absent /\ IsFile(request.place)
               THEN [text EXCEPT ![request.place.name] = content] ELSE text
  /\ request' = [request EXCEPT !.stage = "done", !.answer = "saved"]
  /\ UNCHANGED <<node, changes, astray, had>>

\* The disk is full, or the file cannot be opened: it is as it was, or empty.
WriteFails ==
  /\ At("write", "opened") \/ At("write", "emptied")
  /\ Answers("refused")

Done == request.stage = "done" /\ Becomes(Idle)

\* Somebody else makes, changes or removes something.
Change(name, new, content) ==
  /\ changes < MaxChanges
  /\ new.kind \in {"absent", "link"} => content = Absent
  /\ new.kind = "file" => content # Absent
  /\ node' = [node EXCEPT ![name] = new] /\ text' = [text EXCEPT ![name] = content]
  /\ changes' = changes + 1
  /\ request' = [request EXCEPT !.kept = @ /\ request.place # Root /\ request.place.name # name]
  /\ had' = IF request.stage = "idle" THEN had ELSE had \cup {Sight(request.path)'}
  /\ astray' = (astray \/ (/\ \/ request.stage \in {"resolved", "opened", "emptied"}
                              \/ request.answer = "saved"
                           /\ Canonical(request.path)' # request.place))

Next ==
  \/ \E op \in {"read", "write"}, path \in Paths \cup {Root},
        content \in Contents \cup {Absent} : Ask(op, path, content)
  \/ Resolve \/ List \/ Open \/ Read \/ Save \/ Empty \/ Write \/ WriteFails \/ Done
  \/ \E name \in Names, new \in Nodes, content \in Contents \cup {Absent} :
       Change(name, new, content)

Spec == Init /\ [][Next]_vars

-----------------------------------------------------------------------------
Shows(answer) == request.stage = "done" /\ request.answer = answer

\* An entry of a listing leads, by the path it is shown with, to something in
\* the project that is what its name leads to; nothing there is left out.
ListingOpens ==
  Shows("directory") /\ request.place = Root /\ request.kept =>
    /\ \A e \in request.entries : Canonical(e.path) = e.path /\ Resolved(e.name) = e.path.name
    /\ \A n \in Names : node[n].kind \in {"file", "directory"} => \E e \in request.entries : e.name = n

\* Whatever others do meanwhile: the editor shows contents that the file in
\* the project has had since it was asked for, and is told that there is none
\* only if there was none, or a directory for a while; only a path that is
\* redirected between its check and its use escapes that.  What was saved is
\* there until somebody touches it after it was opened, and it is what the path
\* leads to unless that changed.
EditorFaithful ==
  /\ Shows("text") => request.content \in had \/ astray
  /\ Shows("refused") /\ request.op = "read" =>
       Absent \in had \/ (Directory \in had /\ had # {Directory}) \/ astray
  /\ Shows("saved") =>
       /\ request.kept => text[request.place.name] = request.content
       /\ Canonical(request.path) = request.place \/ astray

\* What these properties rest on: a file has contents, ...
FilesHold == \A n \in Names : node[n].kind = "file" => text[n] # Absent

\* ... a request goes through the stages of its operation, ...
StagesFit ==
  /\ request.op = "write" => request.content # Absent /\ request.path # Root
  /\ request.stage = "emptied" => request.op = "write"
  /\ request.stage = "opened" => request.place # Root
  /\ request.stage \in {"asked", "resolved", "opened"} => ~request.kept /\ request.answer = "none"
  /\ request.stage = "emptied" => request.answer = "none"

\* ... what was opened to be written is a file until somebody touches it, ...
OpenedHolds ==
  request.op = "write" /\ request.kept => request.place # Root /\ IsFile(request.place)

\* ... and unless the path is redirected, the place found for it is where it
\* leads, and what it leads to is among what it has led to.
PlaceHolds ==
  /\ request.op = "read" /\ request.stage # "idle" => Sight(request.path) \in had
  /\ request.op = "read" /\ request.stage = "opened" => had \cap Contents # {} \/ astray
  /\ ~astray /\ request.stage \in {"resolved", "opened", "emptied"} =>
       Canonical(request.path) = request.place

FilesInv ==
  TypeOK /\ FilesHold /\ StagesFit /\ OpenedHolds /\ PlaceHolds /\ ListingOpens /\ EditorFaithful

=============================================================================
