---------------------------- MODULE StaticServing ---------------------------
(* A deployment answers one request: a proxied upstream, a stored page, or  *)
(* files that change while they are looked up, measured and read.  Bytes    *)
(* are positions in a file.                                                 *)
EXTENDS Integers, FiniteSets, FiniteSetsExt

CONSTANT MaxLength  \* bound on the length of a file

VARIABLES
  tree,     \* the file of each name: "path" under the root, its "nested"
            \* index file if it is a directory, the root's "index" file
  ask,      \* the request
  answer,   \* what it has come to
  steady    \* history: the tree is as it was when the request came

vars == <<tree, ask, answer, steady>>

Lengths == 0..MaxLength
File == [kind : {"file"}, length : Lengths]
Gone == [kind |-> "absent", length |-> 0]
Directory == [kind |-> "directory", length |-> 0]
Entry == File \cup {Gone, Directory}

\* The ranges a client can ask for, in the header's three forms.
Bounds == 0..MaxLength + 1
NoRange == [form |-> "none", first |-> 0, last |-> 0]
Ranges ==
  {NoRange}
  \cup [form : {"malformed"}, first : {0}, last : {0}]
  \cup [form : {"closed"}, first : Bounds, last : Bounds]
  \cup [form : {"open"}, first : Bounds, last : {0}]
  \cup [form : {"suffix"}, first : {0}, last : Bounds]

\* A request; `wrapped` if it is for the viewer page of a binary document.
Asks == [target : {"files"}, at : {"root", "path", "bad"}, method : {"GET", "HEAD", "other"},
         spa : BOOLEAN, range : Ranges, wrapped : BOOLEAN]
        \cup [target : {"page", "proxy"}, at : {"root", "path"},
              method : {"GET", "HEAD", "other"}, spa : {FALSE}, range : {NoRange},
              wrapped : {FALSE}]

Waiting == [stage |-> "new", status |-> 0, file |-> "path", whole |-> 0,
            first |-> 0, announced |-> 0, body |-> {}]

ServingAssumption == MaxLength \in Nat \ {0}

Names == {"path", "nested", "index"}
Stages == {"idle", "new", "looked", "found", "measured", "opened", "upstream", "done"}
Statuses == {0, 200, 206, 400, 404, 405, 416, 500, 502, 504}
Answer == [stage : Stages, status : Statuses, file : Names, whole : Lengths,
           first : Lengths, announced : Lengths, body : SUBSET Lengths]

TreeOK == tree \in [Names -> Entry]
AskOK == ask \in Asks /\ steady \in BOOLEAN
AnswerOK == answer \in Answer

TypeOK == TreeOK /\ AskOK /\ AnswerOK

NoAsk == [target |-> "page", at |-> "root", method |-> "GET", spa |-> FALSE,
          range |-> NoRange, wrapped |-> FALSE]

Init ==
  /\ tree = [file \in {"path", "nested", "index"} |-> Gone]
  /\ ask = NoAsk
  /\ answer = [Waiting EXCEPT !.stage = "idle"] /\ steady = TRUE

\* A request comes to a deployment that is in some state.
Receive ==
  /\ answer.stage = "idle"
  /\ tree' \in [{"path", "nested", "index"} ->
                 {Gone, Directory, [kind |-> "file", length |-> MaxLength]}]
  /\ tree'["index"].kind # "directory" /\ tree'["nested"].kind # "directory"
  /\ ask' \in Asks
  /\ answer' = Waiting
  /\ UNCHANGED steady

To(stage) == answer' = [answer EXCEPT !.stage = stage]
Finish(status) == answer' = [answer EXCEPT !.stage = "done", !.status = status]
At(file) == IF file = "nested" /\ tree["path"].kind # "directory" THEN Gone ELSE tree[file]

-----------------------------------------------------------------------------
(* serve_static.                                                            *)
Reject ==
  /\ ask.target = "files" /\ answer.stage = "new"
  /\ \/ ask.method = "other" /\ Finish(405)
     \/ ask.method # "other" /\ ask.at = "root" /\ ask.wrapped /\ Finish(200)
     \/ ask.method # "other" /\ ask.at = "bad" /\ Finish(400)
  /\ UNCHANGED <<tree, ask, steady>>

\* The first look: a directory stands for its index file, what is missing
\* for the root's if the deployment falls back.
Look ==
  /\ ask.target = "files" /\ answer.stage = "new"
  /\ ask.method # "other" /\ ask.at # "bad"
  /\ ask.at = "root" => ~ask.wrapped
  /\ LET kind == IF ask.at = "root" THEN "directory" ELSE tree["path"].kind
         use(file) == answer' = [answer EXCEPT !.stage = "looked", !.file = file]
     IN \/ kind = "directory" /\ use(IF ask.at = "root" THEN "index" ELSE "nested")
        \/ kind = "file" /\ use("path")
        \/ kind = "absent" /\ ask.spa /\ use("index")
        \/ kind = "absent" /\ ~ask.spa /\ Finish(404)
  /\ UNCHANGED <<tree, ask, steady>>

\* Mutant of Confirm: only what is missing falls back, not a directory
\* without an index file.
ConfirmOnlyFile ==
  /\ answer.stage = "looked"
  /\ IF At(answer.file).kind = "file" THEN To("found") ELSE Finish(404)
  /\ UNCHANGED <<tree, ask, steady>>

\* The second look, which falls back once more.
Confirm ==
  /\ answer.stage = "looked"
  /\ IF At(answer.file).kind = "file" THEN To("found")
     ELSE IF ask.spa /\ At("index").kind = "file"
          THEN answer' = [answer EXCEPT !.stage = "found", !.file = "index"]
     ELSE Finish(404)
  /\ UNCHANGED <<tree, ask, steady>>

-----------------------------------------------------------------------------
(* file_response.                                                           *)

\* Mutant of Parse: the end of a range is not cut to the file.
ParseUncut(range, length) ==
  LET first == CASE range.form = "suffix" -> IF range.last > length THEN 0 ELSE length - range.last
                 [] OTHER -> range.first
      last == IF range.form = "closed" THEN range.last ELSE length - 1
  IN IF length = 0 \/ range.form = "malformed" \/ first >= length \/ last < first
     THEN {} ELSE {<<first, last>>}

\* parse_byte_range: the first and last position, or nothing.
Parse(range, length) ==
  LET first == CASE range.form = "suffix" -> IF range.last > length THEN 0 ELSE length - range.last
                 [] OTHER -> range.first
      last == IF range.form = "closed" /\ range.last < length THEN range.last ELSE length - 1
  IN IF length = 0 \/ range.form = "malformed" \/ first >= length \/ last < first
     THEN {} ELSE {<<first, last>>}

Measure ==
  LET entry == At(answer.file)
      part == Parse(ask.range, entry.length)
  IN /\ answer.stage = "found"
     /\ IF entry.kind # "file" THEN Finish(500)
        ELSE IF ask.range = NoRange
        THEN answer' = [answer EXCEPT !.stage = "measured", !.status = 200,
                                      !.whole = entry.length, !.announced = entry.length]
        ELSE IF part = {} THEN Finish(416)
        ELSE \E p \in part :
               answer' = [answer EXCEPT !.stage = "measured", !.status = 206,
                            !.whole = entry.length, !.first = p[1],
                            !.announced = p[2] - p[1] + 1]
     /\ UNCHANGED <<tree, ask, steady>>

Head ==
  /\ answer.stage = "measured" /\ ask.method = "HEAD"
  /\ To("done")
  /\ UNCHANGED <<tree, ask, steady>>

Open ==
  /\ answer.stage = "measured" /\ ask.method = "GET"
  /\ IF At(answer.file).kind = "file" THEN To("opened") ELSE Finish(500)
  /\ UNCHANGED <<tree, ask, steady>>

\* The stream takes what was announced, if the file still has it.
Stream ==
  LET length == IF At(answer.file).kind = "file" THEN At(answer.file).length ELSE answer.whole
  IN /\ answer.stage = "opened"
     /\ answer' = [answer EXCEPT !.stage = "done",
          !.body = {i \in Lengths : /\ answer.first <= i
                                    /\ i < answer.first + answer.announced
                                    /\ i < length}]
     /\ UNCHANGED <<tree, ask, steady>>

-----------------------------------------------------------------------------
(* serve_page: one document, which may be a binary one; text may not be     *)
(* text.                                                                    *)
ServePage ==
  /\ ask.target = "page" /\ answer.stage = "new"
  /\ \/ ask.method = "other" /\ Finish(405)
     \/ ask.method # "other" /\ ask.at # "root" /\ Finish(404)
     \/ ask.method # "other" /\ ask.at = "root" /\ \E status \in {200, 500} : Finish(status)
     \/ Finish(404)
  /\ UNCHANGED <<tree, ask, steady>>

\* proxy_request and proxy_http, whose upstream answers, fails or is late.
Forward ==
  /\ ask.target = "proxy" /\ answer.stage = "new"
  /\ To("upstream") \/ Finish(502)
  /\ UNCHANGED <<tree, ask, steady>>

Upstream ==
  /\ answer.stage = "upstream"
  /\ \E status \in {200, 502, 504} : Finish(status)
  /\ UNCHANGED <<tree, ask, steady>>

-----------------------------------------------------------------------------
\* A build of the site replaces files under the running server.
Change(file, entry) ==
  /\ answer.stage \notin {"idle", "done"}
  /\ tree[file] # entry
  /\ file # "path" => entry.kind # "directory"
  /\ tree' = [tree EXCEPT ![file] = entry]
  /\ steady' = FALSE
  /\ UNCHANGED <<ask, answer>>

Next ==
  \/ Receive \/ Reject \/ Look \/ Confirm \/ Measure \/ Head \/ Open \/ Stream
  \/ ServePage \/ Forward \/ Upstream
  \/ \E file \in {"path", "nested", "index"}, entry \in {Gone, Directory,
         [kind |-> "file", length |-> 1]} :
       ask.target = "files" /\ ask.at = "path" /\ Change(file, entry)

Spec == Init /\ [][Next]_vars

-----------------------------------------------------------------------------
\* The positions that a range names.
Named(range, length) ==
  {i \in 0..length - 1 :
     CASE range.form = "none" -> TRUE
       [] range.form = "closed" -> range.first <= i /\ i <= range.last
       [] range.form = "open" -> range.first <= i
       [] range.form = "suffix" -> length - i <= range.last
       [] OTHER -> FALSE}

\* The file that a request is for.
Asked ==
  IF ask.at = "path" /\ At("path").kind = "file" THEN {"path"}
  ELSE IF ask.at = "path" /\ At("nested").kind = "file" THEN {"nested"}
  ELSE IF (ask.at = "root" \/ ask.spa) /\ At("index").kind = "file" THEN {"index"}
  ELSE {}

Exchanged == answer.stage = "done" /\ answer.status \in {200, 206, 404, 416}
             /\ ask.target = "files" /\ ~(ask.at = "root" /\ ask.wrapped)

\* Whatever happens to the files, what is sent is part of what was announced,
\* which is what the range names; when nothing happens to them it is all of
\* it, of the file the request is for (http_stream.rs:56, deployment.rs:150).
RangesExact ==
  Exchanged =>
    /\ answer.status \in {200, 206} =>
         /\ answer.announced = Cardinality(Named(ask.range, answer.whole))
         /\ answer.body \subseteq Named(ask.range, answer.whole)
    /\ steady =>
         /\ answer.status = 404 <=> Asked = {}
         /\ answer.status # 404 =>
              /\ answer.file \in Asked
              /\ LET named == Named(ask.range, tree[answer.file].length)
                 IN /\ answer.status = 416 <=> named = {} /\ ask.range # NoRange
                    /\ ask.method = "GET" /\ answer.status # 416 => answer.body = named

\* What this rests on.  Only a proxy waits for an upstream, and nothing is
\* sent before the end.
Underway ==
  /\ answer.stage = "upstream" => ask.target = "proxy"
  /\ answer.stage # "done" => answer.body = {}
  /\ answer.stage \in {"new", "looked", "found"} => answer.first = 0

\* What the first look found, as long as nothing changes.
Looking ==
  answer.stage = "looked" /\ steady =>
    /\ answer.file = "path" => ask.at = "path" /\ tree["path"].kind = "file"
    /\ answer.file = "nested" => ask.at = "path" /\ tree["path"].kind = "directory"
    /\ answer.file = "index" =>
         ask.at = "root" \/ (ask.at = "path" /\ ask.spa /\ tree["path"].kind = "absent")

\* What the second look found and what was measured.
Held ==
  answer.stage \in {"found", "measured", "opened"} /\ steady =>
    /\ answer.file \in Asked
    /\ answer.stage # "found" => answer.whole = tree[answer.file].length

\* What is announced are the positions that the range names.
Sent(a) == {i \in Lengths : a.first <= i /\ i < a.first + a.announced}
Announced ==
  answer.stage \in {"measured", "opened"} =>
    /\ answer.status \in {200, 206}
    /\ answer.status = 200 <=> ask.range = NoRange
    /\ answer.status = 206 => answer.announced > 0
    /\ Sent(answer) = Named(ask.range, answer.whole)
    /\ answer.announced = Cardinality(Named(ask.range, answer.whole))

ServingInv == TypeOK /\ Underway /\ Looking /\ Held /\ Announced /\ RangesExact

=============================================================================
