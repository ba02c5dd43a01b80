----------------------------- MODULE GitHistory -----------------------------
(* The history page (server/public/serve.rs, server/git/diff.rs): a browser *)
(* loads it newest first, a page at a time, while commits are made.  Commit *)
(* n is the n-th.                                                           *)
EXTENDS Naturals, Sequences

CONSTANTS
  PageSize,     \* commits of a page (50)
  MaxCommits    \* bound on the commits

VARIABLES
  commits,   \* how many there are
  pager      \* what the browser has, and the link to the next page

vars == <<commits, pager>>

NoPager == [loaded |-> FALSE, snapshot |-> 0, shown |-> <<>>, more |-> FALSE]

HistoryAssumption == PageSize \in Nat /\ MaxCommits \in Nat

Pager == [loaded: BOOLEAN, snapshot: 0..MaxCommits, shown: Seq(1..MaxCommits), more: BOOLEAN]
TypeOK == commits \in 0..MaxCommits /\ pager \in Pager

Init == commits = 0 /\ pager = NoPager

Least(i, j) == IF i < j THEN i ELSE j

\* Mutant of Log: there is more if the page is full.
LogFull(snapshot, offset) ==
  [page |-> [i \in 1..Least(PageSize, snapshot - offset) |-> snapshot - offset - i + 1],
   more |-> snapshot - offset >= PageSize]

\* log --max-count=51 --skip=offset: one commit more is asked for than shown.
Log(snapshot, offset) ==
  [page |-> [i \in 1..Least(PageSize, snapshot - offset) |-> snapshot - offset - i + 1],
   more |-> snapshot - offset > PageSize]

\* The page without an offset reads HEAD; there may be none yet.
FirstPage ==
  /\ ~pager.loaded
  /\ pager' = [loaded |-> TRUE, snapshot |-> commits, shown |-> Log(commits, 0).page,
               more |-> Log(commits, 0).more]
  /\ UNCHANGED commits

\* Mutant of NextPage: the next page is of the history as it is by now.
NextPageNow ==
  /\ pager.more
  /\ pager' = [pager EXCEPT !.shown = @ \o Log(commits, Len(pager.shown)).page,
                            !.more = Log(commits, Len(pager.shown)).more]
  /\ UNCHANGED commits

\* "Pin subsequent batches to the initial HEAD" (diff.rs): the link holds the
\* offset and the snapshot.
NextPage ==
  /\ pager.more
  /\ pager' = [pager EXCEPT !.shown = @ \o Log(pager.snapshot, Len(pager.shown)).page,
                            !.more = Log(pager.snapshot, Len(pager.shown)).more]
  /\ UNCHANGED commits

Reload == pager.loaded /\ pager' = NoPager /\ UNCHANGED commits

CommitElsewhere ==
  commits < MaxCommits /\ commits' = commits + 1 /\ UNCHANGED pager

Next == FirstPage \/ NextPage \/ Reload \/ CommitElsewhere

Spec == Init /\ [][Next]_vars

-----------------------------------------------------------------------------
\* The pages put together are the history at the first of them: no commit is
\* shown twice or left out, whatever was committed between two loads, and the
\* last page says that it is the last.
PagesContiguous ==
  /\ \A i \in DOMAIN pager.shown : pager.shown[i] = pager.snapshot - i + 1
  /\ pager.loaded => (pager.more <=> Len(pager.shown) < pager.snapshot)

\* What it rests on: no more is shown than there was.
HistoryInv ==
  /\ TypeOK /\ PagesContiguous
  /\ Len(pager.shown) <= pager.snapshot /\ (pager.more => pager.loaded)

=============================================================================
