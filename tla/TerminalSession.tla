-------------------------- MODULE TerminalSession --------------------------
(***************************************************************************)
(* The output side of one TerminalSession (src/src/terminal.rs): the       *)
(* sequenced history, the terminal queries that wait for an answer, and    *)
(* the decision whether a client resumes from the history or is sent a     *)
(* snapshot.  Everything here runs under the session's state mutex, so     *)
(* each operator is one atomic step.                                       *)
(*                                                                         *)
(* A chunk of output is its sequence number.  Sizes are counted in units   *)
(* of one PTY read; a snapshot weighs SnapshotSize units.  The screen of   *)
(* the authoritative parser is the effect of chunks 1..next, so `next'     *)
(* stands for it.                                                          *)
(***************************************************************************)
EXTENDS Integers, Sequences, FiniteSets

CONSTANTS
  HistoryCap,    \* TERMINAL_HISTORY_BYTES, in units
  SnapshotSize   \* length of a screen snapshot, in units

ASSUME HistoryAssumption == HistoryCap \in Nat \ {0}
ASSUME SnapshotAssumption == SnapshotSize \in Nat \ {0}

VARIABLES
  next,            \* TerminalHistory.next_sequence
  first,           \* sequence of chunks.front(); next + 1 when there is none
  queryChunks,     \* the chunks that contain a terminal query
  pendingQueries,  \* TerminalState.pending_queries, by sequence
  answered         \* queries whose response was written to the PTY

sessionVars == <<next, first, queryChunks, pendingQueries, answered>>

None == -1   \* Option::None for a sequence, null in the browser

Sequence == Nat
Resume == Sequence \cup {None}
Chunk == [seq : Sequence, snapshot : BOOLEAN, queries : SUBSET Sequence]

SessionTypeOK ==
  /\ next \in Sequence
  /\ first \in Sequence
  /\ queryChunks \in SUBSET Sequence
  /\ pendingQueries \in SUBSET Sequence
  /\ answered \in SUBSET Sequence

SessionInit ==
  /\ next = 0
  /\ first = 1
  /\ queryChunks = {}
  /\ pendingQueries = {}
  /\ answered = {}

(***************************************************************************)
(* Operations of the session.                                              *)
(***************************************************************************)

\* The oldest chunk that still fits once the history ends at chunk n.
OldestRetained(n) == IF n - first >= HistoryCap THEN n - HistoryCap + 1 ELSE first

\* TerminalState::push: number the chunk, keep it, evict from the front, and
\* remember the queries the parser met in it.
Push(hasQuery) ==
  LET query == IF hasQuery THEN {next + 1} ELSE {}
  IN  /\ next' = next + 1
      /\ first' = OldestRetained(next + 1)
      /\ queryChunks' = queryChunks \cup query
      /\ pendingQueries' = pendingQueries \cup query
      /\ answered' = answered

\* Mutant of Acknowledge: off by one.
AcknowledgeOneMore(seq) ==
  /\ pendingQueries' = {q \in pendingQueries : q > seq + 1}
  /\ UNCHANGED <<next, first, queryChunks, answered>>

\* TerminalState::acknowledge: every query up to the sequence is answered.
Acknowledge(seq) ==
  /\ pendingQueries' = {q \in pendingQueries : q > seq}
  /\ UNCHANGED <<next, first, queryChunks, answered>>

\* write_input: a client's responses to queries reach the PTY.
WriteAnswer(queries) ==
  /\ answered' = answered \cup queries
  /\ UNCHANGED <<next, first, queryChunks, pendingQueries>>

LiveChunk(s) == [seq |-> s, snapshot |-> FALSE, queries |-> queryChunks \cap {s}]

\* Mutant of SnapshotChunk: the snapshot is only the screen.
SnapshotWithoutQueries(s) == [seq |-> s, snapshot |-> TRUE, queries |-> {}]

\* The screen at chunk s, followed by the queries nobody has answered yet.
SnapshotChunk(s) == [seq |-> s, snapshot |-> TRUE, queries |-> pendingQueries]

\* Mutant of CanResume: does not look whether the history reaches back so far.
CanResumeUnchecked(last) == last # None /\ last <= next

\* TerminalHistory::resume_after: the history still holds all that follows.
CanResume(last) == /\ last # None
                   /\ last <= next
                   /\ last + 1 >= first

\* The chunks of the history that come after a sequence.
RetainedAfter(last) ==
  LET from == IF last + 1 >= first THEN last ELSE first - 1
  IN  [i \in 1 .. next - from |-> LiveChunk(from + i)]

\* Mutants of Replay: the snapshot's base counts the boundary, and the base is
\* what the client asked for.
ReplayBaseAfterBoundary(last) ==
  IF CanResume(last)
    THEN [reset |-> FALSE, base |-> last, outputs |-> RetainedAfter(last)]
    ELSE [reset |-> TRUE, base |-> next + 1, outputs |-> <<SnapshotChunk(next + 1)>>]
ReplayBaseFromClient(last) ==
  IF CanResume(last)
    THEN [reset |-> FALSE, base |-> last, outputs |-> RetainedAfter(last)]
    ELSE [reset |-> TRUE, base |-> last, outputs |-> <<SnapshotChunk(next + 1)>>]

\* TerminalState::replay_after, the replay it returns.  Without a resume the
\* boundary takes number next + 1 and the snapshot stands in for it.
Replay(last) ==
  IF CanResume(last)
    THEN [reset |-> FALSE, base |-> last, outputs |-> RetainedAfter(last)]
    ELSE [reset |-> TRUE, base |-> next, outputs |-> <<SnapshotChunk(next + 1)>>]

\* Mutant of ReplayEffect: the boundary gets a number but is not published.
ReplayEffectUnpublished(last) == UNCHANGED sessionVars

\* TerminalState::replay_after, its effect on the session: the boundary is
\* pushed (it holds no query) and published under the same lock.
ReplayEffect(last) ==
  IF CanResume(last) THEN UNCHANGED sessionVars ELSE Push(FALSE)

=============================================================================
