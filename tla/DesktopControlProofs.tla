------------------------ MODULE DesktopControlProofs -----------------------
(***************************************************************************)
(* Theorems about DesktopControl, for every number of sessions, channels,  *)
(* buttons and keys.                                                       *)
(*                                                                         *)
(* The inductive invariant is LeaseAgrees, OnlyLiveSessionsControl and     *)
(* NothingStuck, with what Subscribe needs of a session it registers: its  *)
(* lease is still pending.                                                 *)
(***************************************************************************)
EXTENDS DesktopControl, SequenceTheorems, TLAPS

-----------------------------------------------------------------------------
(***************************************************************************)
(* What a command does.                                                    *)
(***************************************************************************)

\* A command that succeeds keeps what is tracked and what is held the same.
Faithful(t, h, o) ==
  /\ o \in Outcome
  /\ o.ok /\ h = t => o.held = o.tracked

LEMMA PointerFaithful ==
  ASSUME NEW t \in Input, NEW h \in Input, NEW b \in SUBSET Buttons,
         NEW o \in Pointer(t, h, b)
  PROVE  Faithful(t, h, o) /\ (o.ok => o.tracked = [t EXCEPT !.buttons = b])
<1> DEFINE changed == Toggle(t.buttons, b)
<1> DEFINE press(set, done) == (set \ (done \ b)) \cup (done \cap b)
<1>1. t.buttons \subseteq Buttons /\ h.buttons \subseteq Buttons
      /\ t.keys \subseteq Keys /\ h.keys \subseteq Keys
  BY DEF Input
<1>2. changed \subseteq Buttons
  BY <1>1 DEF Toggle
<1>3. press(t.buttons, changed) = b
  BY DEF Toggle
<1>4. CASE o = [tracked |-> [t EXCEPT !.buttons = b],
                held |-> [h EXCEPT !.buttons = press(@, changed)], ok |-> TRUE]
  <2>1. press(h.buttons, changed) \subseteq Buttons
    BY <1>1, <1>2
  <2>2. o.tracked = [t EXCEPT !.buttons = b] /\ o.tracked \in Input
    BY <1>4 DEF Input
  <2>3. o.held = [h EXCEPT !.buttons = press(h.buttons, changed)] /\ o.held \in Input
    BY <1>4, <2>1 DEF Input
  <2>4. o \in Outcome
    BY <1>4, <2>2, <2>3 DEF Outcome
  <2>5. h = t => o.held = o.tracked
    BY <2>2, <2>3, <1>3
  <2> QED  BY <2>2, <2>4, <2>5 DEF Faithful
<1>5. ASSUME NEW done \in Partial(changed) \cup {{}},
             o = [tracked |-> t, held |-> [h EXCEPT !.buttons = press(@, done)], ok |-> FALSE]
      PROVE  Faithful(t, h, o) /\ ~o.ok
  <2>1. done \subseteq Buttons
    BY <1>2 DEF Partial
  <2>2. press(h.buttons, done) \subseteq Buttons
    BY <1>1, <2>1
  <2>3. o.held \in Input /\ o.tracked \in Input /\ ~o.ok
    BY <1>5, <2>2 DEF Input
  <2> QED  BY <1>5, <2>3 DEF Faithful, Outcome
<1> QED  BY <1>4, <1>5 DEF Pointer

LEMMA KeyFaithful ==
  ASSUME NEW t \in Input, NEW h \in Input, NEW k \in Keys, NEW down \in BOOLEAN,
         NEW o \in Key(t, h, k, down)
  PROVE  Faithful(t, h, o)
<1> DEFINE put(set) == IF down THEN set \cup {k} ELSE set \ {k}
<1>1. CASE o = [tracked |-> [t EXCEPT !.keys = put(@)],
                held |-> [h EXCEPT !.keys = put(@)], ok |-> TRUE]
  <2>1. o.tracked = [t EXCEPT !.keys = put(t.keys)] /\ o.tracked \in Input
    BY <1>1 DEF Input
  <2>2. o.held = [h EXCEPT !.keys = put(h.keys)] /\ o.held \in Input
    BY <1>1 DEF Input
  <2> QED  BY <1>1, <2>1, <2>2 DEF Faithful, Outcome
<1>2. CASE o = [tracked |-> t, held |-> h, ok |-> FALSE]
  BY <1>2 DEF Faithful, Outcome
<1> QED  BY <1>1, <1>2 DEF Key

LEMMA ReleaseKeysFaithful ==
  ASSUME NEW t \in Input, NEW h \in Input, NEW o \in ReleaseKeys(t, h)
  PROVE  Faithful(t, h, o) /\ (o.ok => o.tracked = [t EXCEPT !.keys = {}])
<1>1. CASE o = [tracked |-> [t EXCEPT !.keys = {}], held |-> [h EXCEPT !.keys = @ \ t.keys],
                ok |-> TRUE]
  <2>1. o.tracked = [t EXCEPT !.keys = {}] /\ o.tracked \in Input
    BY <1>1 DEF Input
  <2>2. o.held = [h EXCEPT !.keys = h.keys \ t.keys] /\ o.held \in Input
    BY <1>1 DEF Input
  <2>3. h = t => o.held = o.tracked
    <3>1. t.keys \ t.keys = {}
      OBVIOUS
    <3> QED  BY <3>1, <2>1, <2>2
  <2> QED  BY <1>1, <2>1, <2>2, <2>3 DEF Faithful, Outcome
<1>2. ASSUME NEW done \in Partial(t.keys),
             o = [tracked |-> t, held |-> [h EXCEPT !.keys = @ \ done], ok |-> FALSE]
      PROVE  Faithful(t, h, o) /\ ~o.ok
  <2>1. o.tracked \in Input /\ o.held \in Input /\ ~o.ok
    BY <1>2 DEF Input
  <2> QED  BY <1>2, <2>1 DEF Faithful, Outcome
<1> QED  BY <1>1, <1>2 DEF ReleaseKeys

\* Releasing everything leaves nothing pressed, if every event went through.
LEMMA ReleaseInputReleases ==
  ASSUME NEW t \in Input, NEW h \in Input, NEW o \in ReleaseInput(t, h)
  PROVE  Faithful(t, h, o) /\ (o.ok => o.tracked = NoInput)
<1> DEFINE first == IF t.buttons = {} THEN {[tracked |-> t, held |-> h, ok |-> TRUE]}
                    ELSE Pointer(t, h, {})
<1>0. PICK b \in first :
        \E k \in ReleaseKeys(b.tracked, b.held) : o = [k EXCEPT !.ok = @ /\ b.ok]
  BY DEF ReleaseInput
<1>1. PICK k \in ReleaseKeys(b.tracked, b.held) : o = [k EXCEPT !.ok = @ /\ b.ok]
  BY <1>0
<1>2. Faithful(t, h, b) /\ (b.ok => b.tracked = [t EXCEPT !.buttons = {}])
  <2>1. CASE t.buttons = {}
    <3>1. b = [tracked |-> t, held |-> h, ok |-> TRUE]
      BY <2>1
    <3>2. t = [t EXCEPT !.buttons = {}]
      BY <2>1 DEF Input
    <3> QED  BY <3>1, <3>2 DEF Faithful, Outcome
  <2>2. CASE t.buttons # {}
    BY <2>2, PointerFaithful
  <2> QED  BY <2>1, <2>2
<1>3. Faithful(b.tracked, b.held, k) /\ (k.ok => k.tracked = [b.tracked EXCEPT !.keys = {}])
  BY <1>2, ReleaseKeysFaithful DEF Faithful, Outcome
<1>4. k \in Outcome /\ b \in Outcome
  BY <1>2, <1>3 DEF Faithful
<1>5. o \in Outcome /\ o.tracked = k.tracked /\ o.held = k.held /\ (o.ok <=> k.ok /\ b.ok)
  BY <1>1, <1>4 DEF Outcome
<1>6. o.ok => o.tracked = NoInput
  BY <1>2, <1>3, <1>5 DEF NoInput, Input
<1> QED  BY <1>2, <1>3, <1>5, <1>6 DEF Faithful

LEMMA CommandsFaithful ==
  ASSUME NEW t \in Input, NEW h \in Input, NEW o \in Commands(t, h)
  PROVE  Faithful(t, h, o)
<1>1. ASSUME NEW b \in SUBSET Buttons, o \in Pointer(t, h, b)
      PROVE  Faithful(t, h, o)
  BY <1>1, PointerFaithful
<1>2. ASSUME NEW k \in Keys, NEW down \in BOOLEAN, o \in Key(t, h, k, down)
      PROVE  Faithful(t, h, o)
  BY <1>2, KeyFaithful
<1>3. CASE o \in ReleaseKeys(t, h)
  BY <1>3, ReleaseKeysFaithful
<1>4. CASE o \in ReleaseInput(t, h)
  BY <1>4, ReleaseInputReleases
<1>5. \/ \E b \in SUBSET Buttons : o \in Pointer(t, h, b)
      \/ \E k \in Keys, down \in BOOLEAN : o \in Key(t, h, k, down)
      \/ o \in ReleaseKeys(t, h)
      \/ o \in ReleaseInput(t, h)
  <2>1. CASE o \in UNION {Pointer(t, h, b) : b \in SUBSET Buttons}
    BY <2>1
  <2>2. CASE o \in UNION {Key(t, h, k, down) : k \in Keys, down \in BOOLEAN}
    BY <2>2
  <2> QED  BY <2>1, <2>2 DEF Commands
<1> QED  BY <1>1, <1>2, <1>3, <1>4, <1>5

-----------------------------------------------------------------------------
(***************************************************************************)
(* The queue.                                                              *)
(***************************************************************************)
In(q, u) == \E i \in DOMAIN q : q[i] = u

Distinct(q) == \A i, j \in DOMAIN q : q[i] = q[j] => i = j

\* Taking the i-th element out moves the later ones up.
LEMMA TakenOut ==
  ASSUME NEW S, NEW q \in Seq(S), NEW i \in 1..Len(q)
  PROVE  LET w == SubSeq(q, 1, i - 1) \o SubSeq(q, i + 1, Len(q))
         IN  /\ w \in Seq(S)
             /\ DOMAIN w = 1..(Len(q) - 1)
             /\ \A k \in 1..(Len(q) - 1) : w[k] = q[IF k < i THEN k ELSE k + 1]
<1> DEFINE n == Len(q)
           a == SubSeq(q, 1, i - 1)
           b == SubSeq(q, i + 1, n)
           w == a \o b
<1>0. n \in Nat /\ \A k \in 1..n : q[k] \in S
  BY LenProperties, ElementOfSeq
<1>1. /\ a \in Seq(S)
      /\ Len(a) = IF 1 <= i - 1 THEN (i - 1) - 1 + 1 ELSE 0
      /\ \A k \in 1..((i - 1) - 1 + 1) : a[k] = q[1 + k - 1]
  <2>1. \A k \in 1..(i - 1) : q[k] \in S
    BY <1>0
  <2> QED  BY <2>1, <1>0, SubSeqProperties
<1>2. /\ b \in Seq(S)
      /\ Len(b) = IF i + 1 <= n THEN n - (i + 1) + 1 ELSE 0
      /\ \A k \in 1..(n - (i + 1) + 1) : b[k] = q[(i + 1) + k - 1]
  <2>1. \A k \in (i + 1)..n : q[k] \in S
    BY <1>0
  <2> QED  BY <2>1, <1>0, SubSeqProperties
<1> HIDE DEF a, b
<1>3. /\ w \in Seq(S)
      /\ Len(w) = Len(a) + Len(b)
      /\ \A k \in 1..(Len(a) + Len(b)) : w[k] = IF k <= Len(a) THEN a[k] ELSE b[k - Len(a)]
  BY <1>1, <1>2, ConcatProperties
<1>4. DOMAIN w = 1..Len(w)
  BY <1>3, LenProperties
<1> HIDE DEF w, n
<1>5. Len(a) = i - 1 /\ Len(b) = n - i /\ i \in Nat /\ i >= 1 /\ i <= n
  BY <1>0, <1>1, <1>2 DEF n
<1>6. ASSUME NEW k \in 1..(n - 1)
      PROVE  w[k] = q[IF k < i THEN k ELSE k + 1]
  <2>1. CASE k < i
    <3>1. w[k] = a[k]
      BY <2>1, <1>0, <1>3, <1>5
    <3>2. a[k] = q[1 + k - 1] /\ 1 + k - 1 = k
      BY <2>1, <1>0, <1>1, <1>5
    <3> QED  BY <2>1, <3>1, <3>2
  <2>2. CASE ~(k < i)
    <3>1. k - (i - 1) \in 1..(n - i) /\ ~(k <= i - 1)
      BY <2>2, <1>0, <1>5
    <3>2. w[k] = b[k - (i - 1)]
      BY <3>1, <1>0, <1>3, <1>5
    <3>3. k - (i - 1) \in 1..(n - (i + 1) + 1)
          /\ (i + 1) + (k - (i - 1)) - 1 = k + 1
      BY <3>1, <1>0, <1>5
    <3>4. b[k - (i - 1)] = q[(i + 1) + (k - (i - 1)) - 1]
      BY <3>3, <1>2
    <3> QED  BY <2>2, <3>2, <3>3, <3>4
  <2> QED  BY <2>1, <2>2
<1>7. DOMAIN w = 1..(n - 1)
  BY <1>0, <1>3, <1>4, <1>5
<1> QED  BY <1>3, <1>6, <1>7 DEF w, a, b, n

\* Leaving the queue takes out the session and nothing else.
LEMMA WithoutRemoves ==
  ASSUME NEW S, NEW q \in Seq(S), NEW s, Distinct(q)
  PROVE  /\ Without(q, s) \in Seq(S)
         /\ Distinct(Without(q, s))
         /\ \A u : In(Without(q, s), u) <=> In(q, u) /\ u # s
<1>0. Len(q) \in Nat /\ DOMAIN q = 1..Len(q)
  BY LenProperties
<1>1. CASE ~In(q, s)
  BY <1>1 DEF Without, In, Distinct
<1>2. CASE In(q, s)
  <2>1. PICK i \in 1..Len(q) :
          /\ q[i] = s
          /\ Without(q, s) = SubSeq(q, 1, i - 1) \o SubSeq(q, i + 1, Len(q))
    <3> DEFINE j == CHOOSE j \in DOMAIN q : q[j] = s
    <3>1. j \in DOMAIN q /\ q[j] = s
      BY <1>2 DEF In
    <3>2. Without(q, s) = SubSeq(q, 1, j - 1) \o SubSeq(q, j + 1, Len(q))
      BY <1>2 DEF Without, In
    <3> HIDE DEF j
    <3> QED  BY <3>1, <3>2, <1>0
  <2> DEFINE w == Without(q, s)
             f(n) == IF n < i THEN n ELSE n + 1
  <2>2. w \in Seq(S) /\ DOMAIN w = 1..(Len(q) - 1)
        /\ \A k \in 1..(Len(q) - 1) : w[k] = q[f(k)]
    BY <2>1, TakenOut
  <2> HIDE DEF w
  <2>3. Distinct(w)
    <3> SUFFICES ASSUME NEW k \in 1..(Len(q) - 1), NEW l \in 1..(Len(q) - 1), w[k] = w[l]
                 PROVE  k = l
      BY <2>2 DEF Distinct
    <3>1. f(k) \in 1..Len(q) /\ f(l) \in 1..Len(q)
      BY <2>1, <1>0
    <3>2. q[f(k)] = q[f(l)]
      BY <2>2
    <3>3. f(k) = f(l)
      <4> HIDE DEF f
      <4> QED  BY <3>1, <3>2, <1>0 DEF Distinct
    <3> QED  BY <3>3, <2>1, <1>0
  <2>4. ASSUME NEW u
        PROVE  In(w, u) <=> In(q, u) /\ u # s
    <3>1. ASSUME NEW k \in DOMAIN w, w[k] = u
          PROVE  In(q, u) /\ u # s
      <4>1. f(k) \in 1..Len(q) /\ f(k) # i
        BY <2>1, <2>2, <1>0
      <4>2. q[f(k)] = u
        BY <3>1, <2>2
      <4> HIDE DEF f
      <4> QED  BY <4>1, <4>2, <2>1, <1>0 DEF In, Distinct
    <3>2. ASSUME NEW n \in DOMAIN q, q[n] = u, u # s
          PROVE  In(w, u)
      <4>1. PICK k \in 1..(Len(q) - 1) : f(k) = n
        <5>1. CASE n < i
          BY <5>1, <2>1, <1>0
        <5>2. CASE i < n
          <6>1. n - 1 \in 1..(Len(q) - 1) /\ f(n - 1) = n
            BY <5>2, <2>1, <1>0
          <6> HIDE DEF f
          <6> QED  BY <6>1
        <5>3. n # i
          BY <3>2, <2>1
        <5> QED  BY <5>1, <5>2, <5>3, <2>1, <1>0
      <4> HIDE DEF f
      <4> QED  BY <4>1, <3>2, <2>2 DEF In
    <3> QED  BY <3>1, <3>2 DEF In
  <2> QED  BY <2>2, <2>3, <2>4 DEF w
<1> QED  BY <1>1, <1>2

\* Nor does taking the first session off the queue lose one.
LEMMA RestOfQueue ==
  ASSUME NEW S, NEW q \in Seq(S), q # <<>>, Distinct(q)
  PROVE  LET rest == SubSeq(q, 2, Len(q))
         IN  /\ rest \in Seq(S)
             /\ Distinct(rest)
             /\ \A u : In(rest, u) <=> In(q, u) /\ u # q[1]
             /\ 1 \in DOMAIN q /\ q[1] \in S
<1> DEFINE rest == SubSeq(q, 2, Len(q))
<1>0. Len(q) \in Nat \ {0} /\ DOMAIN q = 1..Len(q) /\ \A k \in 1..Len(q) : q[k] \in S
  BY LenProperties, ElementOfSeq, EmptySeq
<1>1. /\ rest \in Seq(S)
      /\ Len(rest) = IF 2 <= Len(q) THEN Len(q) - 2 + 1 ELSE 0
      /\ \A k \in 1..(Len(q) - 2 + 1) : rest[k] = q[2 + k - 1]
  <2>1. \A k \in 2..Len(q) : q[k] \in S
    BY <1>0
  <2> QED  BY <2>1, <1>0, SubSeqProperties
<1>2. DOMAIN rest = 1..(Len(q) - 1) /\ \A k \in 1..(Len(q) - 1) : rest[k] = q[k + 1]
  <2>1. DOMAIN rest = 1..Len(rest)
    BY <1>1, LenProperties
  <2> QED  BY <2>1, <1>0, <1>1
<1> HIDE DEF rest
<1>3. Distinct(rest)
  BY <1>0, <1>2 DEF Distinct
<1>4. ASSUME NEW u
      PROVE  In(rest, u) <=> In(q, u) /\ u # q[1]
  <2>1. ASSUME NEW k \in DOMAIN rest, rest[k] = u
        PROVE  In(q, u) /\ u # q[1]
    BY <2>1, <1>0, <1>2 DEF In, Distinct
  <2>2. ASSUME NEW n \in DOMAIN q, q[n] = u, u # q[1]
        PROVE  In(rest, u)
    <3>1. n - 1 \in 1..(Len(q) - 1) /\ (n - 1) + 1 = n
      BY <2>2, <1>0
    <3> QED  BY <3>1, <2>2, <1>2 DEF In
  <2> QED  BY <2>1, <2>2 DEF In
<1> QED  BY <1>0, <1>1, <1>3, <1>4 DEF rest

-----------------------------------------------------------------------------
(***************************************************************************)
(* The invariant, and what a call of the controller does to it.            *)
(***************************************************************************)

\* A session that has not subscribed has never been activated.
PendingUntilActivated ==
  \A s \in Controlling : phase[s] = "new" => lease[s] = "pending"

ControllerType ==
  /\ owner \in Controlling \cup {NoSession}
  /\ waiters \in Seq(Controlling)
  /\ registered \in SUBSET Controlling
  /\ tracked \in Input
  /\ held \in Input
  /\ failed \in BOOLEAN
  /\ lease \in [Sessions -> Lease]
  /\ unseen \in [Sessions -> BOOLEAN]

ControllerInv == ControllerType /\ LeaseAgrees /\ NothingStuck

IInv == TypeOK /\ LeaseAgrees /\ OnlyLiveSessionsControl /\ NothingStuck /\ PendingUntilActivated

\* What a controller call leaves: the invariant, no new registration, the
\* leases of others outside the registry, and nothing pressed on a hand-over.
ControllerStep ==
  /\ ControllerInv'
  /\ registered' \subseteq registered
  /\ \A u \in Sessions : u \notin registered => lease'[u] = lease[u]
  /\ owner' # owner => failed' \/ held' = NoInput

\* LeaseAgrees in terms of membership.
LEMMA LeaseAgreesIn ==
  LeaseAgrees <=>
    /\ \A s \in registered :
         /\ lease[s] = "granted" <=> owner = s
         /\ lease[s] = "waiting" <=> In(waiters, s)
    /\ owner # NoSession => owner \in registered
    /\ \A u : In(waiters, u) => u \in registered
    /\ Distinct(waiters)
    /\ owner = NoSession => waiters = <<>>
BY DEF LeaseAgrees, Waiting, In, Distinct

LEMMA PublishSets ==
  ASSUME ControllerType, NEW s \in Sessions, NEW v \in Lease, Publish(s, v)
  PROVE  /\ lease' \in [Sessions -> Lease] /\ unseen' \in [Sessions -> BOOLEAN]
         /\ lease'[s] = v
         /\ \A u \in Sessions : u # s => lease'[u] = lease[u]
BY DEF ControllerType, Publish

LEMMA Appended ==
  ASSUME NEW S, NEW q \in Seq(S), NEW s \in S
  PROVE  /\ Append(q, s) \in Seq(S)
         /\ \A u : In(Append(q, s), u) <=> In(q, u) \/ u = s
         /\ Distinct(q) /\ ~In(q, s) => Distinct(Append(q, s))
<1> DEFINE r == Append(q, s)
<1>1. r \in Seq(S) /\ DOMAIN r = 1..(Len(q) + 1) /\ DOMAIN q = 1..Len(q)
      /\ Len(q) \in Nat /\ r[Len(q) + 1] = s /\ \A k \in 1..Len(q) : r[k] = q[k]
  BY LenProperties
<1> HIDE DEF r
<1>2. ASSUME NEW u
      PROVE  In(r, u) <=> In(q, u) \/ u = s
  <2>1. ASSUME NEW k \in DOMAIN r, r[k] = u
        PROVE  In(q, u) \/ u = s
    <3>1. CASE k = Len(q) + 1
      BY <3>1, <2>1, <1>1
    <3>2. CASE k \in 1..Len(q)
      BY <3>2, <2>1, <1>1 DEF In
    <3> QED  BY <3>1, <3>2, <1>1
  <2>2. ASSUME NEW k \in DOMAIN q, q[k] = u
        PROVE  In(r, u)
    <3>1. k \in DOMAIN r /\ r[k] = u
      BY <2>2, <1>1
    <3> QED  BY <3>1 DEF In
  <2>3. In(r, s)
    <3>1. Len(q) + 1 \in DOMAIN r
      BY <1>1
    <3> QED  BY <3>1, <1>1 DEF In
  <2> QED  BY <2>1, <2>2, <2>3 DEF In
<1>3. ASSUME Distinct(q), ~In(q, s)
      PROVE  Distinct(r)
  <2> SUFFICES ASSUME NEW k \in DOMAIN r, NEW l \in DOMAIN r, r[k] = r[l]
               PROVE  k = l
    BY DEF Distinct
  <2>1. ASSUME NEW n \in 1..Len(q)
        PROVE  q[n] # s
    BY <1>1, <1>3 DEF In
  <2> QED  BY <2>1, <1>1, <1>3 DEF Distinct
<1> QED  BY <1>1, <1>2, <1>3 DEF r

LEMMA ActivateStep ==
  ASSUME ControllerInv, NEW s \in Sessions, Activate(s)
  PROVE  ControllerStep
<1>0. ControllerType /\ LeaseAgrees /\ NothingStuck
      /\ UNCHANGED <<registered, tracked, held, failed>>
  BY DEF ControllerInv, Activate
<1>1. CASE s \notin registered \/ lease[s] # "pending"
  <2>1. UNCHANGED <<owner, waiters, lease, unseen>>
    BY <1>1 DEF Activate
  <2> QED  BY <1>0, <2>1 DEF ControllerStep, ControllerInv, ControllerType, LeaseAgrees,
                              Waiting, NothingStuck
<1>2. CASE s \in registered /\ lease[s] = "pending"
  <2>0. s \in Controlling /\ s # NoSession /\ s # owner /\ ~In(waiters, s)
    BY <1>0, <1>2, SessionAssumption, LeaseAgreesIn DEF ControllerType, Controlling
  <2>1. CASE owner = NoSession
    <3>1. owner' = s /\ Publish(s, "granted") /\ UNCHANGED waiters
      BY <1>2, <2>1 DEF Activate
    <3>2. /\ lease' \in [Sessions -> Lease] /\ unseen' \in [Sessions -> BOOLEAN]
          /\ lease'[s] = "granted"
          /\ \A u \in Sessions : u # s => lease'[u] = lease[u]
      BY <1>0, <3>1, PublishSets DEF Lease
    <3>3. waiters = <<>> /\ registered \subseteq Sessions
      BY <1>0, <2>1 DEF LeaseAgrees, ControllerType, Controlling
    <3>4. ControllerType'
      BY <1>0, <2>0, <3>1, <3>2 DEF ControllerType
    <3>5. LeaseAgrees'
      <4>1. /\ \A u \in registered' :
                 /\ lease'[u] = "granted" <=> owner' = u
                 /\ lease'[u] = "waiting" <=> In(waiters', u)
            /\ owner' # NoSession => owner' \in registered'
            /\ \A u : In(waiters', u) => u \in registered'
            /\ Distinct(waiters')
            /\ owner' = NoSession => waiters' = <<>>
        <5>1. waiters' = waiters /\ (\A u : In(waiters', u) <=> In(waiters, u))
              /\ Distinct(waiters')
          BY <1>0, <3>1, LeaseAgreesIn
        <5>2. ASSUME NEW u \in registered
              PROVE  /\ lease'[u] = "granted" <=> owner' = u
                     /\ lease'[u] = "waiting" <=> In(waiters', u)
          <6>1. CASE u = s
            BY <6>1, <2>0, <3>1, <3>2, <5>1
          <6>2. CASE u # s
            BY <6>2, <1>0, <2>1, <3>1, <3>2, <3>3, <5>1, SessionAssumption, LeaseAgreesIn
          <6> QED  BY <6>1, <6>2
        <5> QED  BY <1>0, <1>2, <2>0, <3>1, <5>1, <5>2, LeaseAgreesIn
      <4> QED  BY <4>1 DEF LeaseAgrees, Waiting, In, Distinct
    <3>6. NothingStuck' /\ (owner' # owner => failed' \/ held' = NoInput)
      BY <1>0, <2>0, <2>1, <3>1 DEF NothingStuck, ControllerType
    <3> QED  BY <1>0, <1>2, <3>2, <3>4, <3>5, <3>6 DEF ControllerStep, ControllerInv
  <2>2. CASE owner # NoSession
    <3>1. waiters' = Append(waiters, s) /\ Publish(s, "waiting") /\ UNCHANGED owner
      BY <1>2, <2>2 DEF Activate
    <3>2. /\ lease' \in [Sessions -> Lease] /\ unseen' \in [Sessions -> BOOLEAN]
          /\ lease'[s] = "waiting"
          /\ \A u \in Sessions : u # s => lease'[u] = lease[u]
      BY <1>0, <3>1, PublishSets DEF Lease
    <3>3. waiters' \in Seq(Controlling) /\ Distinct(waiters')
          /\ \A u : In(waiters', u) <=> In(waiters, u) \/ u = s
      <4>1. waiters \in Seq(Controlling) /\ Distinct(waiters)
        BY <1>0, LeaseAgreesIn DEF ControllerType
      <4> QED  BY <4>1, <3>1, <2>0, Appended
    <3>4. ControllerType' /\ registered \subseteq Sessions
      BY <1>0, <2>0, <3>1, <3>2, <3>3 DEF ControllerType, Controlling
    <3>5. LeaseAgrees'
      <4>1. /\ \A u \in registered' :
                 /\ lease'[u] = "granted" <=> owner' = u
                 /\ lease'[u] = "waiting" <=> In(waiters', u)
            /\ owner' # NoSession => owner' \in registered'
            /\ \A u : In(waiters', u) => u \in registered'
            /\ Distinct(waiters')
            /\ owner' = NoSession => waiters' = <<>>
        BY <1>0, <1>2, <2>0, <2>2, <3>1, <3>2, <3>3, <3>4, LeaseAgreesIn
      <4> QED  BY <4>1 DEF LeaseAgrees, Waiting, In, Distinct
    <3>6. NothingStuck'
      BY <1>0, <3>1 DEF NothingStuck
    <3> QED  BY <1>0, <1>2, <3>1, <3>2, <3>4, <3>5, <3>6 DEF ControllerStep, ControllerInv
  <2> QED  BY <2>1, <2>2
<1> QED  BY <1>1, <1>2

LEMMA UnregisterStep ==
  ASSUME ControllerInv, NEW s \in Sessions, Unregister(s)
  PROVE  ControllerStep /\ registered' = registered \ {s}
<1> DEFINE q == Without(waiters, s)
           rest == registered \ {s}
<1>0. ControllerType /\ LeaseAgrees /\ NothingStuck /\ registered' = rest
      /\ registered \subseteq Sessions /\ NoSession \notin Sessions
  BY SessionAssumption DEF ControllerInv, Unregister, ControllerType, Controlling
<1>1. q \in Seq(Controlling) /\ Distinct(q) /\ \A u : In(q, u) <=> In(waiters, u) /\ u # s
  <2>1. waiters \in Seq(Controlling) /\ Distinct(waiters)
    BY <1>0, LeaseAgreesIn DEF ControllerType
  <2> QED  BY <2>1, WithoutRemoves
<1> HIDE DEF q
<1>2. \A u : In(q, u) => u \in rest
  BY <1>0, <1>1, LeaseAgreesIn
<1>3. ASSUME /\ \A u \in registered' :
                  /\ lease'[u] = "granted" <=> owner' = u
                  /\ lease'[u] = "waiting" <=> In(waiters', u)
             /\ owner' # NoSession => owner' \in registered'
             /\ \A u : In(waiters', u) => u \in registered'
             /\ Distinct(waiters')
             /\ owner' = NoSession => waiters' = <<>>
      PROVE  LeaseAgrees'
  BY <1>3 DEF LeaseAgrees, Waiting, In, Distinct
<1>4. CASE owner # s
  <2>1. waiters' = q /\ UNCHANGED <<owner, tracked, held, failed, lease, unseen>>
    BY <1>4 DEF Unregister, q
  <2>2. ControllerType'
    BY <1>0, <1>1, <2>1 DEF ControllerType
  <2>3. owner = NoSession => q = <<>>
    <3>1. ASSUME owner = NoSession
          PROVE  q = <<>>
      <4>1. waiters = <<>>
        BY <1>0, <3>1, LeaseAgreesIn
      <4>2. ~In(waiters, s)
        BY <4>1 DEF In
      <4> QED  BY <4>1, <4>2 DEF q, Without, In
    <3> QED  BY <3>1
  <2>4. LeaseAgrees'
    BY <1>0, <1>1, <1>2, <1>3, <1>4, <2>1, <2>3, LeaseAgreesIn
  <2>5. NothingStuck'
    BY <1>0, <2>1 DEF NothingStuck
  <2> QED  BY <1>0, <2>1, <2>2, <2>4, <2>5 DEF ControllerStep, ControllerInv
<1>5. CASE owner = s
  <2>1. Release /\ HandOver(q, rest)
    BY <1>5 DEF Unregister, q
  <2>2. PICK o \in ReleaseInput(tracked, held) :
          held' = o.held /\ failed' = (failed \/ ~o.ok)
    BY <2>1 DEF Release
  <2>3. Faithful(tracked, held, o) /\ (o.ok => o.tracked = NoInput)
    BY <1>0, ReleaseInputReleases DEF ControllerType
  <2>4. /\ tracked' = NoInput /\ NoInput \in Input
        /\ held' \in Input /\ failed' \in BOOLEAN
        /\ ~failed' => held' = NoInput
    <3>1. tracked' = NoInput /\ NoInput \in Input
      BY <2>1 DEF Release, NoInput, Input
    <3>2. held' \in Input /\ failed' \in BOOLEAN
      BY <1>0, <2>2, <2>3 DEF Faithful, Outcome, ControllerType
    <3>3. ~failed' => held = tracked /\ o.ok
      BY <1>0, <2>2 DEF NothingStuck
    <3> QED  BY <2>2, <2>3, <3>1, <3>2, <3>3 DEF Faithful
  <2>5. NothingStuck'
    BY <2>4 DEF NothingStuck
  <2>6. \A i \in DOMAIN q : q[i] \in rest
    BY <1>2 DEF In
  <2>7. CASE q = <<>>
    <3>1. owner' = NoSession /\ waiters' = <<>> /\ UNCHANGED <<lease, unseen>>
      <4>1. {i \in DOMAIN q : q[i] \in rest} = {}
        BY <2>7
      <4> QED  BY <2>1, <4>1 DEF HandOver
    <3>2. ControllerType'
      <4>1. waiters' \in Seq(Controlling)
        BY <3>1, EmptySeq
      <4> QED  BY <1>0, <2>4, <3>1, <4>1 DEF ControllerType
    <3>3. LeaseAgrees'
      <4>1. waiters' = q
        BY <3>1, <2>7
      <4> QED  BY <1>0, <1>1, <1>2, <1>3, <1>5, <2>7, <3>1, <4>1, LeaseAgreesIn
    <3> QED  BY <1>0, <2>4, <2>5, <3>1, <3>2, <3>3 DEF ControllerStep, ControllerInv
  <2>8. CASE q # <<>>
    <3> DEFINE tail == SubSeq(q, 2, Len(q))
    <3>0. /\ tail \in Seq(Controlling) /\ Distinct(tail)
          /\ \A u : In(tail, u) <=> In(q, u) /\ u # q[1]
          /\ 1 \in DOMAIN q /\ q[1] \in Controlling /\ q[1] \in Sessions
      BY <1>1, <2>8, RestOfQueue DEF Controlling
    <3>1. owner' = q[1] /\ waiters' = tail /\ Publish(q[1], "granted")
      <4> DEFINE live == {i \in DOMAIN q : q[i] \in rest}
      <4>1. live = 1..Len(q) /\ 1 \in live
        BY <1>1, <2>6, <3>0, LenProperties
      <4>2. PICK i \in live : /\ \A j \in live : i <= j
                              /\ owner' = q[i]
                              /\ waiters' = SubSeq(q, i + 1, Len(q))
                              /\ Publish(q[i], "granted")
        BY <2>1, <4>1 DEF HandOver
      <4>3. i = 1
        BY <4>1, <4>2, <1>1, LenProperties
      <4> QED  BY <4>2, <4>3
    <3> HIDE DEF tail
    <3>2. /\ lease' \in [Sessions -> Lease] /\ unseen' \in [Sessions -> BOOLEAN]
          /\ lease'[q[1]] = "granted"
          /\ \A u \in Sessions : u # q[1] => lease'[u] = lease[u]
      BY <1>0, <3>0, <3>1, PublishSets DEF Lease
    <3>3. q[1] \in rest /\ In(waiters, q[1])
      BY <1>1, <2>6, <3>0 DEF In
    <3>4. ControllerType'
      BY <1>0, <2>4, <3>0, <3>1, <3>2 DEF ControllerType
    <3>5. LeaseAgrees'
      <4>1. ASSUME NEW u \in rest
            PROVE  /\ lease'[u] = "granted" <=> owner' = u
                   /\ lease'[u] = "waiting" <=> In(waiters', u)
        <5>1. CASE u = q[1]
          BY <5>1, <3>0, <3>1, <3>2
        <5>2. CASE u # q[1]
          BY <5>2, <1>0, <1>1, <1>5, <3>0, <3>1, <3>2, LeaseAgreesIn
        <5> QED  BY <5>1, <5>2
      <4>2. owner' # NoSession
        BY <1>0, <3>0, <3>1
      <4> QED  BY <1>0, <1>2, <1>3, <3>0, <3>1, <3>3, <4>1, <4>2
    <3> QED  BY <1>0, <2>4, <2>5, <3>2, <3>3, <3>4, <3>5 DEF ControllerStep, ControllerInv
  <2> QED  BY <2>7, <2>8
<1> QED  BY <1>4, <1>5

LEMMA CommandStep ==
  ASSUME ControllerInv, NEW s \in Sessions, owner = s,
         NEW o \in Commands(tracked, held),
         tracked' = o.tracked, held' = o.held, failed' = (failed \/ ~o.ok),
         UNCHANGED <<owner, waiters, registered, lease, unseen>>
  PROVE  ControllerStep
<1>0. ControllerType /\ LeaseAgrees /\ NothingStuck
  BY DEF ControllerInv
<1>1. Faithful(tracked, held, o)
  BY <1>0, CommandsFaithful DEF ControllerType
<1>2. ControllerType'
  BY <1>0, <1>1 DEF ControllerType, Faithful, Outcome
<1>3. LeaseAgrees'
  BY <1>0 DEF LeaseAgrees, Waiting
<1>4. NothingStuck'
  BY <1>0, <1>1, SessionAssumption DEF NothingStuck, Faithful
<1> QED  BY <1>2, <1>3, <1>4 DEF ControllerStep, ControllerInv

-----------------------------------------------------------------------------
(***************************************************************************)
(* The steps.                                                              *)
(***************************************************************************)
SessionType ==
  /\ told \in [Sessions -> Lease]
  /\ phase \in [Sessions -> {"new", "setup", "running", "closing", "gone"}]
  /\ control \in [Sessions -> Channels \cup {NoChannel}]
  /\ channel \in [Sessions -> [Channels -> {"new", "open", "releasing", "closed"}]]
  /\ opening \in [Sessions -> [Channels -> {"idle", "set", "activate", "done"}]]

LEMMA TypeParts == TypeOK <=> ControllerType /\ SessionType
BY DEF TypeOK, ControllerType, SessionType

\* Who is registered decides who takes part.
LEMMA Participants ==
  LeaseAgrees /\ registered \subseteq Sessions
    => (OnlyLiveSessionsControl
          <=> \A s \in registered : phase[s] \in {"setup", "running", "closing"})
BY SessionAssumption DEF LeaseAgrees, OnlyLiveSessionsControl, Waiting

\* A step of the controller that keeps the registered sessions live, and
\* makes no session new, keeps the invariant.
LEMMA ControllerStepKeeps ==
  ASSUME IInv, ControllerStep, SessionType',
         \A s \in registered' : phase'[s] \in {"setup", "running", "closing"},
         \A s \in Sessions : phase'[s] = "new" => phase[s] = "new"
  PROVE  IInv'
<1>1. TypeOK' /\ LeaseAgrees' /\ NothingStuck' /\ ControllerType'
  <2>1. TypeOK' <=> ControllerType' /\ SessionType'
    BY TypeParts, PTL
  <2> QED  BY <2>1 DEF ControllerStep, ControllerInv
<1>2. OnlyLiveSessionsControl'
  <2>1. \A s \in Sessions : s \in registered' \/ owner' = s \/ Waiting(s)' => s \in registered'
    BY <1>1, SessionAssumption DEF LeaseAgrees, Waiting
  <2> QED  BY <2>1 DEF OnlyLiveSessionsControl
<1>3. PendingUntilActivated'
  <2> SUFFICES ASSUME NEW s \in Controlling, phase'[s] = "new"
               PROVE  lease'[s] = "pending"
    BY DEF PendingUntilActivated
  <2>1. s \in Sessions /\ phase[s] = "new" /\ lease[s] = "pending"
    BY DEF IInv, PendingUntilActivated, Controlling
  <2>2. s \notin registered
    BY <2>1 DEF IInv, OnlyLiveSessionsControl
  <2> QED  BY <2>1, <2>2 DEF ControllerStep
<1> QED  BY <1>1, <1>2, <1>3 DEF IInv

LEMMA StartsIInv ==
  ASSUME Init
  PROVE  IInv
<1>1. NoInput \in Input /\ <<>> \in Seq(Controlling) /\ DOMAIN <<>> = {}
  BY EmptySeq DEF NoInput, Input
<1>2. TypeOK
  BY <1>1 DEF Init, TypeOK, Lease, Controlling
<1>3. LeaseAgrees /\ OnlyLiveSessionsControl /\ NothingStuck /\ PendingUntilActivated
  BY <1>1, SessionAssumption DEF Init, LeaseAgrees, OnlyLiveSessionsControl, NothingStuck,
     PendingUntilActivated, Waiting, Controlling
<1> QED  BY <1>2, <1>3 DEF IInv

LEMMA KeepsIInv ==
  ASSUME IInv, [Next]_vars
  PROVE  IInv' /\ (owner' # owner => failed' \/ held' = NoInput)
<1>0. /\ ControllerInv /\ ControllerType /\ SessionType /\ LeaseAgrees
      /\ registered \subseteq Sessions
      /\ \A s \in registered : phase[s] \in {"setup", "running", "closing"}
  <2>1. ControllerInv /\ ControllerType /\ SessionType /\ registered \subseteq Sessions
    BY TypeParts DEF IInv, ControllerInv, ControllerType, Controlling
  <2> QED  BY <2>1, Participants DEF IInv
<1>1. ASSUME UNCHANGED controllerVars
      PROVE  ControllerStep
  BY <1>0, <1>1 DEF controllerVars, ControllerStep, ControllerInv, ControllerType,
     LeaseAgrees, Waiting, NothingStuck
<1>2. ASSUME ControllerStep, SessionType', UNCHANGED phase
      PROVE  IInv' /\ (owner' # owner => failed' \/ held' = NoInput)
  <2>1. \A s \in registered' : phase'[s] \in {"setup", "running", "closing"}
    BY <1>0, <1>2 DEF ControllerStep
  <2>2. \A s \in Sessions : phase'[s] = "new" => phase[s] = "new"
    BY <1>2
  <2> QED  BY <1>2, <2>1, <2>2, ControllerStepKeeps DEF ControllerStep
<1>3. CASE UNCHANGED vars
  <2>1. UNCHANGED controllerVars /\ UNCHANGED sessionVars
    BY <1>3 DEF vars
  <2>2. SessionType' /\ UNCHANGED phase
    BY <1>0, <2>1 DEF SessionType, sessionVars
  <2> QED  BY <1>1, <1>2, <2>1, <2>2
<1>4. ASSUME NEW s \in Sessions, SessionTask(s)
      PROVE  IInv' /\ (owner' # owner => failed' \/ held' = NoInput)
  <2>1. CASE Subscribe(s)
    <3>1. /\ phase[s] = "new" /\ phase' = [phase EXCEPT ![s] = "setup"]
          /\ registered' = IF s \in ViewOnly THEN registered ELSE registered \cup {s}
          /\ UNCHANGED <<owner, waiters, tracked, held, failed, lease, unseen>>
          /\ UNCHANGED <<told, control, channel, opening>>
      BY <2>1 DEF Subscribe
    <3>2. /\ s \notin registered /\ owner # s /\ ~Waiting(s)
          /\ s \in Controlling => lease[s] = "pending"
      BY <3>1 DEF IInv, OnlyLiveSessionsControl, PendingUntilActivated
    <3>3. TypeOK'
      <4>1. registered' \in SUBSET Controlling
        BY <1>0, <3>1 DEF ControllerType, Controlling
      <4>2. phase' \in [Sessions -> {"new", "setup", "running", "closing", "gone"}]
        BY <1>0, <3>1 DEF SessionType
      <4> QED  BY <1>0, <3>1, <4>1, <4>2 DEF ControllerType, SessionType, TypeOK
    <3>4. LeaseAgrees'
      BY <1>0, <3>1, <3>2 DEF LeaseAgrees, Waiting, Controlling
    <3>5. OnlyLiveSessionsControl'
      BY <1>0, <3>1 DEF IInv, OnlyLiveSessionsControl, Waiting, SessionType
    <3>6. NothingStuck' /\ PendingUntilActivated'
      BY <1>0, <3>1 DEF IInv, NothingStuck, PendingUntilActivated, SessionType, Controlling
    <3> QED  BY <3>1, <3>3, <3>4, <3>5, <3>6 DEF IInv
  <2>2. ASSUME Unregister(s), NEW p \in {"gone"}, phase' = [phase EXCEPT ![s] = p],
               UNCHANGED <<told, control, channel, opening>>
        PROVE  IInv' /\ (owner' # owner => failed' \/ held' = NoInput)
    <3>1. ControllerStep /\ registered' = registered \ {s}
      BY <1>0, <2>2, UnregisterStep
    <3>2. SessionType'
      BY <1>0, <2>2 DEF SessionType
    <3>3. \A u \in registered' : phase'[u] \in {"setup", "running", "closing"}
      BY <1>0, <2>2, <3>1 DEF SessionType
    <3>4. \A u \in Sessions : phase'[u] = "new" => phase[u] = "new"
      BY <1>0, <2>2 DEF SessionType
    <3> QED  BY <3>1, <3>2, <3>3, <3>4, ControllerStepKeeps DEF ControllerStep
  <2>3. CASE SetupFails(s) \/ CleanUp(s)
    BY <2>2, <2>3 DEF SetupFails, CleanUp
  <2>4. ASSUME UNCHANGED controllerVars, UNCHANGED <<told, control, channel, opening>>,
               phase[s] # "new",
               NEW p \in {"running", "closing"}, phase' = [phase EXCEPT ![s] = p]
        PROVE  IInv' /\ (owner' # owner => failed' \/ held' = NoInput)
    <3>1. ControllerStep
      BY <1>1, <2>4
    <3>2. SessionType'
      BY <1>0, <2>4 DEF SessionType
    <3>3. \A u \in registered' : phase'[u] \in {"setup", "running", "closing"}
      BY <1>0, <2>4, <3>1 DEF SessionType, ControllerStep
    <3>4. \A u \in Sessions : phase'[u] = "new" => phase[u] = "new"
      BY <1>0, <2>4 DEF SessionType
    <3> QED  BY <3>1, <3>2, <3>3, <3>4, ControllerStepKeeps DEF ControllerStep
  <2>5. CASE SetupDone(s) \/ EndSession(s)
    BY <2>4, <2>5 DEF SetupDone, EndSession
  <2>6. CASE TellClient(s)
    <3>1. /\ unseen' = [unseen EXCEPT ![s] = FALSE]
          /\ UNCHANGED <<owner, waiters, registered, tracked, held, failed, lease>>
          /\ UNCHANGED <<phase, control, channel, opening>>
      BY <2>6 DEF TellClient
    <3>2. told' = told \/ told' = [told EXCEPT ![s] = lease[s]]
      BY <2>6 DEF TellClient
    <3>3. ControllerType'
      BY <1>0, <3>1 DEF ControllerType
    <3>4. ControllerStep
      BY <1>0, <3>1, <3>3 DEF ControllerStep, ControllerInv, LeaseAgrees, Waiting, NothingStuck
    <3>5. SessionType'
      BY <1>0, <3>1, <3>2 DEF SessionType, ControllerType
    <3> QED  BY <1>2, <3>1, <3>4, <3>5
  <2> QED  BY <1>4, <2>1, <2>3, <2>5, <2>6 DEF SessionTask
<1>5. ASSUME NEW s \in Sessions, NEW c \in Channels, Callback(s, c)
      PROVE  IInv' /\ (owner' # owner => failed' \/ held' = NoInput)
  <2>1. CASE ChannelOpens(s, c)
    <3>1. SessionType' /\ UNCHANGED phase /\ UNCHANGED controllerVars
      BY <1>0, <2>1 DEF ChannelOpens, SessionType
    <3> QED  BY <1>1, <1>2, <3>1
  <2>2. CASE OnOpenSet(s, c)
    <3>1. SessionType' /\ UNCHANGED phase /\ UNCHANGED controllerVars
      BY <1>0, <2>2 DEF OnOpenSet, SessionType
    <3> QED  BY <1>1, <1>2, <3>1
  <2>3. CASE OnOpenActivate(s, c)
    <3>1. SessionType' /\ UNCHANGED phase /\ Activate(s)
      BY <1>0, <2>3 DEF OnOpenActivate, SessionType
    <3> QED  BY <1>0, <1>2, <3>1, ActivateStep
  <2>4. CASE OnMessage(s, c)
    <3>1. PICK o \in Commands(tracked, held) :
            tracked' = o.tracked /\ held' = o.held /\ failed' = (failed \/ ~o.ok)
      BY <2>4 DEF OnMessage
    <3>2. owner = s /\ UNCHANGED <<owner, waiters, registered, lease, unseen>>
          /\ UNCHANGED sessionVars
      BY <2>4 DEF OnMessage
    <3>3. ControllerStep
      BY <1>0, <3>1, <3>2, CommandStep
    <3>4. SessionType' /\ UNCHANGED phase
      BY <1>0, <3>2 DEF SessionType, sessionVars
    <3> QED  BY <1>2, <3>3, <3>4
  <2>5. CASE OnClose(s, c)
    <3>1. UNCHANGED controllerVars /\ UNCHANGED <<told, phase, opening>>
      BY <2>5 DEF OnClose
    <3>2. control' \in [Sessions -> Channels \cup {NoChannel}]
      BY <1>0, <2>5 DEF OnClose, SessionType
    <3>3. \E v \in {"releasing", "closed"} : channel' = [channel EXCEPT ![s][c] = v]
      BY <2>5 DEF OnClose
    <3>4. channel' \in [Sessions -> [Channels -> {"new", "open", "releasing", "closed"}]]
      BY <1>0, <3>3 DEF SessionType
    <3>5. SessionType' /\ UNCHANGED phase
      BY <1>0, <3>1, <3>2, <3>4 DEF SessionType
    <3> QED  BY <1>1, <1>2, <3>1, <3>5
  <2>6. CASE OnCloseRelease(s, c)
    <3>1. SessionType' /\ UNCHANGED phase /\ Unregister(s)
      BY <1>0, <2>6 DEF OnCloseRelease, SessionType
    <3> QED  BY <1>0, <1>2, <3>1, UnregisterStep
  <2> QED  BY <1>5, <2>1, <2>2, <2>3, <2>4, <2>5, <2>6 DEF Callback
<1> QED  BY <1>3, <1>4, <1>5 DEF Next

-----------------------------------------------------------------------------
\* The state of the controller and of the sessions has its type, the owner
\* and the waiters are sessions that may control (controller.rs:64-83).
THEOREM TypeCorrect == Spec => []TypeOK
<1>1. Init => IInv
  BY StartsIInv
<1>2. IInv /\ [Next]_vars => IInv'
  BY KeepsIInv
<1>3. IInv => TypeOK
  BY DEF IInv
<1> QED  BY <1>1, <1>2, <1>3, PTL DEF Spec

\* Owner, queue and leases agree after every call (controller.rs:85-142).
THEOREM LeasesAgree == Spec => []LeaseAgrees
<1>1. Init => IInv
  BY StartsIInv
<1>2. IInv /\ [Next]_vars => IInv'
  BY KeepsIInv
<1>3. IInv => LeaseAgrees
  BY DEF IInv
<1> QED  BY <1>1, <1>2, <1>3, PTL DEF Spec

\* Sessions that are gone have no part in control, whenever their callbacks
\* run (peer.rs:252-321).
THEOREM GoneSessionsDoNotControl == Spec => []OnlyLiveSessionsControl
<1>1. Init => IInv
  BY StartsIInv
<1>2. IInv /\ [Next]_vars => IInv'
  BY KeepsIInv
<1>3. IInv => OnlyLiveSessionsControl
  BY DEF IInv
<1> QED  BY <1>1, <1>2, <1>3, PTL DEF Spec

\* Unless an event was rejected, Latitude knows what it holds pressed, and
\* nothing is while nobody controls (controller.rs:145-148, input.rs:70-194).
THEOREM NothingStaysPressed == Spec => []NothingStuck
<1>1. Init => IInv
  BY StartsIInv
<1>2. IInv /\ [Next]_vars => IInv'
  BY KeepsIInv
<1>3. IInv => NothingStuck
  BY DEF IInv
<1> QED  BY <1>1, <1>2, <1>3, PTL DEF Spec

\* Control never passes on with a key or button pressed, unless an event was
\* rejected (controller.rs:124-142).
THEOREM ControlPassesReleased == Spec => HandOverReleases
<1>1. Init => IInv
  BY StartsIInv
<1>2. IInv /\ [Next]_vars => IInv'
  BY KeepsIInv
<1>3. IInv /\ [Next]_vars => [owner' # owner => failed' \/ held' = NoInput]_vars
  BY KeepsIInv
<1> QED  BY <1>1, <1>2, <1>3, PTL DEF Spec, HandOverReleases

-----------------------------------------------------------------------------
(***************************************************************************)
(* What the clients are told.                                              *)
(***************************************************************************)

\* No channel of the session has begun to close.
Unclosed(s) == \A c \in Channels : channel[s][c] \in {"new", "open"}

Remembered(s) == \E c \in Channels : opening[s][c] \in {"activate", "done"}

\* on_open runs once its channel is open, remembers the channel before it
\* activates the session, and only a close makes a session forget it.
OpenedInOrder ==
  \A s \in Sessions :
    /\ \A c \in Channels : opening[s][c] # "idle" => channel[s][c] # "new"
    /\ control[s] # NoChannel => opening[s][control[s]] \in {"activate", "done"}
    /\ Remembered(s) /\ Unclosed(s) => control[s] # NoChannel

\* A lease is pending until some on_open has activated the session, and each
\* later one is told, or waits to be seen, unless a channel was closed.
LeasesTold ==
  \A s \in registered :
    /\ lease[s] # "pending" => Remembered(s)
    /\ lease[s] # "pending" /\ ~unseen[s] /\ Unclosed(s) => told[s] = lease[s]

ToldInv == OpenedInOrder /\ LeasesTold

\* The registered sessions keep their leases, or get one to be seen; those
\* outside A that get one had one.
LeaseStep(A) ==
  /\ registered' \subseteq registered
  /\ \A u \in registered' :
       \/ lease'[u] = lease[u] /\ unseen'[u] = unseen[u]
       \/ unseen'[u] /\ (u \in A \/ lease[u] # "pending")

LEMMA ActivatePublishes ==
  ASSUME ControllerType, NEW s \in Sessions, Activate(s)
  PROVE  LeaseStep({s})
BY DEF ControllerType, Activate, Publish, LeaseStep, Controlling

LEMMA UnregisterPublishes ==
  ASSUME ControllerType, LeaseAgrees, NEW s \in Sessions, Unregister(s)
  PROVE  LeaseStep({})
<1>1. registered' = registered \ {s} /\ registered' \subseteq Sessions
  BY DEF Unregister, ControllerType, Controlling
<1>2. CASE owner # s
  BY <1>1, <1>2 DEF Unregister, LeaseStep
<1>3. CASE owner = s
  <2> DEFINE rest == Without(waiters, s)
  <2>1. HandOver(rest, registered \ {s})
    BY <1>3 DEF Unregister
  <2>2. ASSUME UNCHANGED <<lease, unseen>>
        PROVE  LeaseStep({})
    BY <2>2, <1>1 DEF LeaseStep
  <2>3. ASSUME NEW i \in DOMAIN rest, rest[i] \in registered \ {s}, Publish(rest[i], "granted")
        PROVE  LeaseStep({})
    <3>1. In(rest, rest[i])
      BY <2>3 DEF In
    <3>2. In(waiters, rest[i])
      <4>1. waiters \in Seq(Controlling) /\ Distinct(waiters)
        BY LeaseAgreesIn DEF ControllerType
      <4> HIDE DEF rest
      <4>2. \A u : In(rest, u) => In(waiters, u)
        BY <4>1, WithoutRemoves DEF rest
      <4> QED  BY <3>1, <4>2
    <3>3. lease[rest[i]] # "pending"
      BY <2>3, <3>2, LeaseAgreesIn
    <3> HIDE DEF rest
    <3> QED  BY <2>3, <3>3, <1>1 DEF Publish, LeaseStep, ControllerType
  <2> HIDE DEF rest
  <2> QED  BY <2>1, <2>2, <2>3 DEF HandOver
<1> QED  BY <1>2, <1>3

\* A step of the controller that tells nobody anything.
LEMMA LeaseStepTold ==
  ASSUME LeasesTold, NEW A, LeaseStep(A), UNCHANGED told,
         \A s \in registered : Unclosed(s)' => Unclosed(s),
         \A s \in registered : Remembered(s) => Remembered(s)',
         \A s \in registered : s \in A => Remembered(s)'
  PROVE  LeasesTold'
BY DEF LeasesTold, LeaseStep

\* A call of the controller touches no channel.
LEMMA SessionsKeep ==
  ASSUME OpenedInOrder, UNCHANGED <<control, channel, opening>>
  PROVE  /\ OpenedInOrder'
         /\ \A s \in Sessions : Unclosed(s)' <=> Unclosed(s)
         /\ \A s \in Sessions : Remembered(s)' <=> Remembered(s)
BY DEF OpenedInOrder, Unclosed, Remembered

LEMMA StartsToldInv ==
  ASSUME Init
  PROVE  ToldInv
BY SessionAssumption DEF Init, ToldInv, OpenedInOrder, LeasesTold, Remembered

LEMMA TaskKeepsTold ==
  ASSUME IInv, ToldInv, NEW s \in Sessions, SessionTask(s)
  PROVE  ToldInv'
<1>0. /\ ControllerType /\ SessionType /\ LeaseAgrees /\ OpenedInOrder /\ LeasesTold
      /\ registered \subseteq Sessions
  BY TypeParts DEF IInv, ToldInv, ControllerType, Controlling
<1>1. UNCHANGED <<control, channel, opening>>
  BY DEF SessionTask, Subscribe, SetupFails, SetupDone, TellClient, EndSession, CleanUp
<1>2. /\ OpenedInOrder'
      /\ \A u \in Sessions : Unclosed(u)' <=> Unclosed(u)
      /\ \A u \in Sessions : Remembered(u)' <=> Remembered(u)
  BY <1>0, <1>1, SessionsKeep
<1>3. CASE Subscribe(s)
  <2>1. /\ phase[s] = "new" /\ UNCHANGED <<lease, unseen, told>>
        /\ registered' = IF s \in ViewOnly THEN registered ELSE registered \cup {s}
    BY <1>3 DEF Subscribe
  <2>2. s \notin ViewOnly => lease[s] = "pending"
    BY <2>1 DEF IInv, PendingUntilActivated, Controlling
  <2>3. LeasesTold'
    BY <2>1, <2>2, <1>0, <1>2 DEF LeasesTold
  <2> QED  BY <2>3, <1>2 DEF ToldInv
<1>4. CASE SetupFails(s) \/ CleanUp(s)
  <2>1. LeaseStep({}) /\ UNCHANGED told
    BY <1>4, <1>0, UnregisterPublishes DEF SetupFails, CleanUp
  <2>2. LeasesTold'
    BY <2>1, <1>0, <1>2, LeaseStepTold
  <2> QED  BY <2>2, <1>2 DEF ToldInv
<1>5. CASE SetupDone(s) \/ EndSession(s)
  <2>1. UNCHANGED <<registered, lease, unseen, told>>
    BY <1>5 DEF SetupDone, EndSession, controllerVars
  <2>2. LeasesTold'
    BY <2>1, <1>0, <1>2 DEF LeasesTold
  <2> QED  BY <2>2, <1>2 DEF ToldInv
<1>6. CASE TellClient(s)
  <2>1. /\ unseen' = [unseen EXCEPT ![s] = FALSE]
        /\ told' = IF control[s] # NoChannel /\ channel[s][control[s]] = "open"
                     THEN [told EXCEPT ![s] = lease[s]] ELSE told
        /\ UNCHANGED <<registered, lease>>
    BY <1>6 DEF TellClient
  <2>2. ASSUME NEW u \in registered
        PROVE  /\ (lease[u] # "pending" => Remembered(u))'
               /\ (lease[u] # "pending" /\ ~unseen[u] /\ Unclosed(u) => told[u] = lease[u])'
    <3>1. CASE u # s
      BY <3>1, <2>1, <1>0, <1>2 DEF LeasesTold, ControllerType, SessionType
    <3>2. CASE u = s
      <4>1. (lease[s] # "pending" => Remembered(s))'
        BY <3>2, <2>1, <1>0, <1>2 DEF LeasesTold
      <4>2. ASSUME lease[s] # "pending", Unclosed(s)
            PROVE  told'[s] = lease[s]
        <5>1. Remembered(s) /\ control[s] # NoChannel
          BY <3>2, <4>2, <1>0 DEF LeasesTold, OpenedInOrder
        <5>2. control[s] \in Channels /\ channel[s][control[s]] # "new"
          BY <5>1, <1>0 DEF OpenedInOrder, SessionType
        <5>3. channel[s][control[s]] = "open"
          BY <5>2, <4>2 DEF Unclosed
        <5> QED  BY <5>1, <5>3, <2>1, <1>0 DEF SessionType
      <4> QED  BY <3>2, <4>1, <4>2, <2>1, <1>2
    <3> QED  BY <3>1, <3>2
  <2>3. LeasesTold'
    BY <2>1, <2>2 DEF LeasesTold
  <2> QED  BY <2>3, <1>2 DEF ToldInv
<1> QED  BY <1>3, <1>4, <1>5, <1>6 DEF SessionTask

LEMMA CallbackKeepsTold ==
  ASSUME IInv, ToldInv, NEW s \in Sessions, NEW c \in Channels, Callback(s, c)
  PROVE  ToldInv'
<1>0. /\ ControllerType /\ SessionType /\ LeaseAgrees /\ OpenedInOrder /\ LeasesTold
      /\ registered \subseteq Sessions
  BY TypeParts DEF IInv, ToldInv, ControllerType, Controlling
<1>. USE DEF SessionType
<1>1. CASE ChannelOpens(s, c)
  <2>1. /\ channel[s][c] = "new"
        /\ channel' = [channel EXCEPT ![s][c] = "open"]
        /\ opening' = [opening EXCEPT ![s][c] = "set"]
        /\ UNCHANGED <<registered, lease, unseen, told, control>>
    BY <1>1 DEF ChannelOpens, controllerVars
  <2>2. opening[s][c] = "idle" /\ control[s] # c
    BY <2>1, <1>0, SessionAssumption DEF OpenedInOrder
  <2>3. \A u \in Sessions : /\ Unclosed(u)' => Unclosed(u)
                            /\ Remembered(u)' <=> Remembered(u)
    BY <2>1, <2>2, <1>0 DEF Unclosed, Remembered
  <2>4. OpenedInOrder'
    <3> SUFFICES ASSUME NEW u \in Sessions
                 PROVE  /\ \A d \in Channels : opening'[u][d] # "idle" => channel'[u][d] # "new"
                        /\ control'[u] # NoChannel => opening'[u][control'[u]] \in {"activate", "done"}
                        /\ Remembered(u)' /\ Unclosed(u)' => control'[u] # NoChannel
      BY DEF OpenedInOrder
    <3>1. \A d \in Channels : opening'[u][d] # "idle" => channel'[u][d] # "new"
      BY <2>1, <1>0 DEF OpenedInOrder
    <3>2. control'[u] # NoChannel => opening'[u][control'[u]] \in {"activate", "done"}
      BY <2>1, <2>2, <1>0 DEF OpenedInOrder
    <3>3. Remembered(u)' /\ Unclosed(u)' => control'[u] # NoChannel
      BY <2>1, <2>3, <1>0 DEF OpenedInOrder
    <3> QED  BY <3>1, <3>2, <3>3
  <2>5. LeasesTold'
    BY <2>1, <2>3, <1>0 DEF LeasesTold
  <2> QED  BY <2>4, <2>5 DEF ToldInv
<1>2. CASE OnOpenSet(s, c)
  <2>1. /\ opening[s][c] = "set"
        /\ opening' = [opening EXCEPT ![s][c] = "activate"]
        /\ control' = [control EXCEPT ![s] = c]
        /\ UNCHANGED <<registered, lease, unseen, told, channel>>
    BY <1>2 DEF OnOpenSet, controllerVars
  <2>2. \A u \in Sessions : /\ Unclosed(u)' <=> Unclosed(u)
                            /\ Remembered(u) => Remembered(u)'
                            /\ u # s => (Remembered(u)' <=> Remembered(u))
    BY <2>1, <1>0 DEF Unclosed, Remembered
  <2>3. OpenedInOrder'
    <3> SUFFICES ASSUME NEW u \in Sessions
                 PROVE  /\ \A d \in Channels : opening'[u][d] # "idle" => channel'[u][d] # "new"
                        /\ control'[u] # NoChannel => opening'[u][control'[u]] \in {"activate", "done"}
                        /\ Remembered(u)' /\ Unclosed(u)' => control'[u] # NoChannel
      BY DEF OpenedInOrder
    <3>1. \A d \in Channels : opening'[u][d] # "idle" => channel'[u][d] # "new"
      BY <2>1, <1>0 DEF OpenedInOrder
    <3>2. control'[u] # NoChannel => opening'[u][control'[u]] \in {"activate", "done"}
      BY <2>1, <1>0 DEF OpenedInOrder
    <3>3. Remembered(u)' /\ Unclosed(u)' => control'[u] # NoChannel
      BY <2>1, <2>2, <1>0, SessionAssumption DEF OpenedInOrder
    <3> QED  BY <3>1, <3>2, <3>3
  <2>4. LeasesTold'
    BY <2>1, <2>2, <1>0 DEF LeasesTold
  <2> QED  BY <2>3, <2>4 DEF ToldInv
<1>3. CASE OnOpenActivate(s, c)
  <2>1. /\ opening[s][c] = "activate"
        /\ opening' = [opening EXCEPT ![s][c] = "done"]
        /\ UNCHANGED <<told, control, channel>>
    BY <1>3 DEF OnOpenActivate
  <2>2. \A u \in Sessions : /\ Unclosed(u)' <=> Unclosed(u)
                            /\ Remembered(u)' <=> Remembered(u)
                            /\ u \in {s} => Remembered(u)'
    BY <2>1, <1>0 DEF Unclosed, Remembered
  <2>3. OpenedInOrder'
    BY <2>1, <2>2, <1>0 DEF OpenedInOrder
  <2>4. LeaseStep({s})
    BY <1>3, <1>0, ActivatePublishes DEF OnOpenActivate
  <2>5. LeasesTold'
    BY <2>1, <2>2, <2>4, <1>0, LeaseStepTold
  <2> QED  BY <2>3, <2>5 DEF ToldInv
<1>4. CASE OnMessage(s, c)
  <2>1. UNCHANGED <<registered, lease, unseen, told, control, channel, opening>>
    BY <1>4 DEF OnMessage, sessionVars
  <2> QED  BY <2>1, <1>0, SessionsKeep DEF ToldInv, LeasesTold
<1>5. CASE OnClose(s, c)
  <2>1. /\ channel[s][c] = "open"
        /\ control' = IF control[s] = c THEN [control EXCEPT ![s] = NoChannel] ELSE control
        /\ UNCHANGED <<registered, lease, unseen, told, opening>>
    BY <1>5 DEF OnClose, controllerVars
  <2>2. PICK v \in {"releasing", "closed"} : channel' = [channel EXCEPT ![s][c] = v]
    BY <1>5 DEF OnClose
  <2>3. \A u \in Sessions : /\ Unclosed(u)' => Unclosed(u) /\ u # s
                            /\ Remembered(u)' <=> Remembered(u)
    BY <2>1, <2>2, <1>0 DEF Unclosed, Remembered
  <2>4. OpenedInOrder'
    BY <2>1, <2>2, <2>3, <1>0, SessionAssumption DEF OpenedInOrder
  <2>5. LeasesTold'
    BY <2>1, <2>3, <1>0 DEF LeasesTold
  <2> QED  BY <2>4, <2>5 DEF ToldInv
<1>6. CASE OnCloseRelease(s, c)
  <2>1. /\ channel[s][c] = "releasing"
        /\ channel' = [channel EXCEPT ![s][c] = "closed"]
        /\ UNCHANGED <<told, control, opening>>
    BY <1>6 DEF OnCloseRelease
  <2>2. \A u \in Sessions : /\ Unclosed(u)' <=> Unclosed(u)
                            /\ Remembered(u)' <=> Remembered(u)
    BY <2>1, <1>0 DEF Unclosed, Remembered
  <2>3. OpenedInOrder'
    BY <2>1, <2>2, <1>0 DEF OpenedInOrder
  <2>4. LeaseStep({})
    BY <1>6, <1>0, UnregisterPublishes DEF OnCloseRelease
  <2>5. LeasesTold'
    BY <2>1, <2>2, <2>4, <1>0, LeaseStepTold
  <2> QED  BY <2>3, <2>5 DEF ToldInv
<1> QED  BY <1>1, <1>2, <1>3, <1>4, <1>5, <1>6 DEF Callback

\* A client whose only channel is open knows its lease once its task has
\* caught up, whatever the order of its callbacks and of other sessions
\* (peer.rs:253-260, mod.rs:164-178).
THEOREM ClientsAreTold == Spec => []ClientTold
<1>1. Init => IInv /\ ToldInv
  BY StartsIInv, StartsToldInv
<1>2. ASSUME IInv, ToldInv, UNCHANGED vars
      PROVE  ToldInv'
  BY <1>2, SessionsKeep DEF ToldInv, LeasesTold, vars, controllerVars, sessionVars,
     OpenedInOrder, Remembered, Unclosed
<1>3. IInv /\ ToldInv /\ [Next]_vars => IInv' /\ ToldInv'
  BY <1>2, KeepsIInv, TaskKeepsTold, CallbackKeepsTold DEF Next
<1>4. ToldInv => ClientTold
  BY DEF ToldInv, LeasesTold, ClientTold, Unclosed
<1> QED  BY <1>1, <1>3, <1>4, PTL DEF Spec

=============================================================================
