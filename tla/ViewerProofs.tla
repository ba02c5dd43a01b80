---------------------------- MODULE ViewerProofs ----------------------------
(***************************************************************************)
(* The invariants of what a viewer of the desktop has to do with: the      *)
(* signalling between a page and its session task (PeerSession), the       *)
(* screens it is shown (DesktopScreens), and the capture it watches        *)
(* (DesktopCapture); for all connections, displays, modes, outputs and     *)
(* tiles, and whatever the bounds.  Of each: the initial states, every     *)
(* step, and what the invariant says of the properties.  HelperProofs      *)
(* makes them a theorem of the suite.                                      *)
(***************************************************************************)
EXTENDS Viewers, FiniteSetTheorems, SequenceTheorems, TLAPS

-----------------------------------------------------------------------------
(***************************************************************************)
(* Signalling between a page and its session (PeerSession)                 *)
(***************************************************************************)

\* What the code has of connections.
LEMMA PeersGiven ==
  Connections \subseteq Nat \ {0} /\ Resolvable \subseteq Connections /\ MaxBreaks \in Nat
BY ViewerAssumptions DEF Peers!PeersAssumption

PeersTyped(p, u, d, t, r) ==
  /\ p \in Peers!Pages /\ u \in Seq(Peers!UpMessages) /\ d \in Seq(Peers!DownMessages)
  /\ t \in Peers!TasksOf /\ r \in Peers!ServerPeers

LEMMA MessageTypes ==
  /\ \A m \in Peers!UpMessages : m.type # "offer" => m \in Peers!Candidates
       /\ m.type = "candidate"
  /\ \A m \in Peers!UpMessages : m.type = "offer" => m.candidates \in SUBSET Peers!Candidates
  /\ \A k \in Connections : Peers!Candidate(k, "mdns") \in Peers!Candidates
  /\ \A k \in Connections, known \in SUBSET Peers!Candidates : Peers!Offer(k,
       known) \in Peers!UpMessages
  /\ Peers!Candidate(0, "ip") \in Peers!DownMessages
  /\ \A type \in {"hello", "answer", "error"} : Peers!Plain(type) \in Peers!DownMessages
BY DEF Peers!UpMessages, Peers!Candidates, Peers!OfferMessages, Peers!Candidate,
   Peers!Offer, Peers!DownMessages, Peers!Plain

LEMMA ResolvedTypes ==
  ASSUME NEW k \in Connections, NEW c \in Peers!Candidates
  PROVE  Peers!Resolved(k, c) \in Peers!Candidates /\ (k \in Resolvable => Peers!Resolved(k,
         c).address = "ip")
BY DEF Peers!Resolved, Peers!Candidates

LEMMA NothingTypes ==
  /\ Peers!NoPage \in Peers!Pages /\ Peers!NoTask \in Peers!TasksOf
       /\ Peers!NoPeer \in Peers!ServerPeers
  /\ [Peers!NoPeer EXCEPT !.life = "closed"] \in Peers!ServerPeers
BY DEF Peers!NoPage, Peers!NoTask, Peers!NoPeer, Peers!Pages, Peers!TasksOf,
   Peers!ServerPeers

LEMMA PeersInit == Peers!Init => Peers!PeersInv
<1>. SUFFICES ASSUME Peers!Init PROVE Peers!PeersInv
  OBVIOUS
<1>1. /\ s4 \in [Connections -> Peers!Pages] /\ s5 \in [Connections -> Seq(Peers!UpMessages)]
      /\ s6 \in [Connections -> Seq(Peers!DownMessages)]
      /\ s7 \in [Connections -> Peers!TasksOf] /\ s8 \in [Connections -> Peers!ServerPeers]
  BY NothingTypes DEF Peers!Init
<1>2. ASSUME NEW k \in Connections
      PROVE  Peers!Fits(k, s4[k], s5[k], s6[k], s7[k], s8[k], s1 = k, s3 = k)
  <2>1. /\ s4[k] = Peers!NoPage /\ s5[k] = <<>> /\ s6[k] = <<>> /\ s7[k] = Peers!NoTask
             /\ s8[k] = Peers!NoPeer
        /\ s1 # k /\ s3 # k
    BY PeersGiven DEF Peers!Init
  <2>2. \A i \in DOMAIN <<>> : FALSE
    OBVIOUS
  <2>. QED
    BY <2>1, <2>2 DEF Peers!Fits, Peers!OneAtATime, Peers!SetUp, Peers!OfferFirst,
       Peers!GatheredArrives, Peers!HeardApplied, Peers!Live,
       Peers!NoPage, Peers!NoTask, Peers!NoPeer
<1>. QED
  BY <1>1, <1>2 DEF Peers!Init, Peers!PeersInv

\* What is to be shown of a connection.
PeerHeld(k) ==
  /\ PeersTyped(s4[k], s5[k], s6[k], s7[k], s8[k])
  /\ Peers!Fits(k, s4[k], s5[k], s6[k], s7[k], s8[k], s1 = k, s3 = k)

\* A step of one connection, by which the page moves to no other.
PeerLocal(k) ==
  /\ k <= s2 /\ s1' = s1 /\ s2' = s2
  /\ s3' = s3 \/ (s3 = 0 /\ s3' = k)
  /\ s4' = [s4 EXCEPT ![k] = s4'[k]] /\ s5' = [s5 EXCEPT ![k] = s5'[k]]
  /\ s6' = [s6 EXCEPT ![k] = s6'[k]] /\ s7' = [s7 EXCEPT ![k] = s7'[k]]
  /\ s8' = [s8 EXCEPT ![k] = s8'[k]]

LEMMA LocalStep ==
  ASSUME Peers!PeersInv, NEW k \in Connections, PeerLocal(k), PeerHeld(k)'
  PROVE  Peers!PeersInv'
<1>1. /\ s4' \in [Connections -> Peers!Pages]
           /\ s5' \in [Connections -> Seq(Peers!UpMessages)]
      /\ s6' \in [Connections -> Seq(Peers!DownMessages)]
      /\ s7' \in [Connections -> Peers!TasksOf] /\ s8' \in [Connections -> Peers!ServerPeers]
  BY DEF Peers!PeersInv, PeersTyped, PeerHeld, PeerLocal
<1>2. \A j \in Connections \ {k} :
        /\ s4'[j] = s4[j] /\ s5'[j] = s5[j] /\ s6'[j] = s6[j]
        /\ s7'[j] = s7[j] /\ s8'[j] = s8[j]
  BY DEF Peers!PeersInv, PeerLocal
<1>3. ASSUME NEW j \in Connections
      PROVE  /\ Peers!Fits(j, s4'[j], s5'[j], s6'[j], s7'[j], s8'[j], s1' = j, s3' = j)
             /\ j > s2' => s4'[j] = Peers!NoPage /\ s5'[j] = <<>> /\ s7'[j] = Peers!NoTask
                  /\ s8'[j] = Peers!NoPeer
  <2>1. CASE j = k
    <3>1. ~(k > s2')
      BY PeersGiven DEF Peers!PeersInv, PeerLocal
    <3>. QED
      BY <2>1, <3>1 DEF PeerHeld
  <2>2. CASE j # k
    <3>1. j # 0
      BY PeersGiven
    <3>2. (s3' = j) = (s3 = j) /\ (s1' = j) = (s1 = j)
      BY <2>2, <3>1 DEF PeerLocal
    <3>3. Peers!Fits(j, s4[j], s5[j], s6[j], s7[j], s8[j], s1 = j, s3 = j)
      BY DEF Peers!PeersInv
    <3>4. Peers!Fits(j, s4'[j], s5'[j], s6'[j], s7'[j], s8'[j], s1' = j, s3' = j)
      BY <1>2, <2>2, <3>2, <3>3
    <3>. QED
      BY <1>2, <2>2, <3>4 DEF Peers!PeersInv, PeerLocal
  <2>. QED
    BY <2>1, <2>2
<1>4. /\ s1' \in Connections \cup {0} /\ s3' \in Connections \cup {0}
      /\ s2' \in Nat /\ s1' <= s2'
  BY DEF Peers!PeersInv, PeerLocal
<1>. QED
  BY <1>1, <1>3, <1>4 DEF Peers!PeersInv

\* What a connection is like before a step.
LEMMA Before ==
  ASSUME Peers!PeersInv, NEW k \in Connections
  PROVE  /\ PeerHeld(k) /\ s4[k] \in Peers!Pages /\ s7[k] \in Peers!TasksOf
              /\ s8[k] \in Peers!ServerPeers
         /\ k > s2 => s4[k] = Peers!NoPage /\ s5[k] = <<>> /\ s7[k] = Peers!NoTask
              /\ s8[k] = Peers!NoPeer
         /\ s4 = [s4 EXCEPT ![k] = s4[k]] /\ s5 = [s5 EXCEPT ![k] = s5[k]]
         /\ s6 = [s6 EXCEPT ![k] = s6[k]] /\ s7 = [s7 EXCEPT ![k] = s7[k]]
         /\ s8 = [s8 EXCEPT ![k] = s8[k]]
         /\ k # 0 /\ k \in Nat /\ s2 \in Nat
BY PeersGiven DEF Peers!PeersInv, PeerHeld, PeersTyped

LEMMA AppendFacts ==
  ASSUME NEW S, NEW d \in Seq(S), NEW m \in S
  PROVE  /\ Append(d, m) \in Seq(S) /\ Append(d, m) # <<>>
         /\ Len(Append(d, m)) = Len(d) + 1 /\ Len(d) \in Nat
         /\ DOMAIN Append(d, m) = 1..(Len(d) + 1) /\ DOMAIN d = 1..Len(d)
         /\ Append(d, m)[Len(d) + 1] = m /\ Len(d) + 1 \in DOMAIN Append(d, m)
         /\ \A i \in DOMAIN d : i \in DOMAIN Append(d, m) /\ Append(d, m)[i] = d[i]
         /\ \A i \in DOMAIN Append(d, m) : i \in DOMAIN d \/ i = Len(d) + 1
         /\ Append(d, m)[1] = IF d = <<>> THEN m ELSE d[1]
OBVIOUS

LEMMA TailFacts ==
  ASSUME NEW S, NEW d \in Seq(S), d # <<>>
  PROVE  /\ Tail(d) \in Seq(S) /\ Len(Tail(d)) = Len(d) - 1 /\ Len(d) \in Nat
         /\ 1 \in DOMAIN d /\ Head(d) = d[1] /\ d[1] \in S
         /\ DOMAIN Tail(d) \subseteq Nat \ {0} /\ DOMAIN d = 1..Len(d)
         /\ \A i \in DOMAIN Tail(d) : i + 1 \in DOMAIN d /\ Tail(d)[i] = d[i + 1] /\ i + 1 # 1
         /\ \A i \in DOMAIN d : i = 1 \/ (i - 1 \in DOMAIN Tail(d) /\ Tail(d)[i - 1] = d[i])
         /\ Len(d) = 1 => Tail(d) = <<>>
<1>1. /\ Len(d) \in Nat /\ DOMAIN d = 1..Len(d) /\ Len(d) # 0
      /\ 1 \in DOMAIN d /\ Head(d) = d[1] /\ d[1] \in S
  BY EmptySeq
<1>2. Tail(d) \in Seq(S) /\ Len(Tail(d)) = Len(d) - 1 /\ DOMAIN Tail(d) = 1..(Len(d) - 1)
  BY <1>1
<1>3. \A i \in 1..(Len(d) - 1) : Tail(d)[i] = d[i + 1]
  BY <1>1
<1>4. \A i \in DOMAIN Tail(d) : i + 1 \in DOMAIN d /\ Tail(d)[i] = d[i + 1] /\ i + 1 # 1
  BY <1>1, <1>2, <1>3
<1>5. \A i \in DOMAIN d : i = 1 \/ (i - 1 \in DOMAIN Tail(d) /\ Tail(d)[i - 1] = d[i])
  <2>1. ASSUME NEW i \in 1..Len(d), i # 1
        PROVE  i - 1 \in 1..(Len(d) - 1) /\ (i - 1) + 1 = i
    BY <1>1, <2>1
  <2>2. ASSUME NEW i \in 1..Len(d), i # 1
        PROVE  i - 1 \in DOMAIN Tail(d) /\ Tail(d)[i - 1] = d[i]
    BY <1>2, <1>3, <2>1, <2>2
  <2>. QED
    BY <1>1, <2>2
<1>6. Len(d) = 1 => Tail(d) = <<>>
  BY <1>2
<1>. QED
  BY <1>1, <1>2, <1>4, <1>5, <1>6

\* The page has heard a message.
LEMMA InOrderTail ==
  ASSUME NEW p, NEW p2, NEW t, NEW d \in Seq(Peers!DownMessages), d # <<>>, Peers!InOrder(p,
         d, t),
         p2.step # "none" \/ (d[1].type = "error" /\ p2 = p),
         Peers!Heard(p) \/ d[1].type = "answer" => Peers!Heard(p2),
         p2.starting => p.starting \/ p.step = "none"
  PROVE  Peers!InOrder(p2, Tail(d), t)
<1>1. /\ 1 \in DOMAIN d
      /\ DOMAIN Tail(d) \subseteq Nat \ {0} /\ DOMAIN d = 1..Len(d) /\ Len(d) \in Nat
      /\ Len(Tail(d)) = Len(d) - 1
      /\ \A i \in DOMAIN Tail(d) : i + 1 \in DOMAIN d /\ Tail(d)[i] = d[i + 1] /\ i + 1 # 1
      /\ \A i \in DOMAIN d : i = 1 \/ (i - 1 \in DOMAIN Tail(d) /\ Tail(d)[i - 1] = d[i])
      /\ Len(d) = 1 => Tail(d) = <<>>
  BY TailFacts
<1>2. t.at \notin {"none", "hello"}
  BY DEF Peers!InOrder
<1>3. ASSUME NEW i \in DOMAIN Tail(d)
      PROVE  /\ Tail(d)[i].type # "hello"
             /\ Tail(d)[i].type = "answer" => t.at \notin Peers!Unanswered /\ p2.step # "none"
                  /\ ~p2.starting
             /\ Tail(d)[i].type = "error" => t.at = "gone" /\ i = Len(Tail(d))
             /\ d[1].type # "error"
  <2>1. i + 1 \in DOMAIN d /\ Tail(d)[i] = d[i + 1] /\ i + 1 # 1 /\ i \in Nat
    BY <1>1
  <2>2. d[1].type # "error"
    <3>1. Len(d) # 1
      BY <1>1, <2>1
    <3>2. d[1].type = "error" => Len(d) = 1
      BY <1>1 DEF Peers!InOrder
    <3>. QED
      BY <3>1, <3>2
  <2>3. /\ d[i + 1].type # "hello"
        /\ d[i + 1].type = "answer" => t.at \notin Peers!Unanswered /\ p.step # "none"
             /\ ~p.starting
        /\ d[i + 1].type = "error" => t.at = "gone" /\ i + 1 = Len(d)
    BY <2>1 DEF Peers!InOrder
  <2>4. p2.step # "none"
    BY <2>2
  <2>5. i + 1 = Len(d) => i = Len(Tail(d))
    <3>1. PICK n \in Nat, m \in Nat : n = Len(d) /\ m = i
      BY <1>1, <2>1
    <3>2. Len(Tail(d)) = n - 1
      BY <1>1, <3>1
    <3>3. m + 1 = n => m = n - 1
      BY <3>1
    <3>. QED
      BY <3>1, <3>2, <3>3
  <2>6. Tail(d)[i].type = "answer" => ~p2.starting
    BY <2>1, <2>3
  <2>. QED
    BY <2>1, <2>2, <2>3, <2>4, <2>5, <2>6
<1>4. ASSUME NEW i \in DOMAIN Tail(d), Tail(d)[i].type = "candidate"
      PROVE  t.at \notin Peers!Unanswered /\ (Peers!Heard(p2) \/ \E j \in 1..(i - 1) :
             Tail(d)[j].type = "answer")
  <2>1. i + 1 \in DOMAIN d /\ Tail(d)[i] = d[i + 1] /\ i \in Nat
    BY <1>1
  <2>2. t.at \notin Peers!Unanswered /\ (Peers!Heard(p) \/ \E j \in 1..i :
        d[j].type = "answer")
    BY <1>4, <2>1 DEF Peers!InOrder
  <2>3. ASSUME NEW j \in 1..i, d[j].type = "answer"
        PROVE  Peers!Heard(p2) \/ \E l \in 1..(i - 1) : Tail(d)[l].type = "answer"
    <3>1. CASE j = 1
      BY <2>3, <3>1
    <3>2. CASE j # 1
      <4>1. j \in DOMAIN d /\ j - 1 \in 1..(i - 1)
        BY <1>1, <2>1, <3>2
      <4>2. Tail(d)[j - 1].type = "answer"
        BY <1>1, <2>3, <3>2, <4>1
      <4>. QED
        BY <4>1, <4>2
    <3>. QED
      BY <3>1, <3>2
  <2>. QED
    BY <2>2, <2>3
<1>5. t.at = "run" /\ t.open => Peers!Heard(p2) \/ \E j \in DOMAIN Tail(d) :
      Tail(d)[j].type = "answer"
  <2>1. ASSUME t.at = "run", t.open PROVE Peers!Heard(p) \/ \E j \in DOMAIN d :
               d[j].type = "answer"
    BY <2>1 DEF Peers!InOrder
  <2>. QED
    BY <1>1, <2>1
<1>6. p2.step = "none" => Tail(d) = <<>> /\ t.at = "gone"
  BY <1>1, <1>3 DEF Peers!InOrder
<1>7. \A i \in DOMAIN Tail(d) : Tail(d)[i].type = "hello" => i = 1 /\ p2.step = "none"
  BY <1>3
<1>. QED
  BY <1>2, <1>3, <1>4, <1>5, <1>6, <1>7 DEF Peers!InOrder

-----------------------------------------------------------------------------
\* The page hears something.
LEMMA HearStep ==
  ASSUME Peers!PeersInv, NEW k \in Connections, NEW type, Peers!Hear(k, type), s1 = k,
         NEW p \in Peers!Pages, s4' = [s4 EXCEPT ![k] = p],
         UNCHANGED <<s1, s2, s5, s7, s8>>,
         s3' = s3 \/ (s3 = 0 /\ s3' = k),
         p.step # "none" \/ (type = "error" /\ p = s4[k]),
         Peers!Heard(s4[k]) \/ type = "answer" => Peers!Heard(p),
         p.starting => s4[k].starting \/ s4[k].step = "none",
         Peers!OneAtATime(p, s7[k], TRUE, s3' = k),
         Peers!OfferFirst(k, p, s5[k], s7[k], s3' = k),
         Peers!GatheredArrives(p, s5[k], s7[k], s8[k]), Peers!HeardApplied(p)
  PROVE  Peers!PeersInv'
<1>1. /\ PeerHeld(k)
      /\ s5 = [s5 EXCEPT ![k] = s5[k]] /\ s7 = [s7 EXCEPT ![k] = s7[k]]
      /\ s8 = [s8 EXCEPT ![k] = s8[k]] /\ k \in Nat /\ s2 \in Nat
  BY Before
<1>2. /\ s6[k] # <<>> /\ s6[k] \in Seq(Peers!DownMessages)
      /\ s6[k][1].type = type /\ s6' = [s6 EXCEPT ![k] = Tail(s6[k])]
      /\ Tail(s6[k]) \in Seq(Peers!DownMessages)
  BY <1>1, TailFacts DEF Peers!Hear, PeerHeld, PeersTyped
<1>3. Peers!InOrder(p, Tail(s6[k]), s7[k])
  BY <1>1, <1>2, InOrderTail DEF PeerHeld, Peers!Fits
<1>4. /\ s4'[k] = p /\ s6'[k] = Tail(s6[k])
  BY <1>2 DEF Peers!PeersInv
<1>5. PeersTyped(p, s5[k], Tail(s6[k]), s7[k], s8[k])
  BY <1>1, <1>2 DEF PeerHeld, PeersTyped
<1>6. PeerHeld(k)'
  BY <1>1, <1>3, <1>4, <1>5 DEF PeerHeld, Peers!Fits
<1>7. PeerLocal(k)
  BY <1>1, <1>2, <1>4 DEF PeerLocal, Peers!PeersInv
<1>. QED
  BY <1>6, <1>7, LocalStep

\* What the page hears shows how far it is.
LEMMA HeardWhen ==
  ASSUME Peers!PeersInv, NEW k \in Connections, NEW type, Peers!Hear(k, type), s1 = k
  PROVE  /\ type = "hello" => s4[k] = Peers!NoPage /\ s3 = 0
         /\ type \in {"answer", "candidate"} => s3 = k
         /\ type = "answer" => ~s4[k].starting
         /\ type = "candidate" => Peers!Heard(s4[k])
         /\ s3 \in {0, k}
<1>1. PeerHeld(k)
  BY Before
<1>2. /\ s6[k] # <<>> /\ s6[k] \in Seq(Peers!DownMessages) /\ 1 \in DOMAIN s6[k]
      /\ s6[k][1].type = type
  BY <1>1, TailFacts DEF Peers!Hear, PeerHeld, PeersTyped
<1>3. /\ Peers!InOrder(s4[k], s6[k], s7[k]) /\ Peers!OneAtATime(s4[k], s7[k], TRUE, s3 = k)
      /\ Peers!OfferFirst(k, s4[k], s5[k], s7[k], s3 = k)
  BY <1>1 DEF PeerHeld, Peers!Fits
<1>4. s3 \in {0, k}
  <2>1. ASSUME s3 \in Connections PROVE s3 = s1
    <3>1. Peers!Fits(s3, s4[s3], s5[s3], s6[s3], s7[s3],
               s8[s3], s1 = s3, TRUE)
      BY <2>1 DEF Peers!PeersInv
    <3>. QED
      BY <3>1 DEF Peers!Fits, Peers!OneAtATime
  <2>. QED
    BY <2>1 DEF Peers!PeersInv
<1>5. type = "hello" => s4[k] = Peers!NoPage /\ s3 # k
  BY <1>2, <1>3 DEF Peers!InOrder, Peers!OneAtATime, Peers!OfferFirst, Peers!Live
<1>6. /\ type \in {"answer", "candidate"} => s4[k].step # "none"
      /\ type = "answer" => ~s4[k].starting
      /\ type = "candidate" => Peers!Heard(s4[k])
  BY <1>2, <1>3 DEF Peers!InOrder
<1>7. s4[k].step # "none" => s3 = k
  BY <1>1, <1>3 DEF Peers!OneAtATime, Peers!Live, PeerHeld, PeersTyped, Peers!Pages
<1>. QED
  BY <1>4, <1>5, <1>6, <1>7

LEMMA HearSteps ==
  ASSUME Peers!PeersInv, NEW k \in Connections, Peers!HearHello(k) \/ Peers!HearAnswer(k)
         \/ Peers!HearCandidate(k) \/ Peers!HearError(k)
  PROVE  Peers!PeersInv'
<1>1. /\ PeerHeld(k) /\ s4 = [s4 EXCEPT ![k] = s4[k]] /\ s4[k] \in Peers!Pages /\ k # 0
  BY Before
<1>2. /\ Peers!OneAtATime(s4[k], s7[k], s1 = k, s3 = k)
      /\ Peers!OfferFirst(k, s4[k], s5[k], s7[k], s3 = k)
      /\ Peers!GatheredArrives(s4[k], s5[k], s7[k], s8[k]) /\ Peers!HeardApplied(s4[k])
  BY <1>1 DEF PeerHeld, Peers!Fits
<1>3. s1 = k /\ UNCHANGED <<s1, s2, s5, s7, s8>>
  BY DEF Peers!HearHello, Peers!HearAnswer, Peers!HearCandidate, Peers!HearError
<1>4. ASSUME Peers!HearHello(k) PROVE Peers!PeersInv'
  <2>1. Peers!Hear(k, "hello")
    BY <1>4 DEF Peers!HearHello
  <2>2. s4[k] = Peers!NoPage /\ s3 = 0
    BY <1>3, <2>1, HeardWhen
  <2>3. s3' = k /\ s4' = [s4 EXCEPT ![k].step = "offering", ![k].starting = TRUE]
    BY <1>4, <2>2 DEF Peers!HearHello
  <2>. DEFINE p == [Peers!NoPage EXCEPT !.step = "offering", !.starting = TRUE]
  <2>4. s4' = [s4 EXCEPT ![k] = p]
    BY <1>1, <2>2, <2>3
  <2>5. /\ p \in Peers!Pages /\ p.step = "offering" /\ p.starting /\ ~p.remote /\ ~p.offerSent
             /\ ~p.gathered
        /\ p.applied = 0 /\ p.waiting = 0 /\ p.heard = 0
    BY DEF Peers!NoPage, Peers!Pages
  <2>6. /\ s4[k].step = "none" /\ ~s4[k].remote
    BY <2>2 DEF Peers!NoPage
  <2>. HIDE DEF p
  <2>7. Peers!OneAtATime(p, s7[k], TRUE, s3' = k)
    BY <1>2, <1>3, <2>3, <2>5 DEF Peers!OneAtATime, Peers!Live
  <2>8. Peers!OfferFirst(k, p, s5[k], s7[k], s3' = k)
    BY <1>2, <2>5, <2>6 DEF Peers!OfferFirst
  <2>9. Peers!GatheredArrives(p, s5[k], s7[k], s8[k]) /\ Peers!HeardApplied(p)
    BY <2>5 DEF Peers!GatheredArrives, Peers!HeardApplied
  <2>10. ~Peers!Heard(s4[k])
    BY <2>6 DEF Peers!Heard
  <2>11. /\ p.step # "none" \/ ("hello" = "error" /\ p = s4[k])
         /\ Peers!Heard(s4[k]) \/ "hello" = "answer" => Peers!Heard(p)
         /\ p.starting => s4[k].starting \/ s4[k].step = "none"
         /\ s3' = s3 \/ (s3 = 0 /\ s3' = k)
    BY <2>2, <2>3, <2>5, <2>6, <2>10
  <2>12. p \in Peers!Pages
    BY <2>5
  <2>. QED
    BY <1>3, <2>1, <2>4, <2>7, <2>8, <2>9, <2>11, <2>12, HearStep
<1>5. ASSUME Peers!HearAnswer(k) PROVE Peers!PeersInv'
  <2>1. Peers!Hear(k, "answer") /\ s3' = s3
    BY <1>5 DEF Peers!HearAnswer
  <2>2. s3 = k /\ ~s4[k].starting
    BY <1>3, <2>1, HeardWhen
  <2>. DEFINE p == [s4[k] EXCEPT !.step = "accepting"]
  <2>3. s4' = [s4 EXCEPT ![k] = p]
    BY <1>1, <1>5, <2>2 DEF Peers!HearAnswer
  <2>4. /\ p \in Peers!Pages /\ p.step = "accepting" /\ p.starting = s4[k].starting
        /\ p.remote = s4[k].remote /\ p.offerSent = s4[k].offerSent
             /\ p.gathered = s4[k].gathered
        /\ p.local = s4[k].local
        /\ p.applied = s4[k].applied /\ p.waiting = s4[k].waiting /\ p.heard = s4[k].heard
    BY <1>1 DEF Peers!Pages
  <2>. HIDE DEF p
  <2>5. s4[k].step \in {"offering", "offered", "accepting"}
    BY <1>2, <2>2 DEF Peers!OneAtATime, Peers!Live
  <2>7. Peers!OneAtATime(p, s7[k], TRUE, s3' = k)
    BY <1>2, <1>3, <2>1, <2>2, <2>4 DEF Peers!OneAtATime, Peers!Live
  <2>8. Peers!OfferFirst(k, p, s5[k], s7[k], s3' = k)
    BY <1>2, <2>2, <2>4, <2>5 DEF Peers!OfferFirst
  <2>9. Peers!GatheredArrives(p, s5[k], s7[k], s8[k]) /\ Peers!HeardApplied(p)
    BY <1>2, <2>4 DEF Peers!GatheredArrives, Peers!HeardApplied
  <2>10. Peers!Heard(p)
    BY <2>4 DEF Peers!Heard
  <2>. QED
    BY <1>3, <2>1, <2>2, <2>3, <2>4, <2>7, <2>8, <2>9, <2>10, HearStep
<1>6. ASSUME Peers!HearCandidate(k) PROVE Peers!PeersInv'
  <2>1. Peers!Hear(k, "candidate") /\ s3' = s3
    BY <1>6 DEF Peers!HearCandidate
  <2>2. s3 = k /\ Peers!Heard(s4[k])
    BY <1>3, <2>1, HeardWhen
  <2>. DEFINE p == [s4[k] EXCEPT !.heard = @ + 1,
                                   !.applied = IF s4[k].remote THEN @ + 1 ELSE @,
                                   !.waiting = IF s4[k].remote THEN @ ELSE @ + 1]
  <2>3. s4' = [s4 EXCEPT ![k] = p]
    BY <1>1, <1>6, <2>2 DEF Peers!HearCandidate
  <2>4. /\ p.step = s4[k].step /\ p.starting = s4[k].starting
        /\ p.remote = s4[k].remote /\ p.offerSent = s4[k].offerSent
             /\ p.gathered = s4[k].gathered
        /\ p.local = s4[k].local
    BY <1>1 DEF Peers!Pages
  <2>5. /\ p.heard = s4[k].heard + 1
        /\ p.applied = IF s4[k].remote THEN s4[k].applied + 1 ELSE s4[k].applied
        /\ p.waiting = IF s4[k].remote THEN s4[k].waiting ELSE s4[k].waiting + 1
        /\ s4[k].heard \in Nat /\ s4[k].applied \in Nat /\ s4[k].waiting \in Nat
    BY <1>1 DEF Peers!Pages
  <2>6. p \in Peers!Pages
    <3>1. PICK h, a, w : /\ h = s4[k].heard + 1
                         /\ a = (IF s4[k].remote THEN s4[k].applied + 1 ELSE s4[k].applied)
                         /\ w = (IF s4[k].remote THEN s4[k].waiting ELSE s4[k].waiting + 1)
      OBVIOUS
    <3>2. h \in Nat /\ a \in Nat /\ w \in Nat
      BY <2>5, <3>1
    <3>3. p = [s4[k] EXCEPT !.heard = h, !.applied = a, !.waiting = w]
      BY <1>1, <3>1 DEF Peers!Pages
    <3>. QED
      BY <1>1, <3>2, <3>3 DEF Peers!Pages
  <2>. HIDE DEF p
  <2>12. s4[k].step \in {"offering", "offered", "accepting"}
    BY <1>2, <2>2 DEF Peers!OneAtATime, Peers!Live
  <2>7. Peers!OneAtATime(p, s7[k], TRUE, s3' = k)
    BY <1>2, <1>3, <2>1, <2>2, <2>4 DEF Peers!OneAtATime, Peers!Live
  <2>8. Peers!OfferFirst(k, p, s5[k], s7[k], s3' = k)
    BY <1>2, <2>1, <2>2, <2>4, <2>12 DEF Peers!OfferFirst
  <2>9. Peers!GatheredArrives(p, s5[k], s7[k], s8[k])
    BY <1>2, <2>4 DEF Peers!GatheredArrives
  <2>10. Peers!HeardApplied(p)
    BY <1>2, <2>2, <2>4, <2>5 DEF Peers!HeardApplied, Peers!Heard
  <2>11. Peers!Heard(p)
    BY <2>2, <2>4 DEF Peers!Heard
  <2>. QED
    BY <1>3, <2>1, <2>2, <2>3, <2>4, <2>6, <2>7, <2>8, <2>9, <2>10, <2>11, <2>12,
       HearStep
<1>7. ASSUME Peers!HearError(k) PROVE Peers!PeersInv'
  <2>1. Peers!Hear(k, "error") /\ s3' = s3 /\ s4' = s4
    BY <1>7 DEF Peers!HearError
  <2>2. /\ Peers!OneAtATime(s4[k], s7[k], TRUE, s3' = k)
        /\ Peers!OfferFirst(k, s4[k], s5[k], s7[k], s3' = k)
    BY <1>2, <1>3, <2>1
  <2>3. s4' = [s4 EXCEPT ![k] = s4[k]]
    BY <1>1, <2>1
  <2>4. /\ s4[k].step # "none" \/ ("error" = "error" /\ s4[k] = s4[k])
        /\ Peers!Heard(s4[k]) \/ "error" = "answer" => Peers!Heard(s4[k])
        /\ s4[k].starting => s4[k].starting \/ s4[k].step = "none"
    OBVIOUS
  <2>. QED
    BY <1>1, <1>2, <1>3, <2>1, <2>2, <2>3, <2>4, HearStep
<1>. QED
  BY <1>4, <1>5, <1>6, <1>7

\* The page's own steps.
LEMMA GatherStep ==
  ASSUME Peers!PeersInv, NEW k \in Connections, Peers!Gather(k)
  PROVE  Peers!PeersInv'
<1>1. /\ PeerHeld(k) /\ s4 = [s4 EXCEPT ![k] = s4[k]] /\ s4[k] \in Peers!Pages /\ k # 0
      /\ s5 = [s5 EXCEPT ![k] = s5[k]] /\ s6 = [s6 EXCEPT ![k] = s6[k]]
      /\ s7 = [s7 EXCEPT ![k] = s7[k]] /\ s8 = [s8 EXCEPT ![k] = s8[k]]
      /\ s5[k] \in Seq(Peers!UpMessages)
      /\ k > s2 => s4[k] = Peers!NoPage
      /\ k \in Nat /\ s2 \in Nat
  BY Before DEF PeerHeld, PeersTyped
<1>2. /\ Peers!OneAtATime(s4[k], s7[k], s1 = k, s3 = k)
      /\ Peers!OfferFirst(k, s4[k], s5[k], s7[k], s3 = k)
      /\ Peers!GatheredArrives(s4[k], s5[k], s7[k], s8[k]) /\ Peers!HeardApplied(s4[k])
  BY <1>1 DEF PeerHeld, Peers!Fits
<1>. DEFINE p == [s4[k] EXCEPT !.gathered = TRUE,
                     !.local = IF s4[k].offerSent THEN @ ELSE {Peers!Candidate(k, "mdns")}]
            c == Peers!Candidate(k, "mdns")
<1>3. /\ s4[k].step \in {"offering", "offered"} /\ ~s4[k].gathered
      /\ s4' = [s4 EXCEPT ![k] = p]
      /\ UNCHANGED <<s1, s2, s3, s6, s7, s8>>
      /\ IF s4[k].offerSent THEN Peers!Signals(<<c>>) ELSE s5' = s5
  BY <1>1 DEF Peers!Gather, Peers!PageOnly
<1>4. s3 = k /\ s1 = k /\ k <= s2
  BY <1>1, <1>2, <1>3 DEF Peers!OneAtATime, Peers!Live, Peers!PeersInv
<1>5. /\ c \in Peers!Candidates /\ c \in Peers!UpMessages /\ c.type = "candidate" /\ c.of = k
  BY MessageTypes DEF Peers!Candidate, Peers!UpMessages
<1>6. /\ p.step = s4[k].step /\ p.starting = s4[k].starting /\ p.remote = s4[k].remote
      /\ p.offerSent = s4[k].offerSent /\ p.gathered
      /\ p.applied = s4[k].applied /\ p.waiting = s4[k].waiting /\ p.heard = s4[k].heard
      /\ ~s4[k].offerSent => p.local = {c}
  BY <1>1 DEF Peers!Pages
<1>7. p \in Peers!Pages
  BY <1>1, <1>5 DEF Peers!Pages
<1>. HIDE DEF p, c
<1>8. s5' = IF s4[k].offerSent /\ s7[k].open THEN [s5 EXCEPT ![k] = Append(s5[k], c)] ELSE s5
  BY <1>1, <1>3, <1>4 DEF Peers!Signals
<1>9. /\ s4'[k] = p /\ s6'[k] = s6[k] /\ s7'[k] = s7[k] /\ s8'[k] = s8[k]
      /\ s5'[k] = IF s4[k].offerSent /\ s7[k].open THEN Append(s5[k], c) ELSE s5[k]
  BY <1>3, <1>8 DEF Peers!PeersInv
<1>10. /\ s5'[k] \in Seq(Peers!UpMessages)
       /\ \A i \in DOMAIN s5'[k] : (i \in DOMAIN s5[k] /\ s5'[k][i] = s5[k][i])
            \/ s5'[k][i] = c
       /\ s5[k] # <<>> => s5'[k] # <<>> /\ s5'[k][1] = s5[k][1]
       /\ ~s4[k].offerSent => s5'[k] = s5[k]
       /\ s4[k].offerSent /\ s7[k].open =>
            \E i \in DOMAIN s5'[k] : s5'[k][i] = c
  BY <1>1, <1>5, <1>9, AppendFacts
<1>11. Peers!OneAtATime(p, s7[k], s1 = k, s3 = k) /\ Peers!HeardApplied(p)
  BY <1>2, <1>6 DEF Peers!OneAtATime, Peers!Live, Peers!HeardApplied
<1>12. Peers!OfferFirst(k, p, s5'[k], s7[k], s3 = k)
  <2>1. ASSUME s7[k].at \in {"hello", "offer"}, p.offerSent \/ s5'[k] # <<>>
        PROVE  s5'[k] # <<>> /\ s5'[k][1].type = "offer"
    BY <1>2, <1>6, <1>10, <2>1 DEF Peers!OfferFirst
  <2>2. \A i \in DOMAIN s5'[k] : s5'[k][i].of = k
          /\ (s5'[k][i].type = "offer" => i = 1 /\ s7[k].at \in {"hello", "offer", "told"})
    BY <1>2, <1>5, <1>10 DEF Peers!OfferFirst
  <2>. QED
    BY <1>2, <1>3, <1>6, <1>10, <2>1, <2>2 DEF Peers!OfferFirst
<1>13. Peers!GatheredArrives(p, s5'[k], s7[k], s8[k])
  BY <1>5, <1>6, <1>10 DEF Peers!GatheredArrives
<1>14. Peers!InOrder(p, s6[k], s7[k])
  BY <1>1, <1>4, <1>6 DEF PeerHeld, Peers!Fits, Peers!InOrder, Peers!Heard
<1>15. PeerHeld(k)'
  BY <1>1, <1>3, <1>7, <1>9, <1>10, <1>11, <1>12, <1>13, <1>14 DEF PeerHeld,
     PeersTyped, Peers!Fits
<1>16. PeerLocal(k)
  BY <1>1, <1>3, <1>4, <1>8, <1>9 DEF PeerLocal
<1>. QED
  BY <1>15, <1>16, LocalStep

LEMMA AcceptedStep ==
  ASSUME Peers!PeersInv, NEW k \in Connections, Peers!Accepted(k)
  PROVE  Peers!PeersInv'
<1>1. /\ PeerHeld(k) /\ s4 = [s4 EXCEPT ![k] = s4[k]] /\ s4[k] \in Peers!Pages /\ k # 0
      /\ s5 = [s5 EXCEPT ![k] = s5[k]] /\ s6 = [s6 EXCEPT ![k] = s6[k]]
      /\ s7 = [s7 EXCEPT ![k] = s7[k]] /\ s8 = [s8 EXCEPT ![k] = s8[k]]
      /\ k > s2 => s4[k] = Peers!NoPage
      /\ k \in Nat /\ s2 \in Nat
  BY Before
<1>2. /\ Peers!OneAtATime(s4[k], s7[k], s1 = k, s3 = k)
      /\ Peers!OfferFirst(k, s4[k], s5[k], s7[k], s3 = k)
      /\ Peers!GatheredArrives(s4[k], s5[k], s7[k], s8[k]) /\ Peers!HeardApplied(s4[k])
  BY <1>1 DEF PeerHeld, Peers!Fits
<1>. DEFINE p == [s4[k] EXCEPT !.step = "offered", !.remote = TRUE,
                                 !.applied = @ + s4[k].waiting, !.waiting = 0]
<1>3. /\ s4[k].step = "accepting" /\ s4' = [s4 EXCEPT ![k] = p]
      /\ UNCHANGED <<s1, s2, s3, s5, s6, s7, s8>>
  BY <1>1 DEF Peers!Accepted, Peers!PageOnly
<1>4. s3 = k /\ s1 = k /\ k <= s2
  BY <1>1, <1>2, <1>3 DEF Peers!OneAtATime, Peers!Live, Peers!PeersInv
<1>5. /\ p.step = "offered" /\ p.starting = s4[k].starting /\ p.remote
      /\ p.offerSent = s4[k].offerSent /\ p.gathered = s4[k].gathered /\ p.local = s4[k].local
  BY <1>1 DEF Peers!Pages
<1>6. /\ p.applied = s4[k].applied + s4[k].waiting /\ p.waiting = 0 /\ p.heard = s4[k].heard
      /\ s4[k].applied \in Nat /\ s4[k].waiting \in Nat
  BY <1>1 DEF Peers!Pages
<1>7. p \in Peers!Pages
  <2>1. PICK a : a = s4[k].applied + s4[k].waiting
    OBVIOUS
  <2>2. a \in Nat
    BY <1>6, <2>1
  <2>3. p = [s4[k] EXCEPT !.step = "offered", !.remote = TRUE, !.applied = a, !.waiting = 0]
    BY <1>1, <2>1 DEF Peers!Pages
  <2>. QED
    BY <1>1, <2>2, <2>3 DEF Peers!Pages
<1>. HIDE DEF p
<1>8. s4'[k] = p /\ s5'[k] = s5[k] /\ s6'[k] = s6[k] /\ s7'[k] = s7[k] /\ s8'[k] = s8[k]
  BY <1>3 DEF Peers!PeersInv
<1>9. Peers!OneAtATime(p, s7[k], s1 = k, s3 = k)
  BY <1>2, <1>3, <1>5 DEF Peers!OneAtATime, Peers!Live
<1>10. Peers!OfferFirst(k, p, s5[k], s7[k], s3 = k)
  BY <1>2, <1>3, <1>4, <1>5 DEF Peers!OfferFirst
<1>11. Peers!GatheredArrives(p, s5[k], s7[k], s8[k]) /\ Peers!HeardApplied(p)
  BY <1>2, <1>5, <1>6 DEF Peers!GatheredArrives, Peers!HeardApplied
<1>12. Peers!InOrder(p, s6[k], s7[k])
  BY <1>1, <1>3, <1>4, <1>5 DEF PeerHeld, Peers!Fits, Peers!InOrder, Peers!Heard
<1>13. PeerHeld(k)'
  BY <1>1, <1>3, <1>7, <1>8, <1>9, <1>10, <1>11, <1>12 DEF PeerHeld, PeersTyped,
     Peers!Fits
<1>14. PeerLocal(k)
  BY <1>1, <1>3, <1>4, <1>8 DEF PeerLocal
<1>. QED
  BY <1>13, <1>14, LocalStep

LEMMA OneOrTwo ==
  ASSUME NEW S, NEW o \in S, NEW c \in S
  PROVE  /\ <<o>> \o <<>> = <<o>> /\ <<o>> \o <<c>> = <<o, c>>
         /\ <<>> \o <<o>> = <<o>> /\ <<>> \o <<o, c>> = <<o, c>>
<1>1. <<o>> \in Seq(S) /\ <<c>> \in Seq(S) /\ <<o, c>> \in Seq(S)
  OBVIOUS
<1>2. <<o>> \o <<>> = <<o>> /\ <<>> \o <<o>> = <<o>> /\ <<>> \o <<o, c>> = <<o, c>>
  BY <1>1, ConcatEmptySeq
<1>3. <<o>> \o <<c>> = <<o, c>>
  <2>1. PICK l, m : l = <<o>> /\ m = <<c>>
    OBVIOUS
  <2>2. /\ l \in Seq(S) /\ m \in Seq(S) /\ Len(l) = 1 /\ Len(m) = 1
        /\ l[1] = o /\ m[1] = c
    BY <1>1, <2>1
  <2>3. /\ l \o m \in Seq(S) /\ Len(l \o m) = 2
        /\ (l \o m)[1] = o /\ (l \o m)[2] = c
    BY <2>2, ConcatProperties
  <2>4. Len(<<o, c>>) = 2 /\ <<o, c>>[1] = o /\ <<o, c>>[2] = c /\ <<o, c>> \in Seq(S)
    BY <1>1
  <2>5. \A i \in 1..2 : (l \o m)[i] = <<o, c>>[i]
    BY <2>3, <2>4
  <2>6. l \o m = <<o, c>>
    BY <2>3, <2>4, <2>5, SeqEqual
  <2>. QED
    BY <2>1, <2>6
<1>. QED
  BY <1>2, <1>3

LEMMA OffersStep ==
  ASSUME Peers!PeersInv, NEW k \in Connections, Peers!Offers(k)
  PROVE  Peers!PeersInv'
<1>1. /\ PeerHeld(k) /\ s4 = [s4 EXCEPT ![k] = s4[k]] /\ s4[k] \in Peers!Pages /\ k # 0
      /\ s5 = [s5 EXCEPT ![k] = s5[k]] /\ s6 = [s6 EXCEPT ![k] = s6[k]]
      /\ s7 = [s7 EXCEPT ![k] = s7[k]] /\ s8 = [s8 EXCEPT ![k] = s8[k]]
      /\ k > s2 => s4[k] = Peers!NoPage
      /\ k \in Nat /\ s2 \in Nat
  BY Before
<1>2. /\ Peers!OneAtATime(s4[k], s7[k], s1 = k, s3 = k)
      /\ Peers!OfferFirst(k, s4[k], s5[k], s7[k], s3 = k)
      /\ Peers!GatheredArrives(s4[k], s5[k], s7[k], s8[k]) /\ Peers!HeardApplied(s4[k])
  BY <1>1 DEF PeerHeld, Peers!Fits
<1>3. /\ s4[k].starting /\ UNCHANGED <<s1, s2, s3, s6, s7, s8>>
      /\ IF s3 = k THEN Peers!SendsOffer(k)
         ELSE s4' = [s4 EXCEPT ![k].starting = FALSE] /\ UNCHANGED s5
  BY DEF Peers!Offers, Peers!PageOnly
<1>4. s4[k].step # "none" /\ k <= s2
  BY <1>1, <1>2, <1>3 DEF Peers!OfferFirst, Peers!NoPage
<1>5. CASE s3 = k
  <2>. DEFINE sends == s1 # 0 /\ s7[s1].open
              p == [s4[k] EXCEPT !.step = "offered", !.starting = FALSE, !.local = {},
                                   !.offerSent = sends]
              c == Peers!Candidate(k, "mdns")
  <2>1. PICK known \in SUBSET s4[k].local :
          Peers!Signals(<<Peers!Offer(k, known)>> \o IF s4[k].local = {} THEN <<>> ELSE <<c>>)
    BY <1>3, <1>5 DEF Peers!SendsOffer
  <2>2. s4' = [s4 EXCEPT ![k] = p]
    BY <1>1, <1>3, <1>5 DEF Peers!SendsOffer
  <2>3. s1 = k /\ sends = s7[k].open /\ s7[k].open \in BOOLEAN
    BY <1>1, <1>2, <1>5, Before DEF Peers!OneAtATime, Peers!TasksOf
  <2>4. /\ s5[k] = <<>> /\ ~s4[k].offerSent /\ s4[k].step = "offering"
        /\ s7[k].at \in {"none", "hello", "offer", "told", "gone"} /\ ~s4[k].remote
    BY <1>2, <1>3, <1>4, <1>5 DEF Peers!OfferFirst
  <2>5. /\ p.step = "offered" /\ ~p.starting /\ p.remote = s4[k].remote
        /\ p.gathered = s4[k].gathered /\ p.local = {}
        /\ p.applied = s4[k].applied /\ p.waiting = s4[k].waiting /\ p.heard = s4[k].heard
    BY <1>1 DEF Peers!Pages
  <2>6. p.offerSent = s7[k].open
    BY <1>1, <2>3 DEF Peers!Pages
  <2>7. p \in Peers!Pages
    BY <1>1, <2>3 DEF Peers!Pages
  <2>8. /\ c \in Peers!UpMessages /\ c.type = "candidate" /\ c.of = k
        /\ Peers!Offer(k, known) \in Peers!UpMessages /\ Peers!Offer(k, known).type = "offer"
             /\ Peers!Offer(k, known).of = k
    BY <1>1, <2>1, MessageTypes DEF Peers!Candidate, Peers!UpMessages, Peers!Offer,
       Peers!Pages
  <2>. HIDE DEF p, c
  <2>9. PICK o : o = Peers!Offer(k, known)
    OBVIOUS
  <2>. DEFINE u == IF s4[k].local = {} THEN <<o>> ELSE <<o, c>>
  <2>10. s5' = IF s7[k].open THEN [s5 EXCEPT ![k] = u] ELSE s5
    <3>1. <<o>> \o <<>> = <<o>> /\ <<o>> \o <<c>> = <<o, c>>
          /\ <<>> \o <<o>> = <<o>> /\ <<>> \o <<o, c>> = <<o, c>>
      BY <2>8, <2>9, OneOrTwo
    <3>2. s7[k].open =>
          s5' = [s5 EXCEPT ![k] = s5[k] \o (<<o>> \o IF s4[k].local = {} THEN <<>> ELSE <<c>>)]
      BY <1>1, <2>1, <2>3, <2>9 DEF Peers!Signals
    <3>3. s5[k] \o (<<o>> \o IF s4[k].local = {} THEN <<>> ELSE <<c>>) = u
      <4>1. CASE s4[k].local = {}
        BY <2>4, <3>1, <4>1
      <4>2. CASE s4[k].local # {}
        BY <2>4, <3>1, <4>2
      <4>. QED
        BY <4>1, <4>2
    <3>4. ~s7[k].open => s5' = s5
      BY <1>1, <2>1, <2>3, <2>9 DEF Peers!Signals
    <3>. QED
      BY <3>2, <3>3, <3>4
  <2>11. /\ s4'[k] = p /\ s6'[k] = s6[k] /\ s7'[k] = s7[k] /\ s8'[k] = s8[k]
         /\ s5'[k] = IF s7[k].open THEN u ELSE <<>>
    BY <1>3, <2>2, <2>4, <2>10 DEF Peers!PeersInv
  <2>12. /\ u \in Seq(Peers!UpMessages) /\ u # <<>> /\ u[1] = o /\ DOMAIN u \subseteq {1, 2}
         /\ 2 \in DOMAIN u => u[2] = c
         /\ s4[k].local # {} => 2 \in DOMAIN u
    BY <2>8, <2>9
  <2>. HIDE DEF u
  <2>13. Peers!OneAtATime(p, s7[k], s1 = k, s3 = k) /\ Peers!HeardApplied(p)
    BY <1>2, <2>4, <2>5 DEF Peers!OneAtATime, Peers!Live, Peers!HeardApplied
  <2>14. Peers!OfferFirst(k, p, s5'[k], s7[k], s3 = k)
    <3>1. CASE s7[k].open
      <4>1. s7[k].at \in {"none", "hello", "offer", "told"} \/ s7[k].at = "gone"
        BY <2>4
      <4>2. s7[k].at \notin {"none", "gone"}
        BY <1>1, <1>2, <1>5, <2>3, <3>1 DEF Peers!OneAtATime, PeerHeld,
           Peers!Fits, Peers!SetUp
      <4>. QED
        BY <1>2, <2>5, <2>6, <2>8, <2>9, <2>11, <2>12, <3>1, <4>1, <4>2 DEF
           Peers!OfferFirst
    <3>2. CASE ~s7[k].open
      BY <1>2, <2>5, <2>6, <2>11, <3>2 DEF Peers!OfferFirst
    <3>. QED
      BY <3>1, <3>2
  <2>15. Peers!GatheredArrives(p, s5'[k], s7[k], s8[k])
    BY <1>2, <1>3, <2>4, <2>5, <2>6, <2>8, <2>9, <2>11, <2>12 DEF Peers!GatheredArrives
  <2>16. Peers!InOrder(p, s6[k], s7[k])
    BY <1>1, <2>3, <2>4, <2>5 DEF PeerHeld, Peers!Fits, Peers!InOrder, Peers!Heard
  <2>17. s5'[k] \in Seq(Peers!UpMessages)
    BY <2>11, <2>12
  <2>18. PeerHeld(k)'
    BY <1>1, <1>3, <2>7, <2>11, <2>13, <2>14, <2>15, <2>16, <2>17 DEF PeerHeld,
       PeersTyped, Peers!Fits
  <2>19. PeerLocal(k)
    BY <1>1, <1>3, <1>4, <2>2, <2>10, <2>11 DEF PeerLocal
  <2>. QED
    BY <2>18, <2>19, LocalStep
<1>6. CASE s3 # k
  <2>. DEFINE p == [s4[k] EXCEPT !.starting = FALSE]
  <2>1. s4' = [s4 EXCEPT ![k] = p] /\ s5' = s5
    BY <1>1, <1>3, <1>6
  <2>2. /\ p.step = s4[k].step /\ ~p.starting /\ p.remote = s4[k].remote
        /\ p.offerSent = s4[k].offerSent /\ p.gathered = s4[k].gathered
             /\ p.local = s4[k].local
        /\ p.applied = s4[k].applied /\ p.waiting = s4[k].waiting /\ p.heard = s4[k].heard
    BY <1>1 DEF Peers!Pages
  <2>3. p \in Peers!Pages
    BY <1>1 DEF Peers!Pages
  <2>. HIDE DEF p
  <2>4. s4'[k] = p /\ s5'[k] = s5[k] /\ s6'[k] = s6[k] /\ s7'[k] = s7[k] /\ s8'[k] = s8[k]
    BY <1>3, <2>1 DEF Peers!PeersInv
  <2>5. Peers!OneAtATime(p, s7[k], s1 = k, s3 = k) /\ Peers!HeardApplied(p)
    BY <1>2, <2>2 DEF Peers!OneAtATime, Peers!Live, Peers!HeardApplied
  <2>6. Peers!OfferFirst(k, p, s5[k], s7[k], s3 = k)
    BY <1>2, <1>4, <2>2 DEF Peers!OfferFirst
  <2>7. Peers!GatheredArrives(p, s5[k], s7[k], s8[k])
    BY <1>2, <2>2 DEF Peers!GatheredArrives
  <2>8. s1 = k => Peers!InOrder(p, s6[k], s7[k])
    BY <1>1, <2>2 DEF PeerHeld, Peers!Fits, Peers!InOrder, Peers!Heard
  <2>9. PeerHeld(k)'
    BY <1>1, <1>3, <2>3, <2>4, <2>5, <2>6, <2>7, <2>8 DEF PeerHeld, PeersTyped,
       Peers!Fits
  <2>10. PeerLocal(k)
    BY <1>1, <1>3, <1>4, <2>1, <2>4 DEF PeerLocal
  <2>. QED
    BY <2>9, <2>10, LocalStep
<1>. QED
  BY <1>5, <1>6

-----------------------------------------------------------------------------
\* The session task says something ...
LEMMA InOrderAppend ==
  ASSUME NEW p, NEW t, NEW t2, NEW d \in Seq(Peers!DownMessages),
         NEW m \in Peers!DownMessages, Peers!InOrder(p, d, t),
         t.at # "gone", t2.at \notin {"none", "hello"}, t.at \notin Peers!Unanswered =>
           t2.at \notin Peers!Unanswered,
         m.type = "hello" => d = <<>> /\ p.step = "none",
         m.type \in {"answer", "candidate"} => t2.at \notin Peers!Unanswered
           /\ p.step # "none" /\ ~p.starting,
         m.type = "candidate" => Peers!Heard(p) \/ \E j \in DOMAIN d : d[j].type = "answer",
         m.type = "error" => t2.at = "gone",
         p.step = "none" /\ t2.open /\ t2.at \notin {"told", "gone"} =>
           m.type = "hello" \/ (t.open /\ t.at \notin {"none", "hello", "told", "gone"}),
         t2.at = "run" /\ t2.open => m.type = "answer" \/ (t.at = "run" /\ t.open)
  PROVE  Peers!InOrder(p, Append(d, m), t2)
<1>. DEFINE e == Append(d, m)
<1>1. /\ e # <<>> /\ Len(d) \in Nat /\ Len(e) = Len(d) + 1
      /\ DOMAIN d = 1..Len(d) /\ DOMAIN e = 1..(Len(d) + 1)
      /\ e[Len(d) + 1] = m
      /\ \A i \in DOMAIN d : i \in DOMAIN e /\ e[i] = d[i]
      /\ \A i \in DOMAIN e : i \in DOMAIN d \/ i = Len(d) + 1
      /\ e[1] = IF d = <<>> THEN m ELSE d[1]
      /\ Len(d) + 1 \in DOMAIN e
      /\ d = <<>> => Len(d) = 0
  BY AppendFacts
<1>. HIDE DEF e
<1>2. ASSUME NEW i \in DOMAIN d
      PROVE  /\ e[i].type = "hello" => i = 1 /\ p.step = "none"
             /\ e[i].type = "answer" => t2.at \notin Peers!Unanswered /\ p.step # "none"
                  /\ ~p.starting
             /\ e[i].type = "candidate" =>
                  t2.at \notin Peers!Unanswered /\ (Peers!Heard(p) \/ \E j \in 1..(i - 1) :
                    e[j].type = "answer")
             /\ e[i].type # "error"
  <2>1. /\ d[i].type = "hello" => i = 1 /\ p.step = "none"
        /\ d[i].type = "answer" => t.at \notin Peers!Unanswered /\ p.step # "none"
             /\ ~p.starting
        /\ d[i].type = "candidate" =>
             t.at \notin Peers!Unanswered /\ (Peers!Heard(p) \/ \E j \in 1..(i - 1) :
               d[j].type = "answer")
        /\ d[i].type # "error"
    BY DEF Peers!InOrder
  <2>2. \A j \in 1..(i - 1) : e[j] = d[j]
    BY <1>1
  <2>. QED
    BY <1>1, <2>1, <2>2
<1>3. /\ m.type = "hello" => Len(d) + 1 = 1 /\ p.step = "none"
      /\ m.type = "candidate" => Peers!Heard(p) \/ \E j \in 1..((Len(d) + 1) - 1) :
           e[j].type = "answer"
  BY <1>1
<1>4. \A i \in DOMAIN e :
        /\ e[i].type = "hello" => i = 1 /\ p.step = "none"
        /\ e[i].type = "answer" => t2.at \notin Peers!Unanswered /\ p.step # "none"
             /\ ~p.starting
        /\ e[i].type = "candidate" =>
             t2.at \notin Peers!Unanswered /\ (Peers!Heard(p) \/ \E j \in 1..(i - 1) :
               e[j].type = "answer")
        /\ e[i].type = "error" => t2.at = "gone" /\ i = Len(e)
  BY <1>1, <1>2, <1>3
<1>5. p.step = "none" => e[1].type \in {"hello", "error"}
  <2>1. m.type \in {"hello", "answer", "error", "candidate"}
    BY DEF Peers!DownMessages, Peers!Candidates
  <2>. QED
    BY <1>1, <2>1 DEF Peers!InOrder
<1>6. p.step = "none" /\ t2.open /\ t2.at \notin {"none", "hello", "told", "gone"} =>
      e[1].type = "hello"
  BY <1>1 DEF Peers!InOrder
<1>7. t2.at = "run" /\ t2.open => Peers!Heard(p) \/ \E j \in DOMAIN e : e[j].type = "answer"
  BY <1>1 DEF Peers!InOrder
<1>8. Peers!InOrder(p, e, t2)
  BY <1>1, <1>4, <1>5, <1>6, <1>7 DEF Peers!InOrder
<1>. QED
  BY <1>8 DEF e

\* ... or goes on without a word.
LEMMA InOrderKept ==
  ASSUME NEW p, NEW t, NEW t2, NEW d, Peers!InOrder(p, d, t),
         t.at # "gone", t2.at \notin {"none", "hello"}, t.at \notin Peers!Unanswered =>
           t2.at \notin Peers!Unanswered,
         t2.open => t.open,
         t.at \in {"hello", "none", "told"} => t2.at \in {"told", "gone"},
         t2.at = "run" => t.at = "run"
  PROVE  Peers!InOrder(p, d, t2)
<1>1. \A i \in DOMAIN d : d[i].type # "error"
  BY DEF Peers!InOrder
<1>. QED
  BY <1>1 DEF Peers!InOrder

LEMMA TaskStep ==
  ASSUME Peers!PeersInv, NEW k \in Connections, s7[k].at # "none",
         UNCHANGED <<s1, s2, s3, s4>>,
         s5' = [s5 EXCEPT ![k] = s5'[k]], s6' = [s6 EXCEPT ![k] = s6'[k]],
         s7' = [s7 EXCEPT ![k] = s7'[k]], s8' = [s8 EXCEPT ![k] = s8'[k]],
         s5'[k] \in Seq(Peers!UpMessages), s6'[k] \in Seq(Peers!DownMessages),
         s7'[k] \in Peers!TasksOf, s8'[k] \in Peers!ServerPeers,
         s7'[k].at # "none", s7'[k].open => s7[k].open,
         Peers!SetUp(s7'[k], s8'[k]), Peers!OfferFirst(k, s4[k], s5'[k], s7'[k], s3 = k),
         Peers!GatheredArrives(s4[k], s5'[k], s7'[k], s8'[k]),
         s1 = k => Peers!InOrder(s4[k], s6'[k], s7'[k]),
         k \in Resolvable => \A c \in s8'[k].given : c.address = "ip"
  PROVE  Peers!PeersInv'
<1>1. /\ PeerHeld(k) /\ s4 = [s4 EXCEPT ![k] = s4[k]] /\ s4[k] \in Peers!Pages
      /\ k > s2 => s7[k] = Peers!NoTask
      /\ k \in Nat /\ s2 \in Nat
  BY Before
<1>2. k <= s2
  BY <1>1 DEF Peers!NoTask
<1>3. Peers!OneAtATime(s4[k], s7'[k], s1 = k, s3 = k) /\ Peers!HeardApplied(s4[k])
  BY <1>1 DEF PeerHeld, Peers!Fits, Peers!OneAtATime
<1>4. s4'[k] = s4[k] /\ s1' = s1 /\ s3' = s3
  OBVIOUS
<1>5. PeerHeld(k)'
  BY <1>1, <1>3, <1>4 DEF PeerHeld, PeersTyped, Peers!Fits
<1>6. PeerLocal(k)
  BY <1>1, <1>2 DEF PeerLocal
<1>. QED
  BY <1>5, <1>6, LocalStep

\* A step without messages.
Underway == {"create", "describe", "answer", "run"}

LEMMA SilentStep ==
  ASSUME Peers!PeersInv, NEW k \in Connections, UNCHANGED <<s1, s2, s3, s4, s5, s6>>,
         s7' = [s7 EXCEPT ![k] = s7'[k]], s8' = [s8 EXCEPT ![k] = s8'[k]],
         s7'[k] \in Peers!TasksOf, s8'[k] \in Peers!ServerPeers,
         s7[k].at \notin {"none", "told", "gone"},
         s7'[k].at \notin {"none", "hello", "offer", "gone"},
         s7[k].at \in {"hello", "offer"} => s7'[k].at = "told",
         s7'[k].at \in Underway => s7[k].at \in Underway /\ s8'[k].given = s8[k].given,
         s7'[k].at = "run" => s7[k].at = "run",
         s7[k].at \notin Peers!Unanswered => s7'[k].at \notin Peers!Unanswered,
         s7'[k].open = s7[k].open, s7'[k].failed \notin {"early", "unexpected"},
         s8'[k].given \subseteq s8[k].given, Peers!SetUp(s7'[k], s8'[k])
  PROVE  Peers!PeersInv'
<1>1. /\ PeerHeld(k) /\ s5 = [s5 EXCEPT ![k] = s5[k]] /\ s6 = [s6 EXCEPT ![k] = s6[k]]
  BY Before
<1>2. /\ s5' = [s5 EXCEPT ![k] = s5'[k]] /\ s6' = [s6 EXCEPT ![k] = s6'[k]]
      /\ s5'[k] = s5[k] /\ s6'[k] = s6[k]
      /\ s5'[k] \in Seq(Peers!UpMessages) /\ s6'[k] \in Seq(Peers!DownMessages)
  BY <1>1 DEF PeerHeld, PeersTyped
<1>3. /\ Peers!OfferFirst(k, s4[k], s5[k], s7[k], s3 = k)
      /\ Peers!GatheredArrives(s4[k], s5[k], s7[k], s8[k])
      /\ s1 = k => Peers!InOrder(s4[k], s6[k], s7[k])
      /\ k \in Resolvable => \A c \in s8[k].given : c.address = "ip"
  BY <1>1 DEF PeerHeld, Peers!Fits
<1>4. Peers!OfferFirst(k, s4[k], s5'[k], s7'[k], s3 = k)
  BY <1>2, <1>3 DEF Peers!OfferFirst
<1>5. Peers!GatheredArrives(s4[k], s5'[k], s7'[k], s8'[k])
  BY <1>2, <1>3 DEF Peers!GatheredArrives, Underway
<1>6. s1 = k => Peers!InOrder(s4[k], s6'[k], s7'[k])
  BY <1>2, <1>3, InOrderKept
<1>7. k \in Resolvable => \A c \in s8'[k].given : c.address = "ip"
  BY <1>3
<1>8. s7[k].at # "none" /\ s7'[k].at # "none" /\ (s7'[k].open => s7[k].open)
  OBVIOUS
<1>9. UNCHANGED <<s1, s2, s3, s4>>
  OBVIOUS
<1>. QED
  BY <1>2, <1>4, <1>5, <1>6, <1>7, <1>8, <1>9, TaskStep

\* What the session task is to start with.
LEMMA TaskBefore ==
  ASSUME Peers!PeersInv, NEW k \in Connections
  PROVE  /\ s7[k] \in Peers!TasksOf /\ s8[k] \in Peers!ServerPeers /\ s4[k] \in Peers!Pages
         /\ s5[k] \in Seq(Peers!UpMessages) /\ s6[k] \in Seq(Peers!DownMessages)
         /\ Peers!SetUp(s7[k], s8[k]) /\ Peers!OfferFirst(k, s4[k], s5[k], s7[k], s3 = k)
         /\ Peers!OneAtATime(s4[k], s7[k], s1 = k, s3 = k)
         /\ Peers!GatheredArrives(s4[k], s5[k], s7[k], s8[k])
         /\ s1 = k => Peers!InOrder(s4[k], s6[k], s7[k])
         /\ s7[k].failed \notin {"early", "unexpected"}
         /\ k \in Resolvable => \A c \in s8[k].given : c.address = "ip"
         /\ s7 = [s7 EXCEPT ![k] = s7[k]] /\ s8 = [s8 EXCEPT ![k] = s8[k]]
         /\ s5 = [s5 EXCEPT ![k] = s5[k]] /\ s6 = [s6 EXCEPT ![k] = s6[k]]
         /\ \A t : (s7' = [s7 EXCEPT ![k] = t]) => s7'[k] = t
         /\ \A r : (s8' = [s8 EXCEPT ![k] = r]) => s8'[k] = r
         /\ \A u : (s5' = [s5 EXCEPT ![k] = u]) => s5'[k] = u
         /\ \A d : (s6' = [s6 EXCEPT ![k] = d]) => s6'[k] = d
<1>1. PeerHeld(k) /\ s7 = [s7 EXCEPT ![k] = s7[k]] /\ s8 = [s8 EXCEPT ![k] = s8[k]]
      /\ s5 = [s5 EXCEPT ![k] = s5[k]] /\ s6 = [s6 EXCEPT ![k] = s6[k]]
  BY Before
<1>2. /\ \A t : (s7' = [s7 EXCEPT ![k] = t]) => s7'[k] = t
      /\ \A r : (s8' = [s8 EXCEPT ![k] = r]) => s8'[k] = r
      /\ \A u : (s5' = [s5 EXCEPT ![k] = u]) => s5'[k] = u
      /\ \A d : (s6' = [s6 EXCEPT ![k] = d]) => s6'[k] = d
  BY DEF Peers!PeersInv
<1>. QED
  BY <1>1, <1>2 DEF PeerHeld, PeersTyped, Peers!Fits, Peers!OfferFirst

\* The task fails, or something fails it: it is where it then goes.
LEMMA FailSteps ==
  ASSUME Peers!PeersInv, NEW k \in Connections,
         UNCHANGED <<s1, s2, s3, s4, s5, s6>>,
         \/ /\ s7[k].at \in {"hello", "offer", "create"} /\ Peers!Fails(k, "told", "error")
                 /\ s8' = s8
         \/ /\ s7[k].at \in {"answer", "run"} /\ Peers!Fails(k, "close", "error")
            /\ s8' = s8 \/ s8' = [s8 EXCEPT ![k].queued = FALSE]
         \/ Peers!DescribeFails(k)
  PROVE  Peers!PeersInv'
<1>. DEFINE where == IF s7[k].at \in {"answer", "run"} THEN "close" ELSE "told"
            registered == IF s7[k].at = "describe" THEN FALSE ELSE s7[k].registered
            t2 == [s7[k] EXCEPT !.at = where, !.failed = "error", !.registered = registered]
<1>1. /\ s7[k] \in Peers!TasksOf /\ s8[k] \in Peers!ServerPeers /\ Peers!SetUp(s7[k], s8[k])
      /\ s7 = [s7 EXCEPT ![k] = s7[k]] /\ s8 = [s8 EXCEPT ![k] = s8[k]]
      /\ \A t : (s7' = [s7 EXCEPT ![k] = t]) => s7'[k] = t
      /\ \A r : (s8' = [s8 EXCEPT ![k] = r]) => s8'[k] = r
  BY TaskBefore
<1>2. /\ s7[k].at \in {"hello", "offer", "create", "describe", "answer", "run"}
      /\ s7' = [s7 EXCEPT ![k] = t2]
  <2>1. CASE Peers!DescribeFails(k)
    <3>1. /\ s7[k].at = "describe"
          /\ s7' = [s7 EXCEPT ![k] = [s7[k] EXCEPT !.at = "told", !.failed = "error",
                                                        !.registered = FALSE]]
      BY <1>1, <2>1 DEF Peers!DescribeFails, Peers!At
    <3>. QED
      BY <3>1
  <2>2. CASE ~Peers!DescribeFails(k)
    <3>1. /\ s7[k].at \in {"hello", "offer", "create", "answer", "run"}
          /\ s7' = [s7 EXCEPT ![k] = [s7[k] EXCEPT !.at = where, !.failed = "error"]]
      <4>1. CASE s7[k].at \in {"hello", "offer", "create"} /\ Peers!Fails(k, "told", "error")
        BY <4>1 DEF Peers!Fails
      <4>2. CASE s7[k].at \in {"answer", "run"} /\ Peers!Fails(k, "close", "error")
        BY <4>2 DEF Peers!Fails
      <4>. QED
        BY <2>2, <4>1, <4>2
    <3>2. [s7[k] EXCEPT !.at = where, !.failed = "error"] = t2
      BY <1>1, <3>1 DEF Peers!TasksOf
    <3>. QED
      BY <3>1, <3>2
  <2>. QED
    BY <2>1, <2>2
<1>3. /\ t2 \in Peers!TasksOf /\ t2.at = where /\ t2.failed = "error" /\ t2.open = s7[k].open
      /\ t2.pipeline = s7[k].pipeline /\ t2.channel = s7[k].channel /\ t2.registered = registered
  BY <1>1 DEF Peers!TasksOf
<1>4. s7'[k] = t2
  BY <1>1, <1>2
<1>5. PICK r2 \in Peers!ServerPeers :
        /\ s8' = [s8 EXCEPT ![k] = r2] /\ r2.given \subseteq s8[k].given
        /\ s7[k].at # "describe" => r2.life = s8[k].life /\ (s7[k].at \in {"hello", "offer",
             "create"} => r2 = s8[k])
        /\ s7[k].at = "describe" => r2.life = "closed"
  <2>1. CASE s8' = s8 /\ s7[k].at # "describe"
    BY <1>1, <2>1
  <2>2. CASE s8' = [s8 EXCEPT ![k].queued = FALSE] /\ s7[k].at \in {"answer", "run"}
    <3>. DEFINE r2 == [s8[k] EXCEPT !.queued = FALSE]
    <3>1. r2 \in Peers!ServerPeers /\ r2.given = s8[k].given /\ r2.life = s8[k].life
      BY <1>1 DEF Peers!ServerPeers
    <3>2. s8' = [s8 EXCEPT ![k] = r2]
      BY <2>2
    <3>. HIDE DEF r2
    <3>. QED
      BY <2>2, <3>1, <3>2
  <2>3. CASE Peers!DescribeFails(k)
    <3>1. s8' = [s8 EXCEPT ![k] = [Peers!NoPeer EXCEPT !.life = "closed"]]
          /\ s7[k].at = "describe"
      BY <2>3 DEF Peers!DescribeFails, Peers!At
    <3>2. /\ [Peers!NoPeer EXCEPT !.life = "closed"] \in Peers!ServerPeers
          /\ [Peers!NoPeer EXCEPT !.life = "closed"].given = {}
          /\ [Peers!NoPeer EXCEPT !.life = "closed"].life = "closed"
      BY DEF Peers!NoPeer, Peers!ServerPeers
    <3>. QED
      BY <3>1, <3>2
  <2>. QED
    BY <2>1, <2>2, <2>3
<1>6. s8'[k] = r2
  BY <1>1, <1>5
<1>. HIDE DEF t2
<1>7. Peers!SetUp(t2, r2)
  BY <1>1, <1>2, <1>3, <1>5 DEF Peers!SetUp
<1>8. t2.at \in {"close", "told"} /\ (s7[k].at \in {"hello", "offer"} => t2.at = "told")
  BY <1>2, <1>3
<1>. QED
  BY <1>2, <1>3, <1>4, <1>5, <1>6, <1>7, <1>8, SilentStep DEF Underway, Peers!Unanswered

\* The task goes on.
LEMMA GoSteps ==
  ASSUME Peers!PeersInv, NEW k \in Connections,
         \/ Peers!Register(k) \/ Peers!Described(k) \/ Peers!Ends(k) \/ Peers!ClosePeer(k)
              \/ Peers!StopPipeline(k) \/ Peers!Unregister(k)
         \/ Peers!PeerGathers(k) \/ Peers!Changes(k)
         \/ /\ Peers!At(k, "run") /\ s7' = [s7 EXCEPT ![k].pipeline = TRUE]
            /\ UNCHANGED <<s1, s2, s3, s4, s5, s6, s8>>
  PROVE  Peers!PeersInv'
<1>1. /\ s7[k] \in Peers!TasksOf /\ s8[k] \in Peers!ServerPeers /\ Peers!SetUp(s7[k], s8[k])
      /\ s7 = [s7 EXCEPT ![k] = s7[k]] /\ s8 = [s8 EXCEPT ![k] = s8[k]]
      /\ s7[k].failed \notin {"early", "unexpected"}
      /\ \A t : (s7' = [s7 EXCEPT ![k] = t]) => s7'[k] = t
      /\ \A r : (s8' = [s8 EXCEPT ![k] = r]) => s8'[k] = r
  BY TaskBefore
<1>2. UNCHANGED <<s1, s2, s3, s4, s5, s6>>
  BY DEF Peers!Register, Peers!Described, Peers!Ends, Peers!ClosePeer,
     Peers!StopPipeline, Peers!Unregister, Peers!PeerGathers, Peers!Changes,
     Peers!TaskOnly,
         Peers!PageStays, Peers!Breaks
<1>. DEFINE Moves(t2, r2) ==
       /\ s7' = [s7 EXCEPT ![k] = t2] /\ s8' = [s8 EXCEPT ![k] = r2]
       /\ t2 \in Peers!TasksOf /\ r2 \in Peers!ServerPeers
       /\ t2.open = s7[k].open /\ t2.failed = s7[k].failed /\ Peers!SetUp(t2, r2)
       /\ \/ s7[k].at = "create" /\ t2.at = "describe" /\ r2.given = s8[k].given
          \/ s7[k].at = "describe" /\ t2.at = "answer" /\ r2.given = s8[k].given
          \/ s7[k].at \in {"answer", "run"} /\ t2.at = s7[k].at /\ r2.given = s8[k].given
          \/ s7[k].at = "run" /\ t2.at = "close" /\ r2.given = s8[k].given
          \/ s7[k].at = "close" /\ t2.at = "stop" /\ r2.given = {}
          \/ s7[k].at = "stop" /\ t2.at = "unregister" /\ r2.given = s8[k].given
          \/ s7[k].at = "unregister" /\ t2.at = "told" /\ r2.given = s8[k].given
<1>3. ASSUME NEW t2, NEW r2, Moves(t2, r2) PROVE Peers!PeersInv'
  <2>1. s7'[k] = t2 /\ s8'[k] = r2
    BY <1>1, <1>3
  <2>. QED
    BY <1>1, <1>2, <1>3, <2>1, SilentStep DEF Underway, Peers!Unanswered
<1>4. CASE Peers!Register(k)
  <2>. DEFINE r2 == [s8[k] EXCEPT !.life = "open"]
  <2>1. PICK t2 \in Peers!TasksOf :
          /\ s7[k].at = "create" /\ s7' = [s7 EXCEPT ![k] = t2] /\ s8' = [s8 EXCEPT ![k] = r2]
          /\ t2.at = "describe" /\ t2.open = s7[k].open /\ t2.failed = s7[k].failed
          /\ t2.pipeline = s7[k].pipeline /\ t2.channel = s7[k].channel
    <3>. DEFINE registered == [s7[k] EXCEPT !.at = "describe", !.registered = TRUE]
                viewing == [s7[k] EXCEPT !.at = "describe"]
    <3>1. /\ s7[k].at = "create" /\ s8' = [s8 EXCEPT ![k] = r2]
          /\ s7' = [s7 EXCEPT ![k] = registered] \/ s7' = [s7 EXCEPT ![k] = viewing]
      BY <1>1, <1>4 DEF Peers!Register, Peers!At, Peers!Goes
    <3>2. /\ registered \in Peers!TasksOf /\ registered.at = "describe"
          /\ registered.open = s7[k].open /\ registered.failed = s7[k].failed
          /\ registered.pipeline = s7[k].pipeline /\ registered.channel = s7[k].channel
      BY <1>1 DEF Peers!TasksOf
    <3>3. /\ viewing \in Peers!TasksOf /\ viewing.at = "describe"
          /\ viewing.open = s7[k].open /\ viewing.failed = s7[k].failed
          /\ viewing.pipeline = s7[k].pipeline /\ viewing.channel = s7[k].channel
      BY <1>1 DEF Peers!TasksOf
    <3>. HIDE DEF registered, viewing, r2
    <3>. QED
      BY <3>1, <3>2, <3>3
  <2>2. r2 \in Peers!ServerPeers /\ r2.given = s8[k].given
    BY <1>1 DEF Peers!ServerPeers
  <2>. HIDE DEF r2
  <2>3. Peers!SetUp(t2, r2)
    BY <1>1, <2>1, <2>2 DEF Peers!SetUp
  <2>. QED
    BY <1>3, <2>1, <2>2, <2>3
<1>5. CASE Peers!Described(k)
  <2>. DEFINE t2 == [s7[k] EXCEPT !.at = "answer"]
  <2>1. s7[k].at = "describe" /\ s7' = [s7 EXCEPT ![k] = t2] /\ s8' = s8
    BY <1>5 DEF Peers!Described, Peers!At, Peers!Goes
  <2>2. /\ t2 \in Peers!TasksOf /\ t2.at = "answer" /\ t2.open = s7[k].open
             /\ t2.failed = s7[k].failed
        /\ t2.pipeline = s7[k].pipeline /\ t2.channel = s7[k].channel /\ t2.registered = s7[k].registered
    BY <1>1 DEF Peers!TasksOf
  <2>. HIDE DEF t2
  <2>3. Peers!SetUp(t2, s8[k])
    BY <1>1, <2>1, <2>2 DEF Peers!SetUp
  <2>. QED
    BY <1>1, <1>3, <2>1, <2>2, <2>3
<1>6. CASE Peers!Ends(k)
  <2>. DEFINE t2 == [s7[k] EXCEPT !.at = "close"]
  <2>1. s7[k].at = "run" /\ s7' = [s7 EXCEPT ![k] = t2] /\ s8' = s8
    BY <1>6 DEF Peers!Ends, Peers!At, Peers!Goes
  <2>2. /\ t2 \in Peers!TasksOf /\ t2.at = "close" /\ t2.open = s7[k].open
             /\ t2.failed = s7[k].failed
        /\ t2.pipeline = s7[k].pipeline /\ t2.channel = s7[k].channel /\ t2.registered = s7[k].registered
    BY <1>1 DEF Peers!TasksOf
  <2>. HIDE DEF t2
  <2>3. Peers!SetUp(t2, s8[k])
    BY <1>1, <2>1, <2>2 DEF Peers!SetUp
  <2>. QED
    BY <1>1, <1>3, <2>1, <2>2, <2>3
<1>7. CASE Peers!ClosePeer(k)
  <2>. DEFINE t2 == [s7[k] EXCEPT !.at = "stop"]
              r2 == [Peers!NoPeer EXCEPT !.life = "closed"]
  <2>1. s7[k].at = "close" /\ s7' = [s7 EXCEPT ![k] = t2] /\ s8' = [s8 EXCEPT ![k] = r2]
    BY <1>7 DEF Peers!ClosePeer, Peers!At, Peers!Goes
  <2>2. /\ t2 \in Peers!TasksOf /\ t2.at = "stop" /\ t2.open = s7[k].open
             /\ t2.failed = s7[k].failed
        /\ t2.pipeline = s7[k].pipeline /\ t2.channel = s7[k].channel /\ t2.registered = s7[k].registered
    BY <1>1 DEF Peers!TasksOf
  <2>3. r2 \in Peers!ServerPeers /\ r2.given = {} /\ r2.life = "closed"
    BY DEF Peers!NoPeer, Peers!ServerPeers
  <2>. HIDE DEF t2, r2
  <2>4. Peers!SetUp(t2, r2)
    BY <1>1, <2>1, <2>2, <2>3 DEF Peers!SetUp
  <2>. QED
    BY <1>3, <2>1, <2>2, <2>3, <2>4
<1>8. CASE Peers!StopPipeline(k)
  <2>. DEFINE t2 == [s7[k] EXCEPT !.at = "unregister", !.pipeline = FALSE]
  <2>1. s7[k].at = "stop" /\ s7' = [s7 EXCEPT ![k] = t2] /\ s8' = s8
    BY <1>1, <1>8 DEF Peers!StopPipeline, Peers!At
  <2>2. /\ t2 \in Peers!TasksOf /\ t2.at = "unregister" /\ t2.open = s7[k].open
             /\ t2.failed = s7[k].failed
        /\ ~t2.pipeline /\ t2.channel = s7[k].channel /\ t2.registered = s7[k].registered
    BY <1>1 DEF Peers!TasksOf
  <2>. HIDE DEF t2
  <2>3. Peers!SetUp(t2, s8[k])
    BY <1>1, <2>1, <2>2 DEF Peers!SetUp
  <2>. QED
    BY <1>1, <1>3, <2>1, <2>2, <2>3
<1>9. CASE Peers!Unregister(k)
  <2>. DEFINE t2 == [s7[k] EXCEPT !.at = "told", !.registered = FALSE, !.channel = FALSE]
  <2>1. s7[k].at = "unregister" /\ s7' = [s7 EXCEPT ![k] = t2] /\ s8' = s8
    BY <1>1, <1>9 DEF Peers!Unregister, Peers!At
  <2>2. /\ t2 \in Peers!TasksOf /\ t2.at = "told" /\ t2.open = s7[k].open
             /\ t2.failed = s7[k].failed
        /\ t2.pipeline = s7[k].pipeline /\ ~t2.channel /\ ~t2.registered
    BY <1>1 DEF Peers!TasksOf
  <2>. HIDE DEF t2
  <2>3. Peers!SetUp(t2, s8[k])
    BY <1>1, <2>1, <2>2 DEF Peers!SetUp
  <2>. QED
    BY <1>1, <1>3, <2>1, <2>2, <2>3
<1>10. CASE Peers!PeerGathers(k)
  <2>. DEFINE r2 == [s8[k] EXCEPT !.gathered = TRUE, !.queued = TRUE]
  <2>1. /\ s7[k].at \in {"answer", "run"} /\ s7' = [s7 EXCEPT ![k] = s7[k]]
        /\ s8' = [s8 EXCEPT ![k] = r2]
    BY <1>1, <1>10 DEF Peers!PeerGathers
  <2>2. r2 \in Peers!ServerPeers /\ r2.given = s8[k].given /\ r2.life = s8[k].life
    BY <1>1 DEF Peers!ServerPeers
  <2>. HIDE DEF r2
  <2>3. Peers!SetUp(s7[k], r2)
    BY <1>1, <2>1, <2>2 DEF Peers!SetUp
  <2>. QED
    BY <1>1, <1>3, <2>1, <2>2, <2>3
<1>11. CASE Peers!Changes(k)
  <2>1. PICK state \in {"connected", "failed"} : s8' = [s8 EXCEPT ![k].state = state]
    BY <1>11 DEF Peers!Changes
  <2>. DEFINE r2 == [s8[k] EXCEPT !.state = state]
  <2>2. s7[k].at = "run" /\ s7' = [s7 EXCEPT ![k] = s7[k]] /\ s8' = [s8 EXCEPT ![k] = r2]
    BY <1>1, <1>11, <2>1 DEF Peers!Changes, Peers!At
  <2>3. r2 \in Peers!ServerPeers /\ r2.given = s8[k].given /\ r2.life = s8[k].life
    BY <1>1 DEF Peers!ServerPeers
  <2>. HIDE DEF r2
  <2>4. Peers!SetUp(s7[k], r2)
    BY <1>1, <2>2, <2>3 DEF Peers!SetUp
  <2>. QED
    BY <1>1, <1>3, <2>2, <2>3, <2>4
<1>12. CASE Peers!At(k, "run") /\ s7' = [s7 EXCEPT ![k].pipeline = TRUE] /\ s8' = s8
  <2>. DEFINE t2 == [s7[k] EXCEPT !.pipeline = TRUE]
  <2>1. s7[k].at = "run" /\ s7' = [s7 EXCEPT ![k] = t2] /\ s8' = s8
    BY <1>12 DEF Peers!At
  <2>2. /\ t2 \in Peers!TasksOf /\ t2.at = "run" /\ t2.open = s7[k].open
             /\ t2.failed = s7[k].failed
        /\ t2.channel = s7[k].channel /\ t2.registered = s7[k].registered
    BY <1>1, <2>1 DEF Peers!TasksOf
  <2>. HIDE DEF t2
  <2>3. Peers!SetUp(t2, s8[k])
    BY <1>1, <2>1, <2>2 DEF Peers!SetUp
  <2>. QED
    BY <1>1, <1>3, <2>1, <2>2, <2>3
<1>. QED
  BY <1>4, <1>5, <1>6, <1>7, <1>8, <1>9, <1>10, <1>11, <1>12

\* What the task says gets to the page.
LEMMA Saying ==
  ASSUME Peers!PeersInv, NEW k \in Connections, NEW m \in Peers!DownMessages, Peers!Says(k, m)
  PROVE  /\ s6' = [s6 EXCEPT ![k] = s6'[k]] /\ s6'[k] \in Seq(Peers!DownMessages)
         /\ s6'[k] = IF s7[k].open THEN Append(s6[k], m) ELSE s6[k]
<1>1. /\ s6[k] \in Seq(Peers!DownMessages) /\ s6 = [s6 EXCEPT ![k] = s6[k]]
      /\ \A d : (s6' = [s6 EXCEPT ![k] = d]) => s6'[k] = d
  BY TaskBefore
<1>2. Append(s6[k], m) \in Seq(Peers!DownMessages)
  BY <1>1, AppendFacts
<1>3. CASE s7[k].open
  BY <1>1, <1>2, <1>3 DEF Peers!Says
<1>4. CASE ~s7[k].open
  BY <1>1, <1>4 DEF Peers!Says
<1>. QED
  BY <1>3, <1>4

LEMMA SayHelloStep ==
  ASSUME Peers!PeersInv, NEW k \in Connections, Peers!SayHello(k)
  PROVE  Peers!PeersInv'
<1>1. /\ s7[k] \in Peers!TasksOf /\ s8[k] \in Peers!ServerPeers
           /\ s5[k] \in Seq(Peers!UpMessages)
      /\ Peers!SetUp(s7[k], s8[k]) /\ Peers!OfferFirst(k, s4[k], s5[k], s7[k], s3 = k)
      /\ Peers!OneAtATime(s4[k], s7[k], s1 = k, s3 = k)
      /\ Peers!GatheredArrives(s4[k], s5[k], s7[k], s8[k])
      /\ s1 = k => Peers!InOrder(s4[k], s6[k], s7[k])
      /\ s7[k].failed \notin {"early", "unexpected"}
      /\ k \in Resolvable => \A c \in s8[k].given : c.address = "ip"
      /\ s7 = [s7 EXCEPT ![k] = s7[k]] /\ s8 = [s8 EXCEPT ![k] = s8[k]]
      /\ s5 = [s5 EXCEPT ![k] = s5[k]] /\ s6[k] \in Seq(Peers!DownMessages)
      /\ \A t : (s7' = [s7 EXCEPT ![k] = t]) => s7'[k] = t
  BY TaskBefore
<1>2. s7[k].at = "hello" /\ UNCHANGED <<s1, s2, s3, s4, s5, s8>>
  BY DEF Peers!SayHello, Peers!At, Peers!TaskOnly, Peers!Breaks, Peers!PageStays
<1>3. CASE Peers!Fails(k, "told", "error") /\ UNCHANGED s6
  BY <1>2, <1>3, FailSteps
<1>4. CASE s7[k].open /\ Peers!Goes(k, "offer") /\ Peers!Says(k, Peers!Plain("hello"))
  <2>. DEFINE t2 == [s7[k] EXCEPT !.at = "offer"]
              m == Peers!Plain("hello")
  <2>1. /\ t2 \in Peers!TasksOf /\ t2.at = "offer" /\ t2.open = s7[k].open
             /\ t2.failed = s7[k].failed
        /\ t2.pipeline = s7[k].pipeline /\ t2.channel = s7[k].channel /\ t2.registered = s7[k].registered
    BY <1>1 DEF Peers!TasksOf
  <2>2. s7' = [s7 EXCEPT ![k] = t2]
    BY <1>4 DEF Peers!Goes
  <2>3. m \in Peers!DownMessages /\ m.type = "hello"
    BY MessageTypes DEF Peers!Plain
  <2>4. Peers!Says(k, m)
    BY <1>4
  <2>. HIDE DEF t2, m
  <2>5. /\ s6' = [s6 EXCEPT ![k] = s6'[k]] /\ s6'[k] \in Seq(Peers!DownMessages)
        /\ s6'[k] = Append(s6[k], m)
    BY <1>4, <2>3, <2>4, Saying
  <2>6. s7'[k] = t2
    BY <1>1, <2>2
  <2>7. Peers!SetUp(t2, s8[k])
    BY <1>1, <1>2, <2>1 DEF Peers!SetUp
  <2>8. Peers!OfferFirst(k, s4[k], s5[k], t2, s3 = k)
    BY <1>1, <1>2, <2>1 DEF Peers!OfferFirst
  <2>9. Peers!GatheredArrives(s4[k], s5[k], t2, s8[k])
    BY <1>1, <1>2, <2>1 DEF Peers!GatheredArrives
  <2>10. s1 = k => Peers!InOrder(s4[k], Append(s6[k], m), t2)
    <3>1. ASSUME s1 = k
          PROVE  Peers!InOrder(s4[k], s6[k], s7[k]) /\ s6[k] = <<>> /\ s4[k].step = "none"
      BY <1>1, <1>2, <3>1 DEF Peers!InOrder
    <3>. QED
      BY <1>1, <1>2, <2>1, <2>3, <3>1, InOrderAppend DEF Peers!Unanswered
  <2>. QED
    BY <1>1, <1>2, <2>1, <2>2, <2>5, <2>6, <2>7, <2>8, <2>9, <2>10, TaskStep
<1>. QED
  BY <1>3, <1>4 DEF Peers!SayHello

LEMMA ReceiveOfferStep ==
  ASSUME Peers!PeersInv, NEW k \in Connections, Peers!ReceiveOffer(k)
  PROVE  Peers!PeersInv'
<1>1. /\ s7[k] \in Peers!TasksOf /\ s8[k] \in Peers!ServerPeers
           /\ s5[k] \in Seq(Peers!UpMessages)
      /\ Peers!SetUp(s7[k], s8[k]) /\ Peers!OfferFirst(k, s4[k], s5[k], s7[k], s3 = k)
      /\ Peers!OneAtATime(s4[k], s7[k], s1 = k, s3 = k)
      /\ Peers!GatheredArrives(s4[k], s5[k], s7[k], s8[k])
      /\ s1 = k => Peers!InOrder(s4[k], s6[k], s7[k])
      /\ s7[k].failed \notin {"early", "unexpected"}
      /\ s7 = [s7 EXCEPT ![k] = s7[k]] /\ s8 = [s8 EXCEPT ![k] = s8[k]]
      /\ s6 = [s6 EXCEPT ![k] = s6[k]] /\ s6[k] \in Seq(Peers!DownMessages)
      /\ \A t : (s7' = [s7 EXCEPT ![k] = t]) => s7'[k] = t
      /\ \A r : (s8' = [s8 EXCEPT ![k] = r]) => s8'[k] = r
      /\ \A u : (s5' = [s5 EXCEPT ![k] = u]) => s5'[k] = u
  BY TaskBefore
<1>2. /\ s7[k].at = "offer" /\ s5[k] # <<>> /\ UNCHANGED <<s1, s2, s3, s4, s6>>
      /\ s5' = [s5 EXCEPT ![k] = Tail(s5[k])]
  BY DEF Peers!ReceiveOffer, Peers!At, Peers!TaskOnly, Peers!PageStays
<1>3. /\ Head(s5[k]) = s5[k][1] /\ s5[k][1].type = "offer" /\ s5[k][1] \in Peers!UpMessages
      /\ Tail(s5[k]) \in Seq(Peers!UpMessages) /\ DOMAIN Tail(s5[k]) \subseteq Nat \ {0}
      /\ \A i \in DOMAIN Tail(s5[k]) : i + 1 \in DOMAIN s5[k] /\ Tail(s5[k])[i] = s5[k][i + 1]
           /\ i + 1 # 1
      /\ \A i \in DOMAIN s5[k] : i = 1 \/ (i - 1 \in DOMAIN Tail(s5[k])
           /\ Tail(s5[k])[i - 1] = s5[k][i])
  BY <1>1, <1>2, TailFacts DEF Peers!OfferFirst
<1>. DEFINE t2 == [s7[k] EXCEPT !.at = "create"]
            given == {Peers!Resolved(k, c) : c \in s5[k][1].candidates}
            r2 == [s8[k] EXCEPT !.given = given]
<1>4. s7' = [s7 EXCEPT ![k] = t2] /\ s8' = [s8 EXCEPT ![k] = r2]
  BY <1>3 DEF Peers!ReceiveOffer, Peers!Goes
<1>5. /\ t2 \in Peers!TasksOf /\ t2.at = "create" /\ t2.open = s7[k].open
           /\ t2.failed = s7[k].failed
      /\ t2.pipeline = s7[k].pipeline /\ t2.channel = s7[k].channel /\ t2.registered = s7[k].registered
  BY <1>1 DEF Peers!TasksOf
<1>6. /\ given \subseteq Peers!Candidates /\ (k \in Resolvable => \A c \in given :
           c.address = "ip")
  BY <1>3, MessageTypes, ResolvedTypes
<1>7. r2 \in Peers!ServerPeers /\ r2.given = given /\ r2.life = s8[k].life
  BY <1>1, <1>6 DEF Peers!ServerPeers
<1>. HIDE DEF t2, r2, given
<1>8. s7'[k] = t2 /\ s8'[k] = r2 /\ s5'[k] = Tail(s5[k]) /\ s6'[k] = s6[k]
  BY <1>1, <1>2, <1>4
<1>9. Peers!SetUp(t2, r2)
  BY <1>1, <1>2, <1>5, <1>7 DEF Peers!SetUp
<1>10. Peers!OfferFirst(k, s4[k], Tail(s5[k]), t2, s3 = k)
  <2>1. ~(s4[k].step = "none" \/ (s4[k].starting /\ s3 = k))
    BY <1>1, <1>2 DEF Peers!OfferFirst
  <2>2. \A i \in DOMAIN Tail(s5[k]) : Tail(s5[k])[i].of = k /\ Tail(s5[k])[i].type # "offer"
    BY <1>1, <1>3 DEF Peers!OfferFirst
  <2>. QED
    BY <1>1, <1>5, <2>1, <2>2 DEF Peers!OfferFirst
<1>11. Peers!GatheredArrives(s4[k], Tail(s5[k]), t2, r2)
  <2>1. ASSUME NEW i \in DOMAIN s5[k], s5[k][i].type = "candidate"
        PROVE  \E j \in DOMAIN Tail(s5[k]) : Tail(s5[k])[j].type = "candidate"
    BY <1>3, <2>1
  <2>. QED
    BY <1>1, <1>2, <1>5, <2>1 DEF Peers!GatheredArrives
<1>12. s1 = k => Peers!InOrder(s4[k], s6[k], t2)
  BY <1>1, <1>2, <1>5, InOrderKept DEF Peers!Unanswered
<1>13. s6' = [s6 EXCEPT ![k] = s6'[k]] /\ s6'[k] \in Seq(Peers!DownMessages)
  BY <1>1, <1>2
<1>. QED
  BY <1>2, <1>3, <1>4, <1>5, <1>6, <1>7, <1>8, <1>9, <1>10, <1>11, <1>12, <1>13,
     TaskStep

LEMMA ReceiveCandidateStep ==
  ASSUME Peers!PeersInv, NEW k \in Connections, Peers!ReceiveCandidate(k)
  PROVE  Peers!PeersInv'
<1>1. /\ s7[k] \in Peers!TasksOf /\ s8[k] \in Peers!ServerPeers
           /\ s5[k] \in Seq(Peers!UpMessages)
      /\ Peers!SetUp(s7[k], s8[k]) /\ Peers!OfferFirst(k, s4[k], s5[k], s7[k], s3 = k)
      /\ Peers!OneAtATime(s4[k], s7[k], s1 = k, s3 = k)
      /\ Peers!GatheredArrives(s4[k], s5[k], s7[k], s8[k])
      /\ s1 = k => Peers!InOrder(s4[k], s6[k], s7[k])
      /\ k \in Resolvable => \A c \in s8[k].given : c.address = "ip"
      /\ s7[k].failed \notin {"early", "unexpected"}
      /\ s7 = [s7 EXCEPT ![k] = s7[k]] /\ s8 = [s8 EXCEPT ![k] = s8[k]]
      /\ s6 = [s6 EXCEPT ![k] = s6[k]] /\ s6[k] \in Seq(Peers!DownMessages)
      /\ \A r : (s8' = [s8 EXCEPT ![k] = r]) => s8'[k] = r
      /\ \A u : (s5' = [s5 EXCEPT ![k] = u]) => s5'[k] = u
  BY TaskBefore
<1>2. /\ s7[k].at = "run" /\ s5[k] # <<>> /\ UNCHANGED <<s1, s2, s3, s4, s6>>
      /\ s5' = [s5 EXCEPT ![k] = Tail(s5[k])]
  BY DEF Peers!ReceiveCandidate, Peers!At, Peers!TaskOnly, Peers!Breaks, Peers!PageStays
<1>3. /\ Head(s5[k]) = s5[k][1] /\ s5[k][1] \in Peers!UpMessages /\ 1 \in DOMAIN s5[k]
      /\ Tail(s5[k]) \in Seq(Peers!UpMessages) /\ DOMAIN Tail(s5[k]) \subseteq Nat \ {0}
      /\ \A i \in DOMAIN Tail(s5[k]) : i + 1 \in DOMAIN s5[k] /\ Tail(s5[k])[i] = s5[k][i + 1]
           /\ i + 1 # 1
  BY <1>1, <1>2, TailFacts
<1>4. s5[k][1] \in Peers!Candidates /\ s5[k][1].type = "candidate"
  BY <1>1, <1>2, <1>3, MessageTypes DEF Peers!OfferFirst
<1>5. Peers!OfferFirst(k, s4[k], Tail(s5[k]), s7[k], s3 = k)
  <2>1. ~(s4[k].step = "none" \/ (s4[k].starting /\ s3 = k))
    BY <1>1, <1>2 DEF Peers!OfferFirst
  <2>2. \A i \in DOMAIN Tail(s5[k]) : Tail(s5[k])[i].of = k /\ Tail(s5[k])[i].type # "offer"
    BY <1>1, <1>2, <1>3 DEF Peers!OfferFirst
  <2>. QED
    BY <1>1, <1>2, <2>1, <2>2 DEF Peers!OfferFirst
<1>6. /\ s5'[k] = Tail(s5[k]) /\ s6'[k] = s6[k]
      /\ s5' = [s5 EXCEPT ![k] = s5'[k]] /\ s6' = [s6 EXCEPT ![k] = s6'[k]]
  BY <1>1, <1>2
<1>7. CASE s8' = [s8 EXCEPT ![k].given = @ \cup {Peers!Resolved(k, s5[k][1])}] /\ s7' = s7
  <2>. DEFINE given == s8[k].given \cup {Peers!Resolved(k, s5[k][1])}
              r2 == [s8[k] EXCEPT !.given = given]
  <2>1. s8' = [s8 EXCEPT ![k] = r2]
    BY <1>1, <1>7
  <2>2. /\ given \subseteq Peers!Candidates /\ (k \in Resolvable => \A c \in given :
             c.address = "ip") /\ given # {}
    BY <1>1, <1>4, ResolvedTypes DEF Peers!ServerPeers
  <2>3. r2 \in Peers!ServerPeers /\ r2.given = given /\ r2.life = s8[k].life
    BY <1>1, <2>2 DEF Peers!ServerPeers
  <2>. HIDE DEF r2, given
  <2>4. s7'[k] = s7[k] /\ s8'[k] = r2
    BY <1>1, <1>7, <2>1
  <2>5. Peers!SetUp(s7[k], r2)
    BY <1>1, <1>2, <2>3 DEF Peers!SetUp
  <2>6. Peers!GatheredArrives(s4[k], Tail(s5[k]), s7[k], r2)
    BY <1>1, <1>2, <2>2, <2>3 DEF Peers!GatheredArrives
  <2>7. s7' = [s7 EXCEPT ![k] = s7'[k]] /\ s8' = [s8 EXCEPT ![k] = s8'[k]]
    BY <1>1, <1>7, <2>1, <2>4
  <2>8. /\ s5'[k] \in Seq(Peers!UpMessages) /\ s6'[k] \in Seq(Peers!DownMessages)
        /\ s7'[k] \in Peers!TasksOf /\ s8'[k] \in Peers!ServerPeers
        /\ s7[k].at # "none" /\ s7'[k].at # "none" /\ (s7'[k].open => s7[k].open)
        /\ Peers!SetUp(s7'[k], s8'[k]) /\ Peers!OfferFirst(k, s4[k], s5'[k], s7'[k], s3 = k)
        /\ Peers!GatheredArrives(s4[k], s5'[k], s7'[k], s8'[k])
        /\ s1 = k => Peers!InOrder(s4[k], s6'[k], s7'[k])
        /\ k \in Resolvable => \A c \in s8'[k].given : c.address = "ip"
    BY <1>1, <1>2, <1>3, <1>5, <1>6, <2>2, <2>3, <2>4, <2>5, <2>6
  <2>. QED
    BY <1>2, <1>6, <2>7, <2>8, TaskStep
<1>8. CASE Peers!Fails(k, "close", "error") /\ s8' = s8
  <2>. DEFINE t2 == [s7[k] EXCEPT !.at = "close", !.failed = "error"]
  <2>1. s7' = [s7 EXCEPT ![k] = t2]
    BY <1>8 DEF Peers!Fails
  <2>2. /\ t2 \in Peers!TasksOf /\ t2.at = "close" /\ t2.open = s7[k].open
        /\ t2.failed = "error" /\ t2.pipeline = s7[k].pipeline
        /\ t2.channel = s7[k].channel /\ t2.registered = s7[k].registered
    <3>1. s7[k] \in Peers!TasksOf
      BY <1>1
    <3>. QED
      BY <3>1 DEF Peers!TasksOf
  <2>. HIDE DEF t2
  <2>3. s7'[k] = t2 /\ s8'[k] = s8[k]
    BY <1>8, <2>1, TaskBefore
  <2>4. Peers!SetUp(t2, s8[k])
    BY <1>1, <1>2, <2>2 DEF Peers!SetUp
  <2>5. Peers!OfferFirst(k, s4[k], Tail(s5[k]), t2, s3 = k)
    BY <1>1, <1>2, <1>3, <1>5, <2>2 DEF Peers!OfferFirst
  <2>6. Peers!GatheredArrives(s4[k], Tail(s5[k]), t2, s8[k])
    BY <1>1, <2>2 DEF Peers!GatheredArrives
  <2>7. s1 = k => Peers!InOrder(s4[k], s6[k], t2)
    BY <1>1, <1>2, <2>2, InOrderKept DEF Peers!Unanswered
  <2>8. s7' = [s7 EXCEPT ![k] = s7'[k]] /\ s8' = [s8 EXCEPT ![k] = s8'[k]]
    BY <1>1, <1>8, <2>1, <2>3
  <2>9. /\ s5'[k] \in Seq(Peers!UpMessages) /\ s6'[k] \in Seq(Peers!DownMessages)
        /\ s7'[k] \in Peers!TasksOf /\ s8'[k] \in Peers!ServerPeers
        /\ s7[k].at # "none" /\ s7'[k].at # "none" /\ (s7'[k].open => s7[k].open)
        /\ Peers!SetUp(s7'[k], s8'[k]) /\ Peers!OfferFirst(k, s4[k], s5'[k], s7'[k], s3 = k)
        /\ Peers!GatheredArrives(s4[k], s5'[k], s7'[k], s8'[k])
        /\ s1 = k => Peers!InOrder(s4[k], s6'[k], s7'[k])
        /\ k \in Resolvable => \A c \in s8'[k].given : c.address = "ip"
    BY <1>1, <1>2, <1>3, <1>6, <2>2, <2>3, <2>4, <2>5, <2>6, <2>7
  <2>. QED
    BY <1>2, <1>6, <2>8, <2>9, TaskStep
<1>9. \/ s8' = [s8 EXCEPT ![k].given = @ \cup {Peers!Resolved(k, s5[k][1])}] /\ s7' = s7
      \/ Peers!Fails(k, "close", "error") /\ s8' = s8
  BY <1>3, <1>4 DEF Peers!ReceiveCandidate
<1>. QED
  BY <1>7, <1>8, <1>9

LEMMA AnswerStep ==
  ASSUME Peers!PeersInv, NEW k \in Connections, Peers!Answer(k) \/ Peers!Trickle(k)
  PROVE  Peers!PeersInv'
<1>1. /\ s7[k] \in Peers!TasksOf /\ s8[k] \in Peers!ServerPeers
           /\ s5[k] \in Seq(Peers!UpMessages)
      /\ s4[k] \in Peers!Pages
      /\ Peers!SetUp(s7[k], s8[k]) /\ Peers!OfferFirst(k, s4[k], s5[k], s7[k], s3 = k)
      /\ Peers!OneAtATime(s4[k], s7[k], s1 = k, s3 = k)
      /\ Peers!GatheredArrives(s4[k], s5[k], s7[k], s8[k])
      /\ s1 = k => Peers!InOrder(s4[k], s6[k], s7[k])
      /\ s7[k].failed \notin {"early", "unexpected"}
      /\ k \in Resolvable => \A c \in s8[k].given : c.address = "ip"
      /\ s7 = [s7 EXCEPT ![k] = s7[k]] /\ s8 = [s8 EXCEPT ![k] = s8[k]]
      /\ s5 = [s5 EXCEPT ![k] = s5[k]] /\ s6[k] \in Seq(Peers!DownMessages)
      /\ \A t : (s7' = [s7 EXCEPT ![k] = t]) => s7'[k] = t
      /\ \A r : (s8' = [s8 EXCEPT ![k] = r]) => s8'[k] = r
  BY TaskBefore
<1>2. s7[k].at \in {"answer", "run"} /\ UNCHANGED <<s1, s2, s3, s4, s5>>
  BY DEF Peers!Answer, Peers!Trickle, Peers!At, Peers!TaskOnly, Peers!PageStays
<1>3. CASE ~s7[k].open
  <2>1. Peers!Fails(k, "close", "error") /\ UNCHANGED s6
    BY <1>3 DEF Peers!Answer, Peers!Trickle
  <2>2. s8' = s8 \/ s8' = [s8 EXCEPT ![k].queued = FALSE]
    BY DEF Peers!Answer, Peers!Trickle
  <2>. QED
    BY <1>2, <2>1, <2>2, FailSteps
<1>4. CASE s7[k].open
  <2>0. s1 = k /\ s4[k].step # "none" /\ ~s4[k].starting
    <3>1. s1 = k
      BY <1>1, <1>2, <1>4 DEF Peers!OneAtATime
    <3>2. s4[k].step # "none" /\ ~(s4[k].starting /\ s3 = k)
      BY <1>1, <1>2 DEF Peers!OfferFirst
    <3>3. s3 = k
      BY <1>1, <3>1, <3>2 DEF Peers!OneAtATime, Peers!Live, Peers!Pages
    <3>. QED
      BY <3>1, <3>2, <3>3
  <2>1. PICK m \in Peers!DownMessages, t2 \in Peers!TasksOf, r2 \in Peers!ServerPeers :
          /\ Peers!Says(k, m) /\ s7' = [s7 EXCEPT ![k] = t2] /\ s8' = [s8 EXCEPT ![k] = r2]
          /\ t2.at = "run" /\ t2.open = s7[k].open /\ t2.failed = s7[k].failed
          /\ t2.pipeline = s7[k].pipeline /\ t2.channel = s7[k].channel /\ t2.registered = s7[k].registered
          /\ r2.given = s8[k].given /\ r2.life = s8[k].life
          /\ m.type = "answer" \/ (m.type = "candidate" /\ s7[k].at = "run")
    <3>1. CASE Peers!Answer(k)
      <4>. DEFINE t2 == [s7[k] EXCEPT !.at = "run"]
      <4>1. Peers!Says(k, Peers!Plain("answer")) /\ s7' = [s7 EXCEPT ![k] = t2] /\ s8' = s8
        BY <1>4, <3>1 DEF Peers!Answer, Peers!Goes
      <4>2. /\ t2 \in Peers!TasksOf /\ t2.at = "run" /\ t2.open = s7[k].open
                 /\ t2.failed = s7[k].failed
            /\ t2.pipeline = s7[k].pipeline /\ t2.channel = s7[k].channel /\ t2.registered = s7[k].registered
        BY <1>1 DEF Peers!TasksOf
      <4>3. Peers!Plain("answer") \in Peers!DownMessages
            /\ Peers!Plain("answer").type = "answer"
        BY MessageTypes DEF Peers!Plain
      <4>. HIDE DEF t2
      <4>. QED
        BY <1>1, <4>1, <4>2, <4>3
    <3>2. CASE Peers!Trickle(k)
      <4>. DEFINE r2 == [s8[k] EXCEPT !.queued = FALSE]
      <4>1. /\ Peers!Says(k, Peers!Candidate(0, "ip")) /\ s7' = s7
                 /\ s8' = [s8 EXCEPT ![k] = r2]
            /\ s7[k].at = "run"
        BY <1>4, <3>2 DEF Peers!Trickle, Peers!At
      <4>2. r2 \in Peers!ServerPeers /\ r2.given = s8[k].given /\ r2.life = s8[k].life
        BY <1>1 DEF Peers!ServerPeers
      <4>3. Peers!Candidate(0, "ip") \in Peers!DownMessages /\ Peers!Candidate(0,
            "ip").type = "candidate"
        BY MessageTypes DEF Peers!Candidate
      <4>. HIDE DEF r2
      <4>. QED
        BY <1>1, <4>1, <4>2, <4>3
    <3>. QED
      BY <3>1, <3>2
  <2>2. /\ s6' = [s6 EXCEPT ![k] = s6'[k]] /\ s6'[k] \in Seq(Peers!DownMessages)
        /\ s6'[k] = Append(s6[k], m)
    BY <1>4, <2>1, Saying
  <2>3. s7'[k] = t2 /\ s8'[k] = r2 /\ s5'[k] = s5[k]
    BY <1>1, <1>2, <2>1
  <2>4. Peers!SetUp(t2, r2)
    BY <1>1, <1>2, <2>1 DEF Peers!SetUp
  <2>5. Peers!OfferFirst(k, s4[k], s5[k], t2, s3 = k)
    BY <1>1, <1>2, <2>1 DEF Peers!OfferFirst
  <2>6. Peers!GatheredArrives(s4[k], s5[k], t2, r2)
    BY <1>1, <1>2, <2>1 DEF Peers!GatheredArrives
  <2>7. Peers!InOrder(s4[k], Append(s6[k], m), t2)
    <3>1. Peers!InOrder(s4[k], s6[k], s7[k])
      BY <1>1, <2>0
    <3>2. m.type = "candidate" => Peers!Heard(s4[k]) \/ \E j \in DOMAIN s6[k] :
          s6[k][j].type = "answer"
      BY <1>4, <2>1, <3>1 DEF Peers!InOrder
    <3>. QED
      BY <1>1, <1>2, <1>4, <2>0, <2>1, <3>1, <3>2, InOrderAppend DEF Peers!Unanswered
  <2>8. /\ s5' = [s5 EXCEPT ![k] = s5'[k]]
        /\ s7' = [s7 EXCEPT ![k] = s7'[k]] /\ s8' = [s8 EXCEPT ![k] = s8'[k]]
    BY <1>1, <1>2, <2>1, <2>3
  <2>9. /\ s5'[k] \in Seq(Peers!UpMessages)
        /\ s7'[k] \in Peers!TasksOf /\ s8'[k] \in Peers!ServerPeers
        /\ s7[k].at # "none" /\ s7'[k].at # "none" /\ (s7'[k].open => s7[k].open)
        /\ Peers!SetUp(s7'[k], s8'[k]) /\ Peers!OfferFirst(k, s4[k], s5'[k], s7'[k], s3 = k)
        /\ Peers!GatheredArrives(s4[k], s5'[k], s7'[k], s8'[k])
        /\ s1 = k => Peers!InOrder(s4[k], s6'[k], s7'[k])
        /\ k \in Resolvable => \A c \in s8'[k].given : c.address = "ip"
    BY <1>1, <1>2, <2>1, <2>2, <2>3, <2>4, <2>5, <2>6, <2>7
  <2>. QED
    BY <1>2, <2>2, <2>8, <2>9, TaskStep
<1>. QED
  BY <1>3, <1>4

LEMMA TellStep ==
  ASSUME Peers!PeersInv, NEW k \in Connections, Peers!Tell(k)
  PROVE  Peers!PeersInv'
<1>1. /\ s7[k] \in Peers!TasksOf /\ s8[k] \in Peers!ServerPeers /\ s4[k] \in Peers!Pages
      /\ Peers!SetUp(s7[k], s8[k]) /\ Peers!OfferFirst(k, s4[k], s5[k], s7[k], s3 = k)
      /\ Peers!OneAtATime(s4[k], s7[k], s1 = k, s3 = k)
      /\ Peers!GatheredArrives(s4[k], s5[k], s7[k], s8[k])
      /\ s1 = k => Peers!InOrder(s4[k], s6[k], s7[k])
      /\ s7[k].failed \notin {"early", "unexpected"}
      /\ k \in Resolvable => \A c \in s8[k].given : c.address = "ip"
      /\ s8 = [s8 EXCEPT ![k] = s8[k]]
      /\ s6 = [s6 EXCEPT ![k] = s6[k]] /\ s6[k] \in Seq(Peers!DownMessages)
      /\ \A t : (s7' = [s7 EXCEPT ![k] = t]) => s7'[k] = t
      /\ \A u : (s5' = [s5 EXCEPT ![k] = u]) => s5'[k] = u
  BY TaskBefore
<1>. DEFINE t2 == [s7[k] EXCEPT !.at = "gone", !.open = FALSE]
            m == Peers!Plain("error")
<1>2. /\ s7[k].at = "told" /\ UNCHANGED <<s1, s2, s3, s4, s8>>
      /\ s7' = [s7 EXCEPT ![k] = t2] /\ s5' = [s5 EXCEPT ![k] = <<>>]
      /\ Peers!Says(k, m) \/ UNCHANGED s6
  BY DEF Peers!Tell, Peers!At, Peers!TaskOnly, Peers!PageStays
<1>3. /\ t2 \in Peers!TasksOf /\ t2.at = "gone" /\ ~t2.open /\ t2.failed = s7[k].failed
      /\ t2.pipeline = s7[k].pipeline /\ t2.channel = s7[k].channel /\ t2.registered = s7[k].registered
  BY <1>1 DEF Peers!TasksOf
<1>4. m \in Peers!DownMessages /\ m.type = "error"
  BY MessageTypes DEF Peers!Plain
<1>. HIDE DEF t2, m
<1>5. s7'[k] = t2 /\ s8'[k] = s8[k] /\ s5'[k] = <<>>
  BY <1>1, <1>2
<1>6. Peers!SetUp(t2, s8[k])
  BY <1>1, <1>2, <1>3 DEF Peers!SetUp
<1>7. Peers!OfferFirst(k, s4[k], <<>>, t2, s3 = k)
  <2>1. \A i \in DOMAIN <<>> : FALSE
    OBVIOUS
  <2>. QED
    BY <1>1, <1>2, <1>3, <2>1 DEF Peers!OfferFirst
<1>8. Peers!GatheredArrives(s4[k], <<>>, t2, s8[k])
  BY <1>1, <1>3 DEF Peers!GatheredArrives
<1>9. Peers!InOrder(s4[k], s6[k], s7[k]) => Peers!InOrder(s4[k], s6[k], t2)
  BY <1>2, <1>3, InOrderKept DEF Peers!Unanswered
<1>10. Peers!InOrder(s4[k], s6[k], s7[k]) => Peers!InOrder(s4[k], Append(s6[k], m), t2)
  BY <1>1, <1>2, <1>3, <1>4, InOrderAppend DEF Peers!Unanswered
<1>11. /\ s6' = [s6 EXCEPT ![k] = s6'[k]] /\ s6'[k] \in Seq(Peers!DownMessages)
       /\ s6'[k] = s6[k] \/ s6'[k] = Append(s6[k], m)
  <2>1. CASE UNCHANGED s6
    BY <1>1, <2>1
  <2>2. CASE Peers!Says(k, m)
    BY <1>4, <2>2, Saying
  <2>. QED
    BY <1>2, <2>1, <2>2
<1>12. s1 = k => Peers!InOrder(s4[k], s6'[k], t2)
  BY <1>1, <1>9, <1>10, <1>11
<1>13. /\ s5' = [s5 EXCEPT ![k] = s5'[k]]
       /\ s7' = [s7 EXCEPT ![k] = s7'[k]] /\ s8' = [s8 EXCEPT ![k] = s8'[k]]
  BY <1>1, <1>2, <1>5
<1>14. /\ s5'[k] \in Seq(Peers!UpMessages)
       /\ s7'[k] \in Peers!TasksOf /\ s8'[k] \in Peers!ServerPeers
       /\ s7[k].at # "none" /\ s7'[k].at # "none" /\ (s7'[k].open => s7[k].open)
       /\ Peers!SetUp(s7'[k], s8'[k]) /\ Peers!OfferFirst(k, s4[k], s5'[k], s7'[k], s3 = k)
       /\ Peers!GatheredArrives(s4[k], s5'[k], s7'[k], s8'[k])
       /\ s1 = k => Peers!InOrder(s4[k], s6'[k], s7'[k])
       /\ k \in Resolvable => \A c \in s8'[k].given : c.address = "ip"
  <2>1. <<>> \in Seq(Peers!UpMessages)
    OBVIOUS
  <2>. QED
    BY <1>1, <1>2, <1>3, <1>5, <1>6, <1>7, <1>8, <1>12, <2>1
<1>. QED
  BY <1>2, <1>11, <1>13, <1>14, TaskStep

-----------------------------------------------------------------------------
\* The connection that the page leaves, or that is closed.
LEMMA LeftStep ==
  ASSUME NEW k, NEW p \in Peers!Pages, NEW u \in Seq(Peers!UpMessages), NEW d,
         NEW t \in Peers!TasksOf, NEW r, NEW on, NEW mine,
         NEW p2 \in Peers!Pages, NEW t2 \in Peers!TasksOf, Peers!Fits(k, p, u, d, t, r, on,
           mine),
         t2 = t \/ (t2 = [t EXCEPT !.open = FALSE] /\ t.at # "none"), t.at # "none" =>
           ~t2.open,
         p2 = IF mine THEN [Peers!NoPage EXCEPT !.step = "closed",
           !.starting = p.starting] ELSE p
  PROVE  Peers!Fits(k, p2, u, <<>>, t2, r, FALSE, FALSE)
<1>1. /\ t2.at = t.at /\ t2.registered = t.registered /\ t2.pipeline = t.pipeline
      /\ t2.channel = t.channel /\ t2.failed = t.failed
  BY DEF Peers!TasksOf
<1>2. t.at = "none" => ~mine
  BY DEF Peers!Fits, Peers!OneAtATime
<1>3. mine => /\ p2.step = "closed" /\ p2.starting = p.starting /\ ~p2.remote /\ ~p2.offerSent
                   /\ ~p2.gathered
              /\ p2.waiting = 0 /\ p2.applied = 0 /\ p2.heard = 0
  BY DEF Peers!NoPage
<1>4. Peers!OneAtATime(p2, t2, FALSE, FALSE)
  <2>1. ~mine => ~Peers!Live(p)
    BY DEF Peers!Fits, Peers!OneAtATime
  <2>2. ~Peers!Live(p2)
    BY <1>3, <2>1 DEF Peers!Live
  <2>. QED
    BY <1>1, <2>2 DEF Peers!OneAtATime
<1>5. Peers!SetUp(t2, r)
  BY <1>1 DEF Peers!Fits, Peers!SetUp
<1>6. Peers!OfferFirst(k, p2, u, t2, FALSE)
  BY <1>1, <1>3 DEF Peers!Fits, Peers!OfferFirst
<1>7. Peers!GatheredArrives(p2, u, t2, r)
  BY <1>1, <1>3 DEF Peers!Fits, Peers!GatheredArrives
<1>8. Peers!HeardApplied(p2)
  BY <1>3 DEF Peers!Fits, Peers!HeardApplied
<1>. QED
  BY <1>4, <1>5, <1>6, <1>7, <1>8 DEF Peers!Fits

\* What is not the page's connection.
LEMMA NotOpen ==
  ASSUME Peers!PeersInv, NEW k \in Connections, s1 # k
  PROVE  s3 # k /\ (s7[k].at # "none" => ~s7[k].open)
<1>1. Peers!OneAtATime(s4[k], s7[k], s1 = k, s3 = k)
  BY TaskBefore
<1>. QED
  BY <1>1 DEF Peers!OneAtATime

\* The page leaves its connection.
PageLeaves ==
  /\ s5' = s5 /\ s8' = s8 /\ s6' = [k \in Connections |-> <<>>]
  /\ s4' = IF s3 = 0 THEN s4 ELSE [s4 EXCEPT ![s3] = Peers!Closed(s3)]
  /\ s3' = 0

LEMMA LeavingTypes ==
  ASSUME Peers!PeersInv, PageLeaves
  PROVE  /\ s4' \in [Connections -> Peers!Pages]
              /\ s5' \in [Connections -> Seq(Peers!UpMessages)]
         /\ s6' \in [Connections -> Seq(Peers!DownMessages)]
              /\ s8' \in [Connections -> Peers!ServerPeers]
         /\ \A k \in Connections : s4'[k] = IF s3 = k THEN Peers!Closed(k) ELSE s4[k]
<1>1. \A k \in Connections : Peers!Closed(k) \in Peers!Pages
  BY DEF Peers!PeersInv, Peers!Closed, Peers!NoPage, Peers!Pages
<1>2. 0 \notin Connections
  BY PeersGiven
<1>3. s4' \in [Connections -> Peers!Pages]
  BY <1>1 DEF Peers!PeersInv, PageLeaves
<1>4. \A k \in Connections : s4'[k] = IF s3 = k THEN Peers!Closed(k) ELSE s4[k]
  BY <1>2 DEF Peers!PeersInv, PageLeaves
<1>. QED
  BY <1>3, <1>4 DEF Peers!PeersInv, PageLeaves

\* How a connection is left.
LEMMA LeavingLeft ==
  ASSUME Peers!PeersInv, PageLeaves, NEW k \in Connections,
         s7' \in [Connections -> Peers!TasksOf],
         s7'[k] = s7[k] \/ (s7'[k] = [s7[k] EXCEPT !.open = FALSE] /\ s7[k].at # "none"),
         s7[k].at # "none" => ~s7'[k].open
  PROVE  Peers!Fits(k, s4'[k], s5'[k], s6'[k], s7'[k], s8'[k], FALSE, FALSE)
<1>1. PeerHeld(k) /\ s4[k] \in Peers!Pages /\ s7[k] \in Peers!TasksOf
  BY Before
<1>2. /\ s5'[k] = s5[k] /\ s8'[k] = s8[k] /\ s6'[k] = <<>> /\ s4'[k] \in Peers!Pages
           /\ s7'[k] \in Peers!TasksOf
      /\ s4'[k] = IF s3 = k THEN Peers!Closed(k) ELSE s4[k]
  BY LeavingTypes DEF PageLeaves
<1>3. s4'[k] = IF s3 = k THEN [Peers!NoPage EXCEPT !.step = "closed",
      !.starting = s4[k].starting]
                                    ELSE s4[k]
  BY <1>2 DEF Peers!Closed
<1>4. s5[k] \in Seq(Peers!UpMessages) /\ Peers!Fits(k, s4[k], s5[k], s6[k], s7[k], s8[k],
      s1 = k, s3 = k)
  BY <1>1 DEF PeerHeld, PeersTyped
<1>5. Peers!Fits(k, s4'[k], s5[k], <<>>, s7'[k], s8[k], FALSE, FALSE)
  BY <1>1, <1>2, <1>3, <1>4, LeftStep
<1>. QED
  BY <1>2, <1>5

LEMMA SocketClosesStep ==
  ASSUME Peers!PeersInv, Peers!SocketCloses
  PROVE  Peers!PeersInv'
<1>1. /\ PageLeaves /\ s1 # 0 /\ ~s7[s1].open /\ s1' = 0 /\ s2' = s2 /\ s7' = s7
  BY DEF Peers!SocketCloses, PageLeaves
<1>2. s7' \in [Connections -> Peers!TasksOf]
  BY <1>1 DEF Peers!PeersInv
<1>3. ASSUME NEW k \in Connections
      PROVE  /\ Peers!Fits(k, s4'[k], s5'[k], s6'[k], s7'[k], s8'[k], s1' = k, s3' = k)
             /\ k > s2' => s4'[k] = Peers!NoPage /\ s5'[k] = <<>> /\ s7'[k] = Peers!NoTask
                  /\ s8'[k] = Peers!NoPeer
  <2>1. s7[k].at # "none" => ~s7'[k].open
    BY <1>1, NotOpen
  <2>2. Peers!Fits(k, s4'[k], s5'[k], s6'[k], s7'[k], s8'[k], FALSE, FALSE)
    BY <1>1, <1>2, <2>1, LeavingLeft
  <2>3. k # 0 /\ s1' # k /\ s3' # k /\ k \in Nat /\ s1 \in Nat /\ s2 \in Nat
    BY <1>1, PeersGiven DEF PageLeaves, Peers!PeersInv
  <2>4. (s1' = k) = FALSE /\ (s3' = k) = FALSE
    BY <2>3
  <2>5. k > s2 => s3 # k
    <3>1. s3 = k => s1 = k
      BY NotOpen
    <3>. QED
      BY <2>3, <3>1 DEF Peers!PeersInv
  <2>6. s4'[k] = IF s3 = k THEN Peers!Closed(k) ELSE s4[k]
    BY <1>1, LeavingTypes
  <2>7. k > s2' => s4'[k] = Peers!NoPage /\ s5'[k] = <<>> /\ s7'[k] = Peers!NoTask
        /\ s8'[k] = Peers!NoPeer
    BY <1>1, <2>5, <2>6 DEF Peers!PeersInv, PageLeaves
  <2>. QED
    BY <2>2, <2>4, <2>7
<1>4. s1' \in Connections \cup {0} /\ s3' \in Connections \cup {0} /\ s2' \in Nat
      /\ s1' <= s2'
  BY <1>1 DEF Peers!PeersInv, PageLeaves
<1>5. /\ s4' \in [Connections -> Peers!Pages]
           /\ s5' \in [Connections -> Seq(Peers!UpMessages)]
      /\ s6' \in [Connections -> Seq(Peers!DownMessages)]
           /\ s8' \in [Connections -> Peers!ServerPeers]
  BY <1>1, LeavingTypes
<1>. QED
  BY <1>2, <1>3, <1>4, <1>5 DEF Peers!PeersInv

LEMMA ConnectStep ==
  ASSUME Peers!PeersInv, Peers!Connect
  PROVE  Peers!PeersInv'
<1>1. /\ PageLeaves /\ s2 + 1 \in Connections /\ s2' = s2 + 1 /\ s1' = s2 + 1
      /\ s7' = [k \in Connections |->
           IF k = s2 + 1 THEN [Peers!NoTask EXCEPT !.at = "hello"]
           ELSE IF k = s1 THEN [s7[k] EXCEPT !.open = FALSE] ELSE s7[k]]
  BY DEF Peers!Connect, PageLeaves
<1>2. /\ [Peers!NoTask EXCEPT !.at = "hello"] \in Peers!TasksOf
      /\ \A k \in Connections : s7[k] \in Peers!TasksOf
           /\ [s7[k] EXCEPT !.open = FALSE] \in Peers!TasksOf
  <2>1. [Peers!NoTask EXCEPT !.at = "hello"] \in Peers!TasksOf
    BY DEF Peers!NoTask, Peers!TasksOf
  <2>2. ASSUME NEW k \in Connections
        PROVE  s7[k] \in Peers!TasksOf
    BY DEF Peers!PeersInv
  <2>3. ASSUME NEW t \in Peers!TasksOf
        PROVE  [t EXCEPT !.open = FALSE] \in Peers!TasksOf
    BY DEF Peers!TasksOf
  <2>. QED
    BY <2>1, <2>2, <2>3
<1>3. s7' \in [Connections -> Peers!TasksOf]
  BY <1>1, <1>2
<1>4. s2 \in Nat /\ s2' \in Nat /\ s2' > s2 /\ s1 <= s2 /\ s2 + 1 # s1
      /\ Connections \subseteq Nat
  BY <1>1, PeersGiven DEF Peers!PeersInv
<1>5. ASSUME NEW k \in Connections
      PROVE  k > s2 => s3 # k /\ s4'[k] = Peers!NoPage /\ s5'[k] = <<>>
             /\ s8'[k] = Peers!NoPeer
  <2>1. s3 = k => s1 = k
    BY NotOpen
  <2>2. k > s2 => s3 # k
    BY <1>4, <2>1
  <2>3. s4'[k] = IF s3 = k THEN Peers!Closed(k) ELSE s4[k]
    BY <1>1, LeavingTypes
  <2>. QED
    BY <1>1, <2>2, <2>3 DEF Peers!PeersInv, PageLeaves
<1>6. ASSUME NEW k \in Connections
      PROVE  /\ Peers!Fits(k, s4'[k], s5'[k], s6'[k], s7'[k], s8'[k], s1' = k, s3' = k)
             /\ k > s2' => s4'[k] = Peers!NoPage /\ s5'[k] = <<>> /\ s7'[k] = Peers!NoTask
                  /\ s8'[k] = Peers!NoPeer
  <2>0. k # 0 /\ s3' # k /\ k \in Nat
    BY <1>1, PeersGiven DEF PageLeaves
  <2>1. CASE k = s2 + 1
    <3>. DEFINE t2 == [Peers!NoTask EXCEPT !.at = "hello"]
    <3>1. /\ s4'[k] = Peers!NoPage /\ s5'[k] = <<>> /\ s8'[k] = Peers!NoPeer /\ s6'[k] = <<>>
               /\ s7'[k] = t2
      BY <1>1, <1>4, <1>5, <2>0, <2>1 DEF PageLeaves
    <3>2. (s1' = k) = TRUE /\ (s3' = k) = FALSE
      BY <1>1, <2>0, <2>1
    <3>3. /\ t2.at = "hello" /\ t2.open /\ ~t2.registered /\ ~t2.pipeline /\ t2.failed = "no"
          /\ ~t2.channel
      BY DEF Peers!NoTask
    <3>4. /\ Peers!NoPage.step = "none" /\ ~Peers!NoPage.starting /\ ~Peers!NoPage.gathered
               /\ ~Peers!NoPage.offerSent
          /\ Peers!NoPage.waiting = 0 /\ Peers!NoPage.applied = 0 /\ Peers!NoPage.heard = 0
          /\ Peers!NoPeer.life = "none" /\ Peers!NoPeer.given = {}
      BY DEF Peers!NoPage, Peers!NoPeer
    <3>. HIDE DEF t2
    <3>5. \A i \in DOMAIN <<>> : FALSE
      OBVIOUS
    <3>6. Peers!Fits(k, Peers!NoPage, <<>>, <<>>, t2, Peers!NoPeer, TRUE, FALSE)
      <4>1. Peers!OneAtATime(Peers!NoPage, t2, TRUE, FALSE) /\ Peers!SetUp(t2, Peers!NoPeer)
            /\ Peers!HeardApplied(Peers!NoPage)
        BY <3>3, <3>4 DEF Peers!OneAtATime, Peers!Live, Peers!SetUp, Peers!HeardApplied
      <4>2. Peers!OfferFirst(k, Peers!NoPage, <<>>, t2, FALSE)
            /\ Peers!GatheredArrives(Peers!NoPage, <<>>, t2, Peers!NoPeer)
        BY <3>3, <3>4, <3>5 DEF Peers!OfferFirst, Peers!GatheredArrives
      <4>3. Peers!InOrder(Peers!NoPage, <<>>, t2)
        BY <3>3, <3>4, <3>5 DEF Peers!InOrder
      <4>. QED
        BY <3>4, <4>1, <4>2, <4>3 DEF Peers!Fits
    <3>7. ~(k > s2')
      BY <1>1, <1>4, <2>1
    <3>. QED
      BY <3>1, <3>2, <3>6, <3>7
  <2>2. CASE k # s2 + 1
    <3>1. s7'[k] = IF k = s1 THEN [s7[k] EXCEPT !.open = FALSE] ELSE s7[k]
      BY <1>1, <2>2
    <3>2. s7[k] \in Peers!TasksOf
      BY <1>2
    <3>3. s7[k].at # "none" => ~s7'[k].open
      BY <3>1, <3>2, NotOpen DEF Peers!TasksOf
    <3>4. k = s1 => s7[k].at # "none"
      BY TaskBefore DEF Peers!OneAtATime
    <3>5. Peers!Fits(k, s4'[k], s5'[k], s6'[k], s7'[k], s8'[k], FALSE, FALSE)
      BY <1>1, <1>3, <3>1, <3>3, <3>4, LeavingLeft
    <3>6. (s1' = k) = FALSE /\ (s3' = k) = FALSE
      BY <1>1, <2>0, <2>2
    <3>7. k > s2' => k > s2 /\ k # s1
      BY <1>4, <2>0 DEF Peers!PeersInv
    <3>8. k > s2' => s7'[k] = Peers!NoTask
      BY <3>1, <3>7 DEF Peers!PeersInv
    <3>. QED
      BY <1>5, <3>5, <3>6, <3>7, <3>8
  <2>. QED
    BY <2>1, <2>2
<1>7. /\ s4' \in [Connections -> Peers!Pages]
           /\ s5' \in [Connections -> Seq(Peers!UpMessages)]
      /\ s6' \in [Connections -> Seq(Peers!DownMessages)]
           /\ s8' \in [Connections -> Peers!ServerPeers]
  BY <1>1, LeavingTypes
<1>8. s1' \in Connections \cup {0} /\ s3' \in Connections \cup {0} /\ s1' <= s2'
  BY <1>1, <1>4 DEF PageLeaves
<1>. QED
  BY <1>3, <1>4, <1>6, <1>7, <1>8 DEF Peers!PeersInv

\* The WebSocket is closed under both.
LEMMA CloseSocketStep ==
  ASSUME Peers!PeersInv, NEW k \in Connections, Peers!CloseSocket(k)
  PROVE  Peers!PeersInv'
<1>1. /\ s7[k] \in Peers!TasksOf /\ s8[k] \in Peers!ServerPeers
           /\ s5[k] \in Seq(Peers!UpMessages)
      /\ Peers!SetUp(s7[k], s8[k]) /\ Peers!OfferFirst(k, s4[k], s5[k], s7[k], s3 = k)
      /\ Peers!OneAtATime(s4[k], s7[k], s1 = k, s3 = k)
      /\ Peers!GatheredArrives(s4[k], s5[k], s7[k], s8[k])
      /\ s1 = k => Peers!InOrder(s4[k], s6[k], s7[k])
      /\ k \in Resolvable => \A c \in s8[k].given : c.address = "ip"
      /\ s8 = [s8 EXCEPT ![k] = s8[k]] /\ s5 = [s5 EXCEPT ![k] = s5[k]]
      /\ s6 = [s6 EXCEPT ![k] = s6[k]] /\ s6[k] \in Seq(Peers!DownMessages)
      /\ \A t : (s7' = [s7 EXCEPT ![k] = t]) => s7'[k] = t
  BY TaskBefore
<1>. DEFINE t2 == [s7[k] EXCEPT !.open = FALSE]
<1>2. /\ s7[k].at # "none" /\ s7' = [s7 EXCEPT ![k] = t2] /\ s7[k].open
      /\ UNCHANGED <<s1, s2, s3, s4, s5, s6, s8>>
  BY DEF Peers!CloseSocket
<1>3. /\ t2 \in Peers!TasksOf /\ t2.at = s7[k].at /\ ~t2.open /\ t2.failed = s7[k].failed
      /\ t2.pipeline = s7[k].pipeline /\ t2.channel = s7[k].channel /\ t2.registered = s7[k].registered
  BY <1>1 DEF Peers!TasksOf
<1>. HIDE DEF t2
<1>4. s7'[k] = t2 /\ s5'[k] = s5[k] /\ s6'[k] = s6[k] /\ s8'[k] = s8[k]
  BY <1>1, <1>2
<1>5. Peers!SetUp(t2, s8[k]) /\ Peers!OfferFirst(k, s4[k], s5[k], t2, s3 = k)
  BY <1>1, <1>2, <1>3 DEF Peers!SetUp, Peers!OfferFirst
<1>6. Peers!GatheredArrives(s4[k], s5[k], t2, s8[k])
  BY <1>1, <1>3 DEF Peers!GatheredArrives
<1>7. s1 = k => Peers!InOrder(s4[k], s6[k], t2)
  BY <1>1, <1>2, <1>3 DEF Peers!InOrder
<1>8. /\ s5' = [s5 EXCEPT ![k] = s5'[k]] /\ s6' = [s6 EXCEPT ![k] = s6'[k]]
      /\ s7' = [s7 EXCEPT ![k] = s7'[k]] /\ s8' = [s8 EXCEPT ![k] = s8'[k]]
  BY <1>1, <1>2, <1>4
<1>9. /\ s5'[k] \in Seq(Peers!UpMessages) /\ s6'[k] \in Seq(Peers!DownMessages)
      /\ s7'[k] \in Peers!TasksOf /\ s8'[k] \in Peers!ServerPeers
      /\ s7[k].at # "none" /\ s7'[k].at # "none" /\ (s7'[k].open => s7[k].open)
      /\ Peers!SetUp(s7'[k], s8'[k]) /\ Peers!OfferFirst(k, s4[k], s5'[k], s7'[k], s3 = k)
      /\ Peers!GatheredArrives(s4[k], s5'[k], s7'[k], s8'[k])
      /\ s1 = k => Peers!InOrder(s4[k], s6'[k], s7'[k])
      /\ k \in Resolvable => \A c \in s8'[k].given : c.address = "ip"
  BY <1>1, <1>2, <1>3, <1>4, <1>5, <1>6, <1>7
<1>. QED
  BY <1>2, <1>8, <1>9, TaskStep

\* The control channel opens, or closes and unregisters the session.
LEMMA ChannelSteps ==
  ASSUME Peers!PeersInv, NEW k \in Connections, Peers!ChannelOpens(k) \/ Peers!ChannelCloses(k)
  PROVE  Peers!PeersInv'
<1>1. /\ s7[k] \in Peers!TasksOf /\ s8[k] \in Peers!ServerPeers
           /\ s5[k] \in Seq(Peers!UpMessages)
      /\ Peers!SetUp(s7[k], s8[k]) /\ Peers!OfferFirst(k, s4[k], s5[k], s7[k], s3 = k)
      /\ Peers!GatheredArrives(s4[k], s5[k], s7[k], s8[k])
      /\ s1 = k => Peers!InOrder(s4[k], s6[k], s7[k])
      /\ k \in Resolvable => \A c \in s8[k].given : c.address = "ip"
      /\ s7 = [s7 EXCEPT ![k] = s7[k]] /\ s8 = [s8 EXCEPT ![k] = s8[k]]
      /\ s5 = [s5 EXCEPT ![k] = s5[k]] /\ s6 = [s6 EXCEPT ![k] = s6[k]]
      /\ s6[k] \in Seq(Peers!DownMessages)
      /\ \A t : (s7' = [s7 EXCEPT ![k] = t]) => s7'[k] = t
  BY TaskBefore
<1>2. UNCHANGED <<s1, s2, s3, s4, s5, s6, s8>>
  BY DEF Peers!ChannelOpens, Peers!ChannelCloses, Peers!TaskOnly, Peers!PageStays
<1>3. PICK t2 \in Peers!TasksOf :
        /\ s7' = [s7 EXCEPT ![k] = t2] /\ s7[k].at \notin {"none", "hello", "offer", "create"}
        /\ t2.at = s7[k].at /\ t2.open = s7[k].open /\ t2.failed = s7[k].failed
        /\ t2.pipeline = s7[k].pipeline /\ (t2.registered => s7[k].registered)
  <2>1. CASE Peers!ChannelOpens(k)
    <3>. DEFINE t2 == [s7[k] EXCEPT !.channel = TRUE]
    <3>1. s7' = [s7 EXCEPT ![k] = t2] /\ s8[k].life = "open"
      BY <2>1 DEF Peers!ChannelOpens
    <3>2. s7[k].at \notin {"none", "hello", "offer", "create"}
      BY <1>1, <3>1 DEF Peers!SetUp
    <3>3. /\ t2 \in Peers!TasksOf /\ t2.at = s7[k].at /\ t2.open = s7[k].open
          /\ t2.failed = s7[k].failed /\ t2.pipeline = s7[k].pipeline
          /\ t2.registered = s7[k].registered
      BY <1>1 DEF Peers!TasksOf
    <3>. HIDE DEF t2
    <3>. QED
      BY <3>1, <3>2, <3>3
  <2>2. CASE Peers!ChannelCloses(k)
    <3>. DEFINE t2 == [s7[k] EXCEPT !.channel = FALSE, !.registered = FALSE]
    <3>1. s7' = [s7 EXCEPT ![k] = t2] /\ s7[k].channel
      BY <2>2 DEF Peers!ChannelCloses
    <3>2. s7[k].at \notin {"none", "hello", "offer", "create"}
      BY <1>1, <3>1 DEF Peers!SetUp
    <3>3. /\ t2 \in Peers!TasksOf /\ t2.at = s7[k].at /\ t2.open = s7[k].open
          /\ t2.failed = s7[k].failed /\ t2.pipeline = s7[k].pipeline
          /\ t2.registered = FALSE
      BY <1>1 DEF Peers!TasksOf
    <3>. HIDE DEF t2
    <3>. QED
      BY <3>1, <3>2, <3>3
  <2>. QED
    BY <2>1, <2>2
<1>4. s7'[k] = t2 /\ s5'[k] = s5[k] /\ s6'[k] = s6[k] /\ s8'[k] = s8[k]
  BY <1>1, <1>2, <1>3
<1>5. Peers!SetUp(t2, s8[k]) /\ Peers!OfferFirst(k, s4[k], s5[k], t2, s3 = k)
  BY <1>1, <1>3 DEF Peers!SetUp, Peers!OfferFirst
<1>6. Peers!GatheredArrives(s4[k], s5[k], t2, s8[k])
  BY <1>1, <1>3 DEF Peers!GatheredArrives
<1>7. s1 = k => Peers!InOrder(s4[k], s6[k], t2)
  BY <1>1, <1>3 DEF Peers!InOrder
<1>8. /\ s5' = [s5 EXCEPT ![k] = s5'[k]] /\ s6' = [s6 EXCEPT ![k] = s6'[k]]
      /\ s7' = [s7 EXCEPT ![k] = s7'[k]] /\ s8' = [s8 EXCEPT ![k] = s8'[k]]
  BY <1>1, <1>2, <1>3, <1>4
<1>9. /\ s5'[k] \in Seq(Peers!UpMessages) /\ s6'[k] \in Seq(Peers!DownMessages)
      /\ s7'[k] \in Peers!TasksOf /\ s8'[k] \in Peers!ServerPeers
      /\ s7[k].at # "none" /\ s7'[k].at # "none" /\ (s7'[k].open => s7[k].open)
      /\ Peers!SetUp(s7'[k], s8'[k]) /\ Peers!OfferFirst(k, s4[k], s5'[k], s7'[k], s3 = k)
      /\ Peers!GatheredArrives(s4[k], s5'[k], s7'[k], s8'[k])
      /\ s1 = k => Peers!InOrder(s4[k], s6'[k], s7'[k])
      /\ k \in Resolvable => \A c \in s8'[k].given : c.address = "ip"
  BY <1>1, <1>3, <1>4, <1>5, <1>6, <1>7
<1>. QED
  BY <1>2, <1>8, <1>9, TaskStep

LEMMA TaskSteps ==
  ASSUME Peers!PeersInv, NEW k \in Connections, Peers!Task(k)
  PROVE  Peers!PeersInv'
<1>1. CASE Peers!NoOffer(k) \/ Peers!NeverOffered(k) \/ Peers!CreateFails(k)
  <2>1. /\ s7[k].at \in {"hello", "offer", "create"} /\ Peers!Fails(k, "told", "error")
        /\ UNCHANGED <<s1, s2, s3, s4, s5, s6, s8>>
    BY <1>1 DEF Peers!NoOffer, Peers!NeverOffered, Peers!CreateFails, Peers!At,
       Peers!TaskOnly, Peers!Breaks, Peers!PageStays
  <2>. QED
    BY <2>1, FailSteps
<1>2. CASE Peers!DescribeFails(k)
  BY <1>2, FailSteps DEF Peers!DescribeFails, Peers!Breaks, Peers!PageStays
<1>3. CASE Peers!Connected(k)
  <2>1. /\ s7[k].at = "run" /\ UNCHANGED <<s1, s2, s3, s4, s5, s6, s8>>
        /\ s7' = [s7 EXCEPT ![k].pipeline = TRUE] \/ Peers!Fails(k, "close", "error")
    BY <1>3 DEF Peers!Connected, Peers!At, Peers!TaskOnly, Peers!Breaks, Peers!PageStays
  <2>. QED
    BY <2>1, FailSteps, GoSteps DEF Peers!At
<1>4. CASE Peers!SayHello(k) \/ Peers!ReceiveOffer(k) \/ Peers!Answer(k) \/ Peers!Trickle(k)
           \/ Peers!ReceiveCandidate(k) \/ Peers!Tell(k)
  BY <1>4, SayHelloStep, ReceiveOfferStep, AnswerStep, ReceiveCandidateStep, TellStep
<1>. QED
  BY <1>1, <1>2, <1>3, <1>4, GoSteps, ChannelSteps DEF Peers!Task

LEMMA PeersStep == Peers!PeersInv /\ [Peers!Next]_(Peers!vars) => Peers!PeersInv'
<1>. SUFFICES ASSUME Peers!PeersInv, [Peers!Next]_(Peers!vars) PROVE Peers!PeersInv'
  OBVIOUS
<1>1. CASE UNCHANGED Peers!vars
  BY <1>1 DEF Peers!vars, Peers!PeersInv
<1>2. ASSUME NEW k \in Connections, Peers!Page(k) PROVE Peers!PeersInv'
  BY <1>2, HearSteps, GatherStep, OffersStep, AcceptedStep DEF Peers!Page
<1>. QED
  BY <1>1, <1>2, ConnectStep, SocketClosesStep, CloseSocketStep, TaskSteps DEF
     Peers!Next

LEMMA PeersUnderstood ==
  ASSUME Peers!PeersInv, Resolvable \subseteq Connections
  PROVE  Peers!SignalsFit /\ Peers!CandidatesKept /\ Peers!AddressesResolved
         /\ Peers!NothingLeft
<1>1. ASSUME NEW k \in Connections
      PROVE  /\ Peers!SetUp(s7[k], s8[k]) /\ Peers!OfferFirst(k, s4[k], s5[k], s7[k], s3 = k)
             /\ Peers!GatheredArrives(s4[k], s5[k], s7[k], s8[k]) /\ Peers!HeardApplied(s4[k])
             /\ k \in Resolvable => \A c \in s8[k].given : c.address = "ip"
  BY DEF Peers!PeersInv, Peers!Fits
<1>2. Peers!SignalsFit
  BY <1>1 DEF Peers!SignalsFit, Peers!OfferFirst, Peers!Offered
<1>3. Peers!CandidatesKept
  <2>1. ASSUME NEW k \in Connections, s4[k].gathered, s4[k].offerSent, Peers!At(k, "run"),
               s5[k] = <<>>, s7[k].open
        PROVE  s8[k].given # {}
    <3>1. ~ \E i \in DOMAIN s5[k] : TRUE
      BY <2>1
    <3>. QED
      BY <1>1, <2>1, <3>1 DEF Peers!GatheredArrives, Peers!At
  <2>. QED
    BY <1>1, <2>1 DEF Peers!CandidatesKept, Peers!HeardApplied
<1>4. Peers!AddressesResolved
  BY <1>1 DEF Peers!AddressesResolved
<1>5. Peers!NothingLeft
  BY <1>1 DEF Peers!NothingLeft, Peers!SetUp
<1>. QED
  BY <1>2, <1>3, <1>4, <1>5

-----------------------------------------------------------------------------
(***************************************************************************)
(* Monitors, screens and modes (DesktopScreens)                            *)
(***************************************************************************)

\* What Windows has of displays and modes.
LEMMA ScreensGiven ==
  Screens!Main \in Displays /\ Limit \in Modes /\ Modes \subseteq Nat \X Nat
    /\ MaxMoves \in Nat
BY ViewerAssumptions DEF Screens!ScreensAssumption

\* What TypeOK says of a set of monitors.
ModesTyped(d) == DOMAIN d \subseteq Displays /\ \A m \in DOMAIN d :
  Screens!ModeOf(d[m]) \in Modes

LEMMA NoDesktopTyped == ModesTyped(Screens!NoDesktop)
  BY DEF Screens!NoDesktop, ModesTyped

\* A rectangle has the mode it is made for.
LEMMA RectMode ==
  ASSUME NEW mode \in Modes, NEW x, NEW y
  PROVE  Screens!ModeOf(Screens!Rect(x, y, mode)) = mode
<1>1. mode \in Nat \X Nat
  BY ScreensGiven 
<1>. QED
  BY <1>1 DEF Screens!ModeOf, Screens!Rect

LEMMA PlacesMode ==
  ASSUME NEW mode \in Modes, NEW main \in Modes, NEW r \in Screens!Places(mode, main)
  PROVE  Screens!ModeOf(r) = mode
<1>1. r \in {Screens!Rect(main[1], 0, mode), Screens!Rect(-mode[1], 0, mode), Screens!Rect(0,
      main[2], mode), Screens!Rect(main[1], 1, mode)}
  BY DEF Screens!Places
<1>2. CASE r = Screens!Rect(main[1], 0, mode)
  BY <1>2, RectMode
<1>3. CASE r = Screens!Rect(-mode[1], 0, mode)
  BY <1>3, RectMode
<1>4. CASE r = Screens!Rect(0, main[2], mode)
  BY <1>4, RectMode
<1>5. CASE r = Screens!Rect(main[1], 1, mode)
  BY <1>5, RectMode
<1>. QED
  BY <1>1, <1>2, <1>3, <1>4, <1>5

\* The monitors are arranged in modes they may have, the main one among them.
LEMMA ArrangementsTyped ==
  ASSUME NEW d \in Screens!Arrangements
  PROVE  ModesTyped(d) /\ Screens!Main \in DOMAIN d
<1>. DEFINE Spots(main) == UNION {Screens!Places(mode, main) : mode \in Modes}
            With(main, others) ==
              {[m \in others \cup {Screens!Main} |-> IF m = Screens!Main THEN Screens!Rect(0,
                0, main) ELSE place[m]] :
               place \in [others -> Spots(main)]}
            Around1(main) == UNION {With(main, others) :
              others \in SUBSET (Displays \ {Screens!Main})}
<1>1. PICK main \in Modes : d \in Around1(main)
  BY DEF Screens!Arrangements
<1>2. PICK others \in SUBSET (Displays \ {Screens!Main}) : d \in With(main, others)
  BY <1>1
<1>3. PICK place \in [others -> Spots(main)] :
        d = [m \in others \cup {Screens!Main} |-> IF m = Screens!Main THEN Screens!Rect(0, 0,
          main) ELSE place[m]]
  BY <1>2
<1>. HIDE DEF Screens!Main
<1>4. DOMAIN d = others \cup {Screens!Main}
  BY <1>3
<1>5. DOMAIN d \subseteq Displays /\ Screens!Main \in DOMAIN d
  BY <1>4, ScreensGiven 
<1>6. ASSUME NEW m \in DOMAIN d
      PROVE  Screens!ModeOf(d[m]) \in Modes
  <2>1. CASE m = Screens!Main
    <3>1. d[m] = Screens!Rect(0, 0, main)
      BY <1>3, <1>4, <2>1
    <3>. QED
      BY <3>1, RectMode
  <2>2. CASE m # Screens!Main
    <3>1. d[m] = place[m] /\ m \in others
      BY <1>3, <1>4, <2>2
    <3>2. PICK mode \in Modes : place[m] \in Screens!Places(mode, main)
      BY <3>1
    <3>. QED
      BY <3>1, <3>2, PlacesMode
  <2>. QED
    BY <2>1, <2>2
<1>. QED
  BY <1>5, <1>6 DEF ModesTyped

\* A list gives every screen the id of its monitor, and scaling leaves ids alone.
LEMMA ListedNamed ==
  ASSUME NEW d, NEW s \in Screens!Listed(d)
  PROVE  s.id = <<"display", s.display>> /\ DOMAIN s = {"id", "display", "x", "y", "width",
         "height"}
<1>1. PICK m \in DOMAIN d :
        s = [id |-> Screens!Id(d, m), display |-> m, x |-> d[m].left - Screens!Around(d).left,
             y |-> d[m].top - Screens!Around(d).top, width |-> d[m].width,
               height |-> d[m].height]
  BY DEF Screens!Listed
<1>2. s.id = Screens!Id(d, m) /\ s.display = m /\ DOMAIN s = {"id", "display", "x", "y",
      "width", "height"}
  BY <1>1
<1>. QED
  BY <1>2 DEF Screens!Id

LEMMA ScaledNamed ==
  ASSUME NEW screens, NEW source, NEW output, NEW s \in Screens!Scaled(screens, source,
         output),
         \A t \in screens : t.id = <<"display", t.display>>
                           /\ DOMAIN t = {"id", "display", "x", "y", "width", "height"}
  PROVE  s.id = <<"display", s.display>>
<1>. DEFINE Image(t) ==
       LET x == Screens!Smaller(Screens!Scale(t.x, source.width, output.width), output.width)
           y == Screens!Smaller(Screens!Scale(t.y, source.height, output.height),
             output.height)
           right == Screens!Smaller(Screens!Scale(t.x + t.width, source.width, output.width),
             output.width)
           bottom == Screens!Smaller(Screens!Scale(t.y + t.height, source.height,
             output.height), output.height)
       IN [t EXCEPT !.x = x, !.y = y, !.width = Screens!Larger(right - x, 1),
         !.height = Screens!Larger(bottom - y, 1)]
<1>1. PICK t \in screens : s = Image(t)
  BY DEF Screens!Scaled
<1>2. t.id = <<"display", t.display>> /\ DOMAIN t = {"id", "display", "x", "y", "width",
      "height"}
  OBVIOUS
<1>3. s.id = t.id /\ s.display = t.display
  BY <1>1, <1>2
<1>. QED
  BY <1>2, <1>3

LEMMA LayoutNamed ==
  ASSUME NEW frame, NEW source, NEW framed, NEW d, NEW origin
  PROVE  /\ \A s \in Screens!Layout(frame, source, framed, Screens!Listed(d),
              origin).screens :
              s.id = <<"display", s.display>>
         /\ DOMAIN Screens!Layout(frame, source, framed, Screens!Listed(d),
              origin) = DOMAIN Screens!NoView
         /\ Screens!Layout(frame, source, framed, Screens!Listed(d), origin).framed = framed
         /\ Screens!Layout(frame, source, framed, Screens!Listed(d), origin).listed = origin
<1>1. Screens!Layout(frame, source, framed, Screens!Listed(d),
      origin).screens = Screens!Scaled(Screens!Listed(d), source, frame)
  BY DEF Screens!Layout
<1>2. \A t \in Screens!Listed(d) : t.id = <<"display", t.display>>
                           /\ DOMAIN t = {"id", "display", "x", "y", "width", "height"}
  BY ListedNamed
<1>3. \A s \in Screens!Scaled(Screens!Listed(d), source, frame) : s.id = <<"display",
      s.display>>
  BY <1>2, ScaledNamed
<1>. QED
  BY <1>1, <1>3 DEF Screens!Layout, Screens!NoView

\* The invariant, of the values of the variables.
RequestTyped(r) == r \in [stage: {"none", "tested", "applied", "answered"}, display: Displays,
  mode: Modes,
                   options: SUBSET [mode: Modes, current: BOOLEAN], calm: BOOLEAN]
RequestTold(d, r) ==
  /\ r.stage = "applied" /\ r.calm => r.display \in DOMAIN d
       /\ Screens!ModeOf(d[r.display]) = r.mode
  /\ r.stage = "answered" /\ r.calm => {o.mode : o \in {o \in r.options :
       o.current}} = {r.mode}

LEMMA ScreensParts ==
  Screens!ScreensInv <=>
    /\ Screens!Main \in DOMAIN s1 /\ s2 \in BOOLEAN /\ s3 \in 0..MaxMoves
    /\ ModesTyped(s1) /\ ModesTyped(s4.of) /\ ModesTyped(s6.of) /\ ModesTyped(s7.framed)
    /\ ModesTyped(s7.listed)
    /\ DOMAIN s5 = DOMAIN Screens!NoGeometry /\ DOMAIN s4.frame = DOMAIN Screens!NoGeometry
    /\ DOMAIN s7 = DOMAIN Screens!NoView
    /\ RequestTyped(s8)
    /\ \A s \in s7.screens : s.id = <<"display", s.display>>
    /\ RequestTold(s1, s8)
  BY DEF Screens!ScreensInv, Screens!TypeOK, ModesTyped, RequestTyped, RequestTold,
     Screens!ChangeTold

LEMMA NoRequestKind == RequestTyped(Screens!NoRequest)
<1>1. Screens!Main \in Displays /\ Limit \in Modes
  BY ScreensGiven 
<1>. QED
  BY <1>1 DEF RequestTyped, Screens!NoRequest

\* What has not been calm is not told.
LEMMA Unsettles ==
  ASSUME NEW d, NEW r, RequestTyped(r)
  PROVE  RequestTyped([r EXCEPT !.calm = FALSE]) /\ RequestTold(d, [r EXCEPT !.calm = FALSE])
<1>. DEFINE n == [r EXCEPT !.calm = FALSE]
<1>1. RequestTyped(n) /\ n.calm = FALSE
  BY DEF RequestTyped
<1>. HIDE DEF n
<1>2. RequestTold(d, n)
  BY <1>1 DEF RequestTold
<1>. QED
  BY <1>1, <1>2 DEF n

LEMMA ScreensInit == Screens!Init => Screens!ScreensInv
<1> SUFFICES ASSUME Screens!Init PROVE Screens!ScreensInv
  OBVIOUS
<1>. DEFINE made == [m \in Displays |-> Screens!Rect(IF m = Screens!Main THEN 0 ELSE Limit[1],
     0, Limit)]
<1>0. Screens!Main \in Displays /\ Limit \in Modes /\ MaxMoves \in Nat
  BY ScreensGiven 
<1>1. s1 = made /\ s2 = TRUE /\ s3 = 0 /\ s4 = Screens!NoCapture /\ s5 = Screens!NoGeometry
      /\ s6 = Screens!NoCapture /\ s7 = Screens!NoView /\ s8 = Screens!NoRequest
  BY DEF Screens!Init
<1>2. ASSUME NEW m \in Displays
      PROVE  Screens!ModeOf(made[m]) \in Modes
  BY <1>0, RectMode
<1>3. ModesTyped(made) /\ Screens!Main \in DOMAIN made
  BY <1>0, <1>2 DEF ModesTyped
<1>4. Screens!NoCapture.of = Screens!NoDesktop /\ Screens!NoView.framed = Screens!NoDesktop
      /\ Screens!NoView.listed = Screens!NoDesktop
  BY DEF Screens!NoCapture, Screens!NoView, Screens!Layout
<1>5. Screens!NoView.screens = {} /\ Screens!NoCapture.frame = Screens!NoGeometry
  BY DEF Screens!NoView, Screens!Layout, Screens!Scaled, Screens!NoCapture
<1>6. RequestTold(made, Screens!NoRequest)
  BY DEF RequestTold, Screens!NoRequest
<1>. HIDE DEF made
<1>. QED
  BY <1>0, <1>1, <1>3, <1>4, <1>5, <1>6, ScreensParts, NoDesktopTyped, NoRequestKind

LEMMA ScreensOf ==
  ASSUME NEW d, NEW p \in BOOLEAN, NEW c \in 0..MaxMoves, NEW of, NEW frame, NEW at, NEW g,
         NEW v, NEW r,
         Screens!Main \in DOMAIN d, ModesTyped(d), ModesTyped(of), ModesTyped(g),
           ModesTyped(v.framed), ModesTyped(v.listed),
         DOMAIN at = DOMAIN Screens!NoGeometry, DOMAIN frame = DOMAIN Screens!NoGeometry,
         DOMAIN v = DOMAIN Screens!NoView, RequestTyped(r), RequestTold(d, r),
         \A s \in v.screens : s.id = <<"display", s.display>>,
         s1' = d, s2' = p, s3' = c, s4'.of = of, s4'.frame = frame, s5' = at, s6'.of = g,
         s7' = v, s8' = r
  PROVE  Screens!ScreensInv'
  BY DEF Screens!ScreensInv, Screens!TypeOK, ModesTyped, RequestTyped, RequestTold,
     Screens!ChangeTold

LEMMA RearrangeStep ==
  ASSUME Screens!ScreensInv, Screens!Rearrange
  PROVE  Screens!ScreensInv'
<1>1. /\ s3 < MaxMoves /\ s3' = s3 + 1 /\ s1' \in Screens!Arrangements
      /\ s2' \in BOOLEAN /\ s8' = [s8 EXCEPT !.calm = FALSE]
      /\ UNCHANGED <<s4, s5, s6, s7>>
  BY DEF Screens!Rearrange, Screens!Unsettled
<1>2. ModesTyped(s1') /\ Screens!Main \in DOMAIN s1'
  BY <1>1, ArrangementsTyped
<1>3. RequestTyped(s8') /\ RequestTold(s1', s8')
  BY <1>1, ScreensParts, Unsettles
<1>4. s3' \in 0..MaxMoves
  BY <1>1, ScreensParts, ScreensGiven 
<1>. QED
  BY <1>1, <1>2, <1>3, <1>4, ScreensParts, ScreensOf

LEMMA MeasureStep ==
  ASSUME Screens!ScreensInv, Screens!Measure
  PROVE  Screens!ScreensInv'
<1>1. /\ s6'.of = s1
      /\ UNCHANGED <<s1, s2, s3, s4, s5, s7, s8>>
  BY DEF Screens!Measure
<1>. QED
  BY <1>1, ScreensParts, ScreensOf

LEMMA HelloStep ==
  ASSUME Screens!ScreensInv, Screens!Hello
  PROVE  Screens!ScreensInv'
<1>1. /\ s6' = Screens!NoCapture /\ s5' = Screens!NoGeometry
      /\ s7' = Screens!Layout(s6.frame, s6.source, s6.of, Screens!Listed(s1), s1)
      /\ UNCHANGED <<s1, s2, s3, s4, s8>>
  BY DEF Screens!Hello
<1>2. s6'.of = Screens!NoDesktop
  BY <1>1 DEF Screens!NoCapture
<1>3. /\ s7'.framed = s6.of /\ s7'.listed = s1 /\ DOMAIN s7' = DOMAIN Screens!NoView
      /\ \A s \in s7'.screens : s.id = <<"display", s.display>>
  BY <1>1, LayoutNamed
<1>. QED
  BY <1>1, <1>2, <1>3, ScreensParts, ScreensOf, NoDesktopTyped

LEMMA StartCaptureStep ==
  ASSUME Screens!ScreensInv, Screens!StartCapture
  PROVE  Screens!ScreensInv'
<1>1. /\ s4'.of = s1 /\ s4'.frame = Screens!Fit(Screens!Around(s1))
      /\ UNCHANGED <<s1, s2, s3, s5, s6, s7, s8>>
  BY DEF Screens!StartCapture, Screens!Captured
<1>2. DOMAIN Screens!Fit(Screens!Around(s1)) = DOMAIN Screens!NoGeometry
  <2>1. DOMAIN Screens!Around(s1) = {"left", "top", "width", "height"}
    BY DEF Screens!Around
  <2>2. DOMAIN Screens!NoGeometry = {"left", "top", "width", "height"}
    BY DEF Screens!NoGeometry, Screens!Rect
  <2>. QED
    BY <2>1, <2>2 DEF Screens!Fit
<1>. QED
  BY <1>1, <1>2, ScreensParts, ScreensOf

LEMMA CaptureFailsStep ==
  ASSUME Screens!ScreensInv, Screens!CaptureFails
  PROVE  Screens!ScreensInv'
<1>1. /\ s4'.of = Screens!NoDesktop /\ s4'.frame = Screens!NoGeometry
      /\ UNCHANGED <<s1, s2, s3, s5, s6, s7, s8>>
  BY DEF Screens!CaptureFails, Screens!NoCapture
<1>. QED
  BY <1>1, ScreensParts, ScreensOf, NoDesktopTyped

LEMMA AnnounceStep ==
  ASSUME Screens!ScreensInv, Screens!Announce
  PROVE  Screens!ScreensInv'
<1>1. /\ s5' = s4.frame
      /\ \/ s7' = Screens!Layout(s4.frame, s4.source, s4.of, Screens!Listed(s1), s1)
         \/ s7' = s7
      /\ UNCHANGED <<s1, s2, s3, s4, s6, s8>>
  BY DEF Screens!Announce
<1>2. CASE s7' = Screens!Layout(s4.frame, s4.source, s4.of, Screens!Listed(s1), s1)
  <2>1. /\ s7'.framed = s4.of /\ s7'.listed = s1 /\ DOMAIN s7' = DOMAIN Screens!NoView
        /\ \A s \in s7'.screens : s.id = <<"display", s.display>>
    BY <1>2, LayoutNamed
  <2>. QED
    BY <1>1, <2>1, ScreensParts, ScreensOf
<1>3. CASE s7' = s7
  BY <1>1, <1>3, ScreensParts, ScreensOf
<1>. QED
  BY <1>1, <1>2, <1>3

LEMMA AskStep ==
  ASSUME Screens!ScreensInv, NEW id, NEW mode \in Modes, Screens!Ask(id, mode)
  PROVE  Screens!ScreensInv'
<1>. DEFINE m == Screens!DeviceOf(id)
            n == [Screens!NoRequest EXCEPT !.stage = "tested", !.display = m, !.mode = mode]
<1>1. /\ m \in DOMAIN s1 /\ s8' = n
      /\ UNCHANGED <<s1, s2, s3, s4, s5, s6, s7>>
  BY DEF Screens!Ask
<1>2. m \in Displays
  BY <1>1, ScreensParts DEF ModesTyped
<1>. HIDE DEF m
<1>3. RequestTyped(n) /\ n.calm = FALSE
  BY <1>2, NoRequestKind DEF RequestTyped, Screens!NoRequest
<1>4. RequestTold(s1, n)
  BY <1>3 DEF RequestTold
<1>. HIDE DEF n
<1>. QED
  BY <1>1, <1>3, <1>4, ScreensParts, ScreensOf

LEMMA RefuseStep ==
  ASSUME Screens!ScreensInv, Screens!Refuse
  PROVE  Screens!ScreensInv'
<1>1. /\ s8' = Screens!NoRequest
      /\ UNCHANGED <<s1, s2, s3, s4, s5, s6, s7>>
  BY DEF Screens!Refuse
<1>2. RequestTold(s1, Screens!NoRequest)
  BY DEF RequestTold, Screens!NoRequest
<1>. QED
  BY <1>1, <1>2, ScreensParts, ScreensOf, NoRequestKind

LEMMA ApplyStep ==
  ASSUME Screens!ScreensInv, Screens!Apply
  PROVE  Screens!ScreensInv'
<1>. DEFINE n == [s8 EXCEPT !.stage = "applied", !.calm = TRUE]
<1>1. /\ s8.display \in DOMAIN s1
      /\ s3 < MaxMoves /\ s3' = s3 + 1 /\ s8' = n
      /\ UNCHANGED <<s2, s4, s5, s6, s7>>
      /\ s1' \in Screens!Arrangements /\ DOMAIN s1' = DOMAIN s1
      /\ \A m \in DOMAIN s1' :
           Screens!ModeOf(s1'[m]) = IF m = s8.display THEN s8.mode ELSE Screens!ModeOf(s1[m])
  BY DEF Screens!Apply, Screens!ModeOf
<1>2. ModesTyped(s1') /\ Screens!Main \in DOMAIN s1'
  BY <1>1, ArrangementsTyped
<1>3. RequestTyped(s8)
  BY ScreensParts
<1>4. RequestTyped(n) /\ n.display = s8.display /\ n.mode = s8.mode /\ n.stage = "applied"
  BY <1>3 DEF RequestTyped
<1>. HIDE DEF n
<1>5. RequestTold(s1', n)
  BY <1>1, <1>4 DEF RequestTold
<1>6. s3' \in 0..MaxMoves
  BY <1>1, ScreensParts, ScreensGiven 
<1>. QED
  BY <1>1, <1>2, <1>4, <1>5, <1>6, ScreensParts, ScreensOf

\* The options of a display that is on show its own mode as the present one.
LEMMA OptionsTell ==
  ASSUME NEW m, ModesTyped(s1)
  PROVE  /\ Screens!Options(m) \in SUBSET [mode: Modes, current: BOOLEAN]
         /\ m \in DOMAIN s1 =>
              {o.mode : o \in {o \in Screens!Options(m) :
                o.current}} = {Screens!ModeOf(s1[m])}
<1>. DEFINE present == IF m \in DOMAIN s1 THEN {Screens!ModeOf(s1[m])} ELSE {}
            shown == {mode \in Modes : Screens!Allowed(mode)} \cup present
<1>1. present \subseteq Modes /\ shown \subseteq Modes /\ present \subseteq shown
  BY DEF ModesTyped
<1>2. Screens!Options(m) = {[mode |-> mode, current |-> mode \in present] : mode \in shown}
  BY DEF Screens!Options, Screens!ModeOf
<1>. HIDE DEF present, shown
<1>3. Screens!Options(m) \in SUBSET [mode: Modes, current: BOOLEAN]
  <2>1. ASSUME NEW o \in Screens!Options(m)
        PROVE  o \in [mode: Modes, current: BOOLEAN]
    <3>1. PICK mode \in shown : o = [mode |-> mode, current |-> mode \in present]
      BY <1>2
    <3>. QED
      BY <1>1, <3>1
  <2>. QED
    BY <2>1
<1>4. {o.mode : o \in {o \in Screens!Options(m) : o.current}} = present
  <2>1. ASSUME NEW o \in Screens!Options(m), o.current
        PROVE  o.mode \in present
    <3>1. PICK mode \in shown : o = [mode |-> mode, current |-> mode \in present]
      BY <1>2
    <3>. QED
      BY <2>1, <3>1
  <2>2. ASSUME NEW mode \in present
        PROVE  \E o \in Screens!Options(m) : o.current /\ o.mode = mode
    <3>. DEFINE o == [mode |-> mode, current |-> mode \in present]
    <3>1. o \in Screens!Options(m)
      BY <1>1, <1>2
    <3>2. o.current /\ o.mode = mode
      OBVIOUS
    <3>. QED
      BY <3>1, <3>2
  <2>. QED
    BY <2>1, <2>2
<1>. QED
  BY <1>3, <1>4 DEF present

LEMMA OptionsStep ==
  ASSUME Screens!ScreensInv, Screens!Answer
  PROVE  Screens!ScreensInv'
<1>. DEFINE n == [s8 EXCEPT !.stage = "answered", !.options = Screens!Options(s8.display)]
<1>1. /\ s8.stage = "applied" /\ s8' = n
      /\ UNCHANGED <<s1, s2, s3, s4, s5, s6, s7>>
  BY DEF Screens!Answer
<1>2. ModesTyped(s1) /\ RequestTyped(s8) /\ RequestTold(s1, s8)
  BY ScreensParts
<1>3. /\ Screens!Options(s8.display) \in SUBSET [mode: Modes, current: BOOLEAN]
      /\ s8.display \in DOMAIN s1 =>
           {o.mode : o \in {o \in Screens!Options(s8.display) : o.current}}
             = {Screens!ModeOf(s1[s8.display])}
  BY <1>2, OptionsTell
<1>4. /\ RequestTyped(n) /\ n.display = s8.display /\ n.mode = s8.mode /\ n.stage = "answered"
      /\ n.options = Screens!Options(s8.display) /\ n.calm = s8.calm
  BY <1>2, <1>3 DEF RequestTyped
<1>. HIDE DEF n
<1>5. RequestTold(s1, n)
  BY <1>1, <1>2, <1>3, <1>4 DEF RequestTold
<1>. QED
  BY <1>1, <1>4, <1>5, ScreensParts, ScreensOf

LEMMA ScreensStep == Screens!ScreensInv /\ [Screens!Next]_(Screens!vars) =>
  Screens!ScreensInv'
<1> SUFFICES ASSUME Screens!ScreensInv,
  [Screens!Next]_(Screens!vars) PROVE Screens!ScreensInv'
  OBVIOUS
<1>1. CASE UNCHANGED Screens!vars
  BY <1>1, ScreensParts, ScreensOf DEF Screens!vars
<1>2. CASE Screens!Next
  <2>1. CASE \E id \in {s.id : s \in Screens!Offered} \cup {Screens!All}, mode \in Modes :
             Screens!Ask(id, mode)
    BY <2>1, AskStep
  <2>. QED
    BY <1>2, <2>1, RearrangeStep, MeasureStep, HelloStep, StartCaptureStep,
       CaptureFailsStep,
       AnnounceStep, RefuseStep, ApplyStep, OptionsStep DEF Screens!Next
<1>. QED
  BY <1>1, <1>2

\* What the viewer is shown of the monitors leads back to them.
LEMMA ScreensTold ==
  ASSUME Screens!ScreensInv
  PROVE  Screens!IdsLead /\ Screens!ChangeTold
<1>1. Screens!ChangeTold
  BY DEF Screens!ScreensInv
<1>2. ASSUME NEW s \in Screens!Offered
      PROVE  Screens!DeviceOf(s.id) = s.display
  <2>1. s \in s7.screens
    BY DEF Screens!Offered
  <2>2. s.id = <<"display", s.display>>
    BY <2>1 DEF Screens!ScreensInv
  <2>3. s.id # Screens!All /\ s.id[2] = s.display
    BY <2>2 DEF Screens!All
  <2>. QED
    BY <2>3 DEF Screens!DeviceOf
<1>. QED
  BY <1>1, <1>2 DEF Screens!IdsLead

-----------------------------------------------------------------------------
(***************************************************************************)
(* Capture, copies and the encoder (DesktopCapture)                        *)
(***************************************************************************)

\* Counting means the same in the instance.
LEMMA CaptureCounted == \A S : Capture!Cardinality(S) = Cardinality(S)
BY DEF Cardinality, Capture!Cardinality, IsFiniteSet, Capture!IsFiniteSet

\* The outputs of the adapter are counted.
LEMMA CaptureGiven ==
  /\ IsFiniteSet(Outputs) /\ Outputs = 1..Capture!Cardinality(Outputs)
  /\ {MaxPaints, MaxSwitches, MaxBreaks, MaxAsks} \subseteq Nat
<1>1. IsFiniteSet(Outputs) <=> Capture!IsFiniteSet(Outputs)
  BY DEF IsFiniteSet, Capture!IsFiniteSet
<1>2. QED
  BY <1>1, ViewerAssumptions DEF Capture!CaptureAssumption

\* A picture of nothing but one desktop.
WholePicture(p) ==
  \E desktop \in 0..s3 : \A o \in Outputs, t \in Tiles :
    p[o][t][1] = desktop /\ p[o][t] # Capture!Blank

LEMMA CaptureTypes ==
  ASSUME Capture!TypeOK
  PROVE  /\ s3 \in Nat /\ Capture!Cardinality(Outputs) \in Nat /\ MaxSwitches \in Nat
         /\ Capture!BlankPicture \in Capture!Picture /\ Capture!NoFrame \in Capture!Frames
              /\ Capture!Error \in Capture!Frames
         /\ Capture!NoEncoder \in Capture!Encoders
         /\ \A c \in Capture!Shapes \cup {"none"} : Capture!Frame(c) \in Capture!Frames
<1>1. s3 \in Nat /\ Capture!Cardinality(Outputs) \in Nat /\ MaxSwitches \in Nat
      /\ MaxPaints \in Nat
  BY CaptureGiven, CaptureCounted, FS_CardinalityType DEF Capture!TypeOK
<1>2. Capture!BlankPicture \in Capture!Picture /\ s6 \in Capture!Picture
  BY <1>1 DEF Capture!TypeOK, Capture!BlankPicture, Capture!Blank, Capture!Picture,
     Capture!Versions
<1>. HIDE DEF Capture!Picture
<1>3. Capture!NoFrame \in Capture!Frames /\ Capture!Error \in Capture!Frames
  BY <1>2 DEF Capture!NoFrame, Capture!Error, Capture!Frames
<1>4. \A c \in Capture!Shapes \cup {"none"} : Capture!Frame(c) \in Capture!Frames
  BY <1>2 DEF Capture!Frame, Capture!Frames
<1>. QED
  BY <1>1, <1>2, <1>3, <1>4 DEF Capture!NoEncoder, Capture!Encoders

LEMMA CaptureInit == Capture!Init => Capture!CaptureInv
<1>. SUFFICES ASSUME Capture!Init PROVE Capture!CaptureInv
  OBVIOUS
<1>0. /\ Capture!Cardinality(Outputs) \in Nat /\ MaxSwitches \in Nat /\ MaxPaints \in Nat
      /\ MaxBreaks \in Nat /\ MaxAsks \in Nat
  BY CaptureGiven, CaptureCounted, FS_CardinalityType
<1>1. Capture!BlankPicture \in Capture!Picture /\ s1 \in Capture!Picture
  BY <1>0 DEF Capture!Init, Capture!BlankPicture, Capture!Blank, Capture!Picture,
     Capture!Versions
<1>2. Capture!NoFrame \in Capture!Frames
  BY <1>1 DEF Capture!NoFrame, Capture!Frames
<1>3. Capture!TypeOK
  <2>1. s5 \in [Outputs -> Capture!Duplications]
    BY <1>0 DEF Capture!Init, Capture!NewDup, Capture!Duplications
  <2>2. s12 \in Capture!Encoders
    BY <1>2 DEF Capture!Init, Capture!NoEncoder, Capture!Encoders
  <2>3. s8 \in Capture!Workers
    BY <1>0 DEF Capture!Init, Capture!Workers, Capture!Unattached
  <2>4. /\ s2 \in Capture!Shapes /\ s3 \in 0..MaxSwitches /\ s4 \in 0..MaxPaints
        /\ s7 \subseteq Outputs /\ s9 \in Capture!Shapes \cup {"none"}
        /\ s15 \in 0..MaxBreaks /\ s16 \in 0..MaxAsks
    BY <1>0 DEF Capture!Init, Capture!Shapes
  <2>6. s10 \in BOOLEAN /\ s14 \in BOOLEAN
    BY DEF Capture!Init
  <2>5. s6 \in Capture!Picture /\ s11 \in [frame: Capture!Frames, new: BOOLEAN]
        /\ s13 \in Capture!Frames
    BY <1>1, <1>2 DEF Capture!Init
  <2>. QED
    BY <1>1, <2>1, <2>2, <2>3, <2>4, <2>5, <2>6 DEF Capture!TypeOK
<1>4. Capture!OneDesktop
  BY DEF Capture!Init, Capture!OneDesktop, Capture!NewDup
<1>5. Capture!FramesWhole
  BY DEF Capture!Init, Capture!FramesWhole, Capture!NoEncoder, Capture!NoFrame
<1>6. Capture!LackIsTold
  BY DEF Capture!Init, Capture!LackIsTold, Capture!NewDup
<1>7. Capture!Stages /\ Capture!PictureSent /\ Capture!EndsInError
  BY DEF Capture!Init, Capture!Stages, Capture!PictureSent, Capture!EndsInError,
     Capture!NoEncoder, Capture!NoFrame, Capture!Error, Capture!Runs
<1>. QED
  BY <1>3, <1>4, <1>5, <1>6, <1>7 DEF Capture!CaptureInv

\* Frames stay whole: those of before, what is no frame, and what is put
\* together once every output has been copied.
LEMMA FramesStayWhole ==
  ASSUME Capture!FramesWhole, s3 \in Nat, s3' \in Nat, s3 <= s3',
         NEW p, WholePicture(p),
         \A f \in {s13', s11'.frame, s12'.frame} :
           f \in {s13, s11.frame, s12.frame} \/ f.kind # "frame" \/ f.picture = p
  PROVE  Capture!FramesWhole'
<1>1. ASSUME NEW f \in {s13', s11'.frame, s12'.frame}, f.kind = "frame"
      PROVE  WholePicture(f.picture)'
  <2>1. WholePicture(f.picture)
    <3>1. CASE f \in {s13, s11.frame, s12.frame}
      BY <1>1, <3>1 DEF Capture!FramesWhole, WholePicture
    <3>. QED
      BY <1>1, <3>1
  <2>2. PICK desktop \in 0..s3 : \A o \in Outputs, t \in Tiles :
          f.picture[o][t][1] = desktop /\ f.picture[o][t] # Capture!Blank
    BY <2>1 DEF WholePicture
  <2>3. desktop \in 0..s3'
    BY <2>2
  <2>. QED
    BY <2>2, <2>3 DEF WholePicture
<1>. QED
  BY <1>1 DEF Capture!FramesWhole, WholePicture

LEMMA PictureWhole ==
  ASSUME Capture!OneDesktop, Capture!Complete
  PROVE  WholePicture(s6)
<1>1. PICK desktop \in 0..s3 : \A o \in Outputs, t \in Tiles :
        s6[o][t][1] = desktop /\ s6[o][t][2] # 0
  BY DEF Capture!OneDesktop, Capture!Complete
<1>2. \A o \in Outputs, t \in Tiles : s6[o][t] # <<0, 0>>
  BY <1>1
<1>. QED
  BY <1>1, <1>2 DEF WholePicture, Capture!Blank

\* What the capture thread does to its own state.
LEMMA WorkerTypes ==
  ASSUME Capture!TypeOK
  PROVE  /\ Capture!NextRound \in Capture!Workers
         /\ Capture!NextRound.mode = s8.mode /\ Capture!NextRound.at = "update"
              /\ Capture!NextRound.next = 1
         /\ ~Capture!NextRound.changed /\ Capture!NextRound.failed = s8.failed
         /\ Capture!Failing =>
              /\ s8' \in Capture!Workers
              /\ s8.mode = "gpu" => s8'.mode = "dxgi" /\ s8'.at = "open"
                                        /\ s8'.failed = s8.failed
              /\ s8.mode # "gpu" => s8'.mode = "ended" /\ s8'.failed
                                        /\ s8'.at = s8.at
                                        /\ s8'.next = s8.next
                                        /\ s8'.changed = s8.changed
                                        /\ s8'.cursor = s8.cursor
<1>1. Capture!Cardinality(Outputs) \in Nat
  BY CaptureTypes
<1>2. s8 \in Capture!Workers /\ s3 \in 0..MaxSwitches
  BY DEF Capture!TypeOK
<1>3. Capture!NextRound \in Capture!Workers /\ Capture!NextRound.mode = s8.mode
      /\ Capture!NextRound.at = "update"
      /\ Capture!NextRound.next = 1 /\ ~Capture!NextRound.changed
           /\ Capture!NextRound.failed = s8.failed
  <2>1. 1 \in 1..Capture!Cardinality(Outputs) + 1
    BY <1>1
  <2>2. Capture!NextRound \in Capture!Workers
    BY <1>2, <2>1 DEF Capture!NextRound, Capture!Workers
  <2>3. Capture!NextRound.mode = s8.mode /\ Capture!NextRound.at = "update"
        /\ Capture!NextRound.next = 1
    BY <1>2 DEF Capture!NextRound, Capture!Workers
  <2>4. Capture!NextRound.changed = FALSE /\ Capture!NextRound.failed = s8.failed
    BY <1>2 DEF Capture!NextRound, Capture!Workers
  <2>. QED
    BY <2>2, <2>3, <2>4
<1>4. ASSUME Capture!Failing, s8.mode = "gpu"
      PROVE  /\ s8' \in Capture!Workers /\ s8'.mode = "dxgi" /\ s8'.at = "open"
             /\ s8'.failed = s8.failed
  <2>1. Capture!NextRound \in Capture!Workers /\ Capture!NextRound.failed = s8.failed
    BY <1>3
  <2>2. PICK input \in {s3, Capture!Unattached} :
          s8' = [Capture!NextRound EXCEPT !.mode = "dxgi", !.at = "open", !.input = input]
    BY <1>4 DEF Capture!Failing
  <2>3. input \in Capture!Unattached..MaxSwitches
    BY <1>2, CaptureGiven DEF Capture!Unattached
  <2>. QED
    BY <1>2, <2>1, <2>2, <2>3 DEF Capture!Workers
<1>5. ASSUME Capture!Failing, s8.mode # "gpu"
      PROVE  /\ s8' \in Capture!Workers /\ s8'.mode = "ended" /\ s8'.failed
             /\ s8'.at = s8.at /\ s8'.next = s8.next
             /\ s8'.changed = s8.changed /\ s8'.cursor = s8.cursor
  BY <1>2, <1>5 DEF Capture!Failing, Capture!Workers
<1>. QED
  BY <1>3, <1>4, <1>5

\* Steps that leave the screen and the picture alone.
PictureStays == UNCHANGED <<s1, s3, s5, s6, s7>>

LEMMA PictureSameKeeps ==
  ASSUME PictureStays
  PROVE  Capture!OneDesktop' = Capture!OneDesktop /\ Capture!LackIsTold' = Capture!LackIsTold
BY DEF PictureStays, Capture!OneDesktop, Capture!LackIsTold

\* Steps of Windows.
LEMMA PaintStep ==
  ASSUME Capture!CaptureInv, NEW o \in Outputs, Capture!Paint(o)
  PROVE  Capture!CaptureInv'
<1>. USE DEF Capture!CaptureInv
<1>0. /\ s3 \in Nat /\ MaxPaints \in Nat /\ s4 \in 0..MaxPaints /\ s3 \in 0..MaxSwitches
      /\ s1 \in [Outputs -> [Tiles -> Capture!Versions]]
           /\ s5 \in [Outputs -> Capture!Duplications]
  BY CaptureTypes, CaptureGiven DEF Capture!TypeOK, Capture!Picture
<1>1. PICK drawn \in SUBSET Tiles, moved \in SUBSET Tiles :
        /\ drawn \cup moved # {}
        /\ s1' = [s1 EXCEPT ![o] =
              [t \in Tiles |-> IF t \in drawn \cup moved THEN <<s3, s4 + 2>> ELSE @[t]]]
        /\ s5' = [s5 EXCEPT ![o].image = TRUE, ![o].dirty = @ \cup drawn,
             ![o].moved = @ \cup moved]
  BY DEF Capture!Paint
<1>2. /\ s4 < MaxPaints /\ s4' = s4 + 1 /\ UNCHANGED <<s2, s3>> /\ Capture!Apart
  BY DEF Capture!Paint
<1>3. <<s3, s4 + 2>> \in Capture!Versions
  <2>1. s4 + 2 \in 0..MaxPaints + 1
    BY <1>0, <1>2
  <2>. QED
    BY <2>1, <1>0 DEF Capture!Versions
<1>4. /\ s1' \in [Outputs -> [Tiles -> Capture!Versions]]
      /\ \A p \in Outputs, t \in Tiles :
           s1'[p][t] = IF p = o /\ t \in drawn \cup moved THEN <<s3, s4 + 2>>
                           ELSE s1[p][t]
  BY <1>0, <1>1, <1>3
<1>5. /\ s5' \in [Outputs -> Capture!Duplications]
      /\ \A p \in Outputs : s5'[p].era = s5[p].era
      /\ \A p \in Outputs \ {o} : s5'[p] = s5[p]
      /\ s5'[o].image /\ s5'[o].dirty = s5[o].dirty \cup drawn
      /\ s5'[o].moved = s5[o].moved \cup moved
  BY <1>0, <1>1 DEF Capture!Duplications
<1>6. Capture!TypeOK'
  <2>1. s4' \in 0..MaxPaints /\ s1' \in Capture!Picture
    BY <1>0, <1>2, <1>4 DEF Capture!Picture
  <2>2. (s10 \in BOOLEAN)' /\ (s14 \in BOOLEAN)'
    BY <1>2 DEF Capture!TypeOK, Capture!Apart
  <2>. QED
    BY <1>2, <1>5, <2>1, <2>2 DEF Capture!TypeOK, Capture!Apart, Capture!bounds
<1>7. Capture!OneDesktop'
  <2>1. PICK desktop \in 0..s3 : \A p \in Outputs :
          /\ s5[p].era = desktop
          /\ p \in s7 =>
               \A t \in Tiles : s6[p][t][1] = desktop /\ s6[p][t][2] # 0
    BY DEF Capture!OneDesktop
  <2>2. \A p \in Outputs, t \in Tiles : s1'[p][t][1] = s3 /\ s1'[p][t][2] # 0
    BY <1>0, <1>4 DEF Capture!OneDesktop
  <2>. QED
    BY <1>2, <1>5, <2>1, <2>2 DEF Capture!OneDesktop, Capture!Apart
<1>8. Capture!LackIsTold'
  BY <1>2, <1>4, <1>5 DEF Capture!LackIsTold, Capture!Apart
<1>9. Capture!FramesWhole' /\ Capture!Stages' /\ Capture!PictureSent' /\ Capture!EndsInError'
  BY <1>2 DEF Capture!FramesWhole, Capture!Stages, Capture!PictureSent,
     Capture!EndsInError, Capture!Apart, Capture!Runs, Capture!Complete, Capture!Frame
<1>. QED
  BY <1>6, <1>7, <1>8, <1>9

LEMMA MovePointerStep ==
  ASSUME Capture!CaptureInv, Capture!MovePointer
  PROVE  Capture!CaptureInv'
<1>. USE DEF Capture!CaptureInv
<1>1. /\ s4 < MaxPaints /\ s4' = s4 + 1 /\ s2' \in Capture!Shapes
      /\ UNCHANGED <<s1, s3, s5>> /\ Capture!Apart
  BY DEF Capture!MovePointer
<1>2. Capture!TypeOK'
  <2>1. s4' \in 0..MaxPaints
    BY <1>1, CaptureGiven DEF Capture!TypeOK
  <2>2. (s10 \in BOOLEAN)' /\ (s14 \in BOOLEAN)'
    BY <1>1 DEF Capture!TypeOK, Capture!Apart
  <2>. QED
    BY <1>1, <2>1, <2>2 DEF Capture!TypeOK, Capture!Apart, Capture!bounds
<1>3. Capture!OneDesktop' /\ Capture!LackIsTold'
  BY <1>1, PictureSameKeeps DEF Capture!Apart, PictureStays
<1>4. Capture!FramesWhole' /\ Capture!Stages' /\ Capture!PictureSent' /\ Capture!EndsInError'
  BY <1>1 DEF Capture!FramesWhole, Capture!Stages, Capture!PictureSent,
     Capture!EndsInError, Capture!Apart, Capture!Runs, Capture!Complete, Capture!Frame
<1>. QED
  BY <1>2, <1>3, <1>4

LEMMA SwitchStep ==
  ASSUME Capture!CaptureInv, Capture!Switch
  PROVE  Capture!CaptureInv'
<1>. USE DEF Capture!CaptureInv
<1>1. /\ s3 < MaxSwitches /\ s3' = s3 + 1
      /\ s1' = [o \in Outputs |-> [t \in Tiles |-> <<s3 + 1, 1>>]]
      /\ UNCHANGED <<s2, s4, s5>> /\ Capture!Apart
  BY DEF Capture!Switch
<1>0. s3 \in Nat /\ MaxSwitches \in Nat /\ MaxPaints \in Nat /\ s3 \in 0..MaxSwitches
      /\ s5 \in [Outputs -> Capture!Duplications]
  BY CaptureTypes, CaptureGiven DEF Capture!TypeOK
<1>2. Capture!TypeOK'
  <2>1. s3' \in 0..MaxSwitches
    BY <1>1, <1>0
  <2>2. (s10 \in BOOLEAN)' /\ (s14 \in BOOLEAN)'
    BY <1>1 DEF Capture!TypeOK, Capture!Apart
  <2>3. s1' \in Capture!Picture
    BY <1>1, <1>0, <2>1 DEF Capture!Picture, Capture!Versions
  <2>. QED
    BY <1>1, <2>1, <2>2, <2>3 DEF Capture!TypeOK, Capture!Apart, Capture!bounds
<1>3. Capture!OneDesktop'
  <2>1. PICK desktop \in 0..s3 : \A p \in Outputs :
          /\ s5[p].era = desktop
          /\ p \in s7 =>
               \A t \in Tiles : s6[p][t][1] = desktop /\ s6[p][t][2] # 0
    BY DEF Capture!OneDesktop
  <2>2. desktop \in 0..s3'
    BY <1>0, <1>1, <2>1
  <2>3. \A p \in Outputs, t \in Tiles : s1'[p][t][1] = s3' /\ s1'[p][t][2] # 0
    BY <1>0, <1>1
  <2>. QED
    BY <1>1, <2>1, <2>2, <2>3 DEF Capture!OneDesktop, Capture!Apart
<1>4. Capture!LackIsTold'
  <2>1. \A o \in Outputs : s5[o].era \in 0..s3
    BY DEF Capture!OneDesktop
  <2>2. \A o \in Outputs : s5'[o].era # s3'
    BY <1>0, <1>1, <2>1
  <2>. QED
    BY <1>1, <2>2 DEF Capture!LackIsTold
<1>5. Capture!FramesWhole'
  <2>1. ASSUME NEW f \in {s13, s11.frame, s12.frame}, f.kind = "frame",
               NEW desktop \in 0..s3, \A o \in Outputs, t \in Tiles :
                 f.picture[o][t][1] = desktop /\ f.picture[o][t] # Capture!Blank
        PROVE  \E d \in 0..s3' : \A o \in Outputs, t \in Tiles :
                 f.picture[o][t][1] = d /\ f.picture[o][t] # Capture!Blank
    <3>1. desktop \in 0..s3'
      BY <1>0, <1>1
    <3>. QED
      BY <2>1, <3>1
  <2>2. s13' = s13 /\ s11' = s11 /\ s12' = s12
    BY <1>1 DEF Capture!Apart
  <2>. QED
    BY <2>1, <2>2 DEF Capture!FramesWhole
<1>6. Capture!Stages' /\ Capture!PictureSent' /\ Capture!EndsInError'
  BY <1>1 DEF Capture!Stages, Capture!PictureSent, Capture!EndsInError, Capture!Apart,
     Capture!Runs, Capture!Complete, Capture!Frame
<1>. QED
  BY <1>2, <1>3, <1>4, <1>5, <1>6

\* A step of the threads that leaves the picture, the frames and the requests
\* alone: what is left to show is about the capture thread.
LEMMA WorkerOnly ==
  ASSUME Capture!CaptureInv, PictureStays, UNCHANGED <<s1, s2, s3, s4, s9, s11, s12, s13>>,
         (s10 \in BOOLEAN)', (s14 \in BOOLEAN)', s8' \in Capture!Workers,
         s15' \in 0..MaxBreaks, s16' \in 0..MaxAsks
  PROVE  Capture!TypeOK' /\ Capture!OneDesktop' /\ Capture!LackIsTold' /\ Capture!FramesWhole'
<1>1. Capture!TypeOK'
  BY DEF Capture!CaptureInv, Capture!TypeOK, PictureStays
<1>2. Capture!OneDesktop' /\ Capture!LackIsTold'
  BY PictureSameKeeps DEF Capture!CaptureInv
<1>3. Capture!FramesWhole'
  BY DEF Capture!CaptureInv, Capture!FramesWhole
<1>. QED
  BY <1>1, <1>2, <1>3

LEMMA Bounded ==
  ASSUME Capture!TypeOK
  PROVE  /\ Capture!Breaks => s15' \in 0..MaxBreaks /\ s16' \in 0..MaxAsks
         /\ UNCHANGED Capture!bounds => s15' \in 0..MaxBreaks /\ s16' \in 0..MaxAsks
BY CaptureGiven DEF Capture!TypeOK, Capture!Breaks, Capture!bounds

LEMMA AskKeyframeStep ==
  ASSUME Capture!CaptureInv, Capture!AskKeyframe
  PROVE  Capture!CaptureInv'
<1>. USE DEF Capture!CaptureInv
<1>1. /\ s16 < MaxAsks /\ s16' = s16 + 1 /\ s10' = TRUE
      /\ UNCHANGED <<Capture!windows, s6, s7, s8, s9, s11, s12, s13, s14, s15>>
  BY DEF Capture!AskKeyframe
<1>2. s16' \in 0..MaxAsks /\ s15' \in 0..MaxBreaks
  BY <1>1, CaptureGiven DEF Capture!TypeOK
<1>3. (s14 \in BOOLEAN)' /\ (s10 \in BOOLEAN)'
  BY <1>1 DEF Capture!TypeOK
<1>4. Capture!TypeOK' /\ Capture!OneDesktop' /\ Capture!LackIsTold' /\ Capture!FramesWhole'
  BY <1>1, <1>2, <1>3, WorkerOnly DEF PictureStays, Capture!windows, Capture!TypeOK
<1>5. Capture!Stages' /\ Capture!PictureSent' /\ Capture!EndsInError'
  BY <1>1 DEF Capture!Stages, Capture!PictureSent, Capture!EndsInError, Capture!Runs,
     Capture!Complete, Capture!Frame
<1>. QED
  BY <1>4, <1>5

LEMMA OpenStep ==
  ASSUME Capture!CaptureInv, Capture!Open
  PROVE  Capture!CaptureInv'
<1>. USE DEF Capture!CaptureInv
<1>1. /\ Capture!Runs("open") /\ s5' = [o \in Outputs |-> Capture!NewDup]
           /\ s6' = Capture!BlankPicture
      /\ s7' = {} /\ s9' = "none" /\ s8' = Capture!NextRound
      /\ UNCHANGED <<s1, s2, s3, s4, s10, s11, s12, s13, s14, Capture!bounds>>
  BY DEF Capture!Open
<1>2. /\ s3 \in Nat /\ Capture!BlankPicture \in Capture!Picture
           /\ Capture!NextRound \in Capture!Workers /\ s3 \in 0..MaxSwitches
      /\ Capture!NextRound.mode = s8.mode /\ Capture!NextRound.at = "update"
           /\ Capture!NextRound.next = 1
      /\ ~Capture!NextRound.changed /\ Capture!NextRound.failed = s8.failed
  BY CaptureTypes, WorkerTypes DEF Capture!TypeOK
<1>3. Capture!TypeOK'
  <2>1. s5' \in [Outputs -> Capture!Duplications]
    BY <1>1, <1>2 DEF Capture!NewDup, Capture!Duplications
  <2>2. (s10 \in BOOLEAN)' /\ (s14 \in BOOLEAN)'
    BY <1>1 DEF Capture!TypeOK
  <2>. QED
    BY <1>1, <1>2, <2>1, <2>2 DEF Capture!TypeOK, Capture!bounds
<1>4. Capture!OneDesktop' /\ Capture!LackIsTold'
  BY <1>1, <1>2 DEF Capture!OneDesktop, Capture!LackIsTold, Capture!NewDup
<1>5. Capture!FramesWhole'
  BY <1>1 DEF Capture!FramesWhole
<1>6. Capture!Stages' /\ Capture!PictureSent' /\ Capture!EndsInError'
  BY <1>1, <1>2 DEF Capture!Stages, Capture!PictureSent, Capture!EndsInError,
     Capture!Runs
<1>. QED
  BY <1>3, <1>4, <1>5, <1>6

\* A pipeline fails: the other one starts, or the thread ends with an error.
LEMMA FailingStep ==
  ASSUME Capture!CaptureInv, Capture!Failing,
         UNCHANGED <<Capture!windows, s6, s7, s9, s10, s11, s12, s13, s14>>,
         s8.mode # "ended", s15' \in 0..MaxBreaks, s16' \in 0..MaxAsks
  PROVE  Capture!CaptureInv'
<1>. USE DEF Capture!CaptureInv
<1>1. Capture!TypeOK' /\ Capture!OneDesktop' /\ Capture!LackIsTold' /\ Capture!FramesWhole'
  <2>1. (s10 \in BOOLEAN)' /\ (s14 \in BOOLEAN)'
    BY DEF Capture!TypeOK
  <2>2. s8' \in Capture!Workers
    BY WorkerTypes
  <2>. QED
    BY <2>1, <2>2, WorkerOnly DEF PictureStays, Capture!windows
<1>2. /\ s8.mode = "gpu" => s8'.mode = "dxgi" /\ s8'.at = "open"
                                /\ s8'.failed = s8.failed
      /\ s8.mode # "gpu" => s8'.mode = "ended" /\ s8'.failed
                                /\ s8'.at = s8.at
                                /\ s8'.next = s8.next
                                /\ s8'.changed = s8.changed
                                /\ s8'.cursor = s8.cursor
  BY WorkerTypes
<1>3. Capture!Stages'
  BY <1>2 DEF Capture!Stages, Capture!Complete
<1>4. Capture!PictureSent'
  BY <1>2 DEF Capture!PictureSent, Capture!Runs
<1>5. Capture!EndsInError'
  BY <1>2 DEF Capture!EndsInError
<1>. QED
  BY <1>1, <1>3, <1>4, <1>5

LEMMA FailureSteps ==
  ASSUME Capture!CaptureInv,
         \/ Capture!OpenFails \/ Capture!EncodeFails \/ Capture!CaptureLate
         \/ \E o \in Outputs : Capture!Lost(o) \/ Capture!UpdateFails(o)
  PROVE  Capture!CaptureInv'
<1>1. /\ Capture!Failing /\ s8.mode # "ended"
      /\ UNCHANGED <<Capture!windows, s6, s7, s9, s10, s11, s12, s13, s14>>
      /\ Capture!Breaks \/ UNCHANGED Capture!bounds
  BY DEF Capture!OpenFails, Capture!EncodeFails, Capture!CaptureLate, Capture!Lost,
     Capture!UpdateFails, Capture!Runs, Capture!AtOutput, Capture!AllAsked
<1>2. Capture!TypeOK
  BY DEF Capture!CaptureInv
<1>3. s15' \in 0..MaxBreaks /\ s16' \in 0..MaxAsks
  BY <1>1, <1>2, Bounded
<1>. QED
  BY <1>1, <1>3, FailingStep

\* The thread goes on without having done anything: to another output, or it
\* opens the outputs anew, or ends.
LEMMA IdleSteps ==
  ASSUME Capture!CaptureInv, Capture!Follow \/ Capture!CaptureEnds \/ \E o \in Outputs :
         Capture!NoImage(o)
  PROVE  Capture!CaptureInv'
<1>. USE DEF Capture!CaptureInv
<1>1. /\ UNCHANGED <<Capture!windows, s6, s7, s9, s10, s11, s12, s13, s14, Capture!bounds>>
      /\ s8.at = "update" /\ s8.mode # "ended"
  BY DEF Capture!Follow, Capture!CaptureEnds, Capture!NoImage, Capture!Runs,
     Capture!AtOutput
<1>2. s8 \in Capture!Workers /\ s3 \in 0..MaxSwitches /\ Capture!Cardinality(Outputs) \in Nat
  BY CaptureTypes DEF Capture!TypeOK
<1>3. ASSUME s8' \in Capture!Workers
      PROVE  Capture!TypeOK' /\ Capture!OneDesktop' /\ Capture!LackIsTold'
             /\ Capture!FramesWhole'
  <2>1. (s10 \in BOOLEAN)' /\ (s14 \in BOOLEAN)'
    BY <1>1 DEF Capture!TypeOK
  <2>2. s15' \in 0..MaxBreaks /\ s16' \in 0..MaxAsks
    BY <1>1, Bounded
  <2>. QED
    BY <1>1, <1>3, <2>1, <2>2, WorkerOnly DEF PictureStays, Capture!windows
<1>4. CASE Capture!Follow
  <2>1. /\ s8' = [s8 EXCEPT !.at = "open", !.input = s3] /\ s8.mode = "dxgi"
    BY <1>4 DEF Capture!Follow
  <2>2. /\ s8' \in Capture!Workers /\ s8'.at = "open" /\ s8'.mode = "dxgi"
        /\ s8'.failed = s8.failed
    <3>1. s3 \in Capture!Unattached..MaxSwitches
      BY <1>2, CaptureGiven DEF Capture!Unattached
    <3>. QED
      BY <1>2, <2>1, <3>1 DEF Capture!Workers
  <2>3. Capture!Stages' /\ Capture!PictureSent' /\ Capture!EndsInError'
    BY <1>1, <2>1, <2>2 DEF Capture!Stages, Capture!PictureSent,
       Capture!EndsInError, Capture!Runs
  <2>. QED
    BY <1>3, <2>2, <2>3
<1>5. CASE Capture!CaptureEnds
  <2>1. s8' = [s8 EXCEPT !.mode = "ended"] /\ s12.at = "ended"
    BY <1>5 DEF Capture!CaptureEnds
  <2>2. /\ s8' \in Capture!Workers /\ s8'.at = s8.at /\ s8'.mode = "ended"
        /\ s8'.failed = s8.failed /\ s8'.next = s8.next
        /\ s8'.changed = s8.changed
    BY <1>2, <2>1 DEF Capture!Workers
  <2>3. Capture!Stages' /\ Capture!PictureSent' /\ Capture!EndsInError'
    BY <1>1, <2>1, <2>2 DEF Capture!Stages, Capture!PictureSent,
       Capture!EndsInError, Capture!Runs
  <2>. QED
    BY <1>3, <2>2, <2>3
<1>6. ASSUME NEW o \in Outputs, Capture!NoImage(o)
      PROVE  Capture!CaptureInv'
  <2>1. s8' = [s8 EXCEPT !.next = o + 1]
    BY <1>6 DEF Capture!NoImage
  <2>2. o \in 1..Capture!Cardinality(Outputs)
    BY CaptureGiven
  <2>3. o + 1 \in 1..Capture!Cardinality(Outputs) + 1 /\ o + 1 # 1
    BY <1>2, <2>2
  <2>4. /\ s8' \in Capture!Workers /\ s8'.at = s8.at /\ s8'.mode = s8.mode
        /\ s8'.failed = s8.failed /\ s8'.next # 1
        /\ s8'.changed = s8.changed
    BY <1>2, <2>1, <2>3 DEF Capture!Workers
  <2>5. Capture!Stages' /\ Capture!PictureSent' /\ Capture!EndsInError'
    BY <1>1, <2>1, <2>4 DEF Capture!Stages, Capture!PictureSent,
       Capture!EndsInError, Capture!Runs, Capture!Complete, Capture!Frame
  <2>. QED
    BY <1>3, <2>4, <2>5
<1>. QED
  BY <1>4, <1>5, <1>6

LEMMA UpdateStep ==
  ASSUME Capture!CaptureInv, NEW o \in Outputs, Capture!Update(o)
  PROVE  Capture!CaptureInv'
<1>. USE DEF Capture!CaptureInv
<1>0. /\ s8 \in Capture!Workers /\ Capture!Cardinality(Outputs) \in Nat /\ s3 \in Nat
      /\ s6 \in [Outputs -> [Tiles -> Capture!Versions]]
           /\ s1 \in [Outputs -> [Tiles -> Capture!Versions]]
      /\ s5 \in [Outputs -> Capture!Duplications] /\ s7 \subseteq Outputs
      /\ o \in 1..Capture!Cardinality(Outputs)
  BY CaptureTypes, CaptureGiven DEF Capture!TypeOK, Capture!Picture
<1>1. /\ Capture!Runs("update") /\ s8.next = o /\ s5[o].era = s3 /\ s5[o].image
      /\ s6' = [s6 EXCEPT ![o] =
            [t \in Tiles |-> IF t \in Capture!Copied(o) THEN s1[o][t] ELSE @[t]]]
      /\ s7' = IF Capture!Copied(o) = {} THEN s7 ELSE s7 \cup {o}
      /\ s8' = [s8 EXCEPT !.next = o + 1, !.changed = @ \/ Capture!Copied(o) # {}]
      /\ s5' = [s5 EXCEPT ![o].image = FALSE, ![o].dirty = {}, ![o].moved = {}]
      /\ UNCHANGED <<s1, s2, s3, s4, s9, s10, s11, s12, s13, s14, Capture!bounds>>
  BY DEF Capture!Update, Capture!AtOutput, Capture!Pasted
<1>2. /\ s6' \in [Outputs -> [Tiles -> Capture!Versions]]
      /\ \A p \in Outputs \ {o} : s6'[p] = s6[p]
      /\ \A t \in Tiles : s6'[o][t] = IF t \in Capture!Copied(o) THEN s1[o][t] ELSE s6[o][t]
  BY <1>0, <1>1
<1>3. /\ s5' \in [Outputs -> Capture!Duplications]
      /\ \A p \in Outputs \ {o} : s5'[p] = s5[p]
      /\ s5'[o].era = s3 /\ s5'[o].dirty = {} /\ s5'[o].moved = {}
  BY <1>0, <1>1 DEF Capture!Duplications
<1>4. /\ s8' \in Capture!Workers /\ s8'.at = "update" /\ s8'.mode = s8.mode
      /\ s8'.next # 1 /\ s8'.failed = s8.failed
      /\ ~s8'.changed => ~s8.changed /\ Capture!Copied(o) = {}
  <2>1. o + 1 \in 1..Capture!Cardinality(Outputs) + 1 /\ o + 1 # 1
    BY <1>0
  <2>2. s8' \in Capture!Workers
    BY <1>0, <1>1, <2>1 DEF Capture!Workers
  <2>3. /\ s8'.at = "update" /\ s8'.mode = s8.mode
        /\ s8'.next # 1 /\ s8'.failed = s8.failed
    BY <1>0, <1>1, <2>1 DEF Capture!Workers, Capture!Runs
  <2>4. s8'.changed = (s8.changed \/ Capture!Copied(o) # {})
    BY <1>0, <1>1 DEF Capture!Workers
  <2>. QED
    BY <2>2, <2>3, <2>4
<1>5. Capture!Copied(o) \subseteq Tiles
  BY <1>0 DEF Capture!Copied, Capture!Duplications
<1>6. Capture!TypeOK'
  <2>1. (s10 \in BOOLEAN)' /\ (s14 \in BOOLEAN)'
    BY <1>1 DEF Capture!TypeOK
  <2>2. s6' \in Capture!Picture /\ s7' \subseteq Outputs
    BY <1>0, <1>1, <1>2 DEF Capture!Picture
  <2>. QED
    BY <1>1, <1>3, <1>4, <2>1, <2>2 DEF Capture!TypeOK, Capture!bounds
<1>7. Capture!OneDesktop'
  <2>1. PICK desktop \in 0..s3 : \A p \in Outputs :
          /\ s5[p].era = desktop
          /\ p \in s7 =>
               \A t \in Tiles : s6[p][t][1] = desktop /\ s6[p][t][2] # 0
    BY DEF Capture!OneDesktop
  <2>2. desktop = s3
    BY <1>1, <2>1
  <2>3. ASSUME NEW t \in Tiles, o \in s7'
        PROVE  s6'[o][t][1] = s3 /\ s6'[o][t][2] # 0
    <3>1. CASE t \in Capture!Copied(o)
      BY <1>2, <3>1 DEF Capture!OneDesktop
    <3>2. CASE t \notin Capture!Copied(o)
      <4>1. o \in s7
        BY <1>1, <3>2 DEF Capture!Copied
      <4>. QED
        BY <1>2, <2>1, <2>2, <3>2, <4>1
    <3>. QED
      BY <3>1, <3>2
  <2>4. ASSUME NEW p \in Outputs
        PROVE  /\ s5'[p].era = s3
               /\ p \in s7' =>
                    \A t \in Tiles : s6'[p][t][1] = s3 /\ s6'[p][t][2] # 0
    <3>1. CASE p = o
      BY <1>3, <2>3, <3>1
    <3>2. CASE p # o
      BY <1>1, <1>2, <1>3, <2>1, <2>2, <3>2
    <3>. QED
      BY <3>1, <3>2
  <2>5. \A p \in Outputs, t \in Tiles : s1'[p][t][1] = s3' /\ s1'[p][t][2] # 0
    BY <1>1 DEF Capture!OneDesktop
  <2>6. s3 \in 0..s3' /\ s3' = s3
    BY <1>0, <1>1
  <2>. QED
    BY <2>4, <2>5, <2>6 DEF Capture!OneDesktop
<1>8. Capture!LackIsTold'
  <2>1. ASSUME NEW t \in Tiles, o \in s7'
        PROVE  s6'[o][t] = s1[o][t]
    <3>1. CASE t \in Capture!Copied(o)
      BY <1>2, <3>1
    <3>2. CASE t \notin Capture!Copied(o)
      <4>1. o \in s7 /\ t \notin s5[o].dirty \cup s5[o].moved
        BY <1>1, <3>2 DEF Capture!Copied
      <4>. QED
        BY <1>1, <1>2, <3>2, <4>1 DEF Capture!LackIsTold
    <3>. QED
      BY <3>1, <3>2
  <2>2. ASSUME NEW p \in Outputs \ {o}
        PROVE  s5'[p] = s5[p] /\ s6'[p] = s6[p] /\ (p \in s7' <=> p \in s7)
    BY <1>1, <1>2, <1>3
  <2>. QED
    BY <1>1, <1>3, <2>1, <2>2 DEF Capture!LackIsTold
<1>9. Capture!FramesWhole'
  BY <1>1 DEF Capture!FramesWhole
<1>10. Capture!PictureSent'
  <2>1. ASSUME ~s8'.changed
        PROVE  s6' = s6 /\ s7' = s7
    <3>1. Capture!Copied(o) = {} /\ s7' = s7
      BY <1>1, <1>4, <2>1
    <3>2. \A t \in Tiles : s6'[o][t] = s6[o][t]
      BY <1>2, <3>1
    <3>3. \A p \in Outputs : s6'[p] = s6[p]
      BY <1>0, <1>2, <3>2
    <3>4. /\ s6 = [p \in Outputs |-> s6[p]]
          /\ s6' = [p \in Outputs |-> s6'[p]]
      BY <1>0, <1>2
    <3>. QED
      BY <3>1, <3>3, <3>4
  <2>. QED
    BY <1>1, <1>4, <2>1 DEF Capture!PictureSent, Capture!Runs, Capture!Complete,
       Capture!Frame
<1>11. Capture!Stages' /\ Capture!EndsInError'
  BY <1>1, <1>4 DEF Capture!Stages, Capture!EndsInError
<1>. QED
  BY <1>6, <1>7, <1>8, <1>9, <1>10, <1>11

\* The hardware pipeline and the software capture at the end of a round.
LEMMA ProcessSteps ==
  ASSUME Capture!CaptureInv, Capture!Process \/ Capture!Encode \/ Capture!EncodeEmpty
         \/ Capture!Capture
  PROVE  Capture!CaptureInv'
<1>. USE DEF Capture!CaptureInv
<1>0. /\ s8 \in Capture!Workers /\ Capture!NextRound \in Capture!Workers
           /\ s2 \in Capture!Shapes /\ s10 \in BOOLEAN
      /\ s9 \in Capture!Shapes \cup {"none"} /\ s3 \in Nat
      /\ s13 \in Capture!Frames /\ s12 \in Capture!Encoders /\ s11 \in [frame: Capture!Frames,
           new: BOOLEAN]
      /\ Capture!NextRound.mode = s8.mode /\ Capture!NextRound.at = "update"
           /\ Capture!NextRound.next = 1
      /\ ~Capture!NextRound.changed /\ Capture!NextRound.failed = s8.failed
      /\ Capture!Frame(s2) \in Capture!Frames /\ "none" \notin Capture!Shapes
  <2>1. Capture!TypeOK
    OBVIOUS
  <2>2. /\ s8 \in Capture!Workers /\ s2 \in Capture!Shapes
        /\ s9 \in Capture!Shapes \cup {"none"} /\ s13 \in Capture!Frames
             /\ s12 \in Capture!Encoders
        /\ s11 \in [frame: Capture!Frames, new: BOOLEAN]
    BY DEF Capture!TypeOK
  <2>3. s10 \in BOOLEAN
    BY DEF Capture!TypeOK
  <2>4. s3 \in Nat /\ Capture!Frame(s2) \in Capture!Frames
    BY <2>1, <2>2, CaptureTypes
  <2>. QED
    BY <2>1, <2>2, <2>3, <2>4, WorkerTypes DEF Capture!Shapes
<1>1. CASE Capture!Process
  <2>1. /\ Capture!Runs("update") /\ s8.mode = "gpu" /\ s10' = FALSE
        /\ s8' = IF Capture!Due(s10) THEN [s8 EXCEPT !.at = "encode", !.forced = s10,
             !.cursor = s2]
                     ELSE Capture!NextRound
        /\ UNCHANGED <<Capture!windows, s6, s7, s9, s11, s12, s13, s14, Capture!bounds>>
    BY <1>1 DEF Capture!Process, Capture!AllAsked
  <2>2. /\ s8' \in Capture!Workers /\ s8'.mode = "gpu" /\ s8'.failed = s8.failed
        /\ Capture!Due(s10) => s8'.at = "encode" /\ s8'.cursor = s2
        /\ ~Capture!Due(s10) => s8'.at = "update" /\ ~s8'.changed
    BY <1>0, <2>1 DEF Capture!Workers
  <2>3. Capture!TypeOK' /\ Capture!OneDesktop' /\ Capture!LackIsTold' /\ Capture!FramesWhole'
    <3>1. (s10 \in BOOLEAN)' /\ (s14 \in BOOLEAN)'
      BY <2>1 DEF Capture!TypeOK
    <3>2. s15' \in 0..MaxBreaks /\ s16' \in 0..MaxAsks
      BY <2>1, Bounded
    <3>. QED
      BY <2>1, <2>2, <3>1, <3>2, WorkerOnly DEF PictureStays, Capture!windows
  <2>4. Capture!Stages'
    BY <1>0, <2>1, <2>2 DEF Capture!Stages, Capture!Due, Capture!Complete
  <2>5. Capture!PictureSent'
    BY <2>1, <2>2 DEF Capture!PictureSent, Capture!Due, Capture!Complete,
       Capture!Runs, Capture!Frame
  <2>6. Capture!EndsInError'
    BY <2>1, <2>2 DEF Capture!EndsInError
  <2>. QED
    BY <2>3, <2>4, <2>5, <2>6
<1>2. CASE Capture!EncodeEmpty
  <2>1. /\ s8.at = "encode" /\ Capture!Breaks /\ s14' = TRUE /\ s8' = Capture!NextRound
        /\ UNCHANGED <<Capture!windows, s6, s7, s9, s11, s12, s13>>
    BY <1>2 DEF Capture!EncodeEmpty, Capture!Runs
  <2>2. Capture!TypeOK' /\ Capture!OneDesktop' /\ Capture!LackIsTold' /\ Capture!FramesWhole'
    <3>1. (s10 \in BOOLEAN)'
      BY <1>0, <1>2 DEF Capture!EncodeEmpty
    <3>2. s15' \in 0..MaxBreaks /\ s16' \in 0..MaxAsks
      BY <2>1, Bounded
    <3>3. (s14 \in BOOLEAN)'
      BY <2>1
    <3>. QED
      BY <1>0, <2>1, <3>1, <3>2, <3>3, WorkerOnly DEF PictureStays, Capture!windows
  <2>3. s8.mode = "gpu" /\ ~s11.new /\ s12 = Capture!NoEncoder
    BY <2>1 DEF Capture!Stages
  <2>4. Capture!Stages' /\ Capture!PictureSent' /\ Capture!EndsInError'
    BY <1>0, <2>1, <2>3 DEF Capture!Stages, Capture!PictureSent,
       Capture!EndsInError, Capture!NoEncoder
  <2>. QED
    BY <2>2, <2>4
<1>3. CASE Capture!Encode
  <2>1. /\ s8.at = "encode" /\ s14' = FALSE /\ s8' = Capture!NextRound
        /\ s13' = Capture!Frame(s8.cursor) /\ s9' = s8.cursor
        /\ UNCHANGED <<Capture!windows, s6, s7, s10, s11, s12, Capture!bounds>>
    BY <1>3 DEF Capture!Encode, Capture!Runs
  <2>2. /\ s8.mode = "gpu" /\ ~s11.new /\ s12 = Capture!NoEncoder /\ Capture!Complete
        /\ s8.cursor \in Capture!Shapes
    BY <2>1 DEF Capture!Stages
  <2>3. Capture!Frame(s8.cursor) \in Capture!Frames
    BY <2>2, CaptureTypes
  <2>4. Capture!TypeOK'
    <3>1. (s10 \in BOOLEAN)' /\ (s14 \in BOOLEAN)'
      BY <2>1 DEF Capture!TypeOK
    <3>. QED
      BY <1>0, <2>1, <2>2, <2>3, <3>1 DEF Capture!TypeOK, Capture!windows,
         Capture!bounds
  <2>5. Capture!OneDesktop' /\ Capture!LackIsTold'
    BY <2>1, PictureSameKeeps DEF PictureStays, Capture!windows
  <2>6. Capture!FramesWhole'
    <3>1. WholePicture(s6)
      BY <2>2, PictureWhole
    <3>2. s3' \in Nat /\ s3 <= s3'
      BY <1>0, <2>1 DEF Capture!windows
    <3>3. \A f \in {s13', s11'.frame, s12'.frame} :
            f \in {s13, s11.frame, s12.frame} \/ f.kind # "frame" \/ f.picture = s6
      BY <2>1 DEF Capture!Frame
    <3>. QED
      BY <1>0, <3>1, <3>2, <3>3, FramesStayWhole
  <2>7. Capture!Stages'
    BY <1>0, <2>1, <2>2 DEF Capture!Stages, Capture!NoEncoder, Capture!NoFrame
  <2>8. Capture!PictureSent'
    BY <1>0, <2>1, <2>2 DEF Capture!PictureSent, Capture!NoEncoder, Capture!Frame
  <2>9. Capture!EndsInError'
    BY <1>0, <2>1, <2>2 DEF Capture!EndsInError, Capture!NoEncoder, Capture!Frame
  <2>. QED
    BY <2>4, <2>5, <2>6, <2>7, <2>8, <2>9
<1>4. CASE Capture!Capture
  <2>1. /\ Capture!Runs("update") /\ s8.mode = "dxgi" /\ s8' = Capture!NextRound
        /\ IF Capture!Due(s10) THEN s11' = [frame |-> Capture!Frame(s2), new |-> TRUE]
             /\ s9' = s2
                         ELSE UNCHANGED <<s11, s9>>
        /\ UNCHANGED <<Capture!windows, s6, s7, s10, s12, s13, s14, Capture!bounds>>
    BY <1>4 DEF Capture!Capture, Capture!AllAsked
  <2>2. CASE Capture!Due(s10)
    <3>1. /\ s11' = [frame |-> Capture!Frame(s2), new |-> TRUE] /\ s9' = s2
               /\ Capture!Complete
      BY <2>1, <2>2 DEF Capture!Due
    <3>2. Capture!TypeOK'
      <4>1. (s10 \in BOOLEAN)' /\ (s14 \in BOOLEAN)'
        BY <2>1 DEF Capture!TypeOK
      <4>. QED
        BY <1>0, <2>1, <3>1, <4>1 DEF Capture!TypeOK, Capture!windows, Capture!bounds
    <3>3. Capture!OneDesktop' /\ Capture!LackIsTold'
      BY <2>1, PictureSameKeeps DEF PictureStays, Capture!windows
    <3>4. Capture!FramesWhole'
      <4>1. WholePicture(s6)
        BY <3>1, PictureWhole
      <4>2. s3' \in Nat /\ s3 <= s3'
        BY <1>0, <2>1 DEF Capture!windows
      <4>3. \A f \in {s13', s11'.frame, s12'.frame} :
              f \in {s13, s11.frame, s12.frame} \/ f.kind # "frame" \/ f.picture = s6
        BY <2>1, <3>1 DEF Capture!Frame
      <4>. QED
        BY <1>0, <4>1, <4>2, <4>3, FramesStayWhole
    <3>5. Capture!Stages'
      BY <1>0, <2>1, <3>1 DEF Capture!Stages, Capture!Frame
    <3>6. Capture!PictureSent'
      BY <1>0, <2>1, <3>1 DEF Capture!PictureSent, Capture!Frame
    <3>7. Capture!EndsInError'
      BY <1>0, <2>1, <3>1 DEF Capture!EndsInError
    <3>. QED
      BY <3>2, <3>3, <3>4, <3>5, <3>6, <3>7
  <2>3. CASE ~Capture!Due(s10)
    <3>1. UNCHANGED <<s11, s9>> /\ ~(Capture!Complete /\ s8.changed)
      BY <2>1, <2>3 DEF Capture!Due
    <3>2. Capture!TypeOK' /\ Capture!OneDesktop' /\ Capture!LackIsTold'
          /\ Capture!FramesWhole'
      <4>1. (s10 \in BOOLEAN)' /\ (s14 \in BOOLEAN)'
        BY <2>1 DEF Capture!TypeOK
      <4>2. s15' \in 0..MaxBreaks /\ s16' \in 0..MaxAsks
        BY <2>1, Bounded
      <4>. QED
        BY <1>0, <2>1, <3>1, <4>1, <4>2, WorkerOnly DEF PictureStays, Capture!windows
    <3>3. Capture!Stages' /\ Capture!EndsInError'
      BY <1>0, <2>1, <3>1 DEF Capture!Stages, Capture!EndsInError
    <3>4. Capture!PictureSent'
      BY <1>0, <2>1, <3>1 DEF Capture!PictureSent, Capture!Complete, Capture!Runs,
         Capture!Frame
    <3>. QED
      BY <3>2, <3>3, <3>4
  <2>. QED
    BY <2>2, <2>3
<1>. QED
  BY <1>1, <1>2, <1>3, <1>4

\* The encoder thread.
LEMMA EncoderSteps ==
  ASSUME Capture!CaptureInv,
         Capture!TakeFrame \/ Capture!EncodeFrame \/ Capture!SkipFrame \/ Capture!EncoderFails
           \/ Capture!EncoderEnds \/ Capture!Join
  PROVE  Capture!CaptureInv'
<1>. USE DEF Capture!CaptureInv
<1>0. /\ UNCHANGED <<Capture!windows, s6, s7, s8, s9>>
      /\ Capture!Breaks \/ UNCHANGED Capture!bounds
  BY DEF Capture!TakeFrame, Capture!EncodeFrame, Capture!SkipFrame,
     Capture!EncoderFails, Capture!EncoderEnds, Capture!Join, Capture!EncoderOnly
<1>1. Capture!TypeOK
  OBVIOUS
<1>2. /\ s12 \in Capture!Encoders /\ s11 \in [frame: Capture!Frames, new: BOOLEAN]
           /\ s13 \in Capture!Frames
      /\ s8 \in Capture!Workers
  BY DEF Capture!TypeOK
<1>3. /\ Capture!NoFrame \in Capture!Frames /\ Capture!Error \in Capture!Frames
           /\ Capture!NoEncoder \in Capture!Encoders
      /\ Capture!NoFrame.kind = "none" /\ Capture!Error.kind = "error"
      /\ Capture!NoEncoder.at = "idle" /\ Capture!NoEncoder.frame = Capture!NoFrame
           /\ Capture!NoEncoder.previous = Capture!NoFrame
  BY <1>1, CaptureTypes DEF Capture!NoFrame, Capture!Error, Capture!NoEncoder
<1>4. (s10 \in BOOLEAN)' /\ (s14 \in BOOLEAN)'
  BY DEF Capture!TypeOK, Capture!TakeFrame, Capture!EncodeFrame, Capture!SkipFrame,
     Capture!EncoderFails, Capture!EncoderEnds, Capture!Join
<1>5. Capture!OneDesktop' /\ Capture!LackIsTold'
  BY <1>0, PictureSameKeeps DEF PictureStays, Capture!windows
<1>6. ASSUME s12' \in Capture!Encoders, s11' \in [frame: Capture!Frames, new: BOOLEAN],
             s13' \in Capture!Frames,
             \A f \in {s13', s11'.frame, s12'.frame} :
               f \in {s13, s11.frame, s12.frame} \/ f.kind # "frame"
      PROVE  Capture!TypeOK' /\ Capture!FramesWhole'
  <2>1. s15' \in 0..MaxBreaks /\ s16' \in 0..MaxAsks
    BY <1>0, <1>1, Bounded
  <2>2. Capture!TypeOK'
    BY <1>0, <1>1, <1>4, <1>6, <2>1 DEF Capture!TypeOK, Capture!windows
  <2>3. Capture!FramesWhole'
    BY <1>0, <1>6 DEF Capture!FramesWhole, Capture!windows
  <2>. QED
    BY <2>2, <2>3
<1>7. CASE Capture!TakeFrame
  <2>1. /\ s12.at = "idle" /\ s11.new /\ s11' = [s11 EXCEPT !.new = FALSE]
        /\ UNCHANGED <<s13, s14>>
        /\ \/ s12' = s12 /\ s11.frame = s12.previous
           \/ \E b \in BOOLEAN :
                s12' = [s12 EXCEPT !.at = "busy", !.frame = s11.frame, !.forced = b]
    BY <1>1, <1>7 DEF Capture!TakeFrame, Capture!Same, Capture!TypeOK
  <2>2. s11' \in [frame: Capture!Frames, new: BOOLEAN] /\ s11'.frame = s11.frame /\ ~s11'.new
    BY <1>2, <2>1
  <2>3. s8.mode # "gpu" /\ s11.frame.kind = "frame"
    BY <2>1 DEF Capture!Stages
  <2>4. CASE s12' = s12 /\ s11.frame = s12.previous
    <3>1. s13 = s11.frame
      BY <2>3, <2>4 DEF Capture!Stages
    <3>2. Capture!TypeOK' /\ Capture!FramesWhole'
      BY <1>2, <1>6, <2>1, <2>2, <2>4
    <3>3. Capture!Stages' /\ Capture!EndsInError'
      BY <1>0, <2>1, <2>2, <2>3, <2>4 DEF Capture!Stages, Capture!EndsInError,
         Capture!Complete
    <3>4. Capture!PictureSent'
      BY <1>0, <2>1, <2>2, <2>4, <3>1 DEF Capture!PictureSent, Capture!Runs,
         Capture!Complete, Capture!Frame
    <3>. QED
      BY <1>5, <3>2, <3>3, <3>4
  <2>5. ASSUME NEW b \in BOOLEAN,
               s12' = [s12 EXCEPT !.at = "busy", !.frame = s11.frame, !.forced = b]
        PROVE  Capture!CaptureInv'
    <3>1. /\ s12' \in Capture!Encoders /\ s12'.at = "busy" /\ s12'.frame = s11.frame
          /\ s12'.previous = s12.previous
      BY <1>2, <2>5 DEF Capture!Encoders
    <3>2. Capture!TypeOK' /\ Capture!FramesWhole'
      BY <1>2, <1>6, <2>1, <2>2, <3>1
    <3>3. Capture!Stages' /\ Capture!EndsInError'
      BY <1>0, <2>1, <2>2, <2>3, <3>1 DEF Capture!Stages, Capture!EndsInError,
         Capture!Complete
    <3>4. Capture!PictureSent'
      BY <1>0, <2>1, <2>2, <3>1 DEF Capture!PictureSent, Capture!Runs,
         Capture!Complete, Capture!Frame
    <3>. QED
      BY <1>5, <3>2, <3>3, <3>4
  <2>. QED
    BY <2>1, <2>4, <2>5
<1>8. CASE Capture!EncodeFrame
  <2>1. /\ s12.at = "busy" /\ s13' = s12.frame
        /\ s12' = [Capture!NoEncoder EXCEPT !.previous = s12.frame]
        /\ s14' = FALSE /\ s11' = s11
    BY <1>8 DEF Capture!EncodeFrame
  <2>2. /\ s12' \in Capture!Encoders /\ s12'.at = "idle" /\ s12'.frame = Capture!NoFrame
        /\ s12'.previous = s12.frame
    BY <1>2, <1>3, <2>1 DEF Capture!Encoders
  <2>3. s8.mode # "gpu" /\ s12.frame.kind = "frame"
    BY <1>3, <2>1 DEF Capture!Stages
  <2>4. s13' \in Capture!Frames /\ s11' \in [frame: Capture!Frames, new: BOOLEAN]
    BY <1>2, <2>1 DEF Capture!Encoders
  <2>5. Capture!TypeOK' /\ Capture!FramesWhole'
    BY <1>3, <1>6, <2>1, <2>2, <2>4
  <2>6. Capture!Stages' /\ Capture!EndsInError'
    BY <1>0, <2>1, <2>2, <2>3 DEF Capture!Stages, Capture!EndsInError, Capture!Complete
  <2>7. Capture!PictureSent'
    BY <1>0, <2>1, <2>2 DEF Capture!PictureSent, Capture!Runs, Capture!Complete,
       Capture!Frame
  <2>. QED
    BY <1>5, <2>5, <2>6, <2>7
<1>9. CASE Capture!SkipFrame
  <2>1. /\ s12.at = "busy" /\ s13' = s13 /\ s14' = TRUE /\ s11' = s11
        /\ s12' = [Capture!NoEncoder EXCEPT !.previous = s12.previous]
    BY <1>9 DEF Capture!SkipFrame
  <2>2. /\ s12' \in Capture!Encoders /\ s12'.at = "idle" /\ s12'.frame = Capture!NoFrame
        /\ s12'.previous = s12.previous
    BY <1>2, <1>3, <2>1 DEF Capture!Encoders
  <2>3. s8.mode # "gpu"
    BY <1>3, <2>1 DEF Capture!Stages
  <2>5. Capture!TypeOK' /\ Capture!FramesWhole'
    BY <1>2, <1>3, <1>6, <2>1, <2>2
  <2>6. Capture!Stages' /\ Capture!EndsInError'
    BY <1>0, <2>1, <2>2, <2>3 DEF Capture!Stages, Capture!EndsInError, Capture!Complete
  <2>7. Capture!PictureSent'
    BY <1>0, <2>1, <2>2 DEF Capture!PictureSent, Capture!Runs, Capture!Complete,
       Capture!Frame
  <2>. QED
    BY <1>5, <2>5, <2>6, <2>7
<1>10. CASE Capture!EncoderFails
  <2>1. /\ s12.at = "busy" \/ (s12 = Capture!NoEncoder /\ s8.mode # "gpu")
        /\ s13' = Capture!Error /\ s14' = s14 /\ s11' = s11
        /\ s12' = [Capture!NoEncoder EXCEPT !.at = "ended"]
    BY <1>10 DEF Capture!EncoderFails
  <2>2. /\ s12' \in Capture!Encoders /\ s12'.at = "ended" /\ s12'.frame = Capture!NoFrame
        /\ s12'.previous = Capture!NoFrame
    BY <1>3, <2>1 DEF Capture!Encoders
  <2>3. s8.mode # "gpu"
    BY <1>3, <2>1 DEF Capture!Stages
  <2>5. Capture!TypeOK' /\ Capture!FramesWhole'
    BY <1>2, <1>3, <1>6, <2>1, <2>2
  <2>6. Capture!Stages' /\ Capture!EndsInError'
    BY <1>0, <1>3, <2>1, <2>2, <2>3 DEF Capture!Stages, Capture!EndsInError,
       Capture!Complete
  <2>7. Capture!PictureSent'
    BY <1>0, <2>1, <2>2 DEF Capture!PictureSent, Capture!Runs, Capture!Complete,
       Capture!Frame
  <2>. QED
    BY <1>5, <2>5, <2>6, <2>7
<1>11. CASE Capture!EncoderEnds
  <2>1. /\ s12.at = "idle" /\ ~s11.new /\ s8.mode = "ended"
        /\ UNCHANGED <<s13, s11, s14>>
        /\ s12' = [Capture!NoEncoder EXCEPT !.at = "ended"]
    BY <1>11 DEF Capture!EncoderEnds
  <2>2. /\ s12' \in Capture!Encoders /\ s12'.at = "ended" /\ s12'.frame = Capture!NoFrame
        /\ s12'.previous = Capture!NoFrame
    BY <1>3, <2>1 DEF Capture!Encoders
  <2>5. Capture!TypeOK' /\ Capture!FramesWhole'
    BY <1>2, <1>3, <1>6, <2>1, <2>2
  <2>6. Capture!Stages' /\ Capture!EndsInError'
    BY <1>0, <1>3, <2>1, <2>2 DEF Capture!Stages, Capture!EndsInError, Capture!Complete
  <2>7. Capture!PictureSent'
    BY <1>0, <2>1, <2>2 DEF Capture!PictureSent, Capture!Runs, Capture!Complete,
       Capture!Frame
  <2>. QED
    BY <1>5, <2>5, <2>6, <2>7
<1>12. CASE Capture!Join
  <2>1. /\ s12.at = "ended" /\ s8.mode = "ended"
        /\ UNCHANGED <<s11, s14>>
        /\ s12' = [Capture!NoEncoder EXCEPT !.at = "joined"]
        /\ s13' = IF s8.failed THEN Capture!Error ELSE s13
    BY <1>12 DEF Capture!Join
  <2>2. /\ s12' \in Capture!Encoders /\ s12'.at = "joined" /\ s12'.frame = Capture!NoFrame
        /\ s12'.previous = Capture!NoFrame
    BY <1>3, <2>1 DEF Capture!Encoders
  <2>5. Capture!TypeOK' /\ Capture!FramesWhole'
    BY <1>2, <1>3, <1>6, <2>1, <2>2
  <2>6. Capture!Stages' /\ Capture!EndsInError'
    BY <1>0, <1>3, <2>1, <2>2 DEF Capture!Stages, Capture!EndsInError, Capture!Complete
  <2>7. Capture!PictureSent'
    BY <1>0, <2>1, <2>2 DEF Capture!PictureSent, Capture!Runs, Capture!Complete,
       Capture!Frame
  <2>. QED
    BY <1>5, <2>5, <2>6, <2>7
<1>. QED
  BY <1>7, <1>8, <1>9, <1>10, <1>11, <1>12

LEMMA CaptureStep == Capture!CaptureInv /\ [Capture!Next]_(Capture!vars) =>
  Capture!CaptureInv'
<1>. SUFFICES ASSUME Capture!CaptureInv,
     [Capture!Next]_(Capture!vars) PROVE Capture!CaptureInv'
  OBVIOUS
<1>1. CASE UNCHANGED Capture!vars
  <2>1. /\ UNCHANGED <<s1, s2, s3, s4, s5, s6, s7, s8, s9, s10,
                       s11, s12, s13, s14, s15, s16>>
    BY <1>1 DEF Capture!vars
  <2>2. PictureStays /\ Capture!TypeOK
    BY <2>1 DEF PictureStays, Capture!CaptureInv
  <2>3. (s10 \in BOOLEAN)' /\ (s14 \in BOOLEAN)'
    BY <2>1, <2>2 DEF Capture!TypeOK
  <2>4. s8' \in Capture!Workers /\ s15' \in 0..MaxBreaks /\ s16' \in 0..MaxAsks
    BY <2>1, <2>2 DEF Capture!TypeOK
  <2>5. Capture!TypeOK' /\ Capture!OneDesktop' /\ Capture!LackIsTold' /\ Capture!FramesWhole'
    BY <2>1, <2>2, <2>3, <2>4, WorkerOnly
  <2>6. Capture!Stages' /\ Capture!PictureSent' /\ Capture!EndsInError'
    BY <2>1 DEF Capture!CaptureInv, Capture!Stages, Capture!PictureSent,
       Capture!EndsInError, Capture!Runs, Capture!Complete, Capture!Frame
  <2>. QED
    BY <2>5, <2>6 DEF Capture!CaptureInv
<1>2. ASSUME NEW o \in Outputs, Capture!Paint(o) \/ Capture!NoImage(o) \/ Capture!Update(o)
             \/ Capture!Lost(o) \/ Capture!UpdateFails(o)
      PROVE  Capture!CaptureInv'
  BY <1>2, PaintStep, IdleSteps, UpdateStep, FailureSteps
<1>3. CASE Capture!Switch \/ Capture!AskKeyframe \/ Capture!Open \/ Capture!OpenFails
           \/ Capture!Follow \/ Capture!MovePointer
  BY <1>3, SwitchStep, AskKeyframeStep, OpenStep, FailureSteps, IdleSteps,
     MovePointerStep
<1>4. CASE Capture!Process \/ Capture!Encode \/ Capture!EncodeEmpty \/ Capture!EncodeFails
           \/ Capture!Capture \/ Capture!CaptureEnds \/ Capture!CaptureLate
  BY <1>4, ProcessSteps, FailureSteps, IdleSteps
<1>5. CASE Capture!TakeFrame \/ Capture!EncodeFrame \/ Capture!SkipFrame
           \/ Capture!EncoderFails \/ Capture!EncoderEnds \/ Capture!Join
  BY <1>5, EncoderSteps
<1>. QED
  BY <1>1, <1>2, <1>3, <1>4, <1>5 DEF Capture!Next

LEMMA CaptureShows == Capture!CaptureInv => Capture!LatestShown /\ Capture!ErrorsLast
<1>. SUFFICES ASSUME Capture!CaptureInv PROVE Capture!LatestShown /\ Capture!ErrorsLast
  OBVIOUS
<1>. USE DEF Capture!CaptureInv
<1>1. Capture!LatestShown
  <2>. SUFFICES ASSUME Capture!AtRest, ~s14
                PROVE  s13 = [kind |-> "frame", picture |-> s1, cursor |-> s2]
    BY DEF Capture!LatestShown
  <2>1. /\ Capture!Runs("update") /\ s8.next = 1 /\ Capture!Complete /\ s2 = s9
             /\ s2 \in Capture!Shapes
        /\ ~s11.new /\ s12.at = "idle" /\ s7 = Outputs
        /\ \A o \in Outputs : s5[o].era = s3 /\ ~s5[o].image
        /\ s6 \in [Outputs -> [Tiles -> Capture!Versions]]
             /\ s1 \in [Outputs -> [Tiles -> Capture!Versions]]
    BY DEF Capture!AtRest, Capture!AtOutput, Capture!TypeOK, Capture!Complete,
       Capture!Picture
  <2>2. ~s8.changed /\ s9 # "none"
    BY <2>1 DEF Capture!Stages, Capture!Runs, Capture!Shapes
  <2>3. s13 = Capture!Frame(s9)
    BY <2>1, <2>2 DEF Capture!PictureSent
  <2>4. \A o \in Outputs, t \in Tiles : s6[o][t] = s1[o][t]
    BY <2>1 DEF Capture!LackIsTold
  <2>5. \A o \in Outputs : s6[o] = s1[o]
    BY <2>1, <2>4
  <2>6. s6 = [o \in Outputs |-> s6[o]] /\ s1 = [o \in Outputs |-> s1[o]]
    BY <2>1
  <2>7. s6 = s1
    BY <2>5, <2>6
  <2>. QED
    BY <2>1, <2>3, <2>7 DEF Capture!Frame
<1>2. Capture!ErrorsLast
  <2>1. Capture!Error.kind = "error"
    BY DEF Capture!Error, Capture!NoFrame
  <2>. QED
    BY <2>1 DEF Capture!ErrorsLast, Capture!EndsInError
<1>. QED
  BY <1>1, <1>2

=============================================================================
