----------------------------- MODULE PeerSession ----------------------------
(***************************************************************************)
(* How a viewer and the server get connected: the page that makes an offer *)
(* and trickles its candidates (assets/desktop-viewer.js, desktop-peer.js) *)
(* while it may be put on another WebSocket at any time, and the session   *)
(* task behind each WebSocket (desktop_webrtc/mod.rs, peer.rs, ice.rs),    *)
(* which must undo what it has set up whatever fails.  What a connected    *)
(* session may do to the desktop is in DesktopControl.                     *)
(***************************************************************************)
EXTENDS Naturals, Sequences, FiniteSets

CONSTANTS
  Connections,  \* 1..N, in the order the page makes them
  Resolvable,   \* those that come from an IPv4 address
  MaxBreaks     \* bound: things that go wrong

PeersAssumption ==
  Connections \subseteq Nat \ {0} /\ Resolvable \subseteq Connections /\ MaxBreaks \in Nat

VARIABLES
  socket,       \* the page's WebSocket: its connection, or 0
  made,         \* how many connections the page has made
  peerSession,  \* the page's DesktopPeer: that of the connection, or 0
  page,         \* per connection, what its DesktopPeer is at
  up, down,     \* per connection, the messages under way
  task,         \* per connection, its session task
  peer,         \* per connection, the server's RTCPeerConnection
  breaks        \* how many things have gone wrong

vars == <<socket, made, peerSession, page, up, down, task, peer, breaks>>

-----------------------------------------------------------------------------
(***************************************************************************)
(* Messages: a candidate says which peer gathered it, and whether its      *)
(* address is a name that only the browser's machine resolves (mDNS).      *)
(***************************************************************************)
Candidate(k, address) == [type |-> "candidate", of |-> k, address |-> address]
Offer(k, candidates) == [type |-> "offer", of |-> k, candidates |-> candidates]
Plain(type) == [type |-> type]

\* Mutant of Resolved: trickled candidates are passed on as they are.
AsIs(k, c) == c

\* rewrite_mdns_candidate: the address the browser connects from.
Resolved(k, c) == IF k \in Resolvable THEN [c EXCEPT !.address = "ip"] ELSE c

NoPage == [step |-> "none", starting |-> FALSE, gathered |-> FALSE, offerSent |-> FALSE, local |-> {},
           remote |-> FALSE, waiting |-> 0, applied |-> 0, heard |-> 0]
Closed(k) == [NoPage EXCEPT !.step = "closed", !.starting = page[k].starting]
NoTask == [at |-> "none", open |-> TRUE, registered |-> FALSE, channel |-> FALSE,
           pipeline |-> FALSE, failed |-> "no"]
NoPeer == [life |-> "none", given |-> {}, gathered |-> FALSE, queued |-> FALSE, state |-> "new"]

TypeOK ==
  /\ breaks \in 0..MaxBreaks /\ {socket, made, peerSession} \subseteq Connections \cup {0}
  /\ page \in [Connections ->
       [step: {"none", "offering", "offered", "accepting", "closed"}, starting: BOOLEAN,
        gathered: BOOLEAN, offerSent: BOOLEAN, local: SUBSET {Candidate(k, "mdns") : k \in Connections},
        remote: BOOLEAN, waiting: 0..1, applied: 0..1, heard: 0..1]]
  /\ \A k \in Connections : Len(up[k]) <= 2 /\ Len(down[k]) <= 4
  /\ task \in [Connections ->
       [at: {"none", "hello", "offer", "create", "describe", "answer", "run", "close", "stop",
             "unregister", "told", "gone"},
        open: BOOLEAN, registered: BOOLEAN, channel: BOOLEAN, pipeline: BOOLEAN,
        failed: {"no", "early", "unexpected", "error"}]]
  /\ \A k \in Connections :
       /\ peer[k].life \in {"none", "open", "closed"} /\ peer[k].state \in {"new", "connected", "failed"}
       /\ \A c \in peer[k].given : c.address \in {"mdns", "ip"}

Init ==
  /\ breaks = 0 /\ socket = 0 /\ made = 0 /\ peerSession = 0
  /\ page = [k \in Connections |-> NoPage]
  /\ up = [k \in Connections |-> <<>>] /\ down = [k \in Connections |-> <<>>]
  /\ task = [k \in Connections |-> NoTask]
  /\ peer = [k \in Connections |-> NoPeer]

-----------------------------------------------------------------------------
(***************************************************************************)
(* The page.                                                               *)
(***************************************************************************)
PageOnly == UNCHANGED <<down, task, peer, breaks>>

\* sendSignal: over whatever WebSocket the page has.
Signals(messages) ==
  IF socket # 0 /\ task[socket].open
    THEN up' = [up EXCEPT ![socket] = @ \o messages]
    ELSE UNCHANGED up

\* connect; by itself, after a while, or when the browser is online again:
\* then the page lets go of the socket and of the peer it has.
Connect ==
  /\ made + 1 \in Connections /\ made' = made + 1
  /\ socket' = made + 1 /\ peerSession' = 0
  /\ page' = IF peerSession = 0 THEN page ELSE [page EXCEPT ![peerSession] = Closed(peerSession)]
  /\ task' = [k \in Connections |->
       IF k = made + 1 THEN [NoTask EXCEPT !.at = "hello"]
       ELSE IF k = socket THEN [task[k] EXCEPT !.open = FALSE] ELSE task[k]]
  /\ down' = [k \in Connections |-> <<>>]
  /\ UNCHANGED <<up, peer, breaks>>

\* The WebSocket closes under the page; what was under way may be lost.
SocketCloses ==
  /\ socket # 0 /\ ~task[socket].open
  /\ socket' = 0 /\ peerSession' = 0
  /\ page' = IF peerSession = 0 THEN page ELSE [page EXCEPT ![peerSession] = Closed(peerSession)]
  /\ down' = [k \in Connections |-> <<>>]
  /\ UNCHANGED <<made, up, task, peer, breaks>>

\* Somebody closes it: the page, the network, or the server's machine.
CloseSocket(k) ==
  /\ task[k].at # "none" /\ task[k].open
  /\ breaks < MaxBreaks /\ breaks' = breaks + 1
  /\ task' = [task EXCEPT ![k].open = FALSE]
  /\ UNCHANGED <<socket, made, peerSession, page, up, down, peer>>

\* A message of the connection the page is on (those of one it has left are
\* dropped).
Hear(k, type) ==
  /\ down[k] # <<>> /\ Head(down[k]).type = type
  /\ down' = [down EXCEPT ![k] = Tail(@)]

\* hello: startPeerConnection makes a peer and waits for its offer.
HearHello(k) ==
  /\ socket = k /\ Hear(k, "hello")
  /\ IF peerSession # 0 THEN UNCHANGED <<peerSession, page>>
     ELSE /\ peerSession' = k
          /\ page' = [page EXCEPT ![k].step = "offering", ![k].starting = TRUE]
  /\ UNCHANGED <<socket, made, up, task, peer, breaks>>

\* The browser gathers a candidate: kept until the offer has gone.
Gather(k) ==
  /\ page[k].step \in {"offering", "offered"} /\ ~page[k].gathered
  /\ page' = [page EXCEPT ![k].gathered = TRUE, ![k].local =
       IF page[k].offerSent THEN @ ELSE {Candidate(k, "mdns")}]
  /\ IF page[k].offerSent THEN Signals(<<Candidate(k, "mdns")>>) ELSE UNCHANGED up
  /\ UNCHANGED <<socket, made, peerSession>> /\ PageOnly

SendsOffer(k) ==
  /\ \E known \in SUBSET page[k].local :
       Signals(<<Offer(k, known)>> \o IF page[k].local = {} THEN <<>> ELSE <<Candidate(k, "mdns")>>)
  /\ page' = [page EXCEPT ![k].step = "offered", ![k].starting = FALSE, ![k].local = {},
                          ![k].offerSent = socket # 0 /\ task[socket].open]

\* Mutant of Offers: it is not asked whether the peer is still the page's.
OffersAnyway(k) ==
  /\ page[k].starting /\ SendsOffer(k)
  /\ UNCHANGED <<socket, made, peerSession>> /\ PageOnly

\* The offer is there, with what was gathered when it was read: it is sent,
\* and the candidates after it.  A peer that is not the page's any more says
\* nothing.
Offers(k) ==
  /\ page[k].starting
  /\ IF peerSession = k THEN SendsOffer(k)
     ELSE page' = [page EXCEPT ![k].starting = FALSE] /\ UNCHANGED up
  /\ UNCHANGED <<socket, made, peerSession>> /\ PageOnly

\* answer: acceptAnswer waits until it is applied ...
HearAnswer(k) ==
  /\ socket = k /\ Hear(k, "answer")
  /\ page' = IF peerSession = 0 THEN page ELSE [page EXCEPT ![peerSession].step = "accepting"]
  /\ UNCHANGED <<socket, made, peerSession, up, task, peer, breaks>>

\* ... and adds the candidates that have come meanwhile.
Accepted(k) ==
  /\ page[k].step = "accepting"
  /\ page' = [page EXCEPT ![k].step = "offered", ![k].remote = TRUE,
                          ![k].applied = @ + page[k].waiting, ![k].waiting = 0]
  /\ UNCHANGED <<socket, made, peerSession, up>> /\ PageOnly

\* candidate: added, or kept for acceptAnswer.
HearCandidate(k) ==
  /\ socket = k /\ Hear(k, "candidate")
  /\ page' = IF peerSession = 0 THEN page
             ELSE [page EXCEPT ![peerSession].heard = @ + 1,
                               ![peerSession].applied = IF page[peerSession].remote THEN @ + 1 ELSE @,
                               ![peerSession].waiting = IF page[peerSession].remote THEN @ ELSE @ + 1]
  /\ UNCHANGED <<socket, made, peerSession, up, task, peer, breaks>>

\* error: is shown.
HearError(k) ==
  /\ socket = k /\ Hear(k, "error")
  /\ UNCHANGED <<socket, made, peerSession, page, up, task, peer, breaks>>

-----------------------------------------------------------------------------
(***************************************************************************)
(* The session task of a connection.                                       *)
(***************************************************************************)
PageStays == UNCHANGED <<socket, made, peerSession, page>>
TaskOnly == PageStays /\ UNCHANGED breaks

\* Something goes wrong.
Breaks == PageStays /\ breaks < MaxBreaks /\ breaks' = breaks + 1
At(k, where) == task[k].at = where
Goes(k, where) == task' = [task EXCEPT ![k].at = where]
Fails(k, where, why) == task' = [task EXCEPT ![k].at = where, ![k].failed = why]
Says(k, message) ==
  down' = IF task[k].open THEN [down EXCEPT ![k] = Append(@, message)] ELSE down

\* run_desktop_session measures the desktop and says hello, or fails.
SayHello(k) ==
  /\ At(k, "hello")
  /\ \/ task[k].open /\ Goes(k, "offer") /\ Says(k, Plain("hello")) /\ TaskOnly
     \/ ~task[k].open /\ Fails(k, "told", "error") /\ UNCHANGED down /\ TaskOnly
     \/ task[k].open /\ Fails(k, "told", "error") /\ UNCHANGED down /\ Breaks
  /\ UNCHANGED <<up, peer>>

\* receive_offer: the first text must be an offer, within 30 seconds.
ReceiveOffer(k) ==
  /\ At(k, "offer") /\ up[k] # <<>>
  /\ up' = [up EXCEPT ![k] = Tail(@)]
  /\ LET m == Head(up[k])
     IN IF m.type # "offer" THEN Fails(k, "told", "early") /\ UNCHANGED peer
        ELSE /\ Goes(k, "create")
             /\ peer' = [peer EXCEPT ![k].given = {Resolved(k, c) : c \in m.candidates}]
  /\ TaskOnly /\ UNCHANGED down

NoOffer(k) ==
  /\ At(k, "offer") /\ Fails(k, "told", "error")
  /\ Breaks /\ UNCHANGED <<up, down, peer>>

\* create_session: codecs, the peer and its track may fail ...
CreateFails(k) ==
  /\ At(k, "create") /\ Fails(k, "told", "error")
  /\ Breaks /\ UNCHANGED <<up, down, peer>>

\* ... before subscribe registers the session with the input controller, if
\* it may control the desktop: one that only views it is not registered ...
Register(k) ==
  /\ At(k, "create")
  /\ \/ task' = [task EXCEPT ![k].at = "describe", ![k].registered = TRUE]
     \/ Goes(k, "describe")
  /\ peer' = [peer EXCEPT ![k].life = "open"]
  /\ TaskOnly /\ UNCHANGED <<up, down>>

\* Mutant of DescribeFails: the session stays registered.
DescribeFailsEarly(k) ==
  /\ At(k, "describe")
  /\ Fails(k, "told", "error") /\ peer' = [peer EXCEPT ![k] = [NoPeer EXCEPT !.life = "closed"]]
  /\ Breaks /\ UNCHANGED <<up, down>>

\* ... and when the descriptions cannot be applied it is taken back.
DescribeFails(k) ==
  /\ At(k, "describe")
  /\ task' = [task EXCEPT ![k].at = "told", ![k].failed = "error", ![k].registered = FALSE]
  /\ peer' = [peer EXCEPT ![k] = [NoPeer EXCEPT !.life = "closed"]]
  /\ Breaks /\ UNCHANGED <<up, down>>

\* The local description is set: from now on the peer gathers candidates ...
Described(k) ==
  /\ At(k, "describe") /\ Goes(k, "answer")
  /\ TaskOnly /\ UNCHANGED <<up, down, peer>>

PeerGathers(k) ==
  /\ peer[k].life = "open" /\ task[k].at \in {"answer", "run"} /\ ~peer[k].gathered
  /\ peer' = [peer EXCEPT ![k].gathered = TRUE, ![k].queued = TRUE]
  /\ TaskOnly /\ UNCHANGED <<up, down, task>>

\* ... that wait until the answer has been sent.
Answer(k) ==
  /\ At(k, "answer")
  /\ IF task[k].open THEN Goes(k, "run") /\ Says(k, Plain("answer"))
     ELSE Fails(k, "close", "error") /\ UNCHANGED down
  /\ TaskOnly /\ UNCHANGED <<up, peer>>

\* select!: a candidate of the peer ...
Trickle(k) ==
  /\ At(k, "run") /\ peer[k].queued
  /\ peer' = [peer EXCEPT ![k].queued = FALSE]
  /\ IF task[k].open THEN Says(k, Candidate(0, "ip")) /\ UNCHANGED task
     ELSE Fails(k, "close", "error") /\ UNCHANGED down
  /\ TaskOnly /\ UNCHANGED up

\* ... a candidate of the browser (receive_candidate), which the peer may
\* refuse ...
ReceiveCandidate(k) ==
  /\ At(k, "run") /\ up[k] # <<>>
  /\ up' = [up EXCEPT ![k] = Tail(@)]
  /\ LET m == Head(up[k])
     IN IF m.type # "candidate" THEN Fails(k, "close", "unexpected") /\ UNCHANGED peer /\ TaskOnly
        ELSE \/ peer' = [peer EXCEPT ![k].given = @ \cup {Resolved(k, m)}] /\ UNCHANGED task /\ TaskOnly
             \/ Fails(k, "close", "error") /\ UNCHANGED peer /\ Breaks
  /\ UNCHANGED down

\* ... the peer's state: connected once both sides know an address ...
Changes(k) ==
  /\ peer[k].life = "open" /\ At(k, "run")
  /\ \/ peer[k].state = "new" /\ peer[k].given # {} /\ peer' = [peer EXCEPT ![k].state = "connected"] /\ TaskOnly
     \/ peer[k].state \in {"new", "connected"} /\ peer' = [peer EXCEPT ![k].state = "failed"] /\ Breaks
  /\ UNCHANGED <<up, down, task>>

\* on_open: the control channel is there for the session's messages.  (That of
\* a session that only views is left out: its closing changes nothing here.)
ChannelOpens(k) ==
  /\ peer[k].life = "open" /\ peer[k].state = "connected"
  /\ task[k].registered /\ ~task[k].channel
  /\ task' = [task EXCEPT ![k].channel = TRUE]
  /\ TaskOnly /\ UNCHANGED <<up, down, peer>>

\* on_close: it unregisters the session, whatever its task is at.
ChannelCloses(k) ==
  /\ task[k].channel /\ task[k].registered
  /\ task' = [task EXCEPT ![k].channel = FALSE, ![k].registered = FALSE]
  /\ TaskOnly /\ UNCHANGED <<up, down, peer>>

\* Mutant of Connected: a pipeline that cannot start leaves at once.
ConnectedReturns(k) ==
  /\ At(k, "run") /\ peer[k].state = "connected" /\ ~task[k].pipeline
  /\ \/ task' = [task EXCEPT ![k].pipeline = TRUE] /\ TaskOnly
     \/ Fails(k, "told", "error") /\ Breaks
  /\ UNCHANGED <<up, down, peer>>

\* ... which starts the video, or fails to, ...
Connected(k) ==
  /\ At(k, "run") /\ peer[k].state = "connected" /\ ~task[k].pipeline
  /\ \/ task' = [task EXCEPT ![k].pipeline = TRUE] /\ TaskOnly
     \/ Fails(k, "close", "error") /\ Breaks
  /\ UNCHANGED <<up, down, peer>>

\* ... and the end of the peer or of the WebSocket.
Ends(k) ==
  /\ At(k, "run")
  /\ peer[k].state = "failed" \/ ~task[k].open
  /\ Goes(k, "close")
  /\ TaskOnly /\ UNCHANGED <<up, down, peer>>

\* The WebSocket is closed before there was an offer.
NeverOffered(k) ==
  /\ At(k, "offer") /\ ~task[k].open
  /\ Fails(k, "told", "error")
  /\ TaskOnly /\ UNCHANGED <<up, down, peer>>

\* In this order: the peer, the pipeline, the registration.
ClosePeer(k) ==
  /\ At(k, "close") /\ Goes(k, "stop")
  /\ peer' = [peer EXCEPT ![k] = [NoPeer EXCEPT !.life = "closed"]]
  /\ TaskOnly /\ UNCHANGED <<up, down>>

StopPipeline(k) ==
  /\ At(k, "stop")
  /\ task' = [task EXCEPT ![k].at = "unregister", ![k].pipeline = FALSE]
  /\ TaskOnly /\ UNCHANGED <<up, down, peer>>

\* What its channel does after this changes nothing.
Unregister(k) ==
  /\ At(k, "unregister")
  /\ task' = [task EXCEPT ![k].at = "told", ![k].registered = FALSE, ![k].channel = FALSE]
  /\ TaskOnly /\ UNCHANGED <<up, down, peer>>

\* desktop_websocket_session tells an error, and the WebSocket is dropped.
Tell(k) ==
  /\ At(k, "told")
  /\ IF task[k].failed # "no" THEN Says(k, Plain("error")) ELSE UNCHANGED down
  /\ task' = [task EXCEPT ![k].at = "gone", ![k].open = FALSE]
  /\ up' = [up EXCEPT ![k] = <<>>]
  /\ TaskOnly /\ UNCHANGED peer

-----------------------------------------------------------------------------
Page(k) ==
  \/ HearHello(k) \/ Gather(k) \/ Offers(k)
  \/ HearAnswer(k) \/ Accepted(k) \/ HearCandidate(k) \/ HearError(k)

Task(k) ==
  \/ SayHello(k) \/ ReceiveOffer(k) \/ NoOffer(k) \/ NeverOffered(k) \/ CreateFails(k)
  \/ Register(k) \/ DescribeFails(k) \/ Described(k) \/ PeerGathers(k) \/ Answer(k)
  \/ Trickle(k) \/ ReceiveCandidate(k) \/ Changes(k) \/ Connected(k) \/ Ends(k)
  \/ ChannelOpens(k) \/ ChannelCloses(k)
  \/ ClosePeer(k) \/ StopPipeline(k) \/ Unregister(k) \/ Tell(k)

Next ==
  \/ Connect \/ SocketCloses
  \/ \E k \in Connections : CloseSocket(k) \/ Page(k) \/ Task(k)

Spec == Init /\ [][Next]_vars

-----------------------------------------------------------------------------
(***************************************************************************)
(* Properties.                                                             *)
(***************************************************************************)
Offered(k) == {i \in DOMAIN up[k] : up[k][i].type = "offer"}

\* However the page moves between WebSockets, each session hears its own peer
\* only, one offer and nothing before it: the server's refusals of anything
\* else ("received an ICE candidate before the WebRTC offer", mod.rs:239) are
\* never met by Latitude's page.
SignalsFit ==
  \A k \in Connections :
    /\ task[k].failed \notin {"early", "unexpected"}
    /\ \A i \in DOMAIN up[k] : up[k][i].of = k
    /\ \A i \in Offered(k) : i = 1 /\ task[k].at \in {"hello", "offer", "told"}

\* Candidates are applied once each in both directions, however they overtake
\* the descriptions: what was gathered before and after the offer gets to the
\* server, and what the page hears before its answer is applied is kept.
CandidatesKept ==
  \A k \in Connections :
    /\ page[k].applied + page[k].waiting = page[k].heard
    /\ page[k].waiting # 0 => page[k].step = "accepting"
    /\ page[k].gathered /\ page[k].offerSent /\ At(k, "run") /\ up[k] = <<>> /\ task[k].open
         => peer[k].given # {}

\* A browser hides its address from pages behind a name; the server's peer
\* only gets addresses that it can reach, if it knows them (mod.rs:101).
AddressesResolved ==
  \A k \in Resolvable : \A c \in peer[k].given : c.address = "ip"

\* Whatever fails, and whenever its control channel closes, a session that is
\* over has closed its peer, stopped its pipeline and left the input
\* controller.
NothingLeft ==
  \A k \in Connections :
    task[k].at \in {"told", "gone"} =>
      ~task[k].registered /\ ~task[k].pipeline /\ peer[k].life # "open"

-----------------------------------------------------------------------------
(***************************************************************************)
(* The invariant behind the properties, of what each connection has: the   *)
(* page p, the messages u and d, the session task t and the server's peer  *)
(* r; on, whether the page is on the connection, and mine, whether the     *)
(* page's peer is the connection's.                                        *)
(***************************************************************************)
Candidates == [type: {"candidate"}, of: Connections \cup {0}, address: {"mdns", "ip"}]
OfferMessages == [type: {"offer"}, of: Connections, candidates: SUBSET Candidates]
Pages == [step: {"none", "offering", "offered", "accepting", "closed"}, starting: BOOLEAN,
          gathered: BOOLEAN, offerSent: BOOLEAN, local: SUBSET Candidates,
          remote: BOOLEAN, waiting: Nat, applied: Nat, heard: Nat]
TasksOf == [at: {"none", "hello", "offer", "create", "describe", "answer", "run", "close", "stop",
                 "unregister", "told", "gone"},
            open: BOOLEAN, registered: BOOLEAN, channel: BOOLEAN,
            pipeline: BOOLEAN, failed: {"no", "early", "unexpected", "error"}]
ServerPeers == [life: {"none", "open", "closed"}, given: SUBSET Candidates, gathered: BOOLEAN,
                queued: BOOLEAN, state: {"new", "connected", "failed"}]

UpMessages == Candidates \cup OfferMessages
DownMessages == [type: {"hello", "answer", "error"}] \cup Candidates

Live(p) == p.step \in {"offering", "offered", "accepting"}
Heard(p) == p.step = "accepting" \/ p.remote
Unanswered == {"none", "hello", "offer", "create", "describe", "answer"}

\* The page has at most one peer, that of the connection it is on, and only
\* that one is open.
OneAtATime(p, t, on, mine) ==
  /\ Live(p) <=> mine
  /\ mine => on
  /\ on => p.step # "closed" /\ t.at # "none"
  /\ t.at # "none" /\ t.open => on

\* What a session task has set up at each stage.
SetUp(t, r) ==
  /\ t.at \in {"none", "hello", "offer"} => r = NoPeer
  /\ t.at \in {"none", "hello", "offer", "create"} => ~t.registered /\ r.life = "none"
  /\ t.at \in {"stop", "unregister", "told", "gone"} => r.life # "open"
  /\ t.pipeline => t.at \in {"run", "close", "stop"}
  /\ t.at \in {"none", "hello", "offer", "create"} => ~t.channel
  /\ t.at \in {"told", "gone"} => ~t.registered
  /\ t.at = "none" => t.open /\ t.failed = "no"
  /\ t.at = "gone" => ~t.open

\* The offer is the first thing a session hears, and what it hears comes from
\* its own peer.
OfferFirst(k, p, u, t, mine) ==
  /\ p.step = "none" => p = NoPage
  /\ p.step = "offering" => ~p.remote
  /\ p.step = "none" \/ (p.starting /\ mine) =>
       /\ u = <<>> /\ ~p.offerSent /\ p.step \in {"none", "offering"}
       /\ t.at \in {"none", "hello", "offer", "told", "gone"}
  /\ \A i \in DOMAIN u :
       u[i].of = k /\ (u[i].type = "offer" => i = 1 /\ t.at \in {"hello", "offer", "told"})
  /\ t.at \in {"hello", "offer"} /\ (p.offerSent \/ u # <<>>) => u # <<>> /\ u[1].type = "offer"
  /\ t.failed \notin {"early", "unexpected"}

\* A candidate that the browser has gathered gets to the server's peer.
GatheredArrives(p, u, t, r) ==
  /\ p.gathered /\ p.offerSent /\ t.open
       /\ t.at \in {"hello", "offer", "create", "describe", "answer", "run"}
       => \/ \E i \in DOMAIN u : u[i].type = "candidate"
          \/ t.at \notin {"hello", "offer"} /\ r.given # {}
  /\ p.gathered /\ ~p.offerSent /\ p.starting => p.local # {}

\* Hello, answer, candidates, an error: the page hears each after the one
\* before.
InOrder(p, d, t) ==
  /\ t.at \in {"none", "hello"} => d = <<>> /\ p.step = "none"
  /\ \A i \in DOMAIN d :
       /\ d[i].type = "hello" => i = 1 /\ p.step = "none"
       /\ d[i].type = "answer" => t.at \notin Unanswered /\ p.step # "none" /\ ~p.starting
       /\ d[i].type = "candidate" =>
            t.at \notin Unanswered /\ (Heard(p) \/ \E j \in 1..(i - 1) : d[j].type = "answer")
       /\ d[i].type = "error" => t.at = "gone" /\ i = Len(d)
  /\ p.step = "none" /\ d # <<>> => d[1].type \in {"hello", "error"}
  /\ p.step = "none" /\ t.open /\ t.at \notin {"none", "hello", "told", "gone"} =>
       d # <<>> /\ d[1].type = "hello"
  /\ t.at = "run" /\ t.open => Heard(p) \/ \E j \in DOMAIN d : d[j].type = "answer"

\* What has been heard is applied or waits for the answer.
HeardApplied(p) ==
  p.applied + p.waiting = p.heard /\ (p.waiting # 0 => p.step = "accepting")

Fits(k, p, u, d, t, r, on, mine) ==
  /\ OneAtATime(p, t, on, mine)
  /\ SetUp(t, r) /\ OfferFirst(k, p, u, t, mine) /\ GatheredArrives(p, u, t, r)
  /\ on => InOrder(p, d, t)
  /\ HeardApplied(p)
  /\ k \in Resolvable => \A c \in r.given : c.address = "ip"

PeersInv ==
  /\ socket \in Connections \cup {0} /\ peerSession \in Connections \cup {0}
  /\ made \in Nat /\ socket <= made
  /\ page \in [Connections -> Pages] /\ up \in [Connections -> Seq(UpMessages)]
  /\ down \in [Connections -> Seq(DownMessages)]
  /\ task \in [Connections -> TasksOf] /\ peer \in [Connections -> ServerPeers]
  /\ \A k \in Connections :
       /\ Fits(k, page[k], up[k], down[k], task[k], peer[k], socket = k, peerSession = k)
       /\ k > made => page[k] = NoPage /\ up[k] = <<>> /\ task[k] = NoTask /\ peer[k] = NoPeer

=============================================================================
