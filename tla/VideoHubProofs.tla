--------------------------- MODULE VideoHubProofs --------------------------
(***************************************************************************)
(* Theorems about VideoHub, for every number of viewers.                   *)
(*                                                                         *)
(* The inductive invariant adds to ProducerShared and NoOrphan how         *)
(* generations are handed out: each viewer starts at most one, one that    *)
(* has not been handed out is untouched, and a session that stops a        *)
(* producer does not hold the one in the map.                              *)
(***************************************************************************)
EXTENDS VideoHub, FiniteSetTheorems, TLAPS

Arrived == {v \in Viewers : session[v] # "new"}

\* A viewer without a subscription has no writer.
NoWriterWithout == \A v \in Viewers : holds[v] = None => writer[v] = "none"

GenerationsFresh ==
  /\ nextGeneration <= Cardinality(Arrived) + 1
  /\ active # None => active < nextGeneration
  /\ \A v \in Viewers : holds[v] < nextGeneration
  /\ \A v \in Viewers : session[v] \in {"halting", "joining"} =>
                          holds[v] \in Generations /\ holds[v] # active
  /\ \A g \in Generations : g >= nextGeneration => ~stop[g] /\ worker[g] = "none"
  /\ NoWriterWithout

HubInv == TypeOK /\ ProducerShared /\ NoOrphan /\ GenerationsFresh

LEMMA CardinalityViewers ==
  /\ Cardinality(Viewers) \in Nat
  /\ None \notin Generations /\ Generations \subseteq Nat
BY HubAssumption, FS_CardinalityType DEF None, Generations

\* A set of viewers and its size.
LEMMA SomeViewers ==
  ASSUME NEW S \in SUBSET Viewers
  PROVE  /\ IsFiniteSet(S)
         /\ Cardinality(S) \in Nat
         /\ Cardinality(S) <= Cardinality(Viewers)
         /\ Cardinality(S) = 0 <=> S = {}
BY HubAssumption, FS_Subset, FS_CardinalityType, FS_EmptySet

-----------------------------------------------------------------------------
\* A step that leaves the hub and the sessions alone, and starts no thread.
LEMMA HubUntouched ==
  ASSUME HubInv, TypeOK', NoWriterWithout', UNCHANGED <<hubVars, stop, session, holds>>,
         \A g \in Generations : worker'[g] # worker[g] => worker[g] \in Working
  PROVE  HubInv'
<1>1. ProducerShared'
  BY DEF HubInv, ProducerShared, Subscribed, hubVars
<1>2. NoOrphan'
  BY DEF HubInv, NoOrphan, hubVars
<1>3. GenerationsFresh'
  <2>1. Arrived' = Arrived
    BY DEF Arrived
  <2>2. ASSUME NEW g \in Generations, g >= nextGeneration
        PROVE  ~stop[g] /\ worker'[g] = "none"
    BY <2>2 DEF HubInv, GenerationsFresh, Working
  <2> QED  BY <2>1, <2>2 DEF HubInv, GenerationsFresh, hubVars
<1> QED  BY <1>1, <1>2, <1>3 DEF HubInv

LEMMA PublishType ==
  ASSUME TypeOK, NEW g \in Generations, NEW event \in Event, Publish(g, event)
  PROVE  frame' \in [Generations -> Event] /\ unseen' \in [Viewers -> BOOLEAN]
BY DEF TypeOK, Publish

LEMMA ProducerKeeps ==
  ASSUME HubInv, NEW g \in Generations, Producer(g)
  PROVE  HubInv'
<1>0. TypeOK
  BY DEF HubInv
<1>7. ASSUME UNCHANGED <<holds, writer>>
      PROVE  NoWriterWithout'
  BY <1>7 DEF HubInv, GenerationsFresh, NoWriterWithout
<1>1. CASE BeginEncode(g)
  <2>0. g \in Generations /\ GoesOn(g)
    BY <1>1 DEF BeginEncode
  <2>1. changes' \in 0..MaxChanges
    BY <1>0, <1>1, HubAssumption DEF BeginEncode, TypeOK
  <2>2. encoding' \in [Generations -> {"idle", "plain", "forced"}]
        /\ force' \in [Generations -> BOOLEAN]
    BY <1>0, <1>1 DEF BeginEncode, TypeOK
  <2>3. UNCHANGED <<worker, encoder, stop, frame, hubVars, viewerVars>>
    BY <1>1 DEF BeginEncode
  <2>4. TypeOK'
    BY <1>0, <2>1, <2>2, <2>3 DEF TypeOK, hubVars, viewerVars
  <2> QED  BY <2>3, <2>4, <1>7, HubUntouched DEF viewerVars
<1>2. CASE EncodeFrame(g)
  <2>1. PICK kind \in {"key", "delta"} : Publish(g, kind)
    BY <1>2 DEF EncodeFrame
  <2>2. frame' \in [Generations -> Event] /\ unseen' \in [Viewers -> BOOLEAN]
    BY <1>0, <2>1, PublishType DEF Event
  <2>3. UNCHANGED <<worker, force, stop, changes, hubVars>>
        /\ UNCHANGED <<session, holds, writer, pending, startup, told>>
    BY <1>2 DEF EncodeFrame
  <2>4. encoding' \in [Generations -> {"idle", "plain", "forced"}]
        /\ encoder' \in [Generations -> {"new", "tried", "running"}]
    BY <1>0, <1>2 DEF EncodeFrame, TypeOK
  <2>5. TypeOK'
    BY <1>0, <2>2, <2>3, <2>4 DEF TypeOK, hubVars
  <2> QED  BY <2>3, <2>5, <1>7, HubUntouched
<1>3. CASE EncodeNothing(g)
  <2>1. UNCHANGED <<worker, stop, frame, changes, hubVars, viewerVars>>
    BY <1>3 DEF EncodeNothing
  <2>2. encoding' \in [Generations -> {"idle", "plain", "forced"}]
        /\ force' \in [Generations -> BOOLEAN]
        /\ encoder' \in [Generations -> {"new", "tried", "running"}]
    BY <1>0, <1>3 DEF EncodeNothing, TypeOK
  <2>3. TypeOK'
    BY <1>0, <2>1, <2>2 DEF TypeOK, hubVars, viewerVars
  <2> QED  BY <2>1, <2>3, <1>7, HubUntouched DEF viewerVars
<1>4. CASE GpuFails(g)
  <2>1. UNCHANGED <<force, stop, frame, changes, hubVars, viewerVars>>
    BY <1>4 DEF GpuFails
  <2>2. /\ encoding' \in [Generations -> {"idle", "plain", "forced"}]
        /\ encoder' \in [Generations -> {"new", "tried", "running"}]
        /\ worker' \in [Generations -> {"none", "ended"} \cup Working]
    BY <1>0, <1>4 DEF GpuFails, TypeOK, Working
  <2>3. TypeOK'
    BY <1>0, <2>1, <2>2 DEF TypeOK, hubVars, viewerVars
  <2>4. \A h \in Generations : worker'[h] # worker[h] => worker[h] \in Working
    BY <1>0, <1>4 DEF GpuFails, Working, TypeOK
  <2> QED  BY <2>1, <2>3, <2>4, <1>7, HubUntouched DEF viewerVars
<1>5. CASE SoftwareFails(g)
  <2>1. UNCHANGED <<encoder, force, stop, changes, hubVars>>
        /\ UNCHANGED <<session, holds, writer, pending, startup, told>>
    BY <1>5 DEF SoftwareFails
  <2>2. frame' \in [Generations -> Event] /\ unseen' \in [Viewers -> BOOLEAN]
    <3>1. CASE Publish(g, "error")
      BY <1>0, <3>1, PublishType DEF Event
    <3>2. CASE UNCHANGED <<frame, unseen>>
      BY <1>0, <3>2 DEF TypeOK
    <3> QED  BY <1>5, <3>1, <3>2 DEF SoftwareFails
  <2>3. /\ encoding' \in [Generations -> {"idle", "plain", "forced"}]
        /\ worker' \in [Generations -> {"none", "ended"} \cup Working]
    BY <1>0, <1>5 DEF SoftwareFails, TypeOK
  <2>4. TypeOK'
    BY <1>0, <2>1, <2>2, <2>3 DEF TypeOK, hubVars
  <2>5. \A h \in Generations : worker'[h] # worker[h] => worker[h] \in Working
    BY <1>0, <1>5 DEF SoftwareFails, Working, TypeOK
  <2> QED  BY <2>1, <2>4, <2>5, <1>7, HubUntouched
<1>6. CASE WorkerReturns(g)
  <2>1. UNCHANGED <<encoding, encoder, force, stop, frame, changes, hubVars, viewerVars>>
    BY <1>6 DEF WorkerReturns
  <2>2. worker' \in [Generations -> {"none", "ended"} \cup Working]
    BY <1>0, <1>6 DEF WorkerReturns, TypeOK
  <2>3. TypeOK'
    BY <1>0, <2>1, <2>2 DEF TypeOK, hubVars, viewerVars
  <2>4. \A h \in Generations : worker'[h] # worker[h] => worker[h] \in Working
    BY <1>0, <1>6 DEF WorkerReturns, TypeOK
  <2> QED  BY <2>1, <2>3, <2>4, <1>7, HubUntouched DEF viewerVars
<1> QED  BY <1>1, <1>2, <1>3, <1>4, <1>5, <1>6 DEF Producer

LEMMA WriterKeeps ==
  ASSUME HubInv, NEW v \in Viewers, Writer(v)
  PROVE  HubInv'
<1>0. TypeOK
  BY DEF HubInv
<1>1. UNCHANGED <<hubVars, worker, encoding, encoder, stop, frame, changes, session, holds>>
  BY DEF Writer, Settle, RequestKeyframe, Receive, ReportError, SkipDelta, SendFrame,
     SendFails, workerVars, hubVars
<1>2. force' \in [Generations -> BOOLEAN]
  BY <1>0 DEF Writer, Settle, RequestKeyframe, Receive, ReportError, SkipDelta, SendFrame,
     SendFails, workerVars, TypeOK
<1>3. writer' \in [Viewers -> {"none", "settling", "requesting", "waiting", "writing", "ended"}]
  BY <1>0 DEF Writer, Settle, RequestKeyframe, Receive, ReportError, SkipDelta, SendFrame,
     SendFails, WriterAt, TypeOK
<1>4. unseen' \in [Viewers -> BOOLEAN] /\ told' \in [Viewers -> BOOLEAN]
  BY <1>0 DEF Writer, Settle, RequestKeyframe, Receive, ReportError, SkipDelta, SendFrame,
     SendFails, TypeOK
<1>5. startup' \in [Viewers -> 0..2]
  BY <1>0 DEF Writer, Settle, RequestKeyframe, Receive, ReportError, SkipDelta, SendFrame,
     SendFails, TypeOK
<1>6. pending' \in [Viewers -> Event]
  <2>1. CASE Receive(v)
    <3>1. holds[v] \in Generations
      BY <1>0, <2>1 DEF Receive, HubInv, GenerationsFresh, NoWriterWithout, TypeOK
    <3> QED  BY <3>1, <2>1, <1>0 DEF Receive, TypeOK
  <2>2. CASE ~Receive(v)
    BY <1>0, <2>2 DEF Writer, Settle, RequestKeyframe, ReportError, SkipDelta, SendFrame,
       SendFails, TypeOK, Event
  <2> QED  BY <2>1, <2>2
<1>7. TypeOK'
  BY <1>0, <1>1, <1>2, <1>3, <1>4, <1>5, <1>6 DEF TypeOK, hubVars
<1>8. NoWriterWithout'
  <2>1. writer[v] # "none" /\ (\A u \in Viewers : u # v => writer'[u] = writer[u])
    BY <1>0 DEF Writer, Settle, RequestKeyframe, Receive, ReportError, SkipDelta, SendFrame,
       SendFails, WriterAt, TypeOK
  <2> QED  BY <2>1, <1>1 DEF HubInv, GenerationsFresh, NoWriterWithout
<1> QED  BY <1>1, <1>7, <1>8, HubUntouched

LEMMA RequestKeeps ==
  ASSUME HubInv, NEW v \in Viewers, ClientRequest(v)
  PROVE  HubInv'
<1>1. UNCHANGED <<hubVars, worker, encoding, encoder, stop, frame, changes, viewerVars>>
  BY DEF ClientRequest
<1>2. force' \in [Generations -> BOOLEAN]
  BY DEF ClientRequest, HubInv, TypeOK
<1>3. TypeOK' /\ NoWriterWithout'
  BY <1>1, <1>2 DEF HubInv, GenerationsFresh, NoWriterWithout, TypeOK, hubVars, viewerVars
<1> QED  BY <1>1, <1>3, HubUntouched DEF viewerVars

-----------------------------------------------------------------------------
LEMMA SubscribeKeeps ==
  ASSUME HubInv, NEW v \in Viewers, Subscribe(v)
  PROVE  HubInv'
<1> DEFINE g == IF active = None THEN nextGeneration ELSE active
           n == Cardinality(Viewers)
<1>0. /\ TypeOK /\ ProducerShared /\ NoOrphan /\ GenerationsFresh /\ n \in Nat
      /\ None = 0 /\ Generations = 1..n
  BY CardinalityViewers DEF HubInv, None, Generations
<1>1. /\ session[v] = "new"
      /\ session' = [session EXCEPT ![v] = "watching"]
      /\ active' = g
      /\ subscribers' = IF active = None THEN 1 ELSE subscribers + 1
      /\ nextGeneration' = IF active = None THEN nextGeneration + 1 ELSE nextGeneration
      /\ worker' = IF active = None THEN [worker EXCEPT ![g] = "gpu"] ELSE worker
      /\ force' = [force EXCEPT ![g] = TRUE]
      /\ holds' = [holds EXCEPT ![v] = g]
      /\ writer' = [writer EXCEPT ![v] = "settling"]
      /\ UNCHANGED <<encoding, encoder, stop, frame, changes, unseen, pending, startup, told>>
  BY DEF Subscribe
<1>2. v \notin Arrived /\ Arrived' = Arrived \cup {v}
      /\ v \notin Subscribed /\ Subscribed' = Subscribed \cup {v}
  BY <1>0, <1>1 DEF Arrived, Subscribed, TypeOK
<1>3. /\ IsFiniteSet(Arrived) /\ IsFiniteSet(Subscribed)
      /\ Cardinality(Arrived) \in Nat /\ Cardinality(Subscribed) \in Nat
      /\ Cardinality(Arrived') <= n /\ Cardinality(Subscribed') <= n
  <2>1. Arrived \in SUBSET Viewers /\ Subscribed \in SUBSET Viewers
        /\ Arrived' \in SUBSET Viewers /\ Subscribed' \in SUBSET Viewers
    BY DEF Arrived, Subscribed
  <2> QED  BY <2>1, SomeViewers
<1>4. /\ Cardinality(Arrived') = Cardinality(Arrived) + 1
      /\ Cardinality(Subscribed') = Cardinality(Subscribed) + 1
  BY <1>2, <1>3, FS_AddElement
<1>5. nextGeneration \in Nat /\ nextGeneration <= Cardinality(Arrived) + 1
  BY <1>0 DEF TypeOK, GenerationsFresh
<1>6. nextGeneration \in 1..n /\ g \in 1..n
  BY <1>0, <1>3, <1>4, <1>5 DEF TypeOK
<1> HIDE DEF g
<1>7. subscribers = Cardinality(Subscribed) /\ (active = None <=> Subscribed = {})
      /\ (Subscribed = {} => Cardinality(Subscribed) = 0)
  BY <1>0, FS_EmptySet DEF ProducerShared
<1>8. subscribers' = Cardinality(Subscribed')
  BY <1>1, <1>4, <1>7
<1>9. TypeOK'
  <2>1. subscribers' \in 0..n
    BY <1>3, <1>4, <1>8
  <2>2. nextGeneration' \in 1..(n + 1)
    BY <1>0, <1>1, <1>6 DEF TypeOK
  <2>3. worker' \in [Generations -> {"none", "ended"} \cup Working]
    BY <1>0, <1>1 DEF TypeOK, Working
  <2>4. force' \in [Generations -> BOOLEAN]
    BY <1>0, <1>1 DEF TypeOK
  <2>5. active' \in Generations /\ holds' \in [Viewers -> Generations \cup {None}]
    BY <1>0, <1>1, <1>6 DEF TypeOK
  <2>6. session' \in [Viewers -> {"new", "watching", "stopping", "releasing", "halting",
                                  "joining", "gone"}]
    BY <1>0, <1>1 DEF TypeOK
  <2>7. writer' \in [Viewers -> {"none", "settling", "requesting", "waiting", "writing", "ended"}]
    BY <1>0, <1>1 DEF TypeOK
  <2> QED  BY <1>0, <1>1, <2>1, <2>2, <2>3, <2>4, <2>5, <2>6, <2>7 DEF TypeOK
<1>10. active = None => g = nextGeneration /\ ~stop[g] /\ worker[g] = "none"
  BY <1>0, <1>6 DEF g, GenerationsFresh
<1>11. active # None => g = active
  BY DEF g
<1>12. ProducerShared'
  <2>1. active' # None
    BY <1>0, <1>1, <1>6
  <2>2. ~stop[g]
    <3>1. CASE active = None
      BY <3>1, <1>10
    <3>2. CASE active # None
      BY <3>2, <1>0, <1>7, <1>11 DEF ProducerShared
    <3> QED  BY <3>1, <3>2
  <2>3. ASSUME NEW u \in Subscribed'
        PROVE  holds'[u] = active' /\ ~stop'[active']
    <3>1. CASE u = v
      BY <3>1, <2>2, <1>0, <1>1 DEF TypeOK
    <3>2. CASE u # v
      <4>1. u \in Subscribed /\ u \in Viewers
        BY <3>2, <1>2 DEF Subscribed
      <4>2. active # None /\ holds[u] = active
        BY <4>1, <1>0, <1>7 DEF ProducerShared
      <4> QED  BY <3>2, <4>1, <4>2, <2>2, <1>0, <1>1, <1>11 DEF TypeOK
    <3> QED  BY <3>1, <3>2
  <2> QED  BY <2>1, <2>3, <1>2, <1>8 DEF ProducerShared
<1>13. NoOrphan'
  <2> SUFFICES ASSUME NEW h \in Generations, worker'[h] \in Working
               PROVE  \/ h = active'
                      \/ \E u \in Viewers : holds'[u] = h /\ session'[u] \in {"halting", "joining"}
    BY DEF NoOrphan
  <2>1. CASE h = g
    BY <2>1, <1>1
  <2>2. CASE h # g
    <3>1. worker[h] \in Working /\ h # active
      BY <2>2, <1>0, <1>1, <1>11, <1>6, CardinalityViewers DEF TypeOK
    <3>2. PICK u \in Viewers : holds[u] = h /\ session[u] \in {"halting", "joining"}
      BY <3>1, <1>0 DEF NoOrphan
    <3>3. u # v
      BY <3>2, <1>1
    <3> QED  BY <3>2, <3>3, <1>0, <1>1 DEF TypeOK
  <2> QED  BY <2>1, <2>2
<1>14. GenerationsFresh'
  <2>1. nextGeneration' <= Cardinality(Arrived') + 1
    BY <1>1, <1>3, <1>4, <1>5
  <2>2. active' < nextGeneration'
    BY <1>0, <1>1, <1>5, <1>10, <1>11 DEF GenerationsFresh
  <2>3. ASSUME NEW u \in Viewers
        PROVE  holds'[u] < nextGeneration'
    <3>1. CASE u = v
      BY <3>1, <2>2, <1>0, <1>1 DEF TypeOK
    <3>2. CASE u # v
      <4>1. holds'[u] = holds[u] /\ holds[u] < nextGeneration /\ holds[u] \in Nat
        BY <3>2, <1>0, <1>1 DEF TypeOK, GenerationsFresh
      <4> QED  BY <4>1, <1>1, <1>5
    <3> QED  BY <3>1, <3>2
  <2>4. ASSUME NEW u \in Viewers, session'[u] \in {"halting", "joining"}
        PROVE  holds'[u] \in Generations /\ holds'[u] # active'
    <3>1. u # v /\ holds'[u] = holds[u] /\ session[u] \in {"halting", "joining"}
      BY <2>4, <1>0, <1>1 DEF TypeOK
    <3>2. holds[u] \in Generations /\ holds[u] # active /\ holds[u] < nextGeneration
      BY <3>1, <1>0 DEF GenerationsFresh
    <3> QED  BY <3>1, <3>2, <1>0, <1>1, <1>5, <1>10, <1>11
  <2>5. ASSUME NEW h \in Generations, h >= nextGeneration'
        PROVE  ~stop'[h] /\ worker'[h] = "none"
    <3>1. h >= nextGeneration /\ h # g
      BY <2>2, <2>5, <1>0, <1>1, <1>5, <1>6
    <3> QED  BY <3>1, <1>0, <1>1 DEF GenerationsFresh, TypeOK
  <2>6. NoWriterWithout'
    BY <1>0, <1>1, <1>6 DEF GenerationsFresh, NoWriterWithout, TypeOK
  <2> QED  BY <2>1, <2>2, <2>3, <2>4, <2>5, <2>6 DEF GenerationsFresh
<1> QED  BY <1>9, <1>12, <1>13, <1>14 DEF HubInv

\* A session moves on without giving anything back.
LEMMA SessionMoves ==
  ASSUME HubInv, NEW v \in Viewers, NEW to,
         session' = [session EXCEPT ![v] = to],
         \/ session[v] = "watching" /\ to = "stopping"
         \/ session[v] = "stopping" /\ to = "releasing"
         \/ session[v] = "halting" /\ to = "joining"
         \/ session[v] = "joining" /\ to = "gone" /\ worker[holds[v]] = "ended",
         TypeOK', NoWriterWithout', UNCHANGED <<hubVars, worker, holds>>,
         \A g \in Generations : stop'[g] # stop[g] => session[v] = "halting" /\ g = holds[v]
  PROVE  HubInv'
<1>0. TypeOK /\ ProducerShared /\ NoOrphan /\ GenerationsFresh /\ None \notin Generations
  BY CardinalityViewers DEF HubInv
<1>1. Subscribed' = Subscribed /\ Arrived' = Arrived
  BY <1>0 DEF Subscribed, Arrived, TypeOK
<1>2. ProducerShared'
  <2>1. ASSUME NEW u \in Subscribed
        PROVE  ~stop'[active]
    <3>1. active \in Generations /\ ~stop[active]
      BY <1>0 DEF ProducerShared, TypeOK
    <3>2. session[v] = "halting" => holds[v] # active
      BY <1>0 DEF GenerationsFresh
    <3> QED  BY <3>1, <3>2
  <2> QED  BY <1>0, <1>1, <2>1 DEF ProducerShared, hubVars
<1>3. NoOrphan'
  <2> SUFFICES ASSUME NEW g \in Generations, worker[g] \in Working, g # active
               PROVE  \E u \in Viewers : holds[u] = g /\ session'[u] \in {"halting", "joining"}
    BY DEF NoOrphan, hubVars
  <2>1. PICK u \in Viewers : holds[u] = g /\ session[u] \in {"halting", "joining"}
    BY <1>0 DEF NoOrphan
  <2>2. u = v => to = "joining"
    BY <2>1 DEF Working
  <2> QED  BY <2>1, <2>2, <1>0 DEF TypeOK
<1>4. GenerationsFresh'
  <2>1. ASSUME NEW u \in Viewers, session'[u] \in {"halting", "joining"}
        PROVE  holds[u] \in Generations /\ holds[u] # active
    BY <2>1, <1>0 DEF GenerationsFresh, TypeOK
  <2>2. ASSUME NEW g \in Generations, g >= nextGeneration
        PROVE  ~stop'[g] /\ worker[g] = "none"
    <3>1. holds[v] < nextGeneration /\ nextGeneration \in Nat /\ g \in Nat
      BY <1>0, CardinalityViewers DEF GenerationsFresh, TypeOK, Generations
    <3>2. holds[v] \in Nat
      <4>1. holds[v] \in Generations \cup {None}
        BY <1>0 DEF TypeOK
      <4>2. None \in Nat /\ Generations \subseteq Nat
        BY CardinalityViewers DEF None
      <4> QED  BY <4>1, <4>2
    <3>3. g # holds[v]
      BY <3>1, <3>2, <2>2
    <3> QED  BY <3>3, <2>2, <1>0 DEF GenerationsFresh, TypeOK
  <2> QED  BY <1>0, <1>1, <2>1, <2>2 DEF GenerationsFresh, hubVars
<1> QED  BY <1>2, <1>3, <1>4 DEF HubInv

LEMMA ReleaseKeeps ==
  ASSUME HubInv, NEW v \in Viewers, Release(v)
  PROVE  HubInv'
<1>0. /\ TypeOK /\ ProducerShared /\ NoOrphan /\ GenerationsFresh
      /\ None \notin Generations /\ Cardinality(Viewers) \in Nat
  BY CardinalityViewers DEF HubInv
<1>1. /\ session[v] = "releasing" /\ v \in Subscribed
      /\ holds[v] = active /\ active \in Generations /\ ~stop[active]
  BY <1>0 DEF Release, Subscribed, ProducerShared, TypeOK
<1>2. /\ subscribers' = subscribers - 1
      /\ active' = IF subscribers = 1 THEN None ELSE active
      /\ session' = [session EXCEPT ![v] = IF subscribers = 1 THEN "halting" ELSE "gone"]
      /\ UNCHANGED <<nextGeneration, workerVars, holds, writer, unseen, pending, startup, told>>
  BY <1>1 DEF Release
<1>3. Subscribed' = Subscribed \ {v} /\ Arrived' = Arrived
  BY <1>0, <1>1, <1>2 DEF Subscribed, Arrived, TypeOK
<1>4. /\ subscribers = Cardinality(Subscribed)
      /\ subscribers' = Cardinality(Subscribed')
      /\ subscribers' \in Nat /\ subscribers' <= Cardinality(Viewers)
      /\ subscribers' = 0 <=> Subscribed' = {}
  <2>1. Subscribed \in SUBSET Viewers /\ Subscribed' \in SUBSET Viewers
    BY DEF Subscribed
  <2>2. IsFiniteSet(Subscribed) /\ subscribers = Cardinality(Subscribed)
    BY <1>0, <2>1, SomeViewers DEF ProducerShared
  <2>3. Cardinality(Subscribed') = Cardinality(Subscribed) - 1
    BY <1>1, <1>3, <2>2, FS_RemoveElement
  <2>4. /\ Cardinality(Subscribed') \in Nat
        /\ Cardinality(Subscribed') <= Cardinality(Viewers)
        /\ Cardinality(Subscribed') = 0 <=> Subscribed' = {}
    BY <2>1, SomeViewers
  <2> QED  BY <1>2, <2>2, <2>3, <2>4
<1>5. subscribers = 1 <=> Subscribed' = {}
  BY <1>0, <1>2, <1>4 DEF TypeOK
<1>6. TypeOK'
  <2>1. subscribers' \in 0..Cardinality(Viewers)
    BY <1>0, <1>4
  <2>2. active' \in Generations \cup {None}
    BY <1>1, <1>2
  <2>3. session' \in [Viewers -> {"new", "watching", "stopping", "releasing", "halting",
                                  "joining", "gone"}]
    BY <1>0, <1>2 DEF TypeOK
  <2> QED  BY <1>0, <1>2, <2>1, <2>2, <2>3 DEF TypeOK, workerVars
<1>7. ProducerShared'
  <2>1. active' = None <=> Subscribed' = {}
    BY <1>0, <1>1, <1>2, <1>5
  <2>2. ASSUME NEW u \in Subscribed'
        PROVE  holds'[u] = active' /\ ~stop'[active']
    <3>1. u \in Subscribed /\ active' = active
      BY <1>1, <1>2, <1>3, <1>5
    <3> QED  BY <3>1, <1>0, <1>2 DEF ProducerShared, workerVars
  <2> QED  BY <1>4, <2>1, <2>2 DEF ProducerShared
<1>8. NoOrphan'
  <2> SUFFICES ASSUME NEW g \in Generations, worker[g] \in Working, g # active'
               PROVE  \E u \in Viewers : holds[u] = g /\ session'[u] \in {"halting", "joining"}
    BY <1>2 DEF NoOrphan, workerVars
  <2>1. CASE g = active
    <3>1. session'[v] = "halting" /\ holds[v] = g
      BY <2>1, <1>0, <1>1, <1>2 DEF TypeOK
    <3> QED  BY <3>1
  <2>2. CASE g # active
    <3>1. PICK u \in Viewers : holds[u] = g /\ session[u] \in {"halting", "joining"}
      BY <2>2, <1>0 DEF NoOrphan
    <3>2. u # v
      BY <3>1, <1>1
    <3> QED  BY <3>1, <3>2, <1>0, <1>2 DEF TypeOK
  <2> QED  BY <2>1, <2>2
<1>9. GenerationsFresh'
  <2>1. ASSUME NEW u \in Viewers, session'[u] \in {"halting", "joining"}
        PROVE  holds[u] \in Generations /\ holds[u] # active'
    <3>1. CASE u = v
      <4>1. active' = None
        BY <2>1, <3>1, <1>0, <1>2 DEF TypeOK
      <4> QED  BY <4>1, <3>1, <1>0, <1>1
    <3>2. CASE u # v
      <4>1. holds[u] \in Generations /\ holds[u] # active
        BY <2>1, <3>2, <1>0, <1>2 DEF GenerationsFresh, TypeOK
      <4> QED  BY <4>1, <1>0, <1>2
    <3> QED  BY <3>1, <3>2
  <2>2. active' # None => active' < nextGeneration
    BY <1>0, <1>2 DEF GenerationsFresh
  <2>3. NoWriterWithout'
    BY <1>0, <1>2 DEF GenerationsFresh, NoWriterWithout
  <2> QED  BY <1>0, <1>2, <1>3, <2>1, <2>2, <2>3 DEF GenerationsFresh, workerVars
<1> QED  BY <1>6, <1>7, <1>8, <1>9 DEF HubInv

LEMMA SessionKeeps ==
  ASSUME HubInv, NEW v \in Viewers, Session(v)
  PROVE  HubInv'
<1>0. TypeOK /\ NoWriterWithout
  BY DEF HubInv, GenerationsFresh
<1>1. CASE EndSession(v)
  <2>1. UNCHANGED <<hubVars, workerVars, holds, writer, unseen, pending, startup, told>>
        /\ session[v] = "watching" /\ session' = [session EXCEPT ![v] = "stopping"]
    BY <1>1 DEF EndSession
  <2>2. TypeOK' /\ NoWriterWithout'
    BY <1>0, <2>1 DEF TypeOK, hubVars, workerVars, NoWriterWithout
  <2>3. UNCHANGED <<hubVars, worker, holds, stop>>
    BY <2>1 DEF workerVars
  <2> QED  BY <2>1, <2>2, <2>3, SessionMoves
<1>2. CASE StopWriter(v)
  <2>1. /\ session[v] = "stopping" /\ session' = [session EXCEPT ![v] = "releasing"]
        /\ writer' = [writer EXCEPT ![v] = "ended"]
        /\ unseen' = [unseen EXCEPT ![v] = FALSE]
        /\ pending' = [pending EXCEPT ![v] = "none"]
        /\ startup' = [startup EXCEPT ![v] = 2]
        /\ told' = [told EXCEPT ![v] = FALSE]
        /\ UNCHANGED <<hubVars, workerVars, holds>>
    BY <1>2 DEF StopWriter
  <2>2. TypeOK'
    BY <1>0, <2>1 DEF TypeOK, hubVars, workerVars, Event
  <2>3. holds[v] # None
    BY <2>1, CardinalityViewers DEF HubInv, ProducerShared, Subscribed
  <2>4. NoWriterWithout'
    BY <1>0, <2>1, <2>3 DEF NoWriterWithout, TypeOK
  <2>5. UNCHANGED <<hubVars, worker, holds, stop>>
    BY <2>1 DEF workerVars
  <2> QED  BY <2>1, <2>2, <2>4, <2>5, SessionMoves
<1>3. CASE Halt(v)
  <2>1. /\ session[v] = "halting" /\ session' = [session EXCEPT ![v] = "joining"]
        /\ stop' = [stop EXCEPT ![holds[v]] = TRUE]
        /\ UNCHANGED <<hubVars, worker, encoding, encoder, force, frame, changes>>
        /\ UNCHANGED <<holds, writer, unseen, pending, startup, told>>
    BY <1>3 DEF Halt
  <2>2. TypeOK' /\ NoWriterWithout'
    BY <1>0, <2>1 DEF TypeOK, hubVars, NoWriterWithout
  <2>3. \A g \in Generations : stop'[g] # stop[g] => g = holds[v]
    BY <1>0, <2>1 DEF TypeOK
  <2> QED  BY <2>1, <2>2, <2>3, SessionMoves
<1>4. CASE Join(v)
  <2>1. /\ session[v] = "joining" /\ session' = [session EXCEPT ![v] = "gone"]
        /\ worker[holds[v]] = "ended"
        /\ encoder' = [encoder EXCEPT ![holds[v]] = "new"]
        /\ force' = [force EXCEPT ![holds[v]] = FALSE]
        /\ frame' = [frame EXCEPT ![holds[v]] = "none"]
        /\ UNCHANGED <<hubVars, worker, encoding, stop, changes>>
        /\ UNCHANGED <<holds, writer, unseen, pending, startup, told>>
    BY <1>4 DEF Join
  <2>2. TypeOK' /\ NoWriterWithout'
    BY <1>0, <2>1 DEF TypeOK, hubVars, NoWriterWithout, Event
  <2> QED  BY <2>1, <2>2, SessionMoves
<1> QED  BY <1>1, <1>2, <1>3, <1>4, SubscribeKeeps, ReleaseKeeps DEF Session

-----------------------------------------------------------------------------
LEMMA StartsHubInv ==
  ASSUME Init
  PROVE  HubInv
<1>0. Cardinality(Viewers) \in Nat /\ None = 0 /\ Generations = 1..Cardinality(Viewers)
  BY CardinalityViewers DEF None, Generations
<1>1. Subscribed = {} /\ Arrived = {} /\ Cardinality({}) = 0
  BY FS_EmptySet DEF Init, Subscribed, Arrived
<1>2. TypeOK
  BY <1>0, HubAssumption DEF Init, TypeOK, Event
<1>3. ProducerShared /\ NoOrphan /\ GenerationsFresh
  BY <1>0, <1>1 DEF Init, ProducerShared, NoOrphan, GenerationsFresh, NoWriterWithout, Working
<1> QED  BY <1>2, <1>3 DEF HubInv

LEMMA KeepsHubInv ==
  ASSUME HubInv, [Next]_vars
  PROVE  HubInv'
<1>1. CASE UNCHANGED vars
  BY <1>1 DEF vars, hubVars, workerVars, viewerVars, HubInv, TypeOK, ProducerShared, Subscribed,
     NoOrphan, GenerationsFresh, Arrived, NoWriterWithout
<1>2. CASE Next
  BY <1>2, ProducerKeeps, SessionKeeps, WriterKeeps, RequestKeeps, HubAssumption DEF Next
<1> QED  BY <1>1, <1>2

\* The hub, its producers and its viewers have their types; in particular no
\* more generations are started than there are viewers (video.rs:362-381).
THEOREM TypeCorrect == Spec => []TypeOK
<1>1. HubInv => TypeOK
  BY DEF HubInv
<1> QED  BY <1>1, StartsHubInv, KeepsHubInv, PTL DEF Spec

\* The producer in the map counts its viewers, lives as long as they do, and
\* is neither stopped nor replaced under them (video.rs:326-408).
THEOREM ViewersShareOneProducer == Spec => []ProducerShared
<1>1. HubInv => ProducerShared
  BY DEF HubInv
<1> QED  BY <1>1, StartsHubInv, KeepsHubInv, PTL DEF Spec

\* A thread that runs is in the map or about to be stopped (video.rs:390-408).
THEOREM NoThreadIsOrphaned == Spec => []NoOrphan
<1>1. HubInv => NoOrphan
  BY DEF HubInv
<1> QED  BY <1>1, StartsHubInv, KeepsHubInv, PTL DEF Spec

=============================================================================
