---------------------------- MODULE CatalogProofs ----------------------------
(***************************************************************************)
(* Theorems of the suite about what the catalog stores: the rows and files *)
(* of projects, deployments and share links (Catalog), and the worktrees   *)
(* that reconciliation keeps (WorktreeDiscovery), for every number of      *)
(* requests, projects, names, contents and worktrees.                      *)
(***************************************************************************)
EXTENDS MCServer, TLAPS

-----------------------------------------------------------------------------
(***************************************************************************)
(* The rows and files of the store (Catalog)                               *)
(***************************************************************************)

LEMMA IdleRequest ==
  Store!Idle \in Store!Request /\ Store!Idle.stage = "idle" /\ Store!Idle.old = {} /\ Store!Fits(Store!Idle)
<1>1. (CHOOSE k \in Store!Keys : TRUE) \in Store!Keys
  BY SuiteAssumptions DEF Store!CatalogAssumption
<1>2. QED
  BY <1>1 DEF Store!Idle, Store!Request, Store!Ops, Store!Stages, Store!Targets,
     Store!Fits

LEMMA StoreInit == Store!Init => Store!StoreInv
<1> SUFFICES ASSUME Store!Init PROVE Store!StoreInv
  OBVIOUS
<1>1. /\ \A k \in Store!Keys : s2[k] = Absent
      /\ \A t \in Tokens : s3[t] = Absent
      /\ \A w \in Writers : s5[w] = Store!Idle
      /\ s4 = {}
  BY DEF Store!Init
<1>2. Store!TablesOK /\ Store!FilesOK
  BY DEF Store!Init, Store!TablesOK, Store!FilesOK
<1>3. Store!RequestsOK
  <2>1. s6 = 0 /\ 0 \in 0..MaxRequests
    BY SuiteAssumptions DEF Store!CatalogAssumption, Store!Init
  <2>2. s5 \in [Writers -> Store!Request]
    BY IdleRequest DEF Store!Init
  <2>3. s7 \in BOOLEAN
    BY Zenon DEF Store!Init
  <2>4. QED
    BY <2>1, <2>2, <2>3 DEF Store!RequestsOK
<1>4. Store!Referenced = {} /\ Store!Busy = {}
  BY <1>1, IdleRequest DEF Store!Referenced, Store!ContentsOf, Store!Busy
<1>5. Store!InTurn
  BY <1>1, <1>4, IdleRequest DEF Store!InTurn
<1>6. QED
  BY <1>1, <1>2, <1>3, <1>4, <1>5 DEF Store!StoreInv, Store!TypeOK,
     Store!ReferencesHold, Store!SerialPagesReadable,
     Store!SerialStoreClean

\* The step of a request: what has to be shown is what the tables become and,
\* while requests run one after another, what its record then says of them.
LEMMA RequestSteps ==
  ASSUME Store!StoreInv, NEW w \in Writers, NEW v \in Store!Request, s5[w].stage # "idle",
         s5' = [s5 EXCEPT ![w] = v], UNCHANGED <<s6, s7>>,
         Store!TablesOK', Store!FilesOK', Store!ReferencesHold', Store!Fits(v),
         ~s7 => /\ Store!Referenced' \subseteq s4'
                /\ IF v.stage = "idle" THEN s4' \subseteq Store!Referenced' \cup s8' ELSE Store!Alone(v)'
  PROVE  Store!StoreInv'
<1>1. Store!RequestsOK /\ Store!InTurn
  BY DEF Store!StoreInv, Store!TypeOK
<1>2. s5'[w] = v /\ \A u \in Writers \ {w} : s5'[u] = s5[u]
  BY <1>1 DEF Store!RequestsOK
<1>3. Store!RequestsOK'
  BY <1>1 DEF Store!RequestsOK
<1>4. ASSUME ~s7 PROVE \A u \in Writers \ {w} : s5[u].stage = "idle"
  BY <1>1, <1>4 DEF Store!InTurn, Store!Busy
<1>5. \A u \in Writers : Store!Fits(s5'[u])
  BY <1>1, <1>2 DEF Store!InTurn
<1>6. ASSUME ~s7
      PROVE  Store!Busy' = IF v.stage = "idle" THEN {} ELSE {w}
  BY <1>2, <1>4, <1>6 DEF Store!Busy
<1>7. Store!InTurn'
  <2>1. ASSUME ~s7, NEW u \in Store!Busy' PROVE u = w /\ v.stage # "idle"
    BY <1>6, <2>1
  <2>2. ASSUME ~s7, NEW u \in Store!Busy' PROVE Store!Alone(s5[u])'
    <3>1. Store!Alone(v)' /\ s5'[u] = v
      BY <1>2, <2>1, <2>2
    <3>2. QED
      BY ONLY <3>1 DEF Store!Alone, Store!Left, Store!Scope
  <2>3. \A u \in Writers : Store!Fits(s5[u])'
    BY <1>5 DEF Store!Fits
  <2>4. QED
    BY <2>1, <2>2, <2>3 DEF Store!InTurn
<1>8. Store!SerialPagesReadable'
  BY DEF Store!SerialPagesReadable
<1>9. Store!SerialStoreClean'
  BY <1>6 DEF Store!SerialStoreClean
<1>10. QED
  BY <1>3, <1>7, <1>8, <1>9 DEF Store!StoreInv, Store!TypeOK

\* What a request in flight knows when it is alone.
LEMMA RequestKnows ==
  ASSUME Store!StoreInv, NEW w \in Writers, s5[w].stage # "idle"
  PROVE  /\ Store!TablesOK /\ Store!FilesOK /\ Store!ReferencesHold /\ s5[w] \in Store!Request /\ Store!Fits(s5[w])
         /\ s5 = [s5 EXCEPT ![w] = s5[w]]
         /\ ~s7 => Store!Referenced \subseteq s4 /\ Store!Alone(s5[w])
BY DEF Store!StoreInv, Store!TypeOK, Store!RequestsOK, Store!InTurn, Store!Busy,
   Store!SerialPagesReadable

\* A request that goes on is as it was but for its stage.
LEMMA RequestEnters ==
  ASSUME Store!RequestsOK, NEW w \in Writers, NEW stage \in Store!Stages, Store!Enter(w, stage)
  PROVE  \E v \in Store!Request : /\ s5' = [s5 EXCEPT ![w] = v]
                              /\ v.stage = stage /\ v.op = s5[w].op /\ v.key = s5[w].key
                              /\ v.content = s5[w].content /\ v.old = s5[w].old
<1> DEFINE v == [s5[w] EXCEPT !.stage = stage]
<1>1. s5[w] \in Store!Request
  BY DEF Store!RequestsOK
<1>2. /\ v \in Store!Request /\ v.stage = stage /\ v.op = s5[w].op /\ v.key = s5[w].key
      /\ v.content = s5[w].content /\ v.old = s5[w].old
  BY <1>1 DEF Store!Request
<1>3. s5' = [s5 EXCEPT ![w] = v]
  BY DEF Store!Enter, Store!RequestsOK
<1>4. QED
  BY <1>2, <1>3

\* A request that ends here leaves nothing that is not told.
LEMMA RequestEnds ==
  ASSUME Store!StoreInv, NEW w \in Writers, s5[w].stage # "idle", Store!Finish(w), UNCHANGED <<s6, s7>>,
         Store!TablesOK', Store!FilesOK', Store!ReferencesHold',
         ~s7 => Store!Referenced' \subseteq s4' /\ s4' \subseteq Store!Referenced' \cup s8'
  PROVE  Store!StoreInv'
<1>1. s5' = [s5 EXCEPT ![w] = Store!Idle]
  BY DEF Store!Finish
<1>2. QED
  BY <1>1, IdleRequest, RequestSteps

\* The rows of some keys are deleted.
LEMMA CascadeRows ==
  ASSUME Store!TablesOK, NEW gone \in SUBSET Store!Keys, Store!Cascade(gone)
  PROVE  /\ \A k \in Store!Keys : s2'[k] = IF k \in gone THEN Absent ELSE s2[k]
         /\ \A t \in Tokens : s3'[t] = IF s3[t] \in gone THEN Absent ELSE s3[t]
         /\ Store!Referenced' \subseteq Store!Referenced
         /\ Store!Referenced \subseteq Store!Referenced' \cup Store!ContentsOf(gone)
         /\ \A keys \in SUBSET Store!Keys : Store!ContentsOf(keys)' \subseteq Store!ContentsOf(keys)
<1>1. /\ \A k \in Store!Keys : s2'[k] = IF k \in gone THEN Absent ELSE s2[k]
      /\ \A t \in Tokens : s3'[t] = IF s3[t] \in gone THEN Absent ELSE s3[t]
  BY DEF Store!Cascade
<1>2. Store!Referenced \subseteq Store!Referenced' \cup Store!ContentsOf(gone)
  BY <1>1 DEF Store!Referenced, Store!ContentsOf
<1>3. ASSUME NEW keys \in SUBSET Store!Keys PROVE Store!ContentsOf(keys)' \subseteq Store!ContentsOf(keys)
  BY <1>1 DEF Store!ContentsOf
<1>4. Store!Referenced' \subseteq Store!Referenced
  BY <1>1 DEF Store!Referenced, Store!ContentsOf
<1>5. QED
  BY <1>1, <1>2, <1>3, <1>4

LEMMA CascadeTables ==
  ASSUME Store!TablesOK, Store!ReferencesHold, NEW gone \in SUBSET Store!Keys, Store!Cascade(gone),
         s1' \in [Projects -> {"absent", "enabled"}],
         \A k \in Store!Keys \ gone : s1'[k[1]] = s1[k[1]]
  PROVE  Store!TablesOK' /\ Store!ReferencesHold'
<1>1. /\ \A k \in Store!Keys : s2'[k] = IF k \in gone THEN Absent ELSE s2[k]
      /\ \A t \in Tokens : s3'[t] = IF s3[t] \in gone THEN Absent ELSE s3[t]
  BY DEF Store!Cascade
<1>2. Store!TablesOK'
  BY DEF Store!TablesOK, Store!Cascade
<1>3. ASSUME NEW t \in Tokens, s3'[t] # Absent PROVE s2'[s3'[t]] # Absent
  BY <1>1, <1>3 DEF Store!TablesOK, Store!ReferencesHold
<1>4. ASSUME NEW k \in Store!Keys, s2'[k] # Absent PROVE s1'[k[1]] # "absent"
  BY <1>1, <1>4 DEF Store!ReferencesHold
<1>5. QED
  BY <1>2, <1>3, <1>4 DEF Store!ReferencesHold

\* Looking and reading change no row and no file.
LEMMA RequestReads ==
  ASSUME Store!StoreInv, NEW w \in Writers, Store!Check(w) \/ Store!ReadOld(w) \/ Store!CountReferences(w)
  PROVE  Store!StoreInv'
<1>1. UNCHANGED <<s1, s2, s3, s4, s6, s7, s8>> /\ s5[w].stage # "idle"
  BY DEF Store!Check, Store!ReadOld, Store!CountReferences
<1>2. PICK r \in Store!Request : r = s5[w]
  BY <1>1, RequestKnows
<1>3. /\ Store!RequestsOK /\ Store!Fits(r)
      /\ ~s7 => Store!Referenced \subseteq s4 /\ Store!Alone(r)
  BY <1>1, <1>2, RequestKnows DEF Store!StoreInv, Store!TypeOK
<1>4. Store!TablesOK' /\ Store!FilesOK' /\ Store!ReferencesHold' /\ (~s7 => Store!Referenced' \subseteq s4')
  BY <1>1, <1>3 DEF Store!StoreInv, Store!TypeOK, Store!TablesOK, Store!FilesOK,
     Store!ReferencesHold,
     Store!Referenced, Store!ContentsOf
<1>5. Store!Referenced' = Store!Referenced /\ \A keys : Store!ContentsOf(keys)' = Store!ContentsOf(keys)
  BY <1>1 DEF Store!Referenced, Store!ContentsOf
<1>6. ASSUME Store!Finish(w), Store!Left(r) = {}
      PROVE  Store!StoreInv'
  <2>1. ~s7 => s4' \subseteq Store!Referenced' \cup s8'
    BY <1>1, <1>3, <1>5, <1>6 DEF Store!Alone
  <2>2. QED
    BY <1>1, <1>4, <1>6, <2>1, RequestEnds
<1>7. ASSUME NEW v \in Store!Request, s5' = [s5 EXCEPT ![w] = v], v.stage # "idle", Store!Fits(v),
             ~s7 /\ Store!Alone(r) => Store!Alone(v)
      PROVE  Store!StoreInv'
  <2>1. ~s7 => Store!Alone(v)'
    BY <1>1, <1>3, <1>5, <1>7 DEF Store!Alone, Store!Left
  <2>2. QED
    BY <1>1, <1>4, <1>7, <2>1, RequestSteps
<1>8. CASE Store!Check(w)
  <2>1. r.stage = "check" /\ Store!Left(r) = {}
    BY <1>2, <1>8 DEF Store!Check, Store!Left
  <2>2. CASE Store!Finish(w)
    BY <1>6, <2>1, <2>2
  <2>3. ASSUME NEW stage \in {"commit", "old"}, Store!Enter(w, stage), stage = "commit" <=> r.op = "share"
        PROVE  Store!StoreInv'
    <3>1. PICK v \in Store!Request : /\ s5' = [s5 EXCEPT ![w] = v]
                                 /\ v.stage = stage /\ v.op = r.op /\ v.key = r.key
                                 /\ v.content = r.content /\ v.old = r.old
      BY <1>2, <1>3, <2>3, RequestEnters DEF Store!Stages
    <3>2. Store!Fits(v)
      BY <1>3, <2>1, <2>3, <3>1 DEF Store!Fits
    <3>3. Store!Alone(r) => Store!Alone(v)
      BY <2>1, <2>3, <3>1 DEF Store!Alone, Store!Left
    <3>4. QED
      BY <1>7, <2>3, <3>1, <3>2, <3>3
  <2>4. QED
    BY <1>2, <1>8, <2>2, <2>3 DEF Store!Check
<1>9. CASE Store!ReadOld(w)
  <2> DEFINE v0 == [r EXCEPT !.old = Store!ContentsOf(Store!Scope(r)),
                             !.stage = IF r.op = "page" THEN "write" ELSE "commit"]
  <2>1. r.stage = "old" /\ s5' = [s5 EXCEPT ![w] = v0]
    BY <1>2, <1>3, <1>9 DEF Store!ReadOld, Store!RequestsOK
  <2>2. Store!Scope(r) \subseteq Store!Keys
    BY DEF Store!Scope, Store!KeysOf, Store!Request
  <2>3. Store!ContentsOf(Store!Scope(r)) \subseteq PageContents
    BY <2>2 DEF Store!ContentsOf, Store!StoreInv, Store!TypeOK, Store!TablesOK,
       Store!Targets
  <2>4. PICK v \in Store!Request : v = v0
    BY <2>3 DEF Store!Request, Store!Stages
  <2>5. /\ v.old = Store!ContentsOf(Store!Scope(r)) /\ v.op = r.op /\ v.key = r.key
        /\ v.content = r.content /\ v.stage = IF r.op = "page" THEN "write" ELSE "commit"
    BY <2>4 DEF Store!Request
  <2>6. Store!Scope(v) = Store!Scope(r)
    BY <2>5 DEF Store!Scope
  <2>7. Store!Fits(v)
    BY <1>3, <2>1, <2>5 DEF Store!Fits
  <2>8. Store!Alone(r) => Store!Alone(v)
    BY <2>1, <2>5, <2>6 DEF Store!Alone, Store!Left
  <2>9. v.stage # "idle"
    BY ONLY <2>5
  <2>10. s5' = [s5 EXCEPT ![w] = v]
    <3> HIDE DEF v0
    <3>1. QED
      BY ONLY <2>1, <2>4
  <2>11. QED
    BY <1>7, <2>7, <2>8, <2>9, <2>10
<1>10. CASE Store!CountReferences(w)
  <2>1. r.stage = "prune"
    BY <1>2, <1>10 DEF Store!CountReferences
  <2>2. CASE r.old = {}
    <3>1. Store!Finish(w) /\ Store!Left(r) = {}
      BY <1>2, <1>10, <2>1, <2>2 DEF Store!CountReferences, Store!Left
    <3>2. QED
      BY <1>6, <3>1
  <2>3. CASE r.old # {}
    <3>1. PICK path \in r.old :
            s5' = [s5 EXCEPT ![w] = IF path \in Store!Referenced
                                      THEN [r EXCEPT !.old = r.old \ {path}]
                                      ELSE [r EXCEPT !.content = path, !.stage = "remove"]]
      <4> DEFINE path == CHOOSE c \in s5[w].old : TRUE
      <4>1. path \in r.old
        BY <1>2, <2>3
      <4>2. s5' = [s5 EXCEPT ![w] = IF path \in Store!Referenced
                                      THEN [s5[w] EXCEPT !.old = s5[w].old \ {path}]
                                      ELSE [s5[w] EXCEPT !.content = path, !.stage = "remove"]]
        <5>1. s5[w].old # {} /\ w \in DOMAIN s5
          BY <1>2, <1>3, <2>3 DEF Store!RequestsOK
        <5>2. QED
          BY ONLY <1>10, <5>1 DEF Store!CountReferences
      <4> HIDE DEF path
      <4>3. QED
        BY <1>2, <4>1, <4>2
    <3>2. path \in PageContents /\ path # SiteTarget
      BY SuiteAssumptions DEF Store!Request, Store!CatalogAssumption
    <3>3. CASE path \in Store!Referenced
      <4>1. PICK v \in Store!Request : v = [r EXCEPT !.old = r.old \ {path}]
        BY DEF Store!Request
      <4>2. /\ v.stage = "prune" /\ v.op = r.op /\ v.old = r.old \ {path}
        BY <2>1, <4>1 DEF Store!Request
      <4>3. Store!Fits(v)
        BY <1>3, <2>1, <4>2 DEF Store!Fits
      <4>4. Store!Alone(r) => Store!Alone(v)
        BY <2>1, <3>3, <4>2 DEF Store!Alone, Store!Left
      <4>5. QED
        BY <1>7, <3>1, <3>3, <4>1, <4>2, <4>3, <4>4
    <3>4. CASE path \notin Store!Referenced
      <4>1. PICK v \in Store!Request : v = [r EXCEPT !.content = path, !.stage = "remove"]
        BY <3>2 DEF Store!Request, Store!Targets, Store!Stages
      <4>2. /\ v.stage = "remove" /\ v.op = r.op /\ v.old = r.old /\ v.content = path
        BY <4>1 DEF Store!Request
      <4>3. Store!Fits(v)
        BY <1>3, <2>1, <3>2, <4>2 DEF Store!Fits
      <4>4. Store!Alone(r) => Store!Alone(v)
        BY <2>1, <3>4, <4>2 DEF Store!Alone, Store!Left
      <4>5. QED
        BY <1>7, <3>1, <3>4, <4>1, <4>2, <4>3, <4>4
    <3>5. QED
      BY <3>3, <3>4
  <2>4. QED
    BY <2>2, <2>3
<1>11. QED
  BY <1>8, <1>9, <1>10

\* Files are written and removed.
LEMMA RequestFiles ==
  ASSUME Store!StoreInv, NEW w \in Writers, Store!WriteContentFile(w) \/ Store!RemoveFile(w) \/ Store!RemoveFails(w)
  PROVE  Store!StoreInv'
<1>1. UNCHANGED <<s1, s2, s3, s6, s7>> /\ s5[w].stage # "idle"
  BY DEF Store!WriteContentFile, Store!RemoveFile, Store!RemoveFails
<1>2. PICK r \in Store!Request : r = s5[w]
  BY <1>1, RequestKnows
<1>3. /\ Store!RequestsOK /\ Store!Fits(r) /\ Store!FilesOK
      /\ ~s7 => Store!Referenced \subseteq s4 /\ Store!Alone(r)
  BY <1>1, <1>2, RequestKnows DEF Store!StoreInv, Store!TypeOK
<1>4. Store!TablesOK' /\ Store!ReferencesHold'
  BY <1>1 DEF Store!StoreInv, Store!TypeOK, Store!TablesOK, Store!ReferencesHold
<1>5. Store!Referenced' = Store!Referenced /\ \A keys : Store!ContentsOf(keys)' = Store!ContentsOf(keys)
  BY <1>1 DEF Store!Referenced, Store!ContentsOf
<1>6. CASE Store!WriteContentFile(w)
  <2>1. r.stage = "write" /\ s4' = s4 \cup {r.content} /\ Store!Enter(w, "commit") /\ s8' = s8
    BY <1>2, <1>6 DEF Store!WriteContentFile
  <2>2. PICK v \in Store!Request : /\ s5' = [s5 EXCEPT ![w] = v]
                               /\ v.stage = "commit" /\ v.op = r.op /\ v.key = r.key
                               /\ v.content = r.content /\ v.old = r.old
    BY <1>2, <1>3, <2>1, RequestEnters DEF Store!Stages
  <2>3. r.op = "page" /\ r.content \in PageContents
    BY <1>3, <2>1 DEF Store!Fits, Store!Request, Store!Targets
  <2>4. Store!FilesOK'
    BY <1>3, <2>1, <2>3 DEF Store!FilesOK
  <2>5. Store!Fits(v)
    BY <1>3, <2>1, <2>2 DEF Store!Fits
  <2>6. Store!Scope(v) = Store!Scope(r)
    BY <2>2 DEF Store!Scope
  <2>7. ~s7 => Store!Referenced' \subseteq s4' /\ Store!Alone(v)'
    BY <1>3, <1>5, <2>1, <2>2, <2>3, <2>6 DEF Store!Alone, Store!Left
  <2>8. QED
    BY <1>1, <1>4, <2>2, <2>4, <2>5, <2>7, RequestSteps
<1>7. CASE Store!RemoveFile(w)
  <2>1. /\ r.stage = "remove" /\ s4' = s4 \ {r.content} /\ s8' = s8
        /\ s5' = [s5 EXCEPT ![w] = [r EXCEPT !.old = r.old \ {r.content}, !.stage = "prune"]]
    BY <1>2, <1>3, <1>7 DEF Store!RemoveFile, Store!RequestsOK
  <2>2. PICK v \in Store!Request : v = [r EXCEPT !.old = r.old \ {r.content}, !.stage = "prune"]
    BY DEF Store!Request, Store!Stages
  <2>3. v.stage = "prune" /\ v.op = r.op /\ v.old = r.old \ {r.content}
    BY <2>2 DEF Store!Request
  <2>4. Store!FilesOK' /\ Store!Fits(v)
    BY <1>3, <2>1, <2>3 DEF Store!FilesOK, Store!Fits
  <2>5. ~s7 => Store!Referenced' \subseteq s4' /\ Store!Alone(v)'
    BY <1>3, <1>5, <2>1, <2>3 DEF Store!Alone, Store!Left
  <2>6. QED
    BY <1>1, <1>4, <2>1, <2>2, <2>3, <2>4, <2>5, RequestSteps
<1>8. CASE Store!RemoveFails(w)
  <2>1. r.stage = "remove" /\ s4' = s4 /\ s8' = s8 \cup r.old /\ Store!Finish(w)
    BY <1>2, <1>8 DEF Store!RemoveFails
  <2>2. Store!FilesOK'
    BY <1>3, <2>1 DEF Store!FilesOK, Store!Request
  <2>3. ~s7 => Store!Referenced' \subseteq s4' /\ s4' \subseteq Store!Referenced' \cup s8'
    BY <1>3, <1>5, <2>1 DEF Store!Alone, Store!Left
  <2>4. QED
    BY <1>1, <1>4, <2>1, <2>2, <2>3, RequestEnds
<1>9. QED
  BY <1>6, <1>7, <1>8


\* What changes no request: rows go and are told, or nothing of theirs changes.
LEMMA RequestsStand ==
  ASSUME Store!StoreInv, UNCHANGED <<s4, s5, s6, s7>>, Store!TablesOK', Store!FilesOK', Store!ReferencesHold',
         Store!Referenced' \subseteq Store!Referenced, Store!Referenced \subseteq Store!Referenced' \cup s8',
         s8 \subseteq s8',
         \A keys \in SUBSET Store!Keys : Store!ContentsOf(keys)' \subseteq Store!ContentsOf(keys)
  PROVE  Store!StoreInv'
<1>1. Store!RequestsOK /\ Store!InTurn /\ Store!SerialPagesReadable /\ Store!SerialStoreClean
  BY DEF Store!StoreInv, Store!TypeOK
<1>2. Store!RequestsOK'
  BY <1>1 DEF Store!RequestsOK
<1>3. Store!Busy' = Store!Busy
  BY DEF Store!Busy
<1>4. Store!SerialPagesReadable' /\ Store!SerialStoreClean'
  BY <1>1, <1>3 DEF Store!SerialPagesReadable, Store!SerialStoreClean
<1>5. ASSUME NEW v \in Store!Request, Store!Alone(v) PROVE Store!Alone(v)'
  <2>1. Store!Scope(v) \in SUBSET Store!Keys
    BY DEF Store!Scope, Store!KeysOf, Store!Request
  <2>2. QED
    BY <1>5, <2>1 DEF Store!Alone
<1>6. ASSUME ~s7, NEW w \in Store!Busy PROVE Store!Alone(s5[w])'
  <2>1. PICK v \in Store!Request : v = s5[w]
    BY <1>1, <1>6 DEF Store!RequestsOK, Store!Busy
  <2>2. Store!Alone(v) /\ s5'[w] = v
    BY <1>1, <1>6, <2>1 DEF Store!InTurn
  <2>3. Store!Alone(v)'
    BY <1>5, <2>2
  <2>4. QED
    BY ONLY <2>2, <2>3 DEF Store!Alone, Store!Left, Store!Scope
<1>7. \A w \in Writers : Store!Fits(s5[w])'
  BY <1>1 DEF Store!InTurn, Store!Fits
<1>8. Store!InTurn'
  BY <1>1, <1>3, <1>6, <1>7 DEF Store!InTurn
<1>9. QED
  BY <1>2, <1>4, <1>8 DEF Store!StoreInv, Store!TypeOK

LEMMA RequestBegins ==
  ASSUME Store!StoreInv, NEW w \in Writers, NEW op \in Store!Ops, NEW key \in Store!Keys,
         NEW content \in Store!Targets, content = SiteTarget <=> op # "page",
         Store!Begin(w, op, key, content)
  PROVE  Store!StoreInv'
<1>1. /\ Store!RequestsOK /\ Store!InTurn /\ Store!SerialPagesReadable /\ Store!SerialStoreClean
      /\ UNCHANGED <<s1, s2, s3, s4, s8>> /\ s5[w].stage = "idle"
  BY DEF Store!StoreInv, Store!TypeOK, Store!Begin
<1>2. Store!TablesOK' /\ Store!FilesOK' /\ Store!ReferencesHold'
  BY <1>1 DEF Store!StoreInv, Store!TypeOK, Store!TablesOK, Store!FilesOK,
     Store!ReferencesHold
<1>3. Store!Referenced' = Store!Referenced
  BY <1>1 DEF Store!Referenced, Store!ContentsOf
<1>4. PICK v \in Store!Request : v = [op |-> op, stage |-> Store!FirstStage(op), key |-> key,
                                  content |-> content, old |-> {}]
  <2>1. Store!FirstStage(op) \in Store!Stages
    BY DEF Store!FirstStage, Store!Stages
  <2>2. QED
    BY <2>1 DEF Store!Request
<1>5. /\ v.op = op /\ v.content = content /\ v.old = {} /\ v.stage \in {"check", "old"}
      /\ s5' = [s5 EXCEPT ![w] = v]
  BY <1>4 DEF Store!Begin, Store!FirstStage
<1>6. s5'[w] = v /\ \A u \in Writers \ {w} : s5'[u] = s5[u]
  BY <1>1, <1>5 DEF Store!RequestsOK
<1>7. Store!RequestsOK'
  <2>1. s6' \in 0..MaxRequests
    BY <1>1, SuiteAssumptions DEF Store!CatalogAssumption, Store!RequestsOK, Store!Begin
  <2>2. s7' = (s7 \/ Store!Busy # {})
    BY DEF Store!Begin
  <2>3. s7' \in BOOLEAN
    BY ONLY <2>2, Zenon
  <2>4. QED
    BY <1>1, <1>5, <2>1, <2>3 DEF Store!RequestsOK
<1>8. ASSUME ~s7' PROVE ~s7 /\ Store!Busy = {} /\ Store!Busy' = {w}
  <2>1. ~s7 /\ Store!Busy = {}
    BY <1>8 DEF Store!Begin
  <2>2. QED
    BY <1>5, <1>6, <2>1 DEF Store!Busy
<1>9. Store!Fits(v)
  BY <1>5 DEF Store!Fits
<1>10. ASSUME ~s7' PROVE Store!Alone(v)' /\ s5'[w] = v
  BY <1>1, <1>3, <1>5, <1>6, <1>8, <1>10 DEF Store!Alone, Store!Left,
     Store!SerialStoreClean
<1>11. Store!InTurn'
  <2>1. ASSUME ~s7' PROVE Store!Alone(s5[w])'
    BY ONLY <1>10, <2>1 DEF Store!Alone, Store!Left, Store!Scope
  <2>2. ASSUME NEW u \in Writers PROVE Store!Fits(s5[u])'
    <3>1. Store!Fits(s5'[u])
      BY <1>1, <1>6, <1>9 DEF Store!InTurn
    <3>2. QED
      BY <3>1 DEF Store!Fits
  <2>3. QED
    BY <1>8, <2>1, <2>2 DEF Store!InTurn
<1>12. Store!SerialPagesReadable' /\ Store!SerialStoreClean'
  BY <1>1, <1>3, <1>8 DEF Store!SerialPagesReadable, Store!SerialStoreClean
<1>13. QED
  BY <1>2, <1>7, <1>11, <1>12 DEF Store!StoreInv, Store!TypeOK

\* The transaction of an upsert: the row's old content is among what is pruned.
LEMMA RequestInserts ==
  ASSUME Store!StoreInv, NEW w \in Writers, Store!InsertDeployment(w)
  PROVE  Store!StoreInv'
<1>1. UNCHANGED <<s1, s3, s4, s6, s7>> /\ s5[w].stage # "idle"
  BY DEF Store!InsertDeployment
<1>2. PICK r \in Store!Request : r = s5[w]
  BY <1>1, RequestKnows
<1>3. /\ Store!RequestsOK /\ Store!Fits(r) /\ Store!TablesOK /\ Store!FilesOK /\ Store!ReferencesHold
      /\ ~s7 => Store!Referenced \subseteq s4 /\ Store!Alone(r)
  BY <1>1, <1>2, RequestKnows DEF Store!StoreInv, Store!TypeOK
<1>4. /\ r.stage = "commit" /\ r.op \in {"page", "site", "create"}
      /\ r.key \in Store!Keys /\ r.content \in Store!Targets /\ Store!Scope(r) = {r.key}
  BY <1>2 DEF Store!InsertDeployment, Store!Request, Store!Scope
<1>5. CASE s1[r.key[1]] = "absent"
  <2>1. Store!Finish(w) /\ s2' = s2 /\ s8' = s8 \cup ({r.content} \ {SiteTarget})
    BY <1>2, <1>5 DEF Store!InsertDeployment
  <2>2. Store!TablesOK' /\ Store!FilesOK' /\ Store!ReferencesHold' /\ Store!Referenced' = Store!Referenced
    BY <1>1, <1>3, <1>4, <2>1 DEF Store!TablesOK, Store!FilesOK,
       Store!ReferencesHold, Store!Referenced,
       Store!ContentsOf, Store!Targets
  <2>3. ~s7 => Store!Referenced' \subseteq s4' /\ s4' \subseteq Store!Referenced' \cup s8'
    BY <1>1, <1>3, <1>4, <2>1, <2>2 DEF Store!Alone, Store!Left, Store!Fits
  <2>4. QED
    BY <1>1, <2>1, <2>2, <2>3, RequestEnds
<1>6. CASE s1[r.key[1]] # "absent"
  <2>1. s2' = [s2 EXCEPT ![r.key] = r.content] /\ Store!Enter(w, "prune") /\ s8' = s8
    BY <1>2, <1>6 DEF Store!InsertDeployment
  <2>2. PICK v \in Store!Request : /\ s5' = [s5 EXCEPT ![w] = v]
                               /\ v.stage = "prune" /\ v.op = r.op /\ v.key = r.key
                               /\ v.content = r.content /\ v.old = r.old
    BY <1>2, <1>3, <2>1, RequestEnters DEF Store!Stages
  <2>3. \A k \in Store!Keys : s2'[k] = IF k = r.key THEN r.content ELSE s2[k]
    BY <1>3, <1>4, <2>1 DEF Store!TablesOK
  <2>4. Store!TablesOK' /\ Store!FilesOK'
    BY <1>1, <1>3, <1>4, <2>1 DEF Store!TablesOK, Store!FilesOK
  <2>5. Store!ReferencesHold'
    <3>1. r.content # Absent
      BY <1>4, SuiteAssumptions DEF Store!CatalogAssumption
    <3>2. ASSUME NEW t \in Tokens, s3[t] # Absent PROVE s2'[s3[t]] # Absent
      BY <1>3, <2>3, <3>1, <3>2 DEF Store!TablesOK, Store!ReferencesHold
    <3>3. ASSUME NEW k \in Store!Keys, s2'[k] # Absent PROVE s1[k[1]] # "absent"
      BY <1>3, <1>6, <2>3, <3>3 DEF Store!ReferencesHold
    <3>4. QED
      BY <1>1, <3>2, <3>3 DEF Store!ReferencesHold
  <2>6. Store!Referenced' \subseteq Store!Referenced \cup ({r.content} \ {SiteTarget})
    BY <2>3 DEF Store!Referenced, Store!ContentsOf
  <2>7. Store!Referenced \subseteq Store!Referenced' \cup Store!ContentsOf(Store!Scope(r))
    BY <1>4, <2>3 DEF Store!Referenced, Store!ContentsOf
  <2>8. r.content # SiteTarget => r.content \in Store!Referenced'
    <3>1. r.content # Absent /\ s2'[r.key] = r.content
      BY <1>4, <2>3, SuiteAssumptions DEF Store!CatalogAssumption
    <3>2. QED
      BY <1>4, <3>1 DEF Store!Referenced, Store!ContentsOf
  <2>9. r.op = "page" <=> r.content # SiteTarget
    BY <1>3, <1>4 DEF Store!Fits
  <2>10. Store!Fits(v)
    BY <1>4, <2>2 DEF Store!Fits
  <2>11. ASSUME ~s7 PROVE Store!Referenced' \subseteq s4' /\ Store!Alone(v)'
    <3>1. /\ r.op = "page" => r.content \in s4
          /\ Store!ContentsOf(Store!Scope(r)) \subseteq r.old /\ Store!Referenced \subseteq s4
          /\ s4 \subseteq Store!Referenced \cup s8 \cup (IF r.op = "page" THEN {r.content} ELSE {})
      BY <1>3, <1>4, <2>11 DEF Store!Alone, Store!Left
    <3>2. Store!Referenced' \subseteq s4'
      BY ONLY <1>1, <2>6, <2>9, <3>1
    <3>3. s4' \subseteq Store!Referenced' \cup s8' \cup r.old
      BY ONLY <1>1, <2>1, <2>7, <2>8, <2>9, <3>1
    <3>4. QED
      BY <2>2, <3>2, <3>3 DEF Store!Alone, Store!Left
  <2>12. QED
    BY <1>1, <2>2, <2>4, <2>5, <2>10, <2>11, RequestSteps
<1>7. QED
  BY <1>5, <1>6

LEMMA RequestShares ==
  ASSUME Store!StoreInv, NEW w \in Writers, NEW token \in Tokens, Store!InsertShare(w, token)
  PROVE  Store!StoreInv'
<1>1. UNCHANGED <<s1, s2, s4, s6, s7, s8>> /\ s5[w].stage # "idle" /\ Store!Finish(w)
  BY DEF Store!InsertShare
<1>2. PICK r \in Store!Request : r = s5[w]
  BY <1>1, RequestKnows
<1>3. /\ Store!TablesOK /\ Store!FilesOK /\ Store!ReferencesHold
      /\ ~s7 => Store!Referenced \subseteq s4 /\ Store!Alone(r)
  BY <1>1, <1>2, RequestKnows
<1>4. /\ r.op = "share" /\ r.key \in Store!Keys
      /\ s3' = IF s2[r.key] # Absent THEN [s3 EXCEPT ![token] = r.key] ELSE s3
  BY <1>2 DEF Store!InsertShare, Store!Request
<1>5. \A t \in Tokens : s3'[t] = s3[t] \/ (s3'[t] = r.key /\ s2[r.key] # Absent)
  BY <1>3, <1>4 DEF Store!TablesOK
<1>6. Store!TablesOK' /\ Store!FilesOK' /\ Store!Referenced' = Store!Referenced
  BY <1>1, <1>3, <1>4 DEF Store!TablesOK, Store!FilesOK, Store!Referenced,
     Store!ContentsOf
<1>7. Store!ReferencesHold'
  BY <1>1, <1>3, <1>5 DEF Store!ReferencesHold
<1>8. ~s7 => Store!Referenced' \subseteq s4' /\ s4' \subseteq Store!Referenced' \cup s8'
  <2>1. Store!Left(r) = {}
    BY <1>2, <1>4 DEF Store!InsertShare, Store!Left
  <2>2. QED
    BY <1>1, <1>3, <1>6, <2>1 DEF Store!Alone
<1>9. QED
  BY <1>1, <1>6, <1>7, <1>8, RequestEnds

\* A transaction that deletes the rows a request read, and inserts sites at most.
LEMMA RequestDeletes ==
  ASSUME Store!StoreInv, NEW w \in Writers, UNCHANGED <<s4, s6, s7, s8>>,
         s5[w].stage = "commit", s5[w].op \notin {"page", "share"},
         Store!TablesOK', Store!ReferencesHold', Store!Referenced' \subseteq Store!Referenced,
         Store!Referenced \subseteq Store!Referenced' \cup Store!ContentsOf(Store!Scope(s5[w])),
         \/ Store!Enter(w, "prune")
         \/ Store!Finish(w) /\ Store!ContentsOf(Store!Scope(s5[w])) = {}
  PROVE  Store!StoreInv'
<1>1. PICK r \in Store!Request : r = s5[w]
  BY RequestKnows
<1>2. /\ Store!RequestsOK /\ Store!FilesOK
      /\ ~s7 => Store!Referenced \subseteq s4 /\ Store!Alone(r)
  BY <1>1, RequestKnows DEF Store!StoreInv, Store!TypeOK
<1>3. Store!FilesOK'
  BY <1>2 DEF Store!FilesOK
<1>4. ASSUME ~s7 PROVE /\ Store!ContentsOf(Store!Scope(r)) \subseteq r.old /\ Store!Referenced' \subseteq s4'
                       /\ s4 \subseteq Store!Referenced \cup s8
  BY <1>1, <1>2, <1>4 DEF Store!Alone, Store!Left
<1>5. CASE Store!Enter(w, "prune")
  <2>1. PICK v \in Store!Request : /\ s5' = [s5 EXCEPT ![w] = v]
                               /\ v.stage = "prune" /\ v.op = r.op /\ v.key = r.key
                               /\ v.content = r.content /\ v.old = r.old
    BY <1>1, <1>2, <1>5, RequestEnters DEF Store!Stages
  <2>2. Store!Fits(v)
    BY <1>1, <2>1 DEF Store!Fits
  <2>3. ASSUME ~s7 PROVE Store!Alone(v)'
    <3>1. s4' \subseteq Store!Referenced' \cup s8' \cup r.old
      BY <1>1, <1>4, <2>3
    <3>2. QED
      BY <2>1, <3>1 DEF Store!Alone, Store!Left
  <2>4. QED
    BY <1>3, <1>4, <2>1, <2>2, <2>3, RequestSteps
<1>6. CASE Store!Finish(w) /\ Store!ContentsOf(Store!Scope(s5[w])) = {}
  <2>1. ~s7 => s4' \subseteq Store!Referenced' \cup s8'
    BY <1>4, <1>6
  <2>2. QED
    BY <1>3, <1>4, <1>6, <2>1, RequestEnds
<1>7. QED
  BY <1>5, <1>6

LEMMA RequestDrops ==
  ASSUME Store!StoreInv, NEW w \in Writers, Store!RemoveDeployment(w) \/ Store!RemoveProject(w)
  PROVE  Store!StoreInv'
<1>1. UNCHANGED <<s4, s6, s7, s8>> /\ s5[w].stage = "commit"
  BY DEF Store!RemoveDeployment, Store!RemoveProject
<1>2. PICK r \in Store!Request : r = s5[w]
  BY <1>1, RequestKnows
<1>3. Store!TablesOK /\ Store!ReferencesHold
  BY DEF Store!StoreInv, Store!TypeOK
<1>4. r.key \in Store!Keys /\ r.key[1] \in Projects
  BY DEF Store!Request, Store!Keys
<1>5. CASE Store!RemoveDeployment(w)
  <2>1. r.op = "drop" /\ Store!Cascade({r.key}) /\ Store!Scope(r) = {r.key} /\ s1' = s1
    BY <1>2, <1>5 DEF Store!RemoveDeployment, Store!Scope
  <2>2. {r.key} \in SUBSET Store!Keys
    BY <1>4
  <2>3. Store!TablesOK' /\ Store!ReferencesHold'
    BY <1>3, <2>1, <2>2, CascadeTables DEF Store!TablesOK
  <2>4. /\ Store!Referenced' \subseteq Store!Referenced
        /\ Store!Referenced \subseteq Store!Referenced' \cup Store!ContentsOf({r.key})
    BY <1>3, <2>1, <2>2, CascadeRows
  <2>5. s2[r.key] = Absent => Store!ContentsOf({r.key}) = {}
    BY DEF Store!ContentsOf
  <2>6. Store!Enter(w, "prune") \/ (Store!Finish(w) /\ Store!ContentsOf({r.key}) = {})
    BY <1>2, <1>5, <2>5 DEF Store!RemoveDeployment
  <2>7. QED
    BY <1>1, <1>2, <2>1, <2>3, <2>4, <2>6, RequestDeletes
<1>6. CASE Store!RemoveProject(w)
  <2> DEFINE p == r.key[1]
  <2>1. /\ r.op = "drop_project" /\ Store!Cascade(Store!KeysOf(p)) /\ Store!Scope(r) = Store!KeysOf(p)
        /\ s1' = [s1 EXCEPT ![p] = "absent"]
    BY <1>2, <1>6 DEF Store!RemoveProject, Store!Scope
  <2>2. Store!KeysOf(p) \in SUBSET Store!Keys
    BY DEF Store!KeysOf
  <2>3. /\ s1' \in [Projects -> {"absent", "enabled"}]
        /\ \A k \in Store!Keys \ Store!KeysOf(p) : s1'[k[1]] = s1[k[1]]
    <3> HIDE DEF p
    <3>1. \A k \in Store!Keys : k[1] \in Projects
      BY DEF Store!Keys
    <3>2. QED
      BY <1>3, <2>1, <3>1 DEF Store!TablesOK, Store!KeysOf
  <2>4. Store!TablesOK' /\ Store!ReferencesHold'
    BY <1>3, <2>1, <2>2, <2>3, CascadeTables
  <2>5. /\ Store!Referenced' \subseteq Store!Referenced
        /\ Store!Referenced \subseteq Store!Referenced' \cup Store!ContentsOf(Store!KeysOf(p))
    BY <1>3, <2>1, <2>2, CascadeRows
  <2>6. s1[p] = "absent" => Store!ContentsOf(Store!KeysOf(p)) = {}
    BY <1>3 DEF Store!ContentsOf, Store!KeysOf, Store!ReferencesHold
  <2>7. Store!Enter(w, "prune") \/ (Store!Finish(w) /\ Store!ContentsOf(Store!KeysOf(p)) = {})
    BY <1>2, <1>6, <2>6 DEF Store!RemoveProject
  <2>8. QED
    BY <1>1, <1>2, <2>1, <2>4, <2>5, <2>7, RequestDeletes
<1>7. QED
  BY <1>5, <1>6

LEMMA RequestRewrites ==
  ASSUME Store!StoreInv, NEW w \in Writers, NEW listed \in SUBSET PageNames,
         Store!RewriteProject(w, listed)
  PROVE  Store!StoreInv'
<1>1. UNCHANGED <<s4, s6, s7, s8>> /\ s5[w].stage = "commit" /\ Store!Enter(w, "prune")
  BY DEF Store!RewriteProject
<1>2. PICK r \in Store!Request : r = s5[w]
  BY <1>1, RequestKnows
<1>3. Store!TablesOK /\ Store!ReferencesHold
  BY DEF Store!StoreInv, Store!TypeOK
<1> DEFINE p == r.key[1]
<1>4. r.op = "replace" /\ Store!Scope(r) = Store!KeysOf(p) /\ p \in Projects
  BY <1>2 DEF Store!RewriteProject, Store!Scope, Store!Request, Store!Keys
<1>5. /\ s1' = [s1 EXCEPT ![p] = "enabled"]
      /\ s2' = [k \in Store!Keys |-> CASE k[1] # p -> s2[k]
                                   [] k[1] = p /\ k[2] \in listed -> SiteTarget
                                   [] OTHER -> Absent]
      /\ s3' = [t \in Tokens |-> IF s3[t] \in Store!KeysOf(p) THEN Absent ELSE s3[t]]
  BY <1>2 DEF Store!RewriteProject
<1> HIDE DEF p
<1>6. \A k \in Store!Keys : s2'[k] = IF k \in Store!KeysOf(p)
                                  THEN IF k[2] \in listed THEN SiteTarget ELSE Absent ELSE s2[k]
  BY <1>5 DEF Store!KeysOf
<1>7. /\ s1' \in [Projects -> {"absent", "enabled"}]
      /\ \A k \in Store!Keys : s1'[k[1]] = IF k \in Store!KeysOf(p) THEN "enabled" ELSE s1[k[1]]
  <2>1. \A k \in Store!Keys : k[1] \in Projects
    BY DEF Store!Keys
  <2>2. QED
    BY <1>3, <1>4, <1>5, <2>1 DEF Store!TablesOK, Store!KeysOf
<1>8. Store!TablesOK'
  <2>1. \A k \in Store!Keys : s2'[k] \in Store!Targets \cup {Absent}
    BY ONLY <1>3, <1>6 DEF Store!TablesOK, Store!Targets
  <2>2. s2' \in [Store!Keys -> Store!Targets \cup {Absent}]
    BY ONLY <1>5, <2>1
  <2>3. QED
    BY <1>3, <1>5, <1>7, <2>2 DEF Store!TablesOK
<1>9. \A t \in Tokens : s3'[t] # Absent => s3'[t] = s3[t] /\ s3[t] \in Store!Keys \ Store!KeysOf(p)
  BY <1>3, <1>5 DEF Store!TablesOK
<1>10. Store!ReferencesHold'
  <2>1. ASSUME NEW t \in Tokens, s3'[t] # Absent PROVE s2'[s3'[t]] # Absent
    <3>1. s3'[t] = s3[t] /\ s3[t] \in Store!Keys \ Store!KeysOf(p) /\ s2[s3[t]] # Absent
      BY <1>3, <1>9, <2>1 DEF Store!ReferencesHold
    <3>2. QED
      BY ONLY <1>6, <3>1
  <2>2. ASSUME NEW k \in Store!Keys, s2'[k] # Absent PROVE s1'[k[1]] # "absent"
    <3>1. k \notin Store!KeysOf(p) => s1[k[1]] # "absent"
      BY <1>3, <1>6, <2>2 DEF Store!ReferencesHold
    <3>2. QED
      BY ONLY <1>7, <3>1, k \in Store!Keys
  <2>3. QED
    BY <2>1, <2>2 DEF Store!ReferencesHold
<1>11. Store!Referenced' \subseteq Store!Referenced
  BY ONLY <1>6 DEF Store!Referenced, Store!ContentsOf
<1>12. Store!Referenced \subseteq Store!Referenced' \cup Store!ContentsOf(Store!KeysOf(p))
  BY ONLY <1>6 DEF Store!Referenced, Store!ContentsOf
<1>13. QED
  BY <1>1, <1>2, <1>4, <1>8, <1>10, <1>11, <1>12, RequestDeletes

\* The end of the process ends the request in flight: what it had in hand is told.
LEMMA RequestsLost == Store!StoreInv /\ Store!Crash => Store!StoreInv'
<1> SUFFICES ASSUME Store!StoreInv, Store!Crash PROVE Store!StoreInv'
  OBVIOUS
<1>1. /\ Store!RequestsOK /\ Store!InTurn /\ Store!TablesOK /\ Store!FilesOK /\ Store!ReferencesHold
      /\ Store!SerialPagesReadable
  BY DEF Store!StoreInv, Store!TypeOK
<1>2. /\ UNCHANGED <<s1, s2, s3, s4, s6, s7>> /\ Store!Busy # {}
      /\ s5' = [w \in Writers |-> Store!Idle]
      /\ s8' = s8 \cup UNION {s5[w].old \cup ({s5[w].content} \ {SiteTarget}) : w \in Store!Busy}
  BY DEF Store!Crash
<1>3. Store!TablesOK' /\ Store!ReferencesHold' /\ Store!Referenced' = Store!Referenced
  BY <1>1, <1>2 DEF Store!TablesOK, Store!ReferencesHold, Store!Referenced,
     Store!ContentsOf
<1>4. Store!FilesOK'
  <2>1. ASSUME NEW w \in Store!Busy
        PROVE  s5[w].old \cup ({s5[w].content} \ {SiteTarget}) \subseteq PageContents
    BY <1>1 DEF Store!Busy, Store!RequestsOK, Store!Request, Store!Targets
  <2>2. QED
    BY <1>1, <1>2, <2>1 DEF Store!FilesOK
<1>5. \A w \in Writers : s5'[w] = Store!Idle
  BY <1>2
<1>6. Store!RequestsOK' /\ Store!Busy' = {}
  BY <1>1, <1>2, IdleRequest DEF Store!RequestsOK, Store!Busy
<1>7. Store!InTurn'
  <2>1. ASSUME NEW w \in Writers PROVE Store!Fits(s5[w])'
    BY <1>5, IdleRequest DEF Store!Fits
  <2>2. QED
    BY <1>6, <2>1 DEF Store!InTurn
<1>8. Store!SerialPagesReadable'
  BY <1>1, <1>2, <1>3 DEF Store!SerialPagesReadable
<1>9. Store!SerialStoreClean'
  <2> SUFFICES ASSUME ~s7 PROVE s4 \subseteq Store!Referenced \cup s8'
    BY <1>2, <1>3 DEF Store!SerialStoreClean
  <2>1. PICK w \in Store!Busy : Store!Alone(s5[w])
    BY <1>1, <1>2 DEF Store!InTurn
  <2>2. PICK r \in Store!Request : r = s5[w]
    BY <1>1, <2>1 DEF Store!Busy, Store!RequestsOK
  <2>3. Store!Left(r) \subseteq r.old \cup ({r.content} \ {SiteTarget})
    <3>1. Store!Fits(r)
      BY <1>1, <2>1, <2>2 DEF Store!InTurn, Store!Busy
    <3>2. QED
      BY <3>1 DEF Store!Left, Store!Fits
  <2>4. Store!Left(r) \subseteq s8'
    BY <1>2, <2>1, <2>2, <2>3
  <2>5. s4 \subseteq Store!Referenced \cup s8 \cup Store!Left(r) /\ s8 \subseteq s8'
    BY <1>2, <2>1, <2>2 DEF Store!Alone
  <2>6. QED
    BY <2>4, <2>5
<1>10. QED
  BY <1>3, <1>4, <1>6, <1>7, <1>8, <1>9 DEF Store!StoreInv, Store!TypeOK

\* Projects, share links and worktrees change beside the requests.
LEMMA CatalogChanges ==
  ASSUME Store!StoreInv,
         \/ \E p \in Projects : Store!CreateProject(p) \/ Store!DropStaleWorktree(p)
         \/ \E t \in Tokens : Store!DeleteShare(t)
         \/ UNCHANGED Store!vars
  PROVE  Store!StoreInv'
<1>1. Store!TablesOK /\ Store!FilesOK /\ Store!ReferencesHold
  BY DEF Store!StoreInv, Store!TypeOK
<1>2. CASE UNCHANGED Store!vars
  BY <1>1, <1>2, RequestsStand DEF Store!vars, Store!TablesOK, Store!FilesOK,
     Store!ReferencesHold, Store!Referenced,
     Store!ContentsOf
<1>3. ASSUME NEW p \in Projects, Store!CreateProject(p) PROVE Store!StoreInv'
  <2>1. /\ UNCHANGED <<s2, s3, s4, s5, s6, s7, s8>>
        /\ s1' = [s1 EXCEPT ![p] = "enabled"]
    BY <1>3 DEF Store!CreateProject
  <2>2. \A q \in Projects : s1'[q] = "absent" => s1[q] = "absent"
    BY <1>1, <2>1 DEF Store!TablesOK
  <2>3. \A k \in Store!Keys : k[1] \in Projects
    BY DEF Store!Keys
  <2>4. Store!TablesOK' /\ Store!FilesOK' /\ Store!ReferencesHold'
    BY <1>1, <2>1, <2>2, <2>3 DEF Store!TablesOK, Store!FilesOK, Store!ReferencesHold
  <2>5. Store!Referenced' = Store!Referenced /\ \A keys : Store!ContentsOf(keys)' = Store!ContentsOf(keys)
    BY <2>1 DEF Store!Referenced, Store!ContentsOf
  <2>6. QED
    BY <2>1, <2>4, <2>5, RequestsStand
<1>4. ASSUME NEW t \in Tokens, Store!DeleteShare(t) PROVE Store!StoreInv'
  <2>1. /\ UNCHANGED <<s1, s2, s4, s5, s6, s7, s8>>
        /\ s3' = [s3 EXCEPT ![t] = Absent]
    BY <1>4 DEF Store!DeleteShare
  <2>2. Store!TablesOK' /\ Store!FilesOK' /\ Store!ReferencesHold'
    BY <1>1, <2>1 DEF Store!TablesOK, Store!FilesOK, Store!ReferencesHold
  <2>3. Store!Referenced' = Store!Referenced /\ \A keys : Store!ContentsOf(keys)' = Store!ContentsOf(keys)
    BY <2>1 DEF Store!Referenced, Store!ContentsOf
  <2>4. QED
    BY <2>1, <2>2, <2>3, RequestsStand
<1>5. ASSUME NEW p \in Projects, Store!DropStaleWorktree(p) PROVE Store!StoreInv'
  <2>1. /\ UNCHANGED <<s4, s5, s6, s7>> /\ Store!Cascade(Store!KeysOf(p))
        /\ s1' = [s1 EXCEPT ![p] = "absent"]
        /\ s8' = s8 \cup Store!ContentsOf(Store!KeysOf(p))
    BY <1>5 DEF Store!DropStaleWorktree
  <2>2. Store!KeysOf(p) \in SUBSET Store!Keys
    BY DEF Store!KeysOf
  <2>3. /\ s1' \in [Projects -> {"absent", "enabled"}]
        /\ \A k \in Store!Keys \ Store!KeysOf(p) : s1'[k[1]] = s1[k[1]]
    BY <1>1, <2>1 DEF Store!TablesOK, Store!KeysOf
  <2>4. Store!TablesOK' /\ Store!ReferencesHold'
    BY <1>1, <2>1, <2>2, <2>3, CascadeTables
  <2>5. /\ Store!Referenced' \subseteq Store!Referenced
        /\ Store!Referenced \subseteq Store!Referenced' \cup Store!ContentsOf(Store!KeysOf(p))
        /\ \A keys \in SUBSET Store!Keys : Store!ContentsOf(keys)' \subseteq Store!ContentsOf(keys)
    BY <1>1, <2>1, <2>2, CascadeRows
  <2>6. Store!FilesOK'
    <3>1. Store!ContentsOf(Store!KeysOf(p)) \subseteq PageContents
      BY <1>1, <2>2 DEF Store!TablesOK, Store!ContentsOf, Store!Targets
    <3>2. QED
      BY <1>1, <2>1, <3>1 DEF Store!FilesOK
  <2>7. QED
    BY <2>1, <2>4, <2>5, <2>6, RequestsStand
<1>6. QED
  BY <1>2, <1>3, <1>4, <1>5

LEMMA StoreStep == Store!StoreInv /\ [Store!Next]_(Store!vars) => Store!StoreInv'
<1> SUFFICES ASSUME Store!StoreInv, [Store!Next]_(Store!vars) PROVE Store!StoreInv'
  OBVIOUS
<1>1. ASSUME NEW w \in Writers, NEW k \in Store!Keys, NEW c \in PageContents, Store!UpsertPage(w, k, c)
      PROVE  Store!StoreInv'
  <2>1. c \in Store!Targets /\ c # SiteTarget /\ "page" \in Store!Ops
    BY SuiteAssumptions DEF Store!CatalogAssumption, Store!Targets, Store!Ops
  <2>2. QED
    BY <1>1, <2>1, RequestBegins DEF Store!UpsertPage
<1>2. ASSUME NEW w \in Writers, NEW k \in Store!Keys,
             \/ Store!ReplaceDeployment(w, k) \/ Store!CreateDeployment(w, k) \/ Store!DeleteDeployment(w, k)
             \/ Store!ReplaceProject(w, k) \/ Store!DeleteProject(w, k) \/ Store!CreateShare(w, k)
      PROVE  Store!StoreInv'
  <2>1. PICK op \in Store!Ops \ {"page"} : Store!Begin(w, op, k, SiteTarget)
    BY <1>2 DEF Store!ReplaceDeployment, Store!CreateDeployment,
       Store!DeleteDeployment, Store!ReplaceProject,
       Store!DeleteProject, Store!CreateShare, Store!Ops
  <2>2. SiteTarget \in Store!Targets
    BY DEF Store!Targets
  <2>3. QED
    BY <2>1, <2>2, RequestBegins
<1>3. ASSUME NEW w \in Writers, Store!Step(w) PROVE Store!StoreInv'
  BY <1>3, RequestReads, RequestFiles, RequestInserts, RequestShares, RequestDrops,
     RequestRewrites
     DEF Store!Step
<1>4. ASSUME NEW p \in Projects, Store!CreateProject(p) \/ Store!DropStaleWorktree(p) PROVE Store!StoreInv'
  BY <1>4, CatalogChanges
<1>5. ASSUME NEW t \in Tokens, Store!DeleteShare(t) \/ \E k \in Store!Keys : Store!RevokeShare(k, t)
      PROVE  Store!StoreInv'
  BY <1>5, CatalogChanges DEF Store!RevokeShare
<1>6. CASE UNCHANGED Store!vars
  BY <1>6, CatalogChanges
<1>7. QED
  BY <1>1, <1>2, <1>3, <1>4, <1>5, <1>6, RequestsLost DEF Store!Next

\* Share links lead to deployments and deployments to projects; requests that run
\* one after another leave a file for every page and no other (storage.rs).
THEOREM ServerStore == SuiteSpec => []StoreConsistent
<1> DEFINE Keeps == focus = "store" => Store!StoreInv
<1>1. SuiteInit => Keeps
  BY StoreInit DEF SuiteInit, FocusInit
<1>2. Keeps /\ [SuiteNext]_suite => Keeps'
  <2> SUFFICES ASSUME Keeps, [SuiteNext]_suite, focus' = "store"
               PROVE  Store!StoreInv'
    OBVIOUS
  <2>1. Store!StoreInv
    BY DEF SuiteNext, suite
  <2>2. [Store!Next]_(Store!vars)
    BY DEF SuiteNext, FocusNext, suite, Store!vars
  <2>3. QED
    BY <2>1, <2>2, StoreStep
<1>3. Keeps => StoreConsistent
  BY DEF StoreConsistent, Store!StoreInv
<1>4. QED
  BY <1>1, <1>2, <1>3, PTL DEF SuiteSpec

-----------------------------------------------------------------------------
(***************************************************************************)
(* The worktrees and their projects (WorktreeDiscovery)                    *)
(***************************************************************************)

\* What a reconciliation knows that was not misled: `name` is chosen for a
\* source that is where it was.
Steady(name, scan, source, at) ==
  /\ Worktrees!TablesOK /\ Worktrees!RecordsAgree /\ ~s12
  /\ scan \in SUBSET Worktrees!Dirs /\ name \in [scan -> Worktrees!Names]
  /\ source \in Worktrees!Names /\ at \in Worktrees!Dirs /\ s2[source] = at
  /\ \A d \in scan : name[d] \in Worktrees!Choices(d, name, scan, source, at)

LEMMA DirsNumbers ==
  /\ Worktrees!Dirs \subseteq Nat /\ Absent \notin Worktrees!Dirs /\ Worktrees!Main \in Worktrees!Dirs
  /\ \A n \in Worktrees!Names, d \in Worktrees!Dirs, i \in 1..MaxProjectPuts + 1 :
       <<d, i>> \in Worktrees!Names
BY SuiteAssumptions DEF Worktrees!WorktreeAssumption, Worktrees!Dirs, Worktrees!Main, Worktrees!Names,
   Worktrees!Derived

\* The last of several directories of a list.
LEMMA LatestIs ==
  ASSUME NEW dirs \in SUBSET Worktrees!Dirs, dirs # {}
  PROVE  Worktrees!Latest(dirs) \in dirs /\ \A e \in dirs : e <= Worktrees!Latest(dirs)
<1>1. \E d \in dirs : \A e \in dirs : e <= d
  BY SuiteAssumptions DEF Worktrees!WorktreeAssumption
<1>2. QED
  BY <1>1 DEF Worktrees!Latest

\* What is chosen for a directory is at it, or a free name when it has neither
\* a project of a user nor a row.
LEMMA ProjectChosen ==
  ASSUME NEW name, NEW scan, NEW source, NEW at, Steady(name, scan, source, at), NEW d \in scan
  PROVE  \/ s2[name[d]] = d
         \/ /\ s2[name[d]] = Absent /\ name[d] \in Worktrees!Fresh(d)
            /\ Worktrees!Configured(d, name, scan, source, at) = {} /\ Worktrees!Existing(d) = {}
<1> DEFINE configured == Worktrees!Configured(d, name, scan, source, at)
<1>1. name[d] \in Worktrees!Choices(d, name, scan, source, at) /\ s2[source] = at /\ Worktrees!RecordsAgree /\ ~s12
  BY DEF Steady
<1>2. CASE configured # {}
  <2>1. name[d] \in configured
    BY <1>1, <1>2 DEF Worktrees!Choices
  <2>2. CASE d = at
    BY <1>1, <2>1, <2>2 DEF Worktrees!Configured
  <2>3. CASE d # at
    BY <2>1, <2>3 DEF Worktrees!Configured
  <2>4. QED
    BY <2>2, <2>3
<1>3. CASE configured = {} /\ Worktrees!Existing(d) # {}
  <2>1. name[d] \in Worktrees!Existing(d)
    BY <1>1, <1>3 DEF Worktrees!Choices
  <2>2. QED
    BY <1>1, <2>1 DEF Worktrees!Existing, Worktrees!RecordsAgree
<1>4. CASE configured = {} /\ Worktrees!Existing(d) = {}
  <2>1. name[d] \in Worktrees!Fresh(d)
    BY <1>1, <1>4 DEF Worktrees!Choices
  <2>2. s2[name[d]] = Absent
    BY <2>1 DEF Worktrees!Fresh
  <2>3. QED
    BY <1>4, <2>1, <2>2
<1>5. QED
  BY <1>2, <1>3, <1>4

LEMMA NamesApart ==
  ASSUME NEW name, NEW scan, NEW source, NEW at, Steady(name, scan, source, at),
         NEW d \in scan, NEW e \in scan, name[d] = name[e]
  PROVE  d = e
<1>1. d \in Worktrees!Dirs /\ e \in Worktrees!Dirs
  BY DEF Steady
<1>2. CASE s2[name[d]] = d
  BY <1>1, <1>2, ProjectChosen, DirsNumbers
<1>3. CASE s2[name[d]] # d
  <2>1. name[d] \in Worktrees!Fresh(d) /\ s2[name[d]] = Absent
    BY <1>3, ProjectChosen
  <2>2. name[d] \in Worktrees!Fresh(e)
    BY <1>1, <2>1, ProjectChosen, DirsNumbers
  <2>3. name[d] \in {d} \X (1..MaxProjectPuts + 1) /\ name[d] \in {e} \X (1..MaxProjectPuts + 1)
    BY <2>1, <2>2 DEF Worktrees!Fresh
  <2>4. QED
    BY ONLY <2>3
<1>4. QED
  BY <1>2, <1>3

\* The transaction has not touched the row of a project when it comes to its
\* directory.
LEMMA Unmarked ==
  ASSUME NEW name, NEW scan, NEW source, NEW at, Steady(name, scan, source, at),
         NEW d \in scan, NEW n \in Worktrees!Names, s2[n] = d
  PROVE  Worktrees!Marked(n, d, name, scan, at) <=> Worktrees!Discovered(n)
<1>1. ASSUME NEW e \in scan, e < d, name[e] = n
      PROVE  FALSE
  <2>1. d \in Nat /\ e \in Nat /\ d # Absent /\ e # d
    BY <1>1, DirsNumbers DEF Steady
  <2>2. QED
    BY <1>1, <2>1, ProjectChosen
<1>2. {e \in scan : e < d /\ name[e] = n} = {}
  BY <1>1
<1>3. QED
  BY <1>2 DEF Worktrees!Marked

\* So the projects users made for a directory are those without a discovered row.
LEMMA ConfiguredAre ==
  ASSUME NEW name, NEW scan, NEW source, NEW at, Steady(name, scan, source, at),
         NEW d \in scan, NEW n \in Worktrees!Names, s2[n] = d, ~Worktrees!Discovered(n)
  PROVE  Worktrees!Configured(d, name, scan, source, at) # {}
<1>1. CASE d = at
  BY <1>1 DEF Worktrees!Configured
<1>2. CASE d # at
  <2>1. ~Worktrees!Marked(n, d, name, scan, at)
    BY Unmarked
  <2>2. QED
    BY <1>2, <2>1 DEF Worktrees!Configured
<1>3. QED
  BY <1>1, <1>2

LEMMA FreshNeedsNone ==
  ASSUME NEW name, NEW scan, NEW source, NEW at, Steady(name, scan, source, at),
         NEW d \in scan, s2[name[d]] # d, NEW n \in Worktrees!Names
  PROVE  s2[n] # d
<1> SUFFICES ASSUME s2[n] = d PROVE FALSE
  OBVIOUS
<1>1. Worktrees!Configured(d, name, scan, source, at) = {} /\ Worktrees!Existing(d) = {}
  BY ProjectChosen
<1>2. Worktrees!Discovered(n)
  BY <1>1, ConfiguredAre
<1>3. s3[n] # Absent /\ s3[n].dir = d
  BY <1>2 DEF Worktrees!Discovered, Steady, Worktrees!RecordsAgree
<1>4. QED
  BY <1>1, <1>3 DEF Worktrees!Existing

\* What a reconciliation makes of the two tables: a name that it takes has the
\* row of the last directory it is taken for, what is not taken stays or goes.
Taken(n, d, name, scan, source, at) ==
  /\ s2'[n] = IF s2[n] = Absent THEN d ELSE s2[n]
  /\ s3'[n] \in Worktrees!Row /\ s3'[n].dir = d
  /\ s3'[n].archived = Worktrees!Unarchived(n)
  /\ s3'[n].discovered <=> n \notin Worktrees!Configured(d, name, scan, source, at)

Kept(n, scan) ==
  IF Worktrees!Discovered(n) /\ s3[n].dir \notin scan
    THEN s2'[n] = Absent /\ s3'[n] = Absent
    ELSE s2'[n] = s2[n] /\ s3'[n] = s3[n]

Rows(name, scan, source, at) ==
  \A n \in Worktrees!Names :
    \/ \E d \in scan : name[d] = n /\ Taken(n, d, name, scan, source, at)
    \/ (\A d \in scan : name[d] # n) /\ Kept(n, scan)

LEMMA UnarchivedType ==
  ASSUME Worktrees!TablesOK, NEW n \in Worktrees!Names
  PROVE  Worktrees!Unarchived(n) \in BOOLEAN
<1>1. s3[n] \in Worktrees!Row \/ s3[n] = Absent
  BY DEF Worktrees!TablesOK
<1>2. QED
  BY <1>1, Zenon DEF Worktrees!Unarchived, Worktrees!Row

LEMMA ReconciledRows ==
  ASSUME Worktrees!TablesOK, NEW scan \in SUBSET Worktrees!Dirs, NEW name \in [scan -> Worktrees!Names],
         NEW source, NEW at, Worktrees!Reconciled(name, scan, source, at)
  PROVE  Rows(name, scan, source, at)
<1> DEFINE dirs(n) == {d \in scan : name[d] = n}
           gone == {n \in Worktrees!Stale(scan) : dirs(n) = {}}
<1>1. ASSUME NEW n \in Worktrees!Names
      PROVE  /\ s2'[n] = (CASE n \in gone -> Absent
                            [] dirs(n) # {} /\ s2[n] = Absent -> Worktrees!Latest(dirs(n))
                            [] OTHER -> s2[n])
             /\ s3'[n] = (CASE n \in gone -> Absent
                            [] dirs(n) # {} -> Worktrees!Written(n, dirs(n), name, scan, source, at, Worktrees!Unarchived(n))
                            [] OTHER -> s3[n])
  BY DEF Worktrees!Reconciled
<1> SUFFICES ASSUME NEW n \in Worktrees!Names
             PROVE  \/ \E d \in scan : name[d] = n /\ Taken(n, d, name, scan, source, at)
                    \/ (\A d \in scan : name[d] # n) /\ Kept(n, scan)
  BY DEF Rows
<1>2. CASE dirs(n) # {}
  <2> DEFINE d == Worktrees!Latest(dirs(n))
  <2>1. dirs(n) \in SUBSET Worktrees!Dirs
    OBVIOUS
  <2>2. d \in dirs(n)
    BY <1>2, <2>1, LatestIs
  <2>3. d \in scan /\ name[d] = n /\ d \in Worktrees!Dirs
    BY <2>2
  <2>4. n \notin gone
    BY <1>2
  <2>5. /\ s2'[n] = IF s2[n] = Absent THEN d ELSE s2[n]
        /\ s3'[n] = Worktrees!Written(n, dirs(n), name, scan, source, at, Worktrees!Unarchived(n))
    <3> HIDE DEF dirs, gone
    <3>1. QED
      BY <1>1, <1>2, <2>4
  <2>6. s3'[n] = [dir |-> d, discovered |-> n \notin Worktrees!Configured(d, name, scan, source, at),
                  archived |-> Worktrees!Unarchived(n)]
    BY <2>5 DEF Worktrees!Written
  <2>7. Worktrees!Unarchived(n) \in BOOLEAN
    BY UnarchivedType
  <2>8. (n \notin Worktrees!Configured(d, name, scan, source, at)) \in BOOLEAN
    OBVIOUS
  <2> HIDE DEF d, dirs
  <2>9. s3'[n] \in Worktrees!Row
    BY ONLY <2>3, <2>6, <2>7, <2>8 DEF Worktrees!Row
  <2>10. /\ s3'[n].dir = d /\ s3'[n].archived = Worktrees!Unarchived(n)
         /\ s3'[n].discovered = (n \notin Worktrees!Configured(d, name, scan, source, at))
    BY ONLY <2>6
  <2>11. Taken(n, d, name, scan, source, at)
    BY <2>5, <2>9, <2>10, Zenon DEF Taken
  <2>12. QED
    BY <2>3, <2>11
<1>3. CASE dirs(n) = {}
  <2>1. /\ \A d \in scan : name[d] # n
        /\ n \in gone <=> Worktrees!Discovered(n) /\ s3[n].dir \notin scan
    BY <1>3 DEF Worktrees!Stale
  <2> HIDE DEF dirs, gone
  <2>2. QED
    BY <1>1, <1>3, <2>1 DEF Kept
<1>4. QED
  BY <1>2, <1>3

\* Nothing is at a directory twice while no user has put a second project at
\* one: no row is in the way.
LEMMA NoConflict ==
  ASSUME NEW name, NEW scan, NEW source, NEW at, Steady(name, scan, source, at),
         Worktrees!OneProject, ~s8
  PROVE  ~Worktrees!Conflicts(name, scan)
<1> SUFFICES ASSUME NEW d \in scan, NEW n \in Worktrees!Existing(d), n # name[d]
             PROVE  FALSE
  BY DEF Worktrees!Conflicts
<1>1. n \in Worktrees!Names /\ s2[n] = d
  BY DEF Worktrees!Existing, Worktrees!RecordsAgree, Steady
<1>2. d \in Worktrees!Dirs /\ name[d] \in Worktrees!Names /\ d # Absent
  BY DirsNumbers DEF Steady
<1>3. s2[name[d]] = d
  BY <1>1, FreshNeedsNone
<1>4. QED
  BY <1>1, <1>2, <1>3 DEF Worktrees!OneProject, Steady

LEMMA WorktreesInit == Worktrees!Init => Worktrees!WorktreesInv
<1> SUFFICES ASSUME Worktrees!Init PROVE Worktrees!WorktreesInv
  OBVIOUS
<1>1. Worktrees!WorktreeAssumption
  BY SuiteAssumptions
<1>2. /\ \A n \in Worktrees!Names : s3[n] = Absent /\ s2[n] = IF n = Primary THEN Worktrees!Main ELSE Absent
      /\ Primary \in Worktrees!Names /\ \A r \in Refreshers : s4[r] = Worktrees!Idle
      /\ s8 = FALSE /\ s9 = FALSE /\ s10 = FALSE /\ s11 = {Primary} /\ s12 = FALSE
  BY DEF Worktrees!Init, Worktrees!Names
<1>3. Worktrees!TablesOK
  BY DirsNumbers DEF Worktrees!Init, Worktrees!TablesOK
<1>4. Worktrees!RefreshersOK
  BY <1>2, DirsNumbers DEF Worktrees!Init, Worktrees!RefreshersOK, Worktrees!Refresher, Worktrees!Idle
<1>5. Worktrees!MarksOK
  <2>1. 0 \in 0..MaxProjectPuts /\ 0 \in 0..MaxRefreshes
    BY <1>1 DEF Worktrees!WorktreeAssumption
  <2>2. s1 \in [Linked -> {"new", "present", "gone"}] /\ s6 = 0 /\ s7 = 0
    BY DEF Worktrees!Init
  <2>3. s11 \in SUBSET Worktrees!Names
    BY <1>2
  <2>4. QED
    BY <1>2, <2>1, <2>2, <2>3, Zenon DEF Worktrees!MarksOK
<1>6. Worktrees!RecordsAgree /\ Worktrees!DiscoveryMirrorsDisk /\ Worktrees!OneProject
  BY <1>1, <1>2 DEF Worktrees!RecordsAgree, Worktrees!DiscoveryMirrorsDisk,
     Worktrees!Mirrored, Worktrees!OneProject, Worktrees!WorktreeAssumption
<1>7. Worktrees!MadeStands
  BY <1>2, DirsNumbers DEF Worktrees!MadeStands, Worktrees!Discovered
<1>8. Worktrees!Seen /\ Worktrees!HolderKnows
  BY <1>2 DEF Worktrees!Seen, Worktrees!Lists, Worktrees!HolderKnows, Worktrees!Knows,
     Worktrees!Idle
<1>9. QED
  BY <1>3, <1>4, <1>5, <1>6, <1>7, <1>8 DEF Worktrees!WorktreesInv, Worktrees!TypeOK

\* A step of a refresh sets its record, and perhaps the lock.
LEMMA RefresherSet ==
  ASSUME Worktrees!RefreshersOK, NEW r \in Refreshers, NEW v \in Worktrees!Refresher,
         s4' = [s4 EXCEPT ![r] = v], s5' \in Refreshers \cup {Absent}
  PROVE  Worktrees!RefreshersOK' /\ s4'[r] = v /\ \A p \in Refreshers \ {r} : s4'[p] = s4[p]
BY DEF Worktrees!RefreshersOK

LEMMA IdleRefresher ==
  Worktrees!Idle \in Worktrees!Refresher /\ Worktrees!Idle.stage = "idle" /\ Worktrees!Idle.scan = {}
BY DirsNumbers DEF Worktrees!Idle, Worktrees!Refresher, Worktrees!Names

\* One that ends, or whose request goes on without it, lets the lock go.
LEMMA RefresherEnds ==
  ASSUME Worktrees!RefreshersOK, NEW r \in Refreshers, Worktrees!Finish(r) \/ Worktrees!Decline(r)
  PROVE  /\ Worktrees!RefreshersOK' /\ \A p \in Refreshers \ {r} : s4'[p] = s4[p] /\ (s5 = p => s5' = p)
         /\ s4'[r].stage \in {"idle", "insert"} /\ s4'[r].scan = {}
<1> DEFINE v == [Worktrees!Idle EXCEPT !.kind = "create", !.stage = "insert", !.dir = s4[r].dir]
<1>1. s5' = (IF s5 = r THEN Absent ELSE s5) /\ s5 \in Refreshers \cup {Absent} /\ s4[r] \in Worktrees!Refresher
  BY DEF Worktrees!Finish, Worktrees!Decline, Worktrees!RefreshersOK
<1>2. s5' \in Refreshers \cup {Absent}
  BY <1>1
<1>3. v \in Worktrees!Refresher /\ v.stage = "insert" /\ v.scan = {}
  BY <1>1, DirsNumbers DEF Worktrees!Idle, Worktrees!Refresher, Worktrees!Names
<1>4. s4' = [s4 EXCEPT ![r] = Worktrees!Idle] \/ s4' = [s4 EXCEPT ![r] = v]
  BY DEF Worktrees!Finish, Worktrees!Decline
<1>5. QED
  BY <1>1, <1>2, <1>3, <1>4, IdleRefresher, RefresherSet

\* A step of a refresh that changes no table: what has to be shown of it is what
\* it has in its record and whether it holds the lock.
LEMMA RefreshQuiet ==
  ASSUME Worktrees!WorktreesInv, NEW r \in Refreshers,
         UNCHANGED <<s1, s2, s3, s8, s10, s11, s12>>, Worktrees!MarksOK', Worktrees!RefreshersOK', s9 => s9',
         \A p \in Refreshers \ {r} : s4'[p] = s4[p] /\ (s5 = p => s5' = p),
         Worktrees!Lists(r)', s9' \/ Worktrees!Knows(r)'
  PROVE  Worktrees!WorktreesInv'
<1>1. Worktrees!TypeOK'
  BY DEF Worktrees!WorktreesInv, Worktrees!TypeOK, Worktrees!TablesOK
<1>2. Worktrees!RecordsAgree' /\ Worktrees!DiscoveryMirrorsDisk' /\ Worktrees!MadeStands' /\ Worktrees!OneProject'
  BY DEF Worktrees!WorktreesInv, Worktrees!RecordsAgree,
     Worktrees!DiscoveryMirrorsDisk, Worktrees!Mirrored, Worktrees!MadeStands,
     Worktrees!OneProject, Worktrees!OnDisk, Worktrees!Discovered
<1>3. Worktrees!Seen'
  BY DEF Worktrees!WorktreesInv, Worktrees!Seen, Worktrees!Lists
<1>4. Worktrees!HolderKnows'
  BY DEF Worktrees!WorktreesInv, Worktrees!HolderKnows, Worktrees!Knows,
     Worktrees!Discovered
<1>5. QED
  BY <1>1, <1>2, <1>3, <1>4 DEF Worktrees!WorktreesInv

LEMMA RefreshGoesOn ==
  ASSUME Worktrees!WorktreesInv, NEW r \in Refreshers,
         \/ \E kind \in {"auto", "interactive", "create"}, d \in Worktrees!Dirs : Worktrees!Begin(r, kind, d)
         \/ Worktrees!Lock(r) \/ Worktrees!Scan(r) \/ Worktrees!ScanElsewhere(r) \/ Worktrees!FindNoRoot(r)
         \/ Worktrees!Abandon(r) \/ Worktrees!Look(r)
         \/ \E n \in Worktrees!Names : Worktrees!ListRoots(r, n) \/ Worktrees!FindRoot(r, n)
  PROVE  Worktrees!WorktreesInv' /\ UNCHANGED <<s2, s3>>
<1>1. /\ Worktrees!RefreshersOK /\ Worktrees!MarksOK /\ Worktrees!Seen /\ s4[r] \in Worktrees!Refresher
      /\ s5 \in Refreshers \cup {Absent} /\ Worktrees!WorktreeAssumption /\ Worktrees!Lists(r)
      /\ s9 \/ Worktrees!Knows(r)
  BY SuiteAssumptions DEF Worktrees!WorktreesInv, Worktrees!TypeOK,
     Worktrees!RefreshersOK, Worktrees!Seen, Worktrees!HolderKnows
<1>2. ASSUME NEW kind \in {"auto", "interactive", "create"}, NEW d \in Worktrees!Dirs, Worktrees!Begin(r, kind, d)
      PROVE  Worktrees!WorktreesInv'
  <2> DEFINE v == [Worktrees!Idle EXCEPT !.kind = kind, !.stage = IF kind = "interactive" THEN "list" ELSE "lock",
                                         !.dir = d]
  <2>1. /\ s4' = [s4 EXCEPT ![r] = v] /\ s7' = s7 + 1 /\ s7 < MaxRefreshes
        /\ s9' = (s9 \/ kind = "interactive")
        /\ UNCHANGED <<s1, s2, s3, s5, s6, s8, s10, s11, s12>>
    BY <1>2 DEF Worktrees!Begin, Worktrees!tables, Worktrees!history
  <2>2. /\ v \in Worktrees!Refresher /\ v.scan = {} /\ v.stage # "reconcile" /\ v.kind = kind
        /\ v.stage \in {"list", "scan", "look"} => kind = "interactive"
    BY IdleRefresher DEF Worktrees!Refresher
  <2>3. Worktrees!RefreshersOK' /\ s4'[r] = v /\ \A p \in Refreshers \ {r} : s4'[p] = s4[p]
    BY <1>1, <2>1, <2>2, RefresherSet
  <2>4. s7' \in 0..MaxRefreshes /\ s6' \in 0..MaxProjectPuts
    BY <1>1, <2>1 DEF Worktrees!MarksOK, Worktrees!WorktreeAssumption
  <2>5. s9' \in BOOLEAN
    BY <2>1, Zenon
  <2>6. Worktrees!MarksOK'
    BY <1>1, <2>1, <2>4, <2>5 DEF Worktrees!MarksOK
  <2>7. Worktrees!Lists(r)' /\ (s9' \/ Worktrees!Knows(r)')
    BY <2>1, <2>2, <2>3 DEF Worktrees!Lists, Worktrees!Knows
  <2>8. QED
    BY <2>1, <2>3, <2>6, <2>7, RefreshQuiet
<1>3. CASE Worktrees!Lock(r)
  <2> DEFINE v == [s4[r] EXCEPT !.stage = IF s4[r].kind = "create" THEN "scan" ELSE "list"]
  <2>1. /\ s5 = Absent /\ s5' = r /\ s4' = [s4 EXCEPT ![r] = v] /\ s4[r].stage = "lock"
        /\ UNCHANGED <<s1, s2, s3, s6, s7, s8, s9, s10, s11, s12>>
    BY <1>1, <1>3 DEF Worktrees!Lock, Worktrees!Enter, Worktrees!tables, Worktrees!history,
       Worktrees!RefreshersOK
  <2>2. /\ v \in Worktrees!Refresher /\ v.stage \in {"scan", "list"} /\ v.scan = {}
        /\ v.stage = "list" => v.kind # "create"
    BY <1>1, <2>1 DEF Worktrees!Refresher, Worktrees!Lists
  <2>3. Worktrees!RefreshersOK' /\ s4'[r] = v /\ \A p \in Refreshers \ {r} : s4'[p] = s4[p]
    BY <1>1, <2>1, <2>2, RefresherSet
  <2>4. \A p \in Refreshers : s5 # p
    BY <1>1, <2>1 DEF Worktrees!WorktreeAssumption
  <2>5. Worktrees!MarksOK'
    BY <1>1, <2>1 DEF Worktrees!MarksOK
  <2>6. Worktrees!Lists(r)' /\ Worktrees!Knows(r)'
    BY <2>1, <2>2, <2>3 DEF Worktrees!Lists, Worktrees!Knows
  <2>7. QED
    BY <2>1, <2>3, <2>4, <2>5, <2>6, RefreshQuiet
<1>4. CASE Worktrees!Scan(r)
  <2> DEFINE v == [s4[r] EXCEPT !.stage = IF s4[r].kind = "create" THEN "list" ELSE "reconcile",
                                !.scan = Worktrees!OnDisk]
  <2>1. /\ s4[r].stage = "scan" /\ s4' = [s4 EXCEPT ![r] = v]
        /\ UNCHANGED <<s1, s2, s3, s5, s6, s7, s8, s9, s10, s11, s12>>
    BY <1>1, <1>4 DEF Worktrees!Scan, Worktrees!tables, Worktrees!history,
       Worktrees!RefreshersOK
  <2>2. Worktrees!OnDisk \subseteq Worktrees!Dirs /\ Worktrees!Main \in Worktrees!OnDisk
    BY DEF Worktrees!OnDisk, Worktrees!Dirs
  <2>3. /\ v \in Worktrees!Refresher /\ v.scan = Worktrees!OnDisk
        /\ v.stage = "reconcile" \/ (v.stage = "list" /\ v.kind = "create")
    BY <1>1, <2>2 DEF Worktrees!Refresher
  <2>4. Worktrees!RefreshersOK' /\ s4'[r] = v /\ \A p \in Refreshers \ {r} : s4'[p] = s4[p]
    BY <1>1, <2>1, <2>3, RefresherSet
  <2>5. Worktrees!MarksOK'
    BY <1>1, <2>1 DEF Worktrees!MarksOK
  <2>6. Worktrees!Lists(r)'
    <3>1. \A d \in Linked : s1[d] = "new" => d \notin Worktrees!OnDisk
      BY <1>1 DEF Worktrees!OnDisk, Worktrees!WorktreeAssumption
    <3> HIDE DEF v
    <3>2. QED
      BY <2>1, <2>2, <2>3, <2>4, <3>1 DEF Worktrees!Lists
  <2>7. ASSUME NEW n \in Worktrees!Names, Worktrees!Discovered(n), s3[n].dir \notin Worktrees!OnDisk
        PROVE  s3[n].dir \in Linked /\ s1[s3[n].dir] = "gone"
    <3>1. s3[n] # Absent /\ s3[n] \in Worktrees!Row
      BY <2>7 DEF Worktrees!Discovered, Worktrees!WorktreesInv, Worktrees!TypeOK,
         Worktrees!TablesOK
    <3>2. s3[n].dir \in Linked /\ s1[s3[n].dir] # "present"
      BY <2>7, <3>1 DEF Worktrees!Row, Worktrees!Dirs, Worktrees!OnDisk
    <3>3. QED
      BY <1>1, <3>1, <3>2 DEF Worktrees!Seen, Worktrees!MarksOK
  <2>8. s9' \/ Worktrees!Knows(r)'
    BY <1>1, <2>1, <2>3, <2>4, <2>7 DEF Worktrees!Knows, Worktrees!Discovered
  <2>9. QED
    BY <2>1, <2>4, <2>5, <2>6, <2>8, RefreshQuiet
<1>5. ASSUME NEW n \in Worktrees!Names, Worktrees!ListRoots(r, n)
      PROVE  Worktrees!WorktreesInv'
  <2> DEFINE v == [s4[r] EXCEPT !.stage = "scan", !.source = n, !.at = s2[n]]
  <2>1. /\ s4[r].stage = "list" /\ s4[r].kind # "create" /\ s4' = [s4 EXCEPT ![r] = v] /\ s2[n] # Absent
        /\ UNCHANGED <<s1, s2, s3, s5, s6, s7, s8, s9, s10, s11, s12>>
    BY <1>1, <1>5 DEF Worktrees!ListRoots, Worktrees!tables, Worktrees!history,
       Worktrees!RefreshersOK
  <2>2. s2[n] \in Worktrees!Dirs
    BY <2>1 DEF Worktrees!WorktreesInv, Worktrees!TypeOK, Worktrees!TablesOK
  <2>3. v \in Worktrees!Refresher /\ v.stage = "scan" /\ v.scan = {}
    BY <1>1, <2>1, <2>2 DEF Worktrees!Refresher, Worktrees!Lists
  <2>4. Worktrees!RefreshersOK' /\ s4'[r] = v /\ \A p \in Refreshers \ {r} : s4'[p] = s4[p]
    BY <1>1, <2>1, <2>3, RefresherSet
  <2>5. Worktrees!MarksOK'
    BY <1>1, <2>1 DEF Worktrees!MarksOK
  <2>6. Worktrees!Lists(r)' /\ (s9' \/ Worktrees!Knows(r)')
    BY <1>1, <2>1, <2>3, <2>4 DEF Worktrees!Lists, Worktrees!Knows
  <2>7. QED
    BY <2>1, <2>4, <2>5, <2>6, RefreshQuiet
<1>6. ASSUME NEW n \in Worktrees!Names, Worktrees!FindRoot(r, n)
      PROVE  Worktrees!WorktreesInv'
  <2> DEFINE v == [s4[r] EXCEPT !.stage = "reconcile", !.source = n, !.at = Worktrees!Main]
  <2>1. /\ s4[r].stage = "list" /\ s4[r].kind = "create" /\ s4' = [s4 EXCEPT ![r] = v]
        /\ UNCHANGED <<s1, s2, s3, s5, s6, s7, s8, s9, s10, s11, s12>>
    BY <1>1, <1>6 DEF Worktrees!FindRoot, Worktrees!tables, Worktrees!history,
       Worktrees!RefreshersOK
  <2>2. v \in Worktrees!Refresher /\ v.stage = "reconcile" /\ v.scan = s4[r].scan
    BY <1>1, DirsNumbers DEF Worktrees!Refresher
  <2>3. Worktrees!RefreshersOK' /\ s4'[r] = v /\ \A p \in Refreshers \ {r} : s4'[p] = s4[p]
    BY <1>1, <2>1, <2>2, RefresherSet
  <2>4. Worktrees!MarksOK'
    BY <1>1, <2>1 DEF Worktrees!MarksOK
  <2>5. s4[r].scan # {}
    BY <1>1, <2>1 DEF Worktrees!Lists
  <2>6. s4'[r].stage = "reconcile" /\ s4'[r].scan = s4[r].scan
    BY <2>2, <2>3
  <2>7. Worktrees!Lists(r)'
    BY ONLY <1>1, <2>1, <2>5, <2>6 DEF Worktrees!Lists
  <2>8. s9' \/ Worktrees!Knows(r)'
    BY ONLY <1>1, <2>1, <2>6 DEF Worktrees!Knows, Worktrees!Discovered
  <2>9. QED
    BY <2>1, <2>3, <2>4, <2>7, <2>8, RefreshQuiet
<1>7. ASSUME Worktrees!ScanElsewhere(r) \/ Worktrees!FindNoRoot(r) \/ Worktrees!Abandon(r) \/ Worktrees!Look(r)
      PROVE  Worktrees!WorktreesInv'
  <2>1. /\ Worktrees!Finish(r) \/ Worktrees!Decline(r)
        /\ UNCHANGED <<s1, s2, s3, s6, s7, s8, s9, s10, s11, s12>>
    BY <1>7 DEF Worktrees!ScanElsewhere, Worktrees!FindNoRoot, Worktrees!Abandon, Worktrees!Look,
       Worktrees!tables, Worktrees!history
  <2>2. /\ Worktrees!RefreshersOK' /\ \A p \in Refreshers \ {r} : s4'[p] = s4[p] /\ (s5 = p => s5' = p)
        /\ s4'[r].stage \in {"idle", "insert"} /\ s4'[r].scan = {}
    BY <1>1, <2>1, RefresherEnds
  <2>3. Worktrees!MarksOK'
    BY <1>1, <2>1 DEF Worktrees!MarksOK
  <2>4. Worktrees!Lists(r)' /\ Worktrees!Knows(r)'
    BY <2>2 DEF Worktrees!Lists, Worktrees!Knows
  <2>5. QED
    BY <2>1, <2>2, <2>3, <2>4, RefreshQuiet
<1>8. UNCHANGED <<s2, s3>>
  BY DEF Worktrees!Begin, Worktrees!Lock, Worktrees!Scan, Worktrees!ScanElsewhere, Worktrees!FindNoRoot,
     Worktrees!Abandon, Worktrees!Look, Worktrees!ListRoots, Worktrees!FindRoot, Worktrees!tables
<1>9. QED
  BY <1>2, <1>3, <1>4, <1>5, <1>6, <1>7, <1>8

\* Whatever it was led by, the transaction keeps the rows of the tables apart.
LEMMA ReconcileTables ==
  ASSUME Worktrees!TablesOK, Worktrees!RecordsAgree,
         NEW scan \in SUBSET Worktrees!Dirs, NEW name \in [scan -> Worktrees!Names],
         NEW source, NEW at, ~Worktrees!Conflicts(name, scan), Worktrees!Reconciled(name, scan, source, at)
  PROVE  /\ Worktrees!TablesOK' /\ Rows(name, scan, source, at)
         /\ \A m, n \in Worktrees!Names :
              s3'[m] # Absent /\ s3'[n] # Absent /\ s3'[m].dir = s3'[n].dir => m = n
<1>1. Rows(name, scan, source, at)
  BY ReconciledRows
<1>2. \A n \in Worktrees!Names :
        \/ \E d \in scan : name[d] = n /\ Taken(n, d, name, scan, source, at)
        \/ (\A d \in scan : name[d] # n) /\ Kept(n, scan)
  BY <1>1 DEF Rows
<1>3. Worktrees!TablesOK'
  <2>1. ASSUME NEW n \in Worktrees!Names
        PROVE  s2'[n] \in Worktrees!Dirs \cup {Absent} /\ s3'[n] \in Worktrees!Row \cup {Absent}
    <3>1. s2[n] \in Worktrees!Dirs \cup {Absent} /\ s3[n] \in Worktrees!Row \cup {Absent}
      BY DEF Worktrees!TablesOK
    <3>2. QED
      BY <1>2, <3>1 DEF Taken, Kept
  <2>2. s2' = [n \in Worktrees!Names |-> s2'[n]] /\ s3' = [n \in Worktrees!Names |-> s3'[n]]
    BY DEF Worktrees!Reconciled
  <2>3. QED
    BY ONLY <2>1, <2>2 DEF Worktrees!TablesOK
<1>4. ASSUME NEW d \in scan, NEW n \in Worktrees!Names, Kept(n, scan), \A e \in scan : name[e] # n,
             s3'[n] # Absent
      PROVE  s3'[n].dir # d
  <2>1. s3'[n] = s3[n] /\ n # name[d]
    BY <1>4 DEF Kept
  <2>2. s3[n].dir # d
    BY <1>4, <2>1 DEF Worktrees!Conflicts, Worktrees!Existing
  <2>3. QED
    BY <2>1, <2>2
<1>5. ASSUME NEW m \in Worktrees!Names, NEW n \in Worktrees!Names,
             s3'[m] # Absent, s3'[n] # Absent, s3'[m].dir = s3'[n].dir
      PROVE  m = n
  <2>1. CASE \E d \in scan : name[d] = m /\ Taken(m, d, name, scan, source, at)
    <3>1. PICK d \in scan : name[d] = m /\ s3'[m].dir = d
      BY <2>1 DEF Taken
    <3>2. CASE \E e \in scan : name[e] = n /\ Taken(n, e, name, scan, source, at)
      BY <1>5, <3>1, <3>2 DEF Taken
    <3>3. CASE (\A e \in scan : name[e] # n) /\ Kept(n, scan)
      BY <1>4, <1>5, <3>1, <3>3
    <3>4. QED
      BY <1>2, <3>2, <3>3
  <2>2. CASE (\A d \in scan : name[d] # m) /\ Kept(m, scan)
    <3>1. CASE \E e \in scan : name[e] = n /\ Taken(n, e, name, scan, source, at)
      <4>1. PICK e \in scan : name[e] = n /\ s3'[n].dir = e
        BY <3>1 DEF Taken
      <4>2. QED
        BY <1>4, <1>5, <2>2, <4>1
    <3>2. CASE Kept(n, scan)
      <4>1. s3[m] # Absent /\ s3[n] # Absent /\ s3[m].dir = s3[n].dir
        BY <1>5, <2>2, <3>2 DEF Kept
      <4>2. QED
        BY <4>1 DEF Worktrees!RecordsAgree
    <3>3. QED
      BY <1>2, <3>1, <3>2
  <2>3. QED
    BY <1>2, <2>1, <2>2
<1>6. QED
  BY <1>1, <1>3, <1>5

\* Led by a source that is where it was, it also keeps what the tables and the
\* users say of each other.
LEMMA ReconcileSteady ==
  ASSUME NEW name, NEW scan, NEW source, NEW at, Steady(name, scan, source, at), Rows(name, scan, source, at),
         Worktrees!MadeStands, Worktrees!OneProject, Worktrees!MarksOK, UNCHANGED <<s8, s11>>
  PROVE  /\ \A n \in Worktrees!Names : s3'[n] # Absent => s2'[n] = s3'[n].dir
         /\ Worktrees!MadeStands' /\ Worktrees!OneProject'
         /\ \A d \in scan : \E n \in Worktrees!Names : s2'[n] = d /\ s3'[n] # Absent
<1>1. \A n \in Worktrees!Names :
        \/ \E d \in scan : name[d] = n /\ Taken(n, d, name, scan, source, at)
        \/ (\A d \in scan : name[d] # n) /\ Kept(n, scan)
  BY DEF Rows
<1>2. \A d \in scan : name[d] \in Worktrees!Names /\ d \in Worktrees!Dirs /\ d # Absent
  BY DirsNumbers DEF Steady
<1>3. ASSUME NEW d \in scan
      PROVE  Taken(name[d], d, name, scan, source, at) /\ s2'[name[d]] = d /\ s3'[name[d]].dir = d
  <2>1. PICK e \in scan : name[e] = name[d] /\ Taken(name[d], e, name, scan, source, at)
    BY <1>1, <1>2
  <2>2. e = d
    BY <2>1, NamesApart
  <2>3. s2[name[d]] \in {d, Absent}
    BY ProjectChosen
  <2>4. QED
    BY <2>1, <2>2, <2>3 DEF Taken
<1>4. ASSUME NEW n \in Worktrees!Names, s3'[n] # Absent
      PROVE  s2'[n] = s3'[n].dir
  <2>1. s3[n] # Absent => s2[n] = s3[n].dir
    BY DEF Worktrees!RecordsAgree, Steady
  <2>2. QED
    BY <1>1, <1>3, <1>4, <2>1 DEF Kept
<1>5. ASSUME NEW n \in s11'
      PROVE  s2'[n] # Absent /\ ~Worktrees!Discovered(n)'
  <2>1. n \in Worktrees!Names /\ s2[n] # Absent /\ ~Worktrees!Discovered(n)
    BY <1>5 DEF Worktrees!MadeStands, Worktrees!MarksOK, Steady
  <2>2. ASSUME NEW d \in scan, name[d] = n
        PROVE  s2'[n] # Absent /\ ~Worktrees!Discovered(n)'
    <3>1. s2[n] = d
      BY <2>1, <2>2, ProjectChosen
    <3>2. Worktrees!Configured(d, name, scan, source, at) # {}
      BY <2>1, <3>1, ConfiguredAre
    <3>3. n \in Worktrees!Configured(d, name, scan, source, at)
      BY <2>2, <3>2 DEF Steady, Worktrees!Choices
    <3>4. Taken(n, d, name, scan, source, at) /\ s2'[n] = d
      BY <1>3, <2>2
    <3>5. ~s3'[n].discovered
      BY <3>3, <3>4 DEF Taken
    <3>6. QED
      BY <1>2, <3>4, <3>5 DEF Worktrees!Discovered
  <2>3. CASE Kept(n, scan)
    BY <2>1, <2>3 DEF Kept, Worktrees!Discovered
  <2>4. QED
    BY <1>1, <2>1, <2>2, <2>3
<1>6. Worktrees!OneProject'
  <2> SUFFICES ASSUME ~s8, NEW m \in Worktrees!Names, NEW n \in Worktrees!Names, s2'[m] # Absent, s2'[m] = s2'[n]
               PROVE  m = n
    BY DEF Worktrees!OneProject
  <2>1. ASSUME NEW d \in scan, NEW k \in Worktrees!Names, \A e \in scan : name[e] # k, Kept(k, scan),
               s2'[k] # Absent
        PROVE  s2'[k] # d
    <3>1. s2'[k] = s2[k] /\ k # name[d]
      BY <2>1 DEF Kept
    <3>2. s2[k] = d => s2[name[d]] = d
      BY FreshNeedsNone
    <3>3. s2[k] # d
      BY <1>2, <2>1, <3>1, <3>2 DEF Worktrees!OneProject, Steady
    <3>4. QED
      BY <3>1, <3>3
  <2>2. ASSUME NEW d \in scan, name[d] = m PROVE m = n
    <3>1. s2'[n] = d /\ s2'[n] # Absent
      BY <1>3, <2>2
    <3>2. \E e \in scan : name[e] = n
      BY <1>1, <2>1, <3>1
    <3>3. QED
      BY <1>3, <2>2, <3>1, <3>2
  <2>3. CASE (\A d \in scan : name[d] # m) /\ Kept(m, scan)
    <3>1. ASSUME NEW e \in scan, name[e] = n PROVE m = n
      BY <1>3, <2>1, <2>3, <3>1
    <3>2. CASE Kept(n, scan)
      <4>1. s2[m] = s2'[m] /\ s2[n] = s2'[n]
        BY <2>3, <3>2 DEF Kept
      <4>2. QED
        BY <4>1 DEF Worktrees!OneProject, Steady
    <3>3. QED
      BY <1>1, <3>1, <3>2
  <2>4. QED
    BY <1>1, <2>2, <2>3
<1>7. ASSUME NEW d \in scan
      PROVE  \E n \in Worktrees!Names : s2'[n] = d /\ s3'[n] # Absent
  <2>1. s3'[name[d]] # Absent
    BY <1>3, SuiteAssumptions DEF Taken, Worktrees!WorktreeAssumption
  <2>2. QED
    BY <1>2, <1>3, <2>1
<1>8. QED
  BY <1>4, <1>5, <1>6, <1>7 DEF Worktrees!MadeStands

LEMMA ReconcileStep ==
  ASSUME Worktrees!WorktreesInv, NEW r \in Refreshers, Worktrees!Reconcile(r)
  PROVE  Worktrees!WorktreesInv'
<1> DEFINE scan == s4[r].scan
           source == s4[r].source
           at == s4[r].at
           v == [s4[r] EXCEPT !.stage = "look", !.scan = {}]
<1>1. /\ s4[r].stage = "reconcile" /\ UNCHANGED <<s1, s6, s7, s8, s9, s11>>
  BY DEF Worktrees!Reconcile, Worktrees!history
<1>2. /\ Worktrees!TablesOK /\ Worktrees!RefreshersOK /\ Worktrees!MarksOK /\ Worktrees!RecordsAgree
      /\ Worktrees!MadeStands /\ Worktrees!OneProject /\ Worktrees!DiscoveryMirrorsDisk
      /\ Worktrees!Seen /\ Worktrees!Lists(r) /\ (s9 \/ Worktrees!Knows(r)) /\ s4[r] \in Worktrees!Refresher
  BY DEF Worktrees!WorktreesInv, Worktrees!TypeOK, Worktrees!Seen, Worktrees!HolderKnows,
     Worktrees!RefreshersOK
<1>3. PICK name \in [scan -> Worktrees!Names] :
        /\ \A d \in scan : name[d] \in Worktrees!Choices(d, name, scan, source, at)
        /\ IF s2[source] = Absent \/ Worktrees!Conflicts(name, scan)
             THEN /\ Worktrees!Finish(r) /\ UNCHANGED <<s2, s3, s12>>
                  /\ s10' = (s10 \/ (s2[source] = at /\ scan = Worktrees!OnDisk))
             ELSE /\ Worktrees!Reconciled(name, scan, source, at)
                  /\ s12' = (s12 \/ s2[source] # at) /\ s10' = (scan = Worktrees!OnDisk)
                  /\ \/ s4' = [s4 EXCEPT ![r] = v] /\ s5' = s5
                     \/ Worktrees!Finish(r)
  BY <1>2 DEF Worktrees!Reconcile, Worktrees!tables, Worktrees!RefreshersOK
<1>4. /\ scan \in SUBSET Worktrees!Dirs /\ Worktrees!Main \in scan
      /\ source \in Worktrees!Names /\ at \in Worktrees!Dirs
  BY <1>1, <1>2 DEF Worktrees!Refresher, Worktrees!Lists
<1>5. /\ Worktrees!RefreshersOK' /\ \A p \in Refreshers \ {r} : s4'[p] = s4[p] /\ (s5 = p => s5' = p)
      /\ s4'[r].stage \in {"idle", "insert", "look"} /\ s4'[r].scan = {}
      /\ (s4'[r].stage = "look" => s5' = s5)
  <2>1. CASE Worktrees!Finish(r)
    BY <1>2, <2>1, RefresherEnds
  <2>2. CASE s4' = [s4 EXCEPT ![r] = v] /\ s5' = s5
    <3>1. v \in Worktrees!Refresher /\ v.stage = "look" /\ v.scan = {}
      BY <1>2 DEF Worktrees!Refresher
    <3>2. s5' \in Refreshers \cup {Absent}
      BY <1>2, <2>2 DEF Worktrees!RefreshersOK
    <3>3. Worktrees!RefreshersOK' /\ s4'[r] = v /\ \A p \in Refreshers \ {r} : s4'[p] = s4[p]
      BY <1>2, <2>2, <3>1, <3>2, RefresherSet
    <3>4. QED
      BY <2>2, <3>1, <3>3
  <2>3. QED
    BY <1>3, <2>1, <2>2
<1>6. Worktrees!MarksOK'
  <2>1. s10' \in BOOLEAN /\ s12' \in BOOLEAN
    <3>1. /\ \/ s10' = (s10 \/ (s2[source] = at /\ scan = Worktrees!OnDisk))
             \/ s10' = (scan = Worktrees!OnDisk)
          /\ s12' = s12 \/ s12' = (s12 \/ s2[source] # at)
          /\ s12 \in BOOLEAN
      BY <1>2, <1>3 DEF Worktrees!MarksOK
    <3>2. QED
      BY ONLY <3>1, Zenon
  <2>2. QED
    BY <1>1, <1>2, <2>1 DEF Worktrees!MarksOK
<1>7. \A p \in Refreshers : Worktrees!Lists(p)'
  <2>1. Worktrees!Lists(r)'
    BY <1>5 DEF Worktrees!Lists
  <2>2. ASSUME NEW p \in Refreshers \ {r} PROVE Worktrees!Lists(p)'
    <3>1. Worktrees!Lists(p) /\ s4'[p] = s4[p] /\ s1' = s1
      BY <1>1, <1>2, <1>5 DEF Worktrees!Seen
    <3>2. QED
      BY ONLY <3>1 DEF Worktrees!Lists
  <2>3. QED
    BY <2>1, <2>2
<1>8. ASSUME ~s9, NEW p \in Refreshers
      PROVE  s4'[p].scan = {} /\ (s4'[p].stage \in {"list", "scan", "reconcile", "look"} => s5' = p)
  <2>1. s5 = r /\ Worktrees!Knows(p) /\ Worktrees!Lists(p)
    BY <1>1, <1>2, <1>8 DEF Worktrees!WorktreesInv, Worktrees!HolderKnows,
       Worktrees!Knows, Worktrees!Seen
  <2>2. CASE p = r
    BY <1>5, <2>1, <2>2
  <2>3. CASE p # r
    <3>1. s4'[p] = s4[p] /\ s5 # p
      BY <1>5, <2>1, <2>3
    <3>2. QED
      BY ONLY <2>1, <3>1 DEF Worktrees!Knows, Worktrees!Lists
  <2>4. QED
    BY <2>2, <2>3
<1>9. Worktrees!HolderKnows'
  BY <1>1, <1>8 DEF Worktrees!HolderKnows, Worktrees!Knows
<1>10. s2[source] = at /\ ~s12 => Steady(name, scan, source, at)
  BY <1>2, <1>3, <1>4 DEF Steady
<1>11. CASE s2[source] = Absent \/ Worktrees!Conflicts(name, scan)
  <2>1. UNCHANGED <<s2, s3, s12>> /\ s10' = (s10 \/ (s2[source] = at /\ scan = Worktrees!OnDisk))
    BY <1>3, <1>11
  <2>2. s8 \/ s12 \/ s10' = s10
    <3>1. s2[source] = at /\ ~s12 => s8
      BY <1>2, <1>4, <1>10, <1>11, NoConflict, DirsNumbers
    <3>2. QED
      BY <1>2, <2>1, <3>1 DEF Worktrees!MarksOK
  <2>3. Worktrees!RecordsAgree' /\ Worktrees!MadeStands' /\ Worktrees!OneProject'
    BY <1>1, <1>2, <2>1 DEF Worktrees!RecordsAgree, Worktrees!MadeStands, Worktrees!OneProject,
       Worktrees!Discovered
  <2>4. Worktrees!DiscoveryMirrorsDisk'
    BY <1>1, <1>2, <2>1, <2>2 DEF Worktrees!DiscoveryMirrorsDisk, Worktrees!Mirrored, Worktrees!OnDisk,
       Worktrees!Discovered
  <2>5. Worktrees!Seen'
    BY ONLY <1>1, <1>2, <1>7, <2>1 DEF Worktrees!Seen
  <2>6. Worktrees!TypeOK'
    BY <1>2, <1>5, <1>6, <2>1 DEF Worktrees!TypeOK, Worktrees!TablesOK
  <2>7. QED
    BY <1>9, <2>3, <2>4, <2>5, <2>6 DEF Worktrees!WorktreesInv
<1>12. CASE s2[source] # Absent /\ ~Worktrees!Conflicts(name, scan)
  <2>1. /\ Worktrees!Reconciled(name, scan, source, at) /\ s10' = (scan = Worktrees!OnDisk)
        /\ s12' = (s12 \/ s2[source] # at)
    BY <1>3, <1>12
  <2>2. /\ Worktrees!TablesOK' /\ Rows(name, scan, source, at)
        /\ \A m, n \in Worktrees!Names :
             s3'[m] # Absent /\ s3'[n] # Absent /\ s3'[m].dir = s3'[n].dir => m = n
    BY <1>2, <1>4, <1>12, <2>1, ReconcileTables
  <2>3. ~s12' => /\ \A n \in Worktrees!Names : s3'[n] # Absent => s2'[n] = s3'[n].dir
                 /\ Worktrees!MadeStands' /\ Worktrees!OneProject'
                 /\ \A d \in scan : \E n \in Worktrees!Names : s2'[n] = d /\ s3'[n] # Absent
    <3>1. ~s12' => Steady(name, scan, source, at)
      BY <1>10, <2>1
    <3>2. QED
      BY <1>1, <1>2, <2>2, <3>1, ReconcileSteady
  <2>4. Worktrees!RecordsAgree' /\ Worktrees!MadeStands' /\ Worktrees!OneProject'
    BY <2>2, <2>3 DEF Worktrees!RecordsAgree, Worktrees!MadeStands, Worktrees!OneProject
  <2>5. Worktrees!Seen'
    <3>1. ASSUME NEW n \in Worktrees!Names, s3'[n] # Absent, s3'[n].dir \in Linked
          PROVE  s1[s3'[n].dir] # "new"
      <4>1. CASE \E d \in scan : Taken(n, d, name, scan, source, at)
        BY <1>2, <3>1, <4>1 DEF Taken, Worktrees!Lists
      <4>2. CASE Kept(n, scan)
        <5>1. s3'[n] = s3[n]
          BY <3>1, <4>2 DEF Kept
        <5>2. QED
          BY <1>2, <3>1, <5>1 DEF Worktrees!Seen
      <4>3. QED
        BY <2>2, <4>1, <4>2 DEF Rows
    <3>2. QED
      BY <1>1, <1>7, <3>1 DEF Worktrees!Seen
  <2>6. Worktrees!DiscoveryMirrorsDisk'
    <3> SUFFICES ASSUME scan = Worktrees!OnDisk, ~s12'
                 PROVE  /\ \A d \in scan : \E n \in Worktrees!Names : s2'[n] = d /\ s3'[n] # Absent
                        /\ \A n \in Worktrees!Names : Worktrees!Discovered(n)' => s3'[n].dir \in scan
      BY <1>1, <2>1 DEF Worktrees!DiscoveryMirrorsDisk, Worktrees!Mirrored,
         Worktrees!OnDisk
    <3>1. ASSUME NEW n \in Worktrees!Names, Worktrees!Discovered(n)'
          PROVE  s3'[n].dir \in scan
      <4>1. CASE \E d \in scan : Taken(n, d, name, scan, source, at)
        BY <4>1 DEF Taken
      <4>2. CASE Kept(n, scan)
        BY <3>1, <4>2 DEF Kept, Worktrees!Discovered
      <4>3. QED
        BY <2>2, <4>1, <4>2 DEF Rows
    <3>2. QED
      BY <2>3, <3>1
  <2>7. Worktrees!TypeOK'
    BY <1>5, <1>6, <2>2 DEF Worktrees!TypeOK
  <2>8. QED
    BY <1>9, <2>4, <2>5, <2>6, <2>7 DEF Worktrees!WorktreesInv
<1>13. QED
  BY <1>11, <1>12

\* A request makes its project.
LEMMA InsertStep ==
  ASSUME Worktrees!WorktreesInv, NEW r \in Refreshers, NEW n \in UserNames, Worktrees!Insert(r, n)
  PROVE  Worktrees!WorktreesInv'
<1> DEFINE d == s4[r].dir
<1>1. /\ s4[r].stage = "insert" /\ Worktrees!Finish(r) /\ UNCHANGED <<s1, s3, s6, s7, s9, s12>> /\ s10' = FALSE
      /\ s2' = (IF s2[n] = Absent THEN [s2 EXCEPT ![n] = d] ELSE s2)
      /\ s11' = (IF s2[n] = Absent THEN s11 \cup {n} ELSE s11)
      /\ s8' = (s8 \/ \E k \in Worktrees!Names : s2[k] = d)
  BY DEF Worktrees!Insert
<1>2. /\ Worktrees!TablesOK /\ Worktrees!RefreshersOK /\ Worktrees!MarksOK /\ Worktrees!RecordsAgree
      /\ Worktrees!MadeStands /\ Worktrees!OneProject
      /\ Worktrees!Seen /\ Worktrees!HolderKnows /\ n \in Worktrees!Names /\ Worktrees!WorktreeAssumption
  BY SuiteAssumptions DEF Worktrees!WorktreesInv, Worktrees!TypeOK, Worktrees!Names
<1>3. d \in Worktrees!Dirs /\ Absent \notin Worktrees!Dirs
  BY <1>2, DirsNumbers DEF Worktrees!RefreshersOK, Worktrees!Refresher
<1>4. /\ Worktrees!RefreshersOK' /\ \A p \in Refreshers \ {r} : s4'[p] = s4[p] /\ (s5 = p => s5' = p)
      /\ s4'[r].stage \in {"idle", "insert"} /\ s4'[r].scan = {}
  BY <1>1, <1>2, RefresherEnds
<1>5. \A k \in Worktrees!Names : s2'[k] = IF k = n /\ s2[n] = Absent THEN d ELSE s2[k]
  BY <1>1, <1>2 DEF Worktrees!TablesOK
<1>6. Worktrees!TypeOK'
  <2>1. Worktrees!TablesOK'
    BY <1>1, <1>2, <1>3 DEF Worktrees!TablesOK
  <2>2. s8' \in BOOLEAN /\ s10' \in BOOLEAN
    BY ONLY <1>1, Zenon
  <2>3. s11' \in SUBSET Worktrees!Names
    BY <1>1, <1>2 DEF Worktrees!MarksOK
  <2>4. Worktrees!MarksOK'
    BY <1>1, <1>2, <2>2, <2>3 DEF Worktrees!MarksOK
  <2>5. QED
    BY <1>4, <2>1, <2>4 DEF Worktrees!TypeOK
<1>7. ASSUME ~s12, NEW k \in Worktrees!Names, s3[k] # Absent
      PROVE  s2[k] # Absent /\ s2'[k] = s3[k].dir
  <2>1. s3[k] \in Worktrees!Row /\ s2[k] = s3[k].dir
    BY <1>2, <1>7 DEF Worktrees!TablesOK, Worktrees!RecordsAgree
  <2>2. s2[k] # Absent
    BY <1>3, <2>1 DEF Worktrees!Row
  <2>3. QED
    BY <1>5, <2>1, <2>2
<1>8. Worktrees!RecordsAgree'
  BY <1>1, <1>2, <1>7 DEF Worktrees!RecordsAgree
<1>9. Worktrees!MadeStands'
  <2> SUFFICES ASSUME ~s12, NEW k \in s11' PROVE s2'[k] # Absent /\ ~Worktrees!Discovered(k)'
    BY <1>1 DEF Worktrees!MadeStands
  <2>1. CASE k \in s11
    <3>1. k \in Worktrees!Names /\ s2[k] # Absent /\ ~Worktrees!Discovered(k)
      BY <1>2, <2>1 DEF Worktrees!MadeStands, Worktrees!MarksOK
    <3>2. QED
      BY <1>1, <1>5, <3>1 DEF Worktrees!Discovered
  <2>2. CASE k = n /\ s2[n] = Absent
    <3>1. s3[n] = Absent
      BY <1>2, <1>7, <2>2
    <3>2. QED
      BY <1>1, <1>2, <1>3, <1>5, <2>2, <3>1 DEF Worktrees!Discovered
  <2>3. QED
    BY <1>1, <2>1, <2>2
<1>10. Worktrees!OneProject'
  <2> SUFFICES ASSUME ~s8', ~s12, NEW m \in Worktrees!Names, NEW k \in Worktrees!Names, s2'[m] # Absent,
                      s2'[m] = s2'[k]
               PROVE  m = k
    BY <1>1 DEF Worktrees!OneProject
  <2>1. ~s8 /\ \A j \in Worktrees!Names : s2[j] # d
    BY <1>1
  <2>2. s2[m] # Absent /\ s2[m] = s2[k] => m = k
    BY <1>2, <2>1 DEF Worktrees!OneProject
  <2>3. QED
    BY <1>5, <2>1, <2>2
<1>11. Worktrees!Seen' /\ Worktrees!HolderKnows'
  BY <1>1, <1>2, <1>4 DEF Worktrees!Seen, Worktrees!Lists, Worktrees!HolderKnows,
     Worktrees!Knows, Worktrees!Discovered
<1>12. Worktrees!DiscoveryMirrorsDisk'
  BY <1>1 DEF Worktrees!DiscoveryMirrorsDisk, Worktrees!Mirrored
<1>13. QED
  BY <1>6, <1>8, <1>9, <1>10, <1>11, <1>12 DEF Worktrees!WorktreesInv

\* Users, and Git.
LEMMA UsersStep ==
  ASSUME Worktrees!WorktreesInv,
         \/ \E n \in {Primary} \cup UserNames \cup {<<d, 1>> : d \in Linked}, d \in Worktrees!Dirs : Worktrees!PutProject(n, d)
         \/ \E n \in Worktrees!Names : Worktrees!DeleteProject(n)
         \/ \E n \in Worktrees!Names, archived \in BOOLEAN : Worktrees!SetArchived(n, archived)
         \/ \E d \in Linked : Worktrees!AddWorktree(d) \/ Worktrees!RemoveWorktree(d)
  PROVE  Worktrees!WorktreesInv' /\ s4' = s4
<1>1. /\ Worktrees!TablesOK /\ Worktrees!RefreshersOK /\ Worktrees!MarksOK /\ Worktrees!RecordsAgree
      /\ Worktrees!MadeStands /\ Worktrees!OneProject
      /\ Worktrees!Seen /\ Worktrees!HolderKnows /\ Worktrees!DiscoveryMirrorsDisk /\ Worktrees!WorktreeAssumption
      /\ Absent \notin Worktrees!Dirs
  BY SuiteAssumptions, DirsNumbers DEF Worktrees!WorktreesInv, Worktrees!TypeOK
<1>2. {Primary} \cup UserNames \cup {<<d, 1>> : d \in Linked} \subseteq Worktrees!Names
  <2>1. ASSUME NEW d \in Linked PROVE <<d, 1>> \in Worktrees!Derived
    BY <1>1 DEF Worktrees!WorktreeAssumption, Worktrees!Derived, Worktrees!Dirs
  <2>2. QED
    BY <2>1 DEF Worktrees!Names
<1>3. ASSUME NEW n \in Worktrees!Names, NEW d \in Worktrees!Dirs, Worktrees!PutProject(n, d)
      PROVE  Worktrees!WorktreesInv' /\ s4' = s4
  <2>1. /\ s6 < MaxProjectPuts /\ s6' = s6 + 1 /\ UNCHANGED <<s1, s4, s5, s7, s9, s12>> /\ s10' = FALSE
        /\ s2' = [s2 EXCEPT ![n] = d] /\ s3' = [s3 EXCEPT ![n] = Absent] /\ s11' = s11 \cup {n}
        /\ s8' = (s8 \/ \E k \in Worktrees!Names \ {n} : s2[k] = d)
    BY <1>3 DEF Worktrees!PutProject
  <2>2. \A k \in Worktrees!Names : /\ s2'[k] = IF k = n THEN d ELSE s2[k]
                           /\ s3'[k] = IF k = n THEN Absent ELSE s3[k]
    BY <1>1, <2>1 DEF Worktrees!TablesOK
  <2>3. Worktrees!TypeOK'
    <3>1. Worktrees!TablesOK' /\ Worktrees!RefreshersOK'
      BY <1>1, <2>1 DEF Worktrees!TablesOK, Worktrees!RefreshersOK
    <3>2. s6' \in 0..MaxProjectPuts /\ s11' \in SUBSET Worktrees!Names
      BY <1>1, <2>1 DEF Worktrees!MarksOK, Worktrees!WorktreeAssumption
    <3>3. s8' \in BOOLEAN /\ s10' \in BOOLEAN
      BY ONLY <2>1, Zenon
    <3>4. Worktrees!MarksOK'
      BY <1>1, <2>1, <3>2, <3>3 DEF Worktrees!MarksOK
    <3>5. QED
      BY <3>1, <3>4 DEF Worktrees!TypeOK
  <2>4. Worktrees!RecordsAgree'
    BY <1>1, <2>1, <2>2 DEF Worktrees!RecordsAgree
  <2>5. Worktrees!MadeStands'
    <3> SUFFICES ASSUME ~s12, NEW k \in s11 \cup {n} PROVE s2'[k] # Absent /\ ~Worktrees!Discovered(k)'
      BY <2>1 DEF Worktrees!MadeStands
    <3>1. k # n => k \in Worktrees!Names /\ s2[k] # Absent /\ ~Worktrees!Discovered(k)
      BY <1>1 DEF Worktrees!MadeStands, Worktrees!MarksOK
    <3>2. QED
      BY <1>1, <1>3, <2>2, <3>1 DEF Worktrees!Discovered
  <2>6. Worktrees!OneProject'
    <3> SUFFICES ASSUME ~s8', ~s12, NEW m \in Worktrees!Names, NEW k \in Worktrees!Names, s2'[m] # Absent,
                        s2'[m] = s2'[k]
                 PROVE  m = k
      BY <2>1 DEF Worktrees!OneProject
    <3>1. ~s8 /\ \A j \in Worktrees!Names \ {n} : s2[j] # d
      BY <2>1
    <3>2. s2[m] # Absent /\ s2[m] = s2[k] => m = k
      BY <1>1, <3>1 DEF Worktrees!OneProject
    <3>3. QED
      BY <2>2, <3>1, <3>2
  <2>7. Worktrees!Seen' /\ Worktrees!HolderKnows' /\ Worktrees!DiscoveryMirrorsDisk'
    BY <1>1, <2>1, <2>2 DEF Worktrees!Seen, Worktrees!Lists, Worktrees!HolderKnows,
       Worktrees!Knows, Worktrees!Discovered,
       Worktrees!DiscoveryMirrorsDisk, Worktrees!Mirrored
  <2>8. QED
    BY <2>1, <2>3, <2>4, <2>5, <2>6, <2>7 DEF Worktrees!WorktreesInv
<1>4. ASSUME NEW n \in Worktrees!Names, Worktrees!DeleteProject(n)
      PROVE  Worktrees!WorktreesInv' /\ s4' = s4
  <2>1. /\ UNCHANGED <<s1, s4, s5, s6, s7, s8, s9, s12>> /\ s10' = FALSE /\ s11' = s11 \ {n}
        /\ s2' = [s2 EXCEPT ![n] = Absent] /\ s3' = [s3 EXCEPT ![n] = Absent]
    BY <1>4 DEF Worktrees!DeleteProject
  <2>2. \A k \in Worktrees!Names : /\ s2'[k] = IF k = n THEN Absent ELSE s2[k]
                           /\ s3'[k] = IF k = n THEN Absent ELSE s3[k]
    BY <1>1, <2>1 DEF Worktrees!TablesOK
  <2>3. Worktrees!TypeOK'
    BY <1>1, <2>1 DEF Worktrees!TypeOK, Worktrees!TablesOK, Worktrees!RefreshersOK,
       Worktrees!MarksOK
  <2>4. Worktrees!RecordsAgree' /\ Worktrees!OneProject'
    BY <1>1, <2>1, <2>2 DEF Worktrees!RecordsAgree, Worktrees!OneProject
  <2>5. Worktrees!MadeStands'
    <3> SUFFICES ASSUME ~s12, NEW k \in s11 \ {n} PROVE s2'[k] # Absent /\ ~Worktrees!Discovered(k)'
      BY <2>1 DEF Worktrees!MadeStands
    <3>1. k \in Worktrees!Names /\ s2[k] # Absent /\ ~Worktrees!Discovered(k)
      BY <1>1 DEF Worktrees!MadeStands, Worktrees!MarksOK
    <3>2. QED
      BY <2>2, <3>1 DEF Worktrees!Discovered
  <2>6. Worktrees!Seen' /\ Worktrees!HolderKnows' /\ Worktrees!DiscoveryMirrorsDisk'
    BY <1>1, <2>1, <2>2 DEF Worktrees!Seen, Worktrees!Lists, Worktrees!HolderKnows,
       Worktrees!Knows, Worktrees!Discovered,
       Worktrees!DiscoveryMirrorsDisk, Worktrees!Mirrored
  <2>7. QED
    BY <2>1, <2>3, <2>4, <2>5, <2>6 DEF Worktrees!WorktreesInv
<1>5. ASSUME NEW n \in Worktrees!Names, NEW archived \in BOOLEAN, Worktrees!SetArchived(n, archived)
      PROVE  Worktrees!WorktreesInv' /\ s4' = s4
  <2> DEFINE row == [s3[n] EXCEPT !.archived = archived]
  <2>1. /\ UNCHANGED <<s1, s2, s4, s5, s6, s7, s8, s9, s10, s11, s12>> /\ Worktrees!Discovered(n)
        /\ s3' = [s3 EXCEPT ![n] = row]
    BY <1>1, <1>5 DEF Worktrees!SetArchived, Worktrees!history, Worktrees!TablesOK
  <2>2. s3[n] \in Worktrees!Row
    BY <1>1, <2>1 DEF Worktrees!TablesOK, Worktrees!Discovered
  <2>3. row \in Worktrees!Row /\ row.dir = s3[n].dir /\ row.discovered = s3[n].discovered /\ row # Absent
    <3>1. row \in Worktrees!Row /\ row.dir = s3[n].dir /\ row.discovered = s3[n].discovered
      BY <2>2 DEF Worktrees!Row
    <3>2. QED
      BY <1>1, <3>1 DEF Worktrees!WorktreeAssumption
  <2>4. ASSUME NEW k \in Worktrees!Names
        PROVE  /\ s3'[k] # Absent <=> s3[k] # Absent
               /\ s3[k] # Absent => s3'[k].dir = s3[k].dir /\ (s3'[k].discovered <=> s3[k].discovered)
    <3>1. s3'[k] = IF k = n THEN row ELSE s3[k]
      BY <1>1, <2>1 DEF Worktrees!TablesOK
    <3>2. s3[n] # Absent
      BY <2>1 DEF Worktrees!Discovered
    <3> HIDE DEF row
    <3>3. QED
      BY <2>3, <3>1, <3>2
  <2>5. Worktrees!TypeOK'
    BY <1>1, <2>1, <2>3 DEF Worktrees!TypeOK, Worktrees!TablesOK,
       Worktrees!RefreshersOK, Worktrees!MarksOK
  <2>6. Worktrees!RecordsAgree' /\ Worktrees!OneProject'
    BY <1>1, <2>1, <2>4 DEF Worktrees!RecordsAgree, Worktrees!OneProject
  <2>7. Worktrees!MadeStands'
    BY <1>1, <2>1, <2>4 DEF Worktrees!MadeStands, Worktrees!Discovered, Worktrees!MarksOK
  <2>8. Worktrees!Seen' /\ Worktrees!HolderKnows' /\ Worktrees!DiscoveryMirrorsDisk'
    BY <1>1, <2>1, <2>4 DEF Worktrees!Seen, Worktrees!Lists, Worktrees!HolderKnows,
       Worktrees!Knows, Worktrees!Discovered,
       Worktrees!DiscoveryMirrorsDisk, Worktrees!Mirrored, Worktrees!OnDisk
  <2>9. QED
    BY <2>1, <2>5, <2>6, <2>7, <2>8 DEF Worktrees!WorktreesInv
<1>6. ASSUME NEW d \in Linked, Worktrees!AddWorktree(d) \/ Worktrees!RemoveWorktree(d)
      PROVE  Worktrees!WorktreesInv' /\ s4' = s4
  <2>1. /\ UNCHANGED <<s2, s3, s4, s5, s6, s7, s8, s9, s11, s12>> /\ s10' = FALSE
        /\ \/ s1[d] = "new" /\ s1' = [s1 EXCEPT ![d] = "present"]
           \/ s1[d] = "present" /\ s1' = [s1 EXCEPT ![d] = "gone"]
    BY <1>6 DEF Worktrees!AddWorktree, Worktrees!RemoveWorktree, Worktrees!tables,
       Worktrees!history
  <2>2. /\ s1' \in [Linked -> {"new", "present", "gone"}]
        /\ \A e \in Linked : /\ s1'[e] = "new" => s1[e] = "new"
                             /\ s1[e] = "gone" => s1'[e] = "gone"
    BY <1>1, <2>1 DEF Worktrees!MarksOK
  <2>3. Worktrees!TypeOK'
    BY <1>1, <2>1, <2>2 DEF Worktrees!TypeOK, Worktrees!TablesOK,
       Worktrees!RefreshersOK, Worktrees!MarksOK
  <2>4. Worktrees!RecordsAgree' /\ Worktrees!OneProject' /\ Worktrees!MadeStands' /\ Worktrees!DiscoveryMirrorsDisk'
    BY <1>1, <2>1 DEF Worktrees!RecordsAgree, Worktrees!OneProject, Worktrees!Discovered,
       Worktrees!MadeStands, Worktrees!DiscoveryMirrorsDisk, Worktrees!Mirrored
  <2>5. Worktrees!Seen' /\ Worktrees!HolderKnows'
    BY <1>1, <2>1, <2>2 DEF Worktrees!Seen, Worktrees!Lists, Worktrees!HolderKnows,
       Worktrees!Knows, Worktrees!Discovered
  <2>6. QED
    BY <2>1, <2>3, <2>4, <2>5 DEF Worktrees!WorktreesInv
<1>7. QED
  BY <1>2, <1>3, <1>4, <1>5, <1>6

LEMMA WorktreesStep ==
  ASSUME Worktrees!WorktreesInv, [Worktrees!Next]_(Worktrees!vars)
  PROVE  Worktrees!WorktreesInv'
<1>1. ASSUME NEW r \in Refreshers, Worktrees!Refresh(r)
      PROVE  Worktrees!WorktreesInv'
  BY <1>1, RefreshGoesOn, ReconcileStep, InsertStep DEF Worktrees!Refresh
<1>2. CASE UNCHANGED Worktrees!vars
  BY <1>2 DEF Worktrees!vars, Worktrees!tables, Worktrees!history,
     Worktrees!WorktreesInv, Worktrees!TypeOK, Worktrees!TablesOK, Worktrees!RefreshersOK,
     Worktrees!MarksOK, Worktrees!RecordsAgree, Worktrees!OneProject, Worktrees!MadeStands,
     Worktrees!DiscoveryMirrorsDisk, Worktrees!Mirrored, Worktrees!OnDisk,
     Worktrees!Seen, Worktrees!Lists, Worktrees!HolderKnows, Worktrees!Knows, Worktrees!Discovered
<1>3. QED
  BY <1>1, <1>2, UsersStep DEF Worktrees!Next

\* What a step of a refresh spares.
LEMMA RefreshSpares ==
  ASSUME Worktrees!WorktreesInv, [Worktrees!Next]_(Worktrees!vars)
  PROVE  Worktrees!LockedDropsOnlyGone /\ Worktrees!UserChoicesKept
<1> SUFFICES ASSUME s4' # s4
             PROVE  Worktrees!LockedDropsOnlyGone /\ Worktrees!UserChoicesKept
  BY DEF Worktrees!LockedDropsOnlyGone, Worktrees!UserChoicesKept
<1>1. /\ Worktrees!TablesOK /\ Worktrees!RefreshersOK /\ Worktrees!MarksOK /\ Worktrees!RecordsAgree
      /\ Worktrees!MadeStands /\ Worktrees!Seen /\ Worktrees!HolderKnows /\ Absent \notin Worktrees!Dirs
  BY DirsNumbers DEF Worktrees!WorktreesInv, Worktrees!TypeOK
<1>2. \A n \in s11 : n \in Worktrees!Names /\ (~s12 => s2[n] # Absent /\ ~Worktrees!Discovered(n))
  BY <1>1 DEF Worktrees!MadeStands, Worktrees!MarksOK
<1>3. CASE UNCHANGED <<s2, s3>>
  BY <1>3 DEF Worktrees!LockedDropsOnlyGone, Worktrees!UserChoicesKept
<1>4. ASSUME NEW r \in Refreshers, NEW n \in UserNames, Worktrees!Insert(r, n)
      PROVE  Worktrees!LockedDropsOnlyGone /\ Worktrees!UserChoicesKept
  <2>1. s3' = s3 /\ s12' = s12 /\ s2' = (IF s2[n] = Absent THEN [s2 EXCEPT ![n] = s4[r].dir] ELSE s2)
    BY <1>4 DEF Worktrees!Insert
  <2>2. \A k \in Worktrees!Names : s2[k] # Absent => s2'[k] = s2[k]
    BY <1>1, <2>1 DEF Worktrees!TablesOK
  <2>3. QED
    BY <1>2, <2>1, <2>2 DEF Worktrees!LockedDropsOnlyGone, Worktrees!UserChoicesKept
<1>5. ASSUME NEW r \in Refreshers, Worktrees!Reconcile(r)
      PROVE  Worktrees!LockedDropsOnlyGone /\ Worktrees!UserChoicesKept
  <2> DEFINE scan == s4[r].scan
             source == s4[r].source
             at == s4[r].at
  <2>1. PICK name \in [scan -> Worktrees!Names] :
          \/ UNCHANGED <<s2, s3>>
          \/ Worktrees!Reconciled(name, scan, source, at) /\ s12' = (s12 \/ s2[source] # at)
    BY <1>5 DEF Worktrees!Reconcile, Worktrees!tables
  <2>2. /\ scan \in SUBSET Worktrees!Dirs /\ s4[r].stage = "reconcile" /\ (s9 \/ Worktrees!Knows(r))
        /\ scan # {} /\ \A d \in scan : d # Absent
    <3>1. s4[r] \in Worktrees!Refresher /\ Worktrees!Lists(r)
      BY <1>1 DEF Worktrees!RefreshersOK, Worktrees!Seen
    <3>2. scan \in SUBSET Worktrees!Dirs
      BY <3>1 DEF Worktrees!Refresher
    <3>3. QED
      BY <1>1, <1>5, <3>1, <3>2 DEF Worktrees!Reconcile, Worktrees!HolderKnows, Worktrees!Lists
  <2>3. CASE UNCHANGED <<s2, s3>>
    BY <1>3, <2>3
  <2>4. SUFFICES ASSUME Worktrees!Reconciled(name, scan, source, at), s12' = (s12 \/ s2[source] # at)
                 PROVE  Worktrees!LockedDropsOnlyGone /\ Worktrees!UserChoicesKept
    BY <2>1, <2>3
  <2>5. Rows(name, scan, source, at)
    BY <1>1, <2>2, <2>4, ReconciledRows
  <2>6. \A n \in Worktrees!Names :
          \/ \E d \in scan : Taken(n, d, name, scan, source, at)
          \/ Kept(n, scan)
    BY <2>5 DEF Rows
  <2>7. Worktrees!LockedDropsOnlyGone
    <3> SUFFICES ASSUME ~s9, NEW n \in Worktrees!Names, s2[n] # Absent, s2'[n] = Absent
                 PROVE  s3[n].dir \in Linked /\ s1[s3[n].dir] = "gone"
      BY DEF Worktrees!LockedDropsOnlyGone
    <3>1. Kept(n, scan)
      BY <2>2, <2>6 DEF Taken
    <3>2. Worktrees!Discovered(n) /\ s3[n].dir \notin scan
      BY <3>1 DEF Kept
    <3>3. Worktrees!Knows(r) /\ scan # {}
      BY <2>2
    <3>4. QED
      BY ONLY <3>2, <3>3, n \in Worktrees!Names DEF Worktrees!Knows
  <2>8. ASSUME ~s12', NEW n \in s11
        PROVE  s2'[n] = s2[n]
    <3>1. n \in Worktrees!Names /\ s2[n] # Absent /\ ~Worktrees!Discovered(n)
      BY <1>2, <2>4, <2>8
    <3>2. QED
      BY <2>6, <3>1 DEF Taken, Kept
  <2>9. ASSUME NEW n \in Worktrees!Names, s3[n] # Absent, s3'[n] # Absent
        PROVE  s3'[n].archived = s3[n].archived
    <3>1. CASE \E d \in scan : Taken(n, d, name, scan, source, at)
      BY <2>9, <3>1 DEF Taken, Worktrees!Unarchived
    <3>2. CASE Kept(n, scan)
      BY <2>9, <3>2 DEF Kept
    <3>3. QED
      BY <2>6, <3>1, <3>2
  <2>10. QED
    BY <2>7, <2>8, <2>9 DEF Worktrees!UserChoicesKept
<1>6. QED
  BY <1>3, <1>4, <1>5, UsersStep, RefreshGoesOn
  DEF Worktrees!Next, Worktrees!Refresh, Worktrees!vars

\* Unless a project that led a refresh had moved away, the tables of projects
\* and of worktrees agree, and after a refresh that knows the disk the discovered
\* projects are its worktrees (server/git/discovery.rs, storage/worktrees.rs).
THEOREM ServerWorktrees == SuiteSpec => []WorktreesConsistent
<1> DEFINE Keeps == focus = "worktrees" => Worktrees!WorktreesInv
<1>1. SuiteInit => Keeps
  BY WorktreesInit DEF SuiteInit, FocusInit
<1>2. Keeps /\ [SuiteNext]_suite => Keeps'
  <2> SUFFICES ASSUME Keeps, [SuiteNext]_suite, focus' = "worktrees"
               PROVE  Worktrees!WorktreesInv'
    OBVIOUS
  <2>1. Worktrees!WorktreesInv
    BY DEF SuiteNext, suite
  <2>2. [Worktrees!Next]_(Worktrees!vars)
    BY DEF SuiteNext, FocusNext, suite, Worktrees!vars, Worktrees!tables,
       Worktrees!history
  <2>3. QED
    BY <2>1, <2>2, WorktreesStep
<1>3. Keeps => WorktreesConsistent
  BY DEF WorktreesConsistent, Worktrees!WorktreesInv
<1>4. QED
  BY <1>1, <1>2, <1>3, PTL DEF SuiteSpec

\* A refresh under the lock drops only projects whose worktree is gone, and
\* unless a source was moved during it none touches the projects users made.
THEOREM ServerRefreshesSafe == SuiteSpec => WorktreeRefreshesSafe
<1> DEFINE Keeps == focus = "worktrees" => Worktrees!WorktreesInv
<1>1. SuiteInit => Keeps
  BY WorktreesInit DEF SuiteInit, FocusInit
<1>2. Keeps /\ [SuiteNext]_suite =>
        Keeps' /\ (focus = "worktrees" => Worktrees!LockedDropsOnlyGone /\ Worktrees!UserChoicesKept)
  <2> SUFFICES ASSUME Keeps, [SuiteNext]_suite, focus = "worktrees"
               PROVE  /\ Worktrees!WorktreesInv'
                      /\ Worktrees!LockedDropsOnlyGone /\ Worktrees!UserChoicesKept
    BY DEF SuiteNext, suite
  <2>1. Worktrees!WorktreesInv
    OBVIOUS
  <2>2. [Worktrees!Next]_(Worktrees!vars)
    BY DEF SuiteNext, FocusNext, suite, Worktrees!vars, Worktrees!tables,
       Worktrees!history
  <2>3. QED
    BY <2>1, <2>2, WorktreesStep, RefreshSpares
<1>3. QED
  BY <1>1, <1>2, PTL DEF SuiteSpec, WorktreeRefreshesSafe

=============================================================================
