------------------------ MODULE KnowledgeBaseProofs ------------------------
(***************************************************************************)
(* Proofs about KnowledgeBase, for every set of documents and requests and *)
(* every sequence of configurations.  A request adds chunks only to a      *)
(* document it, or a rival under the same configuration, has emptied: that *)
(* is why the inductive invariant speaks of requests about to embed.       *)
(***************************************************************************)
EXTENDS KnowledgeBase, TLAPS

\* What a request that is about to add its chunks finds in Chroma.
EmbedsOnClean ==
  \A r \in Requests :
    request[r].at = "embed" => chunks[request[r].doc] \in {{}, ChunksOf(config)}

\* A document no request was ever about is nowhere.
UnusedIsNowhere ==
  \A d \in Docs :
    (\A r \in Requests : request[r].doc # d) => chunks[d] = {} /\ ~rows[d].exists

\* A request that has begun is about a document, one that has not is about none.
RequestHasDoc ==
  \A r \in Requests :
    IF request[r].at = "unborn" THEN request[r].doc = "none" ELSE request[r].doc \in Docs

\* The inductive invariant.
IInv ==
  /\ TypeOK
  /\ RequestHasDoc
  /\ EmbedsOnClean
  /\ UnusedIsNowhere
  /\ NoMixedChunks

-----------------------------------------------------------------------------
\* Adding the chunks of a configuration to nothing, or to themselves, gives them.
LEMMA AddedToClean ==
  ASSUME NEW c \in Configs, NEW stored \in {{}, ChunksOf(c)}
  PROVE  Added(stored, c) = ChunksOf(c)
  BY DEF Added, ChunksOf

\* Chunks are chunks of some configuration.
LEMMA ChunksOfType == \A c \in Configs : ChunksOf(c) \subseteq ChunkType
  BY DEF ChunkType

\* Nothing is stored and nobody has asked for anything.
LEMMA InitIInv == Init => IInv
<1> SUFFICES ASSUME Init PROVE IInv
  OBVIOUS
<1> USE KnowledgeAssumption DEF Init
<1>1. 1 \in Configs
  BY DEF Configs
<1>2. Unborn \in RequestType
  BY DEF Unborn, RequestType
<1>3. TypeOK
  BY <1>1, <1>2 DEF TypeOK, RowType, NoRow
<1>4. RequestHasDoc /\ EmbedsOnClean
  BY DEF RequestHasDoc, EmbedsOnClean, Unborn
<1>5. UnusedIsNowhere /\ NoMixedChunks
  BY <1>1 DEF UnusedIsNowhere, NoMixedChunks, NoRow
<1>6. QED
  BY <1>3, <1>4, <1>5 DEF IInv

\* A creation begins: nothing is stored under its document's id.
LEMMA CreateKeepsIInv ==
  ASSUME IInv, NEW r \in Requests, NEW d \in Docs, Create(r, d)
  PROVE  IInv'
<1> USE KnowledgeAssumption DEF IInv, Create
<1>1. TypeOK'
  BY DEF TypeOK, RequestType
<1>2. RequestHasDoc'
  BY DEF RequestHasDoc, TypeOK, RequestType
<1>3. EmbedsOnClean'
  BY DEF EmbedsOnClean, UnusedIsNowhere, TypeOK, RequestType
<1>4. UnusedIsNowhere'
  BY DEF UnusedIsNowhere, RequestHasDoc, TypeOK, RequestType
<1>5. NoMixedChunks'
  BY DEF NoMixedChunks
<1>6. QED
  BY <1>1, <1>2, <1>3, <1>4, <1>5

\* A deletion or a reindexing begins.
LEMMA BeginKeepsIInv ==
  ASSUME IInv, NEW r \in Requests, NEW op \in {"delete", "reindex"}, NEW d \in Docs,
         Begin(r, op, d)
  PROVE  IInv'
<1>1. rows[d].ids \in {0} \cup Counts /\ Clash(op, d) \in BOOLEAN
  <2>1. rows[d] = NoRow \/ rows[d] \in [exists : {TRUE}, ids : Counts]
    BY DEF IInv, TypeOK, RowType
  <2>2. rows[d].ids \in {0} \cup Counts
    <3>1. rows[d] = NoRow => rows[d].ids = 0
      BY DEF NoRow
    <3>2. rows[d] \in [exists : {TRUE}, ids : Counts] => rows[d].ids \in Counts
      OBVIOUS
    <3>3. QED
      BY <2>1, <3>1, <3>2
  <2>3. Clash(op, d) \in BOOLEAN
    BY DEF Clash
  <2>4. QED
    BY <2>2, <2>3
<1> USE KnowledgeAssumption DEF IInv, Begin
<1>2. ASSUME NEW q \in Requests
      PROVE  /\ request'[q].at = IF q = r THEN "purge" ELSE request[q].at
             /\ request'[q].doc = IF q = r THEN d ELSE request[q].doc
             /\ request'[q] \in RequestType
  <2>1. request[q] \in RequestType /\ request[q].spoiled \in BOOLEAN
    BY DEF TypeOK, RequestType
  <2>2. CASE q = r
    BY <1>1, <2>2 DEF RequestType
  <2>3. CASE q # r /\ On(q, d)
    <3>1. request'[q] = [request[q] EXCEPT !.spoiled = @ \/ Clash(op, d)]
      BY <2>3
    <3>2. (request[q].spoiled \/ Clash(op, d)) \in BOOLEAN
      BY <1>1, <2>1
    <3>3. QED
      BY <2>1, <2>3, <3>1, <3>2 DEF RequestType
  <2>4. CASE q # r /\ ~On(q, d)
    BY <2>1, <2>4
  <2>5. QED
    BY <2>2, <2>3, <2>4
<1>3. TypeOK'
  BY <1>2 DEF TypeOK
<1>4. RequestHasDoc'
  BY <1>2 DEF RequestHasDoc
<1>5. EmbedsOnClean'
  BY <1>2 DEF EmbedsOnClean
<1>6. UnusedIsNowhere'
  <2>1. ASSUME NEW e \in Docs, \A q \in Requests : request'[q].doc # e
        PROVE  \A q \in Requests : request[q].doc # e
    BY <1>2, <2>1 DEF RequestHasDoc
  <2>2. QED
    BY <2>1 DEF UnusedIsNowhere
<1>7. NoMixedChunks'
  BY DEF NoMixedChunks
<1>8. QED
  BY <1>3, <1>4, <1>5, <1>6, <1>7

\* A document's chunks are removed.
LEMMA PurgeKeepsIInv ==
  ASSUME IInv, NEW r \in Requests, Purge(r)
  PROVE  IInv'
<1> USE DEF IInv, Purge, Move
<1>1. request[r].doc \in Docs
  BY DEF RequestHasDoc
<1>2. \A q \in Requests :
        /\ request'[q].doc = request[q].doc
        /\ request'[q] \in RequestType
        /\ request'[q].at = "unborn" <=> request[q].at = "unborn"
        /\ request'[q].at = "embed" => q = r \/ request[q].at = "embed"
  BY DEF TypeOK, RequestType
<1>3. \A d \in Docs : chunks'[d] = IF d = request[r].doc THEN {} ELSE chunks[d]
  BY DEF TypeOK
<1>4. TypeOK'
  BY <1>2 DEF TypeOK
<1>5. RequestHasDoc'
  BY <1>2 DEF RequestHasDoc
<1>6. EmbedsOnClean'
  BY <1>1, <1>2, <1>3 DEF EmbedsOnClean, RequestHasDoc
<1>7. UnusedIsNowhere'
  BY <1>2, <1>3 DEF UnusedIsNowhere
<1>8. NoMixedChunks'
  BY <1>3 DEF NoMixedChunks
<1>9. QED
  BY <1>4, <1>5, <1>6, <1>7, <1>8

\* A document's chunks are added: what was there before is nothing, or the same.
LEMMA IndexKeepsIInv ==
  ASSUME IInv, NEW r \in Requests, Index(r)
  PROVE  IInv'
<1> USE DEF IInv, Index, Move
<1>1. request[r].doc \in Docs /\ config \in Configs
  BY DEF RequestHasDoc, TypeOK
<1>2. Added(chunks[request[r].doc], config) = ChunksOf(config)
  BY <1>1, AddedToClean DEF EmbedsOnClean
<1>3. \A d \in Docs :
        chunks'[d] = IF d = request[r].doc THEN ChunksOf(config) ELSE chunks[d]
  BY <1>1, <1>2 DEF TypeOK
<1>4. \A q \in Requests :
        /\ request'[q].doc = request[q].doc
        /\ request'[q] \in RequestType
        /\ request'[q].at = "unborn" <=> request[q].at = "unborn"
        /\ request'[q].at = "embed" => request[q].at = "embed"
  BY DEF TypeOK, RequestType
<1>5. TypeOK'
  BY <1>1, <1>2, <1>4, ChunksOfType DEF TypeOK
<1>6. RequestHasDoc'
  BY <1>4 DEF RequestHasDoc
<1>7. EmbedsOnClean'
  BY <1>3, <1>4 DEF EmbedsOnClean, RequestHasDoc
<1>8. UnusedIsNowhere'
  BY <1>3, <1>4 DEF UnusedIsNowhere
<1>9. NoMixedChunks'
  BY <1>1, <1>3 DEF NoMixedChunks
<1>10. QED
  BY <1>5, <1>6, <1>7, <1>8, <1>9

\* The steps in which requests move on and Chroma is left alone keep the invariant
\* if no request comes to embed and rows appear only for documents asked about.
LEMMA QuietKeepsIInv ==
  ASSUME IInv, TypeOK', UNCHANGED chunks,
         \A q \in Requests :
           /\ request'[q].doc = request[q].doc
           /\ request'[q].at = "unborn" <=> request[q].at = "unborn"
           /\ request'[q].at = "embed" => request[q].at = "embed" /\ config' = config,
         \A d \in Docs : rows'[d].exists =>
           rows[d].exists \/ \E q \in Requests : request[q].doc = d
  PROVE  IInv'
<1> USE DEF IInv
<1>1. RequestHasDoc' /\ EmbedsOnClean' /\ UnusedIsNowhere'
  BY DEF RequestHasDoc, EmbedsOnClean, UnusedIsNowhere
<1>2. NoMixedChunks'
  BY DEF NoMixedChunks
<1>3. QED
  BY <1>1, <1>2

\* The transaction of a request goes on, ends or fails.
LEMMA TransactionKeepsIInv ==
  ASSUME IInv, NEW r \in Requests, Flush(r) \/ Commit(r) \/ Fail(r)
  PROVE  IInv'
<1> USE DEF IInv
<1>1. request[r].doc \in Docs /\ config \in Configs
  BY DEF RequestHasDoc, TypeOK, Flush, Commit, Fail, InFlight
<1>2. CASE Flush(r)
  <2>1. TypeOK'
    BY <1>2 DEF TypeOK, RequestType, Flush, Move
  <2>2. QED
    BY <1>2, <2>1, QuietKeepsIInv DEF TypeOK, RequestType, Flush, Move
<1>3. CASE Commit(r)
  <2>1. TypeOK'
    <3>1. Row(ChunkCount[config]) \in RowType /\ NoRow \in RowType
      BY <1>1 DEF RowType, Row, Counts
    <3>2. rows' \in [Docs -> RowType]
      BY <1>3, <3>1 DEF TypeOK, Commit
    <3>3. request' \in [Requests -> RequestType]
      BY <1>3 DEF TypeOK, RequestType, Commit, Move
    <3>4. lock' \in [Docs -> SUBSET Requests] /\ trusted' \subseteq Docs
      BY <1>1, <1>3 DEF TypeOK, Commit
    <3>5. QED
      BY <1>3, <3>2, <3>3, <3>4 DEF TypeOK, Commit
  <2>2. QED
    BY <1>1, <1>3, <2>1, QuietKeepsIInv DEF TypeOK, RequestType, Commit, Move
<1>4. CASE Fail(r)
  <2>1. \A q \in Requests :
          /\ request'[q] \in RequestType
          /\ request'[q].doc = request[q].doc
          /\ request'[q].at \in {request[q].at, "done"}
          /\ request'[q].at = "unborn" <=> request[q].at = "unborn"
    BY <1>4 DEF TypeOK, RequestType, Fail, InFlight
  <2>2. TypeOK'
    BY <1>4, <2>1 DEF TypeOK, Fail
  <2>3. QED
    BY <1>4, <2>1, <2>2, QuietKeepsIInv DEF Fail
<1>5. QED
  BY <1>2, <1>3, <1>4

\* The server is stopped and comes back.
LEMMA RedeployKeepsIInv == IInv /\ Redeploy => IInv'
<1> SUFFICES ASSUME IInv, Redeploy PROVE IInv'
  OBVIOUS
<1> USE DEF IInv, Redeploy
<1>1. \A q \in Requests :
        /\ request'[q] \in RequestType
        /\ request'[q].doc = request[q].doc
        /\ request'[q].at # "embed"
        /\ request'[q].at = "unborn" <=> request[q].at = "unborn"
  BY DEF TypeOK, RequestType, InFlight
<1>2. config' \in Configs
  BY KnowledgeAssumption DEF TypeOK, Configs
<1>3. TypeOK'
  BY <1>1, <1>2 DEF TypeOK
<1>4. QED
  BY <1>1, <1>3, QuietKeepsIInv

-----------------------------------------------------------------------------
\* Every step of the knowledge base preserves the invariant.
LEMMA NextKeepsIInv == IInv /\ [Next]_vars => IInv'
<1>1. IInv /\ UNCHANGED vars => IInv'
  BY DEF IInv, vars, TypeOK, RequestHasDoc, EmbedsOnClean, UnusedIsNowhere, NoMixedChunks
<1>2. QED
  BY <1>1, CreateKeepsIInv, BeginKeepsIInv, PurgeKeepsIInv, IndexKeepsIInv,
     TransactionKeepsIInv, RedeployKeepsIInv DEF Next

\* The knowledge base never leaves the inductive invariant.
THEOREM KnowledgeInvariant == Spec => []IInv
  BY InitIInv, NextKeepsIInv, PTL DEF Spec

\* Type correctness: a committed row lists the chunks of some configuration.
THEOREM KnowledgeTypeOK == Spec => []TypeOK
<1>1. IInv => TypeOK
  BY DEF IInv
<1>2. QED
  BY <1>1, KnowledgeInvariant, PTL

\* A caller is never answered from a mixture of a document's old and new chunks
\* (knowledge_service.py, reindex_document; vector_db.py, add_chunks).
THEOREM WholeDocuments == Spec => []NoMixedChunks
<1>1. IInv => NoMixedChunks
  BY DEF IInv
<1>2. QED
  BY <1>1, KnowledgeInvariant, PTL

-----------------------------------------------------------------------------
(* Agreement of the two stores.                                             *)

\* The awaits a request of each kind passes, and that a creation has its document to
\* itself.
KindOfRequest(r) ==
  /\ request[r].op \in {"create", "delete", "reindex"}
  /\ ~(request[r].op = "delete" /\ request[r].at = "embed")
  /\ ~(request[r].op = "create" /\ request[r].at = "purge")

AloneWithItsDocument(r) ==
  /\ ~rows[request[r].doc].exists
  /\ \A q \in Requests : request[q].doc = request[r].doc => q = r

KindsOfRequest ==
  \A r \in Requests :
    InFlight(r) => KindOfRequest(r) /\ (request[r].op = "create" => AloneWithItsDocument(r))

\* Whoever has met nobody of another kind works beside its own kind only.
UnspoiledAmongTheirKind ==
  \A r, q \in Requests :
    On(r, request[q].doc) /\ InFlight(q) /\ ~request[r].spoiled
      => request[q].op = request[r].op

\* Somebody is about to embed document d again.
Refilling(d) ==
  \E q \in Requests : On(q, d) /\ request[q].op = "reindex" /\ request[q].at = "embed"

\* What an unspoiled request has made of its document.
Written(r) == request[r].at \in {"flush", "commit"}

CreatedWork(r) == Written(r) => chunks[request[r].doc] = ChunksOf(config)

DeletedWork(r) == Written(r) => chunks[request[r].doc] = {}

ReindexedWork(r) ==
  LET d == request[r].doc
  IN  /\ rows[d].exists
      /\ rows[d].ids \in {request[r].seen, ChunkCount[config]}
      /\ Written(r) => (chunks[d] = ChunksOf(config) \/ (chunks[d] = {} /\ Refilling(d)))

Work(r) ==
  \/ request[r].op = "create" /\ CreatedWork(r)
  \/ request[r].op = "delete" /\ DeletedWork(r)
  \/ request[r].op = "reindex" /\ ReindexedWork(r)

UnspoiledWork == \A r \in Requests : InFlight(r) /\ ~request[r].spoiled => Work(r)

\* A trusted document is in agreement, or somebody is changing it.
TrustedAgree ==
  \A d \in trusted : Agree(d) \/ \E q \in Requests : On(q, d) /\ Touched(q)

TrustInv == KindsOfRequest /\ UnspoiledAmongTheirKind /\ UnspoiledWork /\ TrustedAgree

LEMMA InitTrust == Init => TrustInv
<1> SUFFICES ASSUME Init PROVE TrustInv
  OBVIOUS
<1>1. \A r \in Requests : ~InFlight(r)
  BY DEF Init, Unborn, InFlight
<1>2. ASSUME NEW d \in Docs PROVE Agree(d)
  <2>1. chunks[d] = {} /\ ~rows[d].exists
    BY DEF Init, NoRow
  <2>2. QED
    BY <2>1 DEF Agree
<1>3. QED
  BY <1>1, <1>2 DEF Init, TrustInv, KindsOfRequest, UnspoiledAmongTheirKind, UnspoiledWork,
     TrustedAgree, On

\* A creation begins.
LEMMA CreateKeepsTrust ==
  ASSUME IInv, TrustInv, NEW r \in Requests, NEW d \in Docs, Create(r, d)
  PROVE  TrustInv'
<1> USE DEF TrustInv
<1>1. /\ UNCHANGED <<rows, chunks, config, trusted>>
      /\ request' = [request EXCEPT ![r] =
           [op |-> "create", doc |-> d, at |-> "embed", seen |-> 0, spoiled |-> FALSE]]
      /\ ~InFlight(r)
      /\ \A q \in Requests : request[q].doc # d
  BY DEF Create, InFlight
<1>2. /\ request'[r].op = "create" /\ request'[r].doc = d /\ request'[r].at = "embed"
      /\ \A q \in Requests \ {r} : request'[q] = request[q]
  BY <1>1 DEF IInv, TypeOK
<1>3. KindsOfRequest'
  <2>1. ~rows[d].exists
    BY <1>1 DEF IInv, UnusedIsNowhere
  <2>2. QED
    BY <1>1, <1>2, <2>1 DEF KindsOfRequest, KindOfRequest, AloneWithItsDocument, InFlight
<1>4. UnspoiledAmongTheirKind'
  BY <1>1, <1>2 DEF UnspoiledAmongTheirKind, InFlight, On
<1>5. \A e \in Docs : /\ (Refilling(e) => Refilling(e)')
                     /\ (Agree(e) => Agree(e)')
  BY <1>1, <1>2 DEF Refilling, Agree, On, InFlight
<1>6. UnspoiledWork'
  <2>1. ASSUME NEW q \in Requests \ {r}, InFlight(q)
        PROVE  request[q].doc \in Docs
    BY <2>1 DEF IInv, RequestHasDoc, InFlight
  <2>2. QED
    BY <1>1, <1>2, <1>5, <2>1 DEF UnspoiledWork, Work, CreatedWork,
       DeletedWork, ReindexedWork, Written, InFlight
<1>7. TrustedAgree'
  <2>1. \A q \in Requests \ {r}, e \in Docs : On(q, e) /\ Touched(q) => On(q, e)' /\ Touched(q)'
    BY <1>2 DEF On, InFlight, Touched
  <2>2. \A e \in Docs : ~On(r, e)
    BY <1>1 DEF On
  <2>3. QED
    BY <1>1, <1>5, <2>1, <2>2 DEF TrustedAgree, IInv, TypeOK
<1>8. QED
  BY <1>3, <1>4, <1>6, <1>7

\* A deletion or a reindexing begins.
LEMMA BeginKeepsTrust ==
  ASSUME IInv, TrustInv, NEW r \in Requests, NEW op \in {"delete", "reindex"}, NEW d \in Docs,
         Begin(r, op, d)
  PROVE  TrustInv'
<1> USE DEF TrustInv
<1>1. /\ UNCHANGED <<rows, chunks, config, trusted>>
      /\ ~InFlight(r) /\ rows[d].exists
      /\ request'[r] = [op |-> op, doc |-> d, at |-> "purge", seen |-> rows[d].ids,
                        spoiled |-> Clash(op, d)]
      /\ \A q \in Requests \ {r} :
           request'[q] = IF On(q, d) THEN [request[q] EXCEPT !.spoiled = @ \/ Clash(op, d)]
                         ELSE request[q]
  BY DEF Begin, InFlight
<1>2. /\ request'[r].op = op /\ request'[r].doc = d /\ request'[r].at = "purge"
      /\ request'[r].seen = rows[d].ids /\ (request'[r].spoiled <=> Clash(op, d))
  BY <1>1 DEF Clash
<1>3. ASSUME NEW q \in Requests \ {r}
      PROVE  /\ request'[q].op = request[q].op /\ request'[q].doc = request[q].doc
             /\ request'[q].at = request[q].at /\ request'[q].seen = request[q].seen
             /\ (~request'[q].spoiled => ~request[q].spoiled /\ ~(On(q, d) /\ Clash(op, d)))
  <2>1. request[q] \in RequestType
    BY DEF IInv, TypeOK
  <2>2. CASE On(q, d)
    <3>1. request'[q] = [request[q] EXCEPT !.spoiled = request[q].spoiled \/ Clash(op, d)]
      BY <1>1, <2>2
    <3>2. request'[q].spoiled = (request[q].spoiled \/ Clash(op, d))
      BY <2>1, <3>1 DEF RequestType
    <3>3. QED
      BY <2>1, <3>1, <3>2 DEF RequestType
  <2>3. CASE ~On(q, d)
    BY <1>1, <2>3
  <2>4. QED
    BY <2>2, <2>3
<1>4. \A q \in Requests \ {r} : /\ (InFlight(q)' <=> InFlight(q))
                               /\ (Touched(q)' <=> Touched(q))
                               /\ (\A e : On(q, e)' <=> On(q, e))
  BY <1>3 DEF InFlight, Touched, On
<1>5. KindsOfRequest'
  <2>1. ASSUME NEW q \in Requests, InFlight(q), request[q].op = "create"
        PROVE  request[q].doc # d
    <3>1. request[q].doc \in Docs
      BY <2>1 DEF IInv, RequestHasDoc, InFlight
    <3>2. QED
      BY <1>1, <2>1, <3>1 DEF KindsOfRequest, KindOfRequest, AloneWithItsDocument
  <2>2. QED
    BY <1>1, <1>2, <1>3, <1>4, <2>1 DEF KindsOfRequest, KindOfRequest, AloneWithItsDocument, InFlight
<1>6. UnspoiledAmongTheirKind'
  BY <1>1, <1>2, <1>3, <1>4 DEF UnspoiledAmongTheirKind, On, InFlight, Clash
<1>7. \A e \in Docs : /\ (Refilling(e) => Refilling(e)')
                     /\ (Agree(e) => Agree(e)')
  BY <1>1, <1>3, <1>4 DEF Refilling, Agree, On, InFlight
<1>8. UnspoiledWork'
  <2>1. ASSUME NEW q \in Requests \ {r}, InFlight(q)
        PROVE  request[q].doc \in Docs
    BY <2>1 DEF IInv, RequestHasDoc, InFlight
  <2>2. QED
    BY <1>1, <1>2, <1>3, <1>4, <1>7, <2>1 DEF UnspoiledWork, Work, CreatedWork,
       DeletedWork, ReindexedWork, Written
<1>9. TrustedAgree'
  <2>1. \A e \in Docs : ~On(r, e)
    BY <1>1 DEF On
  <2>2. QED
    BY <1>1, <1>4, <1>7, <2>1 DEF TrustedAgree, IInv, TypeOK
<1>10. QED
  BY <1>5, <1>6, <1>8, <1>9

\* A request that moves on keeps all but its place.
LEMMA MoveFacts ==
  ASSUME IInv, NEW r \in Requests, NEW at, Move(r, at)
  PROVE  /\ request'[r].at = at
         /\ \A q \in Requests :
              /\ request'[q].op = request[q].op /\ request'[q].doc = request[q].doc
              /\ request'[q].seen = request[q].seen
              /\ request'[q].spoiled = request[q].spoiled
              /\ (q # r => request'[q].at = request[q].at)
BY DEF Move, IInv, TypeOK, RequestType

\* A document's chunks are removed.
LEMMA PurgeKeepsTrust ==
  ASSUME IInv, TrustInv, NEW r \in Requests, Purge(r)
  PROVE  TrustInv'
<1> USE DEF TrustInv
<1> DEFINE d == request[r].doc
           at == IF request[r].op = "delete" THEN "flush" ELSE "embed"
<1>1. /\ UNCHANGED <<rows, config, trusted>> /\ request[r].at = "purge" /\ InFlight(r)
      /\ d \in Docs /\ request[r].op \in {"delete", "reindex"}
      /\ \A e \in Docs : chunks'[e] = IF e = d THEN {} ELSE chunks[e]
  <2>1. request[r].at = "purge" /\ InFlight(r)
    BY DEF Purge, InFlight
  <2>2. d \in Docs
    BY <2>1 DEF IInv, RequestHasDoc
  <2>3. QED
    BY <2>1, <2>2 DEF Purge, KindsOfRequest, KindOfRequest, IInv, TypeOK
<1>2. /\ request'[r].at = at
      /\ \A q \in Requests :
           /\ request'[q].op = request[q].op /\ request'[q].doc = request[q].doc
           /\ request'[q].seen = request[q].seen /\ request'[q].spoiled = request[q].spoiled
           /\ (q # r => request'[q].at = request[q].at)
  BY MoveFacts DEF Purge
<1>3. \A q \in Requests : /\ (InFlight(q)' <=> InFlight(q))
                         /\ (\A e : On(q, e)' <=> On(q, e))
                         /\ (Touched(q) => Touched(q)')
  BY <1>1, <1>2 DEF InFlight, On, Touched
<1>4. KindsOfRequest'
  BY <1>1, <1>2, <1>3 DEF KindsOfRequest, KindOfRequest, AloneWithItsDocument
<1>5. UnspoiledAmongTheirKind'
  BY <1>2, <1>3 DEF UnspoiledAmongTheirKind
<1>6. UnspoiledWork'
  <2>1. \A e \in Docs : Refilling(e) => Refilling(e)'
    BY <1>1, <1>2, <1>3 DEF Refilling
  <2>2. request[r].op = "reindex" => Refilling(d)'
    BY <1>1, <1>2, <1>3 DEF Refilling, On
  <2>3. ASSUME NEW q \in Requests, InFlight(q), ~request[q].spoiled, request[q].doc = d
        PROVE  request[q].op = request[r].op
    BY <1>1, <2>3 DEF UnspoiledAmongTheirKind, On
  <2>4. ASSUME NEW q \in Requests, InFlight(q) PROVE request[q].doc \in Docs
    BY <2>4 DEF IInv, RequestHasDoc, InFlight
  <2>5. QED
    BY <1>1, <1>2, <1>3, <2>1, <2>2, <2>3, <2>4 DEF UnspoiledWork, Work, CreatedWork,
       DeletedWork, ReindexedWork, Written
<1>7. TrustedAgree'
  <2>1. On(r, d)' /\ Touched(r)'
    BY <1>1, <1>2, <1>3 DEF On, Touched
  <2>2. \A e \in Docs \ {d} : Agree(e) => Agree(e)'
    BY <1>1 DEF Agree
  <2>3. QED
    BY <1>1, <1>2, <1>3, <2>1, <2>2 DEF TrustedAgree, IInv, TypeOK
<1>8. QED
  BY <1>4, <1>5, <1>6, <1>7

\* A document's chunks are added.
LEMMA IndexKeepsTrust ==
  ASSUME IInv, TrustInv, NEW r \in Requests, Index(r)
  PROVE  TrustInv'
<1> USE DEF TrustInv
<1> DEFINE d == request[r].doc
<1>1. /\ UNCHANGED <<rows, config, trusted>> /\ request[r].at = "embed" /\ InFlight(r)
      /\ d \in Docs /\ request[r].op \in {"create", "reindex"}
      /\ \A e \in Docs : chunks'[e] = IF e = d THEN ChunksOf(config) ELSE chunks[e]
  <2>1. request[r].at = "embed" /\ InFlight(r)
    BY DEF Index, InFlight
  <2>2. d \in Docs /\ config \in Configs
    BY <2>1 DEF IInv, RequestHasDoc, TypeOK
  <2>3. Added(chunks[d], config) = ChunksOf(config)
    BY <2>1, <2>2, AddedToClean DEF IInv, EmbedsOnClean
  <2>4. QED
    BY <2>1, <2>2, <2>3 DEF Index, KindsOfRequest, KindOfRequest, IInv, TypeOK
<1>2. /\ request'[r].at = "flush"
      /\ \A q \in Requests :
           /\ request'[q].op = request[q].op /\ request'[q].doc = request[q].doc
           /\ request'[q].seen = request[q].seen /\ request'[q].spoiled = request[q].spoiled
           /\ (q # r => request'[q].at = request[q].at)
  BY MoveFacts DEF Index
<1>3. \A q \in Requests : /\ (InFlight(q)' <=> InFlight(q))
                         /\ (\A e : On(q, e)' <=> On(q, e))
                         /\ (Touched(q) => Touched(q)')
  BY <1>1, <1>2 DEF InFlight, On, Touched
<1>4. KindsOfRequest'
  BY <1>1, <1>2, <1>3 DEF KindsOfRequest, KindOfRequest, AloneWithItsDocument
<1>5. UnspoiledAmongTheirKind'
  BY <1>2, <1>3 DEF UnspoiledAmongTheirKind
<1>6. UnspoiledWork'
  <2>1. \A e \in Docs \ {d} : Refilling(e) => Refilling(e)'
    BY <1>1, <1>2, <1>3 DEF Refilling, On
  <2>2. ASSUME NEW q \in Requests, InFlight(q), ~request[q].spoiled, request[q].doc = d
        PROVE  request[q].op = request[r].op
    BY <1>1, <2>2 DEF UnspoiledAmongTheirKind, On
  <2>3. ASSUME NEW q \in Requests, InFlight(q) PROVE request[q].doc \in Docs
    BY <2>3 DEF IInv, RequestHasDoc, InFlight
  <2>4. ASSUME NEW q \in Requests, InFlight(q), ~request[q].spoiled, request[q].doc = d,
               request[q].op = "reindex"
        PROVE  rows[d].exists /\ rows[d].ids \in {request[q].seen, ChunkCount[config]}
    BY <2>4 DEF UnspoiledWork, Work, CreatedWork,
       DeletedWork, ReindexedWork, Written
  <2>5. ASSUME NEW q \in Requests, InFlight(q), ~request[q].spoiled, request[q].doc # d
        PROVE  request'[q].at = request[q].at /\ chunks'[request[q].doc] = chunks[request[q].doc]
    BY <1>1, <1>2, <2>3, <2>5
  <2>6. ASSUME NEW q \in Requests, InFlight(q)', ~request'[q].spoiled, request'[q].doc = d
        PROVE  /\ request'[q].op # "delete"
               /\ (request'[q].op = "reindex" =>
                    rows'[d].exists /\ rows'[d].ids \in {request'[q].seen, ChunkCount[config']})
    BY <1>1, <1>2, <1>3, <2>2, <2>4, <2>6
  <2>7. QED
    BY <1>1, <1>2, <1>3, <2>1, <2>3, <2>5, <2>6 DEF UnspoiledWork, Work, CreatedWork,
       DeletedWork, ReindexedWork, Written
<1>7. TrustedAgree'
  <2>1. On(r, d)' /\ Touched(r)'
    BY <1>1, <1>2, <1>3 DEF On, Touched
  <2>2. \A e \in Docs \ {d} : Agree(e) => Agree(e)'
    BY <1>1 DEF Agree
  <2>3. QED
    BY <1>1, <1>2, <1>3, <2>1, <2>2 DEF TrustedAgree, IInv, TypeOK
<1>8. QED
  BY <1>4, <1>5, <1>6, <1>7

\* The row is flushed: nobody sees anything of it yet.
LEMMA FlushKeepsTrust ==
  ASSUME IInv, TrustInv, NEW r \in Requests, Flush(r)
  PROVE  TrustInv'
<1> USE DEF TrustInv
<1>1. /\ UNCHANGED <<rows, chunks, config, trusted>> /\ request[r].at = "flush"
      /\ request'[r].at = "commit"
      /\ \A q \in Requests :
           /\ request'[q].op = request[q].op /\ request'[q].doc = request[q].doc
           /\ request'[q].seen = request[q].seen /\ request'[q].spoiled = request[q].spoiled
           /\ (q # r => request'[q].at = request[q].at)
  BY MoveFacts DEF Flush
<1>2. \A q \in Requests : /\ (InFlight(q)' <=> InFlight(q))
                         /\ (\A e : On(q, e)' <=> On(q, e))
                         /\ (Touched(q)' <=> Touched(q))
  BY <1>1 DEF InFlight, On, Touched
<1>3. KindsOfRequest'
  BY <1>1, <1>2 DEF KindsOfRequest, KindOfRequest, AloneWithItsDocument
<1>4. UnspoiledAmongTheirKind'
  BY <1>1, <1>2 DEF UnspoiledAmongTheirKind
<1>5. \A e : Refilling(e) => Refilling(e)'
  BY <1>1, <1>2 DEF Refilling
<1>6. UnspoiledWork'
  BY <1>1, <1>2, <1>5 DEF UnspoiledWork, Work, CreatedWork,
       DeletedWork, ReindexedWork, Written
<1>7. TrustedAgree'
  BY <1>1, <1>2 DEF TrustedAgree, Agree
<1>8. QED
  BY <1>3, <1>4, <1>6, <1>7

\* The row is committed: an unspoiled request leaves the stores in agreement, or
\* another of its kind at work on the same document.
LEMMA CommitKeepsTrust ==
  ASSUME IInv, TrustInv, NEW r \in Requests, Commit(r)
  PROVE  TrustInv'
<1> USE DEF TrustInv
<1> DEFINE d == request[r].doc
<1>1. /\ UNCHANGED <<chunks, config>> /\ request[r].at = "commit" /\ InFlight(r)
      /\ d \in Docs /\ config \in Configs /\ request[r].op \in {"create", "delete", "reindex"}
      /\ trusted' = IF request[r].spoiled THEN trusted \ {d} ELSE trusted \cup {d}
      /\ \A e \in Docs : rows'[e] = IF e # d THEN rows[e]
                                   ELSE IF request[r].op = "delete" THEN NoRow
                                   ELSE IF Writes(r) THEN Row(ChunkCount[config]) ELSE rows[d]
  <2>1. request[r].at = "commit" /\ InFlight(r)
    BY DEF Commit, InFlight
  <2>2. d \in Docs /\ config \in Configs
    BY <2>1 DEF IInv, RequestHasDoc, TypeOK
  <2>3. QED
    BY <2>1, <2>2 DEF Commit, KindsOfRequest, KindOfRequest, IInv, TypeOK
<1>2. /\ request'[r].at = "done"
      /\ \A q \in Requests :
           /\ request'[q].op = request[q].op /\ request'[q].doc = request[q].doc
           /\ request'[q].seen = request[q].seen /\ request'[q].spoiled = request[q].spoiled
           /\ (q # r => request'[q].at = request[q].at)
  BY MoveFacts DEF Commit
<1>3. /\ ~InFlight(r)'
      /\ \A q \in Requests \ {r} : /\ (InFlight(q)' <=> InFlight(q))
                                 /\ (\A e : On(q, e)' <=> On(q, e))
                                 /\ (Touched(q)' <=> Touched(q))
  BY <1>1, <1>2 DEF InFlight, On, Touched
<1>4. ASSUME NEW q \in Requests \ {r}, InFlight(q)
      PROVE  request[q].doc \in Docs
  BY <1>4 DEF IInv, RequestHasDoc, InFlight
<1>5. KindsOfRequest'
  BY <1>1, <1>2, <1>3, <1>4 DEF KindsOfRequest, KindOfRequest, AloneWithItsDocument
<1>6. UnspoiledAmongTheirKind'
  BY <1>2, <1>3 DEF UnspoiledAmongTheirKind, On
<1>7. \A e : Refilling(e) => Refilling(e)'
  BY <1>1, <1>2, <1>3 DEF Refilling
<1>8. UnspoiledWork'
  <2>1. ASSUME NEW q \in Requests \ {r}, InFlight(q), ~request[q].spoiled, request[q].doc = d
        PROVE  request[q].op = request[r].op
    BY <1>1, <2>1 DEF UnspoiledAmongTheirKind, On
  <2>2. ASSUME NEW q \in Requests \ {r}, InFlight(q), ~request[q].spoiled,
               request[q].op = "reindex"
        PROVE  /\ rows'[request[q].doc].exists
               /\ rows'[request[q].doc].ids \in {request[q].seen, ChunkCount[config]}
    <3>1. /\ rows[request[q].doc].exists
          /\ rows[request[q].doc].ids \in {request[q].seen, ChunkCount[config]}
      BY <2>2 DEF UnspoiledWork, Work, CreatedWork,
       DeletedWork, ReindexedWork, Written
    <3>2. CASE request[q].doc # d
      BY <1>1, <1>4, <2>2, <3>1, <3>2
    <3>3. CASE request[q].doc = d
      <4>1. request[r].op = "reindex"
        BY <2>1, <2>2, <3>3
      <4>2. rows'[d] \in {Row(ChunkCount[config]), rows[d]}
        BY <1>1, <4>1
      <4>3. QED
        BY <3>1, <3>3, <4>2 DEF Row
    <3>4. QED
      BY <3>2, <3>3
  <2>3. QED
    BY <1>1, <1>2, <1>3, <1>7, <2>2 DEF UnspoiledWork, Work, CreatedWork,
       DeletedWork, ReindexedWork, Written
<1>9. TrustedAgree'
  <2>1. ASSUME NEW e \in trusted', e # d
        PROVE  Agree(e)' \/ \E q \in Requests : On(q, e)' /\ Touched(q)'
    <3>1. e \in trusted /\ e \in Docs
      BY <1>1, <2>1 DEF IInv, TypeOK
    <3>2. Agree(e) => Agree(e)'
      BY <1>1, <2>1, <3>1 DEF Agree
    <3>3. ~On(r, e)
      BY <2>1 DEF On
    <3>4. QED
      BY <1>3, <3>1, <3>2, <3>3 DEF TrustedAgree
  <2>2. ASSUME d \in trusted'
        PROVE  Agree(d)' \/ \E q \in Requests : On(q, d)' /\ Touched(q)'
    <3>1. ~request[r].spoiled
      BY <1>1, <2>2
    <3>2. CASE request[r].op = "create"
      <4>1. chunks[d] = ChunksOf(config) /\ rows'[d] = Row(ChunkCount[config])
        BY <1>1, <3>1, <3>2 DEF UnspoiledWork, Work, CreatedWork,
       DeletedWork, ReindexedWork, Written, Writes
      <4>2. rows'[d].exists /\ rows'[d].ids = ChunkCount[config] /\ chunks'[d] = ChunksOf(config)
        BY <1>1, <4>1 DEF Row
      <4>3. QED
        BY <1>1, <1>2, <4>2 DEF Agree
    <3>3. CASE request[r].op = "delete"
      <4>1. chunks[d] = {} /\ rows'[d] = NoRow
        BY <1>1, <3>1, <3>3 DEF UnspoiledWork, Work, CreatedWork,
       DeletedWork, ReindexedWork, Written
      <4>2. ~rows'[d].exists /\ chunks'[d] = {}
        BY <1>1, <4>1 DEF NoRow
      <4>3. QED
        BY <1>2, <4>2 DEF Agree
    <3>4. CASE request[r].op = "reindex"
      <4>1. rows'[d].exists /\ rows'[d].ids = ChunkCount[config]
        <5>1. rows[d].exists /\ rows[d].ids \in {request[r].seen, ChunkCount[config]}
          BY <1>1, <3>1, <3>4 DEF UnspoiledWork, Work, CreatedWork,
       DeletedWork, ReindexedWork, Written
        <5>2. CASE Writes(r)
          BY <1>1, <3>4, <5>2 DEF Row
        <5>3. CASE ~Writes(r)
          BY <1>1, <3>4, <5>1, <5>3 DEF Writes
        <5>4. QED
          BY <5>2, <5>3
      <4>2. CASE chunks[d] = ChunksOf(config)
        BY <1>1, <1>2, <4>1, <4>2 DEF Agree
      <4>3. CASE Refilling(d)
        BY <1>1, <1>2, <1>3, <4>3 DEF Refilling, Touched, On, InFlight
      <4>4. QED
        BY <1>1, <3>1, <3>4, <4>2, <4>3 DEF UnspoiledWork, Work, CreatedWork,
       DeletedWork, ReindexedWork, Written
    <3>5. QED
      BY <1>1, <3>2, <3>3, <3>4
  <2>3. QED
    BY <1>2, <2>1, <2>2 DEF TrustedAgree
<1>10. QED
  BY <1>5, <1>6, <1>8, <1>9

\* A request fails: if it may have changed Chroma, its document is no longer trusted.
LEMMA FailKeepsTrust ==
  ASSUME IInv, TrustInv, NEW r \in Requests, Fail(r)
  PROVE  TrustInv'
<1> USE DEF TrustInv
<1> DEFINE d == request[r].doc
<1>1. /\ UNCHANGED <<rows, chunks, config>> /\ InFlight(r)
      /\ trusted' = IF Touched(r) THEN trusted \ {d} ELSE trusted
      /\ request'[r] = [request[r] EXCEPT !.at = "done"]
      /\ \A q \in Requests \ {r} :
           request'[q] = IF On(q, d) /\ Touched(r) THEN [request[q] EXCEPT !.spoiled = TRUE]
                         ELSE request[q]
  BY DEF Fail
<1>2. /\ request'[r].at = "done" /\ request'[r].doc = d
      /\ \A q \in Requests \ {r} :
           /\ request'[q].op = request[q].op /\ request'[q].doc = request[q].doc
           /\ request'[q].at = request[q].at /\ request'[q].seen = request[q].seen
           /\ (~request'[q].spoiled => ~request[q].spoiled /\ ~(On(q, d) /\ Touched(r)))
  <2>1. \A q \in Requests : request[q] \in RequestType
    BY DEF IInv, TypeOK
  <2>2. request'[r].at = "done" /\ request'[r].doc = d
    BY <1>1, <2>1 DEF RequestType
  <2>3. ASSUME NEW q \in Requests \ {r}
        PROVE  /\ request'[q].op = request[q].op /\ request'[q].doc = request[q].doc
               /\ request'[q].at = request[q].at /\ request'[q].seen = request[q].seen
               /\ (~request'[q].spoiled => ~request[q].spoiled /\ ~(On(q, d) /\ Touched(r)))
    <3>1. CASE On(q, d) /\ Touched(r)
      <4>1. request'[q] = [request[q] EXCEPT !.spoiled = TRUE]
        BY <1>1, <3>1
      <4>2. QED
        BY <2>1, <4>1 DEF RequestType
    <3>2. CASE ~(On(q, d) /\ Touched(r))
      <4>1. request'[q] = request[q]
        BY <1>1, <3>2
      <4>2. QED
        BY <3>2, <4>1
    <3>3. QED
      BY <3>1, <3>2
  <2>4. QED
    BY <2>2, <2>3
<1>3. /\ ~InFlight(r)'
      /\ \A q \in Requests \ {r} : /\ (InFlight(q)' <=> InFlight(q))
                                 /\ (\A e : On(q, e)' <=> On(q, e))
                                 /\ (Touched(q)' <=> Touched(q))
  BY <1>2 DEF InFlight, On, Touched
<1>4. KindsOfRequest'
  <2>1. ASSUME NEW q \in Requests, InFlight(q)'
        PROVE  q # r /\ InFlight(q)
    BY <1>3, <2>1
  <2>2. \A q \in Requests : request'[q].doc = request[q].doc
    BY <1>2
  <2>3. rows' = rows
    BY <1>1
  <2>4. QED
    BY <1>2, <2>1, <2>2, <2>3 DEF KindsOfRequest, KindOfRequest, AloneWithItsDocument
<1>5. UnspoiledAmongTheirKind'
  BY <1>2, <1>3 DEF UnspoiledAmongTheirKind, On
<1>6. \A e : Refilling(e) => Refilling(e)' \/ (e = d /\ Touched(r))
  <2>1. ASSUME NEW e, Refilling(e), ~(e = d /\ Touched(r)) PROVE Refilling(e)'
    <3>1. PICK q \in Requests : On(q, e) /\ request[q].op = "reindex" /\ request[q].at = "embed"
      BY <2>1 DEF Refilling
    <3>2. q # r
      BY <2>1, <3>1 DEF On, Touched
    <3>3. QED
      BY <1>2, <1>3, <3>1, <3>2 DEF Refilling
  <2>2. QED
    BY <2>1
<1>7. UnspoiledWork'
  BY <1>1, <1>2, <1>3, <1>6 DEF UnspoiledWork, Work, CreatedWork,
       DeletedWork, ReindexedWork, Written, On
<1>8. TrustedAgree'
  <2>1. \A e : Agree(e)' <=> Agree(e)
    BY <1>1 DEF Agree
  <2>2. ASSUME NEW e \in trusted', On(r, e), Touched(r) PROVE FALSE
    BY <1>1, <2>2 DEF On
  <2>3. \A e \in trusted' : e \in trusted
    BY <1>1
  <2>4. QED
    BY <1>3, <2>1, <2>2, <2>3 DEF TrustedAgree
<1>9. QED
  BY <1>4, <1>5, <1>7, <1>8

\* The server is stopped: nobody is at work, and what was being changed is no longer
\* trusted.
LEMMA RedeployKeepsTrust == IInv /\ TrustInv /\ Redeploy => TrustInv'
<1> SUFFICES ASSUME IInv, TrustInv, Redeploy PROVE TrustInv'
  OBVIOUS
<1>1. \A r \in Requests : ~InFlight(r)'
  BY DEF Redeploy, InFlight, IInv, TypeOK, RequestType
<1>2. TrustedAgree'
  BY DEF Redeploy, TrustInv, TrustedAgree, Agree
<1>3. QED
  BY <1>1, <1>2 DEF TrustInv, KindsOfRequest, UnspoiledAmongTheirKind, UnspoiledWork, On

\* Every step.
LEMMA NextKeepsTrust == IInv /\ TrustInv /\ [Next]_vars => TrustInv'
<1>1. ASSUME TrustInv, UNCHANGED vars PROVE TrustInv'
  <2>1. KindsOfRequest' /\ UnspoiledAmongTheirKind'
    BY <1>1 DEF vars, TrustInv, KindsOfRequest, KindOfRequest, AloneWithItsDocument,
       UnspoiledAmongTheirKind, On, InFlight
  <2>2. UnspoiledWork'
    BY <1>1 DEF vars, TrustInv, UnspoiledWork, Work, CreatedWork, DeletedWork, ReindexedWork,
       Written, Refilling, On, InFlight
  <2>3. TrustedAgree'
    BY <1>1 DEF vars, TrustInv, TrustedAgree, Agree, On, InFlight, Touched
  <2>4. QED
    BY <2>1, <2>2, <2>3 DEF TrustInv
<1>2. QED
  BY <1>1, CreateKeepsTrust, BeginKeepsTrust, PurgeKeepsTrust, IndexKeepsTrust,
     FlushKeepsTrust, CommitKeepsTrust, FailKeepsTrust, RedeployKeepsTrust DEF Next

\* The knowledge base keeps its trusted documents in agreement.
THEOREM TrustInvariant == Spec => []TrustInv
  BY InitTrust, NextKeepsTrust, KnowledgeInvariant, PTL DEF Spec

\* The row and the vector store agree about every trusted document nobody is working
\* on, for any number of requests, documents and configurations (knowledge_service.py,
\* create_document, delete_document and reindex_document; db/session.py).
THEOREM TrustedDocumentsAgree == Spec => []StoresAgree
<1>1. IInv /\ TrustInv => StoresAgree
  BY DEF IInv, TypeOK, TrustInv, TrustedAgree, StoresAgree
<1>2. QED
  BY <1>1, KnowledgeInvariant, TrustInvariant, PTL

-----------------------------------------------------------------------------
(* A reindexing that succeeds alone.                                        *)

\* Request r commits a reindexing that no request beside it has made uncertain.
EndsTrusted(r) ==
  /\ request[r].op = "reindex" /\ request[r].at = "commit"
  /\ request'[r].at = "done" /\ request[r].doc \in trusted'
  /\ \A q \in Requests \ {r} : ~On(q, request[r].doc)

LeavesCurrent(r) ==
  /\ chunks'[request[r].doc] = ChunksOf(config)
  /\ rows'[request[r].doc] = Row(ChunkCount[config])

\* Only its own commit ends a request whose document is trusted afterwards.
LEMMA EndsByCommitting ==
  ASSUME IInv, NEW r \in Requests, [Next]_vars, EndsTrusted(r)
  PROVE  Commit(r)
<1>1. /\ request[r].at = "commit" /\ request'[r].at = "done" /\ Touched(r) /\ On(r, request[r].doc)
      /\ request[r].doc \in trusted'
  BY DEF EndsTrusted, Touched, On, InFlight
<1>2. ~UNCHANGED vars
  BY <1>1 DEF vars
<1>3. ~Redeploy
  BY <1>1 DEF Redeploy
<1>4. ASSUME NEW q \in Requests, NEW d \in Docs, Create(q, d) PROVE FALSE
  BY <1>1, <1>4 DEF Create, IInv, TypeOK
<1>5. ASSUME NEW q \in Requests, NEW d \in Docs, NEW op \in {"delete", "reindex"}, Begin(q, op, d)
      PROVE  FALSE
  <2>1. q # r
    BY <1>1, <1>5 DEF Begin
  <2>2. request'[r].at = request[r].at
    BY <1>5, <2>1 DEF Begin, IInv, TypeOK, RequestType
  <2>3. QED
    BY <1>1, <2>2
<1>6. ASSUME NEW q \in Requests, Purge(q) \/ Index(q) \/ Flush(q) PROVE FALSE
  <2>1. PICK at \in {"flush", "embed", "commit"} : Move(q, at)
    BY <1>6 DEF Purge, Index, Flush
  <2>2. request'[r].at \in {request[r].at, at}
    BY <2>1, MoveFacts
  <2>3. QED
    BY <1>1, <2>2
<1>7. ASSUME NEW q \in Requests, Commit(q) PROVE q = r
  BY <1>1, <1>7, MoveFacts DEF Commit
<1>8. ASSUME NEW q \in Requests, Fail(q) PROVE FALSE
  <2>1. CASE q = r
    BY <1>1, <1>8, <2>1 DEF Fail
  <2>2. CASE q # r
    <3>1. request'[r].at = request[r].at
      BY <1>8, <2>2 DEF Fail, IInv, TypeOK, RequestType
    <3>2. QED
      BY <1>1, <3>1
  <2>3. QED
    BY <2>1, <2>2
<1>9. QED
  BY <1>2, <1>3, <1>4, <1>5, <1>6, <1>7, <1>8 DEF Next

\* What it leaves then.
LEMMA CommitLeavesCurrent ==
  ASSUME IInv, TrustInv, NEW r \in Requests, [Next]_vars, EndsTrusted(r)
  PROVE  LeavesCurrent(r)
<1> DEFINE d == request[r].doc
<1>1. /\ Commit(r) /\ request[r].op = "reindex" /\ request[r].at = "commit"
      /\ d \in Docs /\ config \in Configs
  BY EndsByCommitting DEF EndsTrusted, IInv, RequestHasDoc, TypeOK
<1>2. ~request[r].spoiled
  BY <1>1 DEF Commit, EndsTrusted
<1>3. ReindexedWork(r) /\ Written(r)
  BY <1>1, <1>2 DEF TrustInv, UnspoiledWork, Work, InFlight, Written
<1>4. chunks'[d] = ChunksOf(config)
  <2>1. ~Refilling(d)
    BY <1>1 DEF EndsTrusted, Refilling
  <2>2. chunks' = chunks
    BY <1>1 DEF Commit
  <2>3. QED
    BY <1>3, <2>1, <2>2 DEF ReindexedWork
<1>5. rows'[d] = Row(ChunkCount[config])
  <2>1. rows \in [Docs -> RowType]
    BY DEF IInv, TypeOK
  <2>2. CASE Writes(r)
    BY <1>1, <2>1, <2>2 DEF Commit
  <2>3. CASE ~Writes(r)
    <3>1. rows'[d] = rows[d]
      BY <1>1, <2>1, <2>3 DEF Commit
    <3>2. rows[d].exists /\ rows[d].ids = ChunkCount[config]
      BY <1>1, <1>3, <2>3 DEF ReindexedWork, Writes
    <3>3. rows[d] \in [exists : {TRUE}, ids : Counts]
      <4>1. rows[d] \in RowType /\ rows[d] # NoRow
        BY <1>1, <2>1, <3>2 DEF NoRow
      <4>2. QED
        BY <4>1 DEF RowType
    <3>4. QED
      BY <3>1, <3>2, <3>3 DEF Row
  <2>4. QED
    BY <2>2, <2>3
<1>6. QED
  BY <1>4, <1>5 DEF LeavesCurrent

\* A reindexing that ends well with nobody else at its document leaves the chunks of
\* the present configuration, whatever failures left there before
\* (knowledge_service.py, reindex_document).
THEOREM ReindexingIsCurrent == Spec => ReindexIsCurrent
<1>1. IInv /\ TrustInv /\ [Next]_vars => \A r \in Requests : EndsTrusted(r) => LeavesCurrent(r)
  BY CommitLeavesCurrent
<1>2. IInv /\ TrustInv /\ [Next]_vars =>
        [\A r \in Requests :
           /\ request[r].op = "reindex" /\ request[r].at = "commit"
           /\ request'[r].at = "done" /\ request[r].doc \in trusted'
           /\ \A q \in Requests \ {r} : ~On(q, request[r].doc)
           => /\ chunks'[request[r].doc] = ChunksOf(config)
              /\ rows'[request[r].doc] = Row(ChunkCount[config])]_vars
  BY <1>1 DEF EndsTrusted, LeavesCurrent
<1>3. QED
  BY <1>2, KnowledgeInvariant, TrustInvariant, PTL DEF Spec, ReindexIsCurrent
=============================================================================
