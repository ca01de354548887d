--------------------------- MODULE KnowledgeBase ---------------------------
(***************************************************************************)
(* The knowledge documents of the restaurants: each is a row in PostgreSQL *)
(* and a set of chunks in Chroma (knowledge_service.py, vector_db.py).     *)
(* The dashboard's create, delete and reindex requests change Chroma at    *)
(* once and PostgreSQL when their transaction commits, at the end of the   *)
(* request (db/session.py); they run concurrently on one event loop and    *)
(* each step is the code between two awaits.                               *)
(***************************************************************************)
EXTENDS Naturals

CONSTANTS
  Docs,       \* document ids
  Requests,   \* bound: requests of the dashboard
  ChunkCount, \* chunks of a document under each configuration of chunk_text
  NumConfigs  \* bound: configurations the server is deployed with

Configs == 1 .. NumConfigs

ASSUME KnowledgeAssumption ==
  /\ "none" \notin Docs
  /\ NumConfigs \in Nat \ {0}
  /\ ChunkCount \in [Configs -> Nat \ {0}]

VARIABLES
  rows,    \* the committed rows
  lock,    \* for each row, the requests that changed it and have not ended
  chunks,  \* Chroma: the chunks stored under each document id
  config,  \* the configuration the server runs with
  request, \* the requests
  trusted  \* history: documents no request has left in an uncertain state

vars == <<rows, lock, chunks, config, request, trusted>>

\* vector_ids are the document's id numbered from 0: their count tells them.
NoRow == [exists |-> FALSE, ids |-> 0]
Row(n) == [exists |-> TRUE, ids |-> n]

Unborn == [op |-> "none", doc |-> "none", at |-> "unborn", seen |-> 0, spoiled |-> FALSE]

\* A document's chunks, numbered, with the configuration that cut them.
ChunksOf(c) == [number : 1 .. ChunkCount[c], cut : {c}]

\* add_chunks: Chroma ignores an id it already has.
Added(stored, c) ==
  stored \cup {k \in ChunksOf(c) : \A old \in stored : old.number # k.number}

InFlight(r) == request[r].at \notin {"unborn", "done"}
On(r, d) == InFlight(r) /\ request[r].doc = d

\* A deletion and a reindexing of one document are in each other's way; two of a
\* kind are not.
Clash(op, d) == \E q \in Requests : On(q, d) /\ request[q].op # op

\* Request r goes on to its next await.
Move(r, at) == request' = [request EXCEPT ![r].at = at]

-----------------------------------------------------------------------------
\* create_document up to its embedding: the row is flushed and nobody sees it.
Create(r, d) ==
  /\ request[r].at = "unborn"
  /\ \A q \in Requests : request[q].doc # d
  /\ request' = [request EXCEPT ![r] =
       [op |-> "create", doc |-> d, at |-> "embed", seen |-> 0, spoiled |-> FALSE]]
  /\ UNCHANGED <<rows, lock, chunks, config, trusted>>

\* delete_document and reindex_document: the row is found (else 404).
Begin(r, op, d) ==
  /\ request[r].at = "unborn"
  /\ rows[d].exists
  /\ LET clash == Clash(op, d)
     IN  request' = [q \in Requests |->
           IF q = r THEN [op |-> op, doc |-> d, at |-> "purge", seen |-> rows[d].ids,
                          spoiled |-> clash]
           ELSE IF On(q, d) THEN [request[q] EXCEPT !.spoiled = @ \/ clash]
           ELSE request[q]]
  /\ UNCHANGED <<rows, lock, chunks, config, trusted>>

\* (mutants: only the chunks the row lists are removed; a deletion leaves them, a
\* reindexing does)
Purge_Listed(r) ==
  /\ request[r].at = "purge"
  /\ chunks' = [chunks EXCEPT ![request[r].doc] = {k \in @ : k.number > request[r].seen}]
  /\ Move(r, IF request[r].op = "delete" THEN "flush" ELSE "embed")
  /\ UNCHANGED <<rows, lock, config, trusted>>
Purge_DeleteKeeps(r) ==
  /\ request[r].at = "purge"
  /\ chunks' = [chunks EXCEPT ![request[r].doc] =
                  IF request[r].op = "delete" THEN @ ELSE {}]
  /\ Move(r, IF request[r].op = "delete" THEN "flush" ELSE "embed")
  /\ UNCHANGED <<rows, lock, config, trusted>>
Purge_ReindexKeeps(r) ==
  /\ request[r].at = "purge"
  /\ chunks' = [chunks EXCEPT ![request[r].doc] =
                  IF request[r].op = "delete" THEN {} ELSE @]
  /\ Move(r, IF request[r].op = "delete" THEN "flush" ELSE "embed")
  /\ UNCHANGED <<rows, lock, config, trusted>>

\* VectorDB.delete_document.
Purge(r) ==
  /\ request[r].at = "purge"
  /\ chunks' = [chunks EXCEPT ![request[r].doc] = {}]
  /\ Move(r, IF request[r].op = "delete" THEN "flush" ELSE "embed")
  /\ UNCHANGED <<rows, lock, config, trusted>>

\* The embeddings have come back; VectorDB.add_chunks follows without an await.
Index(r) ==
  /\ request[r].at = "embed"
  /\ chunks' = [chunks EXCEPT ![request[r].doc] = Added(@, config)]
  /\ Move(r, "flush")
  /\ UNCHANGED <<rows, lock, config, trusted>>

\* A flush issues an UPDATE only if vector_ids differ from what was loaded.
Writes(r) == request[r].op # "reindex" \/ request[r].seen # ChunkCount[config]

\* The last flush, and the refresh that follows it: both need the row to be there
\* still, unless it is being deleted, and a write waits for the row's lock.
Flush(r) ==
  LET d == request[r].doc
  IN  /\ request[r].at = "flush"
      /\ Writes(r) => lock[d] = {}
      /\ request[r].op = "reindex" => rows[d].exists
      /\ lock' = [lock EXCEPT ![d] = IF Writes(r) THEN {r} ELSE @]
      /\ Move(r, "commit")
      /\ UNCHANGED <<rows, chunks, config, trusted>>

\* get_db_session commits once the handler has returned.
Commit(r) ==
  LET d == request[r].doc
  IN  /\ request[r].at = "commit"
      /\ rows' = [rows EXCEPT ![d] =
           IF request[r].op = "delete" THEN NoRow
           ELSE IF Writes(r) THEN Row(ChunkCount[config]) ELSE @]
      /\ lock' = [lock EXCEPT ![d] = @ \ {r}]
      /\ Move(r, "done")
      /\ trusted' = IF request[r].spoiled THEN trusted \ {d} ELSE trusted \cup {d}
      /\ UNCHANGED <<chunks, config>>

\* What an ended request leaves behind in Chroma is uncertain once it may have
\* changed it, and so is what a request beside it has to build on.
Touched(r) ==
  /\ request[r].at # "purge"
  /\ ~(request[r].op = "create" /\ request[r].at = "embed")

\* An exception at any await: get_db_session rolls back; Chroma is not restored.
Fail(r) ==
  LET d == request[r].doc
  IN  /\ InFlight(r)
      /\ request' = [q \in Requests |->
           IF q = r THEN [request[q] EXCEPT !.at = "done"]
           ELSE IF On(q, d) /\ Touched(r) THEN [request[q] EXCEPT !.spoiled = TRUE]
           ELSE request[q]]
      /\ lock' = [lock EXCEPT ![d] = @ \ {r}]
      /\ trusted' = IF Touched(r) THEN trusted \ {d} ELSE trusted
      /\ UNCHANGED <<rows, chunks, config>>

\* The server is stopped, with requests in flight or not, and comes back with the
\* next configuration of chunk_text.
Redeploy ==
  /\ config < NumConfigs
  /\ config' = config + 1
  /\ request' = [r \in Requests |->
       IF InFlight(r) THEN [request[r] EXCEPT !.at = "done"] ELSE request[r]]
  /\ lock' = [d \in Docs |-> {}]
  /\ trusted' = {d \in trusted : ~\E r \in Requests : On(r, d) /\ Touched(r)}
  /\ UNCHANGED <<rows, chunks>>

Init ==
  /\ rows = [d \in Docs |-> NoRow]
  /\ lock = [d \in Docs |-> {}]
  /\ chunks = [d \in Docs |-> {}]
  /\ config = 1
  /\ request = [r \in Requests |-> Unborn]
  /\ trusted = Docs

Next ==
  \/ Redeploy
  \/ \E r \in Requests :
       \/ \E d \in Docs : Create(r, d) \/ Begin(r, "delete", d) \/ Begin(r, "reindex", d)
       \/ Purge(r) \/ Index(r) \/ Flush(r) \/ Commit(r) \/ Fail(r)

Spec == Init /\ [][Next]_vars
-----------------------------------------------------------------------------
(* Properties.                                                              *)

ChunkType == UNION {ChunksOf(c) : c \in Configs}
Counts == {ChunkCount[c] : c \in Configs}
RowType == {NoRow} \cup [exists : {TRUE}, ids : Counts]
RequestType ==
  [op : {"none", "create", "delete", "reindex"}, doc : Docs \cup {"none"},
   at : {"unborn", "purge", "embed", "flush", "commit", "done"},
   seen : {0} \cup Counts, spoiled : BOOLEAN]

\* Every variable holds a value the code can give it: a committed row lists the
\* chunks some configuration cuts the document into.
TypeOK ==
  /\ rows \in [Docs -> RowType]
  /\ lock \in [Docs -> SUBSET Requests]
  /\ chunks \in [Docs -> SUBSET ChunkType]
  /\ config \in Configs
  /\ request \in [Requests -> RequestType]
  /\ trusted \subseteq Docs

\* A document that exists is searchable by exactly the chunks its row lists, one
\* that does not has left none.
Agree(d) ==
  IF rows[d].exists
  THEN \E c \in Configs : chunks[d] = ChunksOf(c) /\ rows[d].ids = ChunkCount[c]
  ELSE chunks[d] = {}

\* The row and the vector store are in agreement about every document nobody is
\* working on, unless a request that had changed Chroma failed on it since, or a
\* deletion and a reindexing met; a reindexing or deletion of its own restores it.
StoresAgree ==
  \A d \in trusted : (\A r \in Requests : ~On(r, d)) => Agree(d)

\* Whatever fails or overlaps, a caller is never answered from a mixture of a
\* document's old and new chunks.
NoMixedChunks == \A d \in Docs : \E c \in Configs : chunks[d] \in {{}, ChunksOf(c)}

\* A reindexing that succeeds with nobody else at its document leaves the chunks of
\* the present configuration and no stale one, whatever was left behind before.
ReindexIsCurrent ==
  [][\A r \in Requests :
       /\ request[r].op = "reindex" /\ request[r].at = "commit"
       /\ request'[r].at = "done" /\ request[r].doc \in trusted'
       /\ \A q \in Requests \ {r} : ~On(q, request[r].doc)
       => /\ chunks'[request[r].doc] = ChunksOf(config)
          /\ rows'[request[r].doc] = Row(ChunkCount[config])]_vars
=============================================================================
