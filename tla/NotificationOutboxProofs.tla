---------------------- MODULE NotificationOutboxProofs ----------------------
(***************************************************************************)
(* Proofs about NotificationOutbox, for every number of workers, rows,     *)
(* attempts and faults.  Workers change copies of rows they read long ago, *)
(* and several may write the same row: the inductive invariant relates     *)
(* each copy to what its worker saw, and what it saw to the table.         *)
(***************************************************************************)
EXTENDS NotificationOutbox, TLAPS

\* Rows of the batch have not been tried in this poll, but for the one in hand.
UntriedInBatch ==
  \A w \in Workers : \A r \in worker[w].batch :
    /\ ~worker[w].seen[r].sent
    /\ worker[w].seen[r].attempts < MaxAttempts
    /\ TypeOf[r] \notin Disabled
    /\ \/ worker[w].copy[r] = worker[w].seen[r]
       \/ worker[w].at = "flush" /\ IsNext(w, r)

\* What a worker has changed in its copy of a row.
CopyOfSeen ==
  \A w \in Workers, r \in Rows :
    LET seen == worker[w].seen[r]
        copy == worker[w].copy[r]
    IN  \/ copy = seen
        \/ /\ ~seen.sent
           /\ copy.attempts = seen.attempts + 1
           /\ copy.error = ~copy.sent
           /\ copy.sent => handed[r] > 0

\* Between the moment a row was seen and now it can only have been sent.
SeenIsOld ==
  \A w \in Workers, r \in Rows :
    worker[w].seen[r].error /\ ~table[r].sent => table[r].error

\* A row that was tried in vain says so.
TriedIsExplained ==
  /\ \A r \in Rows : table[r].attempts > 0 /\ ~table[r].sent => table[r].error
  /\ \A w \in Workers, r \in Rows :
       worker[w].seen[r].attempts > 0 /\ ~worker[w].seen[r].sent => worker[w].seen[r].error

\* Disabled rows are not written either.
DisabledIsUnwritten ==
  \A w \in Workers : \A r \in worker[w].written : TypeOf[r] \notin Disabled

\* The inductive invariant.
IInv ==
  /\ TypeOK
  /\ UntriedInBatch
  /\ CopyOfSeen
  /\ SeenIsOld
  /\ TriedIsExplained
  /\ DisabledIsUnwritten
  /\ SentMeansHanded
  /\ DisabledIsUntouched

USE OutboxAssumption

-----------------------------------------------------------------------------
\* A row as it is queued, and a worker between polls.
LEMMA Defaults ==
  /\ Fresh \in Columns /\ ~Fresh.sent /\ Fresh.attempts = 0 /\ ~Fresh.error
  /\ Asleep \in WorkerType /\ Asleep.at = "asleep" /\ Asleep.batch = {} /\ Asleep.written = {}
  /\ \A r \in Rows : Asleep.seen[r] = Fresh /\ Asleep.copy[r] = Fresh
<1>1. Fresh \in Columns /\ ~Fresh.sent /\ Fresh.attempts = 0 /\ ~Fresh.error
  BY DEF Fresh, Columns
<1>2. QED
  BY <1>1 DEF Asleep, WorkerType

\* Nothing has been queued.
LEMMA InitIInv == Init => IInv
<1> SUFFICES ASSUME Init PROVE IInv
  OBVIOUS
<1> USE Defaults DEF Init
<1>1. TypeOK
  BY DEF TypeOK
<1>2. UntriedInBatch /\ CopyOfSeen /\ SeenIsOld /\ TriedIsExplained /\ DisabledIsUnwritten
  BY DEF UntriedInBatch, CopyOfSeen, SeenIsOld, TriedIsExplained, DisabledIsUnwritten
<1>3. SentMeansHanded /\ DisabledIsUntouched
  BY DEF SentMeansHanded, DisabledIsUntouched
<1>4. QED
  BY <1>1, <1>2, <1>3 DEF IInv

-----------------------------------------------------------------------------
\* A booking queues its notifications, or a backoff elapses.
LEMMA QueueKeepsIInv ==
  ASSUME IInv, Enqueue \/ \E r \in Rows : BackoffElapses(r)
  PROVE  IInv'
<1>1. /\ UNCHANGED <<table, worker, handed, unanswered, faults>>
      /\ created' \in 0 .. NumRows /\ cooling' \subseteq Rows
  BY DEF IInv, TypeOK, Enqueue, BackoffElapses
<1>2. QED
  BY <1>1 DEF IInv, TypeOK, UntriedInBatch, CopyOfSeen, SeenIsOld, TriedIsExplained,
     DisabledIsUnwritten, SentMeansHanded, DisabledIsUntouched, IsNext

\* A poll takes the rows as they are.
LEMMA PollKeepsIInv ==
  ASSUME IInv, NEW w \in Workers, Poll(w)
  PROVE  IInv'
<1> USE DEF IInv
<1> DEFINE polled == [at |-> "send", batch |-> Due, seen |-> table, copy |-> table,
                      written |-> {}]
<1>1. \A r \in Due : /\ r \in Rows /\ ~table[r].sent /\ table[r].attempts < MaxAttempts
                     /\ TypeOf[r] \notin Disabled
  BY DEF Due, Selected, Candidates, TypeOK, Rows
<1>2. polled \in WorkerType
  BY <1>1 DEF WorkerType, TypeOK
<1>3. /\ UNCHANGED <<created, table, cooling, handed, unanswered, faults>>
      /\ \A v \in Workers : worker'[v] = IF v = w THEN polled ELSE worker[v]
      /\ worker' \in [Workers -> WorkerType]
  BY <1>2 DEF Poll, TypeOK
<1>4. TypeOK'
  BY <1>3 DEF TypeOK
<1>5. UntriedInBatch' /\ DisabledIsUnwritten'
  BY <1>1, <1>3 DEF UntriedInBatch, DisabledIsUnwritten, IsNext
<1>6. CopyOfSeen' /\ SeenIsOld' /\ TriedIsExplained'
  BY <1>3 DEF CopyOfSeen, SeenIsOld, TriedIsExplained
<1>7. SentMeansHanded' /\ DisabledIsUntouched'
  BY <1>3 DEF SentMeansHanded, DisabledIsUntouched
<1>8. QED
  BY <1>4, <1>5, <1>6, <1>7

\* One row is sent, well or badly.
LEMMA SendKeepsIInv ==
  ASSUME IInv, NEW w \in Workers, Send(w)
  PROVE  IInv'
<1> USE DEF IInv
<1>1. PICK r \in worker[w].batch :
        /\ worker[w].at = "send" /\ IsNext(w, r)
        /\ \/ /\ SetCopy(w, r, Succeeded(worker[w].copy[r]))
              /\ handed' = [handed EXCEPT ![r] = @ + 1]
           \/ /\ SetCopy(w, r, Failed(worker[w].copy[r]))
              /\ handed' \in {handed, [handed EXCEPT ![r] = @ + 1]}
        /\ unanswered' \in {unanswered, unanswered \cup {r}}
        /\ UNCHANGED <<created, table, cooling, faults>>
  BY DEF Send
<1>2. r \in Rows /\ worker[w] \in WorkerType
  BY DEF TypeOK, WorkerType
<1>3. /\ worker[w].copy[r] = worker[w].seen[r] /\ worker[w].seen[r] \in Columns
      /\ ~worker[w].seen[r].sent /\ worker[w].seen[r].attempts < MaxAttempts
      /\ TypeOf[r] \notin Disabled
  BY <1>1, <1>2 DEF UntriedInBatch, WorkerType
<1>4. PICK c \in Columns :
        /\ c.attempts = worker[w].seen[r].attempts + 1
        /\ c.error = ~c.sent
        /\ c.sent => handed' = [handed EXCEPT ![r] = @ + 1]
        /\ handed' \in {handed, [handed EXCEPT ![r] = @ + 1]}
        /\ SetCopy(w, r, c)
  <2> DEFINE seen == worker[w].seen[r]
  <2>1. seen.attempts \in Nat /\ seen.attempts + 1 \in 0 .. MaxAttempts
    BY <1>3 DEF Columns
  <2>2. /\ Succeeded(seen) = [sent |-> TRUE, attempts |-> seen.attempts + 1, error |-> FALSE]
        /\ Failed(seen) = [sent |-> FALSE, attempts |-> seen.attempts + 1, error |-> TRUE]
    BY <1>3 DEF Succeeded, Failed, Columns
  <2>3. Succeeded(seen) \in Columns /\ Failed(seen) \in Columns
    BY <2>1, <2>2 DEF Columns
  <2>4. QED
    BY <1>1, <1>3, <2>2, <2>3
<1>5. /\ worker' \in [Workers -> WorkerType]
      /\ \A v \in Workers :
           /\ worker'[v].at = IF v = w THEN "flush" ELSE worker[v].at
           /\ worker'[v].batch = worker[v].batch
           /\ worker'[v].seen = worker[v].seen
           /\ worker'[v].written = worker[v].written
           /\ \A q \in Rows : worker'[v].copy[q] =
                IF v = w /\ q = r THEN c ELSE worker[v].copy[q]
  BY <1>2, <1>4 DEF SetCopy, TypeOK, WorkerType
<1>6. /\ handed' \in [Rows -> Nat]
      /\ \A q \in Rows : /\ handed'[q] >= handed[q]
                         /\ q # r => handed'[q] = handed[q]
      /\ c.sent => handed'[r] > 0
  BY <1>2, <1>4 DEF TypeOK
<1>7. TypeOK'
  BY <1>1, <1>2, <1>5, <1>6 DEF TypeOK
<1>8. UntriedInBatch' /\ DisabledIsUnwritten'
  <2>1. ASSUME NEW v \in Workers, NEW q \in worker[v].batch
        PROVE  \/ worker'[v].copy[q] = worker[v].seen[q]
               \/ worker'[v].at = "flush" /\ IsNext(v, q)
    <3>1. q \in Rows
      BY DEF TypeOK, WorkerType
    <3>2. CASE v = w /\ q = r
      BY <1>1, <1>5, <3>2
    <3>3. CASE ~(v = w /\ q = r)
      <4>1. worker'[v].copy[q] = worker[v].copy[q]
        BY <1>5, <3>1, <3>3
      <4>2. v = w => worker'[v].copy[q] = worker[v].seen[q]
        BY <1>1, <4>1 DEF UntriedInBatch
      <4>3. v # w => worker'[v].at = worker[v].at
        BY <1>5
      <4>4. QED
        BY <4>1, <4>2, <4>3 DEF UntriedInBatch
    <3>4. QED
      BY <3>2, <3>3
  <2>2. \A v \in Workers : \A q : IsNext(v, q)' <=> IsNext(v, q)
    BY <1>5 DEF IsNext
  <2>3. UntriedInBatch'
    BY <1>5, <2>1, <2>2 DEF UntriedInBatch
  <2>4. DisabledIsUnwritten'
    BY <1>5 DEF DisabledIsUnwritten
  <2>5. QED
    BY <2>3, <2>4
<1>9. CopyOfSeen'
  BY <1>2, <1>3, <1>4, <1>5, <1>6 DEF CopyOfSeen, TypeOK
<1>10. SeenIsOld' /\ TriedIsExplained'
  BY <1>1, <1>5 DEF SeenIsOld, TriedIsExplained
<1>11. SentMeansHanded' /\ DisabledIsUntouched'
  BY <1>1, <1>3, <1>6 DEF SentMeansHanded, DisabledIsUntouched, TypeOK
<1>12. QED
  BY <1>7, <1>8, <1>9, <1>10, <1>11

\* A row's UPDATE takes its lock.
LEMMA FlushKeepsIInv ==
  ASSUME IInv, NEW w \in Workers, Flush(w)
  PROVE  IInv'
<1> USE DEF IInv
<1>1. PICK r \in worker[w].batch :
        /\ worker[w].at = "flush" /\ IsNext(w, r)
        /\ worker' = [worker EXCEPT ![w].written = @ \cup {r}, ![w].batch = @ \ {r},
                                    ![w].at = "send"]
        /\ UNCHANGED <<created, table, cooling, handed, unanswered, faults>>
  BY DEF Flush
<1>2. r \in Rows /\ worker[w] \in WorkerType /\ TypeOf[r] \notin Disabled
  BY DEF TypeOK, WorkerType, UntriedInBatch
<1>3. /\ worker' \in [Workers -> WorkerType]
      /\ \A v \in Workers :
           /\ worker'[v].at = IF v = w THEN "send" ELSE worker[v].at
           /\ worker'[v].batch = IF v = w THEN worker[v].batch \ {r} ELSE worker[v].batch
           /\ worker'[v].seen = worker[v].seen
           /\ worker'[v].copy = worker[v].copy
           /\ worker'[v].written =
                IF v = w THEN worker[v].written \cup {r} ELSE worker[v].written
  BY <1>1, <1>2 DEF TypeOK, WorkerType
<1>4. TypeOK'
  BY <1>1, <1>3 DEF TypeOK
<1>5. UntriedInBatch'
  <2>1. ASSUME NEW q \in worker[w].batch, q # r
        PROVE  worker[w].copy[q] = worker[w].seen[q]
    <3>1. q \in Int /\ r \in Int /\ r <= q
      BY <1>1, <1>2 DEF TypeOK, WorkerType, Rows, IsNext
    <3>2. ~IsNext(w, q)
      BY <2>1, <3>1 DEF IsNext
    <3>3. QED
      BY <3>2 DEF UntriedInBatch
  <2>2. ASSUME NEW v \in Workers, v # w
        PROVE  /\ worker'[v].at = worker[v].at /\ worker'[v].batch = worker[v].batch
               /\ \A q : IsNext(v, q)' <=> IsNext(v, q)
    <3>1. worker'[v].at = worker[v].at /\ worker'[v].batch = worker[v].batch
      BY <1>3, <2>2
    <3>2. QED
      BY <3>1 DEF IsNext
  <2>3. ASSUME NEW v \in Workers, NEW q \in worker'[v].batch
        PROVE  /\ q \in worker[v].batch
               /\ \/ worker'[v].copy[q] = worker'[v].seen[q]
                  \/ worker'[v].at = "flush" /\ IsNext(v, q)'
    <3>1. CASE v = w
      BY <1>3, <2>1, <3>1
    <3>2. CASE v # w
      <4>1. /\ q \in worker[v].batch /\ worker'[v].at = worker[v].at
            /\ IsNext(v, q)' <=> IsNext(v, q)
        BY <2>2, <3>2
      <4>2. worker'[v].copy = worker[v].copy /\ worker'[v].seen = worker[v].seen
        BY <1>3
      <4>3. \/ worker[v].copy[q] = worker[v].seen[q]
            \/ worker[v].at = "flush" /\ IsNext(v, q)
        BY <4>1 DEF UntriedInBatch
      <4>4. QED
        BY <4>1, <4>2, <4>3
    <3>3. QED
      BY <3>1, <3>2
  <2>4. QED
    BY <1>3, <2>3 DEF UntriedInBatch
<1>6. CopyOfSeen' /\ SeenIsOld' /\ TriedIsExplained' /\ DisabledIsUnwritten'
  <2>1. /\ UNCHANGED <<table, handed>>
        /\ \A v \in Workers : worker'[v].seen = worker[v].seen /\ worker'[v].copy = worker[v].copy
    BY <1>1, <1>3
  <2>2. CopyOfSeen'
    BY <2>1 DEF CopyOfSeen
  <2>3. SeenIsOld'
    BY <2>1 DEF SeenIsOld
  <2>4. TriedIsExplained'
    BY <2>1 DEF TriedIsExplained
  <2>5. ASSUME NEW v \in Workers, NEW q \in worker'[v].written
        PROVE  TypeOf[q] \notin Disabled
    <3>1. q = r \/ q \in worker[v].written
      <4>1. v = w => worker'[v].written = worker[v].written \cup {r}
        BY <1>3
      <4>2. v # w => worker'[v].written = worker[v].written
        BY <1>3
      <4>3. QED
        BY <4>1, <4>2
    <3>2. QED
      BY <1>2, <3>1 DEF DisabledIsUnwritten
  <2>6. QED
    BY <2>2, <2>3, <2>4, <2>5 DEF DisabledIsUnwritten
<1>7. SentMeansHanded' /\ DisabledIsUntouched'
  BY <1>1 DEF SentMeansHanded, DisabledIsUntouched
<1>8. QED
  BY <1>4, <1>5, <1>6, <1>7

\* A worker goes back to sleep: its rows are as new, whatever the table has become.
LEMMA SleepKeepsWorkers ==
  ASSUME IInv, NEW w \in Workers, worker' = [worker EXCEPT ![w] = Asleep], UNCHANGED handed
  PROVE  /\ worker' \in [Workers -> WorkerType]
         /\ UntriedInBatch' /\ CopyOfSeen' /\ DisabledIsUnwritten'
         /\ \A v \in Workers, r \in Rows :
              worker'[v].seen[r] \in {Fresh, worker[v].seen[r]}
<1> USE Defaults DEF IInv
<1>1. /\ worker' \in [Workers -> WorkerType]
      /\ \A v \in Workers : worker'[v] = IF v = w THEN Asleep ELSE worker[v]
  BY DEF TypeOK
<1>2. UntriedInBatch' /\ CopyOfSeen' /\ DisabledIsUnwritten'
  BY <1>1 DEF UntriedInBatch, CopyOfSeen, DisabledIsUnwritten, IsNext
<1>3. QED
  BY <1>1, <1>2

\* What a commit does to the row of a table.
LEMMA CommittedRow ==
  ASSUME IInv, NEW w \in Workers, Commit(w), NEW r \in Rows
  PROVE  LET seen == worker[w].seen[r]
             copy == worker[w].copy[r]
         IN  /\ table'[r] \in Columns
             /\ \/ table'[r] = table[r]
                \/ /\ ~seen.sent /\ copy.error = ~copy.sent
                   /\ copy.attempts = seen.attempts + 1
                   /\ table'[r].sent = (IF copy.sent THEN TRUE ELSE table[r].sent)
                   /\ table'[r].error =
                        (IF copy.error # seen.error THEN copy.error ELSE table[r].error)
                   /\ copy.sent => handed[r] > 0
                   /\ TypeOf[r] \notin Disabled
<1> USE DEF IInv
<1> DEFINE seen == worker[w].seen[r]
           copy == worker[w].copy[r]
<1>1. table[r] \in Columns /\ seen \in Columns /\ copy \in Columns
  BY DEF TypeOK, WorkerType
<1>2. table'[r] = IF r \in worker[w].written THEN Stored(table[r], seen, copy) ELSE table[r]
  BY DEF Commit
<1>3. Stored(table[r], seen, copy) \in Columns
  BY <1>1 DEF Stored, Columns
<1>4. CASE r \notin worker[w].written
  BY <1>1, <1>2, <1>4
<1>5. CASE copy = seen
  <2>1. Stored(table[r], seen, copy) = table[r]
    BY <1>1, <1>5 DEF Stored, Columns
  <2>2. QED
    BY <1>1, <1>2, <2>1
<1>6. CASE r \in worker[w].written /\ copy # seen
  <2>1. /\ ~seen.sent /\ copy.error = ~copy.sent
        /\ copy.attempts = seen.attempts + 1
        /\ copy.sent => handed[r] > 0
    BY <1>6 DEF CopyOfSeen
  <2>2. /\ table'[r].sent = (IF copy.sent # seen.sent THEN copy.sent ELSE table[r].sent)
        /\ table'[r].error = (IF copy.error # seen.error THEN copy.error ELSE table[r].error)
    BY <1>2, <1>6 DEF Stored
  <2>21. table'[r].sent = (IF copy.sent THEN TRUE ELSE table[r].sent)
    <3>1. copy.sent \in BOOLEAN /\ seen.sent = FALSE
      BY <1>1, <2>1 DEF Columns
    <3>2. QED
      BY <2>2, <3>1
  <2>3. TypeOf[r] \notin Disabled
    BY <1>6 DEF DisabledIsUnwritten
  <2>4. QED
    BY <1>2, <1>3, <1>6, <2>1, <2>2, <2>21, <2>3
<1>7. QED
  BY <1>4, <1>5, <1>6

\* A commit never takes a row's mark back.
LEMMA CommitKeepsSent ==
  ASSUME IInv, NEW w \in Workers, Commit(w), NEW r \in Rows
  PROVE  /\ table[r].sent => table'[r].sent
         /\ table[r].error /\ ~table'[r].sent => table'[r].error
<1>1. table[r].sent \in BOOLEAN /\ table[r].error \in BOOLEAN
  BY DEF IInv, TypeOK, Columns
<1>2. QED
  BY <1>1, CommittedRow

\* A poll's results are committed.
LEMMA CommitKeepsIInv ==
  ASSUME IInv, NEW w \in Workers, Commit(w)
  PROVE  IInv'
<1> USE DEF IInv
<1>1. UNCHANGED <<created, handed, unanswered, faults>>
  BY DEF Commit
<1>2. /\ worker' \in [Workers -> WorkerType]
      /\ UntriedInBatch' /\ CopyOfSeen' /\ DisabledIsUnwritten'
      /\ \A v \in Workers, r \in Rows :
           worker'[v].seen[r] \in {Fresh, worker[v].seen[r]}
  BY SleepKeepsWorkers DEF Commit
<1>3. TypeOK'
  <2>1. table' \in [Rows -> Columns]
    BY CommittedRow DEF Commit
  <2>2. cooling' \subseteq Rows
    BY DEF Commit, TypeOK, WorkerType
  <2>3. QED
    BY <1>1, <1>2, <2>1, <2>2 DEF TypeOK
<1>4. SeenIsOld'
  BY <1>2, CommitKeepsSent, Defaults DEF SeenIsOld
<1>5. ASSUME NEW r \in Rows, table'[r].attempts > 0, ~table'[r].sent
      PROVE  table'[r].error
  <2> DEFINE seen == worker[w].seen[r]
             copy == worker[w].copy[r]
  <2>1. CASE table'[r] = table[r]
    BY <1>5, <2>1 DEF TriedIsExplained
  <2>2. CASE table'[r] # table[r]
    <3>1. /\ copy.error = ~copy.sent
          /\ table'[r].sent = (IF copy.sent THEN TRUE ELSE table[r].sent)
          /\ table'[r].error = (IF copy.error # seen.error THEN copy.error ELSE table[r].error)
      BY <2>2, CommittedRow
    <3>2. ~copy.sent /\ ~table[r].sent /\ copy.error
      BY <1>5, <3>1
    <3>3. seen.error /\ ~table[r].sent => table[r].error
      BY DEF SeenIsOld
    <3>4. seen \in Columns /\ copy \in Columns
      BY DEF TypeOK, WorkerType
    <3>5. QED
      BY <3>1, <3>2, <3>3, <3>4 DEF Columns
  <2>3. QED
    BY <2>1, <2>2
<1>6. TriedIsExplained'
  BY <1>2, <1>5, Defaults DEF TriedIsExplained
<1>7. SentMeansHanded' /\ DisabledIsUntouched'
  BY <1>1, CommittedRow DEF SentMeansHanded, DisabledIsUntouched
<1>8. QED
  BY <1>2, <1>3, <1>4, <1>6, <1>7

\* A poll is lost.
LEMMA FaultKeepsIInv ==
  ASSUME IInv, NEW w \in Workers, Fault(w)
  PROVE  IInv'
<1> USE Defaults DEF IInv, Fault
<1>1. /\ worker' \in [Workers -> WorkerType]
      /\ UntriedInBatch' /\ CopyOfSeen' /\ DisabledIsUnwritten'
      /\ \A v \in Workers, r \in Rows :
           worker'[v].seen[r] \in {Fresh, worker[v].seen[r]}
  BY SleepKeepsWorkers
<1>2. TypeOK'
  BY <1>1 DEF TypeOK
<1>3. SeenIsOld' /\ TriedIsExplained' /\ SentMeansHanded' /\ DisabledIsUntouched'
  BY <1>1 DEF SeenIsOld, TriedIsExplained, SentMeansHanded, DisabledIsUntouched
<1>4. QED
  BY <1>1, <1>2, <1>3

-----------------------------------------------------------------------------
\* Every step preserves the invariant.
LEMMA NextKeepsIInv == IInv /\ [Next]_vars => IInv'
<1>1. IInv /\ UNCHANGED vars => IInv'
  BY DEF IInv, vars, TypeOK, UntriedInBatch, CopyOfSeen, SeenIsOld, TriedIsExplained,
     DisabledIsUnwritten, SentMeansHanded, DisabledIsUntouched, IsNext
<1>2. QED
  BY <1>1, QueueKeepsIInv, PollKeepsIInv, SendKeepsIInv, FlushKeepsIInv, CommitKeepsIInv,
     FaultKeepsIInv DEF Next, Work

\* The outbox never leaves the inductive invariant.
THEOREM OutboxInvariant == Spec => []IInv
  BY InitIInv, NextKeepsIInv, PTL DEF Spec

\* Type correctness: no worker counts an attempt beyond NOTIFICATION_MAX_ATTEMPTS,
\* however many of them write the row (notification_service.py, _send_one).
THEOREM OutboxTypeOK == Spec => []TypeOK
<1>1. IInv => TypeOK
  BY DEF IInv
<1>2. QED
  BY <1>1, OutboxInvariant, PTL

\* A row marked sent was accepted by its provider, for any number of workers that read
\* it at any time (notification_service.py, _send_one and the commit of run_once).
THEOREM SentWasHanded == Spec => []SentMeansHanded
<1>1. IInv => SentMeansHanded
  BY DEF IInv
<1>2. QED
  BY <1>1, OutboxInvariant, PTL

\* Nothing is dropped without a word, whichever workers wrote the row (same code).
THEOREM NothingDroppedSilently == Spec => []ExhaustedIsExplained
<1>1. IInv => ExhaustedIsExplained
  BY DEF IInv, TriedIsExplained, ExhaustedIsExplained
<1>2. QED
  BY <1>1, OutboxInvariant, PTL

\* A switched-off channel is left alone (notification_service.py,
\* process_pending_notifications).
THEOREM DisabledStaysUntouched == Spec => []DisabledIsUntouched
<1>1. IInv => DisabledIsUntouched
  BY DEF IInv
<1>2. QED
  BY <1>1, OutboxInvariant, PTL

\* The mark is never taken back by a worker that read the row before (same code).
THEOREM SentStaysSent == Spec => SentIsFinal
<1>1. ASSUME IInv, [Next]_vars PROVE \A r \in Rows : table[r].sent => table'[r].sent
  <2>1. CASE \E w \in Workers : Commit(w)
    BY <1>1, <2>1, CommitKeepsSent
  <2>2. CASE ~\E w \in Workers : Commit(w)
    <3>1. UNCHANGED table
      BY <1>1, <2>2 DEF Next, vars, Enqueue, Work, Poll, Send, Flush, Fault, BackoffElapses
    <3>2. QED
      BY <3>1
  <2>3. QED
    BY <2>1, <2>2
<1>2. QED
  BY <1>1, OutboxInvariant, PTL DEF Spec, SentIsFinal

-----------------------------------------------------------------------------
(* One worker, as the compose files deploy it.                              *)

OneWorker == \A v, w \in Workers : v = w

\* The worker has tried the row and not yet committed that it was sent.
InHand(w, r) ==
  /\ worker[w].at # "asleep" /\ worker[w].copy[r].sent
  /\ \/ worker[w].at = "flush" /\ r \in worker[w].batch
     \/ r \in worker[w].written

\* What one worker adds: it sees the table as it is, and what it handed over once is
\* marked, in the table or in its hand.
OneInv ==
  /\ \A w \in Workers : worker[w].at # "asleep" => worker[w].seen = table
  /\ \A r \in Rows : r \notin unanswered /\ faults = 0 =>
       /\ handed[r] <= 1
       /\ handed[r] = 1 => table[r].sent \/ \E w \in Workers : InHand(w, r)

\* The worker's own steps.
LEMMA OneWorkKeepsOneInv ==
  ASSUME OneWorker, IInv, OneInv, NEW w \in Workers, Work(w)
  PROVE  OneInv'
<1> USE DEF OneInv
<1>1. \A v \in Workers : v = w
  BY DEF OneWorker
<1>2. worker[w] \in WorkerType /\ worker \in [Workers -> WorkerType]
  BY DEF IInv, TypeOK
<1>3. CASE Poll(w)
  <2>1. /\ worker[w].at = "asleep" /\ worker'[w].at = "send" /\ worker'[w].seen = table
        /\ UNCHANGED <<table, handed, unanswered, faults>>
    BY <1>2, <1>3 DEF Poll
  <2>2. \A r \in Rows : ~\E v \in Workers : InHand(v, r)
    BY <1>1, <2>1 DEF InHand
  <2>3. QED
    BY <1>1, <2>1, <2>2
<1>4. CASE Send(w)
  <2>1. PICK r \in worker[w].batch :
          /\ worker[w].at = "send" /\ IsNext(w, r)
          /\ \/ /\ SetCopy(w, r, Succeeded(worker[w].copy[r]))
                /\ handed' = [handed EXCEPT ![r] = @ + 1]
                /\ UNCHANGED unanswered
             \/ /\ SetCopy(w, r, Failed(worker[w].copy[r]))
                /\ UNCHANGED <<handed, unanswered>>
             \/ /\ SetCopy(w, r, Failed(worker[w].copy[r]))
                /\ handed' = [handed EXCEPT ![r] = @ + 1]
                /\ unanswered' = unanswered \cup {r}
          /\ UNCHANGED <<created, table, cooling, faults>>
    BY <1>4 DEF Send
  <2>2. r \in Rows /\ handed[r] \in Nat
    BY <1>2 DEF IInv, TypeOK, WorkerType
  <2>3. ~table[r].sent /\ ~worker[w].copy[r].sent
    BY <2>1 DEF IInv, UntriedInBatch
  <2>4. r \notin unanswered /\ faults = 0 => handed[r] = 0
    <3>1. ~\E v \in Workers : InHand(v, r)
      BY <1>1, <2>3 DEF InHand
    <3>2. QED
      BY <2>2, <2>3, <3>1
  <2>5. /\ worker'[w].at = "flush" /\ worker'[w].seen = worker[w].seen
        /\ worker'[w].batch = worker[w].batch /\ worker'[w].written = worker[w].written
        /\ \A q \in Rows \ {r} : worker'[w].copy[q] = worker[w].copy[q]
    BY <1>2, <2>1, <2>2 DEF SetCopy, WorkerType
  <2>6. \A q \in Rows \ {r} :
          /\ handed'[q] = handed[q]
          /\ q \notin unanswered' => q \notin unanswered
          /\ InHand(w, q) => InHand(w, q)'
    <3>1. \A q \in Rows \ {r} : InHand(w, q) => InHand(w, q)'
      BY <2>1, <2>5 DEF InHand
    <3>2. \A q \in Rows \ {r} : handed'[q] = handed[q]
      BY <2>1, <2>2 DEF IInv, TypeOK
    <3>3. QED
      BY <2>1, <3>1, <3>2
  <2>7. r \notin unanswered' /\ faults' = 0 =>
          handed'[r] <= 1 /\ (handed'[r] = 1 => InHand(w, r)')
    <3>1. CASE SetCopy(w, r, Succeeded(worker[w].copy[r]))
      <4>1. worker'[w].copy[r].sent
        BY <1>2, <2>2, <3>1 DEF SetCopy, WorkerType, Succeeded
      <4>2. InHand(w, r)'
        BY <2>5, <4>1 DEF InHand
      <4>3. handed'[r] \in {handed[r], handed[r] + 1}
        BY <2>1, <2>2 DEF IInv, TypeOK
      <4>4. r \notin unanswered' /\ faults' = 0 => handed'[r] <= 1
        BY <2>1, <2>2, <2>4, <4>3
      <4>5. QED
        BY <4>2, <4>4
    <3>2. CASE UNCHANGED <<handed, unanswered>>
      BY <2>1, <2>2, <2>4, <3>2
    <3>3. CASE unanswered' = unanswered \cup {r}
      BY <3>3
    <3>4. QED
      BY <2>1, <3>1, <3>2, <3>3
  <2>8. \A v \in Workers : worker'[v].at # "asleep" => worker'[v].seen = table'
    BY <1>1, <2>1, <2>5
  <2>9. QED
    BY <1>1, <2>1, <2>6, <2>7, <2>8
<1>5. CASE Flush(w)
  <2>1. PICK r \in worker[w].batch :
          /\ worker[w].at = "flush" /\ IsNext(w, r)
          /\ worker' = [worker EXCEPT ![w].written = @ \cup {r}, ![w].batch = @ \ {r},
                                      ![w].at = "send"]
          /\ UNCHANGED <<created, table, cooling, handed, unanswered, faults>>
    BY <1>5 DEF Flush
  <2>2. /\ worker'[w].at = "send" /\ worker'[w].seen = worker[w].seen
        /\ worker'[w].copy = worker[w].copy
        /\ worker'[w].written = worker[w].written \cup {r}
    BY <1>2, <2>1 DEF WorkerType
  <2>3. ASSUME NEW q \in worker[w].batch, worker[w].copy[q].sent
        PROVE  q = r
    <3>1. IsNext(w, q)
      BY <2>3 DEF IInv, UntriedInBatch
    <3>2. q \in Int /\ r \in Int
      BY <1>2 DEF WorkerType, Rows
    <3>3. QED
      BY <2>1, <3>1, <3>2 DEF IsNext
  <2>4. \A q \in Rows : InHand(w, q) => InHand(w, q)'
    <3>1. ASSUME NEW q \in Rows, InHand(w, q) PROVE InHand(w, q)'
      <4>1. worker[w].copy[q].sent /\ (q = r \/ q \in worker[w].written)
        BY <2>3, <3>1 DEF InHand
      <4>2. worker'[w].copy[q].sent /\ q \in worker'[w].written
        BY <2>2, <4>1
      <4>3. QED
        BY <2>2, <4>2 DEF InHand
    <3>2. QED
      BY <3>1
  <2>5. QED
    BY <1>1, <2>1, <2>2, <2>4
<1>6. CASE Commit(w)
  <2>1. worker'[w].at = "asleep"
    BY <1>2, <1>6, Defaults DEF Commit
  <2>2. \A r \in Rows : InHand(w, r) => table'[r].sent
    <3>1. ASSUME NEW r \in Rows, InHand(w, r) PROVE table'[r].sent
      <4>1. /\ r \in worker[w].written /\ worker[w].copy[r].sent
            /\ worker[w].seen = table
        BY <1>6, <3>1 DEF InHand, Commit
      <4>2. table'[r] = Stored(table[r], table[r], worker[w].copy[r])
        BY <1>6, <4>1 DEF Commit
      <4>3. table'[r].sent = IF worker[w].copy[r].sent # table[r].sent
                             THEN worker[w].copy[r].sent ELSE table[r].sent
        BY <4>2 DEF Stored
      <4>4. QED
        BY <4>1, <4>3
    <3>2. QED
      BY <3>1
  <2>3. \A r \in Rows : table[r].sent => table'[r].sent
    BY <1>6, CommitKeepsSent
  <2>4. UNCHANGED <<handed, unanswered, faults>>
    BY <1>6 DEF Commit
  <2>5. QED
    BY <1>1, <2>1, <2>2, <2>3, <2>4
<1>7. QED
  BY <1>3, <1>4, <1>5, <1>6 DEF Work

\* Every step.
LEMMA NextKeepsOneInv ==
  ASSUME OneWorker
  PROVE  IInv /\ OneInv /\ [Next]_vars => OneInv'
<1> SUFFICES ASSUME IInv, OneInv, [Next]_vars PROVE OneInv'
  OBVIOUS
<1>1. CASE \E w \in Workers : Work(w)
  BY <1>1, OneWorkKeepsOneInv
<1>2. CASE \E w \in Workers : Fault(w)
  <2>1. PICK w \in Workers : Fault(w)
    BY <1>2
  <2>2. faults' > 0
    BY <2>1 DEF Fault, IInv, TypeOK
  <2>3. \A v \in Workers : worker'[v].at # "asleep" => worker'[v].seen = table'
    BY <2>1, Defaults DEF Fault, OneInv, IInv, TypeOK, OneWorker
  <2>4. QED
    BY <2>2, <2>3 DEF OneInv
<1>3. CASE UNCHANGED <<table, worker, handed, unanswered, faults>>
  BY <1>3 DEF OneInv, InHand
<1>4. QED
  BY <1>1, <1>2, <1>3 DEF Next, Enqueue, BackoffElapses, vars

\* With one worker, an owner gets a message twice only after a crash, a refused flush or
\* a lost answer (notification_service.py, _send_one; worker.py, run_once).
THEOREM OneMessageEach ==
  ASSUME OneWorker
  PROVE  Spec => []NoNeedlessDuplicate
<1>1. Init => OneInv
  BY Defaults DEF Init, OneInv
<1>2. IInv /\ OneInv /\ [Next]_vars => OneInv'
  BY NextKeepsOneInv
<1>3. IInv /\ OneInv => NoNeedlessDuplicate
  BY DEF IInv, OneInv, TypeOK, NoNeedlessDuplicate
<1>4. QED
  BY <1>1, <1>2, <1>3, OutboxInvariant, PTL DEF Spec
=============================================================================
