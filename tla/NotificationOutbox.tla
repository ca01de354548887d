------------------------- MODULE NotificationOutbox -------------------------
(***************************************************************************)
(* The outbox of owner notifications: rows queued by a booking             *)
(* (conversation/tools.py) and sent by worker processes that poll the      *)
(* table (worker.py, notification_service.py).  A poll reads its batch     *)
(* once, sends row after row, flushes each result, and commits at the very *)
(* end: until then the results are the worker's alone, and a crash or a    *)
(* refused flush loses all of them.                                        *)
(***************************************************************************)
EXTENDS Integers, FiniteSets

CONSTANTS
  Workers,     \* worker processes
  NumRows,     \* bound: notifications queued
  TypeOf,      \* notification_type of each row
  Disabled,    \* channels switched off by a feature flag
  MaxAttempts, \* NOTIFICATION_MAX_ATTEMPTS
  Limit,       \* process_pending_notifications(limit=...)
  MaxFaults    \* bound: crashes and refused flushes

\* Rows in the order of their created_at.
Rows == 1 .. NumRows

Types == {"sms", "email", "other"}

ASSUME OutboxAssumption ==
  /\ NumRows \in Nat
  /\ TypeOf \in [Rows -> Types]
  /\ Disabled \subseteq {"sms", "email"}
  /\ MaxAttempts \in Nat \ {0}
  /\ Limit \in Nat \ {0}
  /\ MaxFaults \in Nat

VARIABLES
  created,    \* how many rows have been queued
  table,      \* the committed columns of each row
  cooling,    \* the rows inside their backoff window
  worker,     \* each worker's batch, its copies of the rows and its transaction
  handed,     \* history: how often the provider has accepted each message
  unanswered, \* history: rows whose accepted message was reported as failed
  faults      \* history: crashes and refused flushes so far

vars == <<created, table, cooling, worker, handed, unanswered, faults>>

Columns == [sent : BOOLEAN, attempts : 0 .. MaxAttempts, error : BOOLEAN]
Fresh == [sent |-> FALSE, attempts |-> 0, error |-> FALSE]

\* A worker between polls.  seen: the rows as its query loaded them; copy: as it
\* has changed them; written: flushed, and locked until its transaction ends.
Asleep == [at |-> "asleep", batch |-> {}, seen |-> [r \in Rows |-> Fresh],
           copy |-> [r \in Rows |-> Fresh], written |-> {}]

-----------------------------------------------------------------------------
\* create_reservation_request: a text message, an email, or both.
Enqueue ==
  /\ \E n \in 1 .. 2 : created' = created + n /\ created' <= NumRows
  /\ UNCHANGED <<table, cooling, worker, handed, unanswered, faults>>

\* The WHERE clause of the poll's query.
Candidates ==
  {r \in 1 .. created : ~table[r].sent /\ table[r].attempts < MaxAttempts}

\* ORDER BY created_at LIMIT limit, before anything else is filtered out.
Selected ==
  {r \in Candidates : Cardinality({q \in Candidates : q < r}) < Limit}

\* (mutant: a row that failed once is left alone)
IsDue_FirstOnly(r) == table[r].attempts = 0

\* _is_due
IsDue(r) == table[r].attempts = 0 \/ r \notin cooling

Due == {r \in Selected : TypeOf[r] \notin Disabled /\ IsDue(r)}

\* The query of a poll, and the rows of it that are due now.
Poll(w) ==
  /\ worker[w].at = "asleep"
  /\ worker' = [worker EXCEPT ![w] =
       [at |-> "send", batch |-> Due, seen |-> table, copy |-> table, written |-> {}]]
  /\ UNCHANGED <<created, table, cooling, handed, unanswered, faults>>

\* The row of the batch whose turn it is.
IsNext(w, r) == \A q \in worker[w].batch : r <= q

\* _send_one's change to a row, by how the send went.
\* (mutant: is_sent is not set)
Succeeded_Unmarked(c) == [sent |-> c.sent, attempts |-> c.attempts + 1, error |-> FALSE]
Succeeded(c) == [sent |-> TRUE, attempts |-> c.attempts + 1, error |-> FALSE]
\* (mutant: a failure leaves no trace but the count)
Failed_Silently(c) == [c EXCEPT !.attempts = @ + 1]
Failed(c) == [sent |-> c.sent, attempts |-> c.attempts + 1, error |-> TRUE]

SetCopy(w, r, c) == worker' = [worker EXCEPT ![w].copy[r] = c, ![w].at = "flush"]

\* _send_one up to its flush: the provider accepts the message, refuses it, or
\* accepts it and its answer is lost.  An unknown type is never sent.
Send(w) ==
  /\ worker[w].at = "send"
  /\ \E r \in worker[w].batch :
       /\ IsNext(w, r)
       /\ \/ /\ TypeOf[r] # "other"
             /\ SetCopy(w, r, Succeeded(worker[w].copy[r]))
             /\ handed' = [handed EXCEPT ![r] = @ + 1]
             /\ UNCHANGED unanswered
          \/ /\ SetCopy(w, r, Failed(worker[w].copy[r]))
             /\ UNCHANGED <<handed, unanswered>>
          \/ /\ TypeOf[r] # "other"
             /\ SetCopy(w, r, Failed(worker[w].copy[r]))
             /\ handed' = [handed EXCEPT ![r] = @ + 1]
             /\ unanswered' = unanswered \cup {r}
  /\ UNCHANGED <<created, table, cooling, faults>>

\* The flush of _send_one: the UPDATE waits for the row's lock and takes it.
Flush(w) ==
  /\ worker[w].at = "flush"
  /\ \E r \in worker[w].batch :
       /\ IsNext(w, r)
       /\ \A v \in Workers \ {w} : r \notin worker[v].written
       /\ worker' = [worker EXCEPT ![w].written = @ \cup {r},
                                   ![w].batch = @ \ {r},
                                   ![w].at = "send"]
  /\ UNCHANGED <<created, table, cooling, handed, unanswered, faults>>

\* (mutant: every column is written)
Stored_AllColumns(old, seen, copy) == copy

\* What the UPDATE leaves in a row: only columns the worker changed are written.
Stored(old, seen, copy) ==
  [sent |-> IF copy.sent # seen.sent THEN copy.sent ELSE old.sent,
   attempts |-> IF copy.attempts # seen.attempts THEN copy.attempts ELSE old.attempts,
   error |-> IF copy.error # seen.error THEN copy.error ELSE old.error]

\* run_once commits the batch; updated_at, from which the backoff runs, is set.
Commit(w) ==
  /\ worker[w].at = "send" /\ worker[w].batch = {}
  /\ table' = [r \in Rows |->
       IF r \in worker[w].written
       THEN Stored(table[r], worker[w].seen[r], worker[w].copy[r]) ELSE table[r]]
  /\ cooling' = cooling \cup worker[w].written
  /\ worker' = [worker EXCEPT ![w] = Asleep]
  /\ UNCHANGED <<created, handed, unanswered, faults>>

\* The process dies, or a statement is refused and main() logs the iteration as
\* failed: the transaction is rolled back and the next poll starts over.
Fault(w) ==
  /\ worker[w].at # "asleep"
  /\ faults < MaxFaults
  /\ faults' = faults + 1
  /\ worker' = [worker EXCEPT ![w] = Asleep]
  /\ UNCHANGED <<created, table, cooling, handed, unanswered>>

BackoffElapses(r) ==
  /\ r \in cooling
  /\ cooling' = cooling \ {r}
  /\ UNCHANGED <<created, table, worker, handed, unanswered, faults>>

Init ==
  /\ created = 0
  /\ table = [r \in Rows |-> Fresh]
  /\ cooling = {}
  /\ worker = [w \in Workers |-> Asleep]
  /\ handed = [r \in Rows |-> 0]
  /\ unanswered = {}
  /\ faults = 0

Work(w) == Poll(w) \/ Send(w) \/ Flush(w) \/ Commit(w)

Next ==
  \/ Enqueue
  \/ \E w \in Workers : Work(w) \/ Fault(w)
  \/ \E r \in Rows : BackoffElapses(r)

Spec == Init /\ [][Next]_vars

\* Workers poll for ever, statements and sends return, and backoff is capped.
FairSpec ==
  /\ Spec
  /\ \A w \in Workers : WF_vars(Work(w))
  /\ \A r \in Rows : WF_vars(BackoffElapses(r))

-----------------------------------------------------------------------------
(* Properties.                                                              *)

WorkerType ==
  [at : {"asleep", "send", "flush"}, batch : SUBSET Rows, seen : [Rows -> Columns],
   copy : [Rows -> Columns], written : SUBSET Rows]

\* Every variable holds a value the code can give it; in particular no attempt is
\* ever made, or counted, beyond NOTIFICATION_MAX_ATTEMPTS, by any worker.
TypeOK ==
  /\ created \in 0 .. NumRows
  /\ table \in [Rows -> Columns]
  /\ cooling \subseteq Rows
  /\ worker \in [Workers -> WorkerType]
  /\ handed \in [Rows -> Nat]
  /\ unanswered \subseteq Rows
  /\ faults \in 0 .. MaxFaults

\* A row marked sent was accepted by its provider, however many workers wrote it.
SentMeansHanded == \A r \in Rows : table[r].sent => handed[r] > 0

\* A row that has used up its attempts without being sent says why: nothing is
\* dropped silently.
ExhaustedIsExplained ==
  \A r \in Rows : table[r].attempts = MaxAttempts /\ ~table[r].sent => table[r].error

\* The rows of a channel that is switched off are neither sent nor counted.
DisabledIsUntouched ==
  \A r \in Rows : TypeOf[r] \in Disabled => handed[r] = 0 /\ table[r] = Fresh

\* A message reaches the owner twice only if a crash, a refused flush or a lost
\* answer lies behind it (one worker).
NoNeedlessDuplicate ==
  \A r \in Rows : handed[r] > 1 => r \in unanswered \/ faults > 0

\* Once a row is marked sent it stays so, though a worker that read it before may
\* still write it.
SentIsFinal == [][\A r \in Rows : table[r].sent => table'[r].sent]_vars

Settled(r) == table[r].sent \/ table[r].attempts = MaxAttempts

\* The rows of switched-off channels queued before r: the limit counts them, and
\* nothing ever takes them out of the query's way.
DisabledBefore(r) == {q \in 1 .. r - 1 : TypeOf[q] \in Disabled}

\* A row whose channel is on is sent, or has used up its attempts, in the end, as long
\* as the rows of switched-off channels before it leave room for it in a poll.
DueRowsAreSettled ==
  \A r \in Rows : (/\ r <= created /\ TypeOf[r] \notin Disabled
                   /\ Cardinality(DisabledBefore(r)) < Limit) ~> Settled(r)
=============================================================================
