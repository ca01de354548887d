-------------------------- MODULE CallRecordProofs --------------------------
(***************************************************************************)
(* Proofs about CallRecord, for any number of status callbacks and repeats *)
(* of the voice webhook.  The writers work on copies they read earlier;    *)
(* what makes that safe is that whoever reads a row that has not ended     *)
(* reads the row as it was created, so that the columns a copy is written  *)
(* back with are known.  The second part is about CallerMemory, for which  *)
(* the rows of all calls and bookings are what later callers are greeted   *)
(* by and told of.                                                         *)
(***************************************************************************)
EXTENDS CallRecord, CallerMemory, TLAPS, WellFoundedInduction, FiniteSetTheorems

\* The row is as it was created until somebody ends it.
RowIsNewUntilEnded ==
  IF row.ended THEN row.exists /\ row.outcome # "UNKNOWN" ELSE row \in {NoRow, NewRow}

\* Where Twilio is with the call tells who may have read the row.
StageOfCall ==
  /\ (twilio = "ringing" => row = NoRow /\ session.at = "none")
  /\ (twilio = "connecting" => row = NewRow /\ session.at = "none")
  /\ (~CallOver => \A s \in Callbacks : status[s].at = "none")

\* The session loaded the new row, and files what it decided.
Deciding == session.at \in {"finalize", "flushed", "committed", "closed"}

SessionCopy ==
  /\ (session.at # "none" => session.seen = NewRow /\ row.exists)
  /\ (session.at = "live" => session.new = NewRow)
  /\ (Deciding => session.new.ended /\ session.new.exists /\ session.new.outcome # "UNKNOWN")
  /\ (session.closed => session.at = "closed")

\* A callback that has work to do loaded the new row too.
Abandoned ==
  [exists |-> TRUE, ended |-> TRUE, outcome |-> "CALL_ABANDONED", transferred |-> FALSE]

StatusCopy ==
  \A s \in Callbacks :
    status[s].at \in {"finalize", "flushed"} =>
      status[s].seen = NewRow /\ status[s].new = Abandoned /\ row.exists

\* Only the session marks the row transferred, and then the row says what it decided; it may
\* have died in the commit.
Filed == session.at \in {"committed", "closed"}

TransferIsTheSessions ==
  /\ (row.transferred => session.new.transferred /\ (Filed \/ session.at = "dead"))
  /\ (Filed => row.exists /\ row.transferred = session.new.transferred)
  /\ (dialed => row.transferred)

\* The inductive invariant.
IInv ==
  /\ TypeOK
  /\ RowIsNewUntilEnded
  /\ StageOfCall
  /\ SessionCopy
  /\ StatusCopy
  /\ TransferIsTheSessions
  /\ PromiseIsKept

-----------------------------------------------------------------------------
\* The rows that there are at first.
LEMMA Rows ==
  /\ NoRow \in RowType /\ NewRow \in RowType /\ Abandoned \in RowType
  /\ ~NoRow.exists /\ NewRow.exists /\ NoRow # NewRow
  /\ ~NoRow.ended /\ ~NewRow.ended /\ ~NoRow.transferred /\ ~NewRow.transferred
<1>1. /\ NoRow \in RowType /\ NewRow \in RowType /\ Abandoned \in RowType
      /\ ~NoRow.exists /\ NewRow.exists
      /\ ~NoRow.ended /\ ~NewRow.ended /\ ~NoRow.transferred /\ ~NewRow.transferred
  BY DEF NoRow, NewRow, Abandoned, RowType, Outcomes
<1>2. NoRow # NewRow
  BY <1>1
<1>3. QED
  BY <1>1, <1>2

\* What an UPDATE leaves of a row, when the copy was loaded from the new row.
LEMMA StoredIs ==
  ASSUME NEW old \in RowType, NEW new \in RowType, new.outcome # "UNKNOWN"
  PROVE  /\ Stored(old, NewRow, new) \in RowType
         /\ Stored(old, NewRow, new).exists = old.exists
         /\ Stored(old, NewRow, new).ended
         /\ Stored(old, NewRow, new).outcome = new.outcome
         /\ Stored(old, NewRow, new).transferred = (new.transferred \/ old.transferred)
<1>1. Stored(old, NewRow, new) =
        [exists |-> old.exists, ended |-> TRUE, outcome |-> new.outcome,
         transferred |-> (new.transferred \/ old.transferred)]
  BY DEF Stored, NewRow, RowType
<1>2. QED
  BY <1>1 DEF RowType

\* What is filed: never the outcome of a live call.
LEMMA DecidedIs ==
  ASSUME NEW d \in Decisions, session.new \in RowType
  PROVE  /\ Decided(d) \in RowType
         /\ Decided(d).exists = session.new.exists
         /\ Decided(d).ended /\ Decided(d).outcome # "UNKNOWN"
<1>1. d.outcome \in Outcomes \ {"UNKNOWN"} /\ d.transferred \in BOOLEAN
  <2>1. CASE d = [outcome |-> "CALL_ABANDONED", transferred |-> FALSE]
    BY <2>1 DEF Outcomes
  <2>2. CASE d = [outcome |-> "FAQ_ANSWERED", transferred |-> FALSE]
    BY <2>2 DEF Outcomes
  <2>3. CASE d = [outcome |-> "HUMAN_ESCALATION", transferred |-> TRUE]
    BY <2>3 DEF Outcomes
  <2>4. QED
    BY <2>1, <2>2, <2>3 DEF Decisions
<1>2. QED
  BY <1>1 DEF Decided, RowType

\* The fields of TypeOK's records.
SessionPlaces == {"none", "live", "finalize", "flushed", "committed", "closed", "dead"}

LEMMA InitIInv == Init => IInv
<1> SUFFICES ASSUME Init PROVE IInv
  OBVIOUS
<1>1. TypeOK
  <2>1. session \in [at : SessionPlaces, seen : RowType, new : RowType, closed : BOOLEAN]
    BY Rows DEF Init, SessionPlaces
  <2>2. status \in [Callbacks -> [at : {"none", "finalize", "flushed", "done"},
                                 seen : RowType, new : RowType]]
    BY Rows DEF Init
  <2>3. retries \in 0 .. MaxRetries
    BY RecordAssumption DEF Init
  <2>4. QED
    BY <2>1, <2>2, <2>3, Rows DEF Init, TypeOK, SessionPlaces
<1>2. QED
  BY <1>1, Rows DEF Init, IInv, RowIsNewUntilEnded, StageOfCall, CallOver, SessionCopy, Deciding,
     StatusCopy, TransferIsTheSessions, Filed, PromiseIsKept, NoRow

\* The webhook and the calls nobody serves: nobody has read the row yet.
LEMMA BeginningKeeps ==
  ASSUME IInv, Voice \/ VoiceAgain \/ NotInService
  PROVE  IInv'
<1> USE Rows, RecordAssumption
<1>1. TypeOK'
  BY DEF IInv, TypeOK, Voice, VoiceAgain, NotInService
<1>2. RowIsNewUntilEnded' /\ StageOfCall' /\ SessionCopy' /\ StatusCopy'
  BY DEF IInv, TypeOK, RowIsNewUntilEnded, StageOfCall, CallOver, SessionCopy, Deciding, StatusCopy,
     Voice, VoiceAgain, NotInService
<1>3. TransferIsTheSessions' /\ PromiseIsKept'
  BY DEF IInv, TypeOK, StageOfCall, TransferIsTheSessions, Filed, PromiseIsKept, Voice,
     VoiceAgain, NotInService, NoRow
<1>4. QED
  BY <1>1, <1>2, <1>3 DEF IInv

LEMMA StreamOpensKeeps ==
  ASSUME IInv, StreamOpens
  PROVE  IInv'
<1> USE Rows
<1>1. /\ session'.at = "live" /\ session'.seen = NewRow /\ session'.new = NewRow
      /\ session'.closed = session.closed /\ session.at = "none" /\ ~session.closed
      /\ twilio' = "streaming" /\ twilio = "connecting" /\ row = NewRow
      /\ UNCHANGED <<row, status, lock, dialed, retries>>
  BY DEF IInv, TypeOK, StageOfCall, SessionCopy, StreamOpens
<1>2. TypeOK'
  BY DEF IInv, TypeOK, StreamOpens
<1>3. RowIsNewUntilEnded' /\ StageOfCall' /\ SessionCopy' /\ StatusCopy'
  BY <1>1 DEF IInv, RowIsNewUntilEnded, StageOfCall, CallOver, SessionCopy, Deciding, StatusCopy
<1>4. TransferIsTheSessions' /\ PromiseIsKept'
  BY <1>1 DEF IInv, TransferIsTheSessions, Filed, PromiseIsKept
<1>5. QED
  BY <1>2, <1>3, <1>4 DEF IInv

\* The session decides, on its copy.
LEMMA DecideKeeps ==
  ASSUME IInv, Decide
  PROVE  IInv'
<1> USE Rows
<1>1. PICK d \in Decisions : session' = [session EXCEPT !.at = "finalize", !.new = Decided(d)]
  BY Zenon DEF Decide
<1>2. /\ session.at = "live" /\ ~session.closed /\ session.new = NewRow
      /\ UNCHANGED <<row, twilio, status, lock, dialed, retries>>
  BY DEF Decide, IInv, SessionCopy
<1>3. session.new \in RowType
  BY <1>2
<1>4. /\ Decided(d) \in RowType /\ Decided(d).exists
      /\ Decided(d).ended /\ Decided(d).outcome # "UNKNOWN"
  BY <1>2, <1>3, DecidedIs
<1>5. /\ session'.at = "finalize" /\ session'.closed = session.closed
      /\ session'.seen = session.seen /\ session'.new = Decided(d)
  BY <1>1 DEF IInv, TypeOK
<1>6. TypeOK'
  BY <1>1, <1>2, <1>4 DEF IInv, TypeOK
<1>7. RowIsNewUntilEnded' /\ StageOfCall' /\ SessionCopy' /\ StatusCopy'
  BY <1>2, <1>4, <1>5 DEF IInv, RowIsNewUntilEnded, StageOfCall, CallOver, SessionCopy, Deciding,
     StatusCopy
<1>8. TransferIsTheSessions' /\ PromiseIsKept'
  BY <1>2, <1>5 DEF IInv, TransferIsTheSessions, Filed, PromiseIsKept
<1>9. QED
  BY <1>6, <1>7, <1>8 DEF IInv

\* Steps of the session that leave the row and its copy alone.
LEMMA SessionWaitsKeeps ==
  ASSUME IInv, SessionFlush \/ CloseStream \/ (SessionDies /\ row' = row)
  PROVE  IInv'
<1>1. /\ UNCHANGED <<row, status, dialed, retries>>
      /\ session'.seen = session.seen /\ session'.new = session.new
      /\ session.at \notin {"none", "closed"} /\ session'.at # "none" /\ session'.at # "live"
      /\ session'.closed => session'.at = "closed" /\ twilio' = "redirecting"
      /\ session'.at \in SessionPlaces /\ session'.closed \in BOOLEAN
  BY DEF IInv, TypeOK, SessionCopy, SessionFlush, CloseStream, SessionDies, SessionPlaces
<1>2. /\ (session'.at \in {"finalize", "flushed", "committed", "closed"} => Deciding)
      /\ (session'.at \in {"committed", "closed"} <=> Filed)
  BY DEF IInv, TypeOK, SessionFlush, CloseStream, SessionDies, Deciding, Filed
<1>3. /\ twilio' \in {twilio, "redirecting"}
      /\ twilio # "streaming" => twilio' = twilio
      /\ lock' \in Callbacks \cup {"free", "session"}
  BY DEF IInv, TypeOK, SessionFlush, CloseStream, SessionDies
<1>4. TypeOK'
  <2>1. session' \in [at : SessionPlaces, seen : RowType, new : RowType, closed : BOOLEAN]
    BY <1>1 DEF IInv, TypeOK, SessionFlush, CloseStream, SessionDies, SessionPlaces
  <2>2. QED
    BY <1>1, <1>3, <2>1 DEF IInv, TypeOK, SessionPlaces
<1>5. RowIsNewUntilEnded' /\ StageOfCall' /\ SessionCopy' /\ StatusCopy'
  BY <1>1, <1>2, <1>3 DEF IInv, RowIsNewUntilEnded, StageOfCall, CallOver, SessionCopy, Deciding,
     StatusCopy
<1>6. TransferIsTheSessions' /\ PromiseIsKept'
  <2>1. row.transferred => session'.at \in {"committed", "closed", "dead"}
    BY DEF IInv, TypeOK, TransferIsTheSessions, Filed, SessionFlush, CloseStream, SessionDies
  <2>2. QED
    BY <1>1, <1>2, <1>3, <2>1 DEF IInv, SessionCopy, TransferIsTheSessions, Filed, PromiseIsKept
<1>7. QED
  BY <1>4, <1>5, <1>6 DEF IInv

\* The session dies in the commit, which is made all the same.
LEMMA DiesFilingKeeps ==
  ASSUME IInv, SessionDies, row' # row
  PROVE  IInv'
<1> USE Rows
<1>1. /\ session.at = "flushed" /\ session.seen = NewRow /\ session.new \in RowType
      /\ session.new.exists /\ session.new.outcome # "UNKNOWN" /\ ~session.closed
      /\ row \in RowType
      /\ row' = Stored(row, NewRow, session.new)
      /\ UNCHANGED <<status, dialed, retries>>
  BY DEF SessionDies, IInv, TypeOK, SessionCopy, Deciding
<1>2. /\ session'.at = "dead" /\ session'.seen = session.seen
      /\ session'.new = session.new /\ session'.closed = session.closed
      /\ twilio' \in {twilio, "redirecting"} /\ (twilio # "streaming" => twilio' = twilio)
  BY DEF SessionDies, IInv, TypeOK
<1>3. /\ row' \in RowType /\ row'.exists = row.exists /\ row'.ended
      /\ row'.outcome = session.new.outcome
      /\ row'.transferred = (session.new.transferred \/ row.transferred)
  BY <1>1, StoredIs
<1>4. ~row.transferred /\ row.exists /\ ~dialed /\ twilio \notin {"ringing", "connecting"}
  BY <1>1 DEF IInv, TransferIsTheSessions, Filed, StageOfCall, SessionCopy
<1>5. TypeOK'
  BY <1>3 DEF IInv, TypeOK, SessionDies
<1>6. RowIsNewUntilEnded' /\ StageOfCall' /\ SessionCopy' /\ StatusCopy'
  BY <1>1, <1>2, <1>3, <1>4 DEF IInv, RowIsNewUntilEnded, StageOfCall, CallOver, SessionCopy,
     Deciding, StatusCopy
<1>7. row'.transferred = session'.new.transferred
  BY <1>1, <1>2, <1>3, <1>4 DEF RowType
<1>8. TransferIsTheSessions' /\ PromiseIsKept'
  BY <1>1, <1>2, <1>3, <1>4, <1>7 DEF IInv, TransferIsTheSessions, Filed, PromiseIsKept
<1>9. QED
  BY <1>5, <1>6, <1>8 DEF IInv

\* The session files the call.
LEMMA SessionCommitKeeps ==
  ASSUME IInv, SessionCommit
  PROVE  IInv'
<1> USE Rows
<1>1. /\ session.at = "flushed" /\ session.seen = NewRow /\ session.new \in RowType
      /\ session.new.exists /\ session.new.outcome # "UNKNOWN" /\ ~session.closed
      /\ row \in RowType
      /\ row' = Stored(row, NewRow, session.new)
      /\ UNCHANGED <<twilio, status, dialed, retries>>
  BY DEF SessionCommit, IInv, TypeOK, SessionCopy, Deciding
<1>2. /\ session'.at = "committed" /\ session'.seen = session.seen
      /\ session'.new = session.new /\ session'.closed = session.closed
  BY DEF SessionCommit, IInv, TypeOK
<1>3. /\ row' \in RowType /\ row'.exists = row.exists /\ row'.ended
      /\ row'.outcome = session.new.outcome
      /\ row'.transferred = (session.new.transferred \/ row.transferred)
  BY <1>1, StoredIs
<1>4. ~row.transferred /\ row.exists /\ ~dialed /\ twilio \notin {"ringing", "connecting"}
  BY <1>1 DEF IInv, TransferIsTheSessions, Filed, StageOfCall, SessionCopy
<1>5. TypeOK'
  BY <1>3 DEF IInv, TypeOK, SessionCommit
<1>6. RowIsNewUntilEnded' /\ StageOfCall' /\ SessionCopy' /\ StatusCopy'
  BY <1>1, <1>2, <1>3, <1>4 DEF IInv, RowIsNewUntilEnded, StageOfCall, CallOver, SessionCopy,
     Deciding, StatusCopy
<1>7. row'.transferred = session'.new.transferred
  BY <1>1, <1>2, <1>3, <1>4 DEF RowType
<1>8. TransferIsTheSessions' /\ PromiseIsKept'
  BY <1>1, <1>2, <1>3, <1>4, <1>7 DEF IInv, TransferIsTheSessions, Filed, PromiseIsKept
<1>9. QED
  BY <1>5, <1>6, <1>8 DEF IInv

\* Twilio's own steps up to the <Redirect>.
LEMMA TwilioKeeps ==
  ASSUME IInv, HangUp \/ StreamBreaks
  PROVE  IInv'
<1>1. /\ UNCHANGED <<row, session, status, lock, dialed, retries>>
      /\ twilio \notin {"ringing", "over", "redirected"}
      /\ twilio' \in {"over", "redirecting"}
  BY DEF HangUp, StreamBreaks
<1>2. TypeOK'
  BY <1>1 DEF IInv, TypeOK
<1>3. RowIsNewUntilEnded' /\ StageOfCall' /\ SessionCopy' /\ StatusCopy'
  BY <1>1 DEF IInv, RowIsNewUntilEnded, StageOfCall, CallOver, SessionCopy, Deciding, StatusCopy
<1>4. TransferIsTheSessions' /\ PromiseIsKept'
  BY <1>1 DEF IInv, TransferIsTheSessions, Filed, PromiseIsKept
<1>5. QED
  BY <1>2, <1>3, <1>4 DEF IInv

\* The transfer webhook dials on the row: a session that closed the stream has
\* filed it, and nobody has taken the flag back since.
LEMMA RedirectKeeps ==
  ASSUME IInv, Redirect
  PROVE  IInv'
<1>1. /\ UNCHANGED <<row, session, status, lock, retries>>
      /\ twilio = "redirecting" /\ twilio' = "redirected"
      /\ dialed' = (row.transferred /\ CanDial)
  BY DEF Redirect
<1>2. TypeOK'
  BY <1>1 DEF IInv, TypeOK
<1>3. RowIsNewUntilEnded' /\ StageOfCall' /\ SessionCopy' /\ StatusCopy'
  BY <1>1 DEF IInv, RowIsNewUntilEnded, StageOfCall, CallOver, SessionCopy, Deciding, StatusCopy
<1>4. TransferIsTheSessions'
  BY <1>1 DEF IInv, TransferIsTheSessions, Filed
<1>5. session.closed => row.transferred = session.new.transferred
  BY DEF IInv, SessionCopy, TransferIsTheSessions, Filed
<1>6. PromiseIsKept'
  BY <1>1, <1>5 DEF PromiseIsKept
<1>7. QED
  BY <1>2, <1>3, <1>4, <1>6 DEF IInv

\* A callback that finds work to do finds the row as it was created.
LEMMA StatusReadKeeps ==
  ASSUME IInv, NEW s \in Callbacks, StatusRead(s)
  PROVE  IInv'
<1> USE Rows
<1> DEFINE Copy == [at |-> "finalize", seen |-> NewRow, new |-> Abandoned]
<1>1. /\ UNCHANGED <<row, twilio, session, lock, dialed, retries>>
      /\ CallOver
      /\ status[s].at = "none"
  BY DEF StatusRead
<1>2. \/ row.exists /\ status' = [status EXCEPT ![s] = Copy]
      \/ status' = [status EXCEPT ![s].at = "done"]
  <2>1. CASE row.exists /\ ~row.ended
    <3>1. row = NewRow
      BY <2>1 DEF IInv, RowIsNewUntilEnded
    <3>2. [exists |-> TRUE, ended |-> TRUE, outcome |-> StatusOutcome(row),
           transferred |-> row.transferred] = Abandoned
      BY <3>1 DEF StatusOutcome, NewRow, Abandoned
    <3>3. QED
      BY <2>1, <3>1, <3>2, Zenon DEF StatusRead
  <2>2. CASE ~(row.exists /\ ~row.ended)
    BY <2>2, Zenon DEF StatusRead
  <2>3. QED
    BY <2>1, <2>2
<1>3. TypeOK' /\ StatusCopy'
  <2>1. CASE row.exists /\ status' = [status EXCEPT ![s] = Copy]
    BY <1>1, <2>1 DEF IInv, TypeOK, StatusCopy
  <2>2. CASE status' = [status EXCEPT ![s].at = "done"]
    BY <1>1, <2>2 DEF IInv, TypeOK, StatusCopy
  <2>3. QED
    BY <1>2, <2>1, <2>2
<1>4. RowIsNewUntilEnded' /\ StageOfCall' /\ SessionCopy'
  BY <1>1 DEF IInv, RowIsNewUntilEnded, StageOfCall, CallOver, SessionCopy, Deciding
<1>5. TransferIsTheSessions' /\ PromiseIsKept'
  BY <1>1 DEF IInv, TransferIsTheSessions, Filed, PromiseIsKept
<1>6. QED
  BY <1>3, <1>4, <1>5 DEF IInv

LEMMA StatusFlushKeeps ==
  ASSUME IInv, NEW s \in Callbacks, StatusFlush(s)
  PROVE  IInv'
<1>1. /\ UNCHANGED <<row, twilio, session, dialed, retries>>
      /\ lock' = s
      /\ status[s].at = "finalize"
      /\ status' = [status EXCEPT ![s].at = "flushed"]
  BY DEF StatusFlush
<1>2. CallOver
  BY <1>1 DEF IInv, StageOfCall
<1>3. TypeOK' /\ StatusCopy'
  BY <1>1 DEF IInv, TypeOK, StatusCopy
<1>4. RowIsNewUntilEnded' /\ StageOfCall' /\ SessionCopy'
  BY <1>1, <1>2 DEF IInv, RowIsNewUntilEnded, StageOfCall, CallOver, SessionCopy, Deciding
<1>5. TransferIsTheSessions' /\ PromiseIsKept'
  BY <1>1 DEF IInv, TransferIsTheSessions, Filed, PromiseIsKept
<1>6. QED
  BY <1>3, <1>4, <1>5 DEF IInv

\* A callback's update closes the call and leaves the session's flag alone.
LEMMA StatusCommitKeeps ==
  ASSUME IInv, NEW s \in Callbacks, StatusCommit(s)
  PROVE  IInv'
<1> USE Rows
<1>1. /\ UNCHANGED <<twilio, session, dialed, retries>>
      /\ lock' = "free"
      /\ status[s].at = "flushed" /\ status[s].seen = NewRow /\ status[s].new = Abandoned
      /\ row.exists /\ row \in RowType
      /\ status' = [status EXCEPT ![s].at = "done"]
      /\ row' = Stored(row, NewRow, Abandoned)
  BY DEF StatusCommit, IInv, TypeOK, StatusCopy
<1>2. CallOver
  BY <1>1 DEF IInv, StageOfCall
<1>3. Abandoned.outcome # "UNKNOWN" /\ ~Abandoned.transferred
  BY DEF Abandoned
<1>4. /\ row' \in RowType /\ row'.exists /\ row'.ended
      /\ row'.outcome # "UNKNOWN" /\ row'.transferred = row.transferred
  <2>1. Abandoned \in RowType
    BY Rows
  <2>2. /\ row' \in RowType /\ row'.exists = row.exists /\ row'.ended
        /\ row'.outcome = Abandoned.outcome
        /\ row'.transferred = (Abandoned.transferred \/ row.transferred)
    <3>1. row \in RowType /\ Abandoned.outcome # "UNKNOWN"
      BY <1>1, <1>3
    <3>2. /\ Stored(row, NewRow, Abandoned) \in RowType
          /\ Stored(row, NewRow, Abandoned).exists = row.exists
          /\ Stored(row, NewRow, Abandoned).ended
          /\ Stored(row, NewRow, Abandoned).outcome = Abandoned.outcome
          /\ Stored(row, NewRow, Abandoned).transferred
               = (Abandoned.transferred \/ row.transferred)
      BY <2>1, <3>1, StoredIs, Zenon
    <3>3. row' = Stored(row, NewRow, Abandoned)
      BY <1>1
    <3>4. QED
      BY <3>2, <3>3, Zenon
  <2>3. row.transferred \in BOOLEAN /\ row'.transferred \in BOOLEAN
    BY <1>1, <2>2 DEF RowType
  <2>4. QED
    BY <1>1, <1>3, <2>2, <2>3
<1>5. TypeOK' /\ StatusCopy'
  BY <1>1, <1>4 DEF IInv, TypeOK, StatusCopy
<1>6. RowIsNewUntilEnded' /\ StageOfCall' /\ SessionCopy'
  BY <1>1, <1>2, <1>4 DEF IInv, RowIsNewUntilEnded, StageOfCall, CallOver, SessionCopy, Deciding
<1>7. TransferIsTheSessions' /\ PromiseIsKept'
  BY <1>1, <1>4 DEF IInv, TransferIsTheSessions, Filed, PromiseIsKept
<1>8. QED
  BY <1>5, <1>6, <1>7 DEF IInv

LEMMA StutterKeeps == IInv /\ UNCHANGED vars => IInv'
<1> SUFFICES ASSUME IInv, UNCHANGED vars PROVE IInv'
  OBVIOUS
<1>1. UNCHANGED <<row, twilio, session, status, lock, dialed, retries>>
  BY DEF vars
<1>2. QED
  BY <1>1 DEF IInv, TypeOK, RowIsNewUntilEnded, StageOfCall, CallOver, SessionCopy, Deciding,
     StatusCopy, TransferIsTheSessions, Filed, PromiseIsKept

LEMMA NextKeeps == IInv /\ [Next]_vars => IInv'
<1> SUFFICES ASSUME IInv, [Next]_vars PROVE IInv'
  OBVIOUS
<1>1. CASE Voice \/ VoiceAgain \/ NotInService
  BY <1>1, BeginningKeeps
<1>2. CASE StreamOpens
  BY <1>2, StreamOpensKeeps
<1>3. CASE SessionRuns
  BY <1>3, DecideKeeps, SessionWaitsKeeps, SessionCommitKeeps DEF SessionRuns
<1>4. CASE SessionDies
  BY <1>4, SessionWaitsKeeps, DiesFilingKeeps
<1>5. CASE HangUp \/ StreamBreaks
  BY <1>5, TwilioKeeps
<1>6. CASE Redirect
  BY <1>6, RedirectKeeps
<1>7. CASE \E s \in Callbacks : StatusRuns(s)
  BY <1>7, StatusReadKeeps, StatusFlushKeeps, StatusCommitKeeps DEF StatusRuns
<1>8. CASE UNCHANGED vars
  BY <1>8, StutterKeeps
<1>9. QED
  BY <1>1, <1>2, <1>3, <1>4, <1>5, <1>6, <1>7, <1>8 DEF Next

-----------------------------------------------------------------------------
\* The inductive invariant: whoever has yet to write holds a copy of the row as it
\* was created, and the row's flag is the session's decision.
THEOREM RecordInvariant == Spec => []IInv
<1>1. QED
  BY InitIInv, NextKeeps, PTL DEF Spec

\* Every variable keeps the values the code can give it.
THEOREM RecordTypeOK == Spec => []TypeOK
<1>1. IInv => TypeOK
  BY DEF IInv
<1>2. QED
  BY <1>1, RecordInvariant, PTL

\* The restaurant's number is dialled only for a caller whose session decided to
\* hand over, however many callbacks filed the call meanwhile.
THEOREM DialedAsDecided == Spec => []DialedOnlyIfDecided
<1>1. IInv => DialedOnlyIfDecided
  BY DEF IInv, TransferIsTheSessions, DialedOnlyIfDecided
<1>2. QED
  BY <1>1, RecordInvariant, PTL

\* A session that closes the stream to hand its caller over gets the caller dialled.
THEOREM PromisesKept == Spec => []PromiseIsKept
<1>1. IInv => PromiseIsKept
  BY DEF IInv
<1>2. QED
  BY <1>1, RecordInvariant, PTL

\* A call that has ended has an outcome of its own, whoever ended it.
THEOREM EndedResolved == Spec => []EndedIsResolved
<1>1. IInv => EndedIsResolved
  BY DEF IInv, RowIsNewUntilEnded, EndedIsResolved
<1>2. QED
  BY <1>1, RecordInvariant, PTL

\* No later write takes the flag back: before its commit the session has not filed
\* the call, and a callback's copy agrees with what it loaded.
LEMMA FlagStays == IInv /\ [Next]_vars => [row.transferred => row'.transferred]_vars
<1> SUFFICES ASSUME IInv, IInv', [Next]_vars, row.transferred PROVE row'.transferred
  BY NextKeeps
<1>1. session.at \in {"committed", "closed", "dead"} /\ row.exists
  BY DEF IInv, TransferIsTheSessions, Filed, SessionCopy
<1>2. CASE SessionCommit \/ SessionDies
  BY <1>1, <1>2 DEF SessionCommit, SessionDies
<1>3. CASE \E s \in Callbacks : StatusCommit(s)
  <2>1. PICK s \in Callbacks : StatusCommit(s)
    BY <1>3
  <2>2. /\ row' = Stored(row, NewRow, Abandoned)
        /\ row \in RowType
    BY <2>1 DEF StatusCommit, IInv, TypeOK, StatusCopy
  <2>3. Abandoned.outcome # "UNKNOWN"
    BY DEF Abandoned
  <2>4. QED
    BY <2>2, <2>3, Rows, StoredIs
<1>4. CASE Voice
  BY <1>1, <1>4 DEF Voice
<1>5. CASE UNCHANGED row
  BY <1>5
<1>6. QED
  BY <1>2, <1>3, <1>4, <1>5, Zenon DEF Next, VoiceAgain, NotInService, StreamOpens, SessionRuns,
     HangUp, StreamBreaks, Redirect, StatusRuns, StatusRead, StatusFlush, Decide,
     SessionFlush, CloseStream, vars

\* Once the row says that the caller was handed over, it says so for good.
THEOREM TransferStays == Spec => TransferredIsFinal
<1>1. QED
  BY RecordInvariant, FlagStays, PTL DEF Spec, TransferredIsFinal
-----------------------------------------------------------------------------
(* CallerMemory, for any number of lines, restaurants, callers, calls and  *)
(* bookings, any window and any limit.                                     *)

\* Every set of numbers that is not empty has a least one.
LEMMA LeastNumber ==
  ASSUME NEW T, T \subseteq Nat, T # {}
  PROVE  \E n \in T : \A m \in T : n <= m
<1> DEFINE R == {p \in Nat \X Nat : p[1] < p[2]}
<1>1. IsWellFoundedOn(OpToRel(<, Nat), Nat)
  BY NatLessThanWellFounded
<1>2. OpToRel(<, Nat) = R
  BY DEF OpToRel
<1> HIDE DEF R
<1>3. \E n \in T : \A m \in T : ~ (<<m, n>> \in R)
  BY <1>1, <1>2, WFMin
<1>4. PICK n \in T : \A m \in T : ~ (<<m, n>> \in R)
  BY <1>3
<1>5. ASSUME NEW m \in T PROVE n <= m
  <2>1. n \in Nat /\ m \in Nat /\ ~ (<<m, n>> \in R)
    BY <1>4
  <2>2. <<m, n>> \in R <=> m < n
    BY <2>1 DEF R
  <2>3. QED
    BY <2>1, <2>2
<1>6. QED
  BY <1>5

\* The newest row of some rows is one of them, and none is newer.
LEMMA FirstIs ==
  ASSUME NEW n \in Nat, NEW T \in SUBSET (1 .. n)
  PROVE  /\ T = {} => First(T) = 0
         /\ T # {} => First(T) \in T /\ \A j \in T : j <= First(T)
<1>1. ASSUME T # {} PROVE \E i \in T : \A j \in T : j <= i
  <2> DEFINE U == {n - i : i \in T}
  <2>1. U \subseteq Nat /\ U # {}
    <3>1. \A i \in T : i \in 1 .. n /\ n - i \in Nat
      OBVIOUS
    <3>2. QED
      BY <1>1, <3>1
  <2> HIDE DEF U
  <2>2. PICK u \in U : \A v \in U : u <= v
    BY <2>1, LeastNumber
  <2>3. QED
    BY <2>2 DEF U
<1>2. QED
  BY <1>1 DEF First

\* A row that was just added is the newest.
LEMMA FirstOfNew ==
  ASSUME NEW n \in Nat, NEW T \in SUBSET (1 .. n)
  PROVE  First(T \cup {n + 1}) = n + 1
<1> DEFINE U == T \cup {n + 1}
<1>1. U \in SUBSET (1 .. n + 1) /\ U # {} /\ n + 1 \in U
  OBVIOUS
<1> HIDE DEF U
<1>2. First(U) \in U /\ \A j \in U : j <= First(U)
  <2>1. n + 1 \in Nat
    OBVIOUS
  <2>2. QED
    BY <1>1, <2>1, FirstIs
<1>3. n + 1 <= First(U) /\ First(U) \in 1 .. n + 1
  BY <1>1, <1>2
<1>4. First(U) = n + 1
  BY <1>3
<1>5. QED
  BY <1>4 DEF U

-----------------------------------------------------------------------------
\* The rows and the lines.
CallType == [restaurant : Restaurants, number : Numbers \cup {Withheld}, day : Days]
ReservationType == [restaurant : Restaurants, phone : Numbers, day : Days,
                    status : Statuses, kept : BOOLEAN]
LineType(m, n) == [at : {"free", "ringing", "live", "booking", "mute"}, call : 0 .. m,
                   greeting : Greetings, known : 0 .. n, made : SUBSET (1 .. n)]

\* What is known on a line, from before it is answered to after a turn that failed.
Knows(l) ==
  /\ (line[l].at \in {"free", "ringing"} =>
         line[l].known = 0 /\ line[l].made = {} /\ line[l].greeting = "default")
  /\ (line[l].at = "booking" => line[l].known \in line[l].made \cup {0})

\* The parts of RecitesWhatTheyHave and RecitesTheNewest about one line.
Recites(l) ==
  Live(l) /\ line[l].known # 0 =>
    /\ reservations[line[l].known].restaurant = Restaurant(l)
    /\ reservations[line[l].known].phone = Caller(l) \/ line[l].known \in line[l].made
    /\ (line[l].at = "live" => reservations[line[l].known].kept)
    /\ (line[l].known \notin touched[l] => reservations[line[l].known].status # "CANCELLED")

RecitesNewest(l) ==
  Live(l) /\ line[l].made # {} => line[l].known \in {0, First(line[l].made)}

\* The inductive invariant.
LineInv(l) == Knows(l) /\ Recites(l) /\ RecitesNewest(l)
MemoryInv == MemoryTypeOK /\ \A l \in Lines : LineInv(l)

\* What the types say of one line and one row.
LEMMA Typed ==
  ASSUME MemoryTypeOK, NEW l \in Lines
  PROVE  /\ line \in [Lines -> LineType(Len(calls), Len(reservations))]
         /\ line[l] \in LineType(Len(calls), Len(reservations))
         /\ Len(calls) \in Nat /\ Len(reservations) \in Nat
         /\ DOMAIN calls = 1 .. Len(calls) /\ DOMAIN reservations = 1 .. Len(reservations)
         /\ \A i \in 1 .. Len(calls) : calls[i] \in CallType
         /\ \A i \in 1 .. Len(reservations) : reservations[i] \in ReservationType
         /\ (line[l].at # "free" => line[l].call \in 1 .. Len(calls))
         /\ touched[l] \subseteq 1 .. Len(reservations)
<1>1. /\ calls \in Seq(CallType) /\ reservations \in Seq(ReservationType)
      /\ line \in [Lines -> LineType(Len(calls), Len(reservations))]
      /\ touched \in [Lines -> SUBSET (1 .. Len(reservations))]
      /\ (line[l].at # "free" => line[l].call > 0)
  BY DEF MemoryTypeOK, LineType, CallType, ReservationType
<1>2. line[l] \in LineType(Len(calls), Len(reservations))
  BY <1>1
<1>3. line[l].call \in 0 .. Len(calls)
  BY <1>2 DEF LineType
<1>4. QED
  BY <1>1, <1>2, <1>3

-----------------------------------------------------------------------------
\* Rows are never taken away: of a call they keep everything, of a reservation whose it is,
\* and that it was committed.
RowsStay ==
  /\ \A i \in 1 .. Len(calls) : calls'[i] = calls[i]
  /\ \A i \in 1 .. Len(reservations) :
       /\ reservations'[i].restaurant = reservations[i].restaurant
       /\ reservations'[i].phone = reservations[i].phone
       /\ (reservations[i].kept => reservations'[i].kept)

\* Nothing changes for a line that does not act, as long as it is told of a status that does.
LEMMA OtherLineKeeps ==
  ASSUME MemoryTypeOK, NEW l \in Lines, LineInv(l), RowsStay, line'[l] = line[l],
         Live(l) => touched[l] \subseteq touched'[l],
         \A i \in 1 .. Len(reservations) :
           reservations'[i].status # reservations[i].status /\ Live(l) => i \in touched'[l]
  PROVE  LineInv(l)'
<1>1. Knows(l)'
  BY DEF LineInv, Knows
<1>2. RecitesNewest(l)'
  BY DEF LineInv, RecitesNewest, Live, First
<1>3. Recites(l)'
  <2> SUFFICES ASSUME Live(l), line[l].known # 0
               PROVE  /\ reservations'[line[l].known].restaurant = Restaurant(l)'
                      /\ \/ reservations'[line[l].known].phone = Caller(l)'
                         \/ line[l].known \in line[l].made
                      /\ (line[l].at = "live" => reservations'[line[l].known].kept)
                      /\ (line[l].known \notin touched'[l] =>
                            reservations'[line[l].known].status # "CANCELLED")
    BY DEF Recites, Live
  <2>1. line[l].known \in 1 .. Len(reservations) /\ line[l].call \in 1 .. Len(calls)
    BY Typed DEF LineType, Live
  <2>2. Caller(l)' = Caller(l) /\ Restaurant(l)' = Restaurant(l)
    BY <2>1 DEF RowsStay, Caller, Restaurant
  <2>3. QED
    BY <2>1, <2>2 DEF LineInv, Recites, RowsStay
<1>4. QED
  BY <1>1, <1>2, <1>3 DEF LineInv
-----------------------------------------------------------------------------
\* The table of lines stays well typed when rows are added and one line changes.
LEMMA LineTableTyped ==
  ASSUME NEW m \in Nat, NEW n \in Nat, NEW m2 \in Nat, NEW n2 \in Nat, m <= m2, n <= n2,
         NEW old \in [Lines -> LineType(m, n)], NEW l \in Lines, NEW x \in LineType(m2, n2)
  PROVE  /\ old \in [Lines -> LineType(m2, n2)]
         /\ [old EXCEPT ![l] = x] \in [Lines -> LineType(m2, n2)]
<1>1. LineType(m, n) \subseteq LineType(m2, n2)
  BY DEF LineType
<1>2. old \in [Lines -> LineType(m2, n2)]
  BY <1>1
<1>3. QED
  BY <1>2

\* One line acts and the others keep what they know.
LEMMA OneLineActs ==
  ASSUME MemoryInv, MemoryTypeOK', RowsStay, NEW l \in Lines, LineInv(l)',
         \A k \in Lines \ {l} : line'[k] = line[k] /\ touched'[k] = touched[k],
         \A i \in 1 .. Len(reservations) : reservations'[i].status = reservations[i].status
  PROVE  MemoryInv'
<1>1. ASSUME NEW k \in Lines \ {l} PROVE LineInv(k)'
  BY OtherLineKeeps DEF MemoryInv
<1>2. QED
  BY <1>1 DEF MemoryInv

\* Nothing is known before the first call.
LEMMA MemoryBegins == MemoryInit => MemoryInv
<1> SUFFICES ASSUME MemoryInit PROVE MemoryInv
  OBVIOUS
<1>1. MemoryTypeOK
  BY MemoryAssumption DEF MemoryInit, MemoryTypeOK, Free, Days,
     Greetings
<1>2. ASSUME NEW l \in Lines PROVE LineInv(l)
  BY DEF MemoryInit, Free, LineInv, Knows, Recites, RecitesNewest, Live
<1>3. QED
  BY <1>1, <1>2 DEF MemoryInv

\* The call's row is appended and its line rings, knowing nothing.
LEMMA RingKeeps ==
  ASSUME MemoryInv, NEW l \in Lines, NEW restaurant \in Restaurants,
         NEW number \in Numbers \cup {Withheld}, Ring(l, restaurant, number)
  PROVE  MemoryInv'
<1> DEFINE added == [restaurant |-> restaurant, number |-> number, day |-> today]
           ringing == [Free EXCEPT !.at = "ringing", !.call = Len(calls) + 1]
<1>1. MemoryTypeOK
  BY DEF MemoryInv
<1>2. /\ calls' = Append(calls, added) /\ line' = [line EXCEPT ![l] = ringing]
      /\ touched' = [touched EXCEPT ![l] = {}] /\ UNCHANGED <<today, reservations>>
  BY DEF Ring
<1>3. calls \in Seq(CallType) /\ added \in CallType
  BY <1>1 DEF MemoryTypeOK, CallType
<1>4. ASSUME NEW m \in Nat, NEW n \in Nat, Len(calls) + 1 \in 0 .. m
      PROVE  ringing \in LineType(m, n) /\ ringing.at = "ringing" /\ ringing.call = Len(calls) + 1
             /\ ringing.known = 0 /\ ringing.made = {} /\ ringing.greeting = "default"
  <2>1. Free \in LineType(m, n) /\ Free.known = 0 /\ Free.made = {}
        /\ Free.greeting = "default"
    BY <1>4 DEF Free, LineType, Greetings
  <2>2. QED
    BY <1>4, <2>1 DEF LineType
<1> HIDE DEF added, ringing
<1>5. /\ Len(calls) \in Nat /\ calls' \in Seq(CallType) /\ Len(calls') = Len(calls) + 1
      /\ \A i \in 1 .. Len(calls) : calls'[i] = calls[i]
  BY <1>2, <1>3
<1>6. /\ ringing \in LineType(Len(calls'), Len(reservations'))
      /\ ringing.at = "ringing" /\ ringing.call = Len(calls) + 1
      /\ ringing.known = 0 /\ ringing.made = {} /\ ringing.greeting = "default"
  <2>1. /\ Len(calls') \in Nat /\ Len(reservations') \in Nat
        /\ Len(calls) + 1 \in 0 .. Len(calls')
    BY <1>1, <1>2, <1>5, Typed
  <2>2. QED
    BY <1>4, <2>1
<1>7. MemoryTypeOK'
  <2>1. line' \in [Lines -> LineType(Len(calls'), Len(reservations'))]
    <3>1. /\ Len(calls) \in Nat /\ Len(reservations) \in Nat
          /\ Len(calls') \in Nat /\ Len(reservations') \in Nat
          /\ Len(calls) <= Len(calls') /\ Len(reservations) <= Len(reservations')
          /\ line \in [Lines -> LineType(Len(calls), Len(reservations))]
      BY <1>1, <1>2, <1>5, Typed
    <3>2. [line EXCEPT ![l] = ringing] \in [Lines -> LineType(Len(calls'), Len(reservations'))]
      BY <1>6, <3>1, LineTableTyped
    <3>3. QED
      BY <1>2, <3>2
  <2>2. \A k \in Lines : line'[k].at # "free" => line'[k].call > 0
    BY <1>1, <1>2, <1>5, <1>6 DEF MemoryTypeOK
  <2>3. QED
    BY <1>1, <1>2, <1>5, <2>1, <2>2 DEF MemoryTypeOK, LineType, CallType
<1>8. LineInv(l)'
  <2>1. line'[l] = ringing
    BY <1>1, <1>2, Typed
  <2>2. QED
    BY <1>6, <2>1 DEF LineInv, Knows, Recites, RecitesNewest, Live
<1>9. RowsStay
  BY <1>2, <1>5 DEF RowsStay
<1>10. QED
  BY <1>1, <1>2, <1>7, <1>8, <1>9, Typed, OneLineActs
\* A step of one line that adds no rows.
LEMMA LineStepKeeps ==
  ASSUME MemoryInv, NEW l \in Lines, NEW x \in LineType(Len(calls), Len(reservations)),
         x.at # "free" => x.call > 0,
         line' = [line EXCEPT ![l] = x],
         UNCHANGED <<today, calls, reservations>>,
         touched' = touched \/ touched' = [touched EXCEPT ![l] = {}],
         line'[l] = x => LineInv(l)'
  PROVE  MemoryInv'
<1>1. MemoryTypeOK
  BY DEF MemoryInv
<1>2. line'[l] = x /\ \A k \in Lines \ {l} : line'[k] = line[k] /\ touched'[k] = touched[k]
  BY <1>1 DEF MemoryTypeOK
<1>3. MemoryTypeOK'
  <2>1. line' \in [Lines -> LineType(Len(calls), Len(reservations))]
    BY <1>1, Typed
  <2>2. touched' \in [Lines -> SUBSET (1 .. Len(reservations))]
    BY <1>1 DEF MemoryTypeOK
  <2>3. \A k \in Lines : line'[k].at # "free" => line'[k].call > 0
    BY <1>1, <1>2 DEF MemoryTypeOK
  <2>4. QED
    BY <1>1, <2>1, <2>2, <2>3 DEF MemoryTypeOK, LineType
<1>4. RowsStay
  BY DEF RowsStay
<1>5. QED
  BY <1>2, <1>3, <1>4, OneLineActs

\* What get_caller_profile gives the caller to be told of: nothing, or a booking of theirs.
LEMMA FoundIs ==
  ASSUME MemoryInv, NEW restaurant, NEW number
  PROVE  LET i == First(Upcoming(Newest(
                    BookedFor(restaurant, number)))) IN
           \/ i = 0
           \/ /\ i \in 1 .. Len(reservations)
              /\ reservations[i].restaurant = restaurant /\ reservations[i].phone = number
              /\ reservations[i].kept /\ reservations[i].status # "CANCELLED"
<1> DEFINE rows == Upcoming(Newest(BookedFor(restaurant, number)))
<1>1. Len(reservations) \in Nat /\ DOMAIN reservations = 1 .. Len(reservations)
  BY DEF MemoryInv, MemoryTypeOK
<1>2. \A i \in rows : /\ i \in 1 .. Len(reservations)
                      /\ reservations[i].restaurant = restaurant
                      /\ reservations[i].phone = number
                      /\ reservations[i].kept /\ reservations[i].status # "CANCELLED"
  BY <1>1 DEF Upcoming, Newest, BookedFor
<1> HIDE DEF rows
<1>3. rows \in SUBSET (1 .. Len(reservations))
  BY <1>2
<1>4. First(rows) = 0 \/ First(rows) \in rows
  BY <1>1, <1>3, FirstIs
<1>5. QED
  BY <1>2, <1>4 DEF rows

\* A line that is answered knows nothing, or what the lookup found.
LEMMA AnswerKeeps ==
  ASSUME MemoryInv, NEW l \in Lines, Answer(l) \/ AnswerUnknown(l)
  PROVE  MemoryInv'
<1>1. MemoryTypeOK /\ line[l] \in LineType(Len(calls), Len(reservations))
  BY Typed DEF MemoryInv
<1>2. line[l].at = "ringing" /\ UNCHANGED <<today, calls, reservations, touched>>
  BY DEF Answer, AnswerUnknown
<1>3. line[l].call > 0 /\ line[l].known = 0 /\ line[l].made = {}
  BY <1>2 DEF MemoryInv, MemoryTypeOK, LineInv, Knows
<1> DEFINE found == First(Upcoming(Newest(
                      BookedFor(Restaurant(l), Caller(l)))))
<1>4. PICK greeting \in Greetings, known \in {0, found} :
        line' = [line EXCEPT ![l] = [line[l] EXCEPT !.at = "live", !.greeting = greeting,
                                                    !.known = known]]
  <2>1. line[l].greeting \in Greetings
    BY <1>1 DEF LineType
  <2>2. [line[l] EXCEPT !.at = "live"] =
          [line[l] EXCEPT !.at = "live", !.greeting = line[l].greeting, !.known = 0]
    BY <1>1, <1>3 DEF LineType
  <2>3. CASE line' = [line EXCEPT ![l] = [line[l] EXCEPT !.at = "live"]]
    BY <2>1, <2>2, <2>3
  <2>4. CASE line' # [line EXCEPT ![l] = [line[l] EXCEPT !.at = "live"]]
    <3>1. line' = [line EXCEPT ![l] = [line[l] EXCEPT
                     !.at = "live",
                     !.greeting = GreetingFor(
                        PreviousCalls(Restaurant(l), Caller(l)),
                        Newest(BookedFor(Restaurant(l), Caller(l)))),
                     !.known = found]]
      BY <1>1, <2>4 DEF Answer, AnswerUnknown, MemoryTypeOK
    <3>2. \A p, r : GreetingFor(p, r) \in Greetings
      BY DEF GreetingFor, Greetings
    <3> HIDE DEF found
    <3>3. QED
      BY <3>1, <3>2
  <2>5. QED
    BY <2>3, <2>4
<1> DEFINE x == [line[l] EXCEPT !.at = "live", !.greeting = greeting, !.known = known]
<1>5. \/ known = 0
      \/ /\ known \in 1 .. Len(reservations)
         /\ reservations[known].restaurant = Restaurant(l)
         /\ reservations[known].phone = Caller(l)
         /\ reservations[known].kept /\ reservations[known].status # "CANCELLED"
  BY <1>4, FoundIs
<1> HIDE DEF found
<1>6. /\ x \in LineType(Len(calls), Len(reservations)) /\ x.at = "live"
      /\ x.call = line[l].call /\ x.known = known /\ x.made = {}
  <2>1. known \in 0 .. Len(reservations)
    BY <1>1, <1>5, Typed
  <2>2. QED
    BY <1>1, <1>3, <1>4, <2>1 DEF LineType
<1> HIDE DEF x
<1>7. line'[l] = x => LineInv(l)'
  BY <1>2, <1>5, <1>6 DEF LineInv, Knows, Recites, RecitesNewest, Live, Caller,
     Restaurant
<1>8. QED
  BY <1>2, <1>3, <1>4, <1>6, <1>7, LineStepKeeps DEF x

\* A turn that booked and failed leaves its call mute, and a line that hangs up forgets.
LEMMA LineEndsKeeps ==
  ASSUME MemoryInv, NEW l \in Lines, RollbackTurn(l) \/ LineHangsUp(l)
  PROVE  MemoryInv'
<1>1. MemoryTypeOK /\ line[l] \in LineType(Len(calls), Len(reservations))
  BY Typed DEF MemoryInv
<1>2. CASE RollbackTurn(l)
  <2> DEFINE x == [line[l] EXCEPT !.at = "mute"]
  <2>1. x \in LineType(Len(calls), Len(reservations)) /\ x.at = "mute" /\ x.call = line[l].call
    BY <1>1 DEF LineType
  <2>2. line' = [line EXCEPT ![l] = x] /\ UNCHANGED <<today, calls, reservations, touched>>
        /\ line[l].at = "booking"
    BY <1>1, <1>2 DEF RollbackTurn, MemoryTypeOK
  <2>3. line[l].call > 0
    BY <1>1, <2>2 DEF MemoryTypeOK
  <2> HIDE DEF x
  <2>4. line'[l] = x => LineInv(l)'
    BY <2>1 DEF LineInv, Knows, Recites, RecitesNewest, Live
  <2>5. QED
    BY <2>1, <2>2, <2>3, <2>4, LineStepKeeps
<1>3. CASE LineHangsUp(l)
  <2>1. Free \in LineType(Len(calls), Len(reservations)) /\ Free.at = "free"
        /\ Free.known = 0 /\ Free.made = {} /\ Free.greeting = "default"
    BY <1>1, Typed DEF Free, LineType, Greetings
  <2>2. line' = [line EXCEPT ![l] = Free] /\ UNCHANGED <<today, calls, reservations>>
        /\ touched' = [touched EXCEPT ![l] = {}]
    BY <1>3 DEF LineHangsUp
  <2>3. line'[l] = Free => LineInv(l)'
    BY <2>1 DEF LineInv, Knows, Recites, RecitesNewest, Live
  <2>4. QED
    BY <2>1, <2>2, <2>3, LineStepKeeps
<1>4. QED
  BY <1>2, <1>3
\* A booking is a new row, and it or nothing is recited from now on.
LEMMA BookKeeps ==
  ASSUME MemoryInv, NEW l \in Lines, NEW number \in Numbers, NEW day \in Days,
         Book(l, number, day)
  PROVE  MemoryInv'
<1> DEFINE n == Len(reservations) + 1
           new == [restaurant |-> Restaurant(l), phone |-> number, day |-> day,
                   status |-> "PENDING", kept |-> FALSE]
<1>1. /\ MemoryTypeOK /\ line[l] \in LineType(Len(calls), Len(reservations))
      /\ Len(calls) \in Nat /\ Len(reservations) \in Nat
  BY Typed DEF MemoryInv
<1>2. PICK known \in {n, 0} :
        line' = [line EXCEPT ![l].at = "booking", ![l].known = known, ![l].made = @ \cup {n}]
  BY DEF Book
<1> DEFINE x == [line[l] EXCEPT !.at = "booking", !.known = known, !.made = @ \cup {n}]
<1>3. /\ line[l].at = "live" /\ reservations' = Append(reservations, new)
      /\ UNCHANGED <<today, calls, touched>>
  BY DEF Book
<1>4. line' = [line EXCEPT ![l] = x]
  BY <1>1, <1>2 DEF MemoryTypeOK
<1>5. line[l].call \in 1 .. Len(calls) /\ new \in ReservationType
  <2>1. line[l].call \in 1 .. Len(calls)
    BY <1>1, <1>3, Typed
  <2>2. Restaurant(l) \in Restaurants
    BY <1>1, <2>1, Typed DEF CallType, Restaurant
  <2>3. QED
    BY <2>1, <2>2 DEF ReservationType, Statuses
<1>6. /\ x \in LineType(Len(calls), n) /\ x.at = "booking" /\ x.call = line[l].call
      /\ x.known = known /\ x.made = line[l].made \cup {n}
  <2>1. known \in 0 .. n
    BY <1>1, <1>2
  <2>2. line[l].made \cup {n} \in SUBSET (1 .. n)
    BY <1>1 DEF LineType
  <2> DEFINE made == line[l].made \cup {n}
  <2> HIDE DEF n, made
  <2>3. x = [line[l] EXCEPT !.at = "booking", !.known = known, !.made = made]
    BY DEF made
  <2>4. line[l] \in [at : {"free", "ringing", "live", "booking", "mute"}, call : 0 .. Len(calls),
                     greeting : Greetings, known : Nat, made : SUBSET Nat]
    BY <1>1 DEF LineType
  <2>5. made \in SUBSET (1 .. n)
    BY <2>2 DEF made
  <2>6. made = line[l].made \cup {n}
    BY DEF made
  <2> HIDE DEF x
  <2>7. QED
    BY <2>1, <2>3, <2>4, <2>5, <2>6 DEF LineType
<1>7. new.restaurant = Restaurant(l) /\ new.status = "PENDING"
  OBVIOUS
<1> HIDE DEF new, x
<1>8. /\ reservations' \in Seq(ReservationType) /\ Len(reservations') = n /\ reservations'[n] = new
      /\ \A i \in 1 .. Len(reservations) : reservations'[i] = reservations[i]
  <2>1. reservations \in Seq(ReservationType)
    BY <1>1 DEF MemoryTypeOK, ReservationType
  <2>2. QED
    BY <1>3, <1>5, <2>1
<1>9. RowsStay
  BY <1>3, <1>8 DEF RowsStay
<1>10. line'[l] = x /\ \A k \in Lines \ {l} : line'[k] = line[k] /\ touched'[k] = touched[k]
  BY <1>1, <1>3, <1>4 DEF MemoryTypeOK
<1>11. MemoryTypeOK'
  <2>1. n \in Nat /\ Len(reservations) <= n
        /\ line \in [Lines -> LineType(Len(calls), Len(reservations))]
    BY <1>1, Typed
  <2>2. line' \in [Lines -> LineType(Len(calls'), Len(reservations'))]
    BY <1>1, <1>3, <1>4, <1>6, <1>8, <2>1, LineTableTyped
  <2>3. touched' \in [Lines -> SUBSET (1 .. Len(reservations'))]
    BY <1>1, <1>3, <1>8 DEF MemoryTypeOK
  <2>4. \A k \in Lines : line'[k].at # "free" => line'[k].call > 0
    BY <1>1, <1>5, <1>6, <1>10 DEF MemoryTypeOK
  <2>5. QED
    BY <1>1, <1>3, <1>8, <2>2, <2>3, <2>4 DEF MemoryTypeOK, LineType, ReservationType
<1>12. LineInv(l)'
  <2>1. First(line[l].made \cup {n}) = n /\ First(x.made) = n
    BY <1>1, <1>6, FirstOfNew DEF LineType
  <2>2. First(line'[l].made) = n
    BY <1>10, <2>1
  <2>3. Restaurant(l)' = Restaurant(l)
    BY <1>3, <1>6, <1>10 DEF Restaurant
  <2>4. Knows(l)'
    BY <1>6, <1>10 DEF Knows
  <2>5. Recites(l)'
    BY <1>1, <1>6, <1>7, <1>8, <1>10, <2>3 DEF Recites, Live
  <2>6. RecitesNewest(l)'
    BY <1>10, <1>6, <2>2 DEF RecitesNewest, Live, First
  <2>7. QED
    BY <2>4, <2>5, <2>6 DEF LineInv
<1>13. QED
  BY <1>8, <1>9, <1>10, <1>11, <1>12, OneLineActs

\* The turn that booked is committed: what was made on the line is now kept.
LEMMA CommitTurnKeeps ==
  ASSUME MemoryInv, NEW l \in Lines, CommitTurn(l)
  PROVE  MemoryInv'
<1>1. /\ MemoryTypeOK /\ line[l] \in LineType(Len(calls), Len(reservations))
      /\ Len(reservations) \in Nat /\ DOMAIN reservations = 1 .. Len(reservations)
      /\ \A i \in 1 .. Len(reservations) : reservations[i] \in ReservationType
  BY Typed DEF MemoryInv
<1> DEFINE x == [line[l] EXCEPT !.at = "live"]
           stored(i) == IF i \in line[l].made THEN [reservations[i] EXCEPT !.kept = TRUE]
                     ELSE reservations[i]
<1>2. /\ line[l].at = "booking" /\ line' = [line EXCEPT ![l] = x]
      /\ reservations' = [i \in 1 .. Len(reservations) |-> stored(i)]
      /\ UNCHANGED <<today, calls, touched>>
  BY <1>1 DEF CommitTurn, MemoryTypeOK
<1>3. \A i \in 1 .. Len(reservations) :
        /\ stored(i) \in ReservationType /\ stored(i).restaurant = reservations[i].restaurant
        /\ stored(i).phone = reservations[i].phone /\ stored(i).status = reservations[i].status
        /\ (reservations[i].kept \/ i \in line[l].made => stored(i).kept)
  BY <1>1 DEF ReservationType
<1> HIDE DEF stored
<1>4. /\ reservations' \in Seq(ReservationType) /\ Len(reservations') = Len(reservations)
      /\ \A i \in 1 .. Len(reservations) : reservations'[i] = stored(i)
  BY <1>1, <1>2, <1>3
<1>5. /\ x \in LineType(Len(calls), Len(reservations)) /\ x.at = "live" /\ x.call = line[l].call
      /\ x.known = line[l].known /\ x.made = line[l].made /\ line[l].call > 0
  BY <1>1, <1>2 DEF LineType, MemoryTypeOK
<1> HIDE DEF x
<1>6. line'[l] = x /\ \A k \in Lines \ {l} : line'[k] = line[k] /\ touched'[k] = touched[k]
  BY <1>1, <1>2 DEF MemoryTypeOK
<1>7. RowsStay
  BY <1>2, <1>3, <1>4 DEF RowsStay
<1>8. MemoryTypeOK'
  <2>1. line' \in [Lines -> LineType(Len(calls'), Len(reservations'))]
    BY <1>1, <1>2, <1>4, <1>5, Typed
  <2>2. touched' \in [Lines -> SUBSET (1 .. Len(reservations'))]
    BY <1>1, <1>2, <1>4 DEF MemoryTypeOK
  <2>3. \A k \in Lines : line'[k].at # "free" => line'[k].call > 0
    BY <1>1, <1>5, <1>6 DEF MemoryTypeOK
  <2>4. QED
    BY <1>1, <1>2, <1>4, <2>1, <2>2, <2>3 DEF MemoryTypeOK, LineType, ReservationType
<1>9. LineInv(l)'
  <2>1. /\ line[l].known \in line[l].made \cup {0} /\ Recites(l) /\ RecitesNewest(l)
        /\ Live(l) /\ Live(l)'
        /\ line[l].known \in 0 .. Len(reservations)
    BY <1>1, <1>2, <1>5, <1>6 DEF MemoryInv, LineInv, Knows, Live, LineType
  <2>2. /\ Caller(l)' = Caller(l) /\ Restaurant(l)' = Restaurant(l)
    BY <1>2, <1>5, <1>6 DEF Caller, Restaurant
  <2>3. Knows(l)'
    BY <1>5, <1>6 DEF Knows
  <2>4. RecitesNewest(l)'
    BY <1>5, <1>6, <2>1 DEF RecitesNewest, Live, First
  <2>5. Recites(l)'
    BY <1>1, <1>2, <1>3, <1>4, <1>5, <1>6, <2>1, <2>2 DEF Recites
  <2>6. QED
    BY <2>3, <2>4, <2>5 DEF LineInv
<1>10. QED
  BY <1>3, <1>4, <1>6, <1>7, <1>8, <1>9, OneLineActs

\* One row replaced by another.
LEMMA ReplacedInSeq ==
  ASSUME NEW S, NEW s \in Seq(S), NEW i \in 1 .. Len(s), NEW e \in S
  PROVE  /\ [s EXCEPT ![i] = e] \in Seq(S) /\ Len([s EXCEPT ![i] = e]) = Len(s)
         /\ [s EXCEPT ![i] = e][i] = e
         /\ \A j \in 1 .. Len(s) : j # i => [s EXCEPT ![i] = e][j] = s[j]
OBVIOUS

\* The staff change a status: every line that is open is told which row it was.
LEMMA UpdateStatusKeeps ==
  ASSUME MemoryInv, NEW i, NEW value \in Statuses, UpdateStatus(i, value)
  PROVE  MemoryInv'
<1>1. /\ MemoryTypeOK
      /\ Len(reservations) \in Nat /\ DOMAIN reservations = 1 .. Len(reservations)
      /\ \A j \in 1 .. Len(reservations) : reservations[j] \in ReservationType
      /\ reservations \in Seq(ReservationType)
  <2>1. MemoryTypeOK /\ reservations \in Seq(ReservationType)
    BY DEF MemoryInv, MemoryTypeOK, ReservationType
  <2>2. QED
    BY <2>1
<1>2. /\ i \in 1 .. Len(reservations)
      /\ reservations' = [reservations EXCEPT ![i].status = value]
      /\ touched' = [k \in Lines |-> IF Live(k) THEN touched[k] \cup {i} ELSE touched[k]]
      /\ UNCHANGED <<today, calls, line>>
  BY <1>1 DEF UpdateStatus
<1> DEFINE x == [reservations[i] EXCEPT !.status = value]
<1>3. /\ x \in ReservationType /\ x.restaurant = reservations[i].restaurant
      /\ x.phone = reservations[i].phone /\ x.kept = reservations[i].kept
  BY <1>1, <1>2 DEF ReservationType
<1>4. reservations' = [reservations EXCEPT ![i] = x]
  BY <1>1, <1>2
<1> HIDE DEF x
<1>5. /\ reservations' \in Seq(ReservationType) /\ Len(reservations') = Len(reservations)
      /\ reservations'[i] = x
      /\ \A j \in 1 .. Len(reservations) : j # i => reservations'[j] = reservations[j]
  BY <1>1, <1>2, <1>3, <1>4, ReplacedInSeq
<1>6. MemoryTypeOK'
  <2>1. touched' \in [Lines -> SUBSET (1 .. Len(reservations'))]
    BY <1>1, <1>2, <1>5 DEF MemoryTypeOK
  <2>2. QED
    BY <1>1, <1>2, <1>5, <2>1 DEF MemoryTypeOK, ReservationType
<1>7. RowsStay
  BY <1>2, <1>3, <1>5 DEF RowsStay
<1>8. ASSUME NEW k \in Lines PROVE LineInv(k)'
  <2>1. LineInv(k) /\ line'[k] = line[k] /\ (Live(k) => touched[k] \subseteq touched'[k])
    BY <1>2 DEF MemoryInv
  <2>2. \A j \in 1 .. Len(reservations) :
          reservations'[j].status # reservations[j].status /\ Live(k) => j \in touched'[k]
    BY <1>2, <1>5
  <2>3. QED
    BY <1>1, <1>7, <2>1, <2>2, OtherLineKeeps
<1>9. QED
  BY <1>6, <1>8 DEF MemoryInv

\* Midnight, and the steps of other parts of the system.
LEMMA OthersKeep ==
  ASSUME MemoryInv, NextDay \/ UNCHANGED memoryVars
  PROVE  MemoryInv'
<1>1. UNCHANGED <<calls, reservations, line, touched>> /\ MemoryTypeOK
  BY DEF NextDay, memoryVars, MemoryInv
<1>2. today' \in Days
  BY <1>1, MemoryAssumption DEF NextDay, memoryVars, MemoryTypeOK, Days
<1>3. MemoryTypeOK'
  BY <1>1, <1>2 DEF MemoryTypeOK
<1>4. ASSUME NEW k \in Lines PROVE LineInv(k)'
  BY <1>1 DEF MemoryInv, LineInv, Knows, Recites, RecitesNewest, Live, Caller,
     Restaurant, First
<1>5. QED
  BY <1>3, <1>4 DEF MemoryInv

\* Every step of a line, of the staff or of the calendar keeps the invariant.
LEMMA MemoryKeeps ==
  ASSUME MemoryInv, [MemoryNext]_memoryVars
  PROVE  MemoryInv'
BY RingKeeps, AnswerKeeps, LineEndsKeeps, BookKeeps, CommitTurnKeeps, UpdateStatusKeeps,
   OthersKeep DEF MemoryNext

\* The inductive invariant: a line knows nothing until it is answered, then the booking the
\* lookup found, and after a booking that one or none, however calls and staff interleave.
THEOREM MemoryInvariant == MemorySpec => []MemoryInv
<1>1. MemoryInit => MemoryInv
  BY MemoryBegins
<1>2. MemoryInv /\ [MemoryNext]_memoryVars => MemoryInv'
  BY MemoryKeeps
<1>3. QED
  BY <1>1, <1>2, PTL DEF MemorySpec

\* Every variable keeps its type.
THEOREM MemoryIsTyped == MemorySpec => []MemoryTypeOK
<1>1. MemoryInv => MemoryTypeOK
  BY DEF MemoryInv
<1>2. QED
  BY <1>1, MemoryInvariant, PTL

\* What a caller is told they have booked is theirs, of the restaurant they called, committed
\* when the turn is, and not cancelled but by the staff during the very call.
THEOREM RecitedIsTheirs == MemorySpec => []RecitesWhatTheyHave
<1>1. MemoryInv => RecitesWhatTheyHave
  BY DEF MemoryInv, LineInv, Recites, RecitesWhatTheyHave
<1>2. QED
  BY <1>1, MemoryInvariant, PTL

\* After a booking made on the line, an earlier one is never recited.
THEOREM RecitedIsNewest == MemorySpec => []RecitesTheNewest
<1>1. MemoryInv => RecitesTheNewest
  BY DEF MemoryInv, LineInv, RecitesNewest, RecitesTheNewest
<1>2. QED
  BY <1>1, MemoryInvariant, PTL
-----------------------------------------------------------------------------
\* One call more than one's own is another call.
LEMMA AnotherCall ==
  ASSUME NEW n \in Nat, NEW S \in SUBSET (1 .. n), NEW i, Cardinality(S) - 1 > 0
  PROVE  \E j \in S : j # i
<1>1. IsFiniteSet(1 .. n)
  BY FS_Interval
<1>2. IsFiniteSet({i}) /\ Cardinality({i}) = 1
  BY FS_Singleton
<1>3. SUFFICES ASSUME S \in SUBSET {i} PROVE FALSE
  OBVIOUS
<1>4. Cardinality(S) <= 1
  BY <1>2, <1>3, FS_Subset
<1>5. Cardinality(S) \in Nat
  BY <1>1, FS_Subset, FS_CardinalityType
<1>6. QED
  BY <1>4, <1>5

\* A greeting other than the default's is for a caller who shows a number and has called
\* this restaurant or booked with it.
LEMMA GreetedAre ==
  ASSUME MemoryInv, NEW l \in Lines, Answer(l),
         line'[l].greeting # "default"
  PROVE  Acquainted(l) /\ Caller(l) # Withheld
<1> DEFINE r == Restaurant(l)
           c == Caller(l)
           rows == Newest(BookedFor(r, c))
           previous == PreviousCalls(r, c)
<1>1. /\ MemoryTypeOK /\ line[l] \in LineType(Len(calls), Len(reservations))
      /\ Len(calls) \in Nat /\ Len(reservations) \in Nat
      /\ DOMAIN calls = 1 .. Len(calls) /\ DOMAIN reservations = 1 .. Len(reservations)
      /\ \A i \in 1 .. Len(calls) : calls[i] \in CallType
  BY Typed DEF MemoryInv
<1>2. line[l].at = "ringing" /\ line[l].greeting = "default"
  BY DEF Answer, MemoryInv, LineInv, Knows
<1>3. c # Withheld /\ line'[l].greeting = GreetingFor(previous, rows)
  <2>1. l \in DOMAIN line
    BY <1>1 DEF MemoryTypeOK
  <2>2. CASE c = Withheld
    <3>1. line'[l] = [line[l] EXCEPT !.at = "live"]
      BY <2>1, <2>2 DEF Answer
    <3>2. line'[l].greeting = line[l].greeting
      BY <1>1, <3>1 DEF LineType
    <3>3. QED
      BY <1>2, <3>2
  <2>3. CASE c # Withheld
    <3>1. line'[l] = [line[l] EXCEPT !.at = "live",
                                     !.greeting = GreetingFor(previous, rows),
                                     !.known = First(Upcoming(rows))]
      BY <2>1, <2>3 DEF Answer
    <3> HIDE DEF rows, previous
    <3>2. line'[l].greeting = GreetingFor(previous, rows)
      BY <1>1, <3>1 DEF LineType
    <3>3. QED
      BY <2>3, <3>2
  <2>4. QED
    BY <2>2, <2>3
<1>4. CASE rows # {}
  <2>1. PICK i \in BookedFor(r, c) : TRUE
    BY <1>4 DEF Newest
  <2>2. QED
    BY <1>3, <2>1 DEF BookedFor, Acquainted
<1>5. CASE rows = {}
  <2> DEFINE S == {i \in DOMAIN calls : /\ calls[i].restaurant = r
                                        /\ calls[i].number = c
                                        /\ calls[i].day + Window >= today}
  <2>1. Cardinality(S) - 1 > 0
    <3>1. previous = Cardinality(S) - 1
      BY DEF PreviousCalls
    <3> HIDE DEF rows, previous, S
    <3>2. previous > 0
      BY <1>3, <1>5, Zenon DEF GreetingFor
    <3>3. QED
      BY <3>1, <3>2
  <2>2. S \in SUBSET (1 .. Len(calls))
    BY <1>1
  <2> HIDE DEF S
  <2> DEFINE own == line[l].call
  <2> HIDE DEF own
  <2>3. PICK i \in S : i # own
    <3>1. ASSUME NEW n \in Nat, NEW T \in SUBSET (1 .. n), Cardinality(T) - 1 > 0
          PROVE  \E j \in T : j # own
      BY <3>1, AnotherCall
    <3>2. Len(calls) \in Nat
      BY <1>1
    <3>3. QED
      BY <2>1, <2>2, <3>1, <3>2
  <2>4. /\ i \in DOMAIN calls /\ calls[i].restaurant = r /\ calls[i].number = c
        /\ calls[i].day + Window >= today
    BY <2>3 DEF S
  <2>5. today - calls[i].day <= Window
    <3>1. today \in Int /\ calls[i].day \in Int /\ Window \in Int
      <4>1. today \in Days /\ calls[i].day \in Days
        BY <1>1, <2>4 DEF CallType, MemoryTypeOK
      <4>2. LastDay \in Nat /\ Window \in Nat
        BY MemoryAssumption
      <4>3. QED
        BY <4>1, <4>2 DEF Days
    <3>2. QED
      BY <2>4, <3>1
  <2>6. QED
    BY <1>3, <2>3, <2>4, <2>5 DEF Acquainted, own
<1>6. QED
  BY <1>4, <1>5

\* A line that rings goes live by being answered, and only a lookup changes its greeting.
LEMMA WhoAnswers ==
  ASSUME MemoryInv, [MemoryNext]_memoryVars, NEW l \in Lines,
         line[l].at = "ringing", line'[l].at = "live"
  PROVE  Answer(l) \/ (AnswerUnknown(l) /\ line'[l].greeting = "default")
<1>1. /\ line \in [Lines -> LineType(Len(calls), Len(reservations))]
      /\ line[l] \in LineType(Len(calls), Len(reservations)) /\ line[l].greeting = "default"
  BY Typed DEF MemoryInv, LineInv, Knows
<1>2. CASE AnswerUnknown(l)
  <2>1. line'[l] = [line[l] EXCEPT !.at = "live"]
    BY <1>1, <1>2 DEF AnswerUnknown
  <2>2. QED
    BY <1>1, <1>2, <2>1 DEF LineType
<1>3. ASSUME NEW k \in Lines, k # l,
             \/ \E r \in Restaurants, n \in Numbers \cup {Withheld} : Ring(k, r, n)
             \/ Answer(k) \/ AnswerUnknown(k) \/ CommitTurn(k)
             \/ \E n \in Numbers, d \in Days : Book(k, n, d)
             \/ RollbackTurn(k) \/ LineHangsUp(k)
      PROVE  FALSE
  <2>1. line'[l] = line[l]
    BY <1>1, <1>3 DEF Ring, Answer, AnswerUnknown, CommitTurn,
       Book, RollbackTurn, LineHangsUp
  <2>2. QED
    BY <2>1
<1>4. CASE \/ \E r \in Restaurants, n \in Numbers \cup {Withheld} : Ring(l, r, n)
           \/ CommitTurn(l)
           \/ \E n \in Numbers, d \in Days : Book(l, n, d)
           \/ RollbackTurn(l)
  BY <1>4 DEF Ring, CommitTurn, Book, RollbackTurn
<1>5. CASE LineHangsUp(l)
  BY <1>1, <1>5 DEF LineHangsUp, Free
<1>6. CASE line' = line
  BY <1>6
<1>7. QED
  BY <1>2, <1>3, <1>4, <1>5, <1>6 DEF MemoryNext, memoryVars, UpdateStatus,
     NextDay

\* Nobody is greeted as known for the call they are making, for dealings with another
\* restaurant, or for a number they do not show: one row is always their own call's.
THEOREM StrangersAreStrangers == MemorySpec => StrangersHearTheDefault
<1>1. ASSUME MemoryInv, [MemoryNext]_memoryVars
      PROVE  \A l \in Lines :
               /\ line[l].at = "ringing" /\ line'[l].at = "live"
               /\ line'[l].greeting # "default"
               => Acquainted(l) /\ Caller(l) # Withheld
  BY <1>1, WhoAnswers, GreetedAre
<1>2. QED
  BY <1>1, MemoryInvariant, PTL DEF MemorySpec, StrangersHearTheDefault
=============================================================================
