----------------------------- MODULE CallRecord -----------------------------
(***************************************************************************)
(* The row of one call and everybody who writes or reads it: the voice     *)
(* webhook that creates it, the media stream that files it when the        *)
(* session ends, Twilio's status callbacks that are the backstop, and the  *)
(* transfer webhook that dials on it (twilio_webhooks.py, call_service.py).*)
(* Each handler is a transaction of its own: it reads the committed row,   *)
(* works on its copy, flushes the columns it changed (which waits for the  *)
(* row's lock) and commits.                                                *)
(***************************************************************************)
EXTENDS Naturals

CONSTANTS
  Callbacks,  \* bound: status callbacks Twilio delivers for the call
  CanDial,    \* the restaurant has a transfer_number
  MaxRetries  \* bound: repeats of the voice webhook

ASSUME RecordAssumption ==
  /\ CanDial \in BOOLEAN /\ MaxRetries \in Nat
  /\ {"free", "session"} \cap Callbacks = {}

VARIABLES
  row,     \* the committed row, NoRow before the voice webhook
  twilio,  \* where Twilio is with the call
  session, \* the media stream's request and what its session decided
  status,  \* each status callback's request
  lock,    \* who holds the row's lock: a request that flushed and has not ended
  dialed,  \* the restaurant's number was dialled
  retries  \* voice webhooks repeated

vars == <<row, twilio, session, status, lock, dialed, retries>>

Outcomes == {"UNKNOWN", "CALL_ABANDONED", "FAQ_ANSWERED", "HUMAN_ESCALATION"}
NoRow == [exists |-> FALSE, ended |-> FALSE, outcome |-> "UNKNOWN", transferred |-> FALSE]
NewRow == [exists |-> TRUE, ended |-> FALSE, outcome |-> "UNKNOWN", transferred |-> FALSE]

\* (mutant: every column is written)
Stored_AllColumns(old, seen, new) == new

\* What an UPDATE leaves in the row: only columns that differ from what the
\* request loaded are written; end_time always is.
Stored(old, seen, new) ==
  [exists |-> old.exists,
   ended |-> TRUE,
   outcome |-> IF new.outcome # seen.outcome THEN new.outcome ELSE old.outcome,
   transferred |-> IF new.transferred # seen.transferred THEN new.transferred
                   ELSE old.transferred]

-----------------------------------------------------------------------------
(* The call begins.                                                         *)

\* voice_webhook for a number that is mapped to a restaurant: create_call.
Voice ==
  /\ twilio = "ringing" /\ ~row.exists
  /\ row' = NewRow
  /\ twilio' = "connecting"
  /\ UNCHANGED <<session, status, lock, dialed, retries>>

\* The answer to it was lost and Twilio asks again: call_sid is unique, the
\* insert is refused, and the caller hears Twilio's error message.
VoiceAgain ==
  /\ twilio = "connecting"
  /\ retries < MaxRetries
  /\ retries' = retries + 1
  /\ twilio' = "over"
  /\ UNCHANGED <<row, session, status, lock, dialed>>

\* A number nobody serves: a spoken message, no row.
NotInService ==
  /\ twilio = "ringing"
  /\ twilio' = "over"
  /\ UNCHANGED <<row, session, status, lock, dialed, retries>>

\* media_stream loads the row and accepts the stream.
StreamOpens ==
  /\ twilio = "connecting"
  /\ twilio' = "streaming"
  /\ session' = [session EXCEPT !.at = "live", !.seen = row, !.new = row]
  /\ UNCHANGED <<row, status, lock, dialed, retries>>

\* The call as it is from then on, until somebody does something about it.
StreamOpen ==
  /\ row = NewRow
  /\ twilio = "streaming"
  /\ session = [at |-> "live", seen |-> NewRow, new |-> NewRow, closed |-> FALSE]
  /\ lock = "free"

-----------------------------------------------------------------------------
(* The session files the call: end(), finalize_call, commit, close.         *)

\* What the session ended with; a call that resolved nothing is abandoned.
Decisions ==
  {[outcome |-> "CALL_ABANDONED", transferred |-> FALSE],
   [outcome |-> "FAQ_ANSWERED", transferred |-> FALSE],
   [outcome |-> "HUMAN_ESCALATION", transferred |-> TRUE]}

\* The session's copy of the row, filed with decision d.
Decided(d) ==
  [exists |-> session.new.exists, ended |-> TRUE,
   outcome |-> d.outcome, transferred |-> d.transferred]

\* finalize_call up to its flush.  The session ends by its own decision to hand
\* over, or because the stream has ended.
Decide ==
  /\ session.at = "live"
  /\ \E d \in Decisions :
       /\ d.transferred \/ twilio # "streaming"
       /\ session' = [session EXCEPT !.at = "finalize", !.new = Decided(d)]
  /\ UNCHANGED <<row, twilio, status, lock, dialed, retries>>

SessionFlush ==
  /\ session.at = "finalize"
  /\ lock = "free"
  /\ lock' = "session"
  /\ session' = [session EXCEPT !.at = "flushed"]
  /\ UNCHANGED <<row, twilio, status, dialed, retries>>

SessionCommit ==
  /\ session.at = "flushed"
  /\ row' = Stored(row, session.seen, session.new)
  /\ lock' = "free"
  /\ session' = [session EXCEPT !.at = "committed"]
  /\ UNCHANGED <<twilio, status, dialed, retries>>

\* (mutant: the stream is closed before the call is filed)
CloseStream_BeforeCommit ==
  /\ session.at = "finalize"
  /\ twilio = "streaming"
  /\ twilio' = "redirecting"
  /\ session' = [session EXCEPT !.closed = TRUE]
  /\ UNCHANGED <<row, status, lock, dialed, retries>>

\* websocket.close: Twilio goes on to the <Redirect>.
CloseStream ==
  /\ session.at = "committed"
  /\ session' = [session EXCEPT !.at = "closed", !.closed = (twilio = "streaming")]
  /\ twilio' = IF twilio = "streaming" THEN "redirecting" ELSE twilio
  /\ UNCHANGED <<row, status, lock, dialed, retries>>

\* The process dies, or end() or the commit after it raises: nothing uncommitted is
\* kept, a commit under way may yet have been made, and the stream is gone.
SessionDies ==
  /\ session.at \in {"live", "finalize", "flushed"}
  /\ session' = [session EXCEPT !.at = "dead"]
  /\ lock' = IF lock = "session" THEN "free" ELSE lock
  /\ twilio' = IF twilio = "streaming" THEN "redirecting" ELSE twilio
  /\ row' \in {row} \cup (IF session.at = "flushed"
                          THEN {Stored(row, session.seen, session.new)} ELSE {})
  /\ UNCHANGED <<status, dialed, retries>>

-----------------------------------------------------------------------------
(* What Twilio does.                                                        *)

\* The caller hangs up, at any time.
HangUp ==
  /\ twilio \in {"connecting", "streaming", "redirecting"}
  /\ twilio' = "over"
  /\ UNCHANGED <<row, session, status, lock, dialed, retries>>

\* The stream breaks while the caller is still there.
StreamBreaks ==
  /\ twilio = "streaming"
  /\ twilio' = "redirecting"
  /\ UNCHANGED <<row, session, status, lock, dialed, retries>>

\* transfer_webhook: dial the restaurant or hang up, on the committed row.
Redirect ==
  /\ twilio = "redirecting"
  /\ dialed' = (row.transferred /\ CanDial)
  /\ twilio' = "redirected"
  /\ UNCHANGED <<row, session, status, lock, retries>>

\* Call over, Twilio reports it: the status webhook reads the row.
CallOver == twilio \in {"over", "redirected"}

\* The outcome the backstop files.
StatusOutcome(seen) == IF seen.outcome = "UNKNOWN" THEN "CALL_ABANDONED" ELSE seen.outcome

\* ensure_call_finalized_from_status, up to the flush of finalize_call.  Nothing
\* happens for an unknown call or one that has its end_time.
StatusRead(s) ==
  /\ CallOver
  /\ status[s].at = "none"
  /\ IF row.exists /\ ~row.ended
     THEN status' = [status EXCEPT ![s] =
            [at |-> "finalize", seen |-> row,
             new |-> [exists |-> TRUE, ended |-> TRUE, outcome |-> StatusOutcome(row),
                      transferred |-> row.transferred]]]
     ELSE status' = [status EXCEPT ![s].at = "done"]
  /\ UNCHANGED <<row, twilio, session, lock, dialed, retries>>

StatusFlush(s) ==
  /\ status[s].at = "finalize"
  /\ lock = "free"
  /\ lock' = s
  /\ status' = [status EXCEPT ![s].at = "flushed"]
  /\ UNCHANGED <<row, twilio, session, dialed, retries>>

\* (mutant: the webhook does not commit)
StatusCommit_Forgotten(s) ==
  /\ status[s].at = "flushed"
  /\ lock' = "free"
  /\ status' = [status EXCEPT ![s].at = "done"]
  /\ UNCHANGED <<row, twilio, session, dialed, retries>>

StatusCommit(s) ==
  /\ status[s].at = "flushed"
  /\ row' = Stored(row, status[s].seen, status[s].new)
  /\ lock' = "free"
  /\ status' = [status EXCEPT ![s].at = "done"]
  /\ UNCHANGED <<twilio, session, dialed, retries>>

-----------------------------------------------------------------------------
Init ==
  /\ row = NoRow
  /\ twilio = "ringing"
  /\ session = [at |-> "none", seen |-> NoRow, new |-> NoRow, closed |-> FALSE]
  /\ status = [s \in Callbacks |-> [at |-> "none", seen |-> NoRow, new |-> NoRow]]
  /\ lock = "free"
  /\ dialed = FALSE
  /\ retries = 0

SessionRuns == Decide \/ SessionFlush \/ SessionCommit \/ CloseStream
StatusRuns(s) == StatusRead(s) \/ StatusFlush(s) \/ StatusCommit(s)

Next ==
  \/ Voice \/ VoiceAgain \/ NotInService \/ StreamOpens
  \/ SessionRuns \/ SessionDies
  \/ HangUp \/ StreamBreaks \/ Redirect
  \/ \E s \in Callbacks : StatusRuns(s)

Spec == Init /\ [][Next]_vars

\* A request that was begun comes to an end, and Twilio reports the end of a call.
FairSpec ==
  Spec /\ WF_vars(SessionRuns) /\ \A s \in Callbacks : WF_vars(StatusRuns(s))

-----------------------------------------------------------------------------
(* Properties.                                                              *)

RowType == [exists : BOOLEAN, ended : BOOLEAN, outcome : Outcomes, transferred : BOOLEAN]

\* Every variable holds a value the code can give it.
TypeOK ==
  /\ row \in RowType
  /\ twilio \in {"ringing", "connecting", "streaming", "redirecting", "redirected", "over"}
  /\ session \in [at : {"none", "live", "finalize", "flushed", "committed", "closed", "dead"},
                  seen : RowType, new : RowType, closed : BOOLEAN]
  /\ status \in [Callbacks -> [at : {"none", "finalize", "flushed", "done"},
                               seen : RowType, new : RowType]]
  /\ lock \in Callbacks \cup {"free", "session"}
  /\ dialed \in BOOLEAN
  /\ retries \in 0 .. MaxRetries

\* The flag the restaurant is dialled on is never taken back, though a status
\* callback that read the row before the session filed it writes afterwards.
TransferredIsFinal == [][row.transferred => row'.transferred]_vars

\* The restaurant is dialled only for a caller whose session decided to hand over.
DialedOnlyIfDecided == dialed => session.new.transferred

\* A session that hands over and closes the stream itself gets its caller dialled:
\* the decision is committed before Twilio can ask for it.
PromiseIsKept ==
  twilio = "redirected" /\ session.closed /\ session.new.transferred /\ CanDial => dialed

\* A call that has ended is never left with the outcome of a live one.
EndedIsResolved == row.ended => row.outcome # "UNKNOWN"

\* Whatever happened to its session, a call that is over gets its end_time.
EveryCallIsEnded == (CallOver /\ row.exists) ~> row.ended
=============================================================================
