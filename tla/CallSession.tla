---------------------------- MODULE CallSession ----------------------------
(***************************************************************************)
(* One live call: the media stream's read loop (twilio_webhooks.py), the   *)
(* turn task it spawns and never awaits, and the end of the call           *)
(* (voice/session.py).  The loop and the turn are two processes on one     *)
(* event loop: the code between two awaits is one step, `loop` and `turn`  *)
(* name the await each is suspended on.  They share the conversation       *)
(* context, the flags of the session and one database session (`store`).   *)
(* What the engine answers is a nondeterministic choice among the results  *)
(* ConversationEngine is shown to give (EngineResults, EngineTurns).       *)
(***************************************************************************)
EXTENDS Integers, EngineResults

CONSTANTS
  MaxUnheard,  \* _MAX_UNHEARD_BEFORE_TRANSFER
  MaxFailures, \* _MAX_ENGINE_FAILURES_BEFORE_TRANSFER
  Filler,      \* SPEAK_PROCESSING_FILLER
  BargeIn,     \* FEATURE_BARGE_IN
  MaxChunks,   \* bound: sentences of one spoken line
  MaxTurns     \* bound: turns of one call

ASSUME SessionAssumption ==
  /\ MaxUnheard \in Nat \ {0}
  /\ MaxFailures \in Nat \ {0}
  /\ Filler \in BOOLEAN
  /\ BargeIn \in BOOLEAN
  /\ MaxChunks \in Nat \ {0}
  /\ MaxTurns \in Nat

VARIABLES
  loop,        \* the await media_stream is suspended on
  turn,        \* the await _run_turn is suspended on; "idle": none in flight
  line,        \* the line being recorded or spoken
  playing,     \* _is_speaking()
  interrupted, \* _interrupted
  session,     \* the conversation context and the flags of CallSession
  store,       \* the database session and what has been committed
  online,      \* the caller is on the line
  turns        \* history: turns begun

vars == <<loop, turn, line, playing, interrupted, session, store, online, turns>>

LineKinds == {"greeting", "filler", "ask_again", "give_up", "trouble", "hand_over",
              "reply", "booked", "transfer"}
NoLine == [kind |-> "none", left |-> 0, at |-> "none", spoken |-> FALSE]

Transfers == {"CALL_TRANSFERRED", "HUMAN_ESCALATION"}
Outcomes == Transfers \cup {"UNKNOWN", "FAQ_ANSWERED", "RESERVATION_CREATED"}
NotFiled == [outcome |-> "UNKNOWN", transferred |-> FALSE, escalated |-> FALSE]

\* The awaits in which each process uses the database session.
LoopDatabase == {"lookup", "greet_record", "greet_commit", "finalize", "final_commit"}
TurnDatabase == {"record_caller", "engine_db", "record", "commit", "hangup_commit",
                 "rollback"}

\* Cancelled or refused statements leave a transaction nothing can be done in.
Unusable == {"aborted", "broken"}

-----------------------------------------------------------------------------
(* The database session, as SQLAlchemy and PostgreSQL behave.               *)

Write(s) == [s EXCEPT !.tx = "open"]

\* A statement the database refused: every later one is refused until a rollback.
Refused(s) == [s EXCEPT !.tx = "aborted"]

Commit(s) ==
  [s EXCEPT !.tx = "idle",
            !.reservation = IF @ = "pending" THEN "saved" ELSE @]

\* A commit that raises: the database refused it, or only its answer was lost.
CommitFails(s) ==
  {Refused([s EXCEPT !.reservation = IF @ = "pending" THEN "none" ELSE @]),
   Refused(Commit(s))}

\* A flushed reservation; one already committed stays so.
Booked(s) == [s EXCEPT !.reservation = IF @ = "saved" THEN @ ELSE "pending"]

\* A rollback expires every loaded object, even with expire_on_commit=False; it
\* does nothing when no transaction was begun.
Rollback(s) ==
  IF s.tx = "idle" THEN s
  ELSE [s EXCEPT !.tx = "idle", !.loaded = FALSE,
                 !.reservation = IF @ = "pending" THEN "none" ELSE @]

\* append_transcript_turn reads the call's attributes and flushes an INSERT.
CanRecord == store.loaded /\ store.tx \notin Unusable

-----------------------------------------------------------------------------
(* What the session does to its own state.                                  *)

\* (mutants: the state, or the outcome, is forgotten)
HandOver_StateForgotten(s) ==
  [s EXCEPT !.reason = "escalation", !.outcome = "HUMAN_ESCALATION", !.should_close = TRUE]
HandOver_OutcomeForgotten(s) ==
  [s EXCEPT !.state = "transfer", !.reason = "escalation", !.should_close = TRUE]

\* Giving the call to a person on the session's own decision: a bad line, a
\* failing back end, a greeting that cannot be spoken.
HandOver(s) ==
  [s EXCEPT !.state = "transfer", !.reason = "escalation",
            !.outcome = "HUMAN_ESCALATION", !.should_close = TRUE]

\* (mutant: an answer given later replaces what the call was filed for)
UpdateOutcome_LastWins(kind, s) ==
  [s EXCEPT !.outcome =
     CASE kind = "booked" -> "RESERVATION_CREATED"
       [] kind = "transfer" -> IF s.reason = Routine THEN "CALL_TRANSFERRED"
                               ELSE "HUMAN_ESCALATION"
       [] kind = "reply" /\ s.answered -> "FAQ_ANSWERED"
       [] OTHER -> @]

\* _update_outcome
UpdateOutcome(kind, s) ==
  [s EXCEPT !.outcome =
     CASE kind = "booked" -> "RESERVATION_CREATED"
       [] kind = "transfer" -> IF s.reason = Routine THEN "CALL_TRANSFERRED"
                               ELSE "HUMAN_ESCALATION"
       [] kind = "reply" /\ @ = "UNKNOWN" /\ s.answered -> "FAQ_ANSWERED"
       [] OTHER -> @]

-----------------------------------------------------------------------------
(* Speaking: _speak, one sentence at a time, by the greeting or by a turn.  *)

\* A line of one to MaxChunks sentences begins; an earlier interruption is forgotten.
BeginLine(kind) ==
  /\ \E n \in 1 .. MaxChunks :
       line' = [kind |-> kind, left |-> n, at |-> "synthesize", spoken |-> FALSE]
  /\ interrupted' = FALSE

Greeting == loop = "greet_speak"
Speaking == Greeting \/ turn = "speak"

\* What follows the line: the greeting is committed, the filler goes on to the
\* engine, a line that gives up hands the call over, any other ends its turn.
LineOver ==
  /\ line' = NoLine
  /\ loop' = IF Greeting THEN "greet_commit" ELSE loop
  /\ turn' = IF Greeting THEN turn ELSE IF line.kind = "filler" THEN "engine" ELSE "commit"
  /\ session' = IF line.kind \in {"give_up", "hand_over"} THEN HandOver(session)
                ELSE IF line.kind = "transfer" THEN [session EXCEPT !.should_close = TRUE]
                ELSE session

\* The sentence just dealt with was the last one, or the caller has interrupted.
NextSentence(spoken) ==
  IF line.left = 1 \/ interrupted THEN LineOver
  ELSE /\ line' = [kind |-> line.kind, left |-> line.left - 1, at |-> "synthesize",
                   spoken |-> spoken]
       /\ UNCHANGED <<loop, turn, session>>

\* The sentence is synthesized; playback is reckoned from here on.
Synthesize ==
  /\ Speaking /\ line.at = "synthesize"
  /\ IF interrupted THEN LineOver /\ UNCHANGED playing
     ELSE /\ line' = [line EXCEPT !.at = "send"]
          /\ playing' = TRUE
          /\ UNCHANGED <<loop, turn, session>>
  /\ UNCHANGED <<interrupted, store, online, turns>>

\* The synthesizer returned no samples: the sentence is skipped.
SynthesizeNothing ==
  /\ Speaking /\ line.at = "synthesize"
  /\ NextSentence(line.spoken)
  /\ UNCHANGED <<playing, interrupted, store, online, turns>>

\* The synthesizer raised.  After a first sentence the line just stops; before
\* it, SpeechUnavailable: the greeting hands the call over, a turn rolls back.
SynthesizeFails ==
  /\ Speaking /\ line.at = "synthesize"
  /\ IF line.spoken THEN LineOver
     ELSE /\ line' = NoLine
          /\ loop' = IF Greeting THEN "greet_commit" ELSE loop
          /\ turn' = IF Greeting THEN turn ELSE "rollback"
          /\ session' = IF Greeting THEN HandOver(session) ELSE session
  /\ UNCHANGED <<playing, interrupted, store, online, turns>>

\* send_audio
Send ==
  /\ Speaking /\ line.at = "send" /\ online
  /\ NextSentence(TRUE)
  /\ UNCHANGED <<playing, interrupted, store, online, turns>>

\* send_audio finds the socket closed: CallDisconnected.
SendFails ==
  /\ Speaking /\ line.at = "send" /\ ~online
  /\ line' = NoLine
  /\ loop' = IF Greeting THEN "ending" ELSE loop
  /\ turn' = IF Greeting THEN turn ELSE "hangup_commit"
  /\ session' = IF Greeting THEN session ELSE [session EXCEPT !.should_close = TRUE]
  /\ UNCHANGED <<playing, interrupted, store, online, turns>>

-----------------------------------------------------------------------------
(* Answering the call: start().                                             *)

LoopStep == UNCHANGED <<turn, interrupted, playing, online, turns>>

Start ==
  /\ loop = "accepted" /\ online
  /\ loop' = "lookup"
  /\ UNCHANGED <<line, session, store>>
  /\ LoopStep

\* get_caller_profile: an error is logged and the greeting goes on; if it was
\* the database's, the transaction it happened in goes on with it.
LookUpCaller ==
  /\ loop = "lookup"
  /\ loop' = "greet_record"
  /\ store' \in {store, Refused(store)}
  /\ UNCHANGED <<line, session>>
  /\ LoopStep

RecordGreeting ==
  /\ loop = "greet_record"
  /\ \/ /\ CanRecord
        /\ store' = Write(store)
        /\ loop' = "greet_speak"
        /\ BeginLine("greeting")
     \/ /\ ~CanRecord
        /\ loop' = "ending"
        /\ UNCHANGED <<store, line, interrupted>>
  /\ UNCHANGED <<turn, playing, session, online, turns>>

\* Refused, the error leaves the read loop and the call is ended.
CommitGreeting ==
  /\ loop = "greet_commit"
  /\ \/ store' = Commit(store) /\ loop' = "read"
     \/ store' = Refused(store) /\ loop' = "ending"
  /\ UNCHANGED <<line, session>>
  /\ LoopStep

-----------------------------------------------------------------------------
(* The read loop: one media frame, or the end of the stream.                *)

AfterFrame == loop' = IF session.should_close THEN "ending" ELSE "read"

\* (mutant: a frame dropped during a turn does not look at should_close)
CloseOnFrame_IfQuiet ==
  /\ loop = "read" /\ online /\ session.should_close
  /\ turn = "idle"
  /\ AfterFrame
  /\ UNCHANGED <<line, session, store>>
  /\ LoopStep

\* A frame that changes nothing is how the loop finds out that it should close:
\* dropped while the assistant speaks or a turn is in flight, or not yet an utterance.
CloseOnFrame ==
  /\ loop = "read" /\ online /\ session.should_close
  /\ AfterFrame
  /\ UNCHANGED <<line, session, store>>
  /\ LoopStep

\* _interrupt: the caller has talked over the assistant for long enough.
Interrupt ==
  /\ loop = "read" /\ online
  /\ playing /\ BargeIn
  /\ interrupted' = TRUE
  /\ playing' = FALSE
  /\ AfterFrame
  /\ UNCHANGED <<turn, line, session, store, online, turns>>

\* (mutant: a second turn is not kept from starting)
StartTurn_Unguarded ==
  /\ loop = "read" /\ online /\ ~playing
  /\ turns < MaxTurns
  /\ turn' = "stt"
  /\ turns' = turns + 1
  /\ AfterFrame
  /\ UNCHANGED <<line, playing, interrupted, session, store, online>>

\* The turn detector has a complete utterance: the turn runs as a task of its own.
StartTurn ==
  /\ loop = "read" /\ online
  /\ ~playing
  /\ turn = "idle"
  /\ turns < MaxTurns
  /\ turn' = "stt"
  /\ turns' = turns + 1
  /\ AfterFrame
  /\ UNCHANGED <<line, playing, interrupted, session, store, online>>

\* WebSocketDisconnect or the stop event; clear_audio on a closed socket raises
\* into the same place.
StreamEnds ==
  /\ loop \in {"accepted", "read"} /\ ~online
  /\ loop' = "ending"
  /\ UNCHANGED <<line, session, store>>
  /\ LoopStep

HangUp ==
  /\ online
  /\ online' = FALSE
  /\ UNCHANGED <<loop, turn, line, playing, interrupted, session, store, turns>>

\* The clock passes _speaking_until.
PlaybackEnds ==
  /\ playing
  /\ playing' = FALSE
  /\ UNCHANGED <<loop, turn, line, interrupted, session, store, online, turns>>

-----------------------------------------------------------------------------
(* A turn: _run_turn and _process_utterance.                                *)

TurnStep == UNCHANGED <<loop, playing, online, turns>>

\* The turn goes on to record, then speak, a line of the given kind.
ToRecord(kind) == turn' = "record" /\ line' = [NoLine EXCEPT !.kind = kind]

\* Speech recognition came back with nothing worth acting on, or raised.
NothingHeard ==
  /\ turn = "stt"
  /\ turn' \in {"commit", "rollback"}
  /\ UNCHANGED <<line, interrupted, session, store>>
  /\ TurnStep

\* (mutant: > for >=)
Garbled_OffByOne ==
  /\ turn = "stt"
  /\ session' = [session EXCEPT !.unheard = @ + 1]
  /\ ToRecord(IF session.unheard + 1 > MaxUnheard THEN "give_up" ELSE "ask_again")
  /\ UNCHANGED <<interrupted, store>>
  /\ TurnStep

\* Below STT_MIN_CONFIDENCE: ask again, or give up after MaxUnheard in a row.
Garbled ==
  /\ turn = "stt"
  /\ session' = [session EXCEPT !.unheard = @ + 1]
  /\ ToRecord(IF session.unheard + 1 >= MaxUnheard THEN "give_up" ELSE "ask_again")
  /\ UNCHANGED <<interrupted, store>>
  /\ TurnStep

Understood ==
  /\ turn = "stt"
  /\ session' = [session EXCEPT !.unheard = 0]
  /\ turn' = "record_caller"
  /\ UNCHANGED <<line, interrupted, store>>
  /\ TurnStep

RecordCaller ==
  /\ turn = "record_caller"
  /\ \/ /\ CanRecord
        /\ store' = Write(store)
        /\ IF Filler THEN turn' = "speak" /\ BeginLine("filler")
           ELSE turn' = "engine" /\ UNCHANGED <<line, interrupted>>
     \/ /\ store' = IF CanRecord THEN Refused(store) ELSE store
        /\ turn' = "rollback"
        /\ UNCHANGED <<line, interrupted>>
  /\ UNCHANGED session
  /\ TurnStep

EngineReturns(kind, s) ==
  /\ session' = [s EXCEPT !.failures = 0]
  /\ ToRecord(kind)

\* The caller talked past an offer: it is dismissed before the models are asked.
EngineListens ==
  /\ turn = "engine"
  /\ session' \in Listened(session)
  /\ UNCHANGED <<turn, line, interrupted, store>>
  /\ TurnStep

\* The engine answers from the models alone.
EngineReplies ==
  /\ turn = "engine"
  /\ \/ \E s \in Replies(session) : EngineReturns("reply", s)
     \/ \E s \in Connected(session) : EngineReturns("transfer", s)
  /\ UNCHANGED <<interrupted, store>>
  /\ TurnStep

\* The engine turns to the database: opening hours, or a booking.
EngineQueries ==
  /\ turn = "engine" /\ session.state # "transfer"
  /\ turn' = "engine_db"
  /\ session' \in Listened(session)
  /\ UNCHANGED <<line, interrupted, store>>
  /\ TurnStep

EngineReads ==
  /\ turn = "engine_db"
  /\ EngineReturns("reply", Informed(session))
  /\ UNCHANGED <<interrupted, store>>
  /\ TurnStep

\* create_reservation_request: the row and its notifications are flushed.
EngineBooks ==
  /\ turn = "engine_db"
  /\ EngineReturns("booked", Settled(session))
  /\ store' = Booked(Write(store))
  /\ UNCHANGED interrupted
  /\ TurnStep

\* _recover_from_engine_failure, up to its first await.
EngineRaises ==
  /\ turn \in {"engine", "engine_db"} /\ session.state # "transfer"
  /\ store' \in {store} \cup (IF turn = "engine_db" THEN {Refused(store)} ELSE {})
  /\ session' = [session EXCEPT !.failures = @ + 1]
  /\ ToRecord(IF session.failures + 1 >= MaxFailures THEN "hand_over" ELSE "trouble")
  /\ UNCHANGED interrupted
  /\ TurnStep

\* The line goes into the transcript; the outcome of the call follows the reply.
RecordLine ==
  /\ turn = "record"
  /\ \/ /\ CanRecord
        /\ store' = Write(store)
        /\ session' = UpdateOutcome(line.kind, session)
        /\ turn' = "speak"
        /\ BeginLine(line.kind)
     \/ /\ store' = IF CanRecord THEN Refused(store) ELSE store
        /\ turn' = "rollback"
        /\ line' = NoLine
        /\ UNCHANGED <<interrupted, session>>
  /\ TurnStep

\* The turn's commit, after a turn that ran to its end or a hangup during it.  If it
\* fails the one turn is rolled back, the other ends with the error.
CommitTurn ==
  /\ turn \in {"commit", "hangup_commit"}
  /\ \/ store' = Commit(store) /\ turn' = "idle"
     \/ /\ store.tx # "idle"
        /\ store' \in CommitFails(store)
        /\ turn' = IF turn = "commit" THEN "rollback" ELSE "idle"
  /\ UNCHANGED <<line, interrupted, session>>
  /\ TurnStep

\* Any other exception: the turn is rolled back and the call stands.
RollbackTurn ==
  /\ turn = "rollback"
  /\ store' = Rollback(store)
  /\ turn' = "idle"
  /\ UNCHANGED <<line, interrupted, session>>
  /\ TurnStep

-----------------------------------------------------------------------------
(* The end of the call: end() and the finally of media_stream.              *)

EndStep == UNCHANGED <<playing, interrupted, online, turns>>

\* (mutant: the turn in flight is not waited for)
EndCall_NoDrain ==
  /\ loop = "ending"
  /\ loop' = "finalize"
  /\ UNCHANGED <<turn, line, session, store>>
  /\ EndStep

\* A turn in flight is given _TURN_DRAIN_SECONDS.
EndCall ==
  /\ loop = "ending"
  /\ loop' = IF turn = "idle" THEN "finalize" ELSE "drain"
  /\ UNCHANGED <<turn, line, session, store>>
  /\ EndStep

TurnDrained ==
  /\ loop = "drain" /\ turn = "idle"
  /\ loop' = "finalize"
  /\ UNCHANGED <<turn, line, session, store>>
  /\ EndStep

\* (mutant: end() waits for the turn however long it takes)
CancelTurn_Waits == TurnDrained

\* It took too long: it is cancelled at its await.  The shielded commit goes on
\* without it; any other database operation is cut off halfway.
CancelTurn ==
  /\ loop = "drain" /\ turn # "idle"
  /\ loop' = "finalize"
  /\ turn' = "idle"
  /\ line' = NoLine
  /\ store' = IF turn = "commit" THEN [store EXCEPT !.orphan = TRUE]
              ELSE IF turn \in TurnDatabase THEN [store EXCEPT !.tx = "broken"]
              ELSE store
  /\ UNCHANGED session
  /\ EndStep

\* The commit the cancelled turn left behind completes, or fails unheard.
OrphanCommits ==
  /\ store.orphan
  /\ \E s \in {Commit(store)} \cup (IF store.tx = "idle" THEN {} ELSE CommitFails(store)) :
       store' = [s EXCEPT !.orphan = FALSE]
  /\ UNCHANGED <<loop, turn, line, session>>
  /\ EndStep

CanFinalize == CanRecord /\ ~store.orphan

\* finalize_call flushes; UNKNOWN is never filed.
Finalize ==
  /\ loop = "finalize"
  /\ CanFinalize
  /\ store' = Write(store)
  /\ loop' = "final_commit"
  /\ UNCHANGED <<turn, line, session>>
  /\ EndStep

\* It raised: out of end(), out of media_stream, and the request's database
\* session is rolled back and closed.
FinalizeRaises ==
  /\ loop = "finalize"
  /\ ~CanFinalize
  /\ store' = IF store.orphan THEN store ELSE Rollback(store)
  /\ loop' = "failed"
  /\ UNCHANGED <<turn, line, session>>
  /\ EndStep

\* What the call is filed as.
Filing(s) ==
  [outcome |-> IF s.outcome = "UNKNOWN" THEN "CALL_ABANDONED" ELSE s.outcome,
   transferred |-> s.state = "transfer",
   escalated |-> s.reason = "escalation"]

FinalCommit ==
  /\ loop = "final_commit"
  /\ store' = [Commit(store) EXCEPT !.filed = Filing(session)]
  /\ loop' = "closed"
  /\ UNCHANGED <<turn, line, session>>
  /\ EndStep

\* The flush of finalize_call or the commit after it raises, out of media_stream: the
\* call is not filed, unless only the answer to the commit was lost.
FilingRefused ==
  /\ \/ loop = "finalize" /\ CanFinalize /\ store' = Rollback(Refused(store))
     \/ /\ loop = "final_commit"
        /\ \E s \in {store, [Commit(store) EXCEPT !.filed = Filing(session)]} :
             store' = Rollback(Refused(s))
  /\ loop' = "refused"
  /\ UNCHANGED <<turn, line, session>>
  /\ EndStep

-----------------------------------------------------------------------------
Init ==
  /\ loop = "accepted"
  /\ turn = "idle"
  /\ line = NoLine
  /\ playing = FALSE
  /\ interrupted = FALSE
  /\ session = [state |-> "talking", reason |-> "none", answered |-> FALSE,
                unheard |-> 0, failures |-> 0, outcome |-> "UNKNOWN",
                should_close |-> FALSE]
  /\ store = [tx |-> "open", loaded |-> TRUE, orphan |-> FALSE, reservation |-> "none",
              filed |-> NotFiled]
  /\ online = TRUE
  /\ turns = 0

Speak == Synthesize \/ SynthesizeNothing \/ SynthesizeFails \/ Send \/ SendFails

Greet == Start \/ LookUpCaller \/ RecordGreeting \/ CommitGreeting

\* Everything the read loop does of its own, the frame that tells it to close included.
LoopRuns ==
  Greet \/ (Greeting /\ Speak) \/ CloseOnFrame \/ StreamEnds
  \/ EndCall \/ TurnDrained \/ CancelTurn \/ Finalize \/ FinalizeRaises \/ FinalCommit
  \/ FilingRefused

TurnRuns ==
  \/ turn = "speak" /\ Speak
  \/ NothingHeard \/ Garbled \/ Understood \/ RecordCaller
  \/ EngineListens \/ EngineReplies \/ EngineQueries \/ EngineReads \/ EngineBooks \/ EngineRaises
  \/ RecordLine \/ CommitTurn \/ RollbackTurn

Next ==
  \/ LoopRuns
  \/ TurnRuns
  \/ Interrupt
  \/ StartTurn
  \/ OrphanCommits
  \/ HangUp
  \/ PlaybackEnds

Spec == Init /\ [][Next]_vars

\* The loop's own awaits return: speech of the greeting is synthesized locally,
\* its database statements come back, frames arrive while the caller is online,
\* the drain is bounded by a timer.  Nothing is assumed of the turn.
FairSpec == Spec /\ WF_vars(LoopRuns)
-----------------------------------------------------------------------------
(* Properties.                                                              *)

LoopAwaits == LoopDatabase \cup {"accepted", "greet_speak", "read", "ending", "drain",
                                 "closed", "failed", "refused"}
TurnAwaits == TurnDatabase \cup {"idle", "stt", "speak", "engine"}
Over == {"closed", "failed", "refused"}

LineType == [kind : LineKinds \cup {"none"}, left : 0 .. MaxChunks,
             at : {"none", "synthesize", "send"}, spoken : BOOLEAN]

SessionType ==
  [state : {"talking", "offering", "transfer"}, reason : Reasons \cup {"none"},
   answered : BOOLEAN, unheard : 0 .. MaxTurns, failures : 0 .. MaxTurns,
   outcome : Outcomes, should_close : BOOLEAN]

FilingType ==
  [outcome : Outcomes \cup {"CALL_ABANDONED"}, transferred : BOOLEAN, escalated : BOOLEAN]

StoreType ==
  [tx : {"idle", "open"} \cup Unusable, loaded : BOOLEAN, orphan : BOOLEAN,
   reservation : {"none", "pending", "saved"}, filed : FilingType]

\* Every variable holds a value the code can give it.
TypeOK ==
  /\ loop \in LoopAwaits
  /\ turn \in TurnAwaits
  /\ line \in LineType
  /\ playing \in BOOLEAN
  /\ interrupted \in BOOLEAN
  /\ session \in SessionType
  /\ store \in StoreType
  /\ online \in BOOLEAN
  /\ turns \in 0 .. MaxTurns

\* One actor speaks: a line is being synthesized or sent exactly while the
\* greeting or the one turn in flight is speaking, and the two never overlap.
OneSpeaker ==
  /\ line.at # "none" <=> Speaking
  /\ ~(Greeting /\ turn = "speak")

\* The turn uses the database session, or the commit it was cancelled in still does.
TurnUsesDatabase == turn \in TurnDatabase \/ store.orphan

\* The read loop and the turn task are inside the database session at the same time in
\* one case only: the turn was in its shielded commit when the time to drain it ran out,
\* and the commit is still going on when finalize_call begins.
OneUserOfTheDatabase ==
  loop \in LoopDatabase /\ TurnUsesDatabase => loop = "finalize" /\ store.orphan

\* The session closes the stream of a caller who is still there only to hand the
\* call over: TRANSFER_TO_HUMAN is what the transfer webhook will be told.
ClosesOnlyToHandOver == session.should_close /\ online => session.state = "transfer"

\* A caller who could not be understood, or who met a failing back end, the
\* allowed number of times in a row is being handed over by the time the turn
\* ends (unless the turn itself was rolled back or cut short).
StrikesHandOver ==
  (session.unheard >= MaxUnheard \/ session.failures >= MaxFailures)
      /\ turn = "idle" /\ loop = "read" /\ online
    => session.state = "transfer" \/ ~store.loaded

\* The filed outcome and the flag the transfer webhook dials on agree: the call is
\* filed as a transfer or an escalation exactly when it is marked transferred,
\* though the engine sets the one before a database write and the session the
\* other after it.
OutcomeAgreesWithTransfer ==
  store.filed # NotFiled => (store.filed.transferred <=> store.filed.outcome \in Transfers)

\* A call is filed as RESERVATION_CREATED only if the booking was committed, and a
\* committed booking of a call that is filed is filed as one unless the call was handed
\* over afterwards: whichever of the commits were refused, or only seemed to be.
BookingIsFiled ==
  store.filed # NotFiled =>
    /\ store.filed.outcome = "RESERVATION_CREATED" => store.reservation = "saved"
    /\ store.reservation = "saved" =>
         store.filed.outcome \in Transfers \cup {"RESERVATION_CREATED"}

\* However slow the turn in flight is, a hangup ends the session: the call is
\* filed or the attempt to file it has failed.
HangUpEndsSession == ~online ~> loop \in Over

\* Once the session has decided to hand over, the stream is closed, be the caller
\* silent, talking over the assistant or gone.
HandOverEndsStream == session.should_close ~> loop \in Over

-----------------------------------------------------------------------------
(* The session implements what CallRecord takes it for: a writer that files the row of   *)
(* the call at most once, with a decision, and that gives up a caller who is there only  *)
(* by deciding to hand over or by dying.                                                 *)

\* The session is at its end with something to file, though it may yet be refused.
Decided ==
  loop \in {"final_commit", "closed", "refused"} \/ (loop = "finalize" /\ CanFinalize)

\* The columns of the row that a filing fills, as coarse as CallRecord has them.
FiledRow(filing) ==
  [exists |-> TRUE, ended |-> TRUE, transferred |-> filing.transferred,
   outcome |-> CASE filing.outcome \in Transfers -> "HUMAN_ESCALATION"
                 [] filing.outcome = "CALL_ABANDONED" -> "CALL_ABANDONED"
                 [] OTHER -> "FAQ_ANSWERED"]
LiveRow == [exists |-> TRUE, ended |-> FALSE, transferred |-> FALSE, outcome |-> "UNKNOWN"]

SessionOfRecord ==
  [at |-> CASE loop = "closed" -> "committed"
            [] loop \in {"failed", "refused"} -> "dead"
            [] loop = "final_commit" -> "flushed"
            [] loop = "finalize" /\ Decided -> "finalize"
            [] OTHER -> "live",
   seen |-> LiveRow,
   new |-> IF Decided THEN FiledRow(Filing(session)) ELSE LiveRow,
   closed |-> FALSE]

\* No status callback comes before the call is over for Twilio, and the stream that is
\* closed after the commit is CallRecord's to close.
Record == INSTANCE CallRecord WITH
  Callbacks <- {}, CanDial <- TRUE, MaxRetries <- 0,
  row <- IF store.filed # NotFiled THEN FiledRow(store.filed) ELSE LiveRow,
  twilio <- CASE ~online -> "over"
              [] online /\ loop \in {"failed", "refused"} -> "redirecting"
              [] OTHER -> "streaming",
  session <- SessionOfRecord,
  status <- <<>>,
  lock <- IF loop = "final_commit" THEN "session" ELSE "free",
  dialed <- FALSE,
  retries <- 0

\* From the opening of the stream on, all that the session does to the row and to the
\* call is a step CallRecord knows: whatever the turn in flight was doing when the call
\* ended, it is filed with a decision whose outcome and flag agree, or not at all, and a
\* caller who is still there is let go only by a decision to hand over, or by a failure.
ImplementsRecord == Record!StreamOpen /\ [][Record!Next]_Record!vars

-----------------------------------------------------------------------------
(* What the repository's comments say of the session and it does not do.    *)

\* session.py:387 says of a turn that failed that it leaves "the call standing".
FailedTurnLeavesCallStanding == loop = "read" => store.loaded
=============================================================================
